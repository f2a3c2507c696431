--------------------------- MODULE AirtableSource ---------------------------
(***************************************************************************)
(* Reading the base to import from Airtable (imports/airtable: client.ts,   *)
(* prepare.ts, mapping.ts).  Nothing of Airtable is a snapshot: the schema  *)
(* is read at the preview and again at the import, records come page by     *)
(* page with an offset between, and people edit meanwhile.  Whatever of     *)
(* that can be noticed fails the import before anything is written.         *)
(*                                                                         *)
(* A record has an id, the fields it has values in, and the records its     *)
(* link field names; other values are left out.  An offset is the position  *)
(* the next page begins at: Airtable's, external to this code.              *)
(***************************************************************************)
EXTENDS FiniteSets, Naturals, SequencesExt

CONSTANTS
  SrcTable, SrcField, SrcRecord,
  KindOf,          \* of a field: "value", "link", "snapshot" or "skipped"
  LinksTo,         \* LinksTo[t]: the table the links of t's records name
  FirstSchema,     \* fields of each table to begin with
  FirstRows,       \* records of each table to begin with
  PageSize, RateRetries, ServerRetries,
  MaxRecords,      \* AIRTABLE_LIMITS.records
  MaxSourceEdits   \* bound

SrcRow == [id : SrcRecord, fields : SUBSET SrcField, links : SUBSET SrcRecord]

ASSUME SourceAssumption ==
  /\ KindOf \in [SrcField -> {"value", "link", "snapshot", "skipped"}]
  /\ LinksTo \in [SrcTable -> SrcTable]
  /\ FirstSchema \in [SrcTable -> SUBSET SrcField] /\ FirstRows \in [SrcTable -> Seq(SrcRow)]
  /\ {PageSize, RateRetries, ServerRetries, MaxRecords, MaxSourceEdits} \subseteq Nat
  /\ PageSize > 0

VARIABLES
  schemaNow, rowsNow,   \* the base at Airtable
  edits, editsAtStart,  \* history: edits so far, and when the import began
  shown,                \* the plan of the preview, once there is one
  consent,              \* the losses of the plan shown were accepted
  at,                   \* what prepareImport is about to read
  plan,                 \* its own plan
  todo,                 \* tables still to be read
  offset, offsets,      \* of the table being read; the offsets Airtable gave
  taken,                \* the records kept, by table
  retries               \* of the current request: rate limit and server errors

srcVars == <<schemaNow, rowsNow, edits>>
jobVars == <<at, plan, todo, offset, offsets, taken, retries, editsAtStart>>
sourceVars == <<srcVars, shown, consent, jobVars>>

NoPlan == [t \in {} |-> {}]
Fresh == [rate |-> 0, server |-> 0]

SourceInit ==
  /\ schemaNow = FirstSchema /\ rowsNow = FirstRows
  /\ edits = 0 /\ editsAtStart = 0
  /\ shown = NoPlan /\ consent = FALSE
  /\ at = "idle" /\ plan = NoPlan /\ todo = {}
  /\ offset = 0 /\ offsets = {}
  /\ taken = [t \in SrcTable |-> <<>>]
  /\ retries = Fresh

IdsIn(rows) == {rows[k].id : k \in DOMAIN rows}

-----------------------------------------------------------------------------
(***************************************************************************)
(* preflight: what becomes of each field, and what the user must accept.    *)
(***************************************************************************)
Mapped(schema, t) == {f \in schema[t] : KindOf[f] # "skipped"}
Issues(schema) == {f \in UNION {schema[t] : t \in SrcTable} : KindOf[f] \in {"snapshot", "skipped"}}

(* The user looks at a preview of the schema as it is, and may accept what   *)
(* it loses.                                                                *)
Preview ==
  /\ at = "idle"
  /\ shown' = schemaNow /\ consent' \in BOOLEAN
  /\ UNCHANGED <<srcVars, jobVars>>

Import ==
  /\ at = "idle" /\ shown # NoPlan
  /\ at' = "schema" /\ editsAtStart' = edits
  /\ UNCHANGED <<srcVars, shown, consent, plan, todo, offset, offsets, taken, retries>>

-----------------------------------------------------------------------------
(***************************************************************************)
(* api: one request at a time, a rate limit retried once, server errors     *)
(* twice, anything else and the deadline end the import.                    *)
(***************************************************************************)
Asking == at \in {"schema", "records"}

RateLimited ==
  /\ Asking /\ retries.rate < RateRetries
  /\ retries' = [retries EXCEPT !.rate = @ + 1]
  /\ UNCHANGED <<srcVars, shown, consent, at, plan, todo, offset, offsets, taken, editsAtStart>>

ServerFault ==
  /\ Asking /\ retries.server < ServerRetries
  /\ retries' = [retries EXCEPT !.server = @ + 1]
  /\ UNCHANGED <<srcVars, shown, consent, at, plan, todo, offset, offsets, taken, editsAtStart>>

GiveUp == at' = "failed" /\ UNCHANGED <<plan, todo, offset, offsets, taken, retries>>

(* Retries used up, another status, an unsafe address, too large an answer,  *)
(* a cancellation or the deadline.                                          *)
SourceBreaks ==
  /\ at \in {"schema", "records", "attachments"}
  /\ GiveUp
  /\ UNCHANGED <<srcVars, shown, consent, editsAtStart>>

(* The schema again: its hash is the confirmed one, and its losses accepted. *)
ReadSchema ==
  /\ at = "schema"
  /\ IF schemaNow = shown /\ (Issues(schemaNow) # {} => consent)
     THEN /\ at' = "records" /\ plan' = schemaNow /\ todo' = SrcTable /\ retries' = Fresh
          /\ UNCHANGED <<offset, offsets, taken>>
     ELSE GiveUp
  /\ UNCHANGED <<srcVars, shown, consent, editsAtStart>>

-----------------------------------------------------------------------------
(***************************************************************************)
(* Records.                                                                *)
(***************************************************************************)
(* recordIds: no record of any table was read before. *)
NewIds(page) ==
  /\ Cardinality(IdsIn(page)) = Len(page)
  /\ IdsIn(page) \cap UNION {IdsIn(taken[t]) : t \in SrcTable} = {}

(* validateRecordValues: fields of the plan only. *)
FieldsKnown(t, page) == \A k \in DOMAIN page : page[k].fields \subseteq plan[t]

Count == Cardinality(UNION {{<<t, k>> : k \in DOMAIN taken[t]} : t \in SrcTable})

(* What is kept of a record: values of mapped fields. *)
Kept(t, page) ==
  [k \in DOMAIN page |-> [page[k] EXCEPT !.fields = @ \cap Mapped(plan, t)]]

ReadPage(t) ==
  LET rows == rowsNow[t]
      page == SubSeq(rows, offset + 1, Min({offset + PageSize, Len(rows)}))
      ends == offset + PageSize >= Len(rows)
  IN
  /\ at = "records" /\ t \in todo
  /\ offset > 0 => taken[t] # <<>>
  /\ IF /\ NewIds(page) /\ FieldsKnown(t, page)
        /\ Count + Len(page) <= MaxRecords
     THEN /\ taken' = [taken EXCEPT ![t] = @ \o Kept(t, page)]
          /\ retries' = Fresh
          /\ IF ends
             THEN /\ todo' = todo \ {t} /\ offset' = 0 /\ offsets' = {}
                  /\ at' = IF todo = {t} THEN "links" ELSE at
             ELSE /\ offset' = offset + PageSize
                  /\ offsets' = offsets \union {offset + PageSize}
                  /\ UNCHANGED <<todo, at>>
          /\ UNCHANGED plan
     ELSE GiveUp
  /\ UNCHANGED <<srcVars, shown, consent, editsAtStart>>

(* Airtable gives an offset twice: the import would go round. *)
RepeatsOffset ==
  /\ at = "records" /\ offsets # {}
  /\ GiveUp
  /\ UNCHANGED <<srcVars, shown, consent, editsAtStart>>

(* Mutant of LinksResolve: a link is good if its target was in the source.  *)
LinksAnywhere == \A t \in SrcTable : \A k \in DOMAIN taken[t] : taken[t][k].links \subseteq SrcRecord

(* The last pass: every linked record was read, in the target's table. *)
LinksResolve ==
  \A t \in SrcTable : \A k \in DOMAIN taken[t] :
    taken[t][k].links \subseteq IdsIn(taken[LinksTo[t]])

CheckLinks ==
  /\ at = "links"
  /\ IF LinksResolve
     THEN at' = "attachments" /\ UNCHANGED <<plan, todo, offset, offsets, taken, retries>>
     ELSE GiveUp
  /\ UNCHANGED <<srcVars, shown, consent, editsAtStart>>

(* The attachments' bytes, all of them within the limits, or SourceBreaks.   *)
FetchAttachments ==
  /\ at = "attachments" /\ at' = "prepared"
  /\ UNCHANGED <<srcVars, shown, consent, plan, todo, offset, offsets, taken, retries, editsAtStart>>

-----------------------------------------------------------------------------
(***************************************************************************)
(* People at Airtable (external).                                          *)
(***************************************************************************)
Edit == at # "prepared" /\ edits < MaxSourceEdits /\ edits' = edits + 1

Ids == UNION {IdsIn(rowsNow[t]) : t \in SrcTable}

HasLinks(t) == \E f \in schemaNow[t] : KindOf[f] = "link"

(* A record at the front of the listing, or at its end. *)
AddSourceRecord(t, r) ==
  /\ Edit /\ r \notin Ids
  /\ \E l \in SUBSET (IF HasLinks(t) THEN IdsIn(rowsNow[LinksTo[t]]) ELSE {}), front \in BOOLEAN :
       LET new == [id |-> r, fields |-> schemaNow[t], links |-> l] IN
       rowsNow' = [rowsNow EXCEPT ![t] = IF front THEN <<new>> \o @ ELSE Append(@, new)]
  /\ UNCHANGED <<schemaNow, shown, consent, jobVars>>

(* Airtable takes a deleted record out of the links that name it. *)
DeleteSourceRecord(t, r) ==
  /\ Edit
  /\ \E j \in DOMAIN rowsNow[t] :
       LET left == [rowsNow EXCEPT ![t] = RemoveAt(@, j)] IN
       /\ rowsNow[t][j].id = r
       /\ rowsNow' = [u \in SrcTable |->
            [k \in DOMAIN left[u] |-> [left[u][k] EXCEPT !.links = @ \ {r}]]]
  /\ UNCHANGED <<schemaNow, shown, consent, jobVars>>

(* A field is made or removed, with its values. *)
ChangeField(t, f) ==
  /\ Edit
  /\ LET gone == f \in schemaNow[t]
         Of(row) == [row EXCEPT !.fields = IF gone THEN @ \ {f} ELSE @ \union {f},
                                !.links = IF gone /\ KindOf[f] = "link" THEN {} ELSE @]
     IN
     /\ schemaNow' = [schemaNow EXCEPT ![t] = IF gone THEN @ \ {f} ELSE @ \union {f}]
     /\ rowsNow' = [rowsNow EXCEPT ![t] = [k \in DOMAIN @ |-> Of(@[k])]]
  /\ UNCHANGED <<shown, consent, jobVars>>

SourceNext ==
  \/ Preview \/ Import \/ RateLimited \/ ServerFault \/ SourceBreaks
  \/ ReadSchema \/ RepeatsOffset \/ CheckLinks \/ FetchAttachments
  \/ \E t \in SrcTable : ReadPage(t)
  \/ \E t \in SrcTable, r \in SrcRecord : AddSourceRecord(t, r) \/ DeleteSourceRecord(t, r)
  \/ \E t \in SrcTable, f \in SrcField : ChangeField(t, f)

SourceSpec == SourceInit /\ [][SourceNext]_sourceVars

-----------------------------------------------------------------------------
(* What is handed on to be written, whatever was edited while it was read:   *)
(* the plan the user saw and accepted, no record twice, no value of a field  *)
(* outside the plan, no link to a record that is not written with it; and    *)
(* the base itself if nothing was edited.                                   *)
PreparedIsSound ==
  at = "prepared" =>
    /\ plan = shown /\ (Issues(plan) # {} => consent)
    /\ \A t, u \in SrcTable : \A j \in DOMAIN taken[t], k \in DOMAIN taken[u] :
         taken[t][j].id = taken[u][k].id => t = u /\ j = k
    /\ \A t \in SrcTable : \A k \in DOMAIN taken[t] :
         /\ taken[t][k].fields \subseteq Mapped(plan, t)
         /\ taken[t][k].links \subseteq IdsIn(taken[LinksTo[t]])
    /\ edits = editsAtStart => \A t \in SrcTable : taken[t] = Kept(t, rowsNow[t])
=============================================================================
