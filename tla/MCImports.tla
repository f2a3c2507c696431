----------------------------- MODULE MCImports -----------------------------
(* Instances for TLC of what brings data into a base and out of it in bulk:  *)
(* AirtableImport, AirtableSource, ImportPage, CsvTransfer, Attachments,     *)
(* AgentAccess.  They share no state: a behaviour is one of a single module. *)
EXTENDS AirtableImport, AirtableSource, ImportPage, CsvTransfer, Attachments, AgentAccess, TLC

CONSTANTS a1, a2, a3, r1, r2, b1, b2, s1, s2, s3, i1, i2, e1, e2, t2, x1, x2, fv, fl, fo, d1, d2, d3,
  g1, g2, w1

(* An attempt and a retry, and an import of another request that only takes *)
(* the slot, while nothing of the first and no clean-up runs on without it:  *)
(* its database lock, journal and files would be its own, and once it is     *)
(* done it is as if it had never been.                                      *)
TwoRequests == [a \in {a1, a2, a3} |-> IF a = a3 THEN r2 ELSE r1]
OnlySlot ==
  /\ pc[a3] \in {"idle", "claim", "prepare"}
  /\ pc[a3] # "idle" =>
       /\ \A a \in {a1, a2} : pc[a] \in {"idle", "claim", "claimNow", "waiting", "done"}
       /\ cli = Idle /\ removing = {}

(* Calls of start are equals: they go in order. *)
CallsInOrder ==
  /\ startCall[s2].at # "idle" => startCall[s1].at # "idle"
  /\ startCall[s3].at # "idle" => startCall[s2].at # "idle"

(* Two imports, two exports, or one of each; of equals the first goes first, *)
(* and an import that goes first is one into the first table.               *)
Moving ==
  {i \in CsvImport : upload[i].at # "idle"} \union {e \in CsvExport : download[e].at # "idle"}
TwoTransfers ==
  /\ Cardinality(Moving) <= 2
  /\ i2 \in Moving => i1 \in Moving
  /\ e2 \in Moving => e1 \in Moving
  /\ upload[i1].table # t2

(* Two of uploads, a cell write and a deletion at a time; downloads, which  *)
(* only read the rest, while none of these is under way.                    *)
Sizes == [f \in {g1, g2} |-> IF f = g1 THEN 2 ELSE 1]
AtWork ==
  {f \in File : post[f] \in {"quota", "put", "insert"}} \cup {u \in User : write[u].at # "idle"}
  \cup {x \in {WholeBase} : deletion.at # "idle"}
TwoAtWork ==
  /\ Cardinality(AtWork) <= 2
  /\ (\E d \in Get : get[d].at # "idle") =>
       AtWork = {} /\ post[g2] = "idle" /\ cells[w1] = {}

(* Two tables at Airtable, with a link, a record linked and one more.        *)
FieldKinds == (fv :> "value") @@ (fl :> "link") @@ (fo :> "skipped")
Across == (x1 :> x2) @@ (x2 :> x1)
TwoTables == (x1 :> {fv, fl}) @@ (x2 :> {fv, fo})
Row(d, fs, l) == [id |-> d, fields |-> fs, links |-> l]
ThreeRows ==
  (x1 :> <<Row(d1, {fv, fl}, {d3}), Row(d2, {fv}, {})>>) @@ (x2 :> <<Row(d3, {fv, fo}, {})>>)

Retries == Permutations({a1, a2})

VARIABLE part   \* the module a behaviour is of

vars == <<part, importVars, sourceVars, pageVars, csvVars, fileVars, agentVars>>

Init ==
  /\ part \in {"airtable", "source", "page", "csv", "files", "agents"}
  /\ ImportInit /\ SourceInit /\ PageInit /\ CsvInit /\ FilesInit /\ AgentInit

Next ==
  /\ UNCHANGED part
  /\ \/ /\ part = "airtable" /\ ImportNext
        /\ UNCHANGED <<sourceVars, pageVars, csvVars, fileVars, agentVars>>
     \/ /\ part = "source" /\ SourceNext
        /\ UNCHANGED <<importVars, pageVars, csvVars, fileVars, agentVars>>
     \/ /\ part = "page" /\ PageNext
        /\ UNCHANGED <<importVars, sourceVars, csvVars, fileVars, agentVars>>
     \/ /\ part = "csv" /\ CsvNext
        /\ UNCHANGED <<importVars, sourceVars, pageVars, fileVars, agentVars>>
     \/ /\ part = "files" /\ FilesNext
        /\ UNCHANGED <<importVars, sourceVars, pageVars, csvVars, agentVars>>
     \/ /\ part = "agents" /\ AgentNext
        /\ UNCHANGED <<importVars, sourceVars, pageVars, csvVars, fileVars>>

Spec == Init /\ [][Next]_vars
=============================================================================
