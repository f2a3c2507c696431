---------------------------- MODULE CsvTransfer ----------------------------
(***************************************************************************)
(* CSV files into a table and out of it (packages/plugin-csv, the settings  *)
(* pages, server/exports/csv.ts).  An import appends its rows in batches,   *)
(* one transaction each, and reports how many landed; a failure keeps the   *)
(* batches before it.  An export reads page after page from one snapshot of *)
(* the database and gives all its files or none.                           *)
(*                                                                         *)
(* A batch stands for the rows of one: batch b of import i is the row       *)
(* <<i, b>>.  Parsing and coercion of the values is left out.              *)
(***************************************************************************)
EXTENDS FiniteSets, Naturals, SequencesExt

CONSTANTS
  CsvTable, CsvImport, CsvExport,
  BatchCount,      \* batches of a file
  PageRows,        \* records of an export page
  MaxMishaps       \* bound: lost COMMIT answers, crashes, records and tables deleted

OldRow == "old"   \* of the rows that were there before

ASSUME CsvAssumption ==
  /\ BatchCount \in Nat \ {0} /\ PageRows \in Nat \ {0}
  /\ MaxMishaps \in Nat
  /\ OldRow \notin CsvImport

VARIABLES
  ledger,      \* what the database held, change by change; the last is now
  upload,      \* the server's side of an import
  heard,       \* what the page knows of the import it waits for
  busyTable,   \* busyTableId of the settings page
  unseen,      \* who shows a table without an import's last batch
  download,    \* the server's side of an export
  exporting,   \* the export in the process's slot, or Nothing
  mishaps,
  torn         \* history: imports one of whose COMMIT answers was lost

csvVars == <<ledger, upload, heard, busyTable, unseen, download, exporting, mishaps, torn>>
uploadVars == <<upload, heard, busyTable, unseen, torn>>
downloadVars == <<download, exporting>>

Nothing == "nothing"
Watchers == {"others", "page"}

CsvInit ==
  /\ ledger = <<[t \in CsvTable |-> <<<<OldRow, 2>>, <<OldRow, 1>>>>]>>
  /\ upload = [i \in CsvImport |-> [at |-> "idle", table |-> Nothing, next |-> 1,
                                    imported |-> 0, verdict |-> Nothing]]
  /\ heard = [i \in CsvImport |-> "idle"]
  /\ busyTable = Nothing
  /\ unseen = {}
  /\ download = [e \in CsvExport |-> [at |-> "idle", kind |-> Nothing, wanted |-> {},
                                      since |-> 0, snap |-> 0, todo |-> {}, open |-> {},
                                      file |-> <<>>]]
  /\ exporting = Nothing
  /\ mishaps = 0 /\ torn = {}

Now == Last(ledger)
Exists(t) == t \in DOMAIN Now
Rows(state, t) == IF t \in DOMAIN state THEN state[t] ELSE <<>>
Becomes(state) == ledger' = Append(ledger, state)

Mishap == mishaps < MaxMishaps /\ mishaps' = mishaps + 1

-----------------------------------------------------------------------------
(***************************************************************************)
(* An import.                                                              *)
(***************************************************************************)
(* The control of the table is closed while busyTableId is that table.      *)
ChooseFile(i, t) ==
  /\ upload[i].at = "idle" /\ busyTable # t
  /\ busyTable' = t
  /\ heard' = [heard EXCEPT ![i] = "waiting"]
  /\ upload' = [upload EXCEPT ![i].at = "sent", ![i].table = t]
  /\ UNCHANGED <<ledger, unseen, mishaps, torn, downloadVars>>

(* Role, text and row limits, before the first batch. *)
Admit(i) ==
  /\ upload[i].at = "sent"
  /\ \/ /\ Exists(upload[i].table)
        /\ upload' = [upload EXCEPT ![i].at = "running"]
     \/ upload' = [upload EXCEPT ![i].at = "answered", ![i].verdict = "refused"]
  /\ UNCHANGED <<ledger, heard, busyTable, unseen, mishaps, torn, downloadVars>>

OfTable(t) == {i \in CsvImport : upload[i].table = t}

(* realtime.publishTableChange: the other clients fetch the table again.    *)
Told(t) == {"others"} \X OfTable(t)

(* The batch's transaction commits; records sort newest first. *)
Landed(i) ==
  LET t == upload[i].table IN
  [Now EXCEPT ![t] = <<<<i, upload[i].next>>>> \o @]

InBatch(i) == upload[i].at = "running" /\ upload[i].next <= BatchCount

Batch(i) ==
  /\ InBatch(i) /\ Exists(upload[i].table)
  /\ Becomes(Landed(i))
  /\ upload' = [upload EXCEPT ![i].next = @ + 1, ![i].imported = @ + 1]
  /\ unseen' = unseen \union (Watchers \X {i})
  /\ UNCHANGED <<heard, busyTable, mishaps, torn, downloadVars>>

(* Mutant of Counted: the batch is counted while its rows are inserted.     *)
CountedEarly(i) == upload[i].imported + 1

(* The rows reported after a failure: those of committed batches. *)
Counted(i) == upload[i].imported

ReportPartial(i) ==
  upload' = [upload EXCEPT ![i].at = "answered", ![i].verdict = "partial",
                           ![i].imported = Counted(i)]

(* What a failed import tells, and whom: the kept rows are announced. *)
BatchFails(i) ==
  /\ InBatch(i)
  /\ ReportPartial(i)
  /\ unseen' = IF Counted(i) > 0 THEN unseen \ Told(upload[i].table) ELSE unseen
  /\ UNCHANGED <<ledger, heard, busyTable, mishaps, torn, downloadVars>>

(* The connection breaks during COMMIT: the batch landed, the handler sees   *)
(* a failure.                                                               *)
BatchTorn(i) ==
  /\ InBatch(i) /\ Exists(upload[i].table) /\ Mishap
  /\ Becomes(Landed(i))
  /\ ReportPartial(i)
  /\ torn' = torn \union {i}
  /\ LET shown == unseen \union (Watchers \X {i}) IN
     unseen' = IF Counted(i) > 0 THEN shown \ Told(upload[i].table) ELSE shown
  /\ UNCHANGED <<heard, busyTable, downloadVars>>

Finish(i) ==
  /\ upload[i].at = "running" /\ upload[i].next > BatchCount
  /\ upload' = [upload EXCEPT ![i].at = "answered", ![i].verdict = "success"]
  /\ unseen' = unseen \ Told(upload[i].table)
  /\ UNCHANGED <<ledger, heard, busyTable, mishaps, torn, downloadVars>>

(* onImport: the grid is fetched again after a success and a partial one;    *)
(* the control opens again whatever came.                                   *)
HearImport(i) ==
  /\ heard[i] = "waiting" /\ upload[i].at = "answered"
  /\ heard' = [heard EXCEPT ![i] = "heard"]
  /\ busyTable' = Nothing
  /\ unseen' = IF upload[i].verdict = "refused" THEN unseen
               ELSE unseen \ ({"page"} \X OfTable(upload[i].table))
  /\ UNCHANGED <<ledger, upload, mishaps, torn, downloadVars>>

(* The answer is lost, or the page gives up on it; the server goes on. *)
MissImport(i) ==
  /\ heard[i] = "waiting"
  /\ heard' = [heard EXCEPT ![i] = "missed"]
  /\ busyTable' = Nothing
  /\ UNCHANGED <<ledger, upload, unseen, mishaps, torn, downloadVars>>

-----------------------------------------------------------------------------
(***************************************************************************)
(* An export.                                                              *)
(***************************************************************************)
(* One table from the settings, or a choice of the base's tables. *)
AskExport(e, kind, ts) ==
  /\ download[e].at = "idle"
  /\ kind = "table" => Cardinality(ts) = 1
  /\ download' = [download EXCEPT ![e].at = "asked", ![e].kind = kind, ![e].wanted = ts]
  /\ UNCHANGED <<ledger, uploadVars, mishaps, exporting>>

Quit(e) == download' = [download EXCEPT ![e].at = "failed"]

(* After the role check: the process runs one export at a time. *)
TakeExportSlot(e) ==
  /\ download[e].at = "asked"
  /\ \/ /\ exporting = Nothing
        /\ exporting' = e
        /\ download' = [download EXCEPT ![e].at = "begun", ![e].since = Len(ledger)]
     \/ Quit(e) /\ UNCHANGED exporting   \* no role, or the slot is taken
  /\ UNCHANGED <<ledger, uploadVars, mishaps>>

(* Mutant of Visible: the isolation level is read committed. *)
Committed(e) == Now

(* What the transaction of an export reads: repeatable read. *)
Visible(e) == ledger[download[e].snap]

(* The first query, for the tables, takes the snapshot. *)
ListTables(e) ==
  /\ download[e].at = "begun"
  /\ LET found == download[e].wanted \cap DOMAIN Now IN
     IF found = {} /\ download[e].kind = "table"
     THEN Quit(e) /\ exporting' = Nothing
     ELSE /\ download' = [download EXCEPT ![e].at = "reading", ![e].snap = Len(ledger),
                            ![e].todo = found, ![e].file = [t \in found |-> <<>>]]
          /\ UNCHANGED exporting
  /\ UNCHANGED <<ledger, uploadVars, mishaps>>

(* collectCsv: pages by offset until one comes short, table after table.    *)
ReadRows(e) ==
  LET d == download[e] IN
  /\ d.at = "reading" /\ d.todo # {}
  /\ \E t \in IF d.open = {} THEN d.todo ELSE d.open :
       LET all == Rows(Visible(e), t)
           from == Len(d.file[t])
           page == SubSeq(all, from + 1, Min({from + PageRows, Len(all)}))
           done == Len(page) < PageRows
       IN download' = [download EXCEPT ![e].file[t] = @ \o page,
                          ![e].open = IF done THEN {} ELSE {t},
                          ![e].todo = IF done THEN @ \ {t} ELSE @]
  /\ UNCHANGED <<ledger, uploadVars, mishaps, exporting>>

EndExport(e) ==
  /\ download[e].at = "reading" /\ download[e].todo = {}
  /\ download' = [download EXCEPT ![e].at = "answered"]
  /\ exporting' = Nothing
  /\ UNCHANGED <<ledger, uploadVars, mishaps>>

(* The deadline, a budget, or the database: no file is given. *)
BreakExport(e) ==
  /\ download[e].at \in {"begun", "reading"}
  /\ Quit(e) /\ exporting' = Nothing
  /\ UNCHANGED <<ledger, uploadVars, mishaps>>

(* The page saves the files it was answered, all of them; a failure, or the  *)
(* answer's loss, saves none.                                               *)
SaveFiles(e) ==
  /\ download[e].at = "answered"
  /\ \/ download' = [download EXCEPT ![e].at = "saved"]
     \/ Quit(e)
  /\ UNCHANGED <<ledger, uploadVars, mishaps, exporting>>

-----------------------------------------------------------------------------
(***************************************************************************)
(* The environment.                                                        *)
(***************************************************************************)
DeleteRow(t) ==
  /\ Exists(t) /\ Mishap
  /\ \E k \in DOMAIN Now[t] : Becomes([Now EXCEPT ![t] = RemoveAt(@, k)])
  /\ UNCHANGED <<uploadVars, downloadVars>>

DropTable(t) ==
  /\ Exists(t) /\ Mishap
  /\ Becomes([u \in DOMAIN Now \ {t} |-> Now[u]])
  /\ UNCHANGED <<uploadVars, downloadVars>>

(* The process dies: transactions roll back, nothing is answered. *)
CrashTransfers ==
  /\ Mishap
  /\ upload' = [i \in CsvImport |->
       IF upload[i].at \in {"sent", "running"} THEN [upload[i] EXCEPT !.at = "cut"]
       ELSE upload[i]]
  /\ download' = [e \in CsvExport |->
       IF download[e].at \in {"asked", "begun", "reading"}
       THEN [download[e] EXCEPT !.at = "failed"] ELSE download[e]]
  /\ exporting' = Nothing
  /\ UNCHANGED <<ledger, heard, busyTable, unseen, torn>>

CsvNext ==
  \/ \E i \in CsvImport, t \in CsvTable : ChooseFile(i, t)
  \/ \E i \in CsvImport :
       \/ Admit(i) \/ Batch(i) \/ BatchFails(i) \/ BatchTorn(i) \/ Finish(i)
       \/ HearImport(i) \/ MissImport(i)
  \/ \E e \in CsvExport, kind \in {"table", "base"}, ts \in SUBSET CsvTable \ {{}} :
       AskExport(e, kind, ts)
  \/ \E e \in CsvExport :
       \/ TakeExportSlot(e) \/ ListTables(e) \/ ReadRows(e) \/ EndExport(e)
       \/ BreakExport(e) \/ SaveFiles(e)
  \/ \E t \in CsvTable : DeleteRow(t) \/ DropTable(t)
  \/ CrashTransfers

CsvSpec == CsvInit /\ [][CsvNext]_csvVars

-----------------------------------------------------------------------------
(* Batches of an import that were in its table at some time. *)
EverLanded(i) ==
  {b \in 1..BatchCount : \E k \in DOMAIN ledger, t \in CsvTable :
                           <<i, b>> \in ToSet(Rows(ledger[k], t))}

(* An answered import accounts for its rows: a report counts the batches    *)
(* that landed, none of them after a gap, but for one whose                 *)
(* COMMIT answer was lost; and the clients that show the table have been    *)
(* told of rows that were reported.  (server.ts: "imported may only advance  *)
(* once the batch's transaction has committed".)                            *)
ImportsAccounted ==
  \A i \in CsvImport :
    LET u == upload[i] IN
    /\ u.at = "answered" =>
         EverLanded(i) = 1..(u.imported + (IF i \in torn THEN 1 ELSE 0))
    /\ u.verdict = "success" => u.imported = BatchCount
    /\ u.at = "answered" /\ u.imported > 0 => <<"others", i>> \notin unseen
    /\ heard[i] = "heard" /\ u.imported > 0 => <<"page", i>> \notin unseen

(* The files of an export are its tables as they all were at one instant    *)
(* between its start and its end, whatever was imported or deleted while    *)
(* it read page after page.                                                 *)
ExportsOneInstant ==
  \A e \in CsvExport :
    LET d == download[e] IN
    d.at \in {"answered", "saved"} =>
      \E k \in d.since..Len(ledger) :
        d.file = [t \in d.wanted \cap DOMAIN ledger[k] |-> ledger[k][t]]

(* "Per-table import state ... block a second concurrent import of the same  *)
(* table" (client.tsx).  Stated, not checked by a run: one busyTableId       *)
(* serves all tables, and a second table's import opens the first's again.  *)
OneImportPerTable ==
  \A i, j \in CsvImport :
    i # j /\ heard[i] = "waiting" /\ heard[j] = "waiting" =>
      upload[i].table # upload[j].table
=============================================================================
