--------------------------- MODULE AirtableImport ---------------------------
(***************************************************************************)
(* Imports from Airtable (server/imports/airtable): one transaction for the *)
(* new base and its receipt, and files that no transaction protects.  A    *)
(* journal on disk names an attempt's files before the first is stored;    *)
(* what failed is cleaned up by the process that failed, or later by the   *)
(* administrator's recovery command.  Both decide by the receipt, under    *)
(* the advisory lock of the request.                                       *)
(*                                                                         *)
(* An attempt is one startImport call.  Its deadline answers the caller at *)
(* once but leaves the transaction where it is: the next guard rolls it    *)
(* back, unless COMMIT is already under way.                               *)
(***************************************************************************)
EXTENDS FiniteSets, Naturals

CONSTANTS
  Attempt, Request,
  RequestOf,   \* RequestOf[a]: the request id of attempt a
  FileCount    \* attachments of an import

Nobody == "nobody"
Command == "command"

ASSUME ImportAssumption ==
  /\ RequestOf \in [Attempt -> Request]
  /\ FileCount \in Nat
  /\ Nobody \notin Attempt /\ Command \notin Attempt

VARIABLES
  \* PostgreSQL
  receipt,     \* attempt whose receipt the request has, or Nobody
  bases,       \* attempts whose base exists
  lock,        \* holder of the request's advisory lock, or Nobody
  \* disk
  files,       \* stored files: pairs of an attempt and a number
  journals,    \* attempts with a journal
  \* the server process
  slot,        \* attempt that is active in the service, or Nobody
  pc, expired, aborted,
  answer,      \* what startImport answered
  cancel,      \* attempt a cancelImport waits for, or its verdict
  removing,    \* deleted bases whose files are still to be removed
  \* the recovery command
  cli,
  \* history variables
  committed,   \* attempts that were ever committed
  excused      \* attempts whose files nobody answers for

diskVars == <<files, journals>>
dbVars == <<receipt, bases, lock>>
serverVars == <<slot, pc, expired, aborted, answer, cancel, removing>>
importVars == <<dbVars, diskVars, serverVars, cli, committed, excused>>

Files(a) == {a} \X (1..FileCount)
Idle == [at |-> "idle", of |-> Nobody]

ImportInit ==
  /\ receipt = [r \in Request |-> Nobody] /\ bases = {}
  /\ lock = [r \in Request |-> Nobody]
  /\ files = {} /\ journals = {}
  /\ slot = Nobody
  /\ pc = [a \in Attempt |-> "idle"]
  /\ expired = [a \in Attempt |-> FALSE]
  /\ aborted = [a \in Attempt |-> FALSE]
  /\ answer = [a \in Attempt |-> "none"]
  /\ cancel = [r \in Request |-> Idle]
  /\ removing = {}
  /\ cli = Idle
  /\ committed = {} /\ excused = {}

HasReceipt(r) == receipt[r] # Nobody
Active(r) == \E a \in Attempt : slot = a /\ RequestOf[a] = r

-----------------------------------------------------------------------------
(***************************************************************************)
(* The service: one slot for the process.                                  *)
(***************************************************************************)
Goto(a, s) == pc' = [pc EXCEPT ![a] = s]

(* startImport answers; the slot is released with it. *)
Answer(a, what) ==
  /\ answer' = [answer EXCEPT ![a] = what]
  /\ slot' = IF slot = a THEN Nobody ELSE slot

Stay == UNCHANGED <<expired, aborted, cancel, removing, cli, committed, excused>>

Start(a) ==
  /\ pc[a] \in {"idle", "waiting"}
  /\ pc[a] = "waiting" => ~Active(RequestOf[a])
  /\ IF HasReceipt(RequestOf[a])
     THEN Goto(a, "done") /\ Answer(a, "report")
     ELSE /\ Goto(a, IF pc[a] = "idle" THEN "claim" ELSE "claimNow")
          /\ UNCHANGED <<answer, slot>>
  /\ UNCHANGED <<dbVars, diskVars>> /\ Stay

(* Another attempt of the request is waited for once; any other refuses.    *)
Claim(a) ==
  /\ pc[a] \in {"claim", "claimNow"}
  /\ \/ /\ slot = Nobody
        /\ slot' = a /\ Goto(a, "prepare") /\ UNCHANGED answer
     \/ /\ pc[a] = "claim" /\ Active(RequestOf[a])
        /\ Goto(a, "waiting") /\ UNCHANGED <<answer, slot>>
     \/ /\ slot # Nobody
        /\ pc[a] = "claim" => ~Active(RequestOf[a])
        /\ Goto(a, "done") /\ Answer(a, "failed")
  /\ UNCHANGED <<dbVars, diskVars>> /\ Stay

(* Read from Airtable, before anything is written. *)
Prepare(a) ==
  /\ pc[a] = "prepare"
  /\ \/ ~aborted[a] /\ Goto(a, "lock") /\ UNCHANGED <<answer, slot>>
     \/ Goto(a, "done") /\ Answer(a, "failed")
  /\ UNCHANGED <<dbVars, diskVars>> /\ Stay

(* cancelImport aborts the active attempt and waits until it is done. *)
Cancel(r) ==
  /\ cancel[r].at = "idle" /\ ~HasReceipt(r)
  /\ Active(r)
  /\ aborted' = [aborted EXCEPT ![slot] = TRUE]
  /\ cancel' = [cancel EXCEPT ![r] = [at |-> "waiting", of |-> slot]]
  /\ UNCHANGED <<dbVars, diskVars, slot, pc, expired, answer, removing, cli, committed, excused>>

(* Mutant of Settled: the abort is enough. *)
Signalled(r) == aborted[cancel[r].of]

Settled(r) == slot # cancel[r].of

CancelAnswer(r) ==
  /\ cancel[r].at = "waiting" /\ Settled(r)
  /\ cancel' = [cancel EXCEPT ![r].at = IF HasReceipt(r) THEN "idle" ELSE "cancelled"]
  /\ UNCHANGED <<dbVars, diskVars, slot, pc, expired, aborted, answer, removing, cli, committed, excused>>

-----------------------------------------------------------------------------
(***************************************************************************)
(* importer.write.                                                         *)
(***************************************************************************)
(* guard() and checkSignal(), before each effect. *)
MayGoOn(a) == ~expired[a] /\ ~aborted[a]

(* Mutant of LockFree: the request is not locked. *)
LockIgnored(r) == TRUE

LockFree(r) == lock[r] = Nobody

Free(h) == lock' = [r \in Request |-> IF lock[r] = h THEN Nobody ELSE lock[r]]

LockRequest(a) ==
  /\ pc[a] = "lock" /\ MayGoOn(a)
  /\ LockFree(RequestOf[a])
  /\ lock' = [lock EXCEPT ![RequestOf[a]] = a]
  /\ Goto(a, "lookup")
  /\ UNCHANGED <<receipt, bases, diskVars, slot, answer>> /\ Stay

LookUp(a) ==
  /\ pc[a] = "lookup" /\ MayGoOn(a)
  /\ IF HasReceipt(RequestOf[a])
     THEN Goto(a, "done") /\ Answer(a, "report") /\ Free(a)
     ELSE Goto(a, "journal") /\ UNCHANGED <<answer, slot, lock>>
  /\ UNCHANGED <<receipt, bases, diskVars>> /\ Stay

(* The journal is on disk, synchronized, before the first file is stored. *)
CreateJournal(a) ==
  /\ pc[a] = "journal" /\ MayGoOn(a)
  /\ journals' = journals \cup {a}
  /\ Goto(a, "put")
  /\ UNCHANGED <<dbVars, files, slot, answer>> /\ Stay

(* Files are stored, and removed, in the journal's order. *)
First(F) == {f \in F : \A g \in F : f[2] <= g[2]}

PutFile(a) ==
  /\ pc[a] = "put" /\ MayGoOn(a)
  /\ \/ \E f \in First(Files(a) \ files) : files' = files \cup {f} /\ UNCHANGED pc
     \/ Files(a) \subseteq files /\ Goto(a, "insert") /\ UNCHANGED files
  /\ UNCHANGED <<dbVars, journals, slot, answer>> /\ Stay

(* The rows, the receipt, and the last guard before COMMIT. *)
InsertRows(a) ==
  /\ pc[a] = "insert" /\ MayGoOn(a)
  /\ Goto(a, "commit")
  /\ UNCHANGED <<dbVars, diskVars, slot, answer>> /\ Stay

Lands(a) ==
  /\ receipt' = [receipt EXCEPT ![RequestOf[a]] = a]
  /\ bases' = bases \cup {a}
  /\ committed' = committed \cup {a}

(* COMMIT succeeds or not, and the client learns the outcome or not. *)
Commit(a) ==
  /\ pc[a] = "commit"
  /\ Free(a)
  /\ \/ Lands(a) /\ Goto(a, IF expired[a] THEN "done" ELSE "discard")
     \/ Lands(a) /\ Goto(a, IF expired[a] THEN "done" ELSE "reconcile")
     \/ /\ Goto(a, IF expired[a] THEN "done" ELSE "reconcile")
        /\ UNCHANGED <<receipt, bases, committed>>
  /\ UNCHANGED <<diskVars, slot, expired, aborted, answer, cancel, removing, cli, excused>>

(* An error, a cancellation: the transaction is rolled back. *)
RollBack(a) ==
  /\ pc[a] \in {"lock", "lookup", "journal", "put", "insert"} /\ ~expired[a]
  /\ Free(a) /\ Goto(a, "reconcile")
  /\ UNCHANGED <<receipt, bases, diskVars, slot, answer>> /\ Stay

(* The deadline: the caller is answered, the transaction goes on ... *)
Expire(a) ==
  /\ answer[a] = "none" /\ pc[a] # "idle"
  /\ expired' = [expired EXCEPT ![a] = TRUE]
  /\ \/ /\ pc[a] \in {"claim", "claimNow", "waiting", "prepare"}
        /\ Answer(a, "failed") /\ Goto(a, "done")
     \/ /\ pc[a] = "discard"
        /\ Answer(a, "report") /\ Goto(a, "done")
     \/ /\ pc[a] \in {"lock", "lookup", "journal", "put", "insert", "commit",
                      "reconcile", "clean"}
        /\ Answer(a, "recovery") /\ UNCHANGED pc
  /\ UNCHANGED <<dbVars, diskVars, aborted, cancel, removing, cli, committed, excused>>

(* ... to its next guard. *)
StopLate(a) ==
  /\ expired[a] /\ pc[a] \notin {"commit", "done"}
  /\ Free(a) /\ Goto(a, "done")
  /\ UNCHANGED <<receipt, bases, diskVars, slot, answer>> /\ Stay

-----------------------------------------------------------------------------
(***************************************************************************)
(* Cleaning a journal, by the importer or by the command, which hold the   *)
(* lock as h.                                                              *)
(***************************************************************************)
(* Another attempt of the request was committed: its files are kept, this   *)
(* journal is deleted, and nobody knows the files of attempt a any more.    *)
Superseded(a) == HasReceipt(RequestOf[a]) /\ receipt[RequestOf[a]] # a

DiscardJournal(a) ==
  /\ journals' = journals \ {a}
  /\ excused' = IF Superseded(a) THEN excused \cup {a} ELSE excused

Emptied(a) == files \cap Files(a) = {}

Reconcile(a) ==
  /\ pc[a] = "reconcile" /\ ~expired[a]
  /\ LockFree(RequestOf[a])
  /\ IF HasReceipt(RequestOf[a])
     THEN /\ DiscardJournal(a)
          /\ Goto(a, "done") /\ Answer(a, "report")
          /\ UNCHANGED lock
     ELSE /\ lock' = [lock EXCEPT ![RequestOf[a]] = a]
          /\ Goto(a, "clean")
          /\ UNCHANGED <<journals, excused, slot, answer>>
  /\ UNCHANGED <<receipt, bases, files, expired, aborted, cancel, removing, cli, committed>>

RemoveFile(a) == \E f \in First(files \cap Files(a)) : files' = files \ {f}

Clean(a) ==
  /\ pc[a] = "clean" /\ ~expired[a]
  /\ \/ /\ a \in journals /\ RemoveFile(a)
        /\ UNCHANGED <<journals, excused, lock, pc, slot, answer>>
     \/ /\ a \in journals => Emptied(a)
        /\ DiscardJournal(a)
        /\ Free(a) /\ Goto(a, "done") /\ Answer(a, "failed")
        /\ UNCHANGED files
     \/ /\ Free(a) /\ Goto(a, "done") /\ Answer(a, "recovery")
        /\ UNCHANGED <<files, journals, excused>>
  /\ UNCHANGED <<receipt, bases, expired, aborted, cancel, removing, cli, committed>>

(* After a commit the journal is deleted, or kept for the command. *)
Discard(a) ==
  /\ pc[a] = "discard"
  /\ journals' \in {journals, journals \ {a}}
  /\ Goto(a, "done") /\ Answer(a, "report")
  /\ UNCHANGED <<dbVars, files>> /\ Stay

Open(a) ==
  /\ cli.at = "idle" /\ a \in journals
  /\ cli' = [at |-> "lock", of |-> a]
  /\ UNCHANGED <<dbVars, diskVars, serverVars, committed, excused>>

(* The journal may be gone once the lock is held. *)
LockJournal ==
  LET a == cli.of
  IN /\ cli.at = "lock" /\ LockFree(RequestOf[a])
     /\ IF a \in journals /\ ~HasReceipt(RequestOf[a])
        THEN /\ lock' = [lock EXCEPT ![RequestOf[a]] = Command]
             /\ cli' = [cli EXCEPT !.at = "clean"]
             /\ UNCHANGED <<journals, excused>>
        ELSE DiscardJournal(a) /\ cli' = Idle /\ UNCHANGED lock
     /\ UNCHANGED <<receipt, bases, files, serverVars, committed>>

CleanJournal ==
  LET a == cli.of
  IN /\ cli.at = "clean"
     /\ \/ RemoveFile(a) /\ UNCHANGED <<journals, excused, lock, cli>>
        \/ /\ Emptied(a) /\ DiscardJournal(a)
           /\ Free(Command) /\ cli' = Idle /\ UNCHANGED files
     /\ UNCHANGED <<receipt, bases, serverVars, committed>>

(* Its deadline, an error, a crash. *)
StopCommand ==
  /\ cli.at # "idle"
  /\ Free(Command) /\ cli' = Idle
  /\ UNCHANGED <<receipt, bases, diskVars, serverVars, committed, excused>>

-----------------------------------------------------------------------------
(* base.delete: the receipt goes with the base, the files afterwards. *)
DeleteBase(a) ==
  /\ a \in bases
  /\ bases' = bases \ {a}
  /\ receipt' = [receipt EXCEPT ![RequestOf[a]] = Nobody]
  /\ removing' = removing \cup {a}
  /\ UNCHANGED <<lock, diskVars, slot, pc, expired, aborted, answer, cancel, cli, committed, excused>>

RemoveFiles(a) ==
  /\ a \in removing
  /\ files' = files \ Files(a) /\ removing' = removing \ {a}
  /\ UNCHANGED <<dbVars, journals, slot, pc, expired, aborted, answer, cancel, cli, committed, excused>>

(* The server dies.  Open transactions are rolled back, a COMMIT that was   *)
(* sent may land.                                                           *)
Crash ==
  \E lands \in BOOLEAN :
    LET sent == {a \in Attempt : pc[a] = "commit" /\ lands}
    IN /\ removing # {} \/ \E a \in Attempt : pc[a] \notin {"idle", "done"}
       /\ receipt' = [r \in Request |->
            IF \E a \in sent : RequestOf[a] = r
            THEN CHOOSE a \in sent : RequestOf[a] = r ELSE receipt[r]]
       /\ bases' = bases \cup sent /\ committed' = committed \cup sent
       /\ lock' = [r \in Request |-> IF lock[r] = Command THEN Command ELSE Nobody]
       /\ pc' = [a \in Attempt |-> IF pc[a] = "idle" THEN "idle" ELSE "done"]
       /\ slot' = Nobody /\ removing' = {}
       /\ excused' = excused \cup removing
       /\ cancel' = [r \in Request |-> IF cancel[r].at = "waiting" THEN Idle ELSE cancel[r]]
       /\ answer' = [a \in Attempt |-> IF pc[a] # "idle" /\ answer[a] = "none"
                                       THEN "lost" ELSE answer[a]]
       /\ UNCHANGED <<diskVars, expired, aborted, cli>>

AttemptStep(a) ==
  \/ Start(a) \/ Claim(a) \/ Prepare(a)
  \/ LockRequest(a) \/ LookUp(a) \/ CreateJournal(a) \/ PutFile(a)
  \/ InsertRows(a) \/ Commit(a) \/ RollBack(a)
  \/ Expire(a) \/ StopLate(a)
  \/ Reconcile(a) \/ Clean(a) \/ Discard(a)
  \/ Open(a) \/ DeleteBase(a) \/ RemoveFiles(a)

ImportNext ==
  \/ \E a \in Attempt : AttemptStep(a)
  \/ \E r \in Request : Cancel(r) \/ CancelAnswer(r)
  \/ LockJournal \/ CleanJournal \/ StopCommand
  \/ Crash

ImportSpec == ImportInit /\ [][ImportNext]_importVars

-----------------------------------------------------------------------------
(* No clean-up takes a file of a base that exists, whatever its importer    *)
(* was told of its COMMIT (importer.ts:312-313, AIRTABLE_IMPORT.md:41).     *)
CommittedFilesStay == \A a \in bases : Files(a) \subseteq files

(* A stored file that no base owns is named by a journal, so that recovery  *)
(* finds it, in every state a crash may leave (journal.ts:44).  Excused are *)
(* the files of an attempt whose journal was discarded because another      *)
(* attempt of the request was committed, and files of a deleted base.       *)
OrphansAreJournaled ==
  \A f \in files : f[1] \in bases \cup journals \cup removing \cup excused

(* Files and rows agree: neither is a file of a base lost, nor one without a *)
(* base left that nobody knows of.                                          *)
FilesMatchBases == CommittedFilesStay /\ OrphansAreJournaled

(* What the user was told stays true: a reported import was committed, one  *)
(* that failed or was cancelled has no base afterwards, unless its      *)
(* deadline cut off a COMMIT (service.ts:142-154, importer.ts:306-311).     *)
AnswersStayTrue ==
  /\ \A a \in Attempt :
       /\ answer[a] = "report" => \E b \in committed : RequestOf[b] = RequestOf[a]
       /\ answer[a] = "failed" => a \notin bases
  /\ \A r \in Request :
       cancel[r].at = "cancelled" =>
         cancel[r].of \notin bases \/ answer[cancel[r].of] = "recovery"
=============================================================================
