--------------------------- MODULE TransferProofs ---------------------------
(***************************************************************************)
(* Theorems about what comes into a base and goes out of it: the calls of   *)
(* API tokens (AgentAccess), files and their quota (Attachments), CSV       *)
(* tables (CsvTransfer), and imports from Airtable: their files and bases   *)
(* (AirtableImport), what they hand on (AirtableSource) and the page that   *)
(* starts them (ImportPage).  The six share no state; each part is about    *)
(* the specification of its own module.                                    *)
(***************************************************************************)
EXTENDS AgentAccess, Attachments, CsvTransfer, AirtableImport, AirtableSource, ImportPage,
        SequenceTheorems, FiniteSetTheorems, WellFoundedInduction, TLAPS

-----------------------------------------------------------------------------
(***************************************************************************)
(* Calls of tokens.                                                        *)
(***************************************************************************)
Procedures == Queries \cup Mutations \cup {"preview", "precheck", "fetch"}

TokenRow ==
  [state : {"none", "counted", "active", "expired", "revoked", "refused", "gone"},
   base : Base \cup {AllBases}, access : {"read", "write"}]

(* A request before and after its token is resolved. *)
Unresolved ==
  [at : {"resolve", "limited", "unauthorized"}, token : Token, base : FirstBases,
   todo : Seq(Procedures), failed : BOOLEAN]
Scope == [base : Base \cup {AllBases}, access : {"read", "write"}]
Resolved ==
  [at : {"check", "run", "answered", "refused", "notfound"}, token : Token, base : FirstBases,
   todo : Seq(Procedures), failed : BOOLEAN, scope : Scope]

AgentTyped ==
  /\ rank \in [Base -> Roles \cup {"none", "gone"}] /\ roles \in Nat
  /\ token \in [Token -> TokenRow] /\ minted \in [Token -> TokenRow]
  /\ call \in [Agent -> {NotCalled} \cup Unresolved \cup Resolved]
  /\ done \in [Agent -> SUBSET [base : Base, writes : BOOLEAN]]
  /\ late \in [Agent -> Nat]

(* Procedures that are all their tool calls. *)
LonelyProcedures == {"base.list", "base.create", "base.delete", "table.delete"}
Alone(s) == \A i \in 1..Len(s) : s[i] \in LonelyProcedures => Len(s) = 1

(* What a request still has to call, and what its tool calls at first. *)
Rest(s) == s \in Seq(Procedures) /\ s # <<>> /\ Alone(s)
Opening(s) == Head(s) \notin {"fetch", "cell.upsert"}

LEMMA SingleRest ==
  ASSUME NEW p \in Procedures
  PROVE  Rest(<<p>>)
  BY DEF Rest, Alone

LEMMA PairRest ==
  ASSUME NEW p \in Procedures \ LonelyProcedures, NEW q \in Procedures \ LonelyProcedures
  PROVE  Rest(<<p, q>>)
<1>1. <<p, q>> \in Seq(Procedures) /\ <<p, q>> # <<>>
  OBVIOUS
<1>2. Alone(<<p, q>>)
  BY DEF Alone, LonelyProcedures
<1>3. QED
  BY <1>1, <1>2 DEF Rest

LEMMA StructureToolsRest ==
  ASSUME NEW tool \in DOMAIN StructureTools
  PROVE  Rest(StructureTools[tool]) /\ Opening(StructureTools[tool])
<1>1. CASE tool \in {"list_bases", "create_base", "update_base", "delete_base"}
  <2>1. PICK p \in {"base.list", "base.create", "base.rename", "base.delete"} :
          StructureTools[tool] = <<p>>
    BY <1>1 DEF StructureTools
  <2>2. QED
    BY <2>1, SingleRest DEF Opening, Procedures, Queries, Mutations
<1>2. CASE tool \in {"list_tables", "create_table", "update_table", "delete_table"}
  <2>1. PICK p \in {"table.list", "table.create", "table.rename", "table.delete"} :
          StructureTools[tool] = <<p>>
    BY <1>2 DEF StructureTools
  <2>2. QED
    BY <2>1, SingleRest DEF Opening, Procedures, Queries, Mutations
<1>3. CASE tool \in {"list_fields", "create_field", "delete_field", "list_views"}
  <2>1. PICK p \in {"field.list", "field.create", "field.delete", "view.list"} :
          StructureTools[tool] = <<p>>
    BY <1>3 DEF StructureTools
  <2>2. QED
    BY <2>1, SingleRest DEF Opening, Procedures, Queries, Mutations
<1>4. CASE tool \in {"create_view", "delete_view"}
  <2>1. PICK p \in {"view.create", "view.delete"} : StructureTools[tool] = <<p>>
    BY <1>4 DEF StructureTools
  <2>2. QED
    BY <2>1, SingleRest DEF Opening, Procedures, Queries, Mutations
<1>5. CASE tool = "update_field"
  <2>1. StructureTools[tool] = <<"field.rename", "field.updateOptions">>
    BY <1>5 DEF StructureTools
  <2>2. QED
    BY <2>1, PairRest DEF Opening, Procedures, Mutations, LonelyProcedures
<1>6. CASE tool = "update_view"
  <2>1. StructureTools[tool] = <<"view.rename", "view.updateOptions">>
    BY <1>6 DEF StructureTools
  <2>2. QED
    BY <2>1, PairRest DEF Opening, Procedures, Mutations, LonelyProcedures
<1>7. QED
  BY <1>1, <1>2, <1>3, <1>4, <1>5, <1>6 DEF StructureTools

(* The cells of a map between two other procedures. *)
LEMMA MapRest ==
  ASSUME NEW p \in Procedures \ LonelyProcedures, p # "cell.upsert", p # "fetch"
  PROVE  Rest(<<p>> \o Upserts \o <<"fetch">>) /\ Opening(<<p>> \o Upserts \o <<"fetch">>)
<1> DEFINE Plain == Procedures \ LonelyProcedures
           first == <<p>>
           start == first \o Upserts
           last == <<"fetch">>
           all == start \o last
<1>1. first \in Seq(Plain) /\ last \in Seq(Plain) /\ Upserts \in Seq(Plain)
  BY AgentAssumption DEF Upserts, Procedures, Mutations, LonelyProcedures
<1>2. /\ start \in Seq(Plain) /\ Len(start) = 1 + Len(Upserts) /\ start[1] = p
  <2>1. Len(first) = 1 /\ first[1] = p /\ Len(Upserts) \in Nat
    BY <1>1
  <2>2. QED
    BY <1>1, <2>1, ConcatProperties
<1>3. /\ all \in Seq(Plain) /\ Len(all) \in Nat \ {0} /\ all[1] = p
  <2>1. Len(last) = 1 /\ Len(Upserts) \in Nat
    BY <1>1
  <2>2. QED
    BY <1>1, <1>2, <2>1, ConcatProperties
<1> HIDE DEF all
<1>4. all \in Seq(Procedures)
  BY <1>3, SeqMonotonic
<1>5. Alone(all)
  BY <1>3, ElementOfSeq DEF Alone, LonelyProcedures
<1>6. Head(all) = p
  BY <1>3
<1>7. QED
  BY <1>3, <1>4, <1>5, <1>6 DEF Rest, Opening, all

(* Every tool begins with a procedure that is checked and ends the call     *)
(* when it is refused.                                                     *)
LEMMA CallsRest ==
  ASSUME NEW tool \in Tools
  PROVE  Rest(Calls(tool)) /\ Opening(Calls(tool))
<1>1. CASE tool \notin DOMAIN RecordTools
  BY <1>1, StructureToolsRest, ToolsAssumption DEF Calls
<1>2. CASE tool \in DOMAIN RecordTools
  <2>1. DOMAIN RecordTools
          = {"list_records", "get_record", "create_record", "update_record", "delete_record"}
    BY DEF RecordTools
  <2>2. CASE tool \in {"list_records", "delete_record"}
    <3>1. PICK p \in {"record.list", "record.delete"} : Calls(tool) = <<p>>
      BY <2>2, <2>1 DEF Calls, RecordTools
    <3>2. QED
      BY <3>1, SingleRest DEF Opening, Procedures, Queries, Mutations
  <2>3. CASE tool = "get_record"
    <3>1. Calls(tool) = <<"preview", "fetch">>
      BY <2>3, <2>1 DEF Calls, RecordTools
    <3>2. QED
      BY <3>1, PairRest DEF Opening, Procedures, LonelyProcedures
  <2>4. CASE tool = "create_record"
    <3>1. Calls(tool) = <<"record.create">> \o Upserts \o <<"fetch">>
      BY <2>4, <2>1 DEF Calls, RecordTools
    <3>2. QED
      BY <3>1, MapRest DEF Procedures, Mutations, LonelyProcedures
  <2>5. CASE tool = "update_record"
    <3>1. Calls(tool) = <<"precheck">> \o Upserts \o <<"fetch">>
      BY <2>5, <2>1 DEF Calls, RecordTools
    <3>2. QED
      BY <3>1, MapRest DEF Procedures, Mutations, LonelyProcedures
  <2>6. QED
    BY <1>2, <2>1, <2>2, <2>3, <2>4, <2>5
<1>3. QED
  BY <1>1, <1>2

(* What is left after a procedure. *)
LEMMA TailRest ==
  ASSUME NEW s, Rest(s), Len(s) # 1
  PROVE  Rest(Tail(s)) /\ Head(s) \notin LonelyProcedures
<1>1. s \in Seq(Procedures) /\ Len(s) \in Nat /\ Len(s) > 1
  BY DEF Rest
<1>2. Tail(s) \in Seq(Procedures) /\ Len(Tail(s)) = Len(s) - 1
      /\ \A i \in 1..Len(Tail(s)) : Tail(s)[i] = s[i + 1]
  BY <1>1, HeadTailProperties
<1>3. Tail(s) # <<>>
  <2>1. Len(Tail(s)) # 0
    BY <1>1, <1>2
  <2>2. Len(<<>>) = 0
    OBVIOUS
  <2>3. QED
    BY <2>1, <2>2, Zenon
<1>4. \A i \in 1..Len(s) : s[i] \notin LonelyProcedures
  BY <1>1 DEF Rest, Alone, LonelyProcedures
<1>5. Alone(Tail(s))
  BY <1>1, <1>2, <1>4 DEF Alone, LonelyProcedures
<1>6. QED
  BY <1>1, <1>2, <1>3, <1>4, <1>5 DEF Rest

(* A token is inserted once, with the scope it was created for. *)
Inserted(t) == token[t].state \notin {"none", "counted"}

MintKept ==
  \A t \in Token :
    /\ token[t].state = "none" => token[t].base = AllBases
    /\ Inserted(t) =>
         minted[t].base = token[t].base /\ minted[t].access = token[t].access

Going(c) == call[c].at \in {"check", "run"}
Admitted(c) == call[c].at \in {"check", "run", "answered", "refused", "notfound"}

(* A request keeps the scope that its token was created with. *)
ScopeKept ==
  \A c \in Agent : Admitted(c) =>
    /\ Inserted(call[c].token)
    /\ call[c].scope.base = minted[call[c].token].base
    /\ call[c].scope.access = minted[call[c].token].access

Covers(c, b) == call[c].scope.base \in {AllBases, b}

(* What a request has still to call is within its scope, as soon as its     *)
(* first procedure has been checked: the cells of a map are tried whatever  *)
(* became of the one before, and the record is fetched without a check.     *)
CallChecked(c) ==
  /\ call[c].at = "resolve" => Rest(call[c].todo) /\ Opening(call[c].todo)
  /\ Going(c) => Rest(call[c].todo)
  /\ call[c].at = "check" => Covers(c, call[c].base) \/ Opening(call[c].todo)
  /\ call[c].at = "run" =>
       /\ Next1(c) \in Queries \cup Mutations
       /\ Permitted(call[c].scope, Next1(c))
       /\ Next1(c) \notin {"base.list", "base.create"} => Covers(c, call[c].base)

CallsChecked == \A c \in Agent : CallChecked(c)

DoneInScope ==
  \A c \in Agent :
    /\ done[c] # {} => Admitted(c)
    /\ \A e \in done[c] : Covers(c, e.base) /\ (e.writes => call[c].scope.access = "write")

(* A request that goes on after a late write has not got the role back, and *)
(* a write that was checked is the first since the role was lost.           *)
LateLost ==
  \A c \in Agent :
    /\ late[c] <= 1
    /\ late[c] = 1 => Admitted(c)
    /\ Going(c) /\ late[c] = 1 => rank[call[c].base] \notin {"editor", "owner"}
    /\ call[c].at = "run" /\ Next1(c) \in Mutations \ {"base.create"} => late[c] = 0

AgentInv ==
  AgentTyped /\ MintKept /\ ScopeKept /\ CallsChecked /\ DoneInScope /\ LateLost

LEMMA AgentInvInit == AgentInit => AgentInv
<1> SUFFICES ASSUME AgentInit PROVE AgentInv
  OBVIOUS
<1>1. AgentTyped
  BY AgentAssumption DEF AgentInit, AgentTyped, NoToken, NotCalled, TokenRow, Roles
<1>2. MintKept
  BY DEF AgentInit, MintKept, Inserted, NoToken
<1>3. \A c \in Agent : call[c].at = "idle" /\ done[c] = {} /\ late[c] = 0
  BY DEF AgentInit, NotCalled
<1>4. ScopeKept /\ CallsChecked /\ DoneInScope /\ LateLost
  BY <1>3 DEF ScopeKept, CallsChecked, CallChecked, DoneInScope, LateLost, Admitted, Going
<1>5. QED
  BY <1>1, <1>2, <1>4 DEF AgentInv

LEMMA AgentInvSafe == AgentInv => TokenBounded
<1> SUFFICES ASSUME AgentInv PROVE TokenBounded
  OBVIOUS
<1>1. WithinMint
  BY DEF AgentInv, WithinMint, DoneInScope, ScopeKept, Covers
<1>2. OneLateWrite
  BY DEF AgentInv, LateLost, OneLateWrite
<1>3. QED
  BY <1>1, <1>2 DEF TokenBounded

(* The types of calls. *)
LEMMA CallShapes ==
  ASSUME AgentTyped, NEW c \in Agent
  PROVE  /\ call[c].at = "idle" => call[c] = NotCalled
         /\ call[c].at \in {"resolve", "limited", "unauthorized"} => call[c] \in Unresolved
         /\ Admitted(c) => call[c] \in Resolved
         /\ Going(c) => Admitted(c)
  BY DEF AgentTyped, Unresolved, Resolved, NotCalled, Admitted, Going

(* What a step of an admitted request changes: not its token, its scope or  *)
(* what it is about, and nothing of other requests.                        *)
Others(c) == \A d \in Agent \ {c} : call'[d] = call[d]
Stays(c) ==
  /\ call'[c] \in Resolved
  /\ call'[c].token = call[c].token /\ call'[c].base = call[c].base
  /\ call'[c].scope = call[c].scope
  /\ Others(c)
  /\ call' \in [Agent -> {NotCalled} \cup Unresolved \cup Resolved]
Moves(c) ==
  /\ Stays(c)
  /\ call'[c].at \in {"check", "answered", "refused", "notfound"}
  /\ call'[c].at = "check" =>
       Rest(call'[c].todo) /\ Head(call[c].todo) \notin LonelyProcedures

LEMMA ProceedMoves ==
  ASSUME AgentTyped, CallsChecked, NEW c \in Agent, Going(c), call' = Proceed(c)
  PROVE  Moves(c)
<1> DEFINE s == call[c].todo
           new == [call[c] EXCEPT !.todo = Tail(s),
                                  !.at = IF Len(s) = 1 THEN "answered" ELSE "check"]
<1>1. call[c] \in Resolved /\ Rest(s)
  BY CallShapes DEF CallsChecked, CallChecked
<1>2. s \in Seq(Procedures) /\ Tail(s) \in Seq(Procedures)
  BY <1>1, HeadTailProperties DEF Rest
<1>3. call' = [call EXCEPT ![c] = new]
  BY DEF Proceed
<1>4. call'[c] = new /\ Others(c)
  BY <1>3 DEF AgentTyped, Others
<1>5. new \in Resolved /\ new.todo = Tail(s) /\ new.token = call[c].token
      /\ new.base = call[c].base /\ new.scope = call[c].scope
      /\ new.at = IF Len(s) = 1 THEN "answered" ELSE "check"
  BY <1>1, <1>2 DEF Resolved
<1> HIDE DEF new
<1>6. Stays(c)
  BY <1>3, <1>4, <1>5 DEF Stays, AgentTyped
<1>7. QED
  BY <1>1, <1>4, <1>5, <1>6, TailRest DEF Moves

LEMMA AnsweredMoves ==
  ASSUME AgentTyped, NEW c \in Agent, Going(c), NEW a \in {"refused", "notfound"},
         call' = Answered(c, a)
  PROVE  Moves(c)
<1> DEFINE new == [call[c] EXCEPT !.at = a, !.todo = <<>>]
<1>1. call[c] \in Resolved
  BY CallShapes
<1>2. call' = [call EXCEPT ![c] = new]
  BY DEF Answered
<1>3. call'[c] = new /\ Others(c)
  BY <1>2 DEF AgentTyped, Others
<1>4. new \in Resolved /\ new.token = call[c].token
      /\ new.base = call[c].base /\ new.scope = call[c].scope /\ new.at = a
  BY <1>1, EmptySeq DEF Resolved
<1> HIDE DEF new
<1>5. QED
  BY <1>2, <1>3, <1>4 DEF Stays, Moves, AgentTyped

LEMMA RejectedMoves ==
  ASSUME AgentTyped, CallsChecked, NEW c \in Agent, Going(c), NEW p, call' = Rejected(c, p)
  PROVE  Moves(c) /\ (call'[c].at = "check" => p = "cell.upsert")
<1>1. CASE p # "cell.upsert"
  <2>1. call' = Answered(c, "refused")
    BY <1>1 DEF Rejected
  <2>2. call'[c].at = "refused"
    BY <2>1, CallShapes DEF Answered, AgentTyped, Resolved
  <2>3. QED
    BY <2>1, <2>2, AnsweredMoves
<1>2. CASE p = "cell.upsert"
  <2> DEFINE s == call[c].todo
             new == [[call[c] EXCEPT !.todo = Tail(s),
                                    !.at = IF Len(s) = 1 THEN "answered" ELSE "check"]
                     EXCEPT !.failed = TRUE]
  <2>1. call[c] \in Resolved /\ Rest(s)
    BY CallShapes DEF CallsChecked, CallChecked
  <2>2. s \in Seq(Procedures) /\ Tail(s) \in Seq(Procedures)
    BY <2>1, HeadTailProperties DEF Rest
  <2>3. call' = [call EXCEPT ![c] = new]
    BY <1>2 DEF Proceed, Rejected, AgentTyped
  <2>4. call'[c] = new /\ Others(c)
    BY <2>3 DEF AgentTyped, Others
  <2>5. new \in Resolved /\ new.todo = Tail(s) /\ new.token = call[c].token
        /\ new.base = call[c].base /\ new.scope = call[c].scope
        /\ new.at = IF Len(s) = 1 THEN "answered" ELSE "check"
    BY <2>1, <2>2 DEF Resolved
  <2> HIDE DEF new
  <2>6. Stays(c)
    BY <2>3, <2>4, <2>5 DEF Stays, AgentTyped
  <2>7. QED
    BY <1>2, <2>1, <2>4, <2>5, <2>6, TailRest DEF Moves
<1>3. QED
  BY <1>1, <1>2

(* A token row changes its state only, and is inserted at most once. *)
TokensKept ==
  /\ token' \in [Token -> TokenRow] /\ UNCHANGED minted
  /\ \A t \in Token : Inserted(t)' => Inserted(t) /\ token'[t].base = token[t].base
                                      /\ token'[t].access = token[t].access
  /\ \A t \in Token : Inserted(t) => Inserted(t)'
  /\ \A t \in Token : token'[t].state = "none" => token'[t].base = AllBases

LEMMA KeptTokens ==
  ASSUME AgentInv, TokensKept
  PROVE  MintKept'
  BY DEF AgentInv, MintKept, TokensKept

LEMMA WithoutKept ==
  ASSUME AgentTyped, MintKept, NEW b \in Base, token' = TokensWithout(b), UNCHANGED minted
  PROVE  TokensKept
<1>1. ASSUME NEW t \in Token
      PROVE  \/ token'[t] = token[t]
             \/ /\ Inserted(t)
                /\ token'[t] = [token[t] EXCEPT !.state = "gone"]
  BY <1>1, AgentAssumption DEF TokensWithout, MintKept, Inserted
<1>2. token' \in [Token -> TokenRow]
  <2>1. ASSUME NEW t \in Token PROVE token'[t] \in TokenRow
    BY <1>1 DEF AgentTyped, TokenRow
  <2>2. QED
    BY <2>1 DEF TokensWithout
<1>3. QED
  BY <1>1, <1>2 DEF TokensKept, AgentTyped, TokenRow, MintKept, Inserted

LEMMA MovesKeepScope ==
  ASSUME AgentInv, NEW c \in Agent, Admitted(c), Stays(c), TokensKept
  PROVE  ScopeKept'
<1>1. Admitted(c)' /\ \A d \in Agent \ {c} : Admitted(d)' <=> Admitted(d)
  BY DEF Stays, Others, Admitted, Resolved
<1>2. ASSUME NEW d \in Agent, Admitted(d)
      PROVE  call'[d].token = call[d].token /\ call'[d].scope = call[d].scope
             /\ call[d].token \in Token
  BY <1>2, CallShapes DEF Stays, Others, AgentInv, Resolved
<1>3. QED
  BY <1>1, <1>2 DEF AgentInv, ScopeKept, TokensKept, Inserted

LEMMA OthersChecked ==
  ASSUME CallsChecked, NEW d \in Agent, call'[d] = call[d]
  PROVE  CallChecked(d)'
<1>1. Next1(d)' = Next1(d) /\ Going(d)' = Going(d) /\ Covers(d, call[d].base)' = Covers(d, call[d].base)
  BY DEF Next1, Going, Covers
<1>2. CallChecked(d)
  BY DEF CallsChecked
<1>3. QED
  BY <1>1, <1>2 DEF CallChecked

LEMMA MovesKeepCalls ==
  ASSUME AgentInv, NEW c \in Agent, Going(c), Moves(c),
         call'[c].at = "check" => Covers(c, call[c].base)
  PROVE  CallsChecked'
<1>1. ASSUME NEW d \in Agent \ {c} PROVE CallChecked(d)'
  BY OthersChecked DEF AgentInv, Moves, Stays, Others
<1>2. CallChecked(c)'
  BY DEF Moves, Stays, Going, Covers, CallChecked
<1>3. QED
  BY <1>1, <1>2 DEF CallsChecked

LEMMA DoneGrows ==
  ASSUME AgentInv, NEW c \in Agent, Admitted(c), Stays(c),
         NEW new \in SUBSET [base : Base, writes : BOOLEAN],
         \A d \in Agent \ {c} : done'[d] = done[d],
         done'[c] \subseteq done[c] \cup new,
         \A e \in new : Covers(c, e.base) /\ (e.writes => call[c].scope.access = "write")
  PROVE  DoneInScope'
<1>1. ASSUME NEW d \in Agent \ {c}
      PROVE  /\ done'[d] # {} => Admitted(d)'
             /\ \A e \in done'[d] : Covers(d, e.base)' /\ (e.writes => call'[d].scope.access = "write")
  BY DEF AgentInv, DoneInScope, Stays, Others, Admitted, Covers
<1>2. Admitted(c)'
  BY DEF Stays, Admitted, Resolved
<1>3. \A e \in done'[c] : Covers(c, e.base)' /\ (e.writes => call'[c].scope.access = "write")
  BY DEF AgentInv, DoneInScope, Stays, Covers
<1>4. QED
  BY <1>1, <1>2, <1>3 DEF DoneInScope

LEMMA DoneKept ==
  ASSUME AgentInv, NEW c \in Agent, Admitted(c), Stays(c), UNCHANGED done
  PROVE  DoneInScope'
<1> DEFINE new == {}
<1>1. /\ new \in SUBSET [base : Base, writes : BOOLEAN]
      /\ done'[c] \subseteq done[c] \cup new
      /\ \A e \in new : Covers(c, e.base) /\ (e.writes => call[c].scope.access = "write")
  OBVIOUS
<1> HIDE DEF new
<1>2. QED
  BY <1>1, DoneGrows

(* What roles there are, and what they may do. *)
LEMMA RolesHave ==
  ASSUME AgentTyped, NEW b \in Base
  PROVE  /\ Has(b, "editor") <=> rank[b] \in {"editor", "owner"}
         /\ Has(b, "owner") <=> rank[b] = "owner"
<1>1. rank[b] \in {"viewer", "editor", "owner", "none", "gone"}
  BY DEF AgentTyped, Roles
<1>2. /\ RoleRank["viewer"] = 1 /\ RoleRank["editor"] = 2 /\ RoleRank["owner"] = 3
      /\ RoleRank["none"] = 0 /\ RoleRank["gone"] = 0
  BY DEF RoleRank, Roles
<1>3. QED
  BY <1>1, <1>2 DEF Has

LEMMA LateMoves ==
  ASSUME AgentInv, NEW c \in Agent, Going(c), Moves(c), UNCHANGED late,
         \A b \in FirstBases : rank'[b] = rank[b]
  PROVE  LateLost'
<1>1. Admitted(c)' /\ (Going(c)' => call'[c].at = "check") /\ Admitted(c)
  BY CallShapes DEF AgentInv, Moves, Stays, Admitted, Going
<1>2. ASSUME NEW d \in Agent
      PROVE  /\ Admitted(d)' = Admitted(d) /\ (Going(d)' => Going(d))
             /\ Going(d)' => call'[d].base = call[d].base /\ call[d].base \in FirstBases
             /\ call'[d].at = "run" => Next1(d)' = Next1(d) /\ call[d].at = "run"
  <2>1. Going(d) => call[d].base \in FirstBases
    BY CallShapes DEF AgentInv, Resolved
  <2>2. CASE d = c
    BY <1>1, <2>1, <2>2 DEF Moves, Stays, Going
  <2>3. CASE d # c
    BY <2>3, <2>1 DEF Moves, Stays, Others, Going, Admitted, Next1
  <2>4. QED
    BY <2>2, <2>3
<1>3. QED
  BY <1>2 DEF AgentInv, LateLost

(* A step of a request that neither reads nor writes and goes on only       *)
(* within its scope.                                                       *)
LEMMA MovesKeepInv ==
  ASSUME AgentInv, NEW c \in Agent, Going(c), Moves(c),
         UNCHANGED <<rank, roles, token, minted, done, late>>,
         call'[c].at = "check" => Covers(c, call[c].base)
  PROVE  AgentInv'
<1>1. Admitted(c) /\ Stays(c)
  BY DEF Going, Admitted, Moves
<1>2. TokensKept
  BY DEF TokensKept, Inserted, AgentInv, AgentTyped, MintKept
<1>3. AgentTyped'
  BY <1>1 DEF AgentInv, AgentTyped, Stays
<1>4. MintKept' /\ ScopeKept'
  BY <1>1, <1>2, KeptTokens, MovesKeepScope
<1>5. CallsChecked' /\ LateLost'
  BY MovesKeepCalls, LateMoves
<1>6. DoneInScope'
  BY <1>1, DoneKept
<1>7. QED
  BY <1>3, <1>4, <1>5, <1>6 DEF AgentInv

LEMMA CheckStep ==
  ASSUME AgentInv, NEW c \in Agent, Check(c)
  PROVE  AgentInv'
<1> DEFINE p == Next1(c)
<1>1. /\ call[c].at = "check" /\ p # "fetch" /\ Going(c) /\ call[c] \in Resolved
      /\ Rest(call[c].todo) /\ p \in Procedures
  <2>1. call[c].at = "check" /\ p # "fetch" /\ Going(c) /\ call[c] \in Resolved
    BY CallShapes DEF Check, Going, AgentInv
  <2>2. Rest(call[c].todo)
    BY <2>1 DEF AgentInv, CallsChecked, CallChecked
  <2>3. QED
    BY <2>1, <2>2, HeadTailProperties DEF Rest, Next1
<1>2. p = "cell.upsert" => Covers(c, call[c].base)
  BY <1>1 DEF AgentInv, CallsChecked, CallChecked, Opening, Next1
<1>3. Allowed(c, p) /\ p \notin {"base.list", "base.create"} => Covers(c, call[c].base)
  BY DEF Allowed, Capable, Covers
<1>4. CASE ~Allowed(c, p)
  <2>1. call' = Rejected(c, p)
    BY <1>4 DEF Check
  <2>2. Moves(c) /\ (call'[c].at = "check" => p = "cell.upsert")
    BY <2>1, <1>1, RejectedMoves DEF AgentInv
  <2>3. QED
    BY <2>2, <1>1, <1>2, MovesKeepInv DEF Check
<1>5. CASE Allowed(c, p) /\ p \in {"precheck", "preview"}
  <2>1. call' = Proceed(c)
    BY <1>5 DEF Check
  <2>2. Moves(c)
    BY <2>1, <1>1, ProceedMoves DEF AgentInv
  <2>3. QED
    BY <2>2, <1>1, <1>3, <1>5, MovesKeepInv DEF Check
<1>6. CASE Allowed(c, p) /\ p \notin {"precheck", "preview"}
  <2>1. call' = [call EXCEPT ![c].at = "run"]
    BY <1>6 DEF Check
  <2>2. Stays(c) /\ call'[c].at = "run" /\ call'[c].todo = call[c].todo /\ Next1(c)' = p
    BY <2>1, <1>1 DEF AgentInv, AgentTyped, Stays, Others, Resolved, Next1
  <2>3. UNCHANGED <<rank, roles, token, minted, done, late>>
    BY DEF Check
  <2>4. TokensKept
    BY <2>3 DEF TokensKept, Inserted, AgentInv, AgentTyped, MintKept
  <2>5. AgentTyped'
    BY <2>2, <2>3 DEF AgentInv, AgentTyped, Stays
  <2>6. MintKept' /\ ScopeKept' /\ DoneInScope'
    BY <1>1, <2>2, <2>3, <2>4, KeptTokens, MovesKeepScope, DoneKept DEF Going, Admitted
  <2>7. p \in Queries \cup Mutations
    BY <1>1, <1>6 DEF Procedures
  <2>8. CallsChecked'
    <3>1. ASSUME NEW d \in Agent \ {c} PROVE CallChecked(d)'
      BY <2>2, OthersChecked DEF AgentInv, Stays, Others
    <3>2. Permitted(call'[c].scope, p)
      BY <1>6, <2>2 DEF Stays, Allowed
    <3>3. CallChecked(c)'
      BY <1>1, <1>3, <1>6, <2>2, <2>7, <3>2 DEF Stays, Covers, CallChecked, Going
    <3>4. QED
      BY <3>1, <3>3 DEF CallsChecked
  <2>9. LateLost'
    <3>1. p \in Mutations \ {"base.create"} => late[c] = 0
      <4>1. SUFFICES ASSUME p \in Mutations \ {"base.create"} PROVE late[c] # 1
        BY DEF AgentInv, LateLost, AgentTyped
      <4>2. Has(call[c].base, "editor") \/ Has(call[c].base, "owner")
        BY <4>1, <1>6 DEF Allowed, Needs, Mutations, Queries
      <4>3. call[c].base \in Base
        BY <1>1, AgentAssumption DEF Resolved
      <4>4. rank[call[c].base] \in {"editor", "owner"}
        BY <4>2, <4>3, RolesHave DEF AgentInv
      <4>5. QED
        BY <4>4, <1>1 DEF AgentInv, LateLost
    <3>2. QED
      BY <3>1, <1>1, <2>2, <2>3 DEF Stays, Others, AgentInv, LateLost, Going, Admitted, Next1
  <2>10. QED
    BY <2>5, <2>6, <2>8, <2>9 DEF AgentInv
<1>7. QED
  BY <1>4, <1>5, <1>6

(* A procedure that runs is within the scope of its token. *)
LEMMA RunScope ==
  ASSUME AgentInv, NEW c \in Agent, call[c].at = "run"
  PROVE  /\ Going(c) /\ Admitted(c) /\ Rest(call[c].todo)
         /\ call[c].base \in Base /\ call[c].base \in FirstBases
         /\ Next1(c) \in Queries \cup Mutations
         /\ Next1(c) \notin {"base.list", "base.create"} => Covers(c, call[c].base)
         /\ Next1(c) \in Mutations => call[c].scope.access = "write"
         /\ Next1(c) = "base.create" => call[c].scope.base = AllBases
<1>1. Going(c) /\ Admitted(c) /\ call[c] \in Resolved
  BY CallShapes DEF AgentInv, Going, Admitted
<1>2. call[c].base \in FirstBases /\ call[c].base \in Base
  BY <1>1, AgentAssumption DEF Resolved
<1>3. CallChecked(c)
  BY DEF AgentInv, CallsChecked
<1>4. Next1(c) \in Mutations => Next1(c) \notin Queries \cup {"precheck", "preview"}
  BY DEF Mutations, Queries
<1>5. QED
  BY <1>1, <1>2, <1>3, <1>4 DEF CallChecked, Permitted, Mutations

(* A procedure ends and the request moves on: what is left to show is what  *)
(* the procedure has done, and what it did to tokens and roles.             *)
LEMMA ProcedureEnds ==
  ASSUME AgentInv, NEW c \in Agent, call[c].at = "run", Moves(c), TokensKept,
         rank' \in [Base -> Roles \cup {"none", "gone"}], UNCHANGED roles,
         NEW new \in SUBSET [base : Base, writes : BOOLEAN],
         done' = [done EXCEPT ![c] = @ \cup new],
         \A e \in new : Covers(c, e.base) /\ (e.writes => call[c].scope.access = "write"),
         late' \in [Agent -> Nat], LateLost'
  PROVE  AgentInv'
<1>1. Going(c) /\ Admitted(c) /\ Stays(c)
  BY RunScope DEF Moves
<1>2. /\ done' \in [Agent -> SUBSET [base : Base, writes : BOOLEAN]]
      /\ \A d \in Agent \ {c} : done'[d] = done[d]
      /\ done'[c] \subseteq done[c] \cup new
  BY DEF AgentInv, AgentTyped
<1>3. AgentTyped'
  BY <1>1, <1>2 DEF AgentInv, AgentTyped, Stays, TokensKept
<1>4. MintKept' /\ ScopeKept'
  BY <1>1, KeptTokens, MovesKeepScope
<1>5. DoneInScope'
  BY <1>1, <1>2, DoneGrows
<1>6. call'[c].at = "check" => Covers(c, call[c].base)
  BY RunScope DEF Moves, LonelyProcedures, Next1
<1>7. CallsChecked'
  BY <1>1, <1>6, MovesKeepCalls
<1>8. QED
  BY <1>3, <1>4, <1>5, <1>7 DEF AgentInv

LEMMA TokensUnchanged ==
  ASSUME AgentInv, UNCHANGED <<token, minted>>
  PROVE  TokensKept
  BY DEF TokensKept, Inserted, AgentInv, AgentTyped, MintKept

LEMMA ReadStep ==
  ASSUME AgentInv, NEW c \in Agent, Read(c)
  PROVE  AgentInv'
<1> DEFINE named == IF Next1(c) = "base.list" THEN Listed(c) ELSE {call[c].base}
           new == {[base |-> b, writes |-> FALSE] : b \in named}
<1>1. call[c].at = "run" /\ Going(c) /\ call' = Proceed(c)
      /\ UNCHANGED <<rank, roles, token, minted, late>> /\ Next1(c) \in Queries
  BY RunScope DEF Read
<1>2. Moves(c) /\ TokensKept
  BY <1>1, ProceedMoves, TokensUnchanged DEF AgentInv
<1>3. LateLost'
  BY <1>1, <1>2, LateMoves
<1>4. Next1(c) # "base.create"
  BY <1>1 DEF Queries
<1>5. \A b \in named : b \in Base /\ Covers(c, b)
  BY <1>1, <1>4, RunScope DEF Listed, Covers
<1>6. done' = [done EXCEPT ![c] = @ \cup new]
  BY DEF Read
<1>7. /\ new \in SUBSET [base : Base, writes : BOOLEAN]
      /\ \A e \in new : Covers(c, e.base) /\ (e.writes => call[c].scope.access = "write")
  <2>1. ASSUME NEW e \in new
        PROVE  e \in [base : Base, writes : BOOLEAN] /\ Covers(c, e.base) /\ e.writes = FALSE
    <3>1. PICK b \in named : e = [base |-> b, writes |-> FALSE]
      OBVIOUS
    <3>2. QED
      BY <3>1, <1>5
  <2>2. QED
    BY <2>1
<1> HIDE DEF new
<1>8. QED
  BY <1>1, <1>2, <1>3, <1>6, <1>7, ProcedureEnds DEF AgentInv, AgentTyped

(* What a step of c does to the late writes, of c and of the others. *)
LEMMA LateWrites ==
  ASSUME AgentInv, NEW c \in Agent, call[c].at = "run", Moves(c),
         \A d \in Agent \ {c} : late'[d] = late[d],
         late'[c] \in {0, 1},
         \A b \in FirstBases : rank'[b] \in {rank[b], "gone"},
         late'[c] = 1 /\ call'[c].at = "check" => rank[call[c].base] \notin {"editor", "owner"}
  PROVE  LateLost'
<1>1. Admitted(c)' /\ (Going(c)' => call'[c].at = "check") /\ call[c].base \in FirstBases
  BY RunScope DEF Moves, Stays, Admitted, Going
<1>2. ASSUME NEW d \in Agent \ {c}
      PROVE  /\ late'[d] <= 1
             /\ late'[d] = 1 => Admitted(d)'
             /\ Going(d)' /\ late'[d] = 1 => rank'[call'[d].base] \notin {"editor", "owner"}
             /\ call'[d].at = "run" /\ Next1(d)' \in Mutations \ {"base.create"} => late'[d] = 0
  <2>1. call'[d] = call[d] /\ late'[d] = late[d]
    BY DEF Moves, Stays, Others
  <2>2. Next1(d)' = Next1(d) /\ Going(d)' = Going(d) /\ Admitted(d)' = Admitted(d)
    BY <2>1 DEF Next1, Going, Admitted
  <2>3. Going(d) => call[d].base \in FirstBases
    BY CallShapes DEF AgentInv, Resolved
  <2>4. QED
    BY <2>1, <2>2, <2>3 DEF AgentInv, LateLost
<1>3. /\ late'[c] <= 1
      /\ late'[c] = 1 => Admitted(c)'
      /\ Going(c)' /\ late'[c] = 1 => rank'[call'[c].base] \notin {"editor", "owner"}
      /\ call'[c].at # "run"
  BY <1>1 DEF Moves, Stays
<1>4. QED
  BY <1>2, <1>3 DEF LateLost

LEMMA FailStep ==
  ASSUME AgentInv, NEW c \in Agent, Fail(c)
  PROVE  AgentInv'
<1>1. call[c].at = "run" /\ Going(c) /\ call' = Rejected(c, Next1(c))
      /\ UNCHANGED <<rank, roles, token, minted, done, late>>
  BY RunScope DEF Fail
<1>2. Moves(c)
  BY <1>1, RejectedMoves DEF AgentInv
<1>3. call'[c].at = "check" => Covers(c, call[c].base)
  BY <1>1, <1>2, RunScope DEF Moves, LonelyProcedures, Next1
<1>4. QED
  BY <1>1, <1>2, <1>3, MovesKeepInv

LEMMA FetchStep ==
  ASSUME AgentInv, NEW c \in Agent, Fetch(c)
  PROVE  AgentInv'
<1>1. /\ call[c].at = "check" /\ Next1(c) = "fetch" /\ Going(c) /\ Admitted(c)
      /\ UNCHANGED <<rank, roles, token, minted, late>>
  BY DEF Fetch, Going, Admitted
<1>2. Covers(c, call[c].base)
  BY <1>1 DEF AgentInv, CallsChecked, CallChecked, Opening, Next1
<1>3. call[c].base \in Base
  BY <1>1, CallShapes, AgentAssumption DEF AgentInv, Resolved
<1>4. CASE call' = Answered(c, "notfound") /\ UNCHANGED done
  <2>1. Moves(c)
    BY <1>1, <1>4, AnsweredMoves DEF AgentInv
  <2>2. QED
    BY <1>1, <1>2, <1>4, <2>1, MovesKeepInv
<1>5. CASE /\ done' = [done EXCEPT ![c] = @ \cup {[base |-> call[c].base, writes |-> FALSE]}]
           /\ call' = Proceed(c)
  <2> DEFINE new == {[base |-> call[c].base, writes |-> FALSE]}
  <2>1. Moves(c) /\ Stays(c) /\ TokensKept
    BY <1>1, <1>5, ProceedMoves, TokensUnchanged DEF AgentInv, Moves
  <2>2. LateLost' /\ CallsChecked' /\ MintKept' /\ ScopeKept'
    BY <1>1, <1>2, <2>1, LateMoves, MovesKeepCalls, KeptTokens, MovesKeepScope
  <2>3. /\ new \in SUBSET [base : Base, writes : BOOLEAN]
        /\ \A e \in new : Covers(c, e.base) /\ (e.writes => call[c].scope.access = "write")
    BY <1>2, <1>3
  <2>4. done' = [done EXCEPT ![c] = @ \cup new]
    BY <1>5
  <2> HIDE DEF new
  <2>5. /\ done' \in [Agent -> SUBSET [base : Base, writes : BOOLEAN]]
        /\ \A d \in Agent \ {c} : done'[d] = done[d]
        /\ done'[c] \subseteq done[c] \cup new
    BY <2>3, <2>4 DEF AgentInv, AgentTyped
  <2>6. DoneInScope'
    BY <1>1, <2>1, <2>3, <2>5, DoneGrows
  <2>7. AgentTyped'
    BY <1>1, <2>1, <2>5 DEF AgentInv, AgentTyped, Stays
  <2>8. QED
    BY <2>2, <2>6, <2>7 DEF AgentInv
<1>6. QED
  BY <1>4, <1>5 DEF Fetch

(* A mutation of an existing base has the base it writes in its scope. *)
LEMMA MutationEnds ==
  ASSUME AgentInv, NEW c \in Agent, call[c].at = "run", Moves(c), TokensKept,
         Next1(c) \in Mutations \ {"base.create"},
         rank' \in [Base -> Roles \cup {"none", "gone"}], UNCHANGED roles,
         \A b \in FirstBases : rank'[b] \in {rank[b], "gone"},
         done' = [done EXCEPT ![c] = @ \cup {[base |-> call[c].base, writes |-> TRUE]}],
         late' = [late EXCEPT ![c] = IF Has(call[c].base, Needs(Next1(c))) THEN 0 ELSE @ + 1]
  PROVE  AgentInv'
<1> DEFINE new == {[base |-> call[c].base, writes |-> TRUE]}
<1>1. call[c].base \in Base /\ Covers(c, call[c].base) /\ call[c].scope.access = "write"
  BY RunScope DEF Mutations
<1>2. /\ new \in SUBSET [base : Base, writes : BOOLEAN]
      /\ \A e \in new : Covers(c, e.base) /\ (e.writes => call[c].scope.access = "write")
  BY <1>1
<1>3. late[c] = 0
  BY DEF AgentInv, LateLost
<1>4. /\ \A d \in Agent \ {c} : late'[d] = late[d]
      /\ late'[c] \in {0, 1} /\ late' \in [Agent -> Nat]
      /\ late'[c] = 1 => ~Has(call[c].base, Needs(Next1(c)))
  BY <1>3 DEF AgentInv, AgentTyped
<1>5. ASSUME late'[c] = 1, call'[c].at = "check"
      PROVE  rank[call[c].base] \notin {"editor", "owner"}
  <2>1. Next1(c) \notin LonelyProcedures
    BY <1>5 DEF Moves, Next1
  <2>2. Needs(Next1(c)) = "editor"
    BY <2>1 DEF Needs, Mutations, Queries, LonelyProcedures
  <2>3. QED
    BY <1>1, <1>4, <1>5, <2>2, RolesHave DEF AgentInv
<1>6. LateLost'
  BY <1>4, <1>5, LateWrites
<1>7. done' = [done EXCEPT ![c] = @ \cup new]
  OBVIOUS
<1> HIDE DEF new
<1>8. QED
  BY <1>2, <1>4, <1>6, <1>7, ProcedureEnds

LEMMA WriteStep ==
  ASSUME AgentInv, NEW c \in Agent, Write(c)
  PROVE  AgentInv'
<1>1. /\ call[c].at = "run" /\ Going(c) /\ Next1(c) \in Mutations \ {"base.create"}
      /\ UNCHANGED <<rank, roles, token, minted>>
      /\ call' = Proceed(c) \/ call' = Rejected(c, Next1(c))
  BY RunScope DEF Write
<1>2. Moves(c)
  BY <1>1, ProceedMoves, RejectedMoves DEF AgentInv
<1>3. TokensKept
  BY <1>1, TokensUnchanged
<1>4. QED
  BY <1>1, <1>2, <1>3, MutationEnds DEF Write, AgentInv, AgentTyped

LEMMA RemoveStep ==
  ASSUME AgentInv, NEW c \in Agent, RemoveBase(c)
  PROVE  AgentInv'
<1>1. /\ call[c].at = "run" /\ Going(c) /\ Next1(c) = "base.delete"
      /\ UNCHANGED <<roles, minted>> /\ call' = Proceed(c)
      /\ rank' = [rank EXCEPT ![call[c].base] = "gone"]
      /\ token' = TokensWithout(call[c].base)
  BY RunScope DEF RemoveBase
<1>2. Moves(c) /\ TokensKept
  BY <1>1, RunScope, ProceedMoves, WithoutKept DEF AgentInv
<1>3. /\ rank' \in [Base -> Roles \cup {"none", "gone"}]
      /\ \A b \in FirstBases : rank'[b] \in {rank[b], "gone"}
  BY <1>1, AgentAssumption DEF AgentInv, AgentTyped
<1>4. Needs(Next1(c)) = "owner" /\ Next1(c) \in Mutations \ {"base.create"}
  BY <1>1 DEF Needs, Mutations, Queries
<1>5. late' = [late EXCEPT ![c] = IF Has(call[c].base, Needs(Next1(c))) THEN 0 ELSE @ + 1]
  BY <1>4 DEF RemoveBase
<1>6. QED
  BY <1>1, <1>2, <1>3, <1>4, <1>5, MutationEnds DEF RemoveBase

LEMMA CreateStep ==
  ASSUME AgentInv, NEW c \in Agent, CreateBase(c)
  PROVE  AgentInv'
<1>1. /\ call[c].at = "run" /\ Going(c) /\ Next1(c) = "base.create"
      /\ UNCHANGED <<roles, token, minted, late>> /\ call' = Proceed(c)
  BY RunScope DEF CreateBase
<1>2. PICK b \in Base \ FirstBases :
        /\ rank' = [rank EXCEPT ![b] = "owner"]
        /\ done' = [done EXCEPT ![c] = @ \cup {[base |-> b, writes |-> TRUE]}]
  BY DEF CreateBase
<1> DEFINE new == {[base |-> b, writes |-> TRUE]}
<1>3. Moves(c) /\ TokensKept
  BY <1>1, ProceedMoves, TokensUnchanged DEF AgentInv
<1>4. /\ rank' \in [Base -> Roles \cup {"none", "gone"}]
      /\ \A f \in FirstBases : rank'[f] = rank[f]
  BY <1>2, AgentAssumption DEF AgentInv, AgentTyped, Roles
<1>5. Covers(c, b) /\ call[c].scope.access = "write"
  BY <1>1, RunScope DEF Covers, Mutations
<1>6. /\ new \in SUBSET [base : Base, writes : BOOLEAN]
      /\ \A e \in new : Covers(c, e.base) /\ (e.writes => call[c].scope.access = "write")
  BY <1>5
<1>7. LateLost'
  BY <1>1, <1>3, <1>4, LateMoves
<1>8. done' = [done EXCEPT ![c] = @ \cup new]
  BY <1>2
<1> HIDE DEF new
<1>9. QED
  BY <1>1, <1>3, <1>4, <1>6, <1>7, <1>8, ProcedureEnds DEF AgentInv, AgentTyped

LEMMA ArriveStep ==
  ASSUME AgentInv, NEW c \in Agent, Arrive(c)
  PROVE  AgentInv'
<1>1. PICK tool \in Tools, t \in Token, b \in FirstBases :
        call' = [call EXCEPT ![c] =
          [at |-> "resolve", token |-> t, base |-> b, todo |-> Calls(tool), failed |-> FALSE]]
  BY DEF Arrive
<1> DEFINE new == [at |-> "resolve", token |-> t, base |-> b, todo |-> Calls(tool), failed |-> FALSE]
<1>2. call[c].at = "idle" /\ UNCHANGED <<rank, roles, token, minted, done, late>>
  BY DEF Arrive
<1>3. Calls(tool) \in Seq(Procedures)
  BY CallsRest DEF Rest
<1>4. new \in Unresolved /\ new.at = "resolve"
  BY <1>3 DEF Unresolved
<1> HIDE DEF new
<1>5. call'[c] = new /\ Others(c) /\ call' \in [Agent -> {NotCalled} \cup Unresolved \cup Resolved]
  BY <1>1, <1>4 DEF AgentInv, AgentTyped, Others, new
<1>6. ~Going(c)' /\ ~Admitted(c)' /\ ~Admitted(c)
  BY <1>2, <1>4, <1>5 DEF Going, Admitted
<1>7. \A d \in Agent \ {c} :
        Going(d)' = Going(d) /\ Admitted(d)' = Admitted(d) /\ Next1(d)' = Next1(d)
  BY <1>5 DEF Others, Going, Admitted, Next1
<1>8. AgentTyped'
  BY <1>2, <1>5 DEF AgentInv, AgentTyped
<1>9. MintKept' /\ ScopeKept'
  BY <1>2, <1>5, <1>6, <1>7 DEF AgentInv, MintKept, ScopeKept, Inserted, Others
<1>10. CallsChecked'
  <2>1. ASSUME NEW d \in Agent \ {c} PROVE CallChecked(d)'
    BY <1>5, OthersChecked DEF AgentInv, Others
  <2>2. CallChecked(c)'
    BY <1>4, <1>5, <1>6, CallsRest DEF CallChecked, Going, new
  <2>3. QED
    BY <2>1, <2>2 DEF CallsChecked
<1>11. DoneInScope'
  BY <1>2, <1>5, <1>6, <1>7 DEF AgentInv, DoneInScope, Covers, Others
<1>12. LateLost'
  <2>1. late[c] = 0
    BY <1>6 DEF AgentInv, AgentTyped, LateLost
  <2>2. QED
    BY <2>1, <1>2, <1>4, <1>5, <1>6, <1>7 DEF AgentInv, LateLost, Others
<1>13. QED
  BY <1>8, <1>9, <1>10, <1>11, <1>12 DEF AgentInv

LEMMA ResolveStep ==
  ASSUME AgentInv, NEW c \in Agent, Resolve(c)
  PROVE  AgentInv'
<1> DEFINE t == call[c].token
<1>1. call[c].at = "resolve" /\ call[c] \in Unresolved /\ t \in Token
      /\ UNCHANGED <<rank, roles, token, minted, done, late>> /\ ~Admitted(c) /\ ~Going(c)
  BY CallShapes DEF Resolve, AgentInv, Unresolved, Admitted, Going
<1>2. late[c] = 0 /\ done[c] = {}
  BY <1>1 DEF AgentInv, AgentTyped, LateLost, DoneInScope
<1>3. /\ Others(c) /\ call' \in [Agent -> {NotCalled} \cup Unresolved \cup Resolved]
      /\ \/ call'[c].at \in {"limited", "unauthorized"}
         \/ /\ token[t].state = "active"
            /\ call'[c].at = "check" /\ call'[c].token = t /\ call'[c].todo = call[c].todo
            /\ call'[c].scope = [base |-> token[t].base, access |-> token[t].access]
  <2>1. CASE \E a \in {"limited", "unauthorized"} : call' = Answered(c, a)
    <3>1. PICK a \in {"limited", "unauthorized"} : call' = Answered(c, a)
      BY <2>1
    <3> DEFINE new == [call[c] EXCEPT !.at = a, !.todo = <<>>]
    <3>2. new \in Unresolved /\ new.at = a
      BY <1>1, EmptySeq DEF Unresolved
    <3>3. call' = [call EXCEPT ![c] = new]
      BY <3>1 DEF Answered
    <3> HIDE DEF new
    <3>4. QED
      BY <3>2, <3>3 DEF Others, AgentInv, AgentTyped
  <2>2. CASE call' = InScope(c, token[t]) /\ token[t].state = "active"
    <3> DEFINE new == [f \in DOMAIN call[c] \cup {"scope"} |->
                 IF f = "scope" THEN [base |-> token[t].base, access |-> token[t].access]
                 ELSE IF f = "at" THEN "check" ELSE call[c][f]]
               sc == [base |-> token[t].base, access |-> token[t].access]
               full == [at |-> "check", token |-> t, base |-> call[c].base,
                        todo |-> call[c].todo, failed |-> call[c].failed, scope |-> sc]
    <3>1. call' = [call EXCEPT ![c] = new]
      BY <2>2 DEF InScope
    <3>2. DOMAIN call[c] = {"at", "token", "base", "todo", "failed"}
      BY <1>1 DEF Unresolved
    <3>3. new = full
      BY <3>2
    <3>4. sc \in Scope
      BY <1>1 DEF AgentInv, AgentTyped, TokenRow, Scope
    <3>5. full \in Resolved
      BY <1>1, <3>4 DEF Unresolved, Resolved
    <3> HIDE DEF new
    <3>6. call'[c] = full /\ Others(c)
          /\ call' \in [Agent -> {NotCalled} \cup Unresolved \cup Resolved]
      BY <3>1, <3>3, <3>5 DEF Others, AgentInv, AgentTyped
    <3>7. QED
      BY <3>6, <2>2
  <2>3. QED
    BY <2>1, <2>2 DEF Resolve
<1>4. \A d \in Agent \ {c} :
        Going(d)' = Going(d) /\ Admitted(d)' = Admitted(d) /\ Next1(d)' = Next1(d)
  BY <1>3 DEF Others, Going, Admitted, Next1
<1>5. AgentTyped'
  BY <1>1, <1>3 DEF AgentInv, AgentTyped
<1>6. MintKept'
  BY <1>1 DEF AgentInv, MintKept, Inserted
<1>7. ScopeKept'
  BY <1>1, <1>3, <1>4 DEF AgentInv, MintKept, ScopeKept, Inserted, Others, Admitted
<1>8. CallsChecked'
  <2>1. ASSUME NEW d \in Agent \ {c} PROVE CallChecked(d)'
    BY <1>3, OthersChecked DEF AgentInv, Others
  <2>2. CallChecked(c)'
    <3>1. Rest(call[c].todo) /\ Opening(call[c].todo)
      BY <1>1 DEF AgentInv, CallsChecked, CallChecked
    <3>2. call'[c].at \notin {"resolve", "run"}
      BY <1>3
    <3>3. Going(c)' => call'[c].at = "check" /\ call'[c].todo = call[c].todo
      BY <1>3 DEF Going
    <3>4. QED
      BY <3>1, <3>2, <3>3 DEF CallChecked, Going
  <2>3. QED
    BY <2>1, <2>2 DEF CallsChecked
<1>9. DoneInScope'
  BY <1>1, <1>2, <1>3, <1>4 DEF AgentInv, DoneInScope, Covers, Others
<1>10. LateLost'
  BY <1>1, <1>2, <1>3, <1>4 DEF AgentInv, LateLost, Others
<1>11. QED
  BY <1>5, <1>6, <1>7, <1>8, <1>9, <1>10 DEF AgentInv

(* A step of the owner that changes no call and inserts no token. *)
LEMMA OwnerStep ==
  ASSUME AgentInv, TokensKept, UNCHANGED <<call, done>>,
         rank' \in [Base -> Roles \cup {"none", "gone"}], roles' \in Nat,
         late' \in [Agent -> Nat],
         \A c \in Agent :
           \/ late'[c] = 0
           \/ late'[c] = late[c] /\ (Going(c) => rank'[call[c].base] \in {rank[call[c].base], "gone"})
           \/ late'[c] = late[c] /\ (Going(c) => rank'[call[c].base] \notin {"editor", "owner"})
  PROVE  AgentInv'
<1>1. AgentTyped'
  BY DEF AgentInv, AgentTyped, TokensKept
<1>2. MintKept'
  BY KeptTokens
<1>3. \A c \in Agent :
        /\ Going(c)' = Going(c) /\ Admitted(c)' = Admitted(c) /\ Next1(c)' = Next1(c)
        /\ Admitted(c) => call[c].token \in Token
  BY CallShapes DEF Going, Admitted, Next1, AgentInv, Resolved
<1>4. ScopeKept'
  BY <1>3 DEF AgentInv, ScopeKept, TokensKept, Inserted
<1>5. CallsChecked'
  BY OthersChecked DEF AgentInv, CallsChecked
<1>6. DoneInScope'
  BY <1>3 DEF AgentInv, DoneInScope, Covers
<1>7. LateLost'
  <2>1. ASSUME NEW c \in Agent
        PROVE  /\ late'[c] <= 1
               /\ late'[c] = 1 => Admitted(c)'
               /\ Going(c)' /\ late'[c] = 1 => rank'[call'[c].base] \notin {"editor", "owner"}
               /\ call'[c].at = "run" /\ Next1(c)' \in Mutations \ {"base.create"} => late'[c] = 0
    BY <1>3 DEF AgentInv, LateLost
  <2>2. QED
    BY <2>1 DEF LateLost
<1>8. QED
  BY <1>1, <1>2, <1>4, <1>5, <1>6, <1>7 DEF AgentInv

LEMMA TokenStep ==
  ASSUME AgentInv, NEW t \in Token,
         CountTokens(t) \/ InsertToken(t) \/ Revoke(t) \/ ExpireToken(t)
  PROVE  AgentInv'
<1>1. CASE CountTokens(t) \/ Revoke(t) \/ ExpireToken(t)
  <2>1. UNCHANGED <<rank, roles, minted, call, done, late>>
    BY <1>1 DEF CountTokens, Revoke, ExpireToken
  <2>2. TokensKept
    <3>1. CASE CountTokens(t)
      BY <2>1, <3>1 DEF CountTokens, TokensKept, Inserted, AgentInv, AgentTyped, TokenRow, MintKept
    <3>2. CASE Revoke(t)
      BY <2>1, <3>2 DEF Revoke, TokensKept, Inserted, AgentInv, AgentTyped, TokenRow, MintKept
    <3>3. CASE ExpireToken(t)
      BY <2>1, <3>3 DEF ExpireToken, TokensKept, Inserted, AgentInv, AgentTyped, TokenRow, MintKept
    <3>4. QED
      BY <1>1, <3>1, <3>2, <3>3
  <2>3. QED
    BY <2>1, <2>2, OwnerStep DEF AgentInv, AgentTyped
<1>2. CASE InsertToken(t)
  <2> DEFINE row == [token[t] EXCEPT !.state =
                      IF token[t].base = AllBases \/ rank[token[t].base] # "gone"
                        THEN "active" ELSE "refused"]
  <2>1. /\ token[t].state = "counted" /\ UNCHANGED <<rank, roles, call, done, late>>
        /\ token' = [token EXCEPT ![t] = row] /\ minted' = [minted EXCEPT ![t] = row]
    BY <1>2 DEF InsertToken, AgentInv, AgentTyped
  <2>2. row \in TokenRow /\ row.state \in {"active", "refused"}
    BY DEF AgentInv, AgentTyped, TokenRow
  <2> HIDE DEF row
  <2>3. AgentTyped'
    BY <2>1, <2>2 DEF AgentInv, AgentTyped
  <2>4. MintKept'
    BY <2>1, <2>2 DEF AgentInv, AgentTyped, MintKept, Inserted
  <2>5. \A c \in Agent : Admitted(c) => call[c].token \in Token \ {t}
    BY <2>1, CallShapes DEF AgentInv, ScopeKept, Inserted, Resolved
  <2>6. \A c \in Agent :
          Going(c)' = Going(c) /\ Admitted(c)' = Admitted(c) /\ Next1(c)' = Next1(c)
    BY <2>1 DEF Going, Admitted, Next1
  <2>7. ScopeKept'
    BY <2>1, <2>5, <2>6 DEF AgentInv, AgentTyped, ScopeKept, Inserted
  <2>8. CallsChecked'
    BY <2>1, OthersChecked DEF AgentInv, CallsChecked
  <2>9. DoneInScope' /\ LateLost'
    BY <2>1, <2>6 DEF AgentInv, DoneInScope, Covers, LateLost
  <2>10. QED
    BY <2>3, <2>4, <2>7, <2>8, <2>9 DEF AgentInv
<1>3. QED
  BY <1>1, <1>2

LEMMA RoleStep ==
  ASSUME AgentInv, NEW b \in Base, ChangeRole(b) \/ LoseBase(b)
  PROVE  AgentInv'
<1>1. CASE ChangeRole(b)
  <2>1. PICK r \in Roles \cup {"none"} : rank' = [rank EXCEPT ![b] = r]
    BY <1>1 DEF ChangeRole
  <2>2. UNCHANGED <<token, minted, call, done>> /\ roles' = roles + 1
        /\ late' = [c \in Agent |->
             IF call[c].at # "idle" /\ call[c].base = b /\ rank'[b] \in {"editor", "owner"}
               THEN 0 ELSE late[c]]
    BY <1>1 DEF ChangeRole
  <2>3. rank' \in [Base -> Roles \cup {"none", "gone"}] /\ roles' \in Nat /\ late' \in [Agent -> Nat]
    BY <2>1, <2>2 DEF AgentInv, AgentTyped
  <2>4. ASSUME NEW c \in Agent
        PROVE  \/ late'[c] = 0
               \/ late'[c] = late[c] /\ (Going(c) => rank'[call[c].base] \in {rank[call[c].base], "gone"})
               \/ late'[c] = late[c] /\ (Going(c) => rank'[call[c].base] \notin {"editor", "owner"})
    <3>1. Going(c) => call[c].base \in Base /\ call[c].at # "idle"
      BY CallShapes, AgentAssumption DEF AgentInv, Resolved, Going
    <3>2. QED
      BY <3>1, <2>1, <2>2 DEF AgentInv, AgentTyped
  <2>5. QED
    BY <2>2, <2>3, <2>4, OwnerStep, TokensUnchanged
<1>2. CASE LoseBase(b)
  <2>1. rank' = [rank EXCEPT ![b] = "gone"] /\ roles' = roles + 1 /\ token' = TokensWithout(b)
        /\ UNCHANGED <<minted, call, done, late>>
    BY <1>2 DEF LoseBase
  <2>2. TokensKept
    BY <2>1, WithoutKept DEF AgentInv
  <2>3. rank' \in [Base -> Roles \cup {"none", "gone"}] /\ roles' \in Nat /\ late' \in [Agent -> Nat]
    BY <2>1 DEF AgentInv, AgentTyped
  <2>4. \A c \in Agent : Going(c) => rank'[call[c].base] \in {rank[call[c].base], "gone"}
    BY <2>1, CallShapes, AgentAssumption DEF AgentInv, AgentTyped, Resolved
  <2>5. QED
    BY <2>1, <2>2, <2>3, <2>4, OwnerStep
<1>3. QED
  BY <1>1, <1>2

LEMMA AgentInvStep == AgentInv /\ [AgentNext]_agentVars => AgentInv'
<1> SUFFICES ASSUME AgentInv, [AgentNext]_agentVars PROVE AgentInv'
  OBVIOUS
<1>1. CASE UNCHANGED agentVars
  <2>1. UNCHANGED <<rank, roles, token, minted, call, done, late>>
    BY <1>1 DEF agentVars
  <2>2. QED
    BY <2>1, TokensUnchanged, OwnerStep DEF AgentInv, AgentTyped
<1>2. CASE AgentNext
  BY <1>2, TokenStep, RoleStep, ArriveStep, ResolveStep, CheckStep, ReadStep, WriteStep,
     CreateStep, RemoveStep, FailStep, FetchStep DEF AgentNext
<1>3. QED
  BY <1>1, <1>2

(* A token is good for what it was created for, whatever bases, roles and   *)
(* tokens become while its requests run, for any tools, any number of       *)
(* requests and cells; and at most one write of a request lands after the   *)
(* role it needs is lost (assertTokenCapability, assertRole).               *)
THEOREM TokensStayBounded == AgentSpec => []TokenBounded
<1>1. AgentInv => TokenBounded
  BY AgentInvSafe
<1>2. QED
  BY <1>1, AgentInvInit, AgentInvStep, PTL DEF AgentSpec

-----------------------------------------------------------------------------
(***************************************************************************)
(* Files.                                                                  *)
(***************************************************************************)
UploadStatements == {"idle", "quota", "refused", "put", "insert", "failed", "answered"}
DownloadStatements == {"idle", "member", "slot", "open", "body", "row", "named", "done"}
DownloadJob == [at : DownloadStatements, user : User \cup {NoOne}, file : SUBSET File]

FilesTyped ==
  /\ attachments \in SUBSET File /\ disk \in SUBSET File
  /\ cells \in [FileTable -> SUBSET File]
  /\ post \in [File -> UploadStatements]
  /\ write \in [User -> [at : {"idle", "write"}, table : FileTable \cup {WholeBase},
                         value : SUBSET File]]
  /\ deletion \in [at : {"idle", "table", "rows", "base", "files"},
                   what : FileTable \cup {WholeBase}, ids : SUBSET File, keys : SUBSET File]
  /\ get \in [Get -> DownloadJob] /\ slots \in [User -> Nat]

AnsweredFiles == {f \in File : post[f] = "answered"}

(* An upload has its file before its row, and a deletion only removes files *)
(* whose rows were there: rows that are gone once the files go, and that no *)
(* upload can make again.                                                  *)
FilesFirst ==
  /\ \A f \in File : post[f] = "insert" => f \in disk
  /\ attachments \subseteq AnsweredFiles
  /\ deletion.keys \subseteq AnsweredFiles
  /\ deletion.at = "files" => deletion.keys \cap attachments = {}
  /\ RowsHaveFiles

(* The downloads of a user that hold a slot. *)
Holding(u) == {d \in Get : get[d].user = u /\ get[d].at \in {"open", "body"}}

SlotsHeld ==
  /\ \A d \in Get : /\ get[d].at \in {"member", "slot"} => get[d].user \in User
                    /\ get[d].at \in {"row", "named"} => get[d].user = NoOne
  /\ Limit > 0 => \A u \in User : slots[u] = Cardinality(Holding(u)) /\ slots[u] <= Limit

FilesInv == FilesTyped /\ FilesFirst

LEMMA FilesInvInit == FilesInit => FilesInv /\ SlotsHeld
<1> SUFFICES ASSUME FilesInit PROVE FilesInv /\ SlotsHeld
  OBVIOUS
<1>1. FilesTyped
  BY DEF FilesInit, FilesTyped, NoWrite, NoDeletion, NoGet, UploadStatements, DownloadStatements, DownloadJob
<1>2. FilesFirst
  BY DEF FilesInit, FilesFirst, AnsweredFiles, NoDeletion, RowsHaveFiles
<1>3. \A u \in User : Holding(u) = {}
  BY DEF FilesInit, Holding, NoGet
<1>4. SlotsHeld
  <2>1. \A u \in User : Cardinality(Holding(u)) = 0 /\ slots[u] = 0
    BY <1>3, FS_EmptySet DEF FilesInit
  <2>2. QED
    BY <2>1, AttachmentsAssumption DEF FilesInit, SlotsHeld, NoGet
<1>5. QED
  BY <1>1, <1>2, <1>4 DEF FilesInv

(* Steps that neither make, remove nor promise a file, a row or a slot. *)
LEMMA FilesFrame ==
  ASSUME FilesInv, UNCHANGED <<attachments, disk, deletion, post>>
  PROVE  FilesFirst'
  BY DEF FilesInv, FilesFirst, AnsweredFiles, RowsHaveFiles

LEMMA UploadSteps ==
  ASSUME FilesInv, NEW f \in File,
         (\E u \in User : Upload(f, u)) \/ CheckQuota(f) \/ Put(f) \/ InsertRow(f)
  PROVE  FilesInv' /\ UNCHANGED <<get, slots>>
<1>1. UNCHANGED <<get, slots, cells, write, deletion>>
  BY DEF Upload, CheckQuota, Put, InsertRow, stored
<1>2. CASE (\E u \in User : Upload(f, u)) \/ CheckQuota(f)
  <2>1. UNCHANGED <<attachments, disk>> /\ post[f] \in {"idle", "quota"}
        /\ \E s \in {"quota", "refused", "put"} : post' = [post EXCEPT ![f] = s]
    BY <1>2 DEF Upload, CheckQuota, stored
  <2>2. QED
    BY <1>1, <2>1 DEF FilesInv, FilesTyped, FilesFirst, AnsweredFiles, RowsHaveFiles, UploadStatements
<1>3. CASE Put(f)
  <2>1. UNCHANGED attachments /\ post[f] = "put"
        /\ \/ post' = [post EXCEPT ![f] = "insert"] /\ disk' = disk \cup {f}
           \/ post' = [post EXCEPT ![f] = "failed"] /\ disk' \in {disk, disk \cup {f}}
    BY <1>3 DEF Put
  <2>2. QED
    BY <1>1, <2>1 DEF FilesInv, FilesTyped, FilesFirst, AnsweredFiles, RowsHaveFiles, UploadStatements
<1>4. CASE InsertRow(f)
  <2>1. UNCHANGED disk /\ post[f] = "insert" /\ f \in disk
        /\ \/ post' = [post EXCEPT ![f] = "answered"] /\ attachments' = attachments \cup {f}
           \/ post' = [post EXCEPT ![f] = "failed"] /\ UNCHANGED attachments
    BY <1>4 DEF InsertRow, FilesInv, FilesFirst
  <2>2. QED
    BY <1>1, <2>1 DEF FilesInv, FilesTyped, FilesFirst, AnsweredFiles, RowsHaveFiles, UploadStatements
<1>5. QED
  BY <1>1, <1>2, <1>3, <1>4

LEMMA CellSteps ==
  ASSUME FilesInv, NEW u \in User,
         \/ \E t \in FileTable, f \in File : NameInCell(u, t, f)
         \/ CommitCell(u)
         \/ \E t \in FileTable : ClearCell(u, t)
  PROVE  FilesInv' /\ UNCHANGED <<get, slots>>
<1>1. UNCHANGED <<attachments, disk, deletion, post, get, slots>>
  BY DEF NameInCell, CommitCell, ClearCell, stored, handlers
<1>2. FilesTyped'
  <2>1. CASE \E t \in FileTable, f \in File : NameInCell(u, t, f)
    <3>1. PICK t \in FileTable, f \in File : NameInCell(u, t, f)
      BY <2>1
    <3>2. Added(t, f) \in SUBSET File
      BY DEF Added, FilesInv, FilesTyped
    <3>3. UNCHANGED cells
          /\ write' = [write EXCEPT ![u] = [at |-> "write", table |-> t, value |-> Added(t, f)]]
      BY <3>1 DEF NameInCell, stored
    <3>4. QED
      BY <1>1, <3>2, <3>3 DEF FilesInv, FilesTyped
  <2>2. CASE CommitCell(u)
    <3>1. /\ cells' = cells \/ cells' = [cells EXCEPT ![write[u].table] = write[u].value]
          /\ write' = [write EXCEPT ![u] = NoWrite]
      BY <2>2 DEF CommitCell
    <3>2. write[u].value \in SUBSET File
      BY DEF FilesInv, FilesTyped
    <3>3. cells' \in [FileTable -> SUBSET File]
      BY <3>1, <3>2 DEF FilesInv, FilesTyped
    <3>4. QED
      BY <1>1, <3>1, <3>3 DEF FilesInv, FilesTyped, NoWrite
  <2>3. CASE \E t \in FileTable : ClearCell(u, t)
    <3>1. PICK t \in FileTable : cells' = [cells EXCEPT ![t] = {}] /\ UNCHANGED write
      BY <2>3 DEF ClearCell, handlers
    <3>2. QED
      BY <1>1, <3>1 DEF FilesInv, FilesTyped
  <2>4. QED
    BY <2>1, <2>2, <2>3
<1>3. QED
  BY <1>1, <1>2, FilesFrame DEF FilesInv

LEMMA DeletionSteps ==
  ASSUME FilesInv,
         \/ \E t \in FileTable : CollectIds(t)
         \/ StartRowDelete \/ CommitTableDelete \/ CollectKeys \/ CommitBaseDelete
         \/ DeletionAnswered \/ \E f \in File : RemoveKey(f)
  PROVE  FilesInv' /\ UNCHANGED <<get, slots>>
<1>1. CASE \E t \in FileTable : CollectIds(t)
  <2>1. PICK t \in FileTable : CollectIds(t)
    BY <1>1
  <2>2. /\ deletion' = [at |-> "table", what |-> t, ids |-> cells[t], keys |-> {}]
        /\ UNCHANGED <<attachments, disk, cells, post, write, get, slots>>
    BY <2>1 DEF CollectIds, Deleting, stored
  <2>3. QED
    BY <2>2 DEF FilesInv, FilesTyped, FilesFirst, AnsweredFiles, RowsHaveFiles
<1>2. CASE StartRowDelete
  <2> DEFINE ks == (deletion.ids \cap attachments) \ NamedElsewhere(deletion.what)
  <2>1. /\ deletion' = [at |-> "rows", what |-> deletion.what, ids |-> deletion.ids, keys |-> ks]
        /\ UNCHANGED <<attachments, disk, cells, post, write, get, slots>>
    BY <1>2 DEF StartRowDelete, Deleting, stored
  <2>2. ks \subseteq attachments
    OBVIOUS
  <2> HIDE DEF ks
  <2>3. QED
    BY <2>1, <2>2 DEF FilesInv, FilesTyped, FilesFirst, AnsweredFiles, RowsHaveFiles
<1>3. CASE CommitTableDelete
  <2>1. /\ deletion' = [at |-> "files", what |-> deletion.what, ids |-> {}, keys |-> deletion.keys]
        /\ attachments' = attachments \ deletion.keys
        /\ cells' = [cells EXCEPT ![deletion.what] = {}]
        /\ UNCHANGED <<disk, post, write, get, slots>>
    BY <1>3 DEF CommitTableDelete, Deleting, Returned
  <2>2. QED
    BY <2>1 DEF FilesInv, FilesTyped, FilesFirst, AnsweredFiles, RowsHaveFiles
<1>4. CASE CollectKeys
  <2>1. /\ deletion' = [at |-> "base", what |-> WholeBase, ids |-> {}, keys |-> attachments]
        /\ UNCHANGED <<attachments, disk, cells, post, write, get, slots>>
    BY <1>4 DEF CollectKeys, Deleting, stored
  <2>2. QED
    BY <2>1 DEF FilesInv, FilesTyped, FilesFirst, AnsweredFiles, RowsHaveFiles
<1>5. CASE CommitBaseDelete
  <2>1. /\ deletion' = [deletion EXCEPT !.at = "files"] /\ attachments' = {}
        /\ cells' = [t \in FileTable |-> {}] /\ UNCHANGED <<disk, post, write, get, slots>>
    BY <1>5 DEF CommitBaseDelete
  <2>2. QED
    BY <2>1 DEF FilesInv, FilesTyped, FilesFirst, AnsweredFiles, RowsHaveFiles
<1>6. CASE DeletionAnswered
  <2>1. deletion' = NoDeletion /\ UNCHANGED <<attachments, disk, cells, post, write, get, slots>>
    BY <1>6 DEF DeletionAnswered, stored
  <2>2. QED
    BY <2>1 DEF FilesInv, FilesTyped, FilesFirst, AnsweredFiles, RowsHaveFiles, NoDeletion
<1>7. CASE \E f \in File : RemoveKey(f)
  <2>1. PICK f \in File : RemoveKey(f)
    BY <1>7
  <2>2. /\ deletion.at = "files" /\ f \in deletion.keys
        /\ disk' \in {disk, disk \ {f}}
        /\ deletion' = [deletion EXCEPT !.keys = @ \ {f}]
        /\ UNCHANGED <<attachments, cells, post, write, get, slots>>
    BY <2>1 DEF RemoveKey
  <2>3. f \notin attachments /\ post[f] = "answered"
    BY <2>2 DEF FilesInv, FilesFirst, AnsweredFiles
  <2>4. QED
    BY <2>2, <2>3 DEF FilesInv, FilesTyped, FilesFirst, AnsweredFiles, RowsHaveFiles
<1>8. QED
  BY <1>1, <1>2, <1>3, <1>4, <1>5, <1>6, <1>7

LEMMA StopStep ==
  ASSUME FilesInv, Stop
  PROVE  FilesInv' /\ SlotsHeld'
<1>1. /\ post' = [f \in File |-> IF post[f] \in {"quota", "put", "insert"} THEN "failed" ELSE post[f]]
      /\ deletion' = NoDeletion
      /\ get' = [d \in Get |-> NoGet] /\ slots' = [u \in User |-> 0]
      /\ write' = [u \in User |-> NoWrite] /\ UNCHANGED <<attachments, disk, cells>>
  BY DEF Stop, stored
<1>2. FilesTyped'
  BY <1>1 DEF FilesInv, FilesTyped, NoWrite, NoDeletion, NoGet, UploadStatements, DownloadStatements, DownloadJob
<1>3. FilesFirst'
  BY <1>1 DEF FilesInv, FilesTyped, FilesFirst, AnsweredFiles, RowsHaveFiles, NoDeletion
<1>4. \A u \in User : Holding(u)' = {}
  BY <1>1 DEF Holding, NoGet
<1>5. \A u \in User : Cardinality(Holding(u)') = 0 /\ slots'[u] = 0
  BY <1>1, <1>4, FS_EmptySet
<1>6. SlotsHeld'
  BY <1>1, <1>5, AttachmentsAssumption DEF SlotsHeld, NoGet
<1>7. QED
  BY <1>2, <1>3, <1>6 DEF FilesInv

(* One download moves: the slots of its user follow. *)
DownloadMoves(d) ==
  /\ get' \in [Get -> DownloadJob]
  /\ \A o \in Get \ {d} : get'[o] = get[o]
  /\ get'[d].at \in {"member", "slot"} => get'[d].user \in User
  /\ get'[d].at \in {"row", "named"} => get'[d].user = NoOne

LEMMA SlotsFollow ==
  ASSUME FilesTyped, SlotsHeld, NEW d \in Get, DownloadMoves(d), slots' \in [User -> Nat],
         Limit > 0,
         NEW u \in User,
         \/ slots'[u] = slots[u] /\ (d \in Holding(u) <=> d \in Holding(u)')
         \/ slots'[u] = slots[u] + 1 /\ slots[u] < Limit /\ d \notin Holding(u) /\ d \in Holding(u)'
         \/ slots'[u] = slots[u] - 1 /\ d \in Holding(u) /\ d \notin Holding(u)'
  PROVE  slots'[u] = Cardinality(Holding(u)') /\ slots'[u] <= Limit
<1>1. IsFiniteSet(Holding(u)) /\ Cardinality(Holding(u)) \in Nat
  BY FS_Subset, FS_CardinalityType, AttachmentsAssumption DEF Holding
<1>2. slots[u] = Cardinality(Holding(u)) /\ slots[u] <= Limit
  BY DEF SlotsHeld
<1>3. \A o \in Get \ {d} : o \in Holding(u) <=> o \in Holding(u)'
  BY DEF Holding, DownloadMoves
<1>4. Limit \in Nat /\ slots[u] \in Nat
  BY AttachmentsAssumption DEF FilesTyped
<1>5. Holding(u) \subseteq Get /\ Holding(u)' \subseteq Get
  BY DEF Holding
<1>6. CASE slots'[u] = slots[u] /\ (d \in Holding(u) <=> d \in Holding(u)')
  <2>1. \A o \in Get : o \in Holding(u)' <=> o \in Holding(u)
    BY <1>3, <1>6
  <2> DEFINE before == Holding(u)
             after == Holding(u)'
  <2>2. before = after
    <3> HIDE DEF before, after
    <3>1. before \subseteq Get /\ after \subseteq Get
      BY <1>5 DEF before, after
    <3>2. \A o \in Get : o \in after <=> o \in before
      BY <2>1 DEF before, after
    <3>3. QED
      BY <3>1, <3>2
  <2>3. QED
    BY <2>2, <1>2, <1>6
<1>7. CASE slots'[u] = slots[u] + 1 /\ slots[u] < Limit /\ d \notin Holding(u) /\ d \in Holding(u)'
  <2>1. Holding(u)' = Holding(u) \cup {d}
    BY <1>3, <1>5, <1>7
  <2>2. Cardinality(Holding(u)') = Cardinality(Holding(u)) + 1
    BY <2>1, <1>1, <1>7, FS_AddElement
  <2>3. QED
    BY <2>2, <1>2, <1>4, <1>7
<1>8. CASE slots'[u] = slots[u] - 1 /\ d \in Holding(u) /\ d \notin Holding(u)'
  <2>1. Holding(u)' = Holding(u) \ {d}
    BY <1>3, <1>5, <1>8
  <2>2. Cardinality(Holding(u)') = Cardinality(Holding(u)) - 1
    BY <2>1, <1>1, <1>8, FS_RemoveElement
  <2>3. QED
    BY <2>2, <1>2, <1>4, <1>8
<1>9. QED
  BY <1>6, <1>7, <1>8

LEMMA DownloadKeeps ==
  ASSUME FilesInv, SlotsHeld, NEW d \in Get, DownloadMoves(d), slots' \in [User -> Nat],
         UNCHANGED <<attachments, disk, cells, post, write, deletion>>,
         Limit > 0 => \A u \in User :
           \/ slots'[u] = slots[u] /\ (d \in Holding(u) <=> d \in Holding(u)')
           \/ slots'[u] = slots[u] + 1 /\ slots[u] < Limit /\ d \notin Holding(u) /\ d \in Holding(u)'
           \/ slots'[u] = slots[u] - 1 /\ d \in Holding(u) /\ d \notin Holding(u)'
  PROVE  FilesInv' /\ SlotsHeld'
<1>1. FilesTyped'
  BY DEF FilesInv, FilesTyped, DownloadMoves
<1>2. FilesInv'
  BY <1>1, FilesFrame DEF FilesInv
<1>3. \A o \in Get : /\ get'[o].at \in {"member", "slot"} => get'[o].user \in User
                     /\ get'[o].at \in {"row", "named"} => get'[o].user = NoOne
  BY DEF DownloadMoves, SlotsHeld
<1>4. Limit > 0 => \A u \in User : slots'[u] = Cardinality(Holding(u)') /\ slots'[u] <= Limit
  BY SlotsFollow DEF FilesInv
<1>5. QED
  BY <1>2, <1>3, <1>4 DEF SlotsHeld

LEMMA JobTyped ==
  ASSUME FilesInv, SlotsHeld, NEW d \in Get
  PROVE  /\ get[d] \in DownloadJob /\ slots \in [User -> Nat]
         /\ get[d].user # NoOne => get[d].user \in User
         /\ get[d].at \in {"member", "slot"} => get[d].user \in User
         /\ get[d].at \in {"row", "named"} => get[d].user = NoOne
  BY DEF FilesInv, FilesTyped, SlotsHeld, DownloadJob

(* A download is given a new job, or its job a new statement. *)
LEMMA NewJob ==
  ASSUME FilesInv, NEW d \in Get, NEW new \in DownloadJob, get' = [get EXCEPT ![d] = new],
         new.at \in {"member", "slot"} => new.user \in User,
         new.at \in {"row", "named"} => new.user = NoOne
  PROVE  DownloadMoves(d) /\ get'[d] = new
  BY DEF DownloadMoves, FilesInv, FilesTyped

LEMMA NextStatement ==
  ASSUME FilesInv, SlotsHeld, NEW d \in Get, NEW s \in DownloadStatements, At(d, s),
         s \in {"member", "slot"} => get[d].user \in User,
         s \in {"row", "named"} => get[d].user = NoOne
  PROVE  DownloadMoves(d) /\ get'[d].at = s /\ get'[d].user = get[d].user
<1> DEFINE new == [get[d] EXCEPT !.at = s]
<1>1. new \in DownloadJob /\ new.at = s /\ new.user = get[d].user
  BY JobTyped DEF DownloadJob
<1>2. get' = [get EXCEPT ![d] = new]
  BY DEF At
<1> HIDE DEF new
<1>3. QED
  BY <1>1, <1>2, NewJob

LEMMA DownloadSteps ==
  ASSUME FilesInv, SlotsHeld, NEW d \in Get,
         \/ \E u \in User, f \in File : Ask(d, u, f)
         \/ \E f \in File : Visit(d, f)
         \/ CheckMember(d) \/ TryAcquire(d) \/ OpenStream(d) \/ CloseStream(d)
         \/ VisitorRow(d) \/ VisitorNamed(d) \/ VisitorBody(d) \/ Again(d)
  PROVE  FilesInv' /\ SlotsHeld'
<1>1. UNCHANGED <<attachments, disk, cells, post, write, deletion>>
  BY DEF Ask, Visit, CheckMember, TryAcquire, OpenStream, CloseStream, VisitorRow,
         VisitorNamed, VisitorBody, Again, stored
<1>2. \A u \in User : u # NoOne
  BY AttachmentsAssumption
<1>3. CASE \/ \E u \in User, f \in File : Ask(d, u, f)
           \/ \E f \in File : Visit(d, f)
           \/ Again(d)
  <2>1. PICK new \in DownloadJob :
          /\ get' = [get EXCEPT ![d] = new] /\ new.at \in {"idle", "member", "row"}
          /\ new.at = "member" => new.user \in User
          /\ new.at = "row" => new.user = NoOne
    <3>1. CASE \E u \in User, f \in File : Ask(d, u, f)
      BY <3>1 DEF Ask, DownloadJob, DownloadStatements
    <3>2. CASE \E f \in File : Visit(d, f)
      <4>1. PICK f \in File : Visit(d, f)
        BY <3>2
      <4> DEFINE new == [at |-> "row", user |-> NoOne, file |-> {f}]
      <4>2. new \in DownloadJob /\ new.at = "row" /\ new.user = NoOne
        BY DEF DownloadJob, DownloadStatements
      <4>3. get' = [get EXCEPT ![d] = new]
        BY <4>1 DEF Visit
      <4> QED BY <4>2, <4>3
    <3>3. CASE Again(d)
      <4>1. NoGet \in DownloadJob /\ NoGet.at = "idle"
        BY DEF NoGet, DownloadJob, DownloadStatements
      <4> QED BY <3>3, <4>1 DEF Again
    <3> QED BY <1>3, <3>1, <3>2, <3>3
  <2>2. DownloadMoves(d) /\ get'[d] = new
    BY <2>1, NewJob
  <2>3. get[d].at \in {"idle", "done"} /\ slots' = slots
    BY <1>3 DEF Ask, Visit, Again
  <2>4. \A u \in User : d \notin Holding(u) /\ d \notin Holding(u)'
    BY <2>1, <2>2, <2>3 DEF Holding
  <2>5. QED
    BY <1>1, <2>2, <2>3, <2>4, DownloadKeeps, JobTyped
<1>4. CASE CheckMember(d)
  <2>1. PICK s \in {"slot", "done"} : At(d, s)
    BY <1>4 DEF CheckMember
  <2>2. get[d].at = "member" /\ get[d].user \in User /\ slots' = slots
    BY <1>4, JobTyped DEF CheckMember
  <2>3. DownloadMoves(d) /\ get'[d].at = s
    BY <2>1, <2>2, NextStatement DEF DownloadStatements
  <2>4. \A u \in User : d \notin Holding(u) /\ d \notin Holding(u)'
    BY <2>2, <2>3 DEF Holding
  <2>5. QED
    BY <1>1, <2>2, <2>3, <2>4, DownloadKeeps, JobTyped
<1>5. CASE VisitorRow(d) \/ VisitorNamed(d) \/ VisitorBody(d)
  <2>1. PICK s \in {"done", "open", "named", "body"} : At(d, s)
    BY <1>5 DEF VisitorRow, VisitorNamed, VisitorBody
  <2>2. get[d].user = NoOne /\ slots' = slots
    BY <1>5, JobTyped DEF VisitorRow, VisitorNamed, VisitorBody
  <2>3. DownloadMoves(d) /\ get'[d].user = NoOne
    BY <2>1, <2>2, NextStatement DEF DownloadStatements
  <2>4. \A u \in User : d \notin Holding(u) /\ d \notin Holding(u)'
    BY <1>2, <2>2, <2>3 DEF Holding
  <2>5. QED
    BY <1>1, <2>2, <2>3, <2>4, DownloadKeeps, JobTyped
<1> DEFINE v == get[d].user
<1>6. CASE TryAcquire(d)
  <2>1. get[d].at = "slot" /\ v \in User
    BY <1>6, JobTyped DEF TryAcquire
  <2>2. CASE Limit = 0 \/ slots[v] < Limit
    <3>1. At(d, "open") /\ slots' = [slots EXCEPT ![v] = IF Limit = 0 THEN @ ELSE @ + 1]
      BY <1>6, <2>2 DEF TryAcquire
    <3>2. DownloadMoves(d) /\ get'[d].at = "open" /\ get'[d].user = v
      BY <3>1, <2>1, NextStatement DEF DownloadStatements
    <3>3. slots' \in [User -> Nat]
      <4>1. slots \in [User -> Nat]
        BY JobTyped
      <4>2. slots[v] \in Nat /\ slots[v] + 1 \in Nat
        BY <4>1, <2>1
      <4>3. QED
        BY <3>1, <4>1, <4>2
    <3>4. /\ \A u \in User : d \notin Holding(u)
          /\ \A u \in User : d \in Holding(u)' <=> u = v
      BY <2>1, <3>2 DEF Holding
    <3>5. ASSUME Limit > 0, NEW u \in User
          PROVE  \/ slots'[u] = slots[u] /\ (d \in Holding(u) <=> d \in Holding(u)')
                 \/ slots'[u] = slots[u] + 1 /\ slots[u] < Limit
                    /\ d \notin Holding(u) /\ d \in Holding(u)'
      BY <3>5, <2>1, <2>2, <3>1, <3>4, JobTyped, AttachmentsAssumption
    <3>6. QED
      BY <1>1, <3>2, <3>3, <3>5, DownloadKeeps
  <2>3. CASE ~(Limit = 0 \/ slots[v] < Limit)
    <3>1. At(d, "done") /\ slots' = slots
      BY <1>6, <2>3 DEF TryAcquire
    <3>2. DownloadMoves(d) /\ get'[d].at = "done"
      BY <3>1, NextStatement DEF DownloadStatements
    <3>3. \A u \in User : d \notin Holding(u) /\ d \notin Holding(u)'
      BY <2>1, <3>2 DEF Holding
    <3>4. QED
      BY <1>1, <3>1, <3>2, <3>3, DownloadKeeps, JobTyped
  <2>4. QED
    BY <2>2, <2>3
<1>7. CASE OpenStream(d) \/ CloseStream(d)
  <2>1. get[d].at \in {"open", "body"} /\ v \in User
    BY <1>7, JobTyped DEF OpenStream, CloseStream
  <2>2. CASE At(d, "body") /\ UNCHANGED slots
    <3>1. DownloadMoves(d) /\ get'[d].at = "body" /\ get'[d].user = v
      BY <2>2, NextStatement DEF DownloadStatements
    <3>2. \A u \in User : d \in Holding(u) <=> d \in Holding(u)'
      BY <2>1, <3>1 DEF Holding
    <3>3. QED
      BY <1>1, <2>2, <3>1, <3>2, DownloadKeeps, JobTyped
  <2>3. CASE At(d, "done") /\ slots' = Released(v)
    <3>1. DownloadMoves(d) /\ get'[d].at = "done" /\ get'[d].user = v
      BY <2>3, NextStatement DEF DownloadStatements
    <3>2. slots' \in [User -> Nat]
          /\ \A u \in User : slots'[u] = IF u = v THEN (IF slots[u] <= 1 THEN 0 ELSE slots[u] - 1)
                                         ELSE slots[u]
      BY <2>1, <2>3, JobTyped DEF Released
    <3>3. /\ \A u \in User : d \notin Holding(u)'
          /\ \A u \in User : d \in Holding(u) <=> u = v
      BY <2>1, <3>1 DEF Holding
    <3>4. Limit > 0 => slots[v] >= 1
      <4>1. SUFFICES ASSUME Limit > 0 PROVE slots[v] # 0
        BY <2>1, JobTyped
      <4>2. IsFiniteSet(Holding(v))
        BY FS_Subset, AttachmentsAssumption DEF Holding
      <4>3. Cardinality(Holding(v)) # 0
        BY <2>1, <3>3, <4>2, FS_EmptySet
      <4>4. QED
        BY <2>1, <4>1, <4>3 DEF SlotsHeld
    <3>5. ASSUME Limit > 0, NEW u \in User
          PROVE  \/ slots'[u] = slots[u] /\ (d \in Holding(u) <=> d \in Holding(u)')
                 \/ slots'[u] = slots[u] - 1 /\ d \in Holding(u) /\ d \notin Holding(u)'
      BY <3>5, <2>1, <3>2, <3>3, <3>4, JobTyped
    <3>6. QED
      BY <1>1, <3>1, <3>2, <3>5, DownloadKeeps
  <2>4. QED
    BY <1>7, <2>2, <2>3 DEF OpenStream, CloseStream
<1>8. QED
  BY <1>3, <1>4, <1>5, <1>6, <1>7

LEMMA SlotsFrame ==
  ASSUME SlotsHeld, UNCHANGED <<get, slots>>
  PROVE  SlotsHeld'
  BY DEF SlotsHeld, Holding

LEMMA FilesInvStep == FilesInv /\ SlotsHeld /\ [FilesNext]_fileVars => FilesInv' /\ SlotsHeld'
<1> SUFFICES ASSUME FilesInv, SlotsHeld, [FilesNext]_fileVars PROVE FilesInv' /\ SlotsHeld'
  OBVIOUS
<1>1. CASE \/ UNCHANGED fileVars
           \/ \E u \in User : Leave(u)
           \/ RevokeShare
  <2>1. UNCHANGED <<attachments, disk, cells, post, write, deletion, get, slots>>
    BY <1>1 DEF fileVars, Leave, RevokeShare, stored, handlers
  <2>2. FilesTyped'
    BY <2>1 DEF FilesInv, FilesTyped
  <2>3. QED
    BY <2>1, <2>2, FilesFrame, SlotsFrame DEF FilesInv
<1>2. CASE FilesNext /\ ~(\E u \in User : Leave(u)) /\ ~RevokeShare
  BY <1>2, UploadSteps, CellSteps, DeletionSteps, StopStep, DownloadSteps, SlotsFrame
  DEF FilesNext
<1>3. QED
  BY <1>1, <1>2

(* An attachment that can be downloaded has its file, for any files, users  *)
(* and tables, and any number of restarts (upload/route.ts, table.ts,       *)
(* base.ts: file before row, row before file).                             *)
THEOREM RowsKeepFiles == FilesSpec => []RowsHaveFiles
<1>1. FilesInv => RowsHaveFiles
  BY DEF FilesInv, FilesFirst
<1>2. QED
  BY <1>1, FilesInvInit, FilesInvStep, PTL DEF FilesSpec

-----------------------------------------------------------------------------
(***************************************************************************)
(* Sums over finite sets, by induction on their subsets.                   *)
(***************************************************************************)
(* Every nonempty set of numbers has a least one: the form of induction the *)
(* lemmas on sums use.                                                      *)
LEMMA LeastNumber ==
  ASSUME NEW T \in SUBSET Nat, T # {}
  PROVE  \E n \in T : \A m \in T : n <= m
<1>1. PICK n \in T : \A m \in T : ~ (<<m, n>> \in OpToRel(<, Nat))
  BY NatLessThanWellFounded, WFMin, Zenon
<1>2. \A m \in T : m < n => <<m, n>> \in OpToRel(<, Nat)
  BY Zenon DEF OpToRel
<1>3. \A m \in T : ~(m < n)
  BY <1>1, <1>2, Zenon
<1> QED BY <1>3

(* The sum of w over a set, by the element that is taken first.             *)
SumOver(w, S) == MapThenSumSet(LAMBDA x : w[x], S)
Taken(s) == CHOOSE x \in s : TRUE
Small(S, n) == {s \in SUBSET S : Cardinality(s) <= n}
Sums(w, SS, g) ==
  g = [s \in SS |-> IF s = {} THEN 0 ELSE w[Taken(s)] + g[s \ {Taken(s)}]]

LEMMA TakenIsIn == ASSUME NEW s, s # {} PROVE Taken(s) \in s
  BY DEF Taken

LEMMA SumsExist ==
  ASSUME NEW w, NEW S, IsFiniteSet(S)
  PROVE  \E g : Sums(w, SUBSET S, g)
<1> DEFINE T == {n \in Nat : ~ \E g : Sums(w, Small(S, n), g)}
<1>1. 0 \notin T
  <2> DEFINE g == [s \in Small(S, 0) |-> 0]
  <2>1. \A s \in Small(S, 0) : s = {}
    BY FS_Subset, FS_CardinalityType, FS_EmptySet DEF Small
  <2>2. g = [s \in Small(S, 0) |-> IF s = {} THEN 0 ELSE w[Taken(s)] + g[s \ {Taken(s)}]]
    BY <2>1
  <2>3. Sums(w, Small(S, 0), g)
    BY <2>2 DEF Sums
  <2> QED BY <2>3
<1>2. ASSUME NEW n \in Nat, n \notin T PROVE n + 1 \notin T
  <2>1. PICK g : Sums(w, Small(S, n), g)
    BY <1>2
  <2> DEFINE h == [s \in Small(S, n + 1) |->
                     IF s = {} THEN 0 ELSE w[Taken(s)] + g[s \ {Taken(s)}]]
  <2>2. ASSUME NEW s \in Small(S, n + 1), s # {}
        PROVE  /\ s \ {Taken(s)} \in Small(S, n)
               /\ s \ {Taken(s)} \in Small(S, n + 1)
    <3>1. Taken(s) \in s /\ IsFiniteSet(s) /\ s \in SUBSET S
      BY <2>2, TakenIsIn, FS_Subset DEF Small
    <3>2. Cardinality(s \ {Taken(s)}) = Cardinality(s) - 1 /\ Cardinality(s) \in Nat
      BY <3>1, FS_RemoveElement, FS_CardinalityType
    <3>3. Cardinality(s) <= n + 1
      BY <2>2 DEF Small
    <3> QED BY <3>1, <3>2, <3>3 DEF Small
  <2>3. ASSUME NEW s \in Small(S, n), s \in Small(S, n + 1) PROVE h[s] = g[s]
    BY <2>1, <2>3 DEF Sums
  <2>4. h = [s \in Small(S, n + 1) |->
               IF s = {} THEN 0 ELSE w[Taken(s)] + h[s \ {Taken(s)}]]
    BY <2>2, <2>3
  <2>5. Sums(w, Small(S, n + 1), h)
    BY <2>4 DEF Sums
  <2> QED BY <2>5
<1>3. T = {}
  <2>1. SUFFICES ASSUME T # {} PROVE FALSE
    OBVIOUS
  <2>2. PICK n \in T : \A m \in T : n <= m
    BY <2>1, LeastNumber
  <2>3. n \in Nat /\ n - 1 \in Nat /\ n - 1 \notin T /\ (n - 1) + 1 = n
    BY <1>1, <2>2
  <2> HIDE DEF T
  <2> QED BY <2>2, <2>3, <1>2
<1>4. Cardinality(S) \in Nat /\ Small(S, Cardinality(S)) = SUBSET S
  BY FS_CardinalityType, FS_Subset DEF Small
<1>5. Cardinality(S) \notin T
  BY <1>3
<1>6. \E g : Sums(w, Small(S, Cardinality(S)), g)
  BY <1>4, <1>5
<1> QED BY <1>4, <1>6

(* The sum unfolds, whatever set it started from.                           *)
LEMMA SumIsSums ==
  ASSUME NEW w, NEW S, IsFiniteSet(S)
  PROVE  \E g : Sums(w, SUBSET S, g) /\ SumOver(w, S) = g[S]
<1> DEFINE it == CHOOSE g : g = [s \in SUBSET S |-> IF s = {} THEN 0 ELSE
                     w[CHOOSE x \in s : TRUE] + g[s \ {CHOOSE x \in s : TRUE}]]
<1>1. \E g : g = [s \in SUBSET S |-> IF s = {} THEN 0 ELSE
                     w[CHOOSE x \in s : TRUE] + g[s \ {CHOOSE x \in s : TRUE}]]
  <2>1. PICK g : Sums(w, SUBSET S, g)
    BY SumsExist
  <2>2. g = [s \in SUBSET S |-> IF s = {} THEN 0 ELSE
                     w[CHOOSE x \in s : TRUE] + g[s \ {CHOOSE x \in s : TRUE}]]
    BY <2>1, Zenon DEF Sums, Taken
  <2> QED BY <2>2
<1>2. it = [s \in SUBSET S |-> IF s = {} THEN 0 ELSE
                     w[CHOOSE x \in s : TRUE] + it[s \ {CHOOSE x \in s : TRUE}]]
  BY <1>1
<1>3. Sums(w, SUBSET S, it)
  BY <1>2 DEF Sums, Taken
<1>4. SumOver(w, S) = it[S]
  BY DEF SumOver, MapThenSumSet, MapThenFoldSet
<1> QED BY <1>3, <1>4

(* What holds of a set when it holds of its smaller subsets holds of every  *)
(* subset of a finite set.                                                  *)
LEMMA SubsetInduction ==
  ASSUME NEW D, IsFiniteSet(D), NEW G,
         \A s \in SUBSET D : (\A t \in SUBSET s : t # s => t \in G) => s \in G
  PROVE  \A s \in SUBSET D : s \in G
<1> DEFINE T == {n \in Nat : \E s \in SUBSET D : s \notin G /\ Cardinality(s) = n}
<1> SUFFICES ASSUME NEW r \in SUBSET D, r \notin G PROVE FALSE
  OBVIOUS
<1>1. Cardinality(r) \in T
  BY FS_CardinalityType, FS_Subset
<1>2. PICK n \in T : \A m \in T : n <= m
  BY <1>1, LeastNumber
<1>3. PICK s \in SUBSET D : s \notin G /\ Cardinality(s) = n
  BY <1>2
<1>4. PICK t \in SUBSET s : t # s /\ t \notin G
  BY <1>3
<1>5. IsFiniteSet(s) /\ IsFiniteSet(t)
  BY FS_Subset
<1>6. Cardinality(t) < Cardinality(s) /\ Cardinality(t) \in Nat
  <2>1. Cardinality(t) \in Nat /\ Cardinality(s) \in Nat
    BY <1>5, FS_CardinalityType
  <2>2. Cardinality(t) <= Cardinality(s) /\ Cardinality(s) # Cardinality(t)
    BY <1>4, <1>5, FS_Subset
  <2> QED BY <2>1, <2>2
<1>7. Cardinality(t) \in T
  BY <1>4, <1>6
<1> QED BY <1>2, <1>3, <1>6, <1>7

LEMMA SumsAgree ==
  ASSUME NEW w, NEW S, IsFiniteSet(S), NEW g, Sums(w, SUBSET S, g)
  PROVE  \A t \in SUBSET S : g[t] = SumOver(w, t)
<1> SUFFICES ASSUME NEW t \in SUBSET S PROVE g[t] = SumOver(w, t)
  OBVIOUS
<1>1. PICK h : Sums(w, SUBSET t, h) /\ SumOver(w, t) = h[t]
  BY FS_Subset, SumIsSums
<1> DEFINE G == {s \in SUBSET t : g[s] = h[s]}
<1>2. ASSUME NEW s \in SUBSET t, \A u \in SUBSET s : u # s => u \in G
      PROVE  s \in G
  <2>1. CASE s = {}
    BY <1>1, <2>1 DEF Sums
  <2>2. CASE s # {}
    <3>1. Taken(s) \in s /\ s \ {Taken(s)} \in SUBSET s /\ s \ {Taken(s)} # s
      BY <2>2, TakenIsIn
    <3>2. g[s \ {Taken(s)}] = h[s \ {Taken(s)}]
      BY <1>2, <3>1
    <3>3. g[s] = w[Taken(s)] + g[s \ {Taken(s)}]
      BY <2>2 DEF Sums
    <3>4. h[s] = w[Taken(s)] + h[s \ {Taken(s)}]
      BY <1>1, <2>2 DEF Sums
    <3> QED BY <3>2, <3>3, <3>4
  <2> QED BY <2>1, <2>2
<1>3. IsFiniteSet(t)
  BY FS_Subset
<1> HIDE DEF G
<1>4. t \in G
  BY <1>2, <1>3, SubsetInduction
<1> QED BY <1>1, <1>4 DEF G

LEMMA SumOfNone == ASSUME NEW w PROVE SumOver(w, {}) = 0
<1>1. PICK g : Sums(w, SUBSET {}, g) /\ SumOver(w, {}) = g[{}]
  BY FS_EmptySet, SumIsSums
<1> QED BY <1>1 DEF Sums

LEMMA SumFirst ==
  ASSUME NEW w, NEW S, IsFiniteSet(S), S # {}
  PROVE  SumOver(w, S) = w[Taken(S)] + SumOver(w, S \ {Taken(S)})
<1>1. PICK g : Sums(w, SUBSET S, g) /\ SumOver(w, S) = g[S]
  BY SumIsSums
<1>2. g[S] = w[Taken(S)] + g[S \ {Taken(S)}]
  BY <1>1 DEF Sums
<1> DEFINE t == S \ {Taken(S)}
<1>3. t \in SUBSET S
  OBVIOUS
<1> HIDE DEF t
<1>4. Sums(w, SUBSET S, g)
  BY <1>1, Zenon
<1>5. g[t] = SumOver(w, t)
  BY <1>3, <1>4, SumsAgree
<1> QED BY <1>1, <1>2, <1>5 DEF t

LEMMA SumIsNatural ==
  ASSUME NEW w, NEW D, IsFiniteSet(D), \A x \in D : w[x] \in Nat
  PROVE  \A S \in SUBSET D : SumOver(w, S) \in Nat
<1> DEFINE G == {s \in SUBSET D : SumOver(w, s) \in Nat}
<1>1. ASSUME NEW s \in SUBSET D, \A t \in SUBSET s : t # s => t \in G
      PROVE  s \in G
  <2>1. CASE s = {}
    BY <2>1, SumOfNone
  <2>2. CASE s # {}
    <3>1. Taken(s) \in s /\ s \ {Taken(s)} \in SUBSET s /\ s \ {Taken(s)} # s
      BY <2>2, TakenIsIn
    <3>2. SumOver(w, s \ {Taken(s)}) \in Nat /\ w[Taken(s)] \in Nat
      BY <1>1, <3>1
    <3>3. SumOver(w, s) = w[Taken(s)] + SumOver(w, s \ {Taken(s)})
      BY <2>2, FS_Subset, SumFirst
    <3> QED BY <3>2, <3>3
  <2> QED BY <2>1, <2>2
<1> HIDE DEF G
<1>2. \A S \in SUBSET D : S \in G
  BY <1>1, SubsetInduction
<1> QED BY <1>2 DEF G

(* Whatever element is taken first, the sum is the same.                    *)
LEMMA SumRemove ==
  ASSUME NEW w, NEW D, IsFiniteSet(D), \A x \in D : w[x] \in Nat
  PROVE  \A S \in SUBSET D : \A y \in S : SumOver(w, S) = w[y] + SumOver(w, S \ {y})
<1> DEFINE G == {s \in SUBSET D : \A y \in s : SumOver(w, s) = w[y] + SumOver(w, s \ {y})}
<1>1. ASSUME NEW s \in SUBSET D, \A t \in SUBSET s : t # s => t \in G
      PROVE  s \in G
  <2> SUFFICES ASSUME NEW y \in s
               PROVE  SumOver(w, s) = w[y] + SumOver(w, s \ {y})
    OBVIOUS
  <2> DEFINE x == Taken(s)
  <2>1. x \in s
    BY TakenIsIn
  <2>2. SumOver(w, s) = w[x] + SumOver(w, s \ {x})
    BY FS_Subset, SumFirst
  <2> HIDE DEF x
  <2>3. CASE x = y
    BY <2>2, <2>3
  <2>4. CASE x # y
    <3>1. s \ {x} \in G /\ s \ {y} \in G
      BY <1>1, <2>1
    <3>2. SumOver(w, s \ {x}) = w[y] + SumOver(w, (s \ {x}) \ {y})
      BY <2>4, <3>1
    <3>3. SumOver(w, s \ {y}) = w[x] + SumOver(w, (s \ {y}) \ {x})
      BY <2>1, <2>4, <3>1
    <3>4. SumOver(w, (s \ {y}) \ {x}) = SumOver(w, (s \ {x}) \ {y})
      <4>1. (s \ {y}) \ {x} = (s \ {x}) \ {y}
        OBVIOUS
      <4> QED BY <4>1, Zenon
    <3>5. SumOver(w, (s \ {x}) \ {y}) \in Nat /\ w[x] \in Nat /\ w[y] \in Nat
      BY <2>1, SumIsNatural
    <3> QED BY <2>2, <3>2, <3>3, <3>4, <3>5
  <2> QED BY <2>3, <2>4
<1> HIDE DEF G
<1>2. \A S \in SUBSET D : S \in G
  BY <1>1, SubsetInduction
<1> QED BY <1>2 DEF G

(* A sum over more is more, by no more than the greatest summand for each.  *)
LEMMA SumGrows ==
  ASSUME NEW w, NEW D, IsFiniteSet(D), \A x \in D : w[x] \in Nat,
         NEW M \in Nat
  PROVE  \A A \in SUBSET D, B \in SUBSET D :
           /\ SumOver(w, A) <= SumOver(w, A \cup B)
           /\ (\A x \in B : w[x] <= M) =>
                SumOver(w, A \cup B) <= SumOver(w, A) + Cardinality(B) * M
<1> SUFFICES ASSUME NEW A \in SUBSET D
             PROVE \A B \in SUBSET D :
               /\ SumOver(w, A) <= SumOver(w, A \cup B)
               /\ (\A x \in B : w[x] <= M) =>
                    SumOver(w, A \cup B) <= SumOver(w, A) + Cardinality(B) * M
  OBVIOUS
<1> DEFINE Bounded(s) == /\ SumOver(w, A) <= SumOver(w, A \cup s)
                         /\ (\A x \in s : w[x] <= M) =>
                              SumOver(w, A \cup s) <= SumOver(w, A) + Cardinality(s) * M
           G == {s \in SUBSET D : Bounded(s)}
<1>1. ASSUME NEW s \in SUBSET D, \A t \in SUBSET s : t # s => t \in G
      PROVE  s \in G
  <2>0. \A t \in SUBSET D : SumOver(w, t) \in Nat
    BY SumIsNatural
  <2>1. CASE s = {}
    <3>1. A \cup s = A /\ Cardinality(s) = 0
      BY <2>1, FS_EmptySet
    <3>2. SumOver(w, A \cup s) = SumOver(w, A) /\ SumOver(w, A) \in Nat
      BY <2>0, <3>1, Zenon
    <3>3. Bounded(s)
      BY <3>1, <3>2
    <3> QED BY <3>3
  <2>2. CASE s # {}
    <3> DEFINE x == Taken(s)
               t == s \ {x}
    <3>1. x \in s /\ x \in D
      BY <2>2, TakenIsIn
    <3> HIDE DEF x
    <3>2. t \in G /\ t \in SUBSET D
      BY <1>1, <3>1
    <3>3. Bounded(t)
      BY <3>2
    <3>4. Cardinality(s) = Cardinality(t) + 1 /\ Cardinality(t) \in Nat
      BY <3>1, FS_Subset, FS_RemoveElement, FS_CardinalityType
    <3>5. Cardinality(s) * M = Cardinality(t) * M + M /\ Cardinality(t) * M \in Nat
      BY <3>4
    <3>6. w[x] \in Nat /\ SumOver(w, A) \in Nat /\ SumOver(w, A \cup t) \in Nat
      BY <2>0, <3>1
    <3>7. /\ SumOver(w, A \cup t) <= SumOver(w, A \cup s)
          /\ SumOver(w, A \cup s) <= SumOver(w, A \cup t) + w[x]
      <4>1. CASE x \in A
        <5>1. A \cup s = A \cup t
          BY <3>1, <4>1
        <5>2. SumOver(w, A \cup s) = SumOver(w, A \cup t)
          BY <5>1, Zenon
        <5> QED BY <3>6, <5>2
      <4>2. CASE x \notin A
        <5>1. (A \cup s) \ {x} = A \cup t /\ x \in A \cup s /\ A \cup s \in SUBSET D
          BY <3>1, <4>2
        <5>2. SumOver(w, A \cup s) = w[x] + SumOver(w, A \cup t)
          BY <5>1, SumRemove
        <5> QED BY <3>6, <5>2
      <4> QED BY <4>1, <4>2
    <3>8. SumOver(w, A \cup s) \in Nat
      BY <2>0
    <3>9. SumOver(w, A) <= SumOver(w, A \cup s)
      BY <3>3, <3>6, <3>7, <3>8
    <3>10. (\A y \in s : w[y] <= M) =>
             SumOver(w, A \cup s) <= SumOver(w, A) + Cardinality(s) * M
      <4> SUFFICES ASSUME \A y \in s : w[y] <= M
                   PROVE  SumOver(w, A \cup s) <= SumOver(w, A) + Cardinality(s) * M
        OBVIOUS
      <4>1. SumOver(w, A \cup t) <= SumOver(w, A) + Cardinality(t) * M /\ w[x] <= M
        BY <3>1, <3>3
      <4> HIDE DEF t
      <4> QED BY <4>1, <3>5, <3>6, <3>7, <3>8
    <3> QED BY <3>9, <3>10
  <2> QED BY <2>1, <2>2
<1> HIDE DEF G
<1>2. \A S \in SUBSET D : S \in G
  BY <1>1, SubsetInduction
<1> QED BY <1>2 DEF G

-----------------------------------------------------------------------------
(***************************************************************************)
(* Quotas.                                                                 *)
(***************************************************************************)
(* The files a user's quota is charged with: those with a row, and those    *)
(* the check let past that may still get one.                               *)
Charged(u) ==
  {f \in File : by[f] = u /\ (f \in attachments \/ post[f] \in {"put", "insert"})}
Started == {f \in File : post[f] # "idle"}
Ceiling(u) == Quota + (IF peak[u] = 0 THEN 0 ELSE peak[u] - 1) * MaxSize

QuotaTyped ==
  /\ by \in [File -> User \cup {NoOne}]
  /\ peak \in [User -> Nat]
  /\ IsFiniteSet(Started)
  /\ \A f \in Started : SizeOf[f] <= MaxSize

QuotaKept ==
  /\ QuotaTyped
  /\ \A u \in User : Cardinality(PastQuota(u)) <= peak[u]
  /\ Quota > 0 => \A u \in User : SumOver(SizeOf, Charged(u)) <= Ceiling(u)

LEMMA SizesAreNatural == \A f \in File : SizeOf[f] \in Nat /\ MaxSize \in Nat /\ Quota \in Nat
  BY AttachmentsAssumption

LEMMA QuotaInit == FilesInit => QuotaKept
<1> SUFFICES ASSUME FilesInit PROVE QuotaKept
  OBVIOUS
<1>1. Started = {} /\ \A u \in User : Charged(u) = {} /\ PastQuota(u) = {}
  BY DEF FilesInit, Started, Charged, PastQuota
<1>2. QuotaTyped
  BY <1>1, FS_EmptySet DEF FilesInit, QuotaTyped
<1>3. ASSUME NEW u \in User
      PROVE  /\ Cardinality(PastQuota(u)) <= peak[u]
             /\ SumOver(SizeOf, Charged(u)) <= Ceiling(u)
  <2>1. Cardinality(PastQuota(u)) = 0 /\ SumOver(SizeOf, Charged(u)) = 0
    BY <1>1, FS_EmptySet, SumOfNone, Zenon
  <2>2. peak[u] = 0
    BY DEF FilesInit
  <2> QED BY <2>1, <2>2, AttachmentsAssumption DEF Ceiling
<1> QED BY <1>2, <1>3 DEF QuotaKept

LEMMA ChargedStarted ==
  ASSUME FilesInv, NEW u
  PROVE  Charged(u) \subseteq Started /\ PastQuota(u) \subseteq Started /\ Started \subseteq File
  BY DEF FilesInv, FilesFirst, AnsweredFiles, Charged, PastQuota, Started

(* Steps that let no further upload past the check. *)
LEMMA QuotaShrinks ==
  ASSUME FilesInv, QuotaKept, peak' = peak, QuotaTyped',
         \A u \in User : Charged(u)' \subseteq Charged(u) /\ PastQuota(u)' \subseteq PastQuota(u)
  PROVE  QuotaKept'
<1> SUFFICES ASSUME NEW u \in User
             PROVE  /\ Cardinality(PastQuota(u)') <= peak[u]
                    /\ Quota > 0 => SumOver(SizeOf, Charged(u)') <= Ceiling(u)
  BY DEF QuotaKept, Ceiling
<1>1. IsFiniteSet(Started) /\ Charged(u) \subseteq Started /\ PastQuota(u) \subseteq Started
      /\ \A f \in Started : SizeOf[f] \in Nat
  BY ChargedStarted, SizesAreNatural DEF QuotaKept, QuotaTyped
<1>2. Cardinality(PastQuota(u)') <= Cardinality(PastQuota(u))
  <2>1. IsFiniteSet(PastQuota(u))
    BY <1>1, FS_Subset
  <2> QED BY <2>1, FS_Subset
<1>3. Cardinality(PastQuota(u)') \in Nat /\ Cardinality(PastQuota(u)) \in Nat
  BY <1>1, FS_Subset, FS_CardinalityType
<1>4. SumOver(SizeOf, Charged(u)') <= SumOver(SizeOf, Charged(u))
      /\ SumOver(SizeOf, Charged(u)') \in Nat /\ SumOver(SizeOf, Charged(u)) \in Nat
  <2>0. Charged(u)' \subseteq Charged(u)
    OBVIOUS
  <2> DEFINE small == Charged(u)'
             big == Charged(u)
  <2>1. small \in SUBSET Started /\ big \in SUBSET Started /\ small \subseteq big
    BY <1>1, <2>0
  <2> HIDE DEF small, big
  <2>2. SumOver(SizeOf, small) <= SumOver(SizeOf, small \cup big)
    BY <1>1, <2>1, SumGrows, AttachmentsAssumption
  <2>3. small \cup big = big
    BY <2>1
  <2>4. SumOver(SizeOf, small) <= SumOver(SizeOf, big)
    BY <2>2, <2>3, Zenon
  <2>5. SumOver(SizeOf, small) \in Nat /\ SumOver(SizeOf, big) \in Nat
    BY <1>1, <2>1, SumIsNatural
  <2> QED BY <2>4, <2>5 DEF small, big
<1>5. peak[u] \in Nat /\ Cardinality(PastQuota(u)) <= peak[u]
      /\ (Quota > 0 => SumOver(SizeOf, Charged(u)) <= Ceiling(u))
  BY DEF QuotaKept, QuotaTyped
<1>6. Ceiling(u) \in Nat
  BY <1>5, AttachmentsAssumption DEF Ceiling
<1> QED BY <1>2, <1>3, <1>4, <1>5, <1>6

LEMMA GreaterOfTwo ==
  ASSUME NEW m \in Nat, NEW n \in Nat
  PROVE  Max({m, n}) \in Nat /\ m <= Max({m, n}) /\ n <= Max({m, n})
  BY DEF Max

LEMMA CheckQuotaKeeps ==
  ASSUME FilesInv, QuotaKept, NEW f \in File, CheckQuota(f)
  PROVE  QuotaKept'
<1>1. /\ post[f] = "quota" /\ f \in Started /\ f \notin attachments
      /\ attachments' = attachments /\ by' = by
      /\ post' = [post EXCEPT ![f] = IF OverQuota(f) THEN "refused" ELSE "put"]
  BY DEF CheckQuota, stored, Started, FilesInv, FilesFirst, AnsweredFiles
<1>2. Started' = Started
  BY <1>1 DEF Started, FilesInv, FilesTyped
<1>3. CASE OverQuota(f)
  <2>1. peak' = peak
    BY <1>3 DEF CheckQuota
  <2>2. \A u \in User : Charged(u)' \subseteq Charged(u) /\ PastQuota(u)' \subseteq PastQuota(u)
    BY <1>1, <1>3 DEF Charged, PastQuota, FilesInv, FilesTyped
  <2>3. QuotaTyped'
    BY <1>1, <1>2, <2>1 DEF QuotaKept, QuotaTyped
  <2> QED BY <2>1, <2>2, <2>3, QuotaShrinks
<1>4. CASE ~OverQuota(f)
  <2>1. peak' = [peak EXCEPT ![by[f]] = Max({@, Cardinality(PastQuota(by[f])) + 1})]
    BY <1>4 DEF CheckQuota
  <2>2. \A u \in User : IsFiniteSet(PastQuota(u)) /\ Cardinality(PastQuota(u)) \in Nat
    BY ChargedStarted, FS_Subset, FS_CardinalityType DEF QuotaKept, QuotaTyped
  <2>3. \A u \in User \ {by[f]} :
          peak'[u] = peak[u] /\ Charged(u)' = Charged(u) /\ PastQuota(u)' = PastQuota(u)
    BY <1>1, <2>1 DEF Charged, PastQuota, FilesInv, FilesTyped, QuotaKept, QuotaTyped
  <2>4. peak' \in [User -> Nat]
    <3>1. peak \in [User -> Nat]
      BY DEF QuotaKept, QuotaTyped
    <3>2. CASE by[f] \in User
      <4>1. Max({peak[by[f]], Cardinality(PastQuota(by[f])) + 1}) \in Nat
        BY <2>2, <3>1, <3>2, GreaterOfTwo
      <4> QED BY <2>1, <3>1, <4>1
    <3>3. CASE by[f] \notin User
      BY <2>1, <3>1, <3>3
    <3> QED BY <3>2, <3>3
  <2>5. QuotaTyped'
    BY <1>1, <1>2, <2>4 DEF QuotaKept, QuotaTyped
  <2>6. ASSUME NEW u \in User, u = by[f]
        PROVE  /\ Cardinality(PastQuota(u)') <= peak'[u]
               /\ Quota > 0 => SumOver(SizeOf, Charged(u)') <= Ceiling(u)'
    <3> DEFINE past == PastQuota(u)
               rows == {g \in attachments : by[g] = u}
    <3>1. PastQuota(u)' = past \cup {f} /\ f \notin past
      BY <1>1, <1>4, <2>6 DEF PastQuota, FilesInv, FilesTyped
    <3>2. Charged(u)' = (rows \cup {f}) \cup past /\ f \notin rows
      BY <1>1, <1>4, <2>6 DEF Charged, PastQuota, FilesInv, FilesTyped
    <3>3. peak'[u] \in Nat /\ Cardinality(past) + 1 <= peak'[u] /\ Cardinality(past) \in Nat
      BY <2>1, <2>2, <2>6, GreaterOfTwo DEF QuotaKept, QuotaTyped
    <3>4. /\ rows \in SUBSET Started /\ past \in SUBSET Started
          /\ IsFiniteSet(Started) /\ IsFiniteSet(past)
          /\ \A g \in Started : SizeOf[g] \in Nat /\ SizeOf[g] <= MaxSize
      BY <2>2, ChargedStarted, SizesAreNatural
      DEF QuotaKept, QuotaTyped, FilesInv, FilesFirst, AnsweredFiles, Started
    <3>5. Quota > 0 => SumOver(SizeOf, rows) + SizeOf[f] <= Quota
      <4>1. Used(u) = SumOver(SizeOf, rows)
        BY DEF Used, SumOver
      <4>2. Used(by[f]) = Used(u)
        BY <2>6, Zenon
      <4>3. Quota > 0 => ~(Used(u) + SizeOf[f] > Quota)
        BY <1>4, <4>2 DEF OverQuota
      <4>4. SumOver(SizeOf, rows) \in Nat /\ SizeOf[f] \in Nat /\ Quota \in Nat
        BY <3>4, SumIsNatural, SizesAreNatural
      <4> HIDE DEF rows
      <4> QED BY <4>1, <4>3, <4>4
    <3> HIDE DEF past, rows
    <3>6. Cardinality(PastQuota(u)') <= peak'[u]
      <4>1. Cardinality(past \cup {f}) = Cardinality(past) + 1
        BY <3>1, <3>4, FS_AddElement
      <4>2. Cardinality(PastQuota(u)') = Cardinality(past) + 1
        BY <3>1, <4>1, Zenon
      <4> QED BY <3>3, <4>2
    <3>7. ASSUME Quota > 0 PROVE SumOver(SizeOf, Charged(u)') <= Ceiling(u)'
      <4> DEFINE base == rows \cup {f}
      <4>1. base \in SUBSET Started /\ base \ {f} = rows
        BY <1>1, <3>2, <3>4
      <4>2. SumOver(SizeOf, base) = SizeOf[f] + SumOver(SizeOf, rows)
        <5>1. SumOver(SizeOf, base) = SizeOf[f] + SumOver(SizeOf, base \ {f})
          BY <3>4, <4>1, SumRemove
        <5> QED BY <4>1, <5>1, Zenon
      <4> HIDE DEF base
      <4>3. SumOver(SizeOf, base \cup past) <= SumOver(SizeOf, base) + Cardinality(past) * MaxSize
        BY <3>4, <4>1, SumGrows, AttachmentsAssumption
      <4>4. SumOver(SizeOf, base) \in Nat /\ SumOver(SizeOf, rows) \in Nat
            /\ SumOver(SizeOf, base \cup past) \in Nat /\ SizeOf[f] \in Nat
        BY <1>1, <3>4, <4>1, SumIsNatural
      <4>5. SumOver(SizeOf, base) <= Quota
        BY <3>5, <3>7, <4>2, <4>4, AttachmentsAssumption
      <4>6. Cardinality(past) * MaxSize <= (peak'[u] - 1) * MaxSize
            /\ Cardinality(past) * MaxSize \in Nat /\ (peak'[u] - 1) * MaxSize \in Nat
        <5> DEFINE k == Cardinality(past)
                   m == peak'[u] - 1
        <5>1. k \in Nat /\ m \in Nat /\ k <= m /\ MaxSize \in Nat
          BY <3>3, AttachmentsAssumption
        <5> HIDE DEF k, m
        <5>2. k * MaxSize <= m * MaxSize /\ k * MaxSize \in Nat /\ m * MaxSize \in Nat
          BY <5>1
        <5> QED BY <5>2 DEF k, m
      <4>7. Ceiling(u)' = Quota + (peak'[u] - 1) * MaxSize
        BY <3>3 DEF Ceiling
      <4>8. SumOver(SizeOf, Charged(u)') = SumOver(SizeOf, base \cup past)
        BY <3>2, Zenon DEF base
      <4> QED BY <4>3, <4>4, <4>5, <4>6, <4>7, <4>8, AttachmentsAssumption
    <3> QED BY <3>6, <3>7
  <2>7. ASSUME NEW u \in User, u # by[f]
        PROVE  /\ Cardinality(PastQuota(u)') <= peak'[u]
               /\ Quota > 0 => SumOver(SizeOf, Charged(u)') <= Ceiling(u)'
    BY <2>3, <2>7 DEF QuotaKept, Ceiling
  <2> QED BY <2>5, <2>6, <2>7 DEF QuotaKept
<1> QED BY <1>3, <1>4

(* Uploads: one is begun, is put, or gets its row. *)
LEMMA UploadsKeepQuota ==
  ASSUME FilesInv, QuotaKept, NEW f \in File,
         (\E u \in User : Upload(f, u)) \/ Put(f) \/ InsertRow(f)
  PROVE  QuotaKept'
<1>1. peak' = peak
  BY DEF Upload, Put, InsertRow
<1>2. CASE \E u \in User : Upload(f, u)
  <2>1. PICK u \in User : Upload(f, u)
    BY <1>2
  <2>2. /\ post[f] = "idle" /\ f \notin attachments /\ attachments' = attachments
        /\ post' = [post EXCEPT ![f] = "quota"] /\ by' = [by EXCEPT ![f] = u]
        /\ SizeOf[f] <= MaxSize
    BY <2>1 DEF Upload, FilesInv, FilesFirst, AnsweredFiles
  <2>3. Started' = Started \cup {f}
    BY <2>2 DEF Started, FilesInv, FilesTyped
  <2>4. IsFiniteSet(Started')
    BY <2>3, FS_AddElement DEF QuotaKept, QuotaTyped
  <2>5. QuotaTyped'
    BY <1>1, <2>2, <2>3, <2>4 DEF QuotaKept, QuotaTyped
  <2>6. \A v \in User : Charged(v)' \subseteq Charged(v) /\ PastQuota(v)' \subseteq PastQuota(v)
    BY <2>2 DEF Charged, PastQuota, FilesInv, FilesTyped, QuotaKept, QuotaTyped
  <2> QED BY <1>1, <2>5, <2>6, QuotaShrinks
<1>3. CASE Put(f) \/ InsertRow(f)
  <2>1. /\ post[f] \in {"put", "insert"} /\ by' = by
        /\ \/ /\ \E s \in {"insert", "answered"} : post' = [post EXCEPT ![f] = s]
              /\ attachments' \subseteq attachments \cup {f}
           \/ post' = [post EXCEPT ![f] = "failed"] /\ attachments' = attachments
    BY <1>3 DEF Put, InsertRow
  <2>2. Started' = Started
    BY <2>1 DEF Started, FilesInv, FilesTyped
  <2>3. QuotaTyped'
    BY <1>1, <2>1, <2>2 DEF QuotaKept, QuotaTyped
  <2>4. \A v \in User : Charged(v)' \subseteq Charged(v) /\ PastQuota(v)' \subseteq PastQuota(v)
    BY <2>1 DEF Charged, PastQuota, FilesInv, FilesTyped
  <2> QED BY <1>1, <2>3, <2>4, QuotaShrinks
<1> QED BY <1>2, <1>3

(* Every other step at most removes rows, or forgets uploads. *)
LEMMA OthersKeepQuota ==
  ASSUME FilesInv, QuotaKept, peak' = peak, by' = by, attachments' \subseteq attachments,
         post' = post \/ Stop
  PROVE  QuotaKept'
<1>1. Started' = Started
  BY DEF Started, Stop, FilesInv, FilesTyped
<1>2. QuotaTyped'
  BY <1>1 DEF QuotaKept, QuotaTyped
<1>3. \A v \in User : Charged(v)' \subseteq Charged(v) /\ PastQuota(v)' \subseteq PastQuota(v)
  BY DEF Charged, PastQuota, Stop, FilesInv, FilesTyped
<1> QED BY <1>2, <1>3, QuotaShrinks

LEMMA QuotaStep == FilesInv /\ QuotaKept /\ [FilesNext]_fileVars => QuotaKept'
<1> SUFFICES ASSUME FilesInv, QuotaKept, [FilesNext]_fileVars PROVE QuotaKept'
  OBVIOUS
<1>1. CASE \E f \in File : (\E u \in User : Upload(f, u)) \/ CheckQuota(f) \/ Put(f) \/ InsertRow(f)
  BY <1>1, UploadsKeepQuota, CheckQuotaKeeps
<1>2. CASE \/ \E f \in File : RemoveKey(f)
           \/ \E u \in User, t \in FileTable, f \in File : NameInCell(u, t, f)
           \/ \E u \in User : CommitCell(u) \/ Leave(u)
           \/ \E u \in User, t \in FileTable : ClearCell(u, t)
           \/ \E t \in FileTable : CollectIds(t)
           \/ StartRowDelete \/ CommitTableDelete \/ CollectKeys \/ CommitBaseDelete
           \/ DeletionAnswered \/ RevokeShare \/ Stop \/ UNCHANGED fileVars
  <2>1. peak' = peak /\ by' = by /\ attachments' \subseteq attachments /\ (post' = post \/ Stop)
    BY <1>2 DEF RemoveKey, NameInCell, CommitCell, Leave, ClearCell, CollectIds, StartRowDelete,
      CommitTableDelete, CollectKeys, CommitBaseDelete, DeletionAnswered, RevokeShare, Stop,
      fileVars, stored, handlers
  <2> QED BY <2>1, OthersKeepQuota
<1>3. CASE \/ \E d \in Get, u \in User, f \in File : Ask(d, u, f)
           \/ \E d \in Get : CheckMember(d) \/ TryAcquire(d) \/ OpenStream(d) \/ CloseStream(d)
                             \/ VisitorRow(d) \/ VisitorNamed(d) \/ VisitorBody(d) \/ Again(d)
           \/ \E d \in Get, f \in File : Visit(d, f)
  <2>1. UNCHANGED <<peak, by, attachments, post>>
    BY <1>3 DEF Ask, CheckMember, TryAcquire, OpenStream, CloseStream, VisitorRow, VisitorNamed,
      VisitorBody, Again, Visit, stored
  <2> QED BY <2>1, OthersKeepQuota
<1> QED BY <1>1, <1>2, <1>3 DEF FilesNext

LEMMA QuotaFollows == FilesInv /\ QuotaKept => QuotaHolds
<1> SUFFICES ASSUME FilesInv, QuotaKept, Quota > 0, NEW u \in User PROVE Used(u) <= Ceiling(u)
  BY DEF QuotaHolds, Ceiling
<1> DEFINE rows == {g \in attachments : by[g] = u}
           all == Charged(u)
<1>1. rows \in SUBSET Started /\ all \in SUBSET Started /\ rows \cup all = all
      /\ IsFiniteSet(Started) /\ \A g \in Started : SizeOf[g] \in Nat
  BY ChargedStarted, SizesAreNatural
  DEF QuotaKept, QuotaTyped, FilesInv, FilesTyped, FilesFirst, AnsweredFiles, Started, Charged
<1>2. Used(u) = SumOver(SizeOf, rows) /\ SumOver(SizeOf, all) <= Ceiling(u)
  BY DEF Used, SumOver, QuotaKept
<1> HIDE DEF rows, all
<1>3. SumOver(SizeOf, rows) <= SumOver(SizeOf, rows \cup all)
  BY <1>1, SumGrows, AttachmentsAssumption
<1>4. SumOver(SizeOf, rows) <= SumOver(SizeOf, all)
  BY <1>1, <1>3, Zenon
<1>5. SumOver(SizeOf, rows) \in Nat /\ SumOver(SizeOf, all) \in Nat
  BY <1>1, SumIsNatural
<1>6. Ceiling(u) \in Nat
  BY AttachmentsAssumption DEF Ceiling, QuotaKept, QuotaTyped
<1> QED BY <1>2, <1>4, <1>5, <1>6

(* Both brakes on files hold, for any files, sizes, users and limits: what a*)
(* user's attachments come to exceeds the quota by no more than the uploads *)
(* that were past its check at once could add (upload/route.ts checks, then *)
(* writes), and the limit on downloads counts exactly the bodies that are   *)
(* open.                                                                   *)
THEOREM BrakesAlwaysHold == FilesSpec => []BrakesHold
<1>1. FilesInv /\ SlotsHeld /\ QuotaKept => BrakesHold
  BY QuotaFollows DEF SlotsHeld, SlotsBalanced, Holding, BrakesHold
<1>2. FilesInit => FilesInv /\ SlotsHeld /\ QuotaKept
  BY FilesInvInit, QuotaInit
<1>3. (FilesInv /\ SlotsHeld /\ QuotaKept) /\ [FilesNext]_fileVars
        => (FilesInv /\ SlotsHeld /\ QuotaKept)'
  BY FilesInvStep, QuotaStep
<1> QED BY <1>1, <1>2, <1>3, PTL DEF FilesSpec

-----------------------------------------------------------------------------
(***************************************************************************)
(* CSV tables.                                                             *)
(***************************************************************************)
CsvRow == (CsvImport \cup {OldRow}) \X Nat

(* What the database holds: for some tables, their rows. *)
Sheets == UNION {[S -> Seq(CsvRow)] : S \in SUBSET CsvTable}

LedgerTyped == ledger \in Seq(Sheets) /\ ledger # <<>>

HasRow(state, r) == \E t \in CsvTable : r \in ToSet(Rows(state, t))

(* The members of Sheets, without the union. *)
LEMMA SheetShape ==
  ASSUME NEW f
  PROVE  f \in Sheets <=> /\ DOMAIN f \subseteq CsvTable
                          /\ f = [t \in DOMAIN f |-> f[t]]
                          /\ \A t \in DOMAIN f : f[t] \in Seq(CsvRow)
<1>1. ASSUME f \in Sheets
      PROVE  /\ DOMAIN f \subseteq CsvTable
             /\ f = [t \in DOMAIN f |-> f[t]]
             /\ \A t \in DOMAIN f : f[t] \in Seq(CsvRow)
  <2>1. PICK S \in SUBSET CsvTable : f \in [S -> Seq(CsvRow)]
    BY <1>1 DEF Sheets
  <2>2. QED
    BY <2>1
<1>2. ASSUME /\ DOMAIN f \subseteq CsvTable
             /\ f = [t \in DOMAIN f |-> f[t]]
             /\ \A t \in DOMAIN f : f[t] \in Seq(CsvRow)
      PROVE  f \in Sheets
  <2>1. f \in [DOMAIN f -> Seq(CsvRow)] /\ DOMAIN f \in SUBSET CsvTable
    BY <1>2
  <2>2. QED
    BY <2>1 DEF Sheets
<1>3. QED
  BY <1>1, <1>2

(* The ledger only grows. *)
LEMMA LedgerGrows ==
  ASSUME LedgerTyped, NEW s \in Sheets, Becomes(s)
  PROVE  /\ LedgerTyped' /\ Len(ledger') = Len(ledger) + 1
         /\ \A k \in 1..Len(ledger) : ledger'[k] = ledger[k]
         /\ ledger'[Len(ledger) + 1] = s
         /\ DOMAIN ledger = 1..Len(ledger) /\ DOMAIN ledger' = 1..Len(ledger')
<1>1. ledger' = Append(ledger, s) /\ ledger \in Seq(Sheets) /\ Len(ledger) \in Nat
  BY DEF Becomes, LedgerTyped
<1>2. /\ ledger' \in Seq(Sheets) /\ Len(ledger') = Len(ledger) + 1
      /\ \A k \in 1..Len(ledger) : ledger'[k] = ledger[k]
      /\ ledger'[Len(ledger) + 1] = s
  BY <1>1
<1>3. ledger' # <<>>
  BY <1>1, <1>2
<1>4. QED
  BY <1>1, <1>2, <1>3, LenProperties DEF LedgerTyped

LEMMA LastOfLedger ==
  ASSUME LedgerTyped
  PROVE  /\ Len(ledger) \in Nat \ {0} /\ DOMAIN ledger = 1..Len(ledger)
         /\ Now = ledger[Len(ledger)] /\ Now \in Sheets
<1>1. Len(ledger) \in Nat \ {0} /\ DOMAIN ledger = 1..Len(ledger)
  BY LenProperties, EmptySeq DEF LedgerTyped
<1>2. ledger[Len(ledger)] \in Sheets
  BY <1>1, ElementOfSeq DEF LedgerTyped
<1>3. QED
  BY <1>1, <1>2 DEF Now, Last

(* What sequences of rows hold. *)
LEMMA PrependHolds ==
  ASSUME NEW S, NEW x \in S, NEW q \in Seq(S)
  PROVE  <<x>> \o q \in Seq(S) /\ ToSet(<<x>> \o q) = {x} \cup ToSet(q)
<1> DEFINE one == <<x>>
           all == one \o q
<1>1. one \in Seq(S) /\ Len(one) = 1 /\ one[1] = x /\ Len(q) \in Nat
  OBVIOUS
<1>2. /\ all \in Seq(S) /\ Len(all) = 1 + Len(q)
      /\ \A i \in 1..(1 + Len(q)) : all[i] = IF i <= 1 THEN one[i] ELSE q[i - 1]
  BY <1>1, ConcatProperties
<1>3. DOMAIN all = 1..(1 + Len(q)) /\ DOMAIN q = 1..Len(q)
  BY <1>1, <1>2, LenProperties
<1> HIDE DEF one, all
<1>4. \A i \in 1..Len(q) : all[i + 1] = q[i] /\ i + 1 \in 1..(1 + Len(q))
  BY <1>1, <1>2
<1>5. all[1] = x /\ 1 \in 1..(1 + Len(q))
  BY <1>1, <1>2
<1>6. \A i \in 1..(1 + Len(q)) : all[i] = x \/ (i - 1 \in 1..Len(q) /\ all[i] = q[i - 1])
  BY <1>1, <1>2
<1>7. ToSet(all) = {x} \cup ToSet(q)
  <2>1. ASSUME NEW r \in ToSet(all) PROVE r = x \/ r \in ToSet(q)
    <3>1. PICK i \in 1..(1 + Len(q)) : r = all[i]
      BY <1>3 DEF ToSet
    <3>2. QED
      BY <3>1, <1>3, <1>6 DEF ToSet
  <2>2. x \in ToSet(all)
    BY <1>3, <1>5 DEF ToSet
  <2>3. ASSUME NEW r \in ToSet(q) PROVE r \in ToSet(all)
    <3>1. PICK i \in 1..Len(q) : r = q[i]
      BY <1>3 DEF ToSet
    <3>2. all[i + 1] = r /\ i + 1 \in DOMAIN all
      BY <3>1, <1>3, <1>4
    <3>3. QED
      BY <3>2 DEF ToSet
  <2>4. QED
    BY <2>1, <2>2, <2>3
<1>8. QED
  BY <1>2, <1>7 DEF one, all

LEMMA RemovalHolds ==
  ASSUME NEW S, NEW q \in Seq(S), NEW k \in DOMAIN q
  PROVE  RemoveAt(q, k) \in Seq(S) /\ ToSet(RemoveAt(q, k)) \subseteq ToSet(q)
<1> DEFINE before == SubSeq(q, 1, k - 1)
           after == SubSeq(q, k + 1, Len(q))
           T == ToSet(q)
<1>1. DOMAIN q = 1..Len(q) /\ Len(q) \in Nat /\ k \in 1..Len(q)
  BY LenProperties
<1>2. \A i \in 1..Len(q) : q[i] \in T /\ q[i] \in S
  BY <1>1, ElementOfSeq DEF ToSet
<1>3. T \subseteq S
  BY <1>1, <1>2 DEF ToSet
<1> HIDE DEF T
<1>4. before \in Seq(T)
  <2>1. \A i \in 1..(k - 1) : q[i] \in T
    BY <1>1, <1>2
  <2>2. k - 1 \in Int
    BY <1>1
  <2>3. QED
    BY <2>1, <2>2, SubSeqProperties
<1>5. after \in Seq(T)
  <2>1. \A i \in (k + 1)..Len(q) : q[i] \in T
    BY <1>1, <1>2
  <2>2. k + 1 \in Int
    BY <1>1
  <2>3. QED
    BY <1>1, <2>1, <2>2, SubSeqProperties
<1>6. before \o after \in Seq(T)
  BY <1>4, <1>5, ConcatProperties
<1>7. ASSUME NEW s \in Seq(T) PROVE ToSet(s) \subseteq T
  BY LenProperties, ElementOfSeq DEF ToSet
<1>8. RemoveAt(q, k) = before \o after
  BY DEF RemoveAt
<1>9. QED
  BY <1>3, <1>6, <1>7, <1>8, SeqMonotonic DEF T

DownloadShape ==
  [at : {"idle", "asked", "begun", "reading", "answered", "saved", "failed"},
   kind : {Nothing, "table", "base"}, wanted : SUBSET CsvTable, since : Nat, snap : Nat,
   todo : SUBSET CsvTable, open : SUBSET CsvTable, file : Sheets]

UploadShape ==
  [at : {"idle", "sent", "running", "answered", "cut"}, table : CsvTable \cup {Nothing},
   next : Nat, imported : Nat, verdict : {Nothing, "refused", "partial", "success"}]

CsvTyped ==
  /\ LedgerTyped
  /\ upload \in [CsvImport -> UploadShape]
  /\ heard \in [CsvImport -> {"idle", "waiting", "heard", "missed"}]
  /\ unseen \in SUBSET (Watchers \X CsvImport) /\ torn \in SUBSET CsvImport
  /\ download \in [CsvExport -> DownloadShape]

(* A file that is being written is a beginning of its table as it was when  *)
(* the snapshot was taken; a table that is done is all of it.               *)
Beginning(s, whole) == Len(s) <= Len(whole) /\ s = SubSeq(whole, 1, Len(s))

SnapshotOf(e) == ledger[download[e].snap]

FilesOf(e) ==
  LET d == download[e] IN
  /\ d.snap \in d.since..Len(ledger) /\ d.snap \in 1..Len(ledger)
  /\ DOMAIN d.file = d.wanted \cap DOMAIN SnapshotOf(e)
  /\ d.todo \subseteq DOMAIN d.file /\ d.open \subseteq d.todo
  /\ \A t \in DOMAIN d.file :
       IF t \in d.todo THEN Beginning(d.file[t], SnapshotOf(e)[t])
       ELSE d.file[t] = SnapshotOf(e)[t]

ExportAgrees(e) ==
  /\ download[e].at \in {"idle", "asked", "begun"} => download[e].open = {}
  /\ download[e].at = "begun" => download[e].since \in 1..Len(ledger)
  /\ download[e].at \in {"reading", "answered", "saved"} => FilesOf(e)
  /\ download[e].at \in {"answered", "saved"} => download[e].todo = {}

FilesAgree == \A e \in CsvExport : ExportAgrees(e)

(* What an import has landed is what it counted, and one batch more if the  *)
(* answer of its COMMIT was lost; no batch lands but the next one.          *)
Extra(i) == IF i \in torn THEN 1 ELSE 0

UploadAccounted(i) ==
  LET u == upload[i] IN
  /\ EverLanded(i) = 1..(u.imported + Extra(i)) /\ u.imported + Extra(i) <= BatchCount
  /\ u.at \in {"idle", "sent", "running"} =>
       u.next = u.imported + 1 /\ i \notin torn /\ u.verdict = Nothing
  /\ u.at \in {"idle", "sent"} => u.imported = 0
  /\ u.at = "cut" => u.verdict = Nothing
  /\ u.verdict = "success" => u.imported = BatchCount
  /\ u.verdict = "refused" => u.imported = 0 /\ u.at = "answered"

AnswersTold(i) ==
  /\ upload[i].at = "answered" /\ upload[i].imported > 0 => <<"others", i>> \notin unseen
  /\ heard[i] = "heard" => upload[i].at = "answered"
  /\ heard[i] = "heard" /\ upload[i].imported > 0 => <<"page", i>> \notin unseen

ImportsTrue == \A i \in CsvImport : UploadAccounted(i) /\ AnswersTold(i)

CsvInv == CsvTyped /\ FilesAgree /\ ImportsTrue

(* A batch adds its row to what its table holds, and nothing else. *)
LEMMA LandedHolds ==
  ASSUME CsvTyped, NEW i \in CsvImport, Exists(upload[i].table)
  PROVE  /\ Landed(i) \in Sheets
         /\ \A r : HasRow(Landed(i), r) => HasRow(Now, r) \/ r = <<i, upload[i].next>>
         /\ HasRow(Landed(i), <<i, upload[i].next>>)
<1> DEFINE t == upload[i].table
           r0 == <<i, upload[i].next>>
           q == Now[t]
           s == [Now EXCEPT ![t] = <<r0>> \o @]
<1>1. Now \in Sheets /\ t \in DOMAIN Now
  BY LastOfLedger DEF CsvTyped, Exists
<1>2. t \in CsvTable /\ q \in Seq(CsvRow)
  BY <1>1, SheetShape
<1>3. r0 \in CsvRow
  BY DEF CsvTyped, UploadShape, CsvRow
<1>4. <<r0>> \o q \in Seq(CsvRow) /\ ToSet(<<r0>> \o q) = {r0} \cup ToSet(q)
  BY <1>2, <1>3, PrependHolds
<1>5. Landed(i) = s
  BY DEF Landed
<1> DEFINE longer == <<r0>> \o q
<1>6. s = [Now EXCEPT ![t] = longer]
  OBVIOUS
<1> HIDE DEF longer, s, t, q, r0
<1>7. DOMAIN s = DOMAIN Now /\ s[t] = longer /\ \A u \in DOMAIN Now \ {t} : s[u] = Now[u]
  BY <1>1, <1>6
<1>8. s \in Sheets
  <2>1. s = [u \in DOMAIN s |-> s[u]]
    BY <1>6
  <2>2. DOMAIN s \subseteq CsvTable /\ \A u \in DOMAIN s : s[u] \in Seq(CsvRow)
    BY <1>1, <1>4, <1>7, SheetShape DEF longer
  <2>3. QED
    BY <2>1, <2>2, SheetShape
<1>9. ASSUME NEW r, HasRow(s, r) PROVE HasRow(Now, r) \/ r = r0
  <2>1. PICK u \in CsvTable : r \in ToSet(Rows(s, u))
    BY <1>9 DEF HasRow
  <2>2. CASE u = t
    BY <1>1, <1>2, <1>4, <1>7, <2>1, <2>2 DEF Rows, HasRow, longer, q
  <2>3. CASE u # t
    <3>1. Rows(s, u) = Rows(Now, u)
      BY <1>7, <2>3 DEF Rows
    <3>2. QED
      BY <2>1, <3>1 DEF HasRow
  <2>4. QED
    BY <2>2, <2>3
<1>10. HasRow(s, r0)
  BY <1>1, <1>2, <1>4, <1>7 DEF Rows, HasRow, longer
<1>11. QED
  BY <1>5, <1>8, <1>9, <1>10 DEF r0

(* What others do to the database adds no row of an import. *)
LEMMA OthersHold ==
  ASSUME CsvTyped, NEW t \in CsvTable, DeleteRow(t) \/ DropTable(t)
  PROVE  \E s \in Sheets : Becomes(s) /\ \A r : HasRow(s, r) => HasRow(Now, r)
<1>1. Now \in Sheets /\ t \in DOMAIN Now
  BY LastOfLedger DEF CsvTyped, Exists, DeleteRow, DropTable
<1>2. /\ DOMAIN Now \subseteq CsvTable /\ \A u \in DOMAIN Now : Now[u] \in Seq(CsvRow)
      /\ Now = [u \in DOMAIN Now |-> Now[u]]
  BY <1>1, SheetShape
<1>3. CASE DeleteRow(t)
  <2>1. PICK k \in DOMAIN Now[t] : Becomes([Now EXCEPT ![t] = RemoveAt(@, k)])
    BY <1>3 DEF DeleteRow
  <2> DEFINE shorter == RemoveAt(Now[t], k)
             s == [Now EXCEPT ![t] = shorter]
  <2>2. shorter \in Seq(CsvRow) /\ ToSet(shorter) \subseteq ToSet(Now[t])
    BY <1>1, <1>2, RemovalHolds
  <2>3. Becomes(s)
    BY <2>1
  <2> HIDE DEF shorter
  <2>4. DOMAIN s = DOMAIN Now /\ s[t] = shorter /\ \A u \in DOMAIN Now \ {t} : s[u] = Now[u]
    BY <1>1
  <2>5. s = [u \in DOMAIN s |-> s[u]]
    OBVIOUS
  <2> HIDE DEF s
  <2>6. s \in Sheets
    BY <1>2, <2>2, <2>4, <2>5, SheetShape
  <2>7. ASSUME NEW r, HasRow(s, r) PROVE HasRow(Now, r)
    <3>1. PICK u \in CsvTable : r \in ToSet(Rows(s, u))
      BY <2>7 DEF HasRow
    <3>2. CASE u = t
      BY <1>1, <2>2, <2>4, <3>1, <3>2 DEF Rows, HasRow
    <3>3. CASE u # t
      <4>1. Rows(s, u) = Rows(Now, u)
        BY <2>4, <3>3 DEF Rows
      <4>2. QED
        BY <3>1, <4>1 DEF HasRow
    <3>4. QED
      BY <3>2, <3>3
  <2>8. QED
    BY <2>3, <2>6, <2>7
<1>4. CASE DropTable(t)
  <2> DEFINE s == [u \in DOMAIN Now \ {t} |-> Now[u]]
  <2>1. Becomes(s)
    BY <1>4 DEF DropTable
  <2>2. DOMAIN s = DOMAIN Now \ {t} /\ \A u \in DOMAIN s : s[u] = Now[u]
    OBVIOUS
  <2>3. s = [u \in DOMAIN s |-> s[u]]
    OBVIOUS
  <2> HIDE DEF s
  <2>4. s \in Sheets
    BY <1>2, <2>2, <2>3, SheetShape
  <2>5. ASSUME NEW r, HasRow(s, r) PROVE HasRow(Now, r)
    <3>1. PICK u \in CsvTable : r \in ToSet(Rows(s, u))
      BY <2>5 DEF HasRow
    <3>2. u \in DOMAIN s
      <4>1. ToSet(<<>>) = {}
        BY DEF ToSet
      <4>2. QED
        BY <3>1, <4>1 DEF Rows
    <3>3. Rows(s, u) = Rows(Now, u)
      BY <2>2, <3>2 DEF Rows
    <3>4. QED
      BY <3>1, <3>3 DEF HasRow
  <2>6. QED
    BY <2>1, <2>4, <2>5
<1>5. QED
  BY <1>3, <1>4

(* What the steps do to the ledger. *)
LedgerKept ==
  /\ LedgerTyped' /\ Len(ledger') \in Nat /\ Len(ledger) \in Nat /\ Len(ledger) <= Len(ledger')
  /\ \A k \in 1..Len(ledger) : ledger'[k] = ledger[k]

LEMMA KeptByStep ==
  ASSUME CsvTyped, [CsvNext]_csvVars
  PROVE  LedgerKept
<1>1. ASSUME NEW s \in Sheets, Becomes(s) PROVE LedgerKept
  BY <1>1, LedgerGrows, LastOfLedger DEF CsvTyped, LedgerKept
<1>2. CASE UNCHANGED ledger
  BY <1>2, LastOfLedger DEF CsvTyped, LedgerKept, LedgerTyped
<1>3. CASE \E i \in CsvImport : Batch(i) \/ BatchTorn(i)
  <2>1. PICK i \in CsvImport : Exists(upload[i].table) /\ Becomes(Landed(i))
    BY <1>3 DEF Batch, BatchTorn
  <2>2. QED
    BY <1>1, <2>1, LandedHolds
<1>4. CASE \E t \in CsvTable : DeleteRow(t) \/ DropTable(t)
  BY <1>1, <1>4, OthersHold
<1>5. QED
  BY <1>2, <1>3, <1>4 DEF CsvNext, csvVars, ChooseFile, Admit, BatchFails, Finish, HearImport,
     MissImport, AskExport, TakeExportSlot, ListTables, ReadRows, EndExport, BreakExport,
     SaveFiles, CrashTransfers

(* The batches that ever landed, when the ledger grows. *)
LEMMA EverLandedIs ==
  ASSUME LedgerTyped, NEW i \in CsvImport
  PROVE  EverLanded(i) = {b \in 1..BatchCount : \E k \in 1..Len(ledger) : HasRow(ledger[k], <<i, b>>)}
  BY LastOfLedger DEF EverLanded, HasRow

LEMMA EverLandedGrows ==
  ASSUME LedgerTyped, NEW s \in Sheets, Becomes(s), NEW i \in CsvImport
  PROVE  EverLanded(i)' = EverLanded(i) \cup {b \in 1..BatchCount : HasRow(s, <<i, b>>)}
<1> DEFINE L == Len(ledger)
<1>1. /\ LedgerTyped' /\ L \in Nat /\ Len(ledger') = L + 1 /\ ledger'[L + 1] = s
      /\ \A k \in 1..L : ledger'[k] = ledger[k]
      /\ DOMAIN ledger' = 1..Len(ledger')
  BY LedgerGrows, LastOfLedger
<1>2. EverLanded(i)' =
        {b \in 1..BatchCount : \E k \in 1..Len(ledger') : HasRow(ledger'[k], <<i, b>>)}
  BY <1>1 DEF EverLanded, HasRow
<1>3. QED
  BY <1>1, <1>2, EverLandedIs

-----------------------------------------------------------------------------
(* Exports. *)

LEMMA LesserOfTwo ==
  ASSUME NEW a \in Nat, NEW b \in Nat
  PROVE  Min({a, b}) = IF a <= b THEN a ELSE b
<1> DEFINE m == IF a <= b THEN a ELSE b
<1>1. m \in {a, b} /\ \A y \in {a, b} : m <= y
  OBVIOUS
<1>2. \A x \in {a, b} : (\A y \in {a, b} : x <= y) => x = m
  OBVIOUS
<1> HIDE DEF m
<1>3. (CHOOSE x \in {a, b} : \A y \in {a, b} : x <= y) = m
  BY <1>1, <1>2
<1>4. QED
  BY <1>3 DEF Min, m

(* A page continues the beginning of its table, and one that comes short    *)
(* ends it.                                                                *)
LEMMA PageContinues ==
  ASSUME NEW S, NEW all \in Seq(S), NEW file \in Seq(S), Beginning(file, all)
  PROVE  LET page == SubSeq(all, Len(file) + 1, Min({Len(file) + PageRows, Len(all)})) IN
         /\ file \o page \in Seq(S)
         /\ Beginning(file \o page, all)
         /\ Len(page) < PageRows => file \o page = all
<1> DEFINE n == Len(file)
           m == Min({n + PageRows, Len(all)})
           page == SubSeq(all, n + 1, m)
<1>1. n \in Nat /\ Len(all) \in Nat /\ n <= Len(all) /\ file = SubSeq(all, 1, n)
      /\ PageRows \in Nat \ {0}
  BY CsvAssumption DEF Beginning
<1>2. m = IF n + PageRows <= Len(all) THEN n + PageRows ELSE Len(all)
  BY <1>1, LesserOfTwo
<1>3. m \in n..Len(all) /\ (m - n < PageRows => m = Len(all)) /\ m \in Nat
  BY <1>1, <1>2
<1> HIDE DEF m
<1>4. file \o page = SubSeq(all, 1, m)
  <2>1. 1 \in 1..(Len(all) + 1) /\ n \in (1 - 1)..Len(all) /\ m \in n..Len(all)
    BY <1>1, <1>3
  <2>2. SubSeq(all, 1, n) \o SubSeq(all, n + 1, m) = SubSeq(all, 1, m)
    BY <2>1, ConcatAdjacentSubSeq
  <2>3. QED
    BY <1>1, <2>2
<1>5. /\ SubSeq(all, 1, m) \in Seq(S) /\ Len(SubSeq(all, 1, m)) = m
  <2>1. \A i \in 1..m : all[i] \in S
    BY <1>1, <1>3, ElementOfSeq
  <2>2. QED
    BY <2>1, <1>3, SubSeqProperties
<1>6. Len(page) = m - n
  <2>1. \A i \in (n + 1)..m : all[i] \in S
    BY <1>1, <1>3, ElementOfSeq
  <2>2. n + 1 \in Int /\ m \in Int
    BY <1>1, <1>3
  <2>3. Len(page) = IF n + 1 <= m THEN m - (n + 1) + 1 ELSE 0
    BY <2>1, <2>2, SubSeqProperties
  <2> HIDE DEF page
  <2>4. CASE n + 1 <= m
    BY <2>3, <2>4, <1>1, <1>3
  <2>5. CASE ~(n + 1 <= m)
    <3>1. n = m /\ m - n = 0
      <4>1. \A a, b \in Nat : a <= b /\ ~(a + 1 <= b) => a = b /\ b - a = 0
        OBVIOUS
      <4>2. n \in Nat /\ m \in Nat /\ n <= m
        BY <1>1, <1>3
      <4> HIDE DEF n
      <4>3. QED
        BY <4>1, <4>2, <2>5
    <3>2. Len(page) = 0
      BY <2>3, <2>5
    <3>3. QED
      BY <3>1, <3>2
  <2>6. QED
    BY <2>4, <2>5
<1>7. Beginning(file \o page, all)
  <2> DEFINE x == file \o page
  <2>1. x = SubSeq(all, 1, m)
    BY <1>4
  <2> HIDE DEF x
  <2>2. Len(x) = m
    BY <2>1, <1>5, Zenon
  <2>3. m <= Len(all)
    BY <1>1, <1>3
  <2>4. Beginning(x, all)
    BY <2>1, <2>2, <2>3, Zenon DEF Beginning
  <2>5. QED
    BY <2>4 DEF x
<1>8. Len(page) < PageRows => file \o page = all
  BY <1>3, <1>4, <1>6, SubSeqFull
<1>9. QED
  BY <1>4, <1>5, <1>7, <1>8 DEF m

(* An export whose side does not move keeps what it has. *)
LEMMA FilesFrozen ==
  ASSUME CsvTyped, FilesAgree, LedgerKept, NEW e \in CsvExport,
         download'[e] = download[e]
  PROVE  ExportAgrees(e)'
<1>1. download[e].since \in Nat /\ download[e].snap \in Nat
  BY DEF CsvTyped, DownloadShape
<1>2. FilesOf(e) => SnapshotOf(e)' = SnapshotOf(e)
  BY DEF FilesOf, SnapshotOf, LedgerKept
<1>3. FilesOf(e) => FilesOf(e)'
  BY <1>1, <1>2 DEF FilesOf, LedgerKept
<1>4. QED
  BY <1>1, <1>3 DEF FilesAgree, ExportAgrees, LedgerKept

(* The side of one export is replaced. *)
LEMMA ExportMoves ==
  ASSUME CsvTyped, FilesAgree, UNCHANGED ledger, NEW e \in CsvExport, NEW new \in DownloadShape,
         download' = [download EXCEPT ![e] = new],
         ExportAgrees(e)'
  PROVE  download' \in [CsvExport -> DownloadShape] /\ FilesAgree'
<1>1. LedgerKept
  BY LastOfLedger DEF CsvTyped, LedgerKept, LedgerTyped
<1>2. \A o \in CsvExport \ {e} : download'[o] = download[o]
  BY DEF CsvTyped
<1>3. QED
  BY <1>1, <1>2, FilesFrozen DEF FilesAgree, CsvTyped

LEMMA ReadRowsAgrees ==
  ASSUME CsvTyped, FilesAgree, NEW e \in CsvExport, ReadRows(e)
  PROVE  download' \in [CsvExport -> DownloadShape] /\ FilesAgree'
<1> DEFINE d == download[e]
<1>1. /\ d.at = "reading" /\ d.todo # {} /\ UNCHANGED ledger /\ d \in DownloadShape
  BY DEF ReadRows, CsvTyped
<1>2. FilesOf(e)
  BY <1>1 DEF FilesAgree, ExportAgrees
<1>3. SnapshotOf(e) \in Sheets /\ d.file \in Sheets
  BY <1>1, <1>2, ElementOfSeq DEF FilesOf, SnapshotOf, CsvTyped, LedgerTyped, DownloadShape
<1>4. PICK t \in IF d.open = {} THEN d.todo ELSE d.open :
        LET all == Rows(Visible(e), t)
            from == Len(d.file[t])
            page == SubSeq(all, from + 1, Min({from + PageRows, Len(all)}))
            short == Len(page) < PageRows
        IN download' = [download EXCEPT ![e].file[t] = @ \o page,
                           ![e].open = IF short THEN {} ELSE {t},
                           ![e].todo = IF short THEN @ \ {t} ELSE @]
  BY DEF ReadRows
<1>5. t \in d.todo /\ t \in DOMAIN d.file /\ t \in DOMAIN SnapshotOf(e) /\ t \in CsvTable
  BY <1>1, <1>2, <1>3, SheetShape DEF FilesOf
<1> DEFINE all == SnapshotOf(e)[t]
           old == d.file[t]
           page == SubSeq(all, Len(old) + 1, Min({Len(old) + PageRows, Len(all)}))
           short == Len(page) < PageRows
           longer == old \o page
           file == [d.file EXCEPT ![t] = longer]
           open == IF short THEN {} ELSE {t}
           todo1 == IF short THEN d.todo \ {t} ELSE d.todo
           new == [[[d EXCEPT !.file = file] EXCEPT !.open = open] EXCEPT !.todo = todo1]
<1>6. Rows(Visible(e), t) = all
  BY <1>5 DEF Rows, Visible, SnapshotOf
<1>7. download' = [download EXCEPT ![e] = new]
  BY <1>1, <1>4, <1>6 DEF CsvTyped, DownloadShape
<1>8. all \in Seq(CsvRow) /\ old \in Seq(CsvRow) /\ Beginning(old, all)
  BY <1>2, <1>3, <1>5, SheetShape DEF FilesOf
<1>9. longer \in Seq(CsvRow) /\ Beginning(longer, all) /\ (short => longer = all)
  BY <1>8, PageContinues
<1> HIDE DEF longer, short
<1>10. DOMAIN file = DOMAIN d.file /\ file[t] = longer
       /\ (\A o \in DOMAIN d.file \ {t} : file[o] = d.file[o]) /\ file \in Sheets
  <2>1. DOMAIN file = DOMAIN d.file /\ file[t] = longer
        /\ (\A o \in DOMAIN d.file \ {t} : file[o] = d.file[o])
    BY <1>5
  <2>2. file = [o \in DOMAIN file |-> file[o]]
    OBVIOUS
  <2> HIDE DEF file
  <2>3. \A o \in DOMAIN file : file[o] \in Seq(CsvRow)
    BY <1>3, <1>9, <2>1, SheetShape
  <2>4. QED
    BY <1>3, <2>1, <2>2, <2>3, SheetShape
<1> HIDE DEF file
<1>11. todo1 \subseteq d.todo /\ open \subseteq todo1
       /\ (\A o \in CsvTable : o \in todo1 <=> o \in d.todo /\ ~(short /\ o = t))
  BY <1>1, <1>5 DEF DownloadShape
<1> HIDE DEF open, todo1
<1>12. new \in DownloadShape /\ new.file = file /\ new.open = open /\ new.todo = todo1
       /\ new.at = "reading" /\ new.snap = d.snap /\ new.since = d.since /\ new.wanted = d.wanted
  BY <1>1, <1>5, <1>10, <1>11 DEF DownloadShape, open
<1> HIDE DEF new
<1>13. download'[e] = new /\ SnapshotOf(e)' = SnapshotOf(e)
  BY <1>1, <1>7, <1>12 DEF CsvTyped, SnapshotOf
<1>14. \A o \in DOMAIN file :
         IF o \in todo1 THEN Beginning(file[o], SnapshotOf(e)[o]) ELSE file[o] = SnapshotOf(e)[o]
  <2> TAKE o \in DOMAIN file
  <2>0. o \in CsvTable
    BY <1>10, SheetShape
  <2>1. CASE o = t
    BY <1>5, <1>9, <1>10, <1>11, <2>1
  <2>2. CASE o # t
    BY <1>2, <1>10, <1>11, <2>0, <2>2 DEF FilesOf
  <2>3. QED
    BY <2>1, <2>2
<1>15. FilesOf(e)'
  BY <1>1, <1>2, <1>10, <1>11, <1>12, <1>13, <1>14 DEF FilesOf
<1>16. ExportAgrees(e)'
  BY <1>12, <1>13, <1>15 DEF ExportAgrees
<1>17. QED
  BY <1>1, <1>7, <1>12, <1>16, ExportMoves

(* No file yet. *)
LEMMA EmptySheet == <<>> \in Sheets /\ DOMAIN <<>> = {}
<1>1. DOMAIN <<>> = {} /\ <<>> = [t \in {} |-> <<>>]
  OBVIOUS
<1>2. QED
  BY <1>1, SheetShape

(* A step that ends an export, or changes its statement with its files as   *)
(* they were.                                                              *)
LEMMA ExportEnds ==
  ASSUME CsvTyped, FilesAgree, UNCHANGED ledger, NEW e \in CsvExport,
         NEW s \in {"failed", "answered", "saved"},
         s \in {"answered", "saved"} =>
           download[e].at \in {"reading", "answered"} /\ download[e].todo = {},
         download' = [download EXCEPT ![e].at = s]
  PROVE  download' \in [CsvExport -> DownloadShape] /\ FilesAgree'
<1> DEFINE new == [download[e] EXCEPT !.at = s]
<1>1. new \in DownloadShape /\ new.at = s /\ new.todo = download[e].todo
      /\ new.snap = download[e].snap /\ new.since = download[e].since
      /\ new.wanted = download[e].wanted /\ new.file = download[e].file
      /\ new.open = download[e].open
  BY DEF CsvTyped, DownloadShape
<1>2. download' = [download EXCEPT ![e] = new]
  OBVIOUS
<1> HIDE DEF new
<1>3. download'[e] = new
  BY <1>2 DEF CsvTyped
<1>4. s \in {"answered", "saved"} => FilesOf(e)
  BY DEF FilesAgree, ExportAgrees
<1>5. s \in {"answered", "saved"} => FilesOf(e)'
  BY <1>1, <1>3, <1>4 DEF FilesOf, SnapshotOf
<1>6. ExportAgrees(e)'
  BY <1>1, <1>3, <1>5 DEF ExportAgrees
<1>7. QED
  BY <1>1, <1>2, <1>6, ExportMoves

(* Every step of an export, one case per action. *)
LEMMA ExportSteps ==
  ASSUME CsvTyped, FilesAgree, NEW e \in CsvExport,
         \/ \E kind \in {"table", "base"}, ts \in SUBSET CsvTable \ {{}} : AskExport(e, kind, ts)
         \/ TakeExportSlot(e) \/ ListTables(e) \/ ReadRows(e) \/ EndExport(e)
         \/ BreakExport(e) \/ SaveFiles(e)
  PROVE  download' \in [CsvExport -> DownloadShape] /\ FilesAgree'
<1> DEFINE d == download[e]
<1>1. UNCHANGED ledger /\ d \in DownloadShape
  BY DEF AskExport, TakeExportSlot, ListTables, ReadRows, EndExport, BreakExport, SaveFiles, CsvTyped
<1>2. CASE \E kind \in {"table", "base"}, ts \in SUBSET CsvTable \ {{}} : AskExport(e, kind, ts)
  <2>1. PICK kind \in {"table", "base"}, ts \in SUBSET CsvTable : AskExport(e, kind, ts)
    BY <1>2
  <2> DEFINE new == [[[d EXCEPT !.at = "asked"] EXCEPT !.kind = kind] EXCEPT !.wanted = ts]
  <2>2. d.at = "idle" /\ download' = [download EXCEPT ![e] = new]
    BY <1>1, <2>1 DEF AskExport, CsvTyped, DownloadShape
  <2>3. new \in DownloadShape /\ new.at = "asked" /\ new.open = d.open
    BY <1>1 DEF DownloadShape
  <2> HIDE DEF new
  <2>4. download'[e] = new
    BY <2>2 DEF CsvTyped
  <2>5. d.open = {}
    BY <2>2 DEF FilesAgree, ExportAgrees
  <2>6. ExportAgrees(e)'
    BY <2>3, <2>4, <2>5 DEF ExportAgrees
  <2>7. QED
    BY <1>1, <2>2, <2>3, <2>6, ExportMoves
<1>3. CASE TakeExportSlot(e)
  <2>1. CASE Quit(e)
    BY <1>1, <2>1, ExportEnds DEF Quit
  <2>2. CASE download' = [download EXCEPT ![e].at = "begun", ![e].since = Len(ledger)]
    <3> DEFINE new == [[d EXCEPT !.at = "begun"] EXCEPT !.since = Len(ledger)]
    <3>1. d.at = "asked" /\ download' = [download EXCEPT ![e] = new]
      BY <1>1, <1>3, <2>2 DEF TakeExportSlot, CsvTyped, DownloadShape
    <3>2. Len(ledger) \in Nat \ {0}
      BY LastOfLedger DEF CsvTyped
    <3>3. new \in DownloadShape /\ new.at = "begun" /\ new.open = d.open /\ new.since = Len(ledger)
      BY <1>1, <3>2 DEF DownloadShape
    <3> HIDE DEF new
    <3>4. download'[e] = new
      BY <3>1 DEF CsvTyped
    <3>5. d.open = {}
      BY <3>1 DEF FilesAgree, ExportAgrees
    <3>6. ExportAgrees(e)'
      BY <1>1, <3>2, <3>3, <3>4, <3>5 DEF ExportAgrees
    <3>7. QED
      BY <1>1, <3>1, <3>3, <3>6, ExportMoves
  <2>3. QED
    BY <1>3, <2>1, <2>2 DEF TakeExportSlot
<1>4. CASE ListTables(e)
  <2> DEFINE found == d.wanted \cap DOMAIN Now
  <2>1. CASE Quit(e)
    BY <1>1, <2>1, ExportEnds DEF Quit
  <2>2. CASE download' = [download EXCEPT ![e].at = "reading", ![e].snap = Len(ledger),
                            ![e].todo = found, ![e].file = [t \in found |-> <<>>]]
    <3> DEFINE file == [t \in found |-> <<>>]
               L == Len(ledger)
               new == [[[[d EXCEPT !.at = "reading"] EXCEPT !.snap = L]
                        EXCEPT !.todo = found] EXCEPT !.file = file]
    <3>1. d.at = "begun" /\ download' = [download EXCEPT ![e] = new]
      BY <1>1, <1>4, <2>2 DEF ListTables, CsvTyped, DownloadShape
    <3>2. L \in Nat \ {0} /\ Now = ledger[L] /\ Now \in Sheets
      BY LastOfLedger DEF CsvTyped
    <3>3. found \subseteq CsvTable
      BY <1>1 DEF DownloadShape
    <3>4. file \in Sheets /\ DOMAIN file = found /\ \A t \in found : file[t] = <<>>
      <4>1. DOMAIN file = found /\ (\A t \in found : file[t] = <<>>)
            /\ file = [t \in DOMAIN file |-> file[t]]
        OBVIOUS
      <4> HIDE DEF file
      <4>2. <<>> \in Seq(CsvRow)
        OBVIOUS
      <4>3. QED
        BY <3>3, <4>1, <4>2, SheetShape
    <3>5. d.since \in 1..L /\ d.open = {}
      BY <3>1 DEF FilesAgree, ExportAgrees
    <3> HIDE DEF found, file, L
    <3>6. /\ new \in DownloadShape /\ new.at = "reading" /\ new.open = d.open
          /\ new.snap = L /\ new.todo = found /\ new.file = file
          /\ new.since = d.since /\ new.wanted = d.wanted
      BY <1>1, <3>2, <3>3, <3>4 DEF DownloadShape
    <3> HIDE DEF new
    <3>7. download'[e] = new /\ ledger' = ledger
      BY <1>1, <3>1 DEF CsvTyped
    <3>8. SnapshotOf(e)' = Now
      BY <3>2, <3>6, <3>7 DEF SnapshotOf
    <3>9. \A t \in found : Beginning(file[t], Now[t])
      <4> SUFFICES ASSUME NEW t \in found PROVE Beginning(<<>>, Now[t])
        BY <3>4
      <4>1. Now[t] \in Seq(CsvRow)
        BY <3>2, SheetShape DEF found
      <4>2. Len(<<>>) = 0 /\ Len(Now[t]) \in Nat
        BY <4>1
      <4>3. SubSeq(Now[t], 1, 0) = <<>>
        BY SubSeqEmpty
      <4>4. QED
        BY <4>2, <4>3 DEF Beginning
    <3>10. FilesOf(e)'
      <4>1. L \in d.since..Len(ledger') /\ L \in 1..Len(ledger')
        BY <3>2, <3>5, <3>7 DEF L
      <4>2. DOMAIN file = d.wanted \cap DOMAIN Now
        BY <3>4 DEF found
      <4>3. QED
        BY <3>4, <3>5, <3>6, <3>7, <3>8, <3>9, <4>1, <4>2 DEF FilesOf
    <3>11. ExportAgrees(e)'
      BY <3>6, <3>7, <3>10 DEF ExportAgrees
    <3>12. QED
      BY <1>1, <3>1, <3>6, <3>11, ExportMoves
  <2>3. QED
    BY <1>4, <2>1, <2>2 DEF ListTables
<1>5. CASE ReadRows(e)
  BY <1>5, ReadRowsAgrees
<1>6. CASE EndExport(e)
  BY <1>1, <1>6, ExportEnds DEF EndExport
<1>7. CASE BreakExport(e)
  BY <1>1, <1>7, ExportEnds DEF BreakExport, Quit
<1>8. CASE SaveFiles(e)
  <2>1. d.at = "answered" /\ d.todo = {}
    BY <1>8 DEF SaveFiles, FilesAgree, ExportAgrees
  <2>2. CASE Quit(e)
    BY <1>1, <2>2, ExportEnds DEF Quit
  <2>3. CASE download' = [download EXCEPT ![e].at = "saved"]
    BY <1>1, <2>1, <2>3, ExportEnds
  <2>4. QED
    BY <1>8, <2>2, <2>3 DEF SaveFiles
<1>9. QED
  BY <1>2, <1>3, <1>4, <1>5, <1>6, <1>7, <1>8

-----------------------------------------------------------------------------
(* Imports. *)

ImportsTyped ==
  /\ upload \in [CsvImport -> UploadShape]
  /\ heard \in [CsvImport -> {"idle", "waiting", "heard", "missed"}]
  /\ unseen \in SUBSET (Watchers \X CsvImport) /\ torn \in SUBSET CsvImport

(* An import whose side does not move, and of which nobody is told anything *)
(* else.                                                                   *)
LEMMA ImportFrozen ==
  ASSUME ImportsTrue, NEW j \in CsvImport, EverLanded(j)' = EverLanded(j),
         upload'[j] = upload[j], heard'[j] = heard[j], j \in torn' <=> j \in torn,
         \A w \in Watchers : <<w, j>> \in unseen' => <<w, j>> \in unseen
  PROVE  UploadAccounted(j)' /\ AnswersTold(j)'
<1>1. UploadAccounted(j) /\ AnswersTold(j)
  BY DEF ImportsTrue
<1>2. Extra(j)' = Extra(j)
  BY DEF Extra
<1>3. UploadAccounted(j)'
  BY <1>1, <1>2 DEF UploadAccounted
<1>4. AnswersTold(j)'
  BY <1>1 DEF AnswersTold, Watchers
<1>5. QED
  BY <1>3, <1>4

(* The side of one import is replaced. *)
LEMMA ImportMoves ==
  ASSUME CsvTyped, ImportsTrue, NEW i \in CsvImport, NEW new \in UploadShape,
         upload' = [upload EXCEPT ![i] = new],
         heard' \in [CsvImport -> {"idle", "waiting", "heard", "missed"}],
         torn' \in SUBSET CsvImport,
         \A j \in CsvImport \ {i} :
           /\ heard'[j] = heard[j] /\ (j \in torn' <=> j \in torn)
           /\ EverLanded(j)' = EverLanded(j),
         unseen' \subseteq unseen \cup (Watchers \X {i}),
         UploadAccounted(i)', AnswersTold(i)'
  PROVE  ImportsTyped' /\ ImportsTrue'
<1>1. \A j \in CsvImport \ {i} :
        upload'[j] = upload[j] /\ \A w \in Watchers : <<w, j>> \in unseen' => <<w, j>> \in unseen
  BY DEF CsvTyped
<1>2. ImportsTyped'
  BY DEF CsvTyped, ImportsTyped
<1>3. QED
  BY <1>1, <1>2, ImportFrozen DEF ImportsTrue

(* What lands with a batch. *)
LEMMA BatchLands ==
  ASSUME CsvTyped, ImportsTrue, NEW i \in CsvImport, InBatch(i), Exists(upload[i].table),
         Becomes(Landed(i))
  PROVE  /\ EverLanded(i)' = 1..(upload[i].imported + 1)
         /\ \A j \in CsvImport \ {i} : EverLanded(j)' = EverLanded(j)
         /\ LedgerTyped'
<1> DEFINE n == upload[i].next
           B == 1..BatchCount
<1>1. /\ Landed(i) \in Sheets
      /\ \A r : HasRow(Landed(i), r) => HasRow(Now, r) \/ r = <<i, n>>
      /\ HasRow(Landed(i), <<i, n>>)
  BY LandedHolds
<1>2. UploadAccounted(i) /\ upload[i].imported \in Nat /\ upload[i].next \in Nat
  BY DEF ImportsTrue, CsvTyped, UploadShape
<1>3. /\ n = upload[i].imported + 1 /\ EverLanded(i) = 1..upload[i].imported /\ n \in B
  BY <1>2, CsvAssumption DEF InBatch, UploadAccounted, Extra
<1>4. \A j \in CsvImport :
        EverLanded(j)' = EverLanded(j) \cup {b \in B : HasRow(Landed(i), <<j, b>>)}
  BY <1>1, EverLandedGrows DEF CsvTyped
<1>5. \A j \in CsvImport, b \in B : HasRow(Now, <<j, b>>) => b \in EverLanded(j)
  BY EverLandedIs, LastOfLedger DEF CsvTyped
<1>6. \A j \in CsvImport \ {i}, b \in B : HasRow(Landed(i), <<j, b>>) => b \in EverLanded(j)
  BY <1>1, <1>5
<1>7. \A b \in B : HasRow(Landed(i), <<i, b>>) <=> (HasRow(Now, <<i, b>>) /\ HasRow(Landed(i), <<i, b>>)) \/ b = n
  BY <1>1
<1>8. EverLanded(i)' = EverLanded(i) \cup {n}
  BY <1>3, <1>4, <1>5, <1>7
<1>9. 1..upload[i].imported \cup {n} = 1..(upload[i].imported + 1)
  BY <1>2, <1>3
<1>10. LedgerTyped'
  BY <1>1, LedgerGrows DEF CsvTyped
<1>11. EverLanded(i)' = 1..(upload[i].imported + 1)
  BY <1>3, <1>8, <1>9
<1>12. \A j \in CsvImport \ {i} : EverLanded(j)' = EverLanded(j)
  BY <1>4, <1>6
<1>13. QED
  BY <1>10, <1>11, <1>12

(* Nothing lands while the ledger stays. *)
LEMMA SameLedger ==
  ASSUME UNCHANGED ledger, NEW j
  PROVE  EverLanded(j)' = EverLanded(j)
  BY DEF EverLanded, Rows

(* The two counters of an import, one batch on. *)
LEMMA Counts ==
  ASSUME NEW u \in UploadShape
  PROVE  LET new == [[u EXCEPT !.next = u.next + 1] EXCEPT !.imported = u.imported + 1] IN
         /\ new \in UploadShape /\ new.at = u.at /\ new.imported = u.imported + 1
         /\ new.next = u.next + 1 /\ new.verdict = u.verdict
<1> DEFINE n == u.next + 1
           m == u.imported + 1
<1>1. n \in Nat /\ m \in Nat
  BY DEF UploadShape
<1> HIDE DEF n, m
<1> DEFINE new == [[u EXCEPT !.next = n] EXCEPT !.imported = m]
<1>2. /\ new \in UploadShape /\ new.at = u.at /\ new.imported = m
      /\ new.next = n /\ new.verdict = u.verdict
  BY <1>1 DEF UploadShape
<1>3. QED
  BY <1>2 DEF n, m

(* A running import is answered: what the report may say. *)
LEMMA AnswerStep ==
  ASSUME CsvTyped, ImportsTrue, NEW i \in CsvImport, upload[i].at = "running",
         NEW verdict \in {"partial", "success"},
         upload' = [upload EXCEPT ![i].at = "answered", ![i].verdict = verdict],
         verdict = "success" => upload[i].imported = BatchCount,
         UNCHANGED heard,
         unseen' \subseteq unseen \cup (Watchers \X {i}),
         upload[i].imported > 0 => <<"others", i>> \notin unseen',
         torn' \in SUBSET CsvImport,
         \A j \in CsvImport \ {i} :
           (j \in torn' <=> j \in torn) /\ EverLanded(j)' = EverLanded(j),
         EverLanded(i)' = 1..(upload[i].imported + Extra(i)'),
         upload[i].imported + Extra(i)' <= BatchCount
  PROVE  ImportsTyped' /\ ImportsTrue'
<1> DEFINE u == upload[i]
           new == [[u EXCEPT !.at = "answered"] EXCEPT !.verdict = verdict]
<1>1. u \in UploadShape /\ UploadAccounted(i) /\ AnswersTold(i)
  BY DEF CsvTyped, ImportsTrue
<1>2. new \in UploadShape /\ new.at = "answered" /\ new.imported = u.imported
      /\ new.next = u.next /\ new.verdict = verdict
  BY <1>1 DEF UploadShape
<1>3. upload' = [upload EXCEPT ![i] = new]
  BY <1>1 DEF CsvTyped
<1> HIDE DEF new
<1>4. upload'[i] = new
  BY <1>3 DEF CsvTyped
<1>5. heard'[i] # "heard"
  BY <1>1 DEF AnswersTold
<1>6. UploadAccounted(i)'
  BY <1>2, <1>4 DEF UploadAccounted
<1>7. AnswersTold(i)'
  BY <1>2, <1>4, <1>5 DEF AnswersTold
<1>8. heard' \in [CsvImport -> {"idle", "waiting", "heard", "missed"}]
  BY DEF CsvTyped
<1>9. QED
  BY <1>2, <1>3, <1>6, <1>7, <1>8, ImportMoves

(* A partial report changes no count. *)
LEMMA PartialOnly ==
  ASSUME CsvTyped, NEW i \in CsvImport, ReportPartial(i)
  PROVE  upload' = [upload EXCEPT ![i].at = "answered", ![i].verdict = "partial"]
<1> DEFINE u == upload[i]
           new == [[u EXCEPT !.at = "answered"] EXCEPT !.verdict = "partial"]
<1>1. u \in UploadShape
  BY DEF CsvTyped
<1>2. new \in UploadShape /\ new.imported = u.imported
  BY <1>1 DEF UploadShape
<1>3. [new EXCEPT !.imported = u.imported] = new
  BY <1>1 DEF UploadShape
<1>4. QED
  BY <1>1, <1>3 DEF ReportPartial, Counted, CsvTyped

(* Every step of an import, one case per action. *)
LEMMA ImportSteps ==
  ASSUME CsvTyped, ImportsTrue, NEW i \in CsvImport,
         \/ \E t \in CsvTable : ChooseFile(i, t)
         \/ Admit(i) \/ Batch(i) \/ BatchFails(i) \/ BatchTorn(i) \/ Finish(i)
         \/ HearImport(i) \/ MissImport(i)
  PROVE  ImportsTyped' /\ ImportsTrue'
<1> DEFINE u == upload[i]
           Heard == {"idle", "waiting", "heard", "missed"}
<1>1. u \in UploadShape /\ heard \in [CsvImport -> Heard] /\ UploadAccounted(i) /\ AnswersTold(i)
  BY DEF CsvTyped, ImportsTrue
<1>2. u.imported \in Nat /\ u.next \in Nat
  BY <1>1 DEF UploadShape
<1>3. CASE \E t \in CsvTable : ChooseFile(i, t)
  <2>1. PICK t \in CsvTable : ChooseFile(i, t)
    BY <1>3
  <2> DEFINE new == [[u EXCEPT !.at = "sent"] EXCEPT !.table = t]
  <2>2. /\ u.at = "idle" /\ upload' = [upload EXCEPT ![i] = new]
        /\ heard' = [heard EXCEPT ![i] = "waiting"] /\ UNCHANGED <<ledger, unseen, torn>>
    BY <1>1, <2>1 DEF ChooseFile, UploadShape, CsvTyped
  <2>3. new \in UploadShape /\ new.at = "sent" /\ new.imported = u.imported /\ new.next = u.next
        /\ new.verdict = u.verdict
    BY <1>1 DEF UploadShape
  <2> HIDE DEF new
  <2>4. upload'[i] = new /\ heard'[i] = "waiting"
    BY <2>2, <1>1 DEF CsvTyped
  <2>5. UploadAccounted(i)'
    BY <1>1, <2>2, <2>3, <2>4, SameLedger DEF UploadAccounted, Extra
  <2>6. AnswersTold(i)'
    BY <2>3, <2>4 DEF AnswersTold
  <2>7. QED
    BY <1>1, <2>2, <2>3, <2>5, <2>6, ImportMoves, SameLedger DEF CsvTyped
<1>4. CASE Admit(i)
  <2>1. UNCHANGED <<ledger, heard, unseen, torn>> /\ u.at = "sent"
    BY <1>4 DEF Admit
  <2>2. PICK new \in UploadShape :
          /\ upload' = [upload EXCEPT ![i] = new]
          /\ new.imported = u.imported /\ new.next = u.next
          /\ \/ new.at = "running" /\ new.verdict = u.verdict
             \/ new.at = "answered" /\ new.verdict = "refused"
    <3>1. CASE upload' = [upload EXCEPT ![i].at = "running"]
      <4> DEFINE new == [u EXCEPT !.at = "running"]
      <4>1. new \in UploadShape /\ new.at = "running" /\ new.imported = u.imported
            /\ new.next = u.next /\ new.verdict = u.verdict
        BY <1>1 DEF UploadShape
      <4>2. upload' = [upload EXCEPT ![i] = new]
        BY <3>1
      <4> HIDE DEF new
      <4>3. QED
        BY <4>1, <4>2
    <3>2. CASE upload' = [upload EXCEPT ![i].at = "answered", ![i].verdict = "refused"]
      <4> DEFINE new == [[u EXCEPT !.at = "answered"] EXCEPT !.verdict = "refused"]
      <4>1. new \in UploadShape /\ new.at = "answered" /\ new.imported = u.imported
            /\ new.next = u.next /\ new.verdict = "refused"
        BY <1>1 DEF UploadShape
      <4>2. upload' = [upload EXCEPT ![i] = new]
        BY <1>1, <3>2 DEF CsvTyped
      <4> HIDE DEF new
      <4>3. QED
        BY <4>1, <4>2
    <3>3. QED
      BY <1>4, <3>1, <3>2 DEF Admit
  <2>3. upload'[i] = new
    BY <2>2 DEF CsvTyped
  <2>4. u.imported = 0 /\ u.next = u.imported + 1 /\ i \notin torn /\ u.verdict = Nothing
    BY <1>1, <2>1 DEF UploadAccounted
  <2>5. UploadAccounted(i)'
    BY <1>1, <2>1, <2>2, <2>3, <2>4, SameLedger DEF UploadAccounted, Extra, Nothing
  <2>6. AnswersTold(i)'
    BY <1>1, <2>1, <2>2, <2>3, <2>4 DEF AnswersTold
  <2>7. QED
    BY <1>1, <2>1, <2>2, <2>5, <2>6, ImportMoves, SameLedger DEF CsvTyped
<1>5. CASE Batch(i)
  <2> DEFINE new == [[u EXCEPT !.next = u.next + 1] EXCEPT !.imported = u.imported + 1]
  <2>1. /\ InBatch(i) /\ Exists(u.table) /\ Becomes(Landed(i)) /\ u.at = "running"
        /\ u.next <= BatchCount
        /\ upload' = [upload EXCEPT ![i] = new]
        /\ unseen' = unseen \cup (Watchers \X {i}) /\ UNCHANGED <<heard, torn>>
    BY <1>1, <1>5 DEF Batch, InBatch, UploadShape, CsvTyped
  <2>2. new \in UploadShape /\ new.at = u.at /\ new.imported = u.imported + 1
        /\ new.next = u.next + 1 /\ new.verdict = u.verdict
    BY <1>1, <1>2, Counts
  <2> HIDE DEF new
  <2>3. upload'[i] = new
    BY <2>1 DEF CsvTyped
  <2>4. /\ EverLanded(i)' = 1..(u.imported + 1)
        /\ \A j \in CsvImport \ {i} : EverLanded(j)' = EverLanded(j)
    BY <2>1, BatchLands
  <2>5. u.next = u.imported + 1 /\ i \notin torn /\ u.verdict = Nothing
    BY <1>1, <2>1 DEF UploadAccounted
  <2>6. UploadAccounted(i)'
    <3>1. Extra(i)' = 0
      BY <2>1, <2>5 DEF Extra
    <3>2. u.imported + 1 + 0 = u.imported + 1
      BY <1>2
    <3>3. QED
      BY <1>2, <2>1, <2>2, <2>3, <2>4, <2>5, <3>1, <3>2 DEF UploadAccounted, Nothing
  <2>7. AnswersTold(i)'
    BY <1>1, <2>1, <2>2, <2>3 DEF AnswersTold
  <2>8. QED
    BY <1>1, <2>1, <2>2, <2>4, <2>6, <2>7, ImportMoves DEF CsvTyped
<1>6. CASE BatchFails(i) \/ BatchTorn(i) \/ Finish(i)
  <2>1. /\ u.at = "running" /\ UNCHANGED heard
        /\ i \notin torn /\ u.next = u.imported + 1 /\ EverLanded(i) = 1..(u.imported + 0)
        /\ u.imported + 0 <= BatchCount
    BY <1>1, <1>6 DEF BatchFails, BatchTorn, Finish, InBatch, UploadAccounted, Extra
  <2>2. i \in OfTable(u.table)
    BY DEF OfTable
  <2>3. CASE BatchFails(i)
    <3>1. /\ ReportPartial(i) /\ UNCHANGED <<ledger, torn>>
          /\ unseen' = IF u.imported > 0 THEN unseen \ Told(u.table) ELSE unseen
      BY <2>3 DEF BatchFails, Counted
    <3>2. upload' = [upload EXCEPT ![i].at = "answered", ![i].verdict = "partial"]
      BY <1>1, <3>1, PartialOnly
    <3>3. Extra(i)' = 0 /\ EverLanded(i)' = EverLanded(i) /\ torn' \in SUBSET CsvImport
      BY <2>1, <3>1, SameLedger DEF Extra, CsvTyped
    <3>4. u.imported > 0 => <<"others", i>> \notin unseen'
      BY <2>2, <3>1 DEF Told
    <3>5. unseen' \subseteq unseen \cup (Watchers \X {i})
      BY <3>1
    <3>6. QED
      BY <2>1, <3>1, <3>2, <3>3, <3>4, <3>5, SameLedger, AnswerStep
  <2>4. CASE BatchTorn(i)
    <3> DEFINE owing == unseen \cup (Watchers \X {i})
    <3>1. /\ InBatch(i) /\ Exists(u.table) /\ Becomes(Landed(i))
          /\ ReportPartial(i) /\ torn' = torn \cup {i}
          /\ unseen' = IF u.imported > 0 THEN owing \ Told(u.table) ELSE owing
      BY <2>4 DEF BatchTorn, Counted
    <3>2. upload' = [upload EXCEPT ![i].at = "answered", ![i].verdict = "partial"]
      BY <1>1, <3>1, PartialOnly
    <3>3. Extra(i)' = 1 /\ torn' \in SUBSET CsvImport
      BY <3>1 DEF Extra, CsvTyped
    <3>4. EverLanded(i)' = 1..(u.imported + 1)
          /\ \A j \in CsvImport \ {i} : EverLanded(j)' = EverLanded(j)
      BY <3>1, BatchLands
    <3>5. u.imported + 1 <= BatchCount
      BY <2>1, <3>1 DEF InBatch
    <3>6. u.imported > 0 => <<"others", i>> \notin unseen'
      BY <2>2, <3>1 DEF Told
    <3>7. unseen' \subseteq owing
      BY <3>1
    <3>8. \A j \in CsvImport \ {i} : j \in torn' <=> j \in torn
      BY <3>1
    <3>9. QED
      BY <2>1, <3>2, <3>3, <3>4, <3>5, <3>6, <3>7, <3>8, AnswerStep
  <2>5. CASE Finish(i)
    <3>1. /\ u.next > BatchCount /\ UNCHANGED <<ledger, torn>>
          /\ unseen' = unseen \ Told(u.table)
          /\ upload' = [upload EXCEPT ![i].at = "answered", ![i].verdict = "success"]
      BY <2>5 DEF Finish
    <3>2. u.imported = BatchCount
      BY <1>2, <2>1, <3>1, CsvAssumption
    <3>3. Extra(i)' = 0 /\ EverLanded(i)' = EverLanded(i) /\ torn' \in SUBSET CsvImport
      BY <2>1, <3>1, SameLedger DEF Extra, CsvTyped
    <3>4. <<"others", i>> \notin unseen' /\ unseen' \subseteq unseen \cup (Watchers \X {i})
      BY <2>2, <3>1 DEF Told
    <3>5. QED
      BY <2>1, <3>1, <3>2, <3>3, <3>4, SameLedger, AnswerStep
  <2>6. QED
    BY <1>6, <2>3, <2>4, <2>5
<1>7. CASE HearImport(i) \/ MissImport(i)
  <2>1. /\ UNCHANGED <<ledger, upload, torn>> /\ heard[i] = "waiting"
        /\ unseen' \subseteq unseen
    BY <1>7 DEF HearImport, MissImport
  <2>2. upload' = [upload EXCEPT ![i] = u]
    BY <2>1 DEF CsvTyped
  <2>3. UploadAccounted(i)'
    BY <1>1, <2>1, SameLedger DEF UploadAccounted, Extra
  <2>4. /\ heard' \in [CsvImport -> Heard]
        /\ \A j \in CsvImport \ {i} : heard'[j] = heard[j]
    BY <1>1, <1>7 DEF HearImport, MissImport
  <2>5. AnswersTold(i)'
    <3>1. u.at = "answered" /\ u.imported > 0 => <<"others", i>> \notin unseen'
      BY <1>1, <2>1 DEF AnswersTold
    <3>2. CASE HearImport(i)
      <4>1. /\ u.at = "answered"
            /\ unseen' = IF u.verdict = "refused" THEN unseen
                         ELSE unseen \ ({"page"} \X OfTable(u.table))
        BY <3>2 DEF HearImport
      <4>2. u.verdict = "refused" => u.imported = 0
        BY <1>1 DEF UploadAccounted
      <4>3. u.imported > 0 => <<"page", i>> \notin unseen'
        BY <4>1, <4>2 DEF OfTable
      <4>4. QED
        BY <2>1, <3>1, <4>1, <4>3 DEF AnswersTold
    <3>3. CASE MissImport(i)
      <4>1. heard'[i] = "missed"
        BY <1>1, <3>3 DEF MissImport
      <4>2. QED
        BY <2>1, <3>1, <4>1 DEF AnswersTold
    <3>4. QED
      BY <1>7, <3>2, <3>3
  <2>6. torn' \in SUBSET CsvImport /\ \A j \in CsvImport : EverLanded(j)' = EverLanded(j)
    BY <2>1, SameLedger DEF CsvTyped
  <2>7. QED
    BY <1>1, <2>1, <2>2, <2>3, <2>4, <2>5, <2>6, ImportMoves
<1>8. QED
  BY <1>3, <1>4, <1>5, <1>6, <1>7

-----------------------------------------------------------------------------
(* The invariant of the whole. *)

(* What others delete takes nothing away that had landed, and lands nothing. *)
LEMMA DeletionsLandNothing ==
  ASSUME CsvTyped, NEW t \in CsvTable, DeleteRow(t) \/ DropTable(t), NEW j \in CsvImport
  PROVE  EverLanded(j)' = EverLanded(j)
<1>1. PICK s \in Sheets : Becomes(s) /\ \A r : HasRow(s, r) => HasRow(Now, r)
  BY OthersHold
<1>2. EverLanded(j)' = EverLanded(j) \cup {b \in 1..BatchCount : HasRow(s, <<j, b>>)}
  BY <1>1, EverLandedGrows DEF CsvTyped
<1>3. \A b \in 1..BatchCount : HasRow(s, <<j, b>>) => b \in EverLanded(j)
  BY <1>1, EverLandedIs, LastOfLedger DEF CsvTyped
<1>4. QED
  BY <1>2, <1>3

(* The imports, while no import moves and the ledger at most loses rows. *)
LEMMA ImportsStay ==
  ASSUME CsvTyped, ImportsTrue, UNCHANGED <<upload, heard, unseen, torn>>,
         \A j \in CsvImport : EverLanded(j)' = EverLanded(j)
  PROVE  ImportsTyped' /\ ImportsTrue'
  BY ImportFrozen DEF ImportsTrue, ImportsTyped, CsvTyped

(* A crash cuts the imports that had not been answered and fails the exports *)
(* that had not been read to the end.                                       *)
LEMMA CrashStep ==
  ASSUME CsvTyped, FilesAgree, ImportsTrue, CrashTransfers
  PROVE  /\ ImportsTyped' /\ ImportsTrue'
         /\ download' \in [CsvExport -> DownloadShape] /\ FilesAgree'
<1>1. UNCHANGED <<ledger, heard, unseen, torn>>
  BY DEF CrashTransfers
<1>2. LedgerKept
  BY <1>1, LastOfLedger DEF CsvTyped, LedgerKept, LedgerTyped
<1>3. ASSUME NEW i \in CsvImport
      PROVE  upload'[i] \in UploadShape /\ UploadAccounted(i)' /\ AnswersTold(i)'
  <2> DEFINE u == upload[i]
             new == [u EXCEPT !.at = "cut"]
  <2>1. u \in UploadShape /\ UploadAccounted(i) /\ AnswersTold(i)
    BY DEF CsvTyped, ImportsTrue
  <2>2. CASE u.at \in {"sent", "running"}
    <3>1. upload'[i] = new
      BY <2>2 DEF CrashTransfers
    <3>2. new \in UploadShape /\ new.at = "cut" /\ new.imported = u.imported
          /\ new.verdict = u.verdict
      BY <2>1 DEF UploadShape
    <3> HIDE DEF new
    <3>3. EverLanded(i)' = EverLanded(i) /\ Extra(i)' = Extra(i)
      BY <1>1, SameLedger DEF Extra
    <3>4. u.verdict = Nothing /\ heard[i] # "heard"
      BY <2>1, <2>2 DEF UploadAccounted, AnswersTold
    <3>5. UploadAccounted(i)'
      BY <2>1, <3>1, <3>2, <3>3, <3>4 DEF UploadAccounted, Nothing
    <3>6. AnswersTold(i)'
      BY <1>1, <3>1, <3>2, <3>4 DEF AnswersTold
    <3>7. QED
      BY <3>1, <3>2, <3>5, <3>6
  <2>3. CASE u.at \notin {"sent", "running"}
    <3>1. upload'[i] = u
      BY <2>3 DEF CrashTransfers
    <3>2. QED
      BY <1>1, <2>1, <3>1, SameLedger, ImportFrozen
  <2>4. QED
    BY <2>2, <2>3
<1>4. ASSUME NEW e \in CsvExport
      PROVE  download'[e] \in DownloadShape /\ ExportAgrees(e)'
  <2> DEFINE d == download[e]
             new == [d EXCEPT !.at = "failed"]
  <2>1. d \in DownloadShape
    BY DEF CsvTyped
  <2>2. CASE d.at \in {"asked", "begun", "reading"}
    <3>1. download'[e] = new
      BY <2>2 DEF CrashTransfers
    <3>2. new \in DownloadShape /\ new.at = "failed"
      BY <2>1 DEF DownloadShape
    <3> HIDE DEF new
    <3>3. QED
      BY <3>1, <3>2 DEF ExportAgrees
  <2>3. CASE d.at \notin {"asked", "begun", "reading"}
    <3>1. download'[e] = d
      BY <2>3 DEF CrashTransfers
    <3>2. QED
      BY <1>2, <2>1, <3>1, FilesFrozen
  <2>4. QED
    BY <2>2, <2>3
<1>5. upload' = [i \in CsvImport |-> upload'[i]] /\ download' = [e \in CsvExport |-> download'[e]]
  BY DEF CrashTransfers
<1>6. upload' \in [CsvImport -> UploadShape] /\ download' \in [CsvExport -> DownloadShape]
  BY <1>3, <1>4, <1>5
<1>7. ImportsTyped'
  BY <1>1, <1>6 DEF ImportsTyped, CsvTyped
<1>8. QED
  BY <1>3, <1>4, <1>6, <1>7 DEF ImportsTrue, FilesAgree

(* The invariant at the start and over every step. *)
LEMMA CsvInvInit == CsvInit => CsvInv
<1> SUFFICES ASSUME CsvInit PROVE CsvInv
  OBVIOUS
<1> DEFINE rows == <<<<OldRow, 2>>, <<OldRow, 1>>>>
           first == [t \in CsvTable |-> rows]
<1>1. ledger = <<first>>
  BY DEF CsvInit
<1>2. rows \in Seq(CsvRow) /\ Len(rows) = 2 /\ \A k \in 1..2 : rows[k] \in {<<OldRow, 1>>, <<OldRow, 2>>}
  BY DEF CsvRow
<1>3. ToSet(rows) \subseteq {<<OldRow, 1>>, <<OldRow, 2>>}
  BY <1>2 DEF ToSet
<1> HIDE DEF rows
<1>4. DOMAIN first = CsvTable /\ (\A t \in CsvTable : first[t] = rows)
      /\ first = [t \in DOMAIN first |-> first[t]]
  OBVIOUS
<1> HIDE DEF first
<1>5. first \in Sheets
  BY <1>2, <1>4, SheetShape
<1>6. LedgerTyped
  BY <1>1, <1>5 DEF LedgerTyped
<1>7. Len(ledger) = 1 /\ ledger[1] = first
  BY <1>1
<1>8. ASSUME NEW i \in CsvImport PROVE EverLanded(i) = {}
  <2>1. \A b \in 1..BatchCount : ~HasRow(first, <<i, b>>)
    BY <1>3, <1>4, CsvAssumption DEF HasRow, Rows
  <2>2. EverLanded(i) =
          {b \in 1..BatchCount : \E k \in 1..Len(ledger) : HasRow(ledger[k], <<i, b>>)}
    BY <1>6, EverLandedIs
  <2>3. \A k \in 1..Len(ledger) : ledger[k] = first
    BY <1>7
  <2>4. QED
    BY <2>1, <2>2, <2>3, Zenon
<1>9. CsvTyped
  <2>1. upload \in [CsvImport -> UploadShape]
    BY DEF CsvInit, UploadShape, Nothing
  <2>2. download \in [CsvExport -> DownloadShape]
    BY EmptySheet DEF CsvInit, DownloadShape, Nothing
  <2>3. QED
    BY <1>6, <2>1, <2>2 DEF CsvInit, CsvTyped
<1>10. FilesAgree
  BY DEF CsvInit, FilesAgree, ExportAgrees
<1>11. ImportsTrue
  <2> SUFFICES ASSUME NEW i \in CsvImport PROVE UploadAccounted(i) /\ AnswersTold(i)
    BY DEF ImportsTrue
  <2>1. /\ upload[i].at = "idle" /\ upload[i].imported = 0 /\ upload[i].next = 1
        /\ upload[i].verdict = Nothing /\ i \notin torn /\ heard[i] = "idle"
    BY DEF CsvInit
  <2>2. Extra(i) = 0 /\ 1..(0 + 0) = {} /\ 0 + 0 <= BatchCount /\ 1 = 0 + 1
    BY <2>1, CsvAssumption DEF Extra
  <2>3. UploadAccounted(i)
    BY <1>8, <2>1, <2>2 DEF UploadAccounted, Nothing
  <2>4. QED
    BY <2>1, <2>3 DEF AnswersTold
<1>12. QED
  BY <1>9, <1>10, <1>11 DEF CsvInv

LEMMA CsvInvStep == CsvInv /\ [CsvNext]_csvVars => CsvInv'
<1> SUFFICES ASSUME CsvInv, [CsvNext]_csvVars PROVE CsvInv'
  OBVIOUS
<1>1. CsvTyped /\ FilesAgree /\ ImportsTrue
  BY DEF CsvInv
<1>2. LedgerKept
  BY <1>1, KeptByStep
<1> DEFINE Downloads == download \in [CsvExport -> DownloadShape]
<1>3. UNCHANGED download => Downloads' /\ FilesAgree'
  BY <1>1, <1>2, FilesFrozen DEF FilesAgree, CsvTyped
<1>4. UNCHANGED <<ledger, upload, heard, unseen, torn>> => ImportsTyped' /\ ImportsTrue'
  BY <1>1, ImportsStay, SameLedger
<1>5. CASE \/ \E i \in CsvImport, t \in CsvTable : ChooseFile(i, t)
           \/ \E i \in CsvImport :
                \/ Admit(i) \/ Batch(i) \/ BatchFails(i) \/ BatchTorn(i) \/ Finish(i)
                \/ HearImport(i) \/ MissImport(i)
  <2>1. UNCHANGED download
    BY <1>5 DEF ChooseFile, Admit, Batch, BatchFails, BatchTorn, Finish, HearImport, MissImport,
       downloadVars
  <2>2. ImportsTyped' /\ ImportsTrue'
    BY <1>1, <1>5, ImportSteps
  <2>3. QED
    BY <1>2, <1>3, <2>1, <2>2 DEF CsvInv, CsvTyped, ImportsTyped, LedgerKept
<1>6. CASE \E e \in CsvExport :
             \/ \E kind \in {"table", "base"}, ts \in SUBSET CsvTable \ {{}} : AskExport(e, kind, ts)
             \/ TakeExportSlot(e) \/ ListTables(e) \/ ReadRows(e) \/ EndExport(e)
             \/ BreakExport(e) \/ SaveFiles(e)
  <2>1. UNCHANGED <<ledger, upload, heard, unseen, torn>>
    BY <1>6 DEF AskExport, TakeExportSlot, ListTables, ReadRows, EndExport, BreakExport, SaveFiles,
       uploadVars
  <2>2. Downloads' /\ FilesAgree'
    BY <1>1, <1>6, ExportSteps
  <2>3. QED
    BY <1>2, <1>4, <2>1, <2>2 DEF CsvInv, CsvTyped, ImportsTyped, LedgerKept
<1>7. CASE \E t \in CsvTable : DeleteRow(t) \/ DropTable(t)
  <2>1. UNCHANGED <<upload, heard, unseen, torn, download>>
    BY <1>7 DEF DeleteRow, DropTable, uploadVars, downloadVars
  <2>2. ImportsTyped' /\ ImportsTrue'
    BY <1>1, <1>7, <2>1, DeletionsLandNothing, ImportsStay
  <2>3. QED
    BY <1>2, <1>3, <2>1, <2>2 DEF CsvInv, CsvTyped, ImportsTyped, LedgerKept
<1>8. CASE CrashTransfers
  BY <1>1, <1>2, <1>8, CrashStep DEF CsvInv, CsvTyped, ImportsTyped, LedgerKept
<1>9. CASE UNCHANGED csvVars
  BY <1>2, <1>3, <1>4, <1>9 DEF csvVars, CsvInv, CsvTyped, ImportsTyped, LedgerKept
<1>10. QED
  BY <1>5, <1>6, <1>7, <1>8, <1>9 DEF CsvNext

(* A report accounts for the rows that landed, and who shows the table knows *)
(* of them: whatever fails between two batches, and whichever COMMIT answer  *)
(* is lost (packages/plugin-csv/src/server.ts, the settings page).           *)
THEOREM ImportsStayAccounted == CsvSpec => []ImportsAccounted
<1>1. CsvInv => ImportsAccounted
  <2> SUFFICES ASSUME CsvInv, NEW i \in CsvImport, UploadAccounted(i), AnswersTold(i)
               PROVE  LET u == upload[i] IN
                 /\ u.at = "answered" =>
                      EverLanded(i) = 1..(u.imported + (IF i \in torn THEN 1 ELSE 0))
                 /\ u.verdict = "success" => u.imported = BatchCount
                 /\ u.at = "answered" /\ u.imported > 0 => <<"others", i>> \notin unseen
                 /\ heard[i] = "heard" /\ u.imported > 0 => <<"page", i>> \notin unseen
    BY DEF CsvInv, ImportsTrue, ImportsAccounted
  <2>1. QED
    BY DEF UploadAccounted, AnswersTold, Extra
<1>2. QED
  BY <1>1, CsvInvInit, CsvInvStep, PTL DEF CsvSpec

(* An export's files are the tables of one instant, whatever committed while *)
(* it read page after page (apps/web/src/server/exports/csv.ts).             *)
THEOREM ExportsStayWhole == CsvSpec => []ExportsOneInstant
<1>1. CsvInv => ExportsOneInstant
  <2> SUFFICES ASSUME CsvInv, NEW e \in CsvExport, download[e].at \in {"answered", "saved"}
               PROVE  \E k \in download[e].since..Len(ledger) :
                        download[e].file = [t \in download[e].wanted \cap DOMAIN ledger[k] |-> ledger[k][t]]
    BY DEF ExportsOneInstant
  <2> DEFINE d == download[e]
             k == d.snap
  <2>1. FilesOf(e) /\ d.todo = {} /\ d \in DownloadShape
    BY DEF CsvInv, FilesAgree, ExportAgrees, CsvTyped
  <2>2. d.file \in Sheets
    BY <2>1 DEF DownloadShape
  <2>3. d.file = [t \in DOMAIN d.file |-> d.file[t]]
    BY <2>2, SheetShape
  <2>4. DOMAIN d.file = d.wanted \cap DOMAIN ledger[k] /\ \A t \in DOMAIN d.file : d.file[t] = ledger[k][t]
    BY <2>1 DEF FilesOf, SnapshotOf
  <2>5. k \in d.since..Len(ledger)
    BY <2>1 DEF FilesOf
  <2>6. d.file = [t \in d.wanted \cap DOMAIN ledger[k] |-> ledger[k][t]]
    BY <2>3, <2>4
  <2>7. QED
    BY <2>5, <2>6
<1>2. QED
  BY <1>1, CsvInvInit, CsvInvStep, PTL DEF CsvSpec

-----------------------------------------------------------------------------
(***************************************************************************)
(* Imports from Airtable: files and bases agree and answers stay true, for  *)
(* any attempts, requests and numbers of files, through deadlines,          *)
(* cancellations, recovery and any number of crashes.                      *)
(***************************************************************************)
Early == {"idle", "claim", "claimNow", "waiting"}
Locking == {"lookup", "journal", "put", "insert", "commit", "clean"}
Late == {"prepare", "lock", "reconcile", "discard", "done"}

TypeOK ==
  /\ receipt \in [Request -> Attempt \cup {Nobody}]
  /\ bases \in SUBSET Attempt
  /\ lock \in [Request -> Attempt \cup {Nobody, Command}]
  /\ files \in SUBSET (Attempt \X (1..FileCount))
  /\ journals \in SUBSET Attempt
  /\ slot \in Attempt \cup {Nobody}
  /\ pc \in [Attempt -> Early \cup Locking \cup Late]
  /\ expired \in [Attempt -> BOOLEAN]
  /\ aborted \in [Attempt -> BOOLEAN]
  /\ answer \in [Attempt -> {"none", "report", "failed", "recovery", "lost"}]
  /\ cancel \in [Request -> [at : {"idle", "waiting", "cancelled"}, of : Attempt \cup {Nobody}]]
  /\ removing \in SUBSET Attempt
  /\ cli \in [at : {"idle", "lock", "clean"}, of : Attempt \cup {Nobody}]
  /\ cli.at # "idle" => cli.of \in Attempt
  /\ committed \in SUBSET Attempt
  /\ excused \in SUBSET Attempt

(* From the advisory lock to the end of the transaction or of the clean-up. *)
Locked ==
  /\ \A a \in Attempt : pc[a] \in Locking => lock[RequestOf[a]] = a
  /\ cli.at = "clean" => lock[RequestOf[cli.of]] = Command

(* Behind the lookup, and during a clean-up, the request has no receipt. *)
NoReceipt ==
  /\ \A a \in Attempt : pc[a] \in Locking \ {"lookup"} => receipt[RequestOf[a]] = Nobody
  /\ cli.at = "clean" => receipt[RequestOf[cli.of]] = Nobody

(* A base and the receipt of its request come and go together. *)
ReceiptIsBase ==
  /\ \A a \in bases : receipt[RequestOf[a]] = a
  /\ \A r \in Request : receipt[r] # Nobody => receipt[r] \in bases /\ RequestOf[receipt[r]] = r

(* An attempt is committed once, and was behind its files by then. *)
CommittedLate ==
  /\ bases \subseteq committed /\ removing \subseteq committed /\ bases \cap removing = {}
  /\ \A a \in committed : pc[a] \in {"discard", "reconcile", "clean", "done"}
  /\ \A a \in Attempt : pc[a] = "discard" => a \in committed

AllStored == \A a \in Attempt : pc[a] \in {"insert", "commit"} => Files(a) \subseteq files

Journaled == \A a \in Attempt : pc[a] \in {"put", "insert", "commit"} => a \in journals

(* The journal may go once the base owns the files, or nobody has any. *)
Discardable ==
  \A a \in Attempt : pc[a] = "discard" => a \in bases \cup removing \/ Emptied(a)

Consistent ==
  /\ TypeOK /\ Locked /\ NoReceipt /\ ReceiptIsBase /\ CommittedLate
  /\ AllStored /\ Journaled /\ Discardable /\ FilesMatchBases

-----------------------------------------------------------------------------
(* The slot is an attempt's from its claim to its answer. *)
SlotTaken ==
  /\ \A a \in Attempt : slot = a => pc[a] \notin Early
  /\ \A a \in Attempt : pc[a] \notin Early => slot = a \/ answer[a] # "none"

(* Only the deadline answers before the attempt is done, and says so. *)
AnsweredOnce ==
  /\ \A a \in Attempt : expired[a] => answer[a] # "none" /\ pc[a] # "discard"
  /\ \A a \in Attempt : answer[a] \notin {"none", "recovery"} => pc[a] = "done"
  /\ \A a \in Attempt : answer[a] = "recovery" => pc[a] = "done" \/ expired[a]
  /\ \A a \in Attempt : answer[a] # "none" => pc[a] \notin Early \cup {"prepare"}

CancelsOwn ==
  \A r \in Request :
    /\ cancel[r].at # "idle" =>
         /\ cancel[r].of \in Attempt /\ RequestOf[cancel[r].of] = r
         /\ pc[cancel[r].of] \notin Early
    /\ cancel[r].at = "cancelled" =>
         \/ pc[cancel[r].of] = "done" /\ cancel[r].of \notin bases
         \/ answer[cancel[r].of] = "recovery"

Truthful ==
  /\ Consistent /\ SlotTaken /\ AnsweredOnce /\ CancelsOwn /\ AnswersStayTrue

-----------------------------------------------------------------------------
(***************************************************************************)
(* Types.                                                                  *)
(***************************************************************************)
LEMMA AnswerTyped ==
  ASSUME TypeOK, NEW a \in Attempt, NEW what \in {"report", "failed", "recovery"},
         Answer(a, what)
  PROVE  /\ answer' \in [Attempt -> {"none", "report", "failed", "recovery", "lost"}]
         /\ slot' \in Attempt \cup {Nobody}
  BY DEF Answer, TypeOK

LEMMA GotoTyped ==
  ASSUME TypeOK, NEW a \in Attempt, NEW l \in Early \cup Locking \cup Late, Goto(a, l)
  PROVE  pc' \in [Attempt -> Early \cup Locking \cup Late]
  BY DEF Goto, TypeOK

LEMMA FreeTyped ==
  ASSUME TypeOK, NEW h, Free(h)
  PROVE  lock' \in [Request -> Attempt \cup {Nobody, Command}]
  BY DEF Free, TypeOK

LEMMA DiscardTyped ==
  ASSUME TypeOK, NEW a \in Attempt, DiscardJournal(a)
  PROVE  journals' \in SUBSET Attempt /\ excused' \in SUBSET Attempt
  BY DEF DiscardJournal, TypeOK

LEMMA RemoveTyped ==
  ASSUME TypeOK, NEW a, RemoveFile(a)
  PROVE  files' \in SUBSET (Attempt \X (1..FileCount))
  BY DEF RemoveFile, TypeOK

LEMMA AttemptTyped ==
  ASSUME TypeOK, NEW a \in Attempt, AttemptStep(a)
  PROVE  TypeOK'
<1> USE ImportAssumption
<1> DEFINE PC == Early \cup Locking \cup Late
<1>0. \A l \in {"done", "claim", "claimNow", "waiting", "prepare", "lock", "lookup", "journal",
                "put", "insert", "commit", "discard", "reconcile", "clean"} : l \in PC
  BY DEF Early, Locking, Late
<1>1. CASE Start(a)
  BY <1>0, <1>1, GotoTyped, AnswerTyped DEF Start, Stay, TypeOK, dbVars, diskVars
<1>2. CASE Claim(a)
  BY <1>0, <1>2, GotoTyped, AnswerTyped DEF Claim, Stay, TypeOK, dbVars, diskVars
<1>3. CASE Prepare(a)
  BY <1>0, <1>3, GotoTyped, AnswerTyped DEF Prepare, Stay, TypeOK, dbVars, diskVars
<1>4. CASE LockRequest(a)
  BY <1>0, <1>4, GotoTyped DEF LockRequest, Stay, TypeOK, diskVars
<1>5. CASE LookUp(a)
  BY <1>0, <1>5, GotoTyped, AnswerTyped, FreeTyped DEF LookUp, Stay, TypeOK, diskVars
<1>6. CASE CreateJournal(a)
  BY <1>0, <1>6, GotoTyped DEF CreateJournal, Stay, TypeOK, dbVars
<1>7. CASE PutFile(a)
  BY <1>0, <1>7, GotoTyped DEF PutFile, First, Files, Stay, TypeOK, dbVars
<1>8. CASE InsertRows(a)
  BY <1>0, <1>8, GotoTyped DEF InsertRows, Stay, TypeOK, dbVars, diskVars
<1>9. CASE Commit(a)
  BY <1>0, <1>9, GotoTyped, FreeTyped DEF Commit, Lands, TypeOK, diskVars
<1>10. CASE RollBack(a)
  BY <1>0, <1>10, GotoTyped, FreeTyped DEF RollBack, Stay, TypeOK, diskVars
<1>11. CASE Expire(a)
  BY <1>0, <1>11, GotoTyped, AnswerTyped DEF Expire, TypeOK, dbVars, diskVars
<1>12. CASE StopLate(a)
  BY <1>0, <1>12, GotoTyped, FreeTyped DEF StopLate, Stay, TypeOK, diskVars
<1>13. CASE Reconcile(a)
  <2>1. pc' \in [Attempt -> PC]
    BY <1>0, <1>13, GotoTyped DEF Reconcile
  <2>2. journals' \in SUBSET Attempt /\ excused' \in SUBSET Attempt
    BY <1>13, DiscardTyped DEF Reconcile, TypeOK
  <2>3. /\ answer' \in [Attempt -> {"none", "report", "failed", "recovery", "lost"}]
        /\ slot' \in Attempt \cup {Nobody}
    BY <1>13, AnswerTyped DEF Reconcile, TypeOK
  <2>4. lock' \in [Request -> Attempt \cup {Nobody, Command}]
    BY <1>13 DEF Reconcile, TypeOK
  <2>5. QED
    BY <1>13, <2>1, <2>2, <2>3, <2>4 DEF Reconcile, TypeOK
<1>14. CASE Clean(a)
  BY <1>0, <1>14, GotoTyped, AnswerTyped, FreeTyped, DiscardTyped, RemoveTyped DEF Clean, TypeOK
<1>15. CASE Discard(a)
  BY <1>0, <1>15, GotoTyped, AnswerTyped DEF Discard, Stay, TypeOK, dbVars
<1>16. CASE Open(a)
  BY <1>0, <1>16 DEF Open, TypeOK, dbVars, diskVars, serverVars
<1>17. CASE DeleteBase(a)
  BY <1>0, <1>17 DEF DeleteBase, TypeOK, diskVars
<1>18. CASE RemoveFiles(a)
  BY <1>0, <1>18 DEF RemoveFiles, TypeOK, dbVars
<1>19. QED
  BY <1>1, <1>2, <1>3, <1>4, <1>5, <1>6, <1>7, <1>8, <1>9, <1>10, <1>11, <1>12, <1>13, <1>14, <1>15, <1>16, <1>17, <1>18 DEF AttemptStep

(* What a crash leaves: of the transactions at COMMIT some have landed. *)
CrashLeaves(sent) ==
  /\ sent \subseteq {a \in Attempt : pc[a] = "commit"}
  /\ receipt' \in [Request -> Attempt \cup {Nobody}]
  /\ \A r \in Request :
       \/ /\ receipt'[r] = receipt[r]
          /\ \A a \in sent : RequestOf[a] # r
       \/ receipt'[r] \in sent /\ RequestOf[receipt'[r]] = r
  /\ bases' = bases \cup sent /\ committed' = committed \cup sent
  /\ \A r \in Request : lock'[r] = IF lock[r] = Command THEN Command ELSE Nobody
  /\ \A a \in Attempt : pc'[a] = IF pc[a] = "idle" THEN "idle" ELSE "done"
  /\ slot' = Nobody /\ removing' = {} /\ excused' = excused \cup removing
  /\ cancel' = [r \in Request |-> IF cancel[r].at = "waiting" THEN Idle ELSE cancel[r]]
  /\ \A a \in Attempt :
       answer'[a] = IF pc[a] # "idle" /\ answer[a] = "none" THEN "lost" ELSE answer[a]
  /\ UNCHANGED <<files, journals, expired, aborted, cli>>

LEMMA CrashEffect ==
  ASSUME TypeOK, Crash
  PROVE  \E sent \in SUBSET Attempt : CrashLeaves(sent)
<1>1. PICK lands \in BOOLEAN : Crash!(lands)
  BY DEF Crash
<1> DEFINE sent == {a \in Attempt : pc[a] = "commit" /\ lands}
<1>2. receipt' = [r \in Request |->
        IF \E a \in sent : RequestOf[a] = r
        THEN CHOOSE a \in sent : RequestOf[a] = r ELSE receipt[r]]
  BY <1>1
<1>3. /\ bases' = bases \cup sent /\ committed' = committed \cup sent
      /\ sent \subseteq {a \in Attempt : pc[a] = "commit"}
  BY <1>1
<1> HIDE DEF sent
<1>4. ASSUME NEW r \in Request
      PROVE  \/ /\ receipt'[r] = receipt[r]
                /\ \A a \in sent : RequestOf[a] # r
             \/ receipt'[r] \in sent /\ RequestOf[receipt'[r]] = r
  BY <1>2
<1>5. receipt' \in [Request -> Attempt \cup {Nobody}]
  BY <1>2, <1>3, <1>4 DEF TypeOK
<1>6. CrashLeaves(sent)
  BY <1>1, <1>3, <1>4, <1>5 DEF CrashLeaves, diskVars
<1>7. QED
  BY <1>3, <1>6

LEMMA CrashTyped ==
  ASSUME TypeOK, Crash
  PROVE  TypeOK'
<1>1. PICK sent \in SUBSET Attempt : CrashLeaves(sent)
  BY CrashEffect
<1>2. /\ lock' = [r \in Request |-> IF lock[r] = Command THEN Command ELSE Nobody]
      /\ pc' = [a \in Attempt |-> IF pc[a] = "idle" THEN "idle" ELSE "done"]
      /\ answer' = [a \in Attempt |-> IF pc[a] # "idle" /\ answer[a] = "none"
                                      THEN "lost" ELSE answer[a]]
  BY DEF Crash
<1>3. pc' \in [Attempt -> Early \cup Locking \cup Late]
  BY <1>2 DEF Early, Late
<1>4. QED
  BY <1>1, <1>2, <1>3 DEF CrashLeaves, TypeOK, Idle

LEMMA OthersTyped ==
  ASSUME TypeOK,
         \/ \E r \in Request : Cancel(r) \/ CancelAnswer(r)
         \/ LockJournal \/ CleanJournal \/ StopCommand \/ Crash
  PROVE  TypeOK'
<1>1. ASSUME NEW r \in Request, Cancel(r)
      PROVE  TypeOK'
  <2>1. slot \in Attempt
    BY <1>1 DEF Cancel, Active
  <2>2. QED
    BY <1>1, <2>1 DEF Cancel, TypeOK, dbVars, diskVars
<1>2. ASSUME NEW r \in Request, CancelAnswer(r)
      PROVE  TypeOK'
  BY <1>2 DEF CancelAnswer, TypeOK, dbVars, diskVars
<1>3. CASE LockJournal
  <2>1. cli.of \in Attempt
    BY <1>3 DEF LockJournal, TypeOK
  <2>2. journals' \in SUBSET Attempt /\ excused' \in SUBSET Attempt
    BY <1>3, <2>1, DiscardTyped DEF LockJournal, TypeOK
  <2>3. lock' \in [Request -> Attempt \cup {Nobody, Command}]
    BY <1>3 DEF LockJournal, TypeOK
  <2>4. /\ cli' \in [at : {"idle", "lock", "clean"}, of : Attempt \cup {Nobody}]
        /\ cli'.at # "idle" => cli'.of \in Attempt
    <3>1. cli' = [cli EXCEPT !.at = "clean"] \/ cli' = Idle
      BY <1>3 DEF LockJournal
    <3>2. CASE cli' = [cli EXCEPT !.at = "clean"]
      BY <2>1, <3>2 DEF TypeOK
    <3>3. CASE cli' = Idle
      BY <3>3 DEF Idle
    <3>4. QED
      BY <3>1, <3>2, <3>3
  <2>5. QED
    BY <1>3, <2>2, <2>3, <2>4 DEF LockJournal, TypeOK, serverVars
<1>4. CASE CleanJournal
  <2>1. cli.of \in Attempt
    BY <1>4 DEF CleanJournal, TypeOK
  <2>2. QED
    BY <1>4, <2>1, DiscardTyped, FreeTyped, RemoveTyped
       DEF CleanJournal, Idle, TypeOK, serverVars
<1>5. CASE StopCommand
  BY <1>5, FreeTyped DEF StopCommand, Idle, TypeOK, diskVars, serverVars
<1>6. CASE Crash
  BY <1>6, CrashTyped
<1>7. QED
  BY <1>1, <1>2, <1>3, <1>4, <1>5, <1>6

LEMMA StepTyped ==
  ASSUME TypeOK, [ImportNext]_importVars
  PROVE  TypeOK'
<1>1. CASE UNCHANGED importVars
  BY <1>1 DEF importVars, dbVars, diskVars, serverVars, TypeOK
<1>2. QED
  BY <1>1, AttemptTyped, OthersTyped DEF ImportNext

LEMMA InitTyped ==
  ASSUME ImportInit
  PROVE  TypeOK
  BY DEF ImportInit, TypeOK, Idle, Early, Locking, Late

-----------------------------------------------------------------------------
(***************************************************************************)
(* Files and bases.                                                        *)
(***************************************************************************)
LEMMA FilesOwned ==
  ASSUME TypeOK
  PROVE  /\ \A f \in files : f[1] \in Attempt /\ f \in Files(f[1])
         /\ \A a \in Attempt : \A f \in Files(a) : f[1] = a
  BY DEF TypeOK, Files

LEMMA FreeKeeps ==
  ASSUME TypeOK, NEW h, Free(h)
  PROVE  \A r \in Request : lock[r] # h => lock'[r] = lock[r]
  BY DEF Free, TypeOK

LEMMA GotoSets ==
  ASSUME TypeOK, NEW a \in Attempt, NEW l, Goto(a, l)
  PROVE  pc'[a] = l /\ \A b \in Attempt : b # a => pc'[b] = pc[b]
  BY DEF Goto, TypeOK

(* A step of one attempt that writes no row and discards no journal: it may *)
(* take or free the lock, name its files in a journal and store them.      *)
LEMMA AttemptMoves ==
  ASSUME Consistent, TypeOK', NEW a \in Attempt,
         UNCHANGED <<receipt, bases, removing, cli, committed, excused>>,
         \A b \in Attempt : b # a => pc'[b] = pc[b],
         \A r \in Request : lock'[r] = lock[r] \/ lock[r] \in {a, Nobody},
         pc'[a] \in Locking => lock'[RequestOf[a]] = a,
         pc'[a] \in Locking \ {"lookup"} => receipt[RequestOf[a]] = Nobody,
         journals \subseteq journals', files \subseteq files',
         \A f \in files' \ files : f[1] = a /\ a \in journals',
         pc'[a] \in {"put", "insert", "commit"} => a \in journals',
         pc'[a] \in {"insert", "commit"} => Files(a) \subseteq files',
         a \in committed => pc'[a] \in {"reconcile", "clean", "done"} \/ pc'[a] = pc[a],
         pc'[a] = "discard" => pc[a] = "discard" /\ files' = files
  PROVE  Consistent'
<1> USE ImportAssumption
<1>1. Locked' /\ NoReceipt'
  <2>1. \A b \in Attempt : b # a /\ pc[b] \in Locking => lock'[RequestOf[b]] = b
    BY DEF Consistent, Locked
  <2>2. cli.at = "clean" => lock'[RequestOf[cli.of]] = Command
    <3> HAVE cli.at = "clean"
    <3>1. RequestOf[cli.of] \in Request
      BY DEF Consistent, TypeOK
    <3>2. lock[RequestOf[cli.of]] = Command
      BY DEF Consistent, Locked
    <3>3. QED
      BY <3>1, <3>2 DEF Command, Nobody
  <2>3. QED
    BY <2>1, <2>2 DEF Consistent, Locked, NoReceipt
<1>2. ReceiptIsBase' /\ AllStored' /\ Journaled'
  <2>1. ReceiptIsBase'
    BY DEF Consistent, ReceiptIsBase
  <2>2. AllStored'
    BY DEF Consistent, AllStored, Files
  <2>3. Journaled'
    BY DEF Consistent, Journaled
  <2>4. QED
    BY <2>1, <2>2, <2>3
<1>3. CommittedLate'
  <2>1. committed \subseteq Attempt /\ CommittedLate
    BY DEF Consistent, TypeOK
  <2>2. \A b \in committed : pc'[b] \in {"discard", "reconcile", "clean", "done"}
    BY <2>1 DEF CommittedLate
  <2>3. \A b \in Attempt : pc'[b] = "discard" => b \in committed
    BY <2>1 DEF CommittedLate
  <2>4. QED
    BY <2>1, <2>2, <2>3 DEF CommittedLate
<1>4. Discardable'
  <2> SUFFICES ASSUME NEW b \in Attempt, pc'[b] = "discard"
               PROVE  b \in bases \cup removing \/ Emptied(b)'
    BY DEF Discardable
  <2>1. pc[b] = "discard"
    OBVIOUS
  <2>2. CASE b \in bases \cup removing
    BY <2>2
  <2>3. CASE files \cap Files(b) = {}
    <3>1. CASE b = a
      BY <2>3, <3>1 DEF Emptied, Files
    <3>2. CASE b # a
      <4>1. \A g \in Files(b) : g[1] = b
        BY FilesOwned DEF Consistent
      <4>2. files' \cap Files(b) = {}
        BY <4>1, <2>3, <3>2
      <4>3. QED
        BY <4>2 DEF Emptied, Files
    <3>3. QED
      BY <3>1, <3>2
  <2>4. QED
    BY <2>1, <2>2, <2>3 DEF Consistent, Discardable, Emptied
<1>5. CommittedFilesStay'
  BY DEF Consistent, FilesMatchBases, CommittedFilesStay, Files
<1>6. OrphansAreJournaled'
  BY DEF Consistent, FilesMatchBases, OrphansAreJournaled
<1>7. QED
  BY <1>1, <1>2, <1>3, <1>4, <1>5, <1>6 DEF Consistent, FilesMatchBases

LEMMA QuietSteps ==
  ASSUME Consistent, TypeOK', NEW a \in Attempt,
         \/ Start(a) \/ Claim(a) \/ Prepare(a) \/ LockRequest(a) \/ LookUp(a)
         \/ CreateJournal(a) \/ PutFile(a) \/ InsertRows(a)
         \/ RollBack(a) \/ Expire(a) \/ StopLate(a)
  PROVE  Consistent'
<1> USE ImportAssumption
<1> TypeOK
  BY DEF Consistent
<1>0. a \in committed => pc[a] \in {"discard", "reconcile", "clean", "done"}
  BY DEF Consistent, CommittedLate
<1>1. CASE Start(a) \/ Claim(a) \/ Prepare(a) \/ Expire(a)
  <2>1. /\ UNCHANGED <<receipt, bases, lock, files, journals, removing, cli, committed, excused>>
        /\ \A b \in Attempt : b # a => pc'[b] = pc[b]
        /\ pc'[a] = pc[a] \/ pc'[a] = "done"
           \/ (pc[a] \in Early \cup {"prepare"} /\ pc'[a] \in {"claim", "claimNow", "waiting", "prepare", "lock"})
    BY <1>1, GotoSets DEF Start, Claim, Prepare, Expire, Stay, dbVars, diskVars, Early
  <2>2. pc'[a] \in Locking => pc'[a] = pc[a]
    BY <2>1 DEF Locking
  <2>3. pc[a] \in Locking => lock[RequestOf[a]] = a
    BY DEF Consistent, Locked
  <2>4. pc[a] \in Locking \ {"lookup"} => receipt[RequestOf[a]] = Nobody
    BY DEF Consistent, NoReceipt
  <2>5. /\ pc[a] \in {"insert", "commit"} => Files(a) \subseteq files
        /\ pc[a] \in {"put", "insert", "commit"} => a \in journals
    BY DEF Consistent, AllStored, Journaled
  <2>6. a \in committed => pc'[a] \in {"reconcile", "clean", "done"} \/ pc'[a] = pc[a]
    BY <1>0, <2>1 DEF Early
  <2>7. QED
    BY <2>1, <2>2, <2>3, <2>4, <2>5, <2>6, AttemptMoves
<1>2. CASE LockRequest(a)
  <2>1. /\ UNCHANGED <<receipt, bases, files, journals, removing, cli, committed, excused>>
        /\ \A b \in Attempt : b # a => pc'[b] = pc[b]
        /\ pc'[a] = "lookup" /\ pc[a] = "lock"
        /\ \A r \in Request : lock'[r] = lock[r] \/ lock[r] = Nobody
        /\ lock'[RequestOf[a]] = a
    BY <1>2, GotoSets DEF LockRequest, LockFree, Stay, diskVars, TypeOK
  <2>2. QED
    BY <1>0, <2>1, AttemptMoves
<1>3. CASE LookUp(a)
  <2>1. /\ UNCHANGED <<receipt, bases, files, journals, removing, cli, committed, excused>>
        /\ \A b \in Attempt : b # a => pc'[b] = pc[b]
        /\ pc[a] = "lookup" /\ lock[RequestOf[a]] = a
        /\ \A r \in Request : lock'[r] = lock[r] \/ lock[r] = a
        /\ \/ pc'[a] = "done"
           \/ pc'[a] = "journal" /\ receipt[RequestOf[a]] = Nobody /\ lock' = lock
    BY <1>3, GotoSets, FreeKeeps
       DEF LookUp, HasReceipt, Stay, diskVars, Consistent, Locked, Locking
  <2>2. QED
    BY <1>0, <2>1, AttemptMoves DEF Locking
<1>4. CASE CreateJournal(a) \/ PutFile(a) \/ InsertRows(a)
  <2>1. /\ UNCHANGED <<receipt, bases, lock, removing, cli, committed, excused>>
        /\ \A b \in Attempt : b # a => pc'[b] = pc[b]
        /\ pc[a] \in {"journal", "put", "insert"} /\ pc'[a] \in {"put", "insert", "commit"}
    BY <1>4, GotoSets
       DEF CreateJournal, PutFile, InsertRows, Stay, dbVars, diskVars
  <2>2. /\ journals \subseteq journals' /\ a \in journals'
        /\ files \subseteq files' /\ \A f \in files' \ files : f \in Files(a)
    BY <1>4 DEF CreateJournal, PutFile, InsertRows, diskVars, First, Consistent, Journaled
  <2>3. pc'[a] \in {"insert", "commit"} => Files(a) \subseteq files'
    BY <1>4, GotoSets DEF CreateJournal, PutFile, InsertRows, diskVars, Consistent, AllStored
  <2>4. lock[RequestOf[a]] = a /\ receipt[RequestOf[a]] = Nobody
    BY <2>1 DEF Consistent, Locked, NoReceipt, Locking
  <2>5. QED
    BY <1>0, <2>1, <2>2, <2>3, <2>4, FilesOwned, AttemptMoves
<1>5. CASE RollBack(a) \/ StopLate(a)
  <2>1. /\ UNCHANGED <<receipt, bases, files, journals, removing, cli, committed, excused>>
        /\ \A b \in Attempt : b # a => pc'[b] = pc[b]
        /\ pc'[a] \in {"reconcile", "done"}
        /\ \A r \in Request : lock'[r] = lock[r] \/ lock[r] = a
    BY <1>5, GotoSets, FreeKeeps DEF RollBack, StopLate, Stay, diskVars
  <2>2. QED
    BY <2>1, AttemptMoves DEF Locking
<1>6. QED
  BY <1>1, <1>2, <1>3, <1>4, <1>5

(* A journal whose files a base owns, or that names none, may be discarded. *)
LEMMA DiscardSafe ==
  ASSUME Consistent, NEW a \in Attempt, DiscardJournal(a),
         a \notin journals \/ Emptied(a) \/ HasReceipt(RequestOf[a])
  PROVE  /\ journals' \subseteq journals /\ excused \subseteq excused'
         /\ \A b \in journals : b # a => b \in journals'
         /\ \A f \in files : f[1] \in bases \cup journals' \cup removing \cup excused'
<1> TypeOK
  BY DEF Consistent
<1>1. ASSUME NEW f \in files, f[1] = a
      PROVE  f[1] \in bases \cup journals' \cup removing \cup excused'
  <2>1. f \in Files(a)
    BY <1>1, FilesOwned
  <2>2. ~Emptied(a)
    BY <2>1 DEF Emptied
  <2>3. CASE a \notin journals
    BY <1>1, <2>3 DEF DiscardJournal, Consistent, FilesMatchBases, OrphansAreJournaled
  <2>4. CASE HasReceipt(RequestOf[a]) /\ receipt[RequestOf[a]] = a
    BY <1>1, <2>4, ImportAssumption DEF HasReceipt, Consistent, ReceiptIsBase
  <2>5. CASE HasReceipt(RequestOf[a]) /\ receipt[RequestOf[a]] # a
    BY <1>1, <2>5 DEF DiscardJournal, Superseded
  <2>6. QED
    BY <2>2, <2>3, <2>4, <2>5
<1>2. ASSUME NEW f \in files, f[1] # a
      PROVE  f[1] \in bases \cup journals' \cup removing \cup excused'
  BY <1>2 DEF DiscardJournal, Consistent, FilesMatchBases, OrphansAreJournaled
<1>3. QED
  BY <1>1, <1>2 DEF DiscardJournal

(* A step that cleans up after an attempt without a base, or discards its   *)
(* journal.                                                                 *)
LEMMA CleaningMoves ==
  ASSUME Consistent, TypeOK', Locked', NoReceipt', NEW a \in Attempt,
         UNCHANGED <<receipt, bases, removing, committed>>,
         files' \subseteq files, \A f \in files \ files' : f[1] = a /\ a \notin bases,
         \A b \in journals : b # a => b \in journals',
         \A f \in files' : f[1] \in bases \cup journals' \cup removing \cup excused',
         \A b \in Attempt : b # a => pc'[b] = pc[b],
         pc[a] \notin {"put", "insert", "commit"},
         pc'[a] = pc[a] \/ (pc[a] # "idle" /\ pc'[a] \in {"clean", "done"})
  PROVE  Consistent'
<1> TypeOK
  BY DEF Consistent
<1>1. ReceiptIsBase' /\ Journaled'
  BY DEF Consistent, ReceiptIsBase, Journaled
<1>2. CommittedLate'
  BY DEF Consistent, CommittedLate, TypeOK
<1>3. \A b \in Attempt \ {a} : Files(b) \cap files' = Files(b) \cap files
  BY FilesOwned
<1>4. AllStored'
  <2> SUFFICES ASSUME NEW b \in Attempt, pc'[b] \in {"insert", "commit"}
               PROVE  Files(b) \subseteq files'
    BY DEF AllStored, Files
  <2>1. b # a /\ pc[b] \in {"insert", "commit"}
    OBVIOUS
  <2>2. QED
    BY <2>1, <1>3 DEF Consistent, AllStored
<1>5. Discardable'
  BY DEF Consistent, Discardable, Emptied, Files
<1>6. CommittedFilesStay'
  <2> SUFFICES ASSUME NEW b \in bases
               PROVE  Files(b) \subseteq files'
    BY DEF CommittedFilesStay, Files
  <2>1. b \in Attempt /\ Files(b) \subseteq files
    BY DEF Consistent, FilesMatchBases, CommittedFilesStay, TypeOK
  <2>2. QED
    BY <2>1, FilesOwned
<1>7. OrphansAreJournaled'
  BY DEF OrphansAreJournaled
<1>8. QED
  BY <1>1, <1>2, <1>4, <1>5, <1>6, <1>7 DEF Consistent, FilesMatchBases

(* Whoever cleans up holds the lock, so that the attempt has no base. *)
LEMMA CleanHasNoBase ==
  ASSUME Consistent
  PROVE  /\ \A a \in Attempt : pc[a] = "clean" => a \notin bases
         /\ cli.at = "clean" =>
              /\ cli.of \in Attempt /\ cli.of \notin bases
              /\ pc[cli.of] \notin Locking
<1>1. cli.at = "clean" => cli.of \in Attempt
  BY DEF Consistent, TypeOK
<1>2. \A a \in Attempt : receipt[RequestOf[a]] = Nobody => a \notin bases
  BY ImportAssumption DEF Consistent, ReceiptIsBase
<1>3. \A a \in Attempt : lock[RequestOf[a]] = Command => pc[a] \notin Locking
  BY ImportAssumption DEF Consistent, Locked
<1>4. QED
  BY <1>1, <1>2, <1>3 DEF Consistent, NoReceipt, Locked, Locking

LEMMA ReconcileKeeps ==
  ASSUME Consistent, TypeOK', NEW a \in Attempt, Reconcile(a)
  PROVE  Consistent'
<1> TypeOK
  BY DEF Consistent
<1> USE ImportAssumption
<1>1. /\ UNCHANGED <<receipt, bases, files, removing, committed, cli>>
      /\ pc[a] = "reconcile" /\ lock[RequestOf[a]] = Nobody
      /\ \A b \in Attempt : b # a => pc'[b] = pc[b]
  BY GotoSets DEF Reconcile, LockFree
<1>2. CASE HasReceipt(RequestOf[a])
  <2>1. DiscardJournal(a) /\ pc'[a] = "done" /\ lock' = lock
    BY <1>2, GotoSets DEF Reconcile
  <2>2. Locked' /\ NoReceipt'
    BY <1>1, <2>1 DEF Consistent, Locked, NoReceipt, Locking
  <2>3. QED
    BY <1>1, <1>2, <2>1, <2>2, DiscardSafe, CleaningMoves
<1>3. CASE ~HasReceipt(RequestOf[a])
  <2>1. /\ UNCHANGED <<journals, excused>> /\ pc'[a] = "clean"
        /\ lock' = [lock EXCEPT ![RequestOf[a]] = a]
    BY <1>3, GotoSets DEF Reconcile
  <2>2. \A r \in Request : lock'[r] = IF r = RequestOf[a] THEN a ELSE lock[r]
    BY <2>1 DEF TypeOK
  <2>3. cli.at = "clean" => cli.of \in Attempt /\ RequestOf[cli.of] # RequestOf[a]
    BY <1>1 DEF Consistent, Locked, TypeOK, Command, Nobody
  <2>4. Locked'
    <3>1. \A b \in Attempt : b # a /\ pc[b] \in Locking => RequestOf[b] # RequestOf[a]
      BY <1>1 DEF Consistent, Locked
    <3>2. QED
      BY <1>1, <2>1, <2>2, <2>3, <3>1 DEF Consistent, Locked
  <2>5. NoReceipt'
    BY <1>1, <1>3, <2>1 DEF Consistent, NoReceipt, HasReceipt
  <2>6. QED
    BY <1>1, <2>1, <2>4, <2>5, CleaningMoves
       DEF Consistent, FilesMatchBases, OrphansAreJournaled
<1>4. QED
  BY <1>2, <1>3

LEMMA CleanKeeps ==
  ASSUME Consistent, TypeOK', NEW a \in Attempt, Clean(a)
  PROVE  Consistent'
<1> TypeOK
  BY DEF Consistent
<1> USE ImportAssumption
<1>1. /\ UNCHANGED <<receipt, bases, removing, committed, cli>>
      /\ pc[a] = "clean" /\ a \notin bases
  BY CleanHasNoBase DEF Clean
<1>2. CASE a \in journals /\ RemoveFile(a) /\ UNCHANGED <<journals, excused, lock, pc>>
  <2>1. files' \subseteq files /\ \A f \in files \ files' : f[1] = a
    BY <1>2, FilesOwned DEF RemoveFile, First
  <2>2. Locked' /\ NoReceipt'
    BY <1>1, <1>2 DEF Consistent, Locked, NoReceipt
  <2>3. QED
    BY <1>1, <1>2, <2>1, <2>2, CleaningMoves
       DEF Consistent, FilesMatchBases, OrphansAreJournaled
<1>3. CASE /\ Free(a) /\ Goto(a, "done") /\ UNCHANGED files
           /\ \/ DiscardJournal(a) /\ (a \in journals => Emptied(a))
              \/ UNCHANGED <<journals, excused>>
  <2>1. /\ \A f \in files : f[1] \in bases \cup journals' \cup removing \cup excused'
        /\ \A b \in journals : b # a => b \in journals'
    BY <1>3, DiscardSafe DEF Consistent, FilesMatchBases, OrphansAreJournaled
  <2>2. pc'[a] = "done" /\ \A b \in Attempt : b # a => pc'[b] = pc[b]
    BY <1>3, GotoSets
  <2>3. Locked'
    <3>1. \A b \in Attempt : b # a /\ pc[b] \in Locking => lock'[RequestOf[b]] = b
      BY <1>3, FreeKeeps DEF Consistent, Locked
    <3>2. cli.at = "clean" => lock'[RequestOf[cli.of]] = Command
      <4> HAVE cli.at = "clean"
      <4>1. RequestOf[cli.of] \in Request /\ lock[RequestOf[cli.of]] # a
        BY DEF Consistent, Locked, TypeOK
      <4>2. QED
        BY <1>3, <4>1, FreeKeeps DEF Consistent, Locked
    <3>3. QED
      BY <1>1, <2>2, <3>1, <3>2 DEF Locked, Locking
  <2>4. NoReceipt'
    BY <1>1, <2>2 DEF Consistent, NoReceipt, Locking
  <2>5. QED
    BY <1>1, <1>3, <2>1, <2>2, <2>3, <2>4, CleaningMoves
<1>4. QED
  BY <1>2, <1>3 DEF Clean

(* COMMIT that lands: the only base of its request, with all its files. *)
LEMMA CommitKeeps ==
  ASSUME Consistent, TypeOK', NEW a \in Attempt, Commit(a)
  PROVE  Consistent'
<1> TypeOK
  BY DEF Consistent
<1> USE ImportAssumption
<1>1. /\ UNCHANGED <<files, journals, removing, cli, excused>>
      /\ pc[a] = "commit" /\ pc'[a] \in {"done", "discard", "reconcile"}
      /\ \A b \in Attempt : b # a => pc'[b] = pc[b]
      /\ \A r \in Request : lock[r] # a => lock'[r] = lock[r]
  BY GotoSets, FreeKeeps DEF Commit, diskVars
<1>2. /\ lock[RequestOf[a]] = a /\ receipt[RequestOf[a]] = Nobody
      /\ Files(a) \subseteq files /\ a \in journals /\ a \notin committed
  BY <1>1 DEF Consistent, Locked, NoReceipt, AllStored, Journaled, CommittedLate, Locking
<1>3. CASE UNCHANGED <<receipt, bases, committed>> /\ pc'[a] # "discard"
  BY <1>1, <1>2, <1>3, AttemptMoves DEF Locking
<1>4. CASE Lands(a)
  <2>1. /\ \A r \in Request : receipt'[r] = IF r = RequestOf[a] THEN a ELSE receipt[r]
        /\ bases' = bases \cup {a} /\ committed' = committed \cup {a}
    BY <1>4 DEF Lands, TypeOK
  <2>2. \A b \in Attempt : b # a /\ pc[b] \in Locking => RequestOf[b] # RequestOf[a]
    BY <1>2 DEF Consistent, Locked
  <2>3. cli.at = "clean" => cli.of \in Attempt /\ RequestOf[cli.of] # RequestOf[a]
    BY <1>2 DEF Consistent, Locked, TypeOK
  <2>4. Locked'
    BY <1>1, <1>2, <2>2, <2>3 DEF Consistent, Locked, Locking
  <2>5. NoReceipt'
    BY <1>1, <2>1, <2>2, <2>3 DEF Consistent, NoReceipt, Locking
  <2>6. ReceiptIsBase'
    BY <1>2, <2>1 DEF Consistent, ReceiptIsBase, TypeOK
  <2>7. CommittedLate'
    <3>1. a \notin removing
      BY <1>2 DEF Consistent, CommittedLate
    <3>2. bases' \subseteq committed' /\ removing' \subseteq committed' /\ bases' \cap removing' = {}
      BY <1>1, <2>1, <3>1 DEF Consistent, CommittedLate
    <3>3. \A b \in committed' : pc'[b] \in {"discard", "reconcile", "clean", "done"}
      BY <1>1, <2>1 DEF Consistent, CommittedLate, TypeOK
    <3>4. \A b \in Attempt : pc'[b] = "discard" => b \in committed'
      BY <1>1, <2>1 DEF Consistent, CommittedLate
    <3>5. QED
      BY <3>2, <3>3, <3>4 DEF CommittedLate
  <2>8. AllStored' /\ Journaled'
    BY <1>1 DEF Consistent, AllStored, Journaled, Files
  <2>9. Discardable'
    BY <1>1, <2>1 DEF Consistent, Discardable, Emptied, Files
  <2>10. CommittedFilesStay' /\ OrphansAreJournaled'
    BY <1>1, <1>2, <2>1
       DEF Consistent, FilesMatchBases, CommittedFilesStay, OrphansAreJournaled, Files
  <2>11. QED
    BY <2>4, <2>5, <2>6, <2>7, <2>8, <2>9, <2>10 DEF Consistent, FilesMatchBases
<1>5. QED
  BY <1>3, <1>4, GotoSets DEF Commit

LEMMA DiscardKeeps ==
  ASSUME Consistent, TypeOK', NEW a \in Attempt, Discard(a)
  PROVE  Consistent'
<1> TypeOK
  BY DEF Consistent
<1>1. /\ UNCHANGED <<receipt, bases, lock, files, removing, cli, committed, excused>>
      /\ pc[a] = "discard" /\ pc'[a] = "done" /\ journals' \in {journals, journals \ {a}}
      /\ \A b \in Attempt : b # a => pc'[b] = pc[b]
  BY GotoSets DEF Discard, Stay, dbVars
<1>2. Locked' /\ NoReceipt'
  BY <1>1 DEF Consistent, Locked, NoReceipt, Locking
<1>3. \A f \in files : f[1] \in bases \cup journals' \cup removing \cup excused
  <2>1. ASSUME NEW f \in files, f[1] = a
        PROVE  a \in bases \cup removing
    BY <1>1, <2>1, FilesOwned DEF Consistent, Discardable, Emptied
  <2>2. QED
    BY <1>1, <2>1 DEF Consistent, FilesMatchBases, OrphansAreJournaled
<1>4. QED
  BY <1>1, <1>2, <1>3, CleaningMoves

(* base.delete and the removal of the files after it. *)
LEMMA DeletionKeeps ==
  ASSUME Consistent, TypeOK', NEW a \in Attempt, DeleteBase(a) \/ RemoveFiles(a)
  PROVE  Consistent'
<1> TypeOK
  BY DEF Consistent
<1> USE ImportAssumption
<1>1. CASE DeleteBase(a)
  <2>1. /\ UNCHANGED <<lock, files, journals, pc, cli, committed, excused>>
        /\ \A r \in Request : receipt'[r] = IF r = RequestOf[a] THEN Nobody ELSE receipt[r]
        /\ bases' = bases \ {a} /\ removing' = removing \cup {a}
        /\ a \in bases /\ receipt[RequestOf[a]] = a
    BY <1>1 DEF DeleteBase, diskVars, TypeOK, Consistent, ReceiptIsBase
  <2>2. Locked'
    BY <2>1 DEF Consistent, Locked
  <2>3. NoReceipt'
    <3>1. cli.at = "clean" => RequestOf[cli.of] \in Request
      BY DEF TypeOK
    <3>2. QED
      BY <2>1, <3>1 DEF Consistent, NoReceipt
  <2>4. ReceiptIsBase'
    BY <2>1 DEF Consistent, ReceiptIsBase, TypeOK
  <2>5. CommittedLate'
    BY <2>1 DEF Consistent, CommittedLate
  <2>6. AllStored' /\ Journaled' /\ Discardable'
    BY <2>1 DEF Consistent, AllStored, Journaled, Discardable, Emptied, Files
  <2>7. CommittedFilesStay' /\ OrphansAreJournaled'
    BY <2>1 DEF Consistent, FilesMatchBases, CommittedFilesStay, OrphansAreJournaled, Files
  <2>8. QED
    BY <2>2, <2>3, <2>4, <2>5, <2>6, <2>7 DEF Consistent, FilesMatchBases
<1>2. CASE RemoveFiles(a)
  <2>1. /\ UNCHANGED <<receipt, bases, lock, journals, pc, cli, committed, excused>>
        /\ files' = files \ Files(a) /\ removing' = removing \ {a} /\ a \in removing
    BY <1>2 DEF RemoveFiles, dbVars
  <2>2. Locked' /\ NoReceipt' /\ ReceiptIsBase' /\ Journaled'
    BY <2>1 DEF Consistent, Locked, NoReceipt, ReceiptIsBase, Journaled
  <2>3. CommittedLate'
    BY <2>1 DEF Consistent, CommittedLate
  <2>4. \A b \in Attempt \ {a} : Files(b) \cap files' = Files(b) \cap files
    BY <2>1, FilesOwned
  <2>5. a \in committed /\ pc[a] \notin {"insert", "commit"}
    BY <2>1 DEF Consistent, CommittedLate
  <2>6. AllStored'
    <3> SUFFICES ASSUME NEW b \in Attempt, pc[b] \in {"insert", "commit"}
                 PROVE  Files(b) \subseteq files'
      BY <2>1 DEF AllStored, Files
    <3>1. b # a
      BY <2>5
    <3>2. QED
      BY <3>1, <2>4 DEF Consistent, AllStored
  <2>7. Discardable'
    <3>1. files' \cap Files(a) = {}
      BY <2>1
    <3>2. QED
      BY <2>1, <3>1 DEF Consistent, Discardable, Emptied, Files
  <2>8. a \notin bases
    BY <2>1 DEF Consistent, CommittedLate
  <2>9. CommittedFilesStay'
    BY <2>1, <2>4, <2>8 DEF Consistent, FilesMatchBases, CommittedFilesStay, TypeOK, Files
  <2>10. OrphansAreJournaled'
    BY <2>1, FilesOwned DEF Consistent, FilesMatchBases, OrphansAreJournaled
  <2>11. QED
    BY <2>2, <2>3, <2>6, <2>7, <2>9, <2>10 DEF Consistent, FilesMatchBases
<1>3. QED
  BY <1>1, <1>2

LEMMA CommandKeeps ==
  ASSUME Consistent, TypeOK', LockJournal \/ CleanJournal \/ StopCommand
  PROVE  Consistent'
<1> TypeOK
  BY DEF Consistent
<1> USE ImportAssumption DEF Command, Nobody
<1>1. CASE LockJournal
  <2> DEFINE a == cli.of
  <2>1. /\ a \in Attempt /\ lock[RequestOf[a]] = Nobody /\ cli.at = "lock"
        /\ UNCHANGED <<receipt, bases, files, pc, removing, committed>>
    BY <1>1 DEF LockJournal, LockFree, serverVars, TypeOK
  <2>2. pc[a] \notin Locking /\ pc[a] \notin {"put", "insert", "commit"}
    BY <2>1 DEF Consistent, Locked, Locking
  <2> HIDE DEF a
  <2>3. CASE a \in journals /\ ~HasReceipt(RequestOf[a])
    <3>1. /\ \A r \in Request : lock'[r] = IF r = RequestOf[a] THEN Command ELSE lock[r]
          /\ cli'.at = "clean" /\ cli'.of = a /\ UNCHANGED <<journals, excused>>
      BY <1>1, <2>3 DEF LockJournal, TypeOK, a
    <3>2. Locked'
      <4>1. \A b \in Attempt : pc[b] \in Locking => RequestOf[b] # RequestOf[a]
        BY <2>1 DEF Consistent, Locked
      <4>2. QED
        BY <2>1, <3>1, <4>1 DEF Consistent, Locked
    <3>3. NoReceipt'
      BY <2>1, <2>3, <3>1 DEF Consistent, NoReceipt, HasReceipt
    <3>4. \A f \in files : f[1] \in bases \cup journals' \cup removing \cup excused'
      BY <3>1 DEF Consistent, FilesMatchBases, OrphansAreJournaled
    <3>5. QED
      BY <2>1, <2>2, <3>1, <3>2, <3>3, <3>4, CleaningMoves
  <2>4. CASE ~(a \in journals /\ ~HasReceipt(RequestOf[a]))
    <3>1. DiscardJournal(a) /\ cli'.at = "idle" /\ lock' = lock
      BY <1>1, <2>4 DEF LockJournal, Idle, a
    <3>2. Locked' /\ NoReceipt'
      BY <2>1, <3>1 DEF Consistent, Locked, NoReceipt
    <3>3. QED
      BY <2>1, <2>2, <2>4, <3>1, <3>2, DiscardSafe, CleaningMoves
  <2>5. QED
    BY <2>3, <2>4
<1>2. CASE CleanJournal
  <2> DEFINE a == cli.of
  <2>1. /\ a \in Attempt /\ a \notin bases /\ cli.at = "clean"
        /\ pc[a] \notin {"put", "insert", "commit"}
        /\ UNCHANGED <<receipt, bases, pc, removing, committed>>
    BY <1>2, CleanHasNoBase DEF CleanJournal, serverVars, Locking
  <2>2. CASE RemoveFile(a) /\ UNCHANGED <<journals, excused, lock, cli>>
    <3>1. files' \subseteq files /\ \A f \in files \ files' : f[1] = a
      BY <2>1, <2>2, FilesOwned DEF RemoveFile, First
    <3>2. Locked' /\ NoReceipt'
      BY <2>1, <2>2 DEF Consistent, Locked, NoReceipt
    <3>3. \A f \in files : f[1] \in bases \cup journals' \cup removing \cup excused'
      BY <2>2 DEF Consistent, FilesMatchBases, OrphansAreJournaled
    <3> HIDE DEF a
    <3>4. QED
      BY <2>1, <2>2, <3>1, <3>2, <3>3, CleaningMoves
  <2>3. CASE /\ Emptied(a) /\ DiscardJournal(a)
             /\ Free(Command) /\ cli' = Idle /\ UNCHANGED files
    <3>1. Locked' /\ NoReceipt'
      BY <2>1, <2>3, FreeKeeps DEF Consistent, Locked, NoReceipt, Idle
    <3> HIDE DEF a
    <3>2. QED
      BY <2>1, <2>3, <3>1, DiscardSafe, CleaningMoves
  <2>4. QED
    BY <1>2, <2>2, <2>3 DEF CleanJournal
<1>3. CASE StopCommand
  <2>1. /\ UNCHANGED <<receipt, bases, files, journals, pc, removing, committed, excused>>
        /\ cli'.at = "idle" /\ \A r \in Request : lock[r] # Command => lock'[r] = lock[r]
    BY <1>3, FreeKeeps DEF StopCommand, diskVars, serverVars, Idle
  <2>2. Locked' /\ NoReceipt'
    BY <2>1 DEF Consistent, Locked, NoReceipt
  <2>3. ReceiptIsBase' /\ CommittedLate' /\ AllStored' /\ Journaled' /\ Discardable'
    BY <2>1 DEF Consistent, ReceiptIsBase, CommittedLate, AllStored, Journaled, Discardable,
                Emptied, Files
  <2>4. FilesMatchBases'
    BY <2>1 DEF Consistent, FilesMatchBases, CommittedFilesStay, OrphansAreJournaled, Files
  <2>5. QED
    BY <2>2, <2>3, <2>4 DEF Consistent
<1>4. QED
  BY <1>1, <1>2, <1>3

(* The advisory lock lets at most one attempt of a request be at COMMIT. *)
LEMMA CrashKeeps ==
  ASSUME Consistent, TypeOK', Crash
  PROVE  Consistent'
<1> TypeOK
  BY DEF Consistent
<1> USE ImportAssumption DEF Command, Nobody
<1>1. PICK sent \in SUBSET Attempt : CrashLeaves(sent)
  BY CrashEffect
<1>2. \A a \in sent : /\ a \in Attempt /\ pc[a] = "commit" /\ pc[a] \in Locking
                      /\ receipt[RequestOf[a]] = Nobody
                      /\ Files(a) \subseteq files /\ a \notin committed
  BY <1>1 DEF CrashLeaves, Consistent, NoReceipt, AllStored, CommittedLate, Locking
<1>3. \A a, b \in sent : RequestOf[a] = RequestOf[b] => a = b
  BY <1>2 DEF Consistent, Locked
<1>4. \A a \in Attempt : pc'[a] \in {"idle", "done"}
  BY <1>1 DEF CrashLeaves
<1>5. Locked'
  <2>1. cli.at = "clean" => RequestOf[cli.of] \in Request
    BY DEF TypeOK
  <2>2. QED
    BY <1>1, <1>4, <2>1 DEF CrashLeaves, Consistent, Locked, Locking
<1>6. NoReceipt'
  <2>1. cli.at = "clean" => /\ RequestOf[cli.of] \in Request
                           /\ \A a \in sent : RequestOf[a] # RequestOf[cli.of]
    BY <1>2 DEF Consistent, Locked, TypeOK
  <2>2. QED
    BY <1>1, <1>4, <2>1 DEF CrashLeaves, Consistent, NoReceipt, Locking
<1>7. ReceiptIsBase'
  <2>1. \A a \in bases : receipt[RequestOf[a]] = a /\ \A b \in sent : RequestOf[b] # RequestOf[a]
    BY <1>2 DEF Consistent, ReceiptIsBase, TypeOK
  <2>2. \A a \in bases' : receipt'[RequestOf[a]] = a
    <3>1. ASSUME NEW a \in bases
          PROVE  receipt'[RequestOf[a]] = a
      <4>1. RequestOf[a] \in Request
        BY DEF TypeOK
      <4>2. receipt[RequestOf[a]] = a /\ \A b \in sent : RequestOf[b] # RequestOf[a]
        BY <2>1
      <4>3. QED
        BY <1>1, <4>1, <4>2 DEF CrashLeaves
    <3>2. ASSUME NEW a \in sent
          PROVE  receipt'[RequestOf[a]] = a
      <4>1. RequestOf[a] \in Request
        OBVIOUS
      <4>2. receipt'[RequestOf[a]] \in sent /\ RequestOf[receipt'[RequestOf[a]]] = RequestOf[a]
        BY <1>1, <4>1 DEF CrashLeaves
      <4>3. QED
        BY <1>3, <4>2
    <3>3. QED
      BY <1>1, <3>1, <3>2 DEF CrashLeaves
  <2>3. \A r \in Request : receipt'[r] # Nobody => receipt'[r] \in bases' /\ RequestOf[receipt'[r]] = r
    BY <1>1 DEF CrashLeaves, Consistent, ReceiptIsBase
  <2>4. QED
    BY <2>2, <2>3 DEF ReceiptIsBase
<1>8. CommittedLate'
  <2>1. \A a \in committed' : pc'[a] = "done"
    BY <1>1, <1>2 DEF CrashLeaves, Consistent, CommittedLate, TypeOK
  <2>2. QED
    BY <1>1, <1>4, <2>1 DEF CrashLeaves, Consistent, CommittedLate
<1>9. AllStored' /\ Journaled' /\ Discardable'
  BY <1>4 DEF AllStored, Journaled, Discardable
<1>10. CommittedFilesStay' /\ OrphansAreJournaled'
  BY <1>1, <1>2
     DEF CrashLeaves, Consistent, FilesMatchBases, CommittedFilesStay, OrphansAreJournaled, Files
<1>11. QED
  BY <1>5, <1>6, <1>7, <1>8, <1>9, <1>10 DEF Consistent, FilesMatchBases

LEMMA StepConsistent ==
  ASSUME Consistent, [ImportNext]_importVars
  PROVE  Consistent'
<1> TypeOK /\ TypeOK'
  BY StepTyped DEF Consistent
<1>1. ASSUME NEW a \in Attempt, AttemptStep(a)
      PROVE  Consistent'
  <2>1. CASE Open(a)
    <3>1. /\ UNCHANGED <<receipt, bases, lock, files, journals, pc, removing, committed, excused>>
          /\ cli'.at = "lock"
      BY <2>1 DEF Open, dbVars, diskVars, serverVars
    <3>2. QED
      BY <3>1 DEF Consistent, Locked, NoReceipt, ReceiptIsBase, CommittedLate, AllStored,
                  Journaled, Discardable, Emptied, FilesMatchBases, CommittedFilesStay,
                  OrphansAreJournaled, Files
  <2>2. QED
    BY <1>1, <2>1, QuietSteps, CommitKeeps, ReconcileKeeps, CleanKeeps, DiscardKeeps,
       DeletionKeeps DEF AttemptStep
<1>2. CASE UNCHANGED importVars \/ \E r \in Request : Cancel(r) \/ CancelAnswer(r)
  <2>1. UNCHANGED <<receipt, bases, lock, files, journals, pc, removing, cli, committed, excused>>
    BY <1>2 DEF importVars, Cancel, CancelAnswer, dbVars, diskVars, serverVars
  <2>2. QED
    BY <2>1 DEF Consistent, Locked, NoReceipt, ReceiptIsBase, CommittedLate, AllStored,
                Journaled, Discardable, Emptied, FilesMatchBases, CommittedFilesStay,
                OrphansAreJournaled, Files
<1>3. QED
  BY <1>1, <1>2, CommandKeeps, CrashKeeps DEF ImportNext

LEMMA InitConsistent ==
  ASSUME ImportInit
  PROVE  Consistent
<1>1. TypeOK
  BY InitTyped
<1>2. Locked /\ NoReceipt /\ ReceiptIsBase /\ CommittedLate
  BY DEF ImportInit, Locked, NoReceipt, ReceiptIsBase, CommittedLate, Locking, Idle
<1>3. AllStored /\ Journaled /\ Discardable /\ FilesMatchBases
  BY DEF ImportInit, AllStored, Journaled, Discardable, FilesMatchBases, CommittedFilesStay,
         OrphansAreJournaled
<1>4. QED
  BY <1>1, <1>2, <1>3 DEF Consistent

-----------------------------------------------------------------------------
(***************************************************************************)
(* Answers.                                                                *)
(***************************************************************************)
LEMMA AnswerSets ==
  ASSUME TypeOK, NEW a \in Attempt, NEW what, Answer(a, what)
  PROVE  /\ answer'[a] = what /\ \A b \in Attempt : b # a => answer'[b] = answer[b]
         /\ slot' = IF slot = a THEN Nobody ELSE slot
  BY DEF Answer, TypeOK

Reported(r) == \E b \in committed : RequestOf[b] = r

LEMMA ReceiptReported ==
  ASSUME Consistent, NEW r \in Request, HasReceipt(r)
  PROVE  Reported(r)
  BY DEF Consistent, ReceiptIsBase, CommittedLate, HasReceipt, Reported

(* What a step of attempt a may do to its answer: leave it, claim the slot  *)
(* for it, or give it.                                                     *)
Keeps(a) ==
  /\ slot' = slot /\ answer'[a] = answer[a] /\ expired'[a] = expired[a]
  /\ pc'[a] \in Early <=> pc[a] \in Early
  /\ pc'[a] = "prepare" => pc[a] = "prepare"
  /\ pc'[a] = "discard" => ~expired[a]

Claims(a) ==
  /\ pc[a] \in Early /\ slot' = a /\ pc'[a] = "prepare" /\ slot = Nobody
  /\ answer'[a] = answer[a] /\ expired'[a] = expired[a]

Answers(a) ==
  /\ answer[a] = "none" /\ answer'[a] \in {"report", "failed", "recovery"}
  /\ slot' = IF slot = a THEN Nobody ELSE slot
  /\ \/ pc'[a] = "done"
     \/ /\ answer'[a] = "recovery" /\ expired'[a]
        /\ pc'[a] \notin Early \cup {"prepare", "discard"}
  /\ answer'[a] = "report" => Reported(RequestOf[a])'
  /\ answer'[a] = "failed" => a \notin bases'

LEMMA AnswerMoves ==
  ASSUME Truthful, Consistent', NEW a \in Attempt,
         \A b \in Attempt : b # a =>
            pc'[b] = pc[b] /\ answer'[b] = answer[b] /\ expired'[b] = expired[b],
         UNCHANGED cancel, committed \subseteq committed', bases' \subseteq bases \cup {a},
         bases' \subseteq bases \/ pc[a] = "commit",
         pc[a] = "done" => pc'[a] = "done",
         Keeps(a) \/ Claims(a) \/ Answers(a)
  PROVE  Truthful'
<1> USE ImportAssumption
<1> TypeOK /\ TypeOK'
  BY DEF Truthful, Consistent
<1>1. SlotTaken'
  BY DEF Truthful, SlotTaken, AnsweredOnce, Keeps, Claims, Answers, Early
<1>2. AnsweredOnce'
  BY DEF Truthful, AnsweredOnce, Keeps, Claims, Answers, Early
<1>3. \A b \in Attempt : answer[b] = "recovery" => answer'[b] = "recovery"
  BY DEF Keeps, Claims, Answers
<1>4. \A b \in Attempt : pc[b] = "done" /\ b \notin bases => pc'[b] = "done" /\ b \notin bases'
  OBVIOUS
<1>5. \A b \in Attempt : pc[b] \notin Early => pc'[b] \notin Early
  BY DEF Keeps, Claims, Answers, Early
<1>6. CancelsOwn'
  BY <1>3, <1>4, <1>5 DEF Truthful, CancelsOwn
<1>7. ASSUME NEW b \in Attempt
      PROVE  /\ answer'[b] = "report" => Reported(RequestOf[b])'
             /\ answer'[b] = "failed" => b \notin bases'
  <2>1. CASE b = a /\ Answers(a)
    BY <2>1 DEF Answers
  <2>2. CASE answer'[b] = answer[b]
    <3>1. answer[b] = "report" => Reported(RequestOf[b])'
      BY DEF Truthful, AnswersStayTrue, Reported
    <3>2. answer[b] = "failed" => pc[b] = "done" /\ b \notin bases
      BY DEF Truthful, AnswersStayTrue, AnsweredOnce
    <3>3. QED
      BY <2>2, <3>1, <3>2, <1>4
  <2>3. QED
    BY <2>1, <2>2 DEF Keeps, Claims
<1>8. AnswersStayTrue'
  BY <1>6, <1>7 DEF AnswersStayTrue, CancelsOwn, Reported
<1>9. QED
  BY <1>1, <1>2, <1>6, <1>8 DEF Truthful

(* Whoever is not done and has not run out of time has no answer yet. *)
LEMMA Unanswered ==
  ASSUME Truthful, NEW a \in Attempt,
         pc[a] \in Early \cup {"prepare", "discard"} \/ (pc[a] # "done" /\ ~expired[a])
  PROVE  answer[a] = "none"
  BY DEF Truthful, AnsweredOnce, Early

(* Before COMMIT, and in a clean-up, an attempt has no base. *)
LEMMA Baseless ==
  ASSUME Consistent, NEW a \in Attempt, pc[a] \in Early \cup {"prepare", "clean"}
  PROVE  a \notin bases
<1> USE ImportAssumption
<1>1. a \in bases => receipt[RequestOf[a]] = a /\ a \in committed
  BY DEF Consistent, ReceiptIsBase, CommittedLate
<1>2. a \in bases => pc[a] = "clean"
  BY <1>1 DEF Consistent, CommittedLate, Early
<1>3. pc[a] = "clean" => receipt[RequestOf[a]] = Nobody
  BY DEF Consistent, NoReceipt, Locking
<1>4. QED
  BY <1>1, <1>2, <1>3

LEMMA AttemptAnswers ==
  ASSUME Truthful, Consistent', NEW a \in Attempt,
         \/ Start(a) \/ Claim(a) \/ Prepare(a) \/ LockRequest(a) \/ LookUp(a)
         \/ CreateJournal(a) \/ PutFile(a) \/ InsertRows(a) \/ Commit(a) \/ RollBack(a)
         \/ Expire(a) \/ StopLate(a) \/ Reconcile(a) \/ Clean(a) \/ Discard(a)
  PROVE  Truthful'
<1> USE ImportAssumption
<1> TypeOK /\ Consistent
  BY DEF Truthful, Consistent
<1>0. /\ \A b \in Attempt : b # a => pc'[b] = pc[b]
      /\ UNCHANGED cancel /\ pc[a] # "done"
  BY GotoSets DEF Start, Claim, Prepare, LockRequest, LookUp, CreateJournal, PutFile, InsertRows,
     Commit, RollBack, Expire, StopLate, Reconcile, Clean, Discard, Stay
<1>1. CASE Start(a)
  <2>1. answer[a] = "none"
    BY <1>1, Unanswered DEF Start, Early
  <2>2. /\ UNCHANGED <<expired, bases, committed>>
        /\ \A b \in Attempt : b # a => answer'[b] = answer[b]
    BY <1>1, AnswerSets DEF Start, Stay, dbVars
  <2>3. CASE HasReceipt(RequestOf[a])
    <3>1. Answers(a)
      BY <1>1, <2>1, <2>2, <2>3, AnswerSets, GotoSets, ReceiptReported DEF Start, Answers, Reported
    <3>2. QED
      BY <1>0, <2>2, <3>1, AnswerMoves
  <2>4. CASE ~HasReceipt(RequestOf[a])
    <3>1. Keeps(a)
      BY <1>1, <2>2, <2>4, GotoSets DEF Start, Keeps, Early
    <3>2. QED
      BY <1>0, <2>2, <3>1, AnswerMoves
  <2>5. QED
    BY <2>3, <2>4
<1>2. CASE Claim(a) \/ Prepare(a)
  <2>1. answer[a] = "none" /\ a \notin bases
    BY <1>2, Unanswered, Baseless DEF Claim, Prepare, Early
  <2>2. /\ UNCHANGED <<expired, bases, committed>>
        /\ \A b \in Attempt : b # a => answer'[b] = answer[b]
    BY <1>2, AnswerSets DEF Claim, Prepare, Stay, dbVars
  <2>3. Keeps(a) \/ Claims(a) \/ Answers(a)
    <3>1. CASE Claim(a)
      BY <3>1, <2>1, <2>2, AnswerSets, GotoSets DEF Claim, Keeps, Claims, Answers, Early
    <3>2. CASE Prepare(a)
      BY <3>2, <2>1, <2>2, AnswerSets, GotoSets DEF Prepare, Keeps, Answers, Early
    <3>3. QED
      BY <1>2, <3>1, <3>2
  <2>4. QED
    BY <1>0, <2>2, <2>3, AnswerMoves
<1>3. CASE LookUp(a)
  <2>1. answer[a] = "none"
    BY <1>3, Unanswered DEF LookUp, MayGoOn
  <2>2. /\ UNCHANGED <<expired, bases, committed>>
        /\ \A b \in Attempt : b # a => answer'[b] = answer[b]
    BY <1>3, AnswerSets DEF LookUp, Stay
  <2>3. CASE HasReceipt(RequestOf[a])
    <3>1. Answers(a)
      BY <1>3, <2>1, <2>2, <2>3, AnswerSets, GotoSets, ReceiptReported DEF LookUp, Answers, Reported
    <3>2. QED
      BY <1>0, <2>2, <3>1, AnswerMoves
  <2>4. CASE ~HasReceipt(RequestOf[a])
    <3>1. Keeps(a)
      BY <1>3, <2>2, <2>4, GotoSets DEF LookUp, Keeps, Early
    <3>2. QED
      BY <1>0, <2>2, <3>1, AnswerMoves
  <2>5. QED
    BY <2>3, <2>4
<1>4. CASE \/ LockRequest(a) \/ CreateJournal(a) \/ PutFile(a) \/ InsertRows(a)
           \/ RollBack(a) \/ StopLate(a)
  <2>1. UNCHANGED <<slot, answer, expired, bases, committed>>
    BY <1>4 DEF LockRequest, CreateJournal, PutFile, InsertRows, RollBack, StopLate, Stay, dbVars
  <2>2. Keeps(a)
    <3>1. StopLate(a) => answer[a] # "none"
      BY DEF StopLate, Truthful, AnsweredOnce
    <3>2. StopLate(a) => pc[a] \notin Early
      BY <3>1 DEF Truthful, AnsweredOnce
    <3>3. QED
      BY <1>4, <2>1, <3>2, GotoSets
         DEF LockRequest, CreateJournal, PutFile, InsertRows, RollBack, StopLate, Keeps, Early
  <2>3. QED
    BY <1>0, <2>1, <2>2, AnswerMoves
<1>5. CASE Commit(a)
  <2>1. UNCHANGED <<slot, answer, expired>> /\ pc[a] = "commit"
        /\ bases' \subseteq bases \cup {a} /\ committed \subseteq committed'
    BY <1>5 DEF Commit, Lands
  <2>2. Keeps(a)
    BY <1>5, <2>1, GotoSets DEF Commit, Keeps, Early
  <2>3. QED
    BY <1>0, <2>1, <2>2, AnswerMoves
<1>6. CASE Expire(a)
  <2>1. /\ answer[a] = "none" /\ UNCHANGED <<bases, committed>>
        /\ \A b \in Attempt : b # a => answer'[b] = answer[b] /\ expired'[b] = expired[b]
        /\ expired'[a]
    BY <1>6, AnswerSets DEF Expire, dbVars, TypeOK
  <2>2. Answers(a)
    <3>1. CASE pc[a] \in {"claim", "claimNow", "waiting", "prepare"} /\ Answer(a, "failed") /\ Goto(a, "done")
      <4>1. a \notin bases
        BY <3>1, Baseless DEF Early
      <4>2. QED
        BY <2>1, <3>1, <4>1, AnswerSets, GotoSets DEF Answers
    <3>2. CASE pc[a] = "discard" /\ Answer(a, "report") /\ Goto(a, "done")
      <4>1. a \in committed
        BY <3>2 DEF Consistent, CommittedLate
      <4>2. QED
        BY <2>1, <3>2, <4>1, AnswerSets, GotoSets DEF Answers, Reported
    <3>3. CASE /\ pc[a] \in {"lock", "lookup", "journal", "put", "insert", "commit",
                             "reconcile", "clean"}
               /\ Answer(a, "recovery") /\ UNCHANGED pc
      BY <2>1, <3>3, AnswerSets DEF Answers, Early
    <3>4. QED
      BY <1>6, <3>1, <3>2, <3>3 DEF Expire
  <2>3. pc[a] = "done" => pc'[a] = "done"
    BY <1>0
  <2>4. QED
    BY <1>0, <2>1, <2>2, AnswerMoves
<1>7. CASE Reconcile(a)
  <2>1. /\ answer[a] = "none" /\ UNCHANGED <<expired, bases, committed>>
        /\ \A b \in Attempt : b # a => answer'[b] = answer[b]
    BY <1>7, Unanswered, AnswerSets DEF Reconcile
  <2>2. CASE HasReceipt(RequestOf[a])
    <3>1. Answers(a)
      BY <1>7, <2>1, <2>2, AnswerSets, GotoSets, ReceiptReported DEF Reconcile, Answers, Reported
    <3>2. QED
      BY <1>0, <2>1, <3>1, AnswerMoves
  <2>3. CASE ~HasReceipt(RequestOf[a])
    <3>1. Keeps(a)
      BY <1>7, <2>1, <2>3, GotoSets DEF Reconcile, Keeps, Early
    <3>2. QED
      BY <1>0, <2>1, <3>1, AnswerMoves
  <2>4. QED
    BY <2>2, <2>3
<1>8. CASE Clean(a)
  <2>1. /\ answer[a] = "none" /\ a \notin bases /\ UNCHANGED <<expired, bases, committed>>
        /\ \A b \in Attempt : b # a => answer'[b] = answer[b]
    BY <1>8, Unanswered, Baseless, AnswerSets DEF Clean
  <2>2. Keeps(a) \/ Answers(a)
    BY <1>8, <2>1, AnswerSets, GotoSets DEF Clean, Keeps, Answers, Early
  <2>3. QED
    BY <1>0, <2>1, <2>2, AnswerMoves
<1>9. CASE Discard(a)
  <2>1. /\ answer[a] = "none" /\ UNCHANGED <<expired, bases, committed>>
        /\ \A b \in Attempt : b # a => answer'[b] = answer[b]
    BY <1>9, Unanswered, AnswerSets DEF Discard, Stay, dbVars
  <2>2. a \in committed
    BY <1>9 DEF Discard, Consistent, CommittedLate
  <2>3. Answers(a)
    BY <1>9, <2>1, <2>2, AnswerSets, GotoSets DEF Discard, Answers, Reported
  <2>4. QED
    BY <1>0, <2>1, <2>3, AnswerMoves
<1>10. QED
  BY <1>1, <1>2, <1>3, <1>4, <1>5, <1>6, <1>7, <1>8, <1>9

(* base.delete, recovery: what was answered is left alone, bases only go.   *)
LEMMA RestAnswers ==
  ASSUME Truthful, Consistent',
         UNCHANGED <<slot, pc, expired, answer, cancel, committed>>, bases' \subseteq bases
  PROVE  Truthful'
<1>1. SlotTaken' /\ AnsweredOnce'
  BY DEF Truthful, SlotTaken, AnsweredOnce
<1>2. CancelsOwn'
  BY DEF Truthful, CancelsOwn
<1>3. AnswersStayTrue'
  BY DEF Truthful, AnswersStayTrue
<1>4. QED
  BY <1>1, <1>2, <1>3 DEF Truthful

(* cancelImport says "cancelled" once its attempt has left the slot, which  *)
(* it does with its answer, and while the request has no receipt.          *)
LEMMA CancelAnswers ==
  ASSUME Truthful, Consistent', NEW r \in Request, Cancel(r) \/ CancelAnswer(r)
  PROVE  Truthful'
<1> USE ImportAssumption
<1> TypeOK /\ Consistent
  BY DEF Truthful, Consistent
<1>1. UNCHANGED <<slot, pc, expired, answer, committed, bases>>
  BY DEF Cancel, CancelAnswer, dbVars
<1>2. SlotTaken' /\ AnsweredOnce'
  BY <1>1 DEF Truthful, SlotTaken, AnsweredOnce
<1>3. \A q \in Request \ {r} : cancel'[q] = cancel[q]
  BY DEF Cancel, CancelAnswer, TypeOK
<1>4. CASE Cancel(r)
  <2>1. slot \in Attempt /\ RequestOf[slot] = r
    BY <1>4 DEF Cancel, Active
  <2>2. pc[slot] \notin Early
    BY <2>1 DEF Truthful, SlotTaken
  <2>3. cancel'[r] = [at |-> "waiting", of |-> slot]
    BY <1>4 DEF Cancel, TypeOK
  <2>4. CancelsOwn'
    BY <1>1, <1>3, <2>1, <2>2, <2>3 DEF Truthful, CancelsOwn
  <2>5. AnswersStayTrue'
    BY <1>1, <1>3, <2>3 DEF Truthful, AnswersStayTrue
  <2>6. QED
    BY <1>2, <2>4, <2>5 DEF Truthful
<1>5. CASE CancelAnswer(r)
  <2> DEFINE a == cancel[r].of
  <2>1. /\ a \in Attempt /\ RequestOf[a] = r /\ pc[a] \notin Early /\ slot # a
    BY <1>5 DEF CancelAnswer, Settled, Truthful, CancelsOwn
  <2>2. pc[a] = "done" \/ answer[a] = "recovery"
    BY <2>1 DEF Truthful, SlotTaken, AnsweredOnce
  <2>3. ~HasReceipt(r) => a \notin bases
    BY <2>1 DEF Consistent, ReceiptIsBase, HasReceipt, TypeOK
  <2>4. /\ cancel'[r].of = a /\ cancel'[r].at \in {"idle", "cancelled"}
        /\ cancel'[r].at = "cancelled" => ~HasReceipt(r)
    BY <1>5 DEF CancelAnswer, TypeOK
  <2> HIDE DEF a
  <2>5. CancelsOwn'
    BY <1>1, <1>3, <2>1, <2>2, <2>3, <2>4 DEF Truthful, CancelsOwn
  <2>6. AnswersStayTrue'
    BY <1>1, <1>3, <2>3, <2>4 DEF Truthful, AnswersStayTrue
  <2>7. QED
    BY <1>2, <2>5, <2>6 DEF Truthful
<1>6. QED
  BY <1>4, <1>5

(* A crash takes the answers nobody got, and gives bases only to attempts   *)
(* that had none of their own to give.                                     *)
LEMMA CrashAnswers ==
  ASSUME Truthful, Consistent', Crash
  PROVE  Truthful'
<1> USE ImportAssumption
<1> TypeOK /\ TypeOK' /\ Consistent
  BY DEF Truthful, Consistent
<1>1. PICK sent \in SUBSET Attempt : CrashLeaves(sent)
  BY CrashEffect
<1>2. \A a \in Attempt :
        /\ pc'[a] = IF pc[a] = "idle" THEN "idle" ELSE "done"
        /\ answer'[a] = IF pc[a] # "idle" /\ answer[a] = "none" THEN "lost" ELSE answer[a]
        /\ expired'[a] = expired[a]
  BY <1>1 DEF CrashLeaves
<1>3. /\ slot' = Nobody /\ bases' = bases \cup sent /\ committed \subseteq committed'
      /\ \A a \in sent : pc[a] = "commit"
  BY <1>1 DEF CrashLeaves
<1>4. SlotTaken'
  BY <1>2, <1>3 DEF SlotTaken, Early
<1>5. AnsweredOnce'
  BY <1>2 DEF Truthful, AnsweredOnce, Early
<1>6. \A r \in Request : cancel'[r] = IF cancel[r].at = "waiting" THEN Idle ELSE cancel[r]
  BY <1>1 DEF CrashLeaves
<1>7. CancelsOwn'
  BY <1>2, <1>3, <1>6 DEF Truthful, CancelsOwn, Idle, Early
<1>8. AnswersStayTrue'
  <2>1. \A a \in Attempt : /\ answer'[a] = "report" => answer[a] = "report"
                           /\ answer'[a] = "failed" => answer[a] = "failed" /\ pc[a] = "done"
    BY <1>2 DEF Truthful, AnsweredOnce
  <2>2. \A a \in Attempt : /\ answer'[a] = "report" => \E b \in committed' : RequestOf[b] = RequestOf[a]
                           /\ answer'[a] = "failed" => a \notin bases'
    BY <1>3, <2>1 DEF Truthful, AnswersStayTrue
  <2>3. QED
    BY <1>7, <2>2 DEF AnswersStayTrue, CancelsOwn
<1>9. QED
  BY <1>4, <1>5, <1>7, <1>8 DEF Truthful

LEMMA StepTruthful ==
  ASSUME Truthful, [ImportNext]_importVars
  PROVE  Truthful'
<1>1. Consistent'
  BY StepConsistent DEF Truthful
<1>2. ASSUME NEW a \in Attempt, AttemptStep(a)
      PROVE  Truthful'
  <2>1. CASE Open(a) \/ DeleteBase(a) \/ RemoveFiles(a)
    <3>1. UNCHANGED <<slot, pc, expired, answer, cancel, committed>> /\ bases' \subseteq bases
      BY <2>1 DEF Open, DeleteBase, RemoveFiles, dbVars, serverVars
    <3>2. QED
      BY <1>1, <3>1, RestAnswers
  <2>2. QED
    BY <1>1, <1>2, <2>1, AttemptAnswers DEF AttemptStep
<1>3. CASE LockJournal \/ CleanJournal \/ StopCommand \/ UNCHANGED importVars
  <2>1. UNCHANGED <<slot, pc, expired, answer, cancel, committed, bases>>
    BY <1>3 DEF LockJournal, CleanJournal, StopCommand, importVars, dbVars, serverVars
  <2>2. QED
    BY <1>1, <2>1, RestAnswers
<1>4. QED
  BY <1>1, <1>2, <1>3, CancelAnswers, CrashAnswers DEF ImportNext

LEMMA InitTruthful ==
  ASSUME ImportInit
  PROVE  Truthful
<1>1. SlotTaken /\ AnsweredOnce /\ CancelsOwn /\ AnswersStayTrue
  BY ImportAssumption
     DEF ImportInit, SlotTaken, AnsweredOnce, CancelsOwn, AnswersStayTrue, Early, Idle
<1>2. QED
  BY <1>1, InitConsistent DEF Truthful

-----------------------------------------------------------------------------
(* Every variable keeps its type. *)
THEOREM TypeCorrect == ImportSpec => []TypeOK
  BY InitTyped, StepTyped, PTL DEF ImportSpec

(* No clean-up takes a file of a base that exists, and every stored file    *)
(* without one is named by a journal or accounted for: at every moment, so  *)
(* after every crash (importer.ts:306-340, journal.ts:44).                 *)
THEOREM FilesAndBasesAgree == ImportSpec => []FilesMatchBases
<1>1. Consistent => FilesMatchBases
  BY DEF Consistent
<1>2. QED
  BY <1>1, InitConsistent, StepConsistent, PTL DEF ImportSpec

(* What startImport and cancelImport answered stays true, whatever other    *)
(* attempts, deadlines and crashes do afterwards (service.ts:142-154,      *)
(* importer.ts:306-311).                                                   *)
THEOREM AnswersAreKept == ImportSpec => []AnswersStayTrue
<1>1. Truthful => AnswersStayTrue
  BY DEF Truthful
<1>2. QED
  BY <1>1, InitTruthful, StepTruthful, PTL DEF ImportSpec

-----------------------------------------------------------------------------
(***************************************************************************)
(* AirtableSource.  Of each table the import keeps the pages it read, in    *)
(* order; it reads one table at a time, and only for the plan that was      *)
(* shown.                                                                  *)
(***************************************************************************)
Plans == [SrcTable -> SUBSET SrcField]

SourceTyped ==
  /\ schemaNow \in Plans /\ rowsNow \in [SrcTable -> Seq(SrcRow)]
  /\ edits \in Nat /\ editsAtStart \in 0..edits /\ consent \in BOOLEAN
  /\ at \in {"idle", "schema", "records", "links", "attachments", "prepared", "failed"}
  /\ shown \in {NoPlan} \cup Plans /\ plan \in {NoPlan} \cup Plans
  /\ todo \in SUBSET SrcTable /\ offset \in Nat /\ offsets \in SUBSET Nat
  /\ taken \in [SrcTable -> Seq(SrcRow)]
  /\ retries \in [rate : Nat, server : Nat]

NothingRead ==
  at \in {"idle", "schema"} => \A t \in SrcTable : taken[t] = <<>>

(* Past the second look at the schema. *)
Ahead == at \in {"records", "links", "attachments", "prepared"}

PlanAccepted == plan = shown /\ plan \in Plans /\ (Issues(plan) # {} => consent)

OneAtATime ==
  /\ at # "records" => todo = {}
  /\ \A t \in todo : taken[t] = <<>> \/ Len(taken[t]) = offset
  /\ \A t, u \in todo : t # u => taken[t] = <<>> \/ taken[u] = <<>>

NoRecordTwice ==
  \A t, u \in SrcTable : \A j \in DOMAIN taken[t], k \in DOMAIN taken[u] :
    taken[t][j].id = taken[u][k].id => t = u /\ j = k

OfThePlan ==
  \A t \in SrcTable : \A k \in DOMAIN taken[t] : taken[t][k].fields \subseteq Mapped(plan, t)

ReadSoFar(t) == SubSeq(rowsNow[t], 1, Len(taken[t]))

AsItStands ==
  edits = editsAtStart =>
    \A t \in SrcTable :
      /\ t \notin todo => taken[t] = Kept(t, rowsNow[t])
      /\ t \in todo => Len(taken[t]) <= Len(rowsNow[t]) /\ taken[t] = Kept(t, ReadSoFar(t))

SourceInv ==
  /\ SourceTyped /\ NothingRead
  /\ Ahead => /\ PlanAccepted /\ OneAtATime /\ NoRecordTwice /\ OfThePlan /\ AsItStands
              /\ at \in {"attachments", "prepared"} => LinksResolve

(* What is kept of records are records, with the values of mapped fields.   *)
LEMMA KeptIs ==
  ASSUME NEW t, NEW rows \in Seq(SrcRow)
  PROVE  /\ Kept(t, rows) \in Seq(SrcRow) /\ Len(Kept(t, rows)) = Len(rows)
         /\ \A k \in 1..Len(rows) : /\ Kept(t, rows)[k].id = rows[k].id
                                    /\ Kept(t, rows)[k].fields \subseteq Mapped(plan, t)
<1> DEFINE F == Mapped(plan, t)
<1>1. \A r \in SrcRow : /\ [r EXCEPT !.fields = @ \cap F] \in SrcRow
                        /\ [r EXCEPT !.fields = @ \cap F].id = r.id
                        /\ [r EXCEPT !.fields = @ \cap F].fields \subseteq F
  BY DEF SrcRow
<1>2. DOMAIN rows = 1..Len(rows) /\ Len(rows) \in Nat /\ \A k \in 1..Len(rows) : rows[k] \in SrcRow
  BY LenProperties, ElementOfSeq
<1>3. Kept(t, rows) = [k \in 1..Len(rows) |-> [rows[k] EXCEPT !.fields = @ \cap F]]
  BY <1>2 DEF Kept
<1> HIDE DEF F
<1>4. \A k \in 1..Len(rows) : [rows[k] EXCEPT !.fields = @ \cap F] \in SrcRow
  BY <1>1, <1>2
<1>5. Kept(t, rows) \in [1..Len(rows) -> SrcRow]
  BY <1>3, <1>4
<1>6. Kept(t, rows) \in Seq(SrcRow) /\ Len(Kept(t, rows)) = Len(rows)
  <2>1. Kept(t, rows) \in Seq(SrcRow)
    BY <1>2, <1>5, SeqDef
  <2>2. QED
    BY <1>2, <1>3, <2>1, LenProperties
<1>7. QED
  BY <1>1, <1>2, <1>3, <1>6 DEF F

LEMMA KeptRow ==
  ASSUME NEW t, NEW rows \in Seq(SrcRow), NEW k \in 1..Len(rows)
  PROVE  Kept(t, rows)[k] = [rows[k] EXCEPT !.fields = @ \cap Mapped(plan, t)]
BY LenProperties DEF Kept

LEMMA KeptJoins ==
  ASSUME NEW t, NEW a \in Seq(SrcRow), NEW b \in Seq(SrcRow)
  PROVE  Kept(t, a \o b) = Kept(t, a) \o Kept(t, b)
<1>1. a \o b \in Seq(SrcRow) /\ Len(a \o b) = Len(a) + Len(b) /\ Len(a) \in Nat /\ Len(b) \in Nat
  BY ConcatProperties, LenProperties
<1>2. /\ Kept(t, a \o b) \in Seq(SrcRow) /\ Kept(t, a) \in Seq(SrcRow) /\ Kept(t, b) \in Seq(SrcRow)
      /\ Len(Kept(t, a \o b)) = Len(a) + Len(b)
      /\ Len(Kept(t, a)) = Len(a) /\ Len(Kept(t, b)) = Len(b)
  BY <1>1, KeptIs
<1>3. Kept(t, a) \o Kept(t, b) \in Seq(SrcRow) /\ Len(Kept(t, a) \o Kept(t, b)) = Len(a) + Len(b)
  <2> DEFINE p == Kept(t, a)
             q == Kept(t, b)
  <2>1. p \in Seq(SrcRow) /\ q \in Seq(SrcRow) /\ Len(p) = Len(a) /\ Len(q) = Len(b)
    BY <1>2
  <2> HIDE DEF p, q
  <2>2. p \o q \in Seq(SrcRow) /\ Len(p \o q) = Len(p) + Len(q)
    BY <2>1, ConcatProperties
  <2>3. QED
    BY <2>1, <2>2 DEF p, q
<1>4. ASSUME NEW k \in 1..(Len(a) + Len(b))
      PROVE  Kept(t, a \o b)[k] = (Kept(t, a) \o Kept(t, b))[k]
  <2>1. (Kept(t, a) \o Kept(t, b))[k] = IF k <= Len(a) THEN Kept(t, a)[k] ELSE Kept(t, b)[k - Len(a)]
    BY <1>2, ConcatProperties
  <2>2. (a \o b)[k] = IF k <= Len(a) THEN a[k] ELSE b[k - Len(a)]
    BY ConcatProperties
  <2>3. Kept(t, a \o b)[k] = [(a \o b)[k] EXCEPT !.fields = @ \cap Mapped(plan, t)]
    <3> DEFINE c == a \o b
    <3>1. c \in Seq(SrcRow) /\ k \in 1..Len(c)
      BY <1>1
    <3> HIDE DEF c
    <3>2. Kept(t, c)[k] = [c[k] EXCEPT !.fields = @ \cap Mapped(plan, t)]
      BY <3>1, KeptRow
    <3>3. QED
      BY <3>2 DEF c
  <2>4. CASE k <= Len(a)
    <3>1. Kept(t, a)[k] = [a[k] EXCEPT !.fields = @ \cap Mapped(plan, t)]
      BY <1>1, <2>4, KeptRow
    <3>2. QED
      BY <2>1, <2>2, <2>3, <2>4, <3>1
  <2>5. CASE ~(k <= Len(a))
    <3>1. k - Len(a) \in 1..Len(b)
      BY <1>1, <2>5
    <3>2. Kept(t, b)[k - Len(a)] = [b[k - Len(a)] EXCEPT !.fields = @ \cap Mapped(plan, t)]
      BY <3>1, KeptRow
    <3>3. QED
      BY <2>1, <2>2, <2>3, <2>5, <3>2
  <2>6. QED
    BY <2>4, <2>5
<1>5. QED
  BY <1>2, <1>3, <1>4, SeqEqual

(* As many ids as records: no two have the same. *)
LEMMA IdsApart ==
  ASSUME NEW rows \in Seq(SrcRow), Cardinality(IdsIn(rows)) = Len(rows)
  PROVE  \A j, k \in 1..Len(rows) : rows[j].id = rows[k].id => j = k
<1>1. Len(rows) \in Nat /\ DOMAIN rows = 1..Len(rows)
  BY LenProperties
<1> DEFINE f == [k \in 1..Len(rows) |-> rows[k].id]
<1>2. f \in Surjection(1..Len(rows), IdsIn(rows))
  BY <1>1 DEF Surjection, IdsIn
<1>3. IsFiniteSet(1..Len(rows)) /\ Cardinality(1..Len(rows)) = Len(rows)
  <2> DEFINE n == Len(rows)
  <2>1. n \in Nat
    BY <1>1
  <2> HIDE DEF n
  <2>2. \A a, b \in Int : IsFiniteSet(a..b) /\ Cardinality(a..b) = IF a > b THEN 0 ELSE b - a + 1
    BY FS_Interval
  <2>3. IsFiniteSet(1..n) /\ Cardinality(1..n) = n
    <3>1. 1 \in Int /\ n \in Int
      BY <2>1
    <3>2. IsFiniteSet(1..n) /\ Cardinality(1..n) = IF 1 > n THEN 0 ELSE n - 1 + 1
      BY <2>2, <3>1, Zenon
    <3>3. QED
      BY <2>1, <3>2
  <2>4. QED
    BY <2>3 DEF n
<1>4. f \in Injection(1..Len(rows), IdsIn(rows))
  <2> HIDE DEF f
  <2>1. QED
    BY <1>2, <1>3, FS_Surjection
<1>5. QED
  BY <1>4 DEF Injection, IsInjective

LEMMA SourceStarts == SourceInit => SourceInv
<1>1. SourceInit => SourceTyped
  <2>1. \A S : <<>> \in Seq(S)
    BY EmptySeq
  <2> SUFFICES ASSUME SourceInit PROVE SourceTyped
    OBVIOUS
  <2>2. schemaNow \in Plans /\ rowsNow \in [SrcTable -> Seq(SrcRow)]
    BY SourceAssumption DEF SourceInit, Plans
  <2>3. taken \in [SrcTable -> Seq(SrcRow)]
    BY <2>1 DEF SourceInit
  <2>4. retries \in [rate : Nat, server : Nat]
    BY DEF SourceInit, Fresh
  <2>5. edits \in Nat /\ editsAtStart \in 0..edits /\ offset \in Nat
    BY DEF SourceInit
  <2>6. QED
    BY <2>2, <2>3, <2>4, <2>5 DEF SourceInit, SourceTyped
<1>2. QED
  BY <1>1 DEF SourceInit, SourceInv, NothingRead, Ahead

(* The end of the page, and what of the listing is read after it.          *)
LEMMA PageIs ==
  ASSUME SourceTyped, NEW t \in SrcTable,
         NEW page, page = SubSeq(rowsNow[t], offset + 1, Min({offset + PageSize, Len(rowsNow[t])}))
  PROVE  /\ page \in Seq(SrcRow)
         /\ offset + PageSize < Len(rowsNow[t]) => Len(page) = PageSize
         /\ offset <= Len(rowsNow[t]) =>
              SubSeq(rowsNow[t], 1, offset) \o page =
                IF offset + PageSize < Len(rowsNow[t])
                THEN SubSeq(rowsNow[t], 1, offset + PageSize) ELSE rowsNow[t]
<1> DEFINE rows == rowsNow[t]
           m == Min({offset + PageSize, Len(rows)})
<1>1. rows \in Seq(SrcRow) /\ offset \in Nat /\ PageSize \in Nat /\ PageSize > 0
  BY SourceAssumption DEF SourceTyped
<1>2. Len(rows) \in Nat /\ \A i \in 1..Len(rows) : rows[i] \in SrcRow
  BY <1>1, LenProperties, ElementOfSeq
<1>3. page = SubSeq(rows, offset + 1, m)
  OBVIOUS
<1> HIDE DEF rows
<1>4. m = IF offset + PageSize < Len(rows) THEN offset + PageSize ELSE Len(rows)
  <2> DEFINE n == IF offset + PageSize < Len(rows) THEN offset + PageSize ELSE Len(rows)
  <2>1. n \in {offset + PageSize, Len(rows)} /\ \A y \in {offset + PageSize, Len(rows)} : n <= y
    BY <1>1, <1>2
  <2>2. \A x \in {offset + PageSize, Len(rows)} :
          (\A y \in {offset + PageSize, Len(rows)} : x <= y) => x = n
    BY <1>1, <1>2
  <2> HIDE DEF n
  <2>3. m = n
    BY <2>1, <2>2 DEF Min
  <2>4. QED
    BY <2>3 DEF n
<1> HIDE DEF m
<1>5. m \in Nat /\ m <= Len(rows) /\ offset + 1 \in Int /\ \A i \in (offset + 1)..m : rows[i] \in SrcRow
  BY <1>1, <1>2, <1>4
<1>6. page \in Seq(SrcRow) /\ Len(page) = IF offset + 1 <= m THEN m - (offset + 1) + 1 ELSE 0
  <2> DEFINE first == offset + 1
  <2>1. first \in Int /\ m \in Int /\ \A i \in first..m : rows[i] \in SrcRow
    BY <1>5
  <2> HIDE DEF first
  <2>2. /\ SubSeq(rows, first, m) \in Seq(SrcRow)
        /\ Len(SubSeq(rows, first, m)) = IF first <= m THEN m - first + 1 ELSE 0
    BY <2>1, SubSeqProperties
  <2>3. QED
    BY <1>3, <2>2 DEF first
<1>7. offset + PageSize < Len(rows) => Len(page) = PageSize
  BY <1>1, <1>2, <1>4, <1>6
<1>8. ASSUME offset <= Len(rows)
      PROVE  SubSeq(rows, 1, offset) \o page = SubSeq(rows, 1, m)
  <2>1. 1 \in 1..(Len(rows) + 1) /\ offset \in (1 - 1)..Len(rows) /\ m \in offset..Len(rows)
    BY <1>1, <1>2, <1>4, <1>8
  <2>2. SubSeq(rows, 1, offset) \o SubSeq(rows, offset + 1, m) = SubSeq(rows, 1, m)
    BY <1>1, <2>1, ConcatAdjacentSubSeq, Zenon
  <2>3. QED
    BY <1>3, <2>2
<1>9. SubSeq(rows, 1, Len(rows)) = rows
  BY <1>1, SubSeqFull
<1>10. QED
  BY <1>4, <1>6, <1>7, <1>8, <1>9 DEF rows

(* A page that is taken: the records it adds are new. *)
LEMMA PageKeeps ==
  ASSUME SourceInv, NEW t \in SrcTable, ReadPage(t), at' # "failed"
  PROVE  SourceInv'
<1> DEFINE rows == rowsNow[t]
           page == SubSeq(rows, offset + 1, Min({offset + PageSize, Len(rows)}))
           ends == offset + PageSize >= Len(rows)
           L == Len(taken[t])
           new == Kept(t, page)
<1>1. /\ at = "records" /\ t \in todo /\ (offset > 0 => taken[t] # <<>>)
      /\ NewIds(page) /\ taken' = [taken EXCEPT ![t] = @ \o new] /\ retries' = Fresh
      /\ IF ends
         THEN /\ todo' = todo \ {t} /\ offset' = 0 /\ offsets' = {}
              /\ at' = IF todo = {t} THEN "links" ELSE at
         ELSE /\ offset' = offset + PageSize /\ offsets' = offsets \union {offset + PageSize}
              /\ UNCHANGED <<todo, at>>
      /\ UNCHANGED <<schemaNow, rowsNow, edits, shown, consent, editsAtStart, plan>>
  BY DEF ReadPage, GiveUp, srcVars
<1>2. SourceTyped /\ PlanAccepted /\ OneAtATime /\ NoRecordTwice /\ OfThePlan /\ AsItStands
  BY <1>1 DEF SourceInv, Ahead
<1>3. /\ rows \in Seq(SrcRow) /\ taken[t] \in Seq(SrcRow) /\ taken \in [SrcTable -> Seq(SrcRow)]
      /\ offset \in Nat /\ PageSize \in Nat /\ PageSize > 0
  BY <1>2, SourceAssumption DEF SourceTyped
<1>4. /\ page \in Seq(SrcRow)
      /\ ~ends => Len(page) = PageSize
      /\ offset <= Len(rows) =>
           SubSeq(rows, 1, offset) \o page =
             IF ends THEN rows ELSE SubSeq(rows, 1, offset + PageSize)
  <2>1. Len(rows) \in Nat
    BY <1>3, LenProperties
  <2>2. /\ page \in Seq(SrcRow)
        /\ offset + PageSize < Len(rows) => Len(page) = PageSize
        /\ offset <= Len(rows) =>
             SubSeq(rows, 1, offset) \o page =
               IF offset + PageSize < Len(rows)
               THEN SubSeq(rows, 1, offset + PageSize) ELSE rows
    BY <1>2, PageIs
  <2> HIDE DEF rows, page
  <2>3. QED
    BY <1>3, <2>1, <2>2
<1> HIDE DEF rows, page
<1>5. /\ new \in Seq(SrcRow) /\ Len(new) = Len(page) /\ L \in Nat /\ Len(page) \in Nat
      /\ \A k \in 1..Len(page) : new[k].id = page[k].id /\ new[k].fields \subseteq Mapped(plan, t)
  <2>1. page \in Seq(SrcRow)
    BY <1>4
  <2>2. L \in Nat /\ Len(page) \in Nat
    BY <1>3, <2>1, LenProperties
  <2>3. new \in Seq(SrcRow) /\ Len(new) = Len(page)
    BY <2>1, KeptIs
  <2>4. \A k \in 1..Len(page) : new[k].id = page[k].id /\ new[k].fields \subseteq Mapped(plan, t)
    BY <2>1, KeptIs
  <2>5. QED
    BY <2>2, <2>3, <2>4
<1> HIDE DEF new
<1>6. /\ taken' \in [SrcTable -> Seq(SrcRow)] /\ taken'[t] = taken[t] \o new
      /\ \A u \in SrcTable : u # t => taken'[u] = taken[u]
      /\ Len(taken'[t]) = L + Len(page)
  <2>1. taken[t] \o new \in Seq(SrcRow) /\ Len(taken[t] \o new) = L + Len(new)
    BY <1>3, <1>5, ConcatProperties
  <2>2. QED
    BY <1>1, <1>3, <1>5, <2>1
<1>7. L = offset
  <2>1. taken[t] = <<>> \/ L = offset
    BY <1>1, <1>2 DEF OneAtATime
  <2>2. taken[t] = <<>> => L = 0
    BY EmptySeq
  <2>3. QED
    BY <1>1, <1>3, <2>1, <2>2
<1>8. \A u \in todo : u # t => taken[u] = <<>>
  <2> SUFFICES ASSUME NEW u \in todo, u # t, taken[u] # <<>> PROVE FALSE
    OBVIOUS
  <2>1. Len(taken[u]) = offset /\ taken[t] = <<>>
    BY <1>1, <1>2 DEF OneAtATime
  <2>2. offset = 0
    BY <1>1, <1>3, <2>1
  <2>3. taken[u] \in Seq(SrcRow)
    BY <1>2, <1>3 DEF SourceTyped
  <2>4. QED
    BY <2>1, <2>2, <2>3, EmptySeq
<1>9. SourceTyped'
  <2>1. retries' \in [rate : Nat, server : Nat]
    BY <1>1 DEF Fresh
  <2>2. todo' \in SUBSET SrcTable /\ offset' \in Nat /\ offsets' \in SUBSET Nat
    <3>1. offset + PageSize \in Nat
      BY <1>3
    <3>2. todo \in SUBSET SrcTable /\ offsets \in SUBSET Nat
      BY <1>2 DEF SourceTyped
    <3>3. CASE ends
      BY <1>1, <3>2, <3>3
    <3>4. CASE ~ends
      BY <1>1, <3>1, <3>2, <3>4
    <3>5. QED
      BY <3>3, <3>4
  <2>3. QED
    BY <1>1, <1>2, <1>6, <2>1, <2>2 DEF SourceTyped, Plans
<1>10. PlanAccepted'
  BY <1>1, <1>2 DEF PlanAccepted, Plans, Issues
<1>11. OneAtATime'
  <2>1. at' # "records" => todo' = {}
    BY <1>1
  <2>2. CASE ends
    BY <1>1, <1>6, <1>8, <2>1, <2>2 DEF OneAtATime
  <2>3. CASE ~ends
    <3>1. todo' = todo /\ offset' = offset + PageSize /\ Len(taken'[t]) = offset'
      BY <1>1, <1>4, <1>6, <1>7, <2>3
    <3>2. \A u \in todo' : u # t => taken'[u] = <<>>
      BY <1>2, <1>6, <1>8, <3>1 DEF SourceTyped
    <3>3. QED
      BY <2>1, <3>1, <3>2 DEF OneAtATime
  <2>4. QED
    BY <2>2, <2>3
<1>12. ASSUME NEW u \in SrcTable, NEW k \in DOMAIN taken'[u]
       PROVE  \/ k \in DOMAIN taken[u] /\ taken'[u][k] = taken[u][k]
              \/ /\ u = t /\ k - L \in 1..Len(page)
                 /\ taken'[u][k].id = page[k - L].id
                 /\ taken'[u][k].fields \subseteq Mapped(plan, t)
  <2>1. CASE u # t
    BY <1>6, <2>1
  <2>2. CASE u = t
    <3>1. k \in 1..(L + Len(page)) /\ DOMAIN taken[t] = 1..L
      BY <1>3, <1>6, <2>2, LenProperties
    <3>2. taken'[t][k] = IF k <= L THEN taken[t][k] ELSE new[k - L]
      BY <1>3, <1>5, <1>6, <3>1, ConcatProperties
    <3>3. CASE k <= L
      BY <1>5, <2>2, <3>1, <3>2, <3>3
    <3>4. CASE ~(k <= L)
      <4>1. k - L \in 1..Len(page)
        BY <1>5, <3>1, <3>4
      <4>2. QED
        BY <1>5, <2>2, <3>2, <3>4, <4>1
    <3>5. QED
      BY <3>3, <3>4
  <2>3. QED
    BY <2>1, <2>2
<1>13. OfThePlan'
  <2> SUFFICES ASSUME NEW u \in SrcTable, NEW k \in DOMAIN taken'[u]
               PROVE  taken'[u][k].fields \subseteq Mapped(plan, u)'
    BY DEF OfThePlan
  <2>1. Mapped(plan, u)' = Mapped(plan, u)
    BY <1>1 DEF Mapped
  <2>2. QED
    BY <1>2, <1>12, <2>1 DEF OfThePlan
<1>14. NoRecordTwice'
  <2>1. DOMAIN page = 1..Len(page)
    BY <1>4, LenProperties
  <2>2. \A j, k \in 1..Len(page) : page[j].id = page[k].id => j = k
    BY <1>1, <1>4, IdsApart DEF NewIds
  <2>3. \A u \in SrcTable : \A k \in DOMAIN taken[u] : \A j \in 1..Len(page) :
          taken[u][k].id # page[j].id
    <3> SUFFICES ASSUME NEW u \in SrcTable, NEW k \in DOMAIN taken[u], NEW j \in 1..Len(page),
                        taken[u][k].id = page[j].id
                 PROVE  FALSE
      OBVIOUS
    <3>1. page[j].id \in IdsIn(page) /\ taken[u][k].id \in IdsIn(taken[u])
      BY <2>1 DEF IdsIn
    <3>2. IdsIn(page) \cap UNION {IdsIn(taken[w]) : w \in SrcTable} = {}
      BY <1>1 DEF NewIds
    <3>3. QED
      BY <3>1, <3>2
  <2> SUFFICES ASSUME NEW u \in SrcTable, NEW v \in SrcTable,
                      NEW j \in DOMAIN taken'[u], NEW k \in DOMAIN taken'[v],
                      taken'[u][j].id = taken'[v][k].id
               PROVE  u = v /\ j = k
    BY DEF NoRecordTwice
  <2>4. CASE /\ j \in DOMAIN taken[u] /\ taken'[u][j] = taken[u][j]
             /\ k \in DOMAIN taken[v] /\ taken'[v][k] = taken[v][k]
    BY <1>2, <2>4 DEF NoRecordTwice
  <2>5. CASE /\ u = t /\ j - L \in 1..Len(page) /\ taken'[u][j].id = page[j - L].id
             /\ v = t /\ k - L \in 1..Len(page) /\ taken'[v][k].id = page[k - L].id
    <3>1. j - L = k - L
      BY <2>2, <2>5
    <3>2. j \in Int /\ k \in Int
      BY <1>6, <2>5, LenProperties
    <3>3. QED
      BY <1>5, <2>5, <3>1, <3>2
  <2>6. QED
    BY <1>12, <2>3, <2>4, <2>5
<1>15. AsItStands'
  <2> SUFFICES ASSUME edits = editsAtStart, NEW u \in SrcTable
               PROVE  /\ u \notin todo' => taken'[u] = Kept(u, rowsNow[u])
                      /\ u \in todo' => /\ Len(taken'[u]) <= Len(rowsNow[u])
                                        /\ taken'[u] = Kept(u, SubSeq(rowsNow[u], 1, Len(taken'[u])))
    BY <1>1 DEF AsItStands, ReadSoFar, Kept, Mapped
  <2>1. CASE u # t
    <3>1. taken'[u] = taken[u] /\ (u \in todo' <=> u \in todo)
      BY <1>1, <1>6, <2>1
    <3>2. QED
      BY <1>2, <3>1 DEF AsItStands, ReadSoFar
  <2>2. CASE u = t
    <3> DEFINE before == SubSeq(rows, 1, offset)
    <3>1. offset <= Len(rows) /\ taken[t] = Kept(t, before)
      BY <1>1, <1>2, <1>7 DEF AsItStands, ReadSoFar, rows
    <3>2. Len(rows) \in Nat /\ \A i \in 1..offset : rows[i] \in SrcRow
      BY <1>3, <3>1, LenProperties, ElementOfSeq
    <3>3. before \in Seq(SrcRow)
      BY <1>3, <3>2, SubSeqProperties
    <3>4. taken'[t] = Kept(t, before \o page)
      <4> HIDE DEF before
      <4>1. QED
        BY <1>4, <1>6, <3>1, <3>3, KeptJoins DEF new
    <3>5. CASE ends
      BY <1>1, <1>4, <2>2, <3>1, <3>4, <3>5 DEF rows
    <3>6. CASE ~ends
      <4>1. taken'[t] = Kept(t, SubSeq(rows, 1, offset + PageSize))
        BY <1>4, <3>1, <3>4, <3>6
      <4>2. Len(taken'[t]) = offset + PageSize /\ offset + PageSize <= Len(rows)
        BY <1>3, <1>4, <1>6, <1>7, <3>2, <3>6
      <4>3. QED
        BY <1>1, <2>2, <3>6, <4>1, <4>2 DEF rows
    <3>7. QED
      BY <3>5, <3>6
  <2>3. QED
    BY <2>1, <2>2
<1>16. at' \in {"records", "links"}
  BY <1>1
<1>17. QED
  BY <1>9, <1>10, <1>11, <1>13, <1>14, <1>15, <1>16 DEF SourceInv, NothingRead

(* An edit at Airtable is seen in the count of edits. *)
LEMMA EditKeeps ==
  ASSUME SourceInv, Edit, schemaNow' \in Plans, rowsNow' \in [SrcTable -> Seq(SrcRow)],
         UNCHANGED <<shown, consent, jobVars>>
  PROVE  SourceInv'
<1>1. UNCHANGED <<shown, consent, at, plan, todo, offset, offsets, taken, retries, editsAtStart>>
  BY DEF jobVars
<1>2. edits' = edits + 1 /\ edits \in Nat /\ editsAtStart \in 0..edits
  BY DEF Edit, SourceInv, SourceTyped
<1>3. SourceTyped'
  BY <1>1, <1>2 DEF SourceInv, SourceTyped, Plans
<1>4. AsItStands'
  BY <1>1, <1>2 DEF AsItStands
<1>5. Ahead => PlanAccepted' /\ OneAtATime' /\ NoRecordTwice' /\ OfThePlan'
  <2>1. PlanAccepted => PlanAccepted'
    BY <1>1 DEF PlanAccepted, Plans, Issues
  <2>2. OneAtATime => OneAtATime'
    BY <1>1 DEF OneAtATime
  <2>3. NoRecordTwice => NoRecordTwice'
    BY <1>1 DEF NoRecordTwice
  <2>4. OfThePlan => OfThePlan'
    BY <1>1 DEF OfThePlan, Mapped
  <2>5. QED
    BY <2>1, <2>2, <2>3, <2>4 DEF SourceInv
<1>6. LinksResolve => LinksResolve'
  BY <1>1 DEF LinksResolve, IdsIn
<1>7. (Ahead' <=> Ahead) /\ (NothingRead => NothingRead')
  BY <1>1 DEF Ahead, NothingRead
<1>8. QED
  BY <1>1, <1>3, <1>4, <1>5, <1>6, <1>7 DEF SourceInv

(* Rows that are changed one by one stay rows. *)
LEMMA RowsChanged ==
  ASSUME NEW rows \in Seq(SrcRow), NEW new,
         DOMAIN new = DOMAIN rows, new = [k \in DOMAIN rows |-> new[k]],
         \A k \in DOMAIN rows : new[k] \in SrcRow
  PROVE  new \in Seq(SrcRow)
<1>1. DOMAIN rows = 1..Len(rows) /\ Len(rows) \in Nat
  BY LenProperties
<1>2. new \in [1..Len(rows) -> SrcRow]
  BY <1>1
<1>3. QED
  BY <1>1, <1>2, SeqDef

LEMMA AddKeeps ==
  ASSUME SourceInv, NEW t \in SrcTable, NEW r \in SrcRecord, AddSourceRecord(t, r)
  PROVE  SourceInv'
<1> DEFINE Linked == SUBSET (IF HasLinks(t) THEN IdsIn(rowsNow[LinksTo[t]]) ELSE {})
<1>1. PICK l \in Linked, front \in BOOLEAN :
        rowsNow' = [rowsNow EXCEPT ![t] =
          IF front THEN <<[id |-> r, fields |-> schemaNow[t], links |-> l]>> \o rowsNow[t]
          ELSE Append(rowsNow[t], [id |-> r, fields |-> schemaNow[t], links |-> l])]
  BY DEF AddSourceRecord
<1> DEFINE new == [id |-> r, fields |-> schemaNow[t], links |-> l]
<1>2. /\ rowsNow \in [SrcTable -> Seq(SrcRow)] /\ schemaNow \in Plans
      /\ rowsNow[t] \in Seq(SrcRow)
  BY DEF SourceInv, SourceTyped
<1>3. IdsIn(rowsNow[LinksTo[t]]) \subseteq SrcRecord
  <2>1. LinksTo[t] \in SrcTable
    BY SourceAssumption
  <2>2. \A k \in DOMAIN rowsNow[LinksTo[t]] : rowsNow[LinksTo[t]][k] \in SrcRow
    BY <1>2, <2>1, LenProperties, ElementOfSeq
  <2>3. QED
    BY <2>2 DEF IdsIn, SrcRow
<1>4. new \in SrcRow
  BY <1>2, <1>3 DEF SrcRow, Plans
<1>5. rowsNow' = [rowsNow EXCEPT ![t] = IF front THEN <<new>> \o rowsNow[t] ELSE Append(rowsNow[t], new)]
  BY <1>1
<1> HIDE DEF new
<1>6. <<new>> \o rowsNow[t] \in Seq(SrcRow) /\ Append(rowsNow[t], new) \in Seq(SrcRow)
  <2>1. <<new>> \in Seq(SrcRow)
    BY <1>4
  <2>2. QED
    BY <1>2, <1>4, <2>1, ConcatProperties, AppendProperties
<1>7. rowsNow' \in [SrcTable -> Seq(SrcRow)]
  BY <1>2, <1>5, <1>6
<1>8. QED
  BY <1>2, <1>7, EditKeeps DEF AddSourceRecord

LEMMA DeleteKeeps ==
  ASSUME SourceInv, NEW t \in SrcTable, NEW r \in SrcRecord, DeleteSourceRecord(t, r)
  PROVE  SourceInv'
<1>1. PICK j \in DOMAIN rowsNow[t] :
        rowsNow' = [u \in SrcTable |->
          [k \in DOMAIN [rowsNow EXCEPT ![t] = RemoveAt(rowsNow[t], j)][u] |->
            [[rowsNow EXCEPT ![t] = RemoveAt(rowsNow[t], j)][u][k] EXCEPT !.links = @ \ {r}]]]
  BY DEF DeleteSourceRecord
<1> DEFINE left == [rowsNow EXCEPT ![t] = RemoveAt(rowsNow[t], j)]
<1>2. /\ rowsNow \in [SrcTable -> Seq(SrcRow)] /\ schemaNow \in Plans
      /\ rowsNow[t] \in Seq(SrcRow)
  BY DEF SourceInv, SourceTyped
<1>3. RemoveAt(rowsNow[t], j) \in Seq(SrcRow)
  <2> DEFINE rows == rowsNow[t]
  <2>1. /\ rows \in Seq(SrcRow) /\ Len(rows) \in Nat /\ j \in 1..Len(rows)
        /\ \A i \in 1..Len(rows) : rows[i] \in SrcRow
    BY <1>2, LenProperties, ElementOfSeq
  <2> HIDE DEF rows
  <2>2. SubSeq(rows, 1, j - 1) \in Seq(SrcRow)
    <3> DEFINE n == j - 1
    <3>1. n \in Int /\ 1 \in Int /\ \A i \in 1..n : rows[i] \in SrcRow
      BY <2>1
    <3> HIDE DEF n
    <3>2. SubSeq(rows, 1, n) \in Seq(SrcRow)
      BY <3>1, SubSeqProperties
    <3>3. QED
      BY <3>2 DEF n
  <2>3. SubSeq(rows, j + 1, Len(rows)) \in Seq(SrcRow)
    <3> DEFINE m == j + 1
               n == Len(rows)
    <3>1. n \in Int /\ m \in Int /\ \A i \in m..n : rows[i] \in SrcRow
      BY <2>1
    <3> HIDE DEF m, n
    <3>2. SubSeq(rows, m, n) \in Seq(SrcRow)
      BY <3>1, SubSeqProperties
    <3>3. QED
      BY <3>2 DEF m, n
  <2>4. QED
    BY <2>2, <2>3, ConcatProperties DEF RemoveAt, rows
<1>4. left \in [SrcTable -> Seq(SrcRow)]
  BY <1>2, <1>3
<1>5. rowsNow' = [u \in SrcTable |-> [k \in DOMAIN left[u] |-> [left[u][k] EXCEPT !.links = @ \ {r}]]]
  BY <1>1
<1> HIDE DEF left
<1>6. ASSUME NEW u \in SrcTable PROVE rowsNow'[u] \in Seq(SrcRow)
  <2>1. left[u] \in Seq(SrcRow)
    BY <1>4
  <2>2. \A k \in DOMAIN left[u] : left[u][k] \in SrcRow
    BY <2>1, LenProperties, ElementOfSeq
  <2>3. \A row \in SrcRow : [row EXCEPT !.links = @ \ {r}] \in SrcRow
    BY DEF SrcRow
  <2>4. rowsNow'[u] = [k \in DOMAIN left[u] |-> [left[u][k] EXCEPT !.links = @ \ {r}]]
    BY <1>5
  <2>5. /\ DOMAIN rowsNow'[u] = DOMAIN left[u] /\ rowsNow'[u] = [k \in DOMAIN left[u] |-> rowsNow'[u][k]]
        /\ \A k \in DOMAIN left[u] : rowsNow'[u][k] \in SrcRow
    BY <2>2, <2>3, <2>4
  <2>6. QED
    BY <2>1, <2>5, RowsChanged
<1>7. rowsNow' \in [SrcTable -> Seq(SrcRow)]
  <2>1. DOMAIN rowsNow' = SrcTable /\ rowsNow' = [u \in SrcTable |-> rowsNow'[u]]
    BY <1>5
  <2>2. QED
    BY <1>6, <2>1
<1>8. QED
  BY <1>2, <1>7, EditKeeps DEF DeleteSourceRecord

LEMMA FieldKeeps ==
  ASSUME SourceInv, NEW t \in SrcTable, NEW f \in SrcField, ChangeField(t, f)
  PROVE  SourceInv'
<1> DEFINE gone == f \in schemaNow[t]
           Of(row) == [row EXCEPT !.fields = IF gone THEN @ \ {f} ELSE @ \union {f},
                                  !.links = IF gone /\ KindOf[f] = "link" THEN {} ELSE @]
<1>1. /\ schemaNow' = [schemaNow EXCEPT ![t] = IF gone THEN @ \ {f} ELSE @ \union {f}]
      /\ rowsNow' = [rowsNow EXCEPT ![t] = [k \in DOMAIN rowsNow[t] |-> Of(rowsNow[t][k])]]
  BY DEF ChangeField
<1>2. /\ rowsNow \in [SrcTable -> Seq(SrcRow)] /\ schemaNow \in Plans
      /\ rowsNow[t] \in Seq(SrcRow)
  BY DEF SourceInv, SourceTyped
<1>3. schemaNow' \in Plans
  BY <1>1, <1>2 DEF Plans
<1>4. \A row \in SrcRow : Of(row) \in SrcRow
  BY DEF SrcRow
<1>5. \A k \in DOMAIN rowsNow[t] : rowsNow[t][k] \in SrcRow
  BY <1>2, LenProperties, ElementOfSeq
<1> HIDE DEF Of
<1> DEFINE new == [k \in DOMAIN rowsNow[t] |-> Of(rowsNow[t][k])]
<1>6. new \in Seq(SrcRow)
  <2>1. /\ DOMAIN new = DOMAIN rowsNow[t] /\ new = [k \in DOMAIN rowsNow[t] |-> new[k]]
        /\ \A k \in DOMAIN rowsNow[t] : new[k] \in SrcRow
    BY <1>4, <1>5
  <2> HIDE DEF new
  <2>2. QED
    BY <1>2, <2>1, RowsChanged
<1>7. rowsNow' \in [SrcTable -> Seq(SrcRow)]
  BY <1>1, <1>2, <1>6
<1>8. QED
  BY <1>3, <1>7, EditKeeps DEF ChangeField

(* A step that reads the plan or gives the import up, and reads no records. *)
LEMMA PlanKeeps ==
  ASSUME SourceInv,
         \/ Preview \/ Import \/ RateLimited \/ ServerFault \/ SourceBreaks \/ RepeatsOffset
         \/ at' = "failed" /\ \E t \in SrcTable : ReadPage(t)
         \/ ReadSchema \/ CheckLinks \/ FetchAttachments
         \/ UNCHANGED sourceVars
  PROVE  SourceInv'
<1>1. CASE Preview
  <2>1. SourceTyped'
    BY <1>1 DEF Preview, SourceInv, SourceTyped, Plans, srcVars, jobVars
  <2>2. QED
    BY <1>1, <2>1 DEF Preview, SourceInv, NothingRead, Ahead, jobVars
<1>2. CASE Import
  <2>1. SourceTyped'
    BY <1>2 DEF Import, SourceInv, SourceTyped, Plans, srcVars
  <2>2. QED
    BY <1>2, <2>1 DEF Import, SourceInv, NothingRead, Ahead
<1>3. CASE at' = "failed" /\ UNCHANGED <<srcVars, shown, consent, editsAtStart, plan, todo, offset, offsets, taken, retries>>
  <2>1. SourceTyped'
    BY <1>3 DEF SourceInv, SourceTyped, Plans, srcVars
  <2>2. QED
    BY <1>3, <2>1 DEF SourceInv, NothingRead, Ahead
<1> DEFINE Kept2 == UNCHANGED <<schemaNow, rowsNow, edits, shown, consent, editsAtStart, plan, todo, offset, offsets, taken>>
<1>4. ASSUME Kept2, retries' \in [rate : Nat, server : Nat],
             \/ at' = at
             \/ at = "attachments" /\ at' = "prepared"
             \/ at = "links" /\ at' = "attachments" /\ LinksResolve
      PROVE  SourceInv'
  <2>1. SourceTyped'
    BY <1>4 DEF SourceInv, SourceTyped, Plans
  <2>2. Ahead' => Ahead
    BY <1>4 DEF Ahead
  <2>3. NothingRead'
    BY <1>4 DEF SourceInv, NothingRead
  <2>4. Ahead => PlanAccepted' /\ OneAtATime' /\ NoRecordTwice' /\ OfThePlan' /\ AsItStands'
    <3>1. PlanAccepted => PlanAccepted'
      BY <1>4 DEF PlanAccepted, Plans, Issues
    <3>2. OneAtATime => OneAtATime'
      BY <1>4 DEF OneAtATime
    <3>3. NoRecordTwice => NoRecordTwice'
      BY <1>4 DEF NoRecordTwice
    <3>4. OfThePlan => OfThePlan'
      BY <1>4 DEF OfThePlan, Mapped
    <3>5. AsItStands => AsItStands'
      BY <1>4 DEF AsItStands, ReadSoFar, Kept, Mapped
    <3>6. QED
      BY <3>1, <3>2, <3>3, <3>4, <3>5 DEF SourceInv
  <2>5. Ahead' /\ at' \in {"attachments", "prepared"} => LinksResolve'
    BY <1>4, <2>2 DEF SourceInv, LinksResolve, IdsIn
  <2>6. QED
    BY <2>1, <2>2, <2>3, <2>4, <2>5 DEF SourceInv
<1>5. CASE RateLimited \/ ServerFault
  <2>1. \A q \in [rate : Nat, server : Nat] :
          /\ [q EXCEPT !.rate = @ + 1] \in [rate : Nat, server : Nat]
          /\ [q EXCEPT !.server = @ + 1] \in [rate : Nat, server : Nat]
    OBVIOUS
  <2>2. retries' \in [rate : Nat, server : Nat]
    BY <1>5, <2>1 DEF RateLimited, ServerFault, SourceInv, SourceTyped
  <2>3. Kept2 /\ at' = at
    BY <1>5 DEF RateLimited, ServerFault, srcVars
  <2> HIDE DEF Kept2
  <2>4. QED
    BY <1>4, <2>2, <2>3
<1>6. CASE CheckLinks
  BY <1>3, <1>4, <1>6 DEF CheckLinks, GiveUp, srcVars, SourceInv, SourceTyped
<1>7. CASE FetchAttachments
  BY <1>4, <1>7 DEF FetchAttachments, srcVars, SourceInv, SourceTyped
<1>8. CASE UNCHANGED sourceVars
  <2>1. Kept2 /\ at' = at /\ retries' = retries
    BY <1>8 DEF sourceVars, srcVars, jobVars
  <2>2. retries' \in [rate : Nat, server : Nat]
    BY <2>1 DEF SourceInv, SourceTyped
  <2> HIDE DEF Kept2
  <2>3. QED
    BY <1>4, <2>1, <2>2
<1>9. CASE SourceBreaks \/ RepeatsOffset
  BY <1>3, <1>9 DEF SourceBreaks, RepeatsOffset, GiveUp
<1>10. CASE at' = "failed" /\ \E t \in SrcTable : ReadPage(t)
  <2>1. PICK t \in SrcTable : ReadPage(t)
    BY <1>10
  <2>2. at = "records"
    BY <2>1 DEF ReadPage
  <2>3. QED
    BY <1>3, <1>10, <2>1, <2>2 DEF ReadPage, GiveUp
<1>11. CASE ReadSchema
  <2>1. CASE schemaNow = shown /\ (Issues(schemaNow) # {} => consent)
    <3>1. /\ at = "schema" /\ at' = "records" /\ plan' = schemaNow /\ todo' = SrcTable /\ retries' = Fresh
          /\ UNCHANGED <<schemaNow, rowsNow, edits, shown, consent, editsAtStart, offset, offsets, taken>>
      BY <1>11, <2>1 DEF ReadSchema, srcVars
    <3>2. SourceTyped /\ \A t \in SrcTable : taken[t] = <<>>
      BY <3>1 DEF SourceInv, NothingRead
    <3>3. SourceTyped'
      BY <3>1, <3>2 DEF SourceTyped, Plans, Fresh
    <3>4. PlanAccepted'
      BY <2>1, <3>1, <3>2 DEF SourceTyped, PlanAccepted, Plans, Issues
    <3>5. OneAtATime' /\ NoRecordTwice' /\ OfThePlan'
      BY <3>1, <3>2 DEF OneAtATime, NoRecordTwice, OfThePlan
    <3>6. AsItStands'
      <4> SUFFICES ASSUME NEW t \in SrcTable
                   PROVE  /\ Len(taken[t]) <= Len(rowsNow[t])
                          /\ taken[t] = Kept(t, SubSeq(rowsNow[t], 1, Len(taken[t])))'
        BY <3>1 DEF AsItStands, ReadSoFar
      <4>1. taken[t] = <<>> /\ Len(taken[t]) = 0 /\ Len(rowsNow[t]) \in Nat
        BY <3>2, EmptySeq, LenProperties DEF SourceTyped
      <4>2. SubSeq(rowsNow[t], 1, Len(taken[t]))' = <<>>
        BY <3>1, <4>1, SubSeqEmpty
      <4>3. Kept(t, SubSeq(rowsNow[t], 1, Len(taken[t])))' = <<>>
        <5> DEFINE none == SubSeq(rowsNow[t], 1, Len(taken[t]))'
                   kept == [k \in DOMAIN none |-> [none[k] EXCEPT !.fields = @ \cap Mapped(plan, t)']]
        <5>1. none = <<>>
          BY <4>2
        <5>2. Kept(t, SubSeq(rowsNow[t], 1, Len(taken[t])))' = kept
          BY DEF Kept
        <5> HIDE DEF none
        <5>3. DOMAIN kept = {} /\ kept \in [1..0 -> SrcRow] /\ 1..0 = {}
          BY <5>1
        <5> HIDE DEF kept
        <5>4. kept \in Seq(SrcRow)
          BY <5>3, SeqDef
        <5>5. Len(kept) = 0
          BY <5>3, <5>4, LenProperties
        <5>6. QED
          BY <5>2, <5>4, <5>5, EmptySeq
      <4>4. QED
        BY <4>1, <4>3
    <3>7. QED
      BY <3>1, <3>3, <3>4, <3>5, <3>6 DEF SourceInv, NothingRead
  <2>2. CASE ~(schemaNow = shown /\ (Issues(schemaNow) # {} => consent))
    BY <1>3, <1>11, <2>2 DEF ReadSchema, GiveUp
  <2>3. QED
    BY <2>1, <2>2
<1>12. QED
  BY <1>1, <1>2, <1>5, <1>6, <1>7, <1>8, <1>9, <1>10, <1>11

(* What is handed on to be written is the plan that was accepted, whole and *)
(* sound, whatever was edited while it was read.                           *)
THEOREM PreparedImportsAreSound == SourceSpec => []PreparedIsSound
<1>1. SourceInv /\ [SourceNext]_sourceVars => SourceInv'
  BY PlanKeeps, PageKeeps, AddKeeps, DeleteKeeps, FieldKeeps DEF SourceNext
<1>2. SourceInv => PreparedIsSound
  <2> SUFFICES ASSUME SourceInv, at = "prepared" PROVE PreparedIsSound
    BY DEF PreparedIsSound
  <2>1. /\ PlanAccepted /\ OneAtATime /\ NoRecordTwice /\ OfThePlan /\ AsItStands /\ LinksResolve
        /\ todo = {}
    BY DEF SourceInv, Ahead, OneAtATime
  <2>2. plan = shown /\ (Issues(plan) # {} => consent)
    BY <2>1 DEF PlanAccepted
  <2>3. edits = editsAtStart => \A t \in SrcTable : taken[t] = Kept(t, rowsNow[t])
    BY <2>1 DEF AsItStands
  <2>4. QED
    BY <2>1, <2>2, <2>3 DEF PreparedIsSound, NoRecordTwice, OfThePlan, LinksResolve
<1>3. QED
  BY <1>1, <1>2, SourceStarts, PTL DEF SourceSpec

-----------------------------------------------------------------------------
(***************************************************************************)
(* ImportPage.  A request id belongs to one wish: each wish mints one at    *)
(* most, because the page and its storage let go of an id together, with a *)
(* report, and the next wish begins there.                                 *)
(***************************************************************************)
Call(n) ==
  [at : {"idle", "sent", "report", "failed", "over"}, id : 0..n, mine : BOOLEAN]

IdsMinted ==
  /\ {requestId, storage, report} \subseteq 0..lastId /\ lastId \in Nat
  /\ receipts \subseteq 1..lastId
  /\ startCall \in [StartCalls -> Call(lastId)]
  /\ \A s \in StartCalls : startCall[s].at # "idle" => startCall[s].id \in 1..lastId

WishesApart ==
  /\ intent \in Nat /\ intentOf \in [1..lastId -> Nat]
  /\ \A r \in 1..lastId : /\ intentOf[r] <= intent
                          /\ requestId = 0 => intentOf[r] < intent
  /\ \A r, q \in 1..lastId : intentOf[r] = intentOf[q] => r = q

(* The storage has the page's id until a report is shown. *)
Stored == storage = IF report = 0 THEN requestId ELSE 0

(* A call whose answer the page still takes is of the page's request.      *)
CallsTrue ==
  \A s \in StartCalls :
    /\ startCall[s].mine => startCall[s].id = requestId
    /\ startCall[s].at = "report" => startCall[s].id \in receipts

Shown == report # 0 => report = requestId /\ report \in receipts

PageInv == IdsMinted /\ WishesApart /\ Stored /\ CallsTrue /\ Shown

LEMMA PageStarts == PageInit => PageInv
BY DEF PageInit, PageInv, IdsMinted, Call, WishesApart, Stored, CallsTrue, Shown

LEMMA NoneMineTypes ==
  ASSUME IdsMinted
  PROVE  /\ NoneMine \in [StartCalls -> Call(lastId)]
         /\ \A s \in StartCalls : /\ NoneMine[s].at = startCall[s].at
                                 /\ NoneMine[s].id = startCall[s].id
                                 /\ ~ NoneMine[s].mine
<1>1. \A s \in StartCalls : startCall[s] \in Call(lastId)
  BY DEF IdsMinted
<1>2. \A c \in Call(lastId) : /\ [c EXCEPT !.mine = FALSE] \in Call(lastId)
                             /\ [c EXCEPT !.mine = FALSE].at = c.at
                             /\ [c EXCEPT !.mine = FALSE].id = c.id
                             /\ ~ [c EXCEPT !.mine = FALSE].mine
  BY DEF Call
<1>3. QED
  BY <1>1, <1>2 DEF NoneMine

(* Steps that touch nothing the invariant speaks of. *)
LEMMA FormSteps ==
  ASSUME PageInv, UNCHANGED <<requestId, storage, report, startCall, receipts, lastId, intent, intentOf>>
  PROVE  PageInv'
BY DEF PageInv, IdsMinted, WishesApart, Stored, CallsTrue, Shown

LEMMA StartKeeps ==
  ASSUME PageInv, NEW s \in StartCalls, StartImport(s)
  PROVE  PageInv'
<1>1. CASE requestId # 0
  <2>1. /\ requestId' = requestId /\ storage' = requestId /\ report = 0
        /\ startCall' = [NoneMine EXCEPT ![s] = [at |-> "sent", id |-> requestId, mine |-> TRUE]]
        /\ UNCHANGED <<report, receipts, lastId, intent, intentOf>>
    BY <1>1 DEF StartImport, formVars
  <2> DEFINE c == [at |-> "sent", id |-> requestId, mine |-> TRUE]
  <2>2. c \in Call(lastId) /\ c.id = requestId /\ c.id \in 1..lastId /\ c.at = "sent"
    BY <1>1 DEF PageInv, IdsMinted, Call
  <2>3. startCall' = [NoneMine EXCEPT ![s] = c]
    BY <2>1
  <2> HIDE DEF c
  <2>4. /\ startCall' \in [StartCalls -> Call(lastId)] /\ startCall'[s] = c
        /\ \A q \in StartCalls \ {s} : startCall'[q] = NoneMine[q]
    BY <2>2, <2>3, NoneMineTypes DEF PageInv
  <2>5. IdsMinted'
    BY <2>1, <2>2, <2>4, NoneMineTypes DEF PageInv, IdsMinted
  <2>6. CallsTrue'
    BY <2>1, <2>2, <2>4, NoneMineTypes DEF PageInv, CallsTrue
  <2>7. QED
    BY <1>1, <2>1, <2>5, <2>6 DEF PageInv, WishesApart, Stored, Shown
<1>2. CASE requestId = 0
  <2> DEFINE id == lastId + 1
  <2>1. /\ requestId' = id /\ storage' = id /\ lastId' = id /\ report = 0
        /\ intentOf' = [r \in 1..id |-> IF r = id THEN intent ELSE intentOf[r]]
        /\ startCall' = [NoneMine EXCEPT ![s] = [at |-> "sent", id |-> id, mine |-> TRUE]]
        /\ UNCHANGED <<report, receipts, intent>>
    BY <1>2 DEF StartImport, formVars
  <2>2. /\ lastId \in Nat /\ id \in Nat /\ id # 0 /\ \A r \in 1..id : r = id \/ r \in 1..lastId
        /\ \A r \in 1..lastId : r \in 1..id /\ r # id
        /\ \A r \in 0..lastId : r \in 0..id
    BY DEF PageInv, IdsMinted
  <2> DEFINE c == [at |-> "sent", id |-> id, mine |-> TRUE]
  <2>3. c \in Call(id) /\ c.id = id /\ c.at = "sent" /\ id \in 1..id
    BY <2>2 DEF Call
  <2>4. startCall' = [NoneMine EXCEPT ![s] = c] /\ Call(lastId) \subseteq Call(id)
    BY <2>1, <2>2 DEF Call
  <2> HIDE DEF c, id
  <2>5. IdsMinted' /\ CallsTrue'
    <3>1. NoneMine \in [StartCalls -> Call(id)]
      BY <2>4, NoneMineTypes DEF PageInv
    <3>2. /\ startCall' \in [StartCalls -> Call(id)] /\ startCall'[s] = c
          /\ \A q \in StartCalls \ {s} : startCall'[q] = NoneMine[q]
      BY <2>3, <2>4, <3>1
    <3>3. IdsMinted'
      <4>1. /\ {requestId', storage', report'} \subseteq 0..id /\ receipts' \subseteq 1..id
            /\ id \in Nat /\ lastId' = id
        <5>1. 0 \in 0..id /\ id \in 0..id
          BY <2>2
        <5>2. receipts' \subseteq 1..id
          BY <2>1, <2>2 DEF PageInv, IdsMinted
        <5>3. QED
          BY <2>1, <2>2, <5>1, <5>2
      <4>2. \A q \in StartCalls : startCall'[q].at # "idle" => startCall'[q].id \in 1..id
        BY <2>2, <2>3, <3>2, NoneMineTypes DEF PageInv, IdsMinted
      <4>3. QED
        BY <3>2, <4>1, <4>2 DEF IdsMinted
    <3>4. CallsTrue'
      BY <2>1, <2>3, <3>2, NoneMineTypes DEF PageInv, CallsTrue
    <3>5. QED
      BY <3>3, <3>4
  <2> USE DEF id
  <2>6. WishesApart'
    <3>1. \A r \in 1..lastId : intentOf'[r] = intentOf[r] /\ intentOf[r] < intent
      BY <1>2, <2>1, <2>2 DEF PageInv, WishesApart
    <3>2. intentOf'[id] = intent /\ intent \in Nat /\ intentOf' \in [1..id -> Nat]
      BY <2>1, <2>2 DEF PageInv, WishesApart
    <3>3. \A r, q \in 1..id : intentOf'[r] = intentOf'[q] => r = q
      BY <2>2, <3>1, <3>2 DEF PageInv, WishesApart
    <3>4. \A r \in 1..id : intentOf'[r] <= intent
      BY <2>2, <3>1, <3>2 DEF PageInv, WishesApart
    <3>5. QED
      BY <2>1, <2>2, <3>2, <3>3, <3>4 DEF WishesApart
  <2>7. QED
    BY <2>1, <2>5, <2>6 DEF PageInv, Stored, Shown
<1>3. QED
  BY <1>1, <1>2

(* Calls the server moves on: it sets no state but `at`, and answers with a  *)
(* report only what has a receipt.                                         *)
LEMMA CallsMoveOn ==
  ASSUME PageInv, UNCHANGED <<requestId, storage, report, lastId>>,
         receipts \subseteq receipts', receipts' \subseteq 1..lastId,
         NEW moved \in SUBSET StartCalls, NEW to \in {"report", "failed"},
         \A q \in moved : /\ startCall[q].at = "sent"
                          /\ to = "report" => startCall[q].id \in receipts',
         startCall' = [q \in StartCalls |->
           IF q \in moved THEN [startCall[q] EXCEPT !.at = to] ELSE startCall[q]]
  PROVE  IdsMinted' /\ CallsTrue'
<1>1. \A c \in Call(lastId) : /\ [c EXCEPT !.at = to] \in Call(lastId)
                             /\ [c EXCEPT !.at = to].at = to
                             /\ [c EXCEPT !.at = to].id = c.id
                             /\ [c EXCEPT !.at = to].mine = c.mine
  BY DEF Call
<1>2. ASSUME NEW q \in StartCalls
      PROVE  /\ startCall[q] \in Call(lastId)
             /\ startCall'[q].id = startCall[q].id
             /\ startCall'[q].mine = startCall[q].mine
             /\ startCall'[q].at = IF q \in moved THEN to ELSE startCall[q].at
             /\ startCall'[q] \in Call(lastId)
  <2>1. startCall[q] \in Call(lastId)
    BY DEF PageInv, IdsMinted
  <2>2. CASE q \in moved
    <3>1. startCall'[q] = [startCall[q] EXCEPT !.at = to]
      BY <2>2
    <3>2. QED
      BY <1>1, <2>1, <2>2, <3>1
  <2>3. CASE q \notin moved
    <3>1. startCall'[q] = startCall[q]
      BY <2>3
    <3>2. QED
      BY <2>1, <2>3, <3>1
  <2>4. QED
    BY <2>2, <2>3
<1>3. startCall' \in [StartCalls -> Call(lastId)]
  <2>1. startCall' = [q \in StartCalls |-> startCall'[q]]
    OBVIOUS
  <2>2. QED
    BY <1>2, <2>1
<1>4. IdsMinted'
  BY <1>2, <1>3 DEF PageInv, IdsMinted
<1>5. CallsTrue'
  BY <1>2 DEF PageInv, CallsTrue
<1>6. QED
  BY <1>4, <1>5

LEMMA ServerKeeps ==
  ASSUME PageInv, NEW s \in StartCalls, ServerImports(s) \/ ServerAnswers(s)
  PROVE  PageInv'
<1>1. UNCHANGED <<requestId, storage, report, lastId, intent, intentOf>>
  BY DEF ServerImports, ServerAnswers, runVars, historyVars
<1>2. /\ startCall \in [StartCalls -> Call(lastId)] /\ startCall[s].at # "idle"
      /\ startCall[s].id \in 1..lastId /\ receipts \subseteq 1..lastId
  BY DEF ServerImports, ServerAnswers, PageInv, IdsMinted
<1>3. receipts \subseteq receipts' /\ receipts' \subseteq 1..lastId
  BY <1>2 DEF ServerImports, ServerAnswers
<1>4. \E moved \in SUBSET StartCalls, to \in {"report", "failed"} :
        /\ \A q \in moved : /\ startCall[q].at = "sent"
                            /\ to = "report" => startCall[q].id \in receipts'
        /\ startCall' = [q \in StartCalls |->
             IF q \in moved THEN [startCall[q] EXCEPT !.at = to] ELSE startCall[q]]
  <2>1. CASE startCall[s].at = "sent"
    <3> DEFINE to == IF startCall[s].id \in receipts' THEN "report" ELSE "failed"
    <3>1. startCall' = [startCall EXCEPT ![s] = [startCall[s] EXCEPT !.at = to]]
      BY <1>2, <2>1 DEF ServerImports, ServerAnswers
    <3>2. startCall' = [q \in StartCalls |->
             IF q \in {s} THEN [startCall[q] EXCEPT !.at = to] ELSE startCall[q]]
      BY <1>2, <3>1
    <3>3. QED
      BY <2>1, <3>2
  <2>2. CASE startCall[s].at # "sent"
    <3>1. startCall' = [q \in StartCalls |->
             IF q \in {} THEN [startCall[q] EXCEPT !.at = "failed"] ELSE startCall[q]]
      BY <1>2, <2>2 DEF ServerImports, ServerAnswers
    <3>2. WITNESS {} \in SUBSET StartCalls, "failed" \in {"report", "failed"}
    <3>3. QED
      BY <3>1
  <2>3. QED
    BY <2>1, <2>2
<1>5. IdsMinted' /\ CallsTrue'
  BY <1>1, <1>3, <1>4, CallsMoveOn
<1>6. QED
  BY <1>1, <1>3, <1>5 DEF PageInv, WishesApart, Stored, Shown

LEMMA AnswerKeeps ==
  ASSUME PageInv, NEW s \in StartCalls, NEW lost \in BOOLEAN, StartAnswered(s, lost)
  PROVE  PageInv'
<1> DEFINE good == startCall[s].at = "report" /\ ~lost
<1>1. UNCHANGED <<requestId, receipts, lastId, intent, intentOf>>
  BY DEF StartAnswered, historyVars
<1>2. IF startCall[s].mine /\ good
        THEN report' = startCall[s].id /\ storage' = 0
        ELSE report' = report /\ storage' = storage
  BY DEF StartAnswered, Applies
<1>3. \E c \in Call(lastId) :
        /\ startCall' = [startCall EXCEPT ![s] = c] /\ c.id = startCall[s].id
        /\ c.at = "report" => startCall[s].at = "report"
        /\ ~ c.mine /\ startCall[s].at # "idle"
  <2> DEFINE a == IF startCall[s].at = "sent" THEN "sent"
                  ELSE IF startCall[s].at = "failed" THEN "failed" ELSE "over"
             c == [startCall[s] EXCEPT !.mine = FALSE, !.at = a]
  <2>1. c \in Call(lastId) /\ c.id = startCall[s].id /\ c.at = a /\ ~ c.mine
    BY DEF PageInv, IdsMinted, Call
  <2>2. startCall' = [startCall EXCEPT ![s] = c] /\ startCall[s].at # "idle"
    BY DEF StartAnswered, PageInv, IdsMinted
  <2> HIDE DEF c
  <2>3. QED
    BY <2>1, <2>2
<1>4. startCall[s].mine /\ good => /\ startCall[s].id = requestId /\ startCall[s].id \in receipts
                                   /\ startCall[s].id \in 1..lastId
  BY <1>3 DEF PageInv, IdsMinted, CallsTrue
<1>5. IdsMinted'
  BY <1>1, <1>2, <1>3, <1>4 DEF PageInv, IdsMinted
<1>6. CallsTrue'
  BY <1>1, <1>3 DEF PageInv, IdsMinted, CallsTrue
<1>7. Stored' /\ Shown'
  BY <1>1, <1>2, <1>4 DEF PageInv, IdsMinted, Stored, Shown
<1>8. QED
  BY <1>1, <1>5, <1>6, <1>7 DEF PageInv, WishesApart

LEMMA PollKeeps ==
  ASSUME PageInv, PollStatus
  PROVE  PageInv'
<1>1. UNCHANGED <<requestId, startCall, receipts, lastId, intent, intentOf>>
  BY DEF PollStatus, historyVars
<1>2. \/ requestId \in receipts /\ report' = requestId /\ storage' = 0 /\ requestId # 0
      \/ report' = report /\ storage' = storage
  BY DEF PollStatus
<1>3. QED
  BY <1>1, <1>2 DEF PageInv, IdsMinted, WishesApart, Stored, CallsTrue, Shown

LEMMA CancelKeeps ==
  ASSUME PageInv, ServerCancels
  PROVE  PageInv'
<1>1. UNCHANGED <<requestId, storage, report, receipts, lastId, intent, intentOf>>
  BY DEF ServerCancels, runVars, historyVars
<1> DEFINE hit == {q \in StartCalls : startCall[q].at = "sent" /\ startCall[q].id = cancelling.id}
<1>2. IdsMinted' /\ CallsTrue'
  <2>1. CASE startCall' = startCall
    BY <1>1, <2>1 DEF PageInv, IdsMinted, CallsTrue
  <2>2. CASE startCall' = [q \in StartCalls |->
               IF q \in hit THEN [startCall[q] EXCEPT !.at = "failed"] ELSE startCall[q]]
    <3>1. /\ receipts' \subseteq 1..lastId /\ receipts \subseteq receipts'
          /\ hit \in SUBSET StartCalls /\ \A q \in hit : startCall[q].at = "sent"
      BY <1>1 DEF PageInv, IdsMinted
    <3> HIDE DEF hit
    <3>2. QED
      BY <1>1, <2>2, <3>1, CallsMoveOn
  <2>3. QED
    BY <2>1, <2>2 DEF ServerCancels
<1>3. QED
  BY <1>1, <1>2 DEF PageInv, WishesApart, Stored, Shown

LEMMA LetGoKeeps ==
  ASSUME PageInv, StartAnother \/ Reload
  PROVE  PageInv'
<1>1. /\ UNCHANGED <<receipts, lastId, intentOf>> /\ startCall' = NoneMine /\ report' = 0
      /\ storage' = requestId' /\ requestId' = IF report = 0 THEN requestId ELSE 0
      /\ intent' = IF report = 0 THEN intent ELSE intent + 1
  BY DEF StartAnother, Reload, PageInv, Stored
<1>2. IdsMinted' /\ CallsTrue'
  BY <1>1, NoneMineTypes DEF PageInv, IdsMinted, CallsTrue
<1>3. WishesApart'
  BY <1>1 DEF PageInv, WishesApart
<1>4. QED
  BY <1>1, <1>2, <1>3 DEF PageInv, Stored, Shown

LEMMA PageStays == PageInv /\ [PageNext]_pageVars => PageInv'
<1> SUFFICES ASSUME PageInv, [PageNext]_pageVars PROVE PageInv'
  OBVIOUS
<1>1. CASE \/ EditSource \/ TypeToken \/ AskPreview \/ AcceptLosses \/ AskCancel
           \/ \E p \in {"none", "clean", "lossy"} : PreviewAnswered(p)
           \/ \E lost \in BOOLEAN : CancelAnswered(lost)
           \/ UNCHANGED pageVars
  BY <1>1, FormSteps DEF EditSource, TypeToken, AskPreview, AcceptLosses, AskCancel,
     PreviewAnswered, CancelAnswered, pageVars, runVars, historyVars
<1>2. QED
  BY <1>1, StartKeeps, ServerKeeps, AnswerKeeps, PollKeeps, CancelKeeps, LetGoKeeps DEF PageNext

(* One wish makes one base, however often it is started, cancelled, lost    *)
(* and reloaded.                                                           *)
THEOREM WishesMakeOneBase == PageSpec => []OneBasePerWish
<1>1. PageInv => OneBasePerWish
  BY DEF PageInv, IdsMinted, WishesApart, Shown, OneBasePerWish
<1>2. QED
  BY <1>1, PageStarts, PageStays, PTL DEF PageSpec
=============================================================================
