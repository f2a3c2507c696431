---------------------------- MODULE AgentAccess ----------------------------
(***************************************************************************)
(* Requests of API tokens (A/server/agent-access, the token router and the *)
(* REST and MCP routes) against the token's owner, who loses and regains   *)
(* roles, and against revocation, expiry and deletion of bases.            *)
(*                                                                         *)
(* One user owns all tokens.  A base stands for itself and for the tables, *)
(* fields, views and records in it: what matters of an object is which     *)
(* base it is in.  A request resolves its token once; then it calls        *)
(* procedures of the router one after the other, and each of them checks   *)
(* the token's scope and the current role before its transaction.  What a  *)
(* procedure does is an entry of done.                                     *)
(***************************************************************************)
EXTENDS Naturals, FiniteSets, Sequences

CONSTANTS
  Base,          \* bases, those to be created included
  AllBases,      \* the base of a token that is bound to none
  FirstBases,    \* bases that exist at first
  Token,         \* tokens, those to be created included
  Agent,         \* requests
  Tools,         \* operations that requests ask for
  CellsPerWrite, \* cells in the map of a create or update
  MaxActive,     \* MAX_ACTIVE_TOKENS
  MaxRoleChanges \* bound: changes of the owner's roles

ASSUME AgentAssumption ==
  /\ FirstBases \subseteq Base
  /\ AllBases \notin Base
  /\ CellsPerWrite \in Nat
  /\ MaxActive \in Nat /\ MaxRoleChanges \in Nat

VARIABLES
  rank,      \* base |-> role of the owner, "gone" when there is no such base
  roles,     \* changes of roles so far
  token,     \* token |-> its row
  minted,    \* history: token |-> the scope it was created with
  call,      \* request |-> where it is
  done,      \* history: request |-> what its procedures have done and read
  late       \* history: request |-> writes since the role they need is lost

agentVars == <<rank, roles, token, minted, call, done, late>>

(* Roles in the order of ROLE_RANK; a stranger and a deleted base have none. *)
Roles == {"viewer", "editor", "owner"}
RoleRank == [r \in Roles \cup {"none", "gone"} |->
  IF r = "viewer" THEN 1 ELSE IF r = "editor" THEN 2 ELSE IF r = "owner" THEN 3 ELSE 0]
Has(b, role) == RoleRank[rank[b]] >= RoleRank[role]

(* The closed lists of procedures that tokens may call. *)
Queries == {"base.list", "base.get", "table.list", "table.get", "field.list", "view.list",
            "record.list", "record.get", "record.groupCounts", "record.kanbanPage"}
Mutations == {"base.create", "base.rename", "base.delete", "table.create", "table.rename",
              "table.delete", "field.create", "field.rename", "field.updateOptions",
              "field.delete", "view.create", "view.rename", "view.updateOptions",
              "view.delete", "record.create", "record.delete", "cell.upsert"}

(* The role each procedure asserts; "precheck" is the assertion of         *)
(* updateRecordCells, "preview" that of getRecord, outside any procedure.  *)
Needs(p) ==
  CASE p \in {"base.delete", "table.delete"} -> "owner"
    [] p \in Queries \cup {"preview"} -> "viewer"
    [] OTHER -> "editor"

(* What the tools about bases, tables, fields and views call. *)
StructureTools ==
  [list_bases |-> <<"base.list">>, create_base |-> <<"base.create">>,
   update_base |-> <<"base.rename">>, delete_base |-> <<"base.delete">>,
   list_tables |-> <<"table.list">>, create_table |-> <<"table.create">>,
   update_table |-> <<"table.rename">>, delete_table |-> <<"table.delete">>,
   list_fields |-> <<"field.list">>, create_field |-> <<"field.create">>,
   update_field |-> <<"field.rename", "field.updateOptions">>,
   delete_field |-> <<"field.delete">>,
   list_views |-> <<"view.list">>, create_view |-> <<"view.create">>,
   update_view |-> <<"view.rename", "view.updateOptions">>,
   delete_view |-> <<"view.delete">>]

(* A cells map is written by one cell.upsert after the other. *)
Upserts == [i \in 1..CellsPerWrite |-> "cell.upsert"]

(* What the tools about records call; "fetch" is fetchPivotedRecord. *)
RecordTools ==
  [list_records |-> <<"record.list">>,
   get_record |-> <<"preview", "fetch">>,
   create_record |-> <<"record.create">> \o Upserts \o <<"fetch">>,
   update_record |-> <<"precheck">> \o Upserts \o <<"fetch">>,
   delete_record |-> <<"record.delete">>]

Calls(tool) ==
  IF tool \in DOMAIN RecordTools THEN RecordTools[tool] ELSE StructureTools[tool]

(* Requests ask for tools that there are. *)
ASSUME ToolsAssumption == Tools \subseteq (DOMAIN RecordTools \cup DOMAIN StructureTools)

NoToken == [state |-> "none", base |-> AllBases, access |-> "read"]
NotCalled == [at |-> "idle"]

AgentInit ==
  /\ rank = [b \in Base |-> IF b \in FirstBases THEN "owner" ELSE "gone"]
  /\ roles = 0
  /\ token = [t \in Token |-> NoToken]
  /\ minted = token
  /\ call = [c \in Agent |-> NotCalled]
  /\ done = [c \in Agent |-> {}]
  /\ late = [c \in Agent |-> 0]

-----------------------------------------------------------------------------
(***************************************************************************)
(* The owner's tokens and roles.                                           *)
(***************************************************************************)
Unrevoked == {t \in Token : token[t].state \in {"active", "expired"}}

(* token.create counts, then createApiToken asserts the role that the      *)
(* scope needs, then the row is inserted.                                  *)
CountTokens(t) ==
  /\ token[t].state = "none" /\ Cardinality(Unrevoked) < MaxActive
  /\ \E b \in Base \cup {AllBases}, a \in {"read", "write"} :
       /\ b # AllBases => Has(b, IF a = "write" THEN "editor" ELSE "viewer")
       /\ token' = [token EXCEPT ![t] = [state |-> "counted", base |-> b, access |-> a]]
  /\ UNCHANGED <<rank, roles, minted, call, done, late>>

(* The insert refers to the base, if there is one. *)
InsertToken(t) ==
  /\ token[t].state = "counted"
  /\ LET there == token[t].base = AllBases \/ rank[token[t].base] # "gone" IN
     token' = [token EXCEPT ![t].state = IF there THEN "active" ELSE "refused"]
  /\ minted' = [minted EXCEPT ![t] = token'[t]]
  /\ UNCHANGED <<rank, roles, call, done, late>>

Revoke(t) ==
  /\ token[t].state \in {"active", "expired"}
  /\ token' = [token EXCEPT ![t].state = "revoked"]
  /\ UNCHANGED <<rank, roles, minted, call, done, late>>

ExpireToken(t) ==
  /\ token[t].state = "active"
  /\ token' = [token EXCEPT ![t].state = "expired"]
  /\ UNCHANGED <<rank, roles, minted, call, done, late>>

(* Another owner changes the role, or removes or invites the user. *)
ChangeRole(b) ==
  /\ rank[b] # "gone" /\ roles < MaxRoleChanges
  /\ \E r \in (Roles \cup {"none"}) \ {rank[b]} : rank' = [rank EXCEPT ![b] = r]
  /\ roles' = roles + 1
  /\ late' = [c \in Agent |->
       IF call[c].at # "idle" /\ call[c].base = b /\ rank'[b] \in {"editor", "owner"}
         THEN 0 ELSE late[c]]
  /\ UNCHANGED <<token, minted, call, done>>

(* A foreign key that forgets the base instead of the token. *)
UnboundTokens(b) ==
  [t \in Token |-> IF token[t].base = b THEN [token[t] EXCEPT !.base = AllBases] ELSE token[t]]

(* The tokens bound to a base go with it. *)
TokensWithout(b) ==
  [t \in Token |-> IF token[t].base = b /\ token[t].state # "counted"
                     THEN [token[t] EXCEPT !.state = "gone"] ELSE token[t]]

(* Another owner deletes the base. *)
LoseBase(b) ==
  /\ rank[b] # "gone" /\ roles < MaxRoleChanges
  /\ rank' = [rank EXCEPT ![b] = "gone"]
  /\ roles' = roles + 1
  /\ token' = TokensWithout(b)
  /\ UNCHANGED <<minted, call, done, late>>

-----------------------------------------------------------------------------
(***************************************************************************)
(* A request.                                                              *)
(***************************************************************************)
(* A request asks for a tool and names an object, which is in some base. *)
Arrive(c) ==
  /\ call[c].at = "idle"
  /\ \E tool \in Tools, t \in Token, b \in FirstBases :
       call' = [call EXCEPT ![c] =
         [at |-> "resolve", token |-> t, base |-> b, todo |-> Calls(tool), failed |-> FALSE]]
  /\ UNCHANGED <<rank, roles, token, minted, done, late>>

Answered(c, answer) == [call EXCEPT ![c].at = answer, ![c].todo = <<>>]

(* The request goes on in the scope of the token as its row is now. *)
InScope(c, t) ==
  [call EXCEPT ![c] = [f \in DOMAIN call[c] \cup {"scope"} |->
     IF f = "scope" THEN [base |-> t.base, access |-> t.access]
     ELSE IF f = "at" THEN "check" ELSE call[c][f]]]

(* handleAgentRequest: 401 without a live token; a token that has used up  *)
(* its window, which any request may meet, gets 429.                       *)
Resolve(c) ==
  /\ call[c].at = "resolve"
  /\ LET t == token[call[c].token] IN
     call' \in (IF t.state = "active" THEN {InScope(c, t), Answered(c, "limited")}
                ELSE {Answered(c, "unauthorized")})
  /\ UNCHANGED <<rank, roles, token, minted, done, late>>

(* assertAgentProcedure; prechecks are no procedures. *)
Permitted(scope, p) ==
  \/ p \in {"precheck", "preview"}
  \/ p \in Queries
  \/ /\ p \in Mutations /\ scope.access = "write"
     /\ p = "base.create" => scope.base = AllBases

(* assertTokenCapability. *)
Capable(scope, b, role) ==
  /\ scope.base \in {AllBases, b}
  /\ scope.access = "read" => role = "viewer"

(* assertRole, and before it assertAgentProcedure.  base.list and          *)
(* base.create are about no given base.                                    *)
Allowed(c, p) ==
  /\ Permitted(call[c].scope, p)
  /\ p \notin {"base.list", "base.create"} =>
       /\ Capable(call[c].scope, call[c].base, Needs(p))
       /\ Has(call[c].base, Needs(p))

Next1(c) == Head(call[c].todo)
Proceed(c) ==
  [call EXCEPT ![c].todo = Tail(@), ![c].at = IF Len(call[c].todo) = 1 THEN "answered" ELSE "check"]

(* A rejected cell is reported and the next one is tried; any other        *)
(* rejection is the answer.                                                *)
Rejected(c, p) ==
  IF p = "cell.upsert" THEN [Proceed(c) EXCEPT ![c].failed = TRUE] ELSE Answered(c, "refused")

Check(c) ==
  /\ call[c].at = "check" /\ Next1(c) # "fetch"
  /\ LET p == Next1(c) IN
     call' = IF ~Allowed(c, p) THEN Rejected(c, p)
             ELSE IF p \in {"precheck", "preview"} THEN Proceed(c)
             ELSE [call EXCEPT ![c].at = "run"]
  /\ UNCHANGED <<rank, roles, token, minted, done, late>>

(* What base.list answers. *)
Listed(c) ==
  {b \in Base : rank[b] \in Roles /\ call[c].scope.base \in {AllBases, b}}

(* A query reads; what is gone reads as nothing. *)
Read(c) ==
  /\ call[c].at = "run" /\ Next1(c) \in Queries
  /\ LET bases == IF Next1(c) = "base.list" THEN Listed(c) ELSE {call[c].base} IN
     done' = [done EXCEPT ![c] = @ \cup {[base |-> b, writes |-> FALSE] : b \in bases}]
  /\ call' = Proceed(c)
  /\ UNCHANGED <<rank, roles, token, minted, late>>

(* The transaction of a mutation commits.  An answer that is lost on the   *)
(* way to the procedure is a rejection.                                    *)
Write(c) ==
  /\ call[c].at = "run" /\ Next1(c) \in Mutations \ {"base.create", "base.delete"}
  /\ rank[call[c].base] # "gone"
  /\ done' = [done EXCEPT ![c] = @ \cup {[base |-> call[c].base, writes |-> TRUE]}]
  /\ late' = [late EXCEPT ![c] = IF Has(call[c].base, Needs(Next1(c))) THEN 0 ELSE @ + 1]
  /\ call' \in {Proceed(c), Rejected(c, Next1(c))}
  /\ UNCHANGED <<rank, roles, token, minted>>

(* The creator owns the new base. *)
CreateBase(c) ==
  /\ call[c].at = "run" /\ Next1(c) = "base.create"
  /\ \E b \in Base \ FirstBases :
       /\ rank[b] = "gone"
       /\ rank' = [rank EXCEPT ![b] = "owner"]
       /\ done' = [done EXCEPT ![c] = @ \cup {[base |-> b, writes |-> TRUE]}]
  /\ call' = Proceed(c)
  /\ UNCHANGED <<roles, token, minted, late>>

RemoveBase(c) ==
  /\ call[c].at = "run" /\ Next1(c) = "base.delete"
  /\ rank' = [rank EXCEPT ![call[c].base] = "gone"]
  /\ token' = TokensWithout(call[c].base)
  /\ done' = [done EXCEPT ![c] = @ \cup {[base |-> call[c].base, writes |-> TRUE]}]
  /\ late' = [late EXCEPT ![c] = IF Has(call[c].base, "owner") THEN 0 ELSE @ + 1]
  /\ call' = Proceed(c)
  /\ UNCHANGED <<roles, minted>>

(* Bad value, conflict, missing row or lost connection: nothing was written. *)
Fail(c) ==
  /\ call[c].at = "run"
  /\ call' = Rejected(c, Next1(c))
  /\ UNCHANGED <<rank, roles, token, minted, done, late>>

(* fetchPivotedRecord checks nothing; the record may be gone by now. *)
Fetch(c) ==
  /\ call[c].at = "check" /\ Next1(c) = "fetch"
  /\ \/ /\ rank[call[c].base] # "gone"
        /\ done' = [done EXCEPT ![c] = @ \cup {[base |-> call[c].base, writes |-> FALSE]}]
        /\ call' = Proceed(c)
     \/ call' = Answered(c, "notfound") /\ UNCHANGED done
  /\ UNCHANGED <<rank, roles, token, minted, late>>

AgentNext ==
  \/ \E t \in Token : CountTokens(t) \/ InsertToken(t) \/ Revoke(t) \/ ExpireToken(t)
  \/ \E b \in Base : ChangeRole(b) \/ LoseBase(b)
  \/ \E c \in Agent :
       \/ Arrive(c) \/ Resolve(c) \/ Check(c) \/ Read(c) \/ Write(c)
       \/ CreateBase(c) \/ RemoveBase(c) \/ Fail(c) \/ Fetch(c)

AgentSpec == AgentInit /\ [][AgentNext]_agentVars

-----------------------------------------------------------------------------
(***************************************************************************)
(* Properties.                                                             *)
(***************************************************************************)
(* A request reads and writes only in the base its token was created for,  *)
(* and writes only if it was created for writing, whatever happens to the  *)
(* token and to the bases meanwhile.                                       *)
WithinMint ==
  \A c \in Agent : \A e \in done[c] :
    LET scope == minted[call[c].token] IN
    /\ scope.base \in {AllBases, e.base}
    /\ e.writes => scope.access = "write"

(* Once the owner has lost the role, at most one more write of a request   *)
(* lands: the one whose check had passed.                                  *)
OneLateWrite == \A c \in Agent : late[c] <= 1

(* A token is good for what it was created for and as long as its owner's    *)
(* role is, but for one write.                                              *)
TokenBounded == WithinMint /\ OneLateWrite

(* As many tokens as the limit says, whoever creates them at once; two     *)
(* creations that count before either inserts pass it.                     *)
ActiveBounded == Cardinality({t \in Token : token[t].state = "active"}) <= MaxActive
=============================================================================
