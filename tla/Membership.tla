----------------------------- MODULE Membership -----------------------------
(***************************************************************************)
(* Who belongs to a base: routers/base.ts (create, delete), member.ts,     *)
(* invite.ts, and the role check of lib/roles.ts.                          *)
(*                                                                         *)
(* A procedure checks the caller's role outside any transaction and then   *)
(* runs its transaction; both are steps of a call, so a caller may lose    *)
(* the role it was checked for.  Changes of the member set lock all of its *)
(* rows.  What a commit publishes is a notice on the realtime channel;     *)
(* notices of different calls overtake each other (publish.ts reads the    *)
(* database before it notifies).                                           *)
(***************************************************************************)
EXTENDS Integers, FiniteSets

CONSTANTS
  User, Creator,   \* who created the base
  Invite,          \* rows of base_invite
  MaxCalls,        \* bound: calls in flight
  MaxOps           \* bound: calls in a behaviour

ASSUME MembershipAssumption ==
  /\ IsFiniteSet(User) /\ Creator \in User
  /\ MaxCalls \in Nat \ {0} /\ MaxOps \in Nat

VARIABLES
  base,      \* the base exists
  role,      \* base_member: the role of each user, "none" without a row
  invite,    \* base_invite
  calls,     \* calls between their role check and their commit
  ops,       \* calls begun
  notices    \* notices published and not yet received, with their number

memberVars == <<base, role, invite, calls, ops>>

Role == {"viewer", "editor", "owner"}
Rank == [none |-> 0, viewer |-> 1, editor |-> 2, owner |-> 3]
AtLeast(r, least) == Rank[r] >= Rank[least]

Nobody == [u \in User |-> "none"]

(* A notice: a change and the user it is not echoed to, or a kick.          *)
Notice == {"rows", "structure", "kick"} \X User

Publish(f, ns) == [n \in Notice |-> IF n \in ns THEN f[n] + 1 ELSE f[n]]

Calls ==
  LET members == [User -> Role \cup {"none"}]
  IN [op : {"member"}, by : User, to : User, role : Role \cup {"none"},
      read : BOOLEAN, saw : members]
       \cup [op : {"delete"}, by : User, read : BOOLEAN, saw : members]
       \cup [op : {"invite"}, by : User, to : User, role : Role \ {"owner"},
             read : BOOLEAN, saw : SUBSET Invite]
       \cup [op : {"accept", "withdraw"}, by : User, inv : Invite]

TypeOKMembers ==
  /\ base \in BOOLEAN
  /\ role \in [User -> Role \cup {"none"}]
  /\ invite \in [Invite -> [state : {"none", "pending", "accepted"}, to : User,
                            role : Role \ {"owner"}, expired : BOOLEAN]]
  /\ calls \in SUBSET Calls
  /\ ops \in 0..MaxOps
  /\ notices \in [Notice -> Nat]

(* base.create inserts the base and its owner in one transaction; others    *)
(* may have joined or been invited since.                                   *)
InitMembers ==
  /\ base = TRUE
  /\ role \in {r \in [User -> Role \cup {"none"}] : r[Creator] = "owner"}
  /\ \E asked \in SUBSET Invite, u \in User :
       invite = [i \in Invite |->
         [state |-> IF i \in asked THEN "pending" ELSE "none",
          to |-> u, role |-> "viewer", expired |-> FALSE]]
  /\ calls = {} /\ ops = 0
  /\ notices = [n \in Notice |-> 0]

-----------------------------------------------------------------------------
Begin(c) ==
  /\ Cardinality(calls) < MaxCalls /\ ops < MaxOps
  /\ c \notin calls
  /\ calls' = calls \cup {c} /\ ops' = ops + 1
  /\ UNCHANGED <<base, role, invite, notices>>

End(c) == calls' = calls \ {c} /\ UNCHANGED ops

Proceed(c, d) ==
  /\ calls' = (calls \ {c}) \cup {d}
  /\ UNCHANGED <<base, role, invite, ops, notices>>

(* The call fails: it commits and publishes nothing.                        *)
Reject(c) == End(c) /\ UNCHANGED <<base, role, invite, notices>>

(* updateRole (a role) or remove ("none").                                  *)
BeginMemberChange(by, to, r) ==
  /\ AtLeast(role[by], "owner")
  /\ Begin([op |-> "member", by |-> by, to |-> to, role |-> r,
            read |-> FALSE, saw |-> Nobody])

Locked == \E c \in calls : c.op = "member" /\ c.read

(* Mutant of Unlocked: the member rows are read without FOR UPDATE. *)
Lockless == TRUE

Unlocked == ~Locked

LockMembers(c) ==
  /\ c.op = "member" /\ ~c.read
  /\ Unlocked
  /\ Proceed(c, [c EXCEPT !.read = TRUE, !.saw = role])

IsLastOwner(members, u) ==
  members[u] = "owner" /\ Cardinality({v \in User : members[v] = "owner"}) <= 1

ChangeMember(c) ==
  /\ c.op = "member" /\ c.read
  /\ IF role[c.to] = "none" \/ (c.role # "owner" /\ IsLastOwner(c.saw, c.to))
     THEN Reject(c)
     ELSE /\ role' = [role EXCEPT ![c.to] = c.role]
          /\ notices' = Publish(notices, {<<"kick", c.to>>})
          /\ End(c) /\ UNCHANGED <<base, invite>>

(* base.delete lists the members without a lock, deletes the base and what  *)
(* hangs on it, and kicks the members it listed.                            *)
BeginDelete(by) ==
  /\ AtLeast(role[by], "owner")
  /\ Begin([op |-> "delete", by |-> by, read |-> FALSE, saw |-> Nobody])

ListMembers(c) ==
  /\ c.op = "delete" /\ ~c.read
  /\ Proceed(c, [c EXCEPT !.read = TRUE, !.saw = role])

DeleteBase(c) ==
  /\ c.op = "delete" /\ c.read
  /\ ~Locked
  /\ base' = FALSE
  /\ role' = Nobody
  /\ invite' = [i \in Invite |-> [invite[i] EXCEPT !.state = "none"]]
  /\ notices' = Publish(notices, {<<"structure", c.by>>} \cup
       {<<"kick", u>> : u \in {v \in User : c.saw[v] # "none"}})
  /\ End(c)

-----------------------------------------------------------------------------
(* Invitations.                                                             *)
Pending(to) == {i \in Invite : invite[i].state = "pending" /\ invite[i].to = to}

BeginInvite(by, to, r) ==
  /\ AtLeast(role[by], "owner")
  /\ Begin([op |-> "invite", by |-> by, to |-> to, role |-> r,
            read |-> FALSE, saw |-> {}])

(* The UPDATE of the older invitations of the address; it may wait for one  *)
(* of them, and does not see one inserted meanwhile.                        *)
Supersede(c) ==
  /\ c.op = "invite" /\ ~c.read
  /\ Proceed(c, [c EXCEPT !.read = TRUE, !.saw = Pending(c.to)])

InsertInvite(c) ==
  /\ c.op = "invite" /\ c.read
  /\ IF ~base THEN Reject(c)
     ELSE \E i \in Invite :
       /\ invite[i].state = "none"
       /\ invite' = [j \in Invite |->
            CASE j = i -> [state |-> "pending", to |-> c.to, role |-> c.role, expired |-> FALSE]
              [] j \in c.saw -> [invite[j] EXCEPT !.state = "accepted"]
              [] OTHER -> invite[j]]
       /\ End(c) /\ UNCHANGED <<base, role, notices>>

BeginWithdraw(by, i) ==
  /\ invite[i].state # "none" /\ AtLeast(role[by], "owner")
  /\ Begin([op |-> "withdraw", by |-> by, inv |-> i])

Consume(i) ==
  invite' = IF invite[i].state = "none" THEN invite
            ELSE [invite EXCEPT ![i].state = "accepted"]

Withdraw(c) ==
  /\ c.op = "withdraw"
  /\ Consume(c.inv)
  /\ End(c) /\ UNCHANGED <<base, role, notices>>

Expire(i) ==
  /\ invite[i].state = "pending" /\ ~invite[i].expired
  /\ invite' = [invite EXCEPT ![i].expired = TRUE]
  /\ UNCHANGED <<base, role, calls, ops, notices>>

BeginAccept(by, i) ==
  /\ invite[i].state = "pending" /\ ~invite[i].expired /\ invite[i].to = by
  /\ Begin([op |-> "accept", by |-> by, inv |-> i])

(* ON CONFLICT DO NOTHING: a member keeps the role it has.                  *)
Joined(u, r) == IF role[u] = "none" THEN r ELSE role[u]

Accept(c) ==
  /\ c.op = "accept"
  /\ IF ~base THEN Reject(c)
     ELSE /\ role' = [role EXCEPT ![c.by] = Joined(c.by, invite[c.inv].role)]
          /\ Consume(c.inv)
          /\ End(c) /\ UNCHANGED <<base, notices>>

MemberStep ==
  \/ \E by, to \in User, r \in Role \cup {"none"} : BeginMemberChange(by, to, r)
  \/ \E by, to \in User, r \in Role \ {"owner"} : BeginInvite(by, to, r)
  \/ \E by \in User : BeginDelete(by)
  \/ \E by \in User, i \in Invite : BeginWithdraw(by, i) \/ BeginAccept(by, i)
  \/ \E i \in Invite : Expire(i)
  \/ \E c \in calls :
       \/ LockMembers(c) \/ ChangeMember(c) \/ ListMembers(c) \/ DeleteBase(c)
       \/ Supersede(c) \/ InsertInvite(c) \/ Withdraw(c) \/ Accept(c)

-----------------------------------------------------------------------------
(* While the base exists somebody owns it, whatever two owners do to each   *)
(* other or themselves at the same time, with roles checked beforehand      *)
(* (member.ts:13-21), and whoever accepts an invitation meanwhile.          *)
OwnerRemains == base => \E u \in User : role[u] = "owner"
=============================================================================
