--------------------------- MODULE RealtimeProofs ---------------------------
(***************************************************************************)
(* Theorems about Membership and Realtime, for any users, invitations,     *)
(* pages and connections.                                                  *)
(***************************************************************************)
EXTENDS Realtime, FiniteSetTheorems, TLAPS

-----------------------------------------------------------------------------
(***************************************************************************)
(* Types of the members.                                                   *)
(***************************************************************************)
LEMMA PublishTyped ==
  ASSUME NEW f \in [Notice -> Nat], NEW ns
  PROVE  Publish(f, ns) \in [Notice -> Nat]
  BY DEF Publish

LEMMA BeginTyped ==
  ASSUME TypeOKMembers, NEW c \in Calls, Begin(c)
  PROVE  TypeOKMembers'
  BY MembershipAssumption DEF Begin, TypeOKMembers

LEMMA ProceedTyped ==
  ASSUME TypeOKMembers, NEW c, NEW d \in Calls, Proceed(c, d)
  PROVE  TypeOKMembers'
  BY DEF Proceed, TypeOKMembers

LEMMA RejectTyped ==
  ASSUME TypeOKMembers, NEW c, Reject(c)
  PROVE  TypeOKMembers'
  BY DEF Reject, End, TypeOKMembers

MemberCalls == [op : {"member"}, by : User, to : User, role : Role \cup {"none"},
                read : BOOLEAN, saw : [User -> Role \cup {"none"}]]
DeleteCalls == [op : {"delete"}, by : User, read : BOOLEAN, saw : [User -> Role \cup {"none"}]]
InviteCalls == [op : {"invite"}, by : User, to : User, role : Role \ {"owner"},
                read : BOOLEAN, saw : SUBSET Invite]
InvCalls == [op : {"accept", "withdraw"}, by : User, inv : Invite]

LEMMA CallKinds ==
  /\ Calls = MemberCalls \cup DeleteCalls \cup InviteCalls \cup InvCalls
  /\ \A c \in Calls :
       /\ c.op = "member" => c \in MemberCalls
       /\ c.op = "delete" => c \in DeleteCalls
       /\ c.op = "invite" => c \in InviteCalls
       /\ c.op \in {"accept", "withdraw"} => c \in InvCalls
  BY DEF Calls, MemberCalls, DeleteCalls, InviteCalls, InvCalls

LEMMA MemberStepTyped ==
  ASSUME TypeOKMembers, MemberStep
  PROVE  TypeOKMembers'
<1> USE MembershipAssumption
<1>0. Nobody \in [User -> Role \cup {"none"}]
  BY DEF Nobody
<1>1. ASSUME NEW by \in User, NEW to \in User, NEW r \in Role \cup {"none"},
             BeginMemberChange(by, to, r)
      PROVE  TypeOKMembers'
  BY <1>0, <1>1, BeginTyped, CallKinds DEF BeginMemberChange, MemberCalls
<1>2. ASSUME NEW by \in User, NEW to \in User, NEW r \in Role \ {"owner"},
             BeginInvite(by, to, r)
      PROVE  TypeOKMembers'
  BY <1>2, BeginTyped, CallKinds DEF BeginInvite, InviteCalls
<1>3. ASSUME NEW by \in User, BeginDelete(by)
      PROVE  TypeOKMembers'
  BY <1>0, <1>3, BeginTyped, CallKinds DEF BeginDelete, DeleteCalls
<1>4. ASSUME NEW by \in User, NEW i \in Invite, BeginWithdraw(by, i) \/ BeginAccept(by, i)
      PROVE  TypeOKMembers'
  BY <1>4, BeginTyped, CallKinds DEF BeginWithdraw, BeginAccept, InvCalls
<1>5. ASSUME NEW i \in Invite, Expire(i)
      PROVE  TypeOKMembers'
  BY <1>5 DEF Expire, TypeOKMembers
<1>6. ASSUME NEW c \in calls
      PROVE  /\ LockMembers(c) \/ ListMembers(c) \/ Supersede(c) => TypeOKMembers'
             /\ ChangeMember(c) \/ DeleteBase(c) => TypeOKMembers'
             /\ InsertInvite(c) \/ Withdraw(c) \/ Accept(c) => TypeOKMembers'
  <2>0. c \in Calls /\ role \in [User -> Role \cup {"none"}]
    BY DEF TypeOKMembers
  <2>1. ASSUME LockMembers(c)
        PROVE  TypeOKMembers'
    <3>1. c \in MemberCalls
      BY <2>0, <2>1, CallKinds DEF LockMembers
    <3>2. [c EXCEPT !.read = TRUE, !.saw = role] \in MemberCalls
      BY <2>0, <3>1 DEF MemberCalls
    <3>3. QED
      BY <2>1, <3>2, ProceedTyped, CallKinds DEF LockMembers
  <2>2. ASSUME ListMembers(c)
        PROVE  TypeOKMembers'
    <3>1. c \in DeleteCalls
      BY <2>0, <2>2, CallKinds DEF ListMembers
    <3>2. [c EXCEPT !.read = TRUE, !.saw = role] \in DeleteCalls
      BY <2>0, <3>1 DEF DeleteCalls
    <3>3. QED
      BY <2>2, <3>2, ProceedTyped, CallKinds DEF ListMembers
  <2>3. ASSUME Supersede(c)
        PROVE  TypeOKMembers'
    <3>1. c \in InviteCalls
      BY <2>0, <2>3, CallKinds DEF Supersede
    <3>2. [c EXCEPT !.read = TRUE, !.saw = Pending(c.to)] \in InviteCalls
      BY <2>0, <3>1 DEF InviteCalls, Pending
    <3>3. QED
      BY <2>3, <3>2, ProceedTyped, CallKinds DEF Supersede
  <2>4. ASSUME ChangeMember(c)
        PROVE  TypeOKMembers'
    <3>1. c \in MemberCalls
      BY <2>0, <2>4, CallKinds DEF ChangeMember
    <3>2. QED
      BY <2>4, <3>1, RejectTyped, PublishTyped DEF ChangeMember, MemberCalls, End, TypeOKMembers
  <2>5. ASSUME DeleteBase(c)
        PROVE  TypeOKMembers'
    <3>1. invite' \in [Invite -> [state : {"none", "pending", "accepted"}, to : User,
                                  role : Role \ {"owner"}, expired : BOOLEAN]]
      BY <2>5 DEF DeleteBase, TypeOKMembers
    <3>2. QED
      BY <1>0, <2>5, <3>1, PublishTyped DEF DeleteBase, End, TypeOKMembers
  <2>6. ASSUME InsertInvite(c)
        PROVE  TypeOKMembers'
    <3>1. c \in InviteCalls
      BY <2>0, <2>6, CallKinds DEF InsertInvite
    <3>2. CASE base
      <4>1. PICK i \in Invite :
              invite' = [j \in Invite |->
                CASE j = i -> [state |-> "pending", to |-> c.to, role |-> c.role, expired |-> FALSE]
                  [] j \in c.saw -> [invite[j] EXCEPT !.state = "accepted"]
                  [] OTHER -> invite[j]]
        BY <2>6, <3>2 DEF InsertInvite
      <4>2. c.to \in User /\ c.role \in Role \ {"owner"}
        BY <3>1 DEF InviteCalls
      <4>3. invite' \in [Invite -> [state : {"none", "pending", "accepted"}, to : User,
                                    role : Role \ {"owner"}, expired : BOOLEAN]]
        BY <4>1, <4>2 DEF TypeOKMembers
      <4>4. UNCHANGED <<base, role, ops, notices>> /\ calls' = calls \ {c}
        BY <2>6, <3>2 DEF InsertInvite, End
      <4>5. QED
        BY <4>3, <4>4 DEF TypeOKMembers
    <3>3. QED
      BY <2>6, <3>2, RejectTyped DEF InsertInvite
  <2>7. ASSUME Withdraw(c)
        PROVE  TypeOKMembers'
    BY <2>7 DEF Withdraw, Consume, End, TypeOKMembers
  <2>8. ASSUME Accept(c)
        PROVE  TypeOKMembers'
    <3>1. c \in InvCalls
      BY <2>0, <2>8, CallKinds DEF Accept
    <3>2. c.by \in User /\ c.inv \in Invite
      BY <3>1 DEF InvCalls
    <3>3. CASE base
      <4>1. role' \in [User -> Role \cup {"none"}]
        BY <2>8, <3>2, <3>3 DEF Accept, Joined, TypeOKMembers
      <4>2. invite' \in [Invite -> [state : {"none", "pending", "accepted"}, to : User,
                                    role : Role \ {"owner"}, expired : BOOLEAN]]
        BY <2>8, <3>2, <3>3 DEF Accept, Consume, TypeOKMembers
      <4>3. UNCHANGED <<base, ops, notices>> /\ calls' = calls \ {c}
        BY <2>8, <3>3 DEF Accept, End
      <4>4. QED
        BY <4>1, <4>2, <4>3 DEF TypeOKMembers
    <3>4. QED
      BY <2>8, <3>3, RejectTyped DEF Accept
  <2>9. QED
    BY <2>1, <2>2, <2>3, <2>4, <2>5, <2>6, <2>7, <2>8
<1>7. QED
  BY <1>1, <1>2, <1>3, <1>4, <1>5, <1>6 DEF MemberStep

LEMMA InitMembersTyped ==
  ASSUME InitMembers
  PROVE  TypeOKMembers
<1> USE MembershipAssumption
<1>1. PICK asked \in SUBSET Invite, u \in User :
        invite = [i \in Invite |-> [state |-> IF i \in asked THEN "pending" ELSE "none",
                                   to |-> u, role |-> "viewer", expired |-> FALSE]]
  BY DEF InitMembers
<1>2. invite \in [Invite -> [state : {"none", "pending", "accepted"}, to : User,
                             role : Role \ {"owner"}, expired : BOOLEAN]]
  BY <1>1 DEF Role
<1>3. QED
  BY <1>2 DEF InitMembers, TypeOKMembers

-----------------------------------------------------------------------------
(***************************************************************************)
(* Somebody owns the base.  A call that has locked the member rows is the   *)
(* only one, and the owners are those it saw: meanwhile only an invited     *)
(* user may join, and never as an owner.                                   *)
(***************************************************************************)
Owners(members) == {u \in User : members[u] = "owner"}

HoldsRows(c) == c.op = "member" /\ c.read

OneHolder == \A c, d \in calls : HoldsRows(c) /\ HoldsRows(d) => c = d

SawOwners == \A c \in calls : HoldsRows(c) => Owners(c.saw) = Owners(role)

Owned ==
  /\ TypeOKMembers /\ OneHolder /\ SawOwners /\ OwnerRemains

LEMMA BeginOwned ==
  ASSUME Owned, TypeOKMembers', NEW c, Begin(c), ~HoldsRows(c)
  PROVE  Owned'
  BY DEF Begin, Owned, OneHolder, SawOwners, OwnerRemains

(* A call ends or goes on without the lock, and no owner comes or goes.     *)
LEMMA CallMoves ==
  ASSUME Owned, TypeOKMembers', \A d \in calls' \ calls : ~HoldsRows(d),
         Owners(role)' = Owners(role), base' => base
  PROVE  Owned'
<1>1. OneHolder' /\ SawOwners'
  BY DEF Owned, OneHolder, SawOwners
<1>2. OwnerRemains'
  BY DEF Owned, OwnerRemains, Owners
<1>3. QED
  BY <1>1, <1>2 DEF Owned

(* Two owners at least: one remains whoever steps down. *)
LEMMA AnotherOwner ==
  ASSUME NEW members, NEW u \in User, u \in Owners(members), ~IsLastOwner(members, u)
  PROVE  \E v \in Owners(members) : v # u
<1> SUFFICES ASSUME \A v \in Owners(members) : v = u
             PROVE  FALSE
  OBVIOUS
<1>1. Owners(members) = {u}
  OBVIOUS
<1>2. Cardinality(Owners(members)) = 1
  BY <1>1, FS_Singleton
<1>3. QED
  BY <1>2 DEF IsLastOwner, Owners

LEMMA ChangeOwned ==
  ASSUME Owned, TypeOKMembers', NEW c \in calls, ChangeMember(c)
  PROVE  Owned'
<1>1. HoldsRows(c) /\ c \in MemberCalls
  BY CallKinds DEF ChangeMember, HoldsRows, Owned, TypeOKMembers
<1>2. c.to \in User /\ role \in [User -> Role \cup {"none"}]
  BY <1>1 DEF MemberCalls, Owned, TypeOKMembers
<1>3. calls' = calls \ {c} /\ base' = base
  BY DEF ChangeMember, Reject, End
<1>4. CASE role' = role
  <2>1. Owners(role)' = Owners(role)
    BY <1>4 DEF Owners
  <2>2. QED
    BY <1>3, <2>1, CallMoves
<1>5. CASE role' = [role EXCEPT ![c.to] = c.role] /\ (c.role = "owner" \/ ~IsLastOwner(c.saw, c.to))
  <2>1. \A d \in calls' : ~HoldsRows(d)
    BY <1>1, <1>3 DEF Owned, OneHolder
  <2>2. Owners(c.saw) = Owners(role)
    BY <1>1 DEF Owned, SawOwners
  <2>3. base => \E u \in User : role'[u] = "owner"
    <3>1. CASE c.role = "owner"
      BY <1>2, <1>5, <3>1
    <3>2. CASE c.to \notin Owners(role)
      BY <1>2, <1>5, <3>2 DEF Owned, OwnerRemains, Owners
    <3>3. CASE c.to \in Owners(role) /\ ~IsLastOwner(c.saw, c.to)
      <4>1. PICK v \in Owners(role) : v # c.to
        BY <1>2, <2>2, <3>3, AnotherOwner
      <4>2. QED
        BY <1>2, <1>5, <4>1 DEF Owners
    <3>4. QED
      BY <1>5, <3>1, <3>2, <3>3
  <2>4. OneHolder' /\ SawOwners' /\ OwnerRemains'
    BY <1>3, <2>1, <2>3 DEF OneHolder, SawOwners, OwnerRemains
  <2>5. QED
    BY <2>4 DEF Owned
<1>6. QED
  BY <1>4, <1>5 DEF ChangeMember, Reject

LEMMA MemberStepOwned ==
  ASSUME Owned, MemberStep
  PROVE  Owned'
<1> TypeOKMembers /\ TypeOKMembers'
  BY MemberStepTyped DEF Owned
<1>1. ASSUME NEW c, Begin(c), ~HoldsRows(c)
      PROVE  Owned'
  BY <1>1, BeginOwned
<1>2. ASSUME NEW by \in User, NEW to \in User, NEW r \in Role \cup {"none"},
             BeginMemberChange(by, to, r) \/ BeginInvite(by, to, r) \/ BeginDelete(by)
      PROVE  Owned'
  BY <1>2, BeginOwned DEF BeginMemberChange, BeginInvite, BeginDelete, HoldsRows
<1>3. ASSUME NEW by \in User, NEW i \in Invite, BeginWithdraw(by, i) \/ BeginAccept(by, i)
      PROVE  Owned'
  BY <1>3, BeginOwned DEF BeginWithdraw, BeginAccept, HoldsRows
<1>4. ASSUME NEW i \in Invite, Expire(i)
      PROVE  Owned'
  BY <1>4 DEF Expire, Owned, OneHolder, SawOwners, OwnerRemains
<1>5. ASSUME NEW c \in calls
      PROVE  /\ LockMembers(c) \/ DeleteBase(c) => Owned'
             /\ ListMembers(c) \/ Supersede(c) => Owned'
             /\ InsertInvite(c) \/ Withdraw(c) \/ Accept(c) => Owned'
  <2>0. c \in Calls /\ role \in [User -> Role \cup {"none"}]
    BY DEF TypeOKMembers
  <2>1. ASSUME LockMembers(c)
        PROVE  Owned'
    <3>1. c \in MemberCalls
      BY <2>0, <2>1, CallKinds DEF LockMembers
    <3> DEFINE d == [c EXCEPT !.read = TRUE, !.saw = role]
    <3>2. d.saw = role
      BY <3>1 DEF MemberCalls
    <3> HIDE DEF d
    <3>3. /\ calls' = (calls \ {c}) \cup {d} /\ \A e \in calls : ~HoldsRows(e)
          /\ UNCHANGED <<base, role>>
      BY <2>1 DEF LockMembers, Unlocked, Locked, HoldsRows, Proceed, d
    <3>4. OneHolder' /\ SawOwners' /\ OwnerRemains'
      BY <3>2, <3>3 DEF Owned, OneHolder, SawOwners, OwnerRemains, Owners
    <3>5. QED
      BY <3>4 DEF Owned
  <2>2. ASSUME DeleteBase(c)
        PROVE  Owned'
    BY <2>2 DEF DeleteBase, Locked, End, Owned, OneHolder, SawOwners, HoldsRows, OwnerRemains
  <2>3. ASSUME ListMembers(c) \/ Supersede(c)
        PROVE  Owned'
    <3>1. PICK d : Proceed(c, d) /\ ~HoldsRows(d)
      <4>1. CASE ListMembers(c)
        <5>1. c \in DeleteCalls
          BY <2>0, <4>1, CallKinds DEF ListMembers
        <5>2. [c EXCEPT !.read = TRUE, !.saw = role].op = "delete"
          BY <5>1 DEF DeleteCalls
        <5>3. QED
          BY <4>1, <5>2 DEF ListMembers, HoldsRows
      <4>2. CASE Supersede(c)
        <5>1. c \in InviteCalls
          BY <2>0, <4>2, CallKinds DEF Supersede
        <5>2. [c EXCEPT !.read = TRUE, !.saw = Pending(c.to)].op = "invite"
          BY <5>1 DEF InviteCalls
        <5>3. QED
          BY <4>2, <5>2 DEF Supersede, HoldsRows
      <4>3. QED
        BY <2>3, <4>1, <4>2
    <3>2. Owners(role)' = Owners(role)
      BY <3>1 DEF Proceed, Owners
    <3>3. QED
      BY <3>1, <3>2, CallMoves DEF Proceed
  <2>4. ASSUME InsertInvite(c) \/ Withdraw(c)
        PROVE  Owned'
    <3>1. calls' = calls \ {c} /\ UNCHANGED <<base, role>>
      BY <2>4 DEF InsertInvite, Withdraw, Reject, End
    <3>2. Owners(role)' = Owners(role)
      BY <3>1 DEF Owners
    <3>3. QED
      BY <3>1, <3>2, CallMoves
  <2>5. ASSUME Accept(c)
        PROVE  Owned'
    <3>1. c \in InvCalls
      BY <2>0, <2>5, CallKinds DEF Accept
    <3>2. c.by \in User /\ c.inv \in Invite
      BY <3>1 DEF InvCalls
    <3>3. calls' = calls \ {c} /\ base' = base
      BY <2>5 DEF Accept, Reject, End
    <3>4. invite[c.inv].role # "owner"
      BY <3>2 DEF TypeOKMembers
    <3>5. Owners(role)' = Owners(role)
      BY <2>0, <2>5, <3>2, <3>4 DEF Accept, Reject, Joined, Owners
    <3>6. QED
      BY <3>3, <3>5, CallMoves
  <2>6. QED
    BY <2>1, <2>2, <2>3, <2>4, <2>5
<1>6. QED
  BY <1>2, <1>3, <1>4, <1>5, ChangeOwned DEF MemberStep

(* Everything but a step of a member call and its notices leaves the        *)
(* members alone.                                                          *)
LEMMA OthersOwned ==
  ASSUME Owned, UNCHANGED memberVars, TypeOKMembers'
  PROVE  Owned'
  BY DEF Owned, memberVars, OneHolder, SawOwners, OwnerRemains

LEMMA NoticesTyped ==
  ASSUME TypeOKMembers, UNCHANGED memberVars,
         \/ notices' = notices
         \/ \E n : n \in Notice /\ Consumed(n)
         \/ \E ns : notices' = Publish(notices, ns)
  PROVE  TypeOKMembers'
<1>1. notices' \in [Notice -> Nat]
  <2>1. ASSUME NEW n \in Notice, Consumed(n)
        PROVE  notices' \in [Notice -> Nat]
    BY <2>1 DEF Consumed, TypeOKMembers
  <2>2. QED
    BY <2>1, PublishTyped DEF TypeOKMembers
<1>2. QED
  BY <1>1 DEF TypeOKMembers, memberVars

LEMMA MembersOrNotices ==
  ASSUME [Next]_vars
  PROVE  \/ MemberStep
         \/ /\ UNCHANGED memberVars
            /\ \/ notices' = notices
               \/ \E n : n \in Notice /\ Consumed(n)
               \/ \E ns : notices' = Publish(notices, ns)
<1> DEFINE Quiet == UNCHANGED memberVars /\ notices' = notices
<1>1. ASSUME NEW k \in Kind, NEW by \in User, HandleChange(k, by)
      PROVE  UNCHANGED memberVars /\ \E n : n \in Notice /\ Consumed(n)
  BY <1>1 DEF HandleChange, Kind, Notice
<1>2. ASSUME NEW u \in User, HandleKick(u)
      PROVE  UNCHANGED memberVars /\ \E n : n \in Notice /\ Consumed(n)
  BY <1>2 DEF HandleKick, Notice
<1>3. ASSUME NEW n \in Notice, MissNotice(n)
      PROVE  UNCHANGED memberVars /\ Consumed(n)
  BY <1>3 DEF MissNotice
<1>4. ASSUME NEW k \in Kind, NEW by \in User, Commit(k, by)
      PROVE  UNCHANGED memberVars /\ \E ns : notices' = Publish(notices, ns)
  BY <1>4 DEF Commit
<1>5. MembersAct => MemberStep
  BY DEF MembersAct
<1>6. ASSUME LoseListener \/ Relisten \/ UNCHANGED vars
      PROVE  Quiet
  BY <1>6 DEF LoseListener, Relisten, vars
<1>7. ASSUME NEW c \in Socket, Gateway(c) \/ Sweep(c) \/ Break(c) \/ Closed(c)
      PROVE  Quiet
  BY <1>7 DEF Gateway, ReceiveFrame, Join, Disconnect, Sweep, Break, Closed, Lost
<1>8. ASSUME NEW p \in Page, Browser(p)
      PROVE  Quiet
  BY <1>8 DEF Browser, Enter, Leave, Teardown, Connect, ReceiveChange, Flush, Compensate, Read, Show
<1>9. QED
  BY <1>1, <1>2, <1>3, <1>4, <1>5, <1>6, <1>7, <1>8 DEF Next

LEMMA StepOwned ==
  ASSUME Owned, [Next]_vars
  PROVE  Owned'
  BY MembersOrNotices, MemberStepOwned, OthersOwned, NoticesTyped DEF Owned

LEMMA InitOwned ==
  ASSUME Init
  PROVE  Owned
<1>1. InitMembers
  BY DEF Init
<1>2. TypeOKMembers
  BY <1>1, InitMembersTyped
<1>3. OneHolder /\ SawOwners /\ OwnerRemains
  BY <1>1, MembershipAssumption DEF InitMembers, OneHolder, SawOwners, OwnerRemains
<1>4. QED
  BY <1>2, <1>3 DEF Owned

(* While the base exists somebody owns it, whatever two owners do to each   *)
(* other or themselves at the same time, with roles checked beforehand      *)
(* (member.ts:13-21), and whoever accepts an invitation meanwhile.          *)
THEOREM SomebodyOwns == Spec => []OwnerRemains
<1>1. Owned => OwnerRemains
  BY DEF Owned
<1>2. QED
  BY <1>1, InitOwned, StepOwned, PTL DEF Spec

-----------------------------------------------------------------------------
(***************************************************************************)
(* Types of the gateway and the pages.                                     *)
(***************************************************************************)
GatewayTyped ==
  /\ version \in [Kind -> 0..MaxChanges]
  /\ listening \in BOOLEAN /\ gaps \in 0..MaxGaps
  /\ clients \in SUBSET Socket /\ closing \in SUBSET clients
  /\ joined \in SUBSET Socket /\ channel \in SUBSET Socket
  /\ lookups \in [Socket -> SUBSET BOOLEAN]
  /\ up \in [Socket -> Seq({"subscribe", "unsubscribe"})]
  /\ down \in [Socket -> Seq(Kind)]

PagesTyped ==
  /\ visiting \in SUBSET wanted /\ wanted \in SUBSET Page
  /\ ws \in [Page -> Socket \cup {Offline}]
  /\ moves \in 0..MaxMoves
  /\ hasConnected \in SUBSET wanted /\ compensate \in SUBSET Page

QueriesTyped ==
  /\ pending \in [Page -> SUBSET Kind]
  /\ fetch \in [Page -> [Kind -> {Idle, Sent} \cup Nat]]
  /\ seen \in [Page -> [Kind -> {NoData} \cup Nat]]
  /\ owed \in [Page -> [Kind -> Nat]]

Typed == GatewayTyped /\ PagesTyped /\ QueriesTyped

LEMMA TypeParts == TypeOK <=> TypeOKMembers /\ Typed
  BY DEF TypeOK, Typed, GatewayTyped, PagesTyped, QueriesTyped

LEMMA ServerTyped ==
  ASSUME Typed, TypeOKMembers,
         \/ MembersAct
         \/ \E k \in Kind, by \in User : Commit(k, by) \/ HandleChange(k, by)
         \/ \E u \in User : HandleKick(u)
         \/ LoseListener \/ (\E n \in Notice : MissNotice(n)) \/ Relisten
         \/ \E c \in Socket : Gateway(c) \/ Sweep(c) \/ Break(c) \/ Closed(c)
         \/ UNCHANGED vars
  PROVE  Typed'
<1> USE RealtimeAssumption DEF gatewayVars, pageVars, queryVars
<1>0. Blank \in [Kind -> Nat]
  BY DEF Blank
<1>1. CASE MembersAct
  <2>1. owed' \in [Page -> [Kind -> Nat]]
    BY <1>0, <1>1 DEF MembersAct, Typed, QueriesTyped
  <2>2. QED
    BY <1>1, <2>1 DEF MembersAct, Typed, GatewayTyped, PagesTyped, QueriesTyped
<1>2. ASSUME NEW k \in Kind, NEW by \in User, Commit(k, by)
      PROVE  Typed'
  <2>1. version' \in [Kind -> 0..MaxChanges]
    BY <1>2 DEF Commit, Typed, GatewayTyped, Kind
  <2>2. owed' \in [Page -> [Kind -> Nat]]
    BY <1>2, <2>1 DEF Commit, Typed, QueriesTyped
  <2>3. QED
    BY <1>2, <2>1, <2>2 DEF Commit, Typed, GatewayTyped, PagesTyped, QueriesTyped
<1>3. ASSUME NEW k \in Kind, NEW e, Broadcast(k, e)
      PROVE  down' \in [Socket -> Seq(Kind)]
  BY <1>3 DEF Broadcast, Typed, GatewayTyped
<1>4. ASSUME NEW k \in Kind, NEW by \in User, HandleChange(k, by)
      PROVE  Typed'
  BY <1>3, <1>4 DEF HandleChange, Typed, GatewayTyped, PagesTyped, QueriesTyped
<1>5. ASSUME NEW u \in User, HandleKick(u)
      PROVE  Typed'
  BY <1>5 DEF HandleKick, Typed, GatewayTyped, PagesTyped, QueriesTyped
<1>6. CASE LoseListener \/ (\E n \in Notice : MissNotice(n)) \/ UNCHANGED vars
  <2>1. GatewayTyped'
    <3>1. CASE LoseListener
      <4>0. gaps \in 0..MaxGaps /\ gaps < MaxGaps /\ gaps' = gaps + 1 /\ ~listening'
        BY <3>1 DEF LoseListener, Typed, GatewayTyped
      <4>1. gaps' \in 0..MaxGaps /\ listening' \in BOOLEAN
        <5>1. MaxGaps \in Nat
          OBVIOUS
        <5>2. gaps' \in 0..MaxGaps
          BY ONLY <4>0, <5>1
        <5>3. QED
          BY <3>1, <5>2 DEF LoseListener
      <4>2. QED
        BY <3>1, <4>1 DEF LoseListener, Typed, GatewayTyped
    <3>2. CASE (\E n \in Notice : MissNotice(n)) \/ UNCHANGED vars
      BY <3>2 DEF MissNotice, vars, Typed, GatewayTyped
    <3>3. QED
      BY <1>6, <3>1, <3>2
  <2>2. PagesTyped' /\ QueriesTyped'
    BY <1>6 DEF LoseListener, MissNotice, vars, Typed, PagesTyped, QueriesTyped
  <2>3. QED
    BY <2>1, <2>2 DEF Typed
<1>7. CASE Relisten
  <2>1. "structure" \in Kind
    BY DEF Kind
  <2>2. QED
    BY <1>3, <1>7, <2>1 DEF Relisten, Rebroadcast, Typed, GatewayTyped, PagesTyped, QueriesTyped
<1>8. ASSUME NEW c \in Socket, ReceiveFrame(c)
      PROVE  Typed'
  <2>1. up' \in [Socket -> Seq({"subscribe", "unsubscribe"})]
    BY <1>8 DEF ReceiveFrame, Typed, GatewayTyped
  <2>2. lookups' \in [Socket -> SUBSET BOOLEAN]
    <3> DEFINE member == role[Holder(c)] # "none"
    <3> DEFINE new == lookups[c] \cup {member}
    <3>1. new \in SUBSET BOOLEAN
      BY DEF Typed, GatewayTyped
    <3>2. lookups' \in {lookups, [lookups EXCEPT ![c] = new]}
      BY <1>8 DEF ReceiveFrame
    <3> HIDE DEF new
    <3>3. QED
      BY <3>1, <3>2 DEF Typed, GatewayTyped
  <2>3. QED
    BY <1>8, <2>1, <2>2 DEF ReceiveFrame, Typed, GatewayTyped, PagesTyped, QueriesTyped
<1>9. ASSUME NEW c \in Socket, NEW b \in BOOLEAN, Join(c, b)
      PROVE  Typed'
  <2>1. lookups' \in [Socket -> SUBSET BOOLEAN]
    BY <1>9 DEF Join, Typed, GatewayTyped
  <2>2. owed' \in [Page -> [Kind -> Nat]]
    <3> DEFINE new == [k \in Kind |-> IF seen[PageOf[c]][k] = NoData THEN 0 ELSE version[k]]
    <3>1. new \in [Kind -> Nat]
      BY DEF Typed, GatewayTyped
    <3>2. owed' \in {owed, [owed EXCEPT ![PageOf[c]] = new]}
      BY <1>9 DEF Join
    <3> HIDE DEF new
    <3>3. QED
      BY <3>1, <3>2 DEF Typed, QueriesTyped
  <2>3. joined' \in SUBSET Socket /\ channel' \in SUBSET Socket
    BY <1>9 DEF Join, Typed, GatewayTyped
  <2>4. QED
    BY <1>9, <2>1, <2>2, <2>3 DEF Join, Typed, GatewayTyped, PagesTyped, QueriesTyped
<1>10. ASSUME NEW c \in Socket, Disconnect(c) \/ Sweep(c)
       PROVE  Typed'
  BY <1>10 DEF Disconnect, Sweep, Forget, Typed, GatewayTyped, PagesTyped, QueriesTyped
<1>11. ASSUME NEW c \in Socket, Break(c) \/ Closed(c)
       PROVE  Typed'
  <2>1. up' \in [Socket -> Seq({"subscribe", "unsubscribe"})] /\ down' \in [Socket -> Seq(Kind)]
    <3>1. Hush(c)
      BY <1>11 DEF Break, Closed, Lost
    <3>2. QED
      BY <3>1 DEF Hush, Typed, GatewayTyped
  <2>2. moves' \in 0..MaxMoves
    BY <1>11 DEF Break, Closed, Move, Typed, PagesTyped
  <2>3. ws' \in [Page -> Socket \cup {Offline}]
    BY <1>11 DEF Break, Closed, Lost, Typed, PagesTyped
  <2>4. QED
    BY <1>11, <2>1, <2>2, <2>3
       DEF Break, Closed, Lost, Typed, GatewayTyped, PagesTyped, QueriesTyped
<1>12. QED
  BY <1>1, <1>2, <1>4, <1>5, <1>6, <1>7, <1>8, <1>9, <1>10, <1>11 DEF Gateway

LEMMA BrowserTyped ==
  ASSUME Typed, TypeOKMembers, NEW p \in Page, Browser(p)
  PROVE  Typed'
<1> USE RealtimeAssumption DEF gatewayVars, pageVars, queryVars
<1>0. /\ Blank \in [Kind -> Nat] /\ NoQueries \in [Kind -> {Idle, Sent} \cup Nat]
      /\ Unloaded \in [Kind -> {NoData} \cup Nat]
      /\ version \in [Kind -> {NoData} \cup Nat]
  BY DEF Blank, NoQueries, Unloaded, Typed, GatewayTyped
<1>1. ASSUME NEW f \in {"subscribe", "unsubscribe"}, SendUp(p, f)
      PROVE  up' \in [Socket -> Seq({"subscribe", "unsubscribe"})]
  BY <1>1 DEF SendUp, Typed, GatewayTyped, PagesTyped
<1>2. ASSUME ForgetQueries(p)
      PROVE  /\ fetch' \in [Page -> [Kind -> {Idle, Sent} \cup Nat]]
             /\ seen' \in [Page -> [Kind -> {NoData} \cup Nat]]
             /\ owed' \in [Page -> [Kind -> Nat]]
  BY <1>0, <1>2 DEF ForgetQueries, Typed, QueriesTyped
<1>3. ASSUME NEW kinds, fetch' = [fetch EXCEPT ![p] = Invalidated(p, kinds)]
      PROVE  fetch' \in [Page -> [Kind -> {Idle, Sent} \cup Nat]]
  <2>1. Invalidated(p, kinds) \in [Kind -> {Idle, Sent} \cup Nat]
    BY DEF Invalidated, Typed, QueriesTyped
  <2>2. QED
    BY <1>3, <2>1 DEF Typed, QueriesTyped
<1>4. CASE Enter(p)
  <2>1. seen' \in [Page -> [Kind -> {NoData} \cup Nat]]
    BY <1>0, <1>4 DEF Enter, Typed, QueriesTyped
  <2>2. QED
    BY <1>1, <1>4, <2>1 DEF Enter, Typed, GatewayTyped, PagesTyped, QueriesTyped
<1>5. CASE Leave(p)
  <2>1. moves' \in 0..MaxMoves
    BY <1>5 DEF Leave, Move, Typed, PagesTyped
  <2>2. QED
    BY <1>1, <1>2, <1>5, <2>1 DEF Leave, Typed, GatewayTyped, PagesTyped, QueriesTyped
<1>6. CASE Teardown(p)
  <2>1. moves' \in 0..MaxMoves
    BY <1>6 DEF Teardown, Move, Typed, PagesTyped
  <2>2. up' \in [Socket -> Seq({"subscribe", "unsubscribe"})] /\ down' \in [Socket -> Seq(Kind)]
    BY <1>6 DEF Teardown, Hush, Typed, GatewayTyped
  <2>3. ws' \in [Page -> Socket \cup {Offline}]
    BY <1>6 DEF Teardown, Typed, PagesTyped
  <2>4. QED
    BY <1>2, <1>6, <2>1, <2>2, <2>3 DEF Teardown, Typed, GatewayTyped, PagesTyped, QueriesTyped
<1>7. CASE Connect(p)
  <2> DEFINE c == CHOOSE c \in Unused(p) : TRUE
  <2>1. c \in Socket
    BY <1>7 DEF Connect, Unused
  <2>2. /\ ws' = [ws EXCEPT ![p] = c] /\ clients' = clients \cup {c}
        /\ up' = [up EXCEPT ![c] = IF p \in visiting THEN <<"subscribe">> ELSE <<>>]
    BY <1>7 DEF Connect
  <2> HIDE DEF c
  <2>3. up' \in [Socket -> Seq({"subscribe", "unsubscribe"})]
    <3>1. /\ <<"subscribe">> \in Seq({"subscribe", "unsubscribe"})
          /\ <<>> \in Seq({"subscribe", "unsubscribe"})
      OBVIOUS
    <3>2. QED
      BY <2>1, <2>2, <3>1 DEF Typed, GatewayTyped
  <2>4. QED
    BY <1>7, <2>1, <2>2, <2>3 DEF Connect, Typed, GatewayTyped, PagesTyped, QueriesTyped
<1>8. CASE ReceiveChange(p)
  <2>1. ws[p] \in Socket /\ down[ws[p]] \in Seq(Kind) /\ down[ws[p]] # <<>>
    BY <1>8 DEF ReceiveChange, Typed, GatewayTyped, PagesTyped
  <2>2. Head(down[ws[p]]) \in Kind /\ Tail(down[ws[p]]) \in Seq(Kind)
    BY <2>1
  <2>3. QED
    BY <1>8, <2>1, <2>2 DEF ReceiveChange, Typed, GatewayTyped, PagesTyped, QueriesTyped
<1>9. CASE Flush(p) \/ Compensate(p)
  <2>1. fetch' \in [Page -> [Kind -> {Idle, Sent} \cup Nat]]
    BY <1>3, <1>9 DEF Flush, Compensate
  <2>2. pending' \in [Page -> SUBSET Kind] /\ compensate' \in SUBSET Page
    BY <1>9 DEF Flush, Compensate, Typed, PagesTyped, QueriesTyped
  <2>3. QED
    BY <1>9, <2>1, <2>2 DEF Flush, Compensate, Typed, GatewayTyped, PagesTyped, QueriesTyped
<1>10. ASSUME NEW k \in Kind, Read(p, k) \/ Show(p, k)
       PROVE  Typed'
  <2>0. fetch \in [Page -> [Kind -> {Idle, Sent} \cup Nat]] /\ version[k] \in Nat
    BY DEF Typed, GatewayTyped, QueriesTyped
  <2>1. fetch' \in [Page -> [Kind -> {Idle, Sent} \cup Nat]]
    <3>1. PICK v \in {Idle, Sent} \cup Nat : fetch' = [fetch EXCEPT ![p][k] = v]
      BY <1>10, <2>0 DEF Read, Show
    <3>2. QED
      BY <2>0, <3>1
  <2>2. seen' \in [Page -> [Kind -> {NoData} \cup Nat]]
    <3>1. CASE Read(p, k)
      BY <3>1 DEF Read, Typed, QueriesTyped
    <3>2. CASE Show(p, k)
      BY <3>2 DEF Show, Typed, QueriesTyped
    <3>3. QED
      BY <1>10, <3>1, <3>2
  <2>3. QED
    BY <1>10, <2>1, <2>2 DEF Read, Show, Typed, GatewayTyped, PagesTyped, QueriesTyped
<1>11. QED
  BY <1>4, <1>5, <1>6, <1>7, <1>8, <1>9, <1>10 DEF Browser

LEMMA StepTyped ==
  ASSUME TypeOK, [Next]_vars
  PROVE  TypeOK'
<1>1. TypeOKMembers'
  BY MembersOrNotices, MemberStepTyped, NoticesTyped, TypeParts
<1>2. Typed'
  BY TypeParts, ServerTyped, BrowserTyped DEF Next
<1>3. QED
  BY <1>1, <1>2, TypeParts DEF TypeOK, TypeOKMembers, Typed, GatewayTyped, PagesTyped, QueriesTyped

LEMMA InitTyped ==
  ASSUME Init
  PROVE  TypeOK
<1>1. TypeOKMembers
  BY InitMembersTyped DEF Init
<1>2. Typed
  BY RealtimeAssumption
     DEF Init, Typed, GatewayTyped, PagesTyped, QueriesTyped, Blank, NoQueries, Unloaded
<1>3. QED
  BY <1>1, <1>2, TypeParts

(* Every variable keeps its type. *)
THEOREM TypeCorrect == Spec => []TypeOK
  BY InitTyped, StepTyped, PTL DEF Spec

-----------------------------------------------------------------------------
(***************************************************************************)
(* What is promised to a page is on its way to it.                         *)
(***************************************************************************)
Connected ==
  /\ joined = channel
  /\ \A p \in Page : ws[p] # Offline => PageOf[ws[p]] = p /\ p \in hasConnected
  /\ ~listening => gaps > 0

(* The versions a page is promised, fetches and shows, and who has any.     *)
Ordered ==
  \A p \in Page, k \in Kind :
    /\ owed[p][k] <= version[k] /\ seen[p][k] <= version[k]
    /\ fetch[p][k] \in Nat => seen[p][k] <= fetch[p][k] /\ fetch[p][k] <= version[k]
    /\ p \notin visiting => seen[p][k] = NoData /\ fetch[p][k] = Idle
    /\ owed[p][k] > 0 => p \in visiting /\ p \in hasConnected /\ role[UserOf[p]] # "none"

Owing(p) == \E k \in Kind : owed[p][k] > 0

(* A connection that is neither up to date with its frames nor subscribed   *)
(* is one whose page has its reconnection timer set, or is never going to   *)
(* be subscribed again.                                                    *)
Deaf(p) ==
  \/ ws[p] = Offline \/ ~Open(ws[p])
  \/ ws[p] \notin channel /\ TRUE \notin lookups[ws[p]]

Steady ==
  \A p \in Page :
    Owing(p) /\ p \notin compensate /\ ws[p] # Offline =>
      up[ws[p]] = <<>> /\ (ws[p] \in channel \/ Deaf(p))

OnItsWay(p, k) ==
  \/ seen[p][k] >= owed[p][k]
  \/ fetch[p][k] = Sent \/ (fetch[p][k] \in Nat /\ fetch[p][k] >= owed[p][k])
  \/ k \in pending[p]
  \/ ws[p] # Offline /\ \E i \in 1..Len(down[ws[p]]) : down[ws[p]][i] = k
  \/ \E by \in User : by # UserOf[p] /\ notices[<<k, by>>] > 0
  \/ k = "structure" /\ ~listening
  \/ p \in compensate \/ Deaf(p)

Delivered ==
  \A p \in Page, k \in Kind :
    owed[p][k] > 0 /\ (k = "rows" => gaps = 0) => OnItsWay(p, k)

Promised ==
  /\ TypeOK /\ Connected /\ Ordered /\ Steady /\ Delivered

LEMMA StepConnected ==
  ASSUME TypeOK, Connected, [Next]_vars
  PROVE  Connected'
<1> USE RealtimeAssumption DEF gatewayVars, pageVars
<1>0. ws \in [Page -> Socket \cup {Offline}] /\ gaps \in Nat
  BY DEF TypeOK
<1>1. CASE MembersAct \/ UNCHANGED vars
  BY <1>1 DEF MembersAct, vars, Connected
<1>2. ASSUME NEW k \in Kind, NEW by \in User, Commit(k, by) \/ HandleChange(k, by)
      PROVE  Connected'
  BY <1>2 DEF Commit, HandleChange, Connected
<1>3. ASSUME NEW u \in User, HandleKick(u)
      PROVE  Connected'
  BY <1>3 DEF HandleKick, Connected
<1>4. CASE LoseListener \/ (\E n \in Notice : MissNotice(n)) \/ Relisten
  BY <1>0, <1>4 DEF LoseListener, MissNotice, Relisten, Connected
<1>5. ASSUME NEW c \in Socket, Gateway(c) \/ Sweep(c)
      PROVE  Connected'
  BY <1>5 DEF Gateway, ReceiveFrame, Join, Disconnect, Sweep, Forget, Connected
<1>6. ASSUME NEW c \in Socket, Break(c) \/ Closed(c)
      PROVE  Connected'
  BY <1>0, <1>6 DEF Break, Closed, Lost, Connected
<1>7. ASSUME NEW p \in Page, Browser(p)
      PROVE  Connected'
  <2>1. CASE Teardown(p)
    BY <1>0, <2>1 DEF Teardown, Connected
  <2>2. CASE Connect(p)
    BY <1>0, <2>2 DEF Connect, Unused, Connected
  <2>3. CASE ~Teardown(p) /\ ~Connect(p)
    BY <1>7, <2>3 DEF Browser, Enter, Leave, ReceiveChange, Flush, Compensate, Read, Show, Connected
  <2>4. QED
    BY <2>1, <2>2, <2>3
<1>8. QED
  BY <1>1, <1>2, <1>3, <1>4, <1>5, <1>6, <1>7 DEF Next

-----------------------------------------------------------------------------
(* The page an action is about, and the others: what it leaves to them.     *)
LEMMA QueryTypes ==
  ASSUME TypeOK, NEW p \in Page, NEW k \in Kind
  PROVE  /\ owed[p][k] \in Nat /\ version[k] \in Nat
         /\ seen[p][k] \in {NoData} \cup Nat /\ fetch[p][k] \in {Idle, Sent} \cup Nat
  BY DEF TypeOK

LEMMA StepOrdered ==
  ASSUME TypeOK, TypeOK', Connected, Ordered, [Next]_vars
  PROVE  Ordered'
<1> USE RealtimeAssumption DEF gatewayVars, pageVars, queryVars, memberVars
<1>0. CASE UNCHANGED <<version, visiting, hasConnected, role, fetch, seen, owed>>
  BY <1>0 DEF Ordered
<1>1. CASE MembersAct
  <2> SUFFICES ASSUME NEW p \in Page, NEW k \in Kind
               PROVE  /\ owed'[p][k] <= version[k]
                      /\ owed'[p][k] > 0 => p \in visiting /\ p \in hasConnected /\ role'[UserOf[p]] # "none"
    BY <1>1 DEF MembersAct, Ordered
  <2>1. owed'[p] = IF role'[UserOf[p]] = "none" THEN Blank ELSE owed[p]
    BY <1>1 DEF MembersAct
  <2>2. QED
    BY <2>1, QueryTypes DEF Ordered, Blank
<1>2. ASSUME NEW k \in Kind, NEW by \in User, Commit(k, by)
      PROVE  Ordered'
  <2>0. \A j \in Kind : /\ version'[j] = IF j = k THEN version[j] + 1 ELSE version[j]
                        /\ version[j] \in Nat
    BY <1>2, QueryTypes DEF Commit, TypeOK
  <2> SUFFICES ASSUME NEW p \in Page, NEW j \in Kind
               PROVE  /\ owed'[p][j] <= version'[j]
                      /\ owed'[p][j] > 0 => p \in visiting /\ p \in hasConnected /\ role[UserOf[p]] # "none"
    BY <1>2, <2>0, QueryTypes DEF Commit, Ordered, NoData
  <2>1. version'[j] = IF j = k THEN version[j] + 1 ELSE version[j]
    BY <2>0
  <2>2. CASE owed'[p][j] = owed[p][j]
    BY <2>1, <2>2, QueryTypes DEF Ordered
  <2>3. CASE Hearing(p) /\ seen[p][k] # NoData /\ j = k /\ owed'[p][j] = version'[k]
    BY <2>1, <2>3, QueryTypes DEF Hearing, Connected, Ordered
  <2>4. QED
    BY <1>2, <2>2, <2>3 DEF Commit, TypeOK
<1>3. ASSUME NEW c \in Socket, NEW b \in BOOLEAN, Join(c, b)
      PROVE  Ordered'
  <2> SUFFICES ASSUME NEW p \in Page, NEW j \in Kind
               PROVE  /\ owed'[p][j] <= version[j]
                      /\ owed'[p][j] > 0 => p \in visiting /\ p \in hasConnected /\ role[UserOf[p]] # "none"
    BY <1>3, QueryTypes DEF Join, Ordered
  <2>1. CASE owed'[p][j] = owed[p][j]
    BY <2>1, QueryTypes DEF Ordered
  <2>2. CASE /\ ws[p] = c /\ role[UserOf[p]] # "none" /\ p = PageOf[c]
             /\ owed'[p][j] = IF seen[p][j] = NoData THEN 0 ELSE version[j]
    BY <2>2, QueryTypes DEF Connected, Ordered
  <2>3. QED
    BY <1>3, <2>1, <2>2 DEF Join, TypeOK
<1>4. ASSUME NEW p \in Page, Enter(p)
      PROVE  Ordered'
  <2>1. /\ UNCHANGED <<version, hasConnected, role, fetch, owed>>
        /\ visiting' = visiting \cup {p} /\ p \notin visiting
        /\ \A q \in Page : q # p => seen'[q] = seen[q]
        /\ seen'[p] = IF role[UserOf[p]] = "none" THEN Unloaded ELSE version
    BY <1>4 DEF Enter, TypeOK
  <2>2. \A k \in Kind : seen'[p][k] <= version[k] /\ fetch[p][k] = Idle
    BY <2>1, QueryTypes DEF Unloaded, Ordered, NoData
  <2>3. QED
    BY <2>1, <2>2, QueryTypes DEF Ordered, Idle
<1>5. ASSUME NEW p \in Page, Leave(p) \/ Teardown(p)
      PROVE  Ordered'
  <2>1. /\ UNCHANGED <<version, role>> /\ visiting' = visiting \ {p}
        /\ hasConnected \ {p} \subseteq hasConnected'
        /\ \A q \in Page : q # p => seen'[q] = seen[q] /\ fetch'[q] = fetch[q] /\ owed'[q] = owed[q]
        /\ seen'[p] = Unloaded /\ fetch'[p] = NoQueries /\ owed'[p] = Blank
    BY <1>5 DEF Leave, Teardown, ForgetQueries, TypeOK
  <2>2. \A k \in Kind : seen'[p][k] = NoData /\ fetch'[p][k] = Idle /\ owed'[p][k] = 0
    BY <2>1 DEF Unloaded, NoQueries, Blank
  <2>3. \A k \in Kind : NoData <= version[k] /\ 0 <= version[k]
    BY QueryTypes DEF NoData
  <2>4. QED
    BY <2>1, <2>2, <2>3 DEF Ordered, Idle
<1>6. ASSUME NEW p \in Page, Connect(p)
      PROVE  Ordered'
  BY <1>6 DEF Connect, Ordered
<1>7. ASSUME NEW p \in Page, Flush(p) \/ Compensate(p)
      PROVE  Ordered'
  <2>1. PICK kinds : fetch' = [fetch EXCEPT ![p] = Invalidated(p, kinds)]
    BY <1>7 DEF Flush, Compensate
  <2>2. UNCHANGED <<version, visiting, hasConnected, role, seen, owed>>
    BY <1>7 DEF Flush, Compensate
  <2>3. \A q \in Page, k \in Kind :
          fetch'[q][k] = fetch[q][k] \/ (fetch'[q][k] = Sent /\ q \in visiting)
    BY <2>1 DEF Invalidated, TypeOK
  <2>4. QED
    BY <2>2, <2>3 DEF Ordered, Sent
<1>8. ASSUME NEW p \in Page, NEW k \in Kind, Read(p, k)
      PROVE  Ordered'
  <2>1. /\ UNCHANGED <<version, visiting, hasConnected, role, seen, owed>>
        /\ \A q \in Page, j \in Kind : fetch'[q][j] = IF q = p /\ j = k
             THEN IF role[UserOf[p]] = "none" THEN Idle ELSE version[k] ELSE fetch[q][j]
        /\ fetch[p][k] = Sent
    BY <1>8 DEF Read, TypeOK
  <2>2. p \in visiting
    BY <2>1 DEF Ordered, Idle, Sent
  <2>3. QED
    BY <2>1, <2>2, QueryTypes DEF Ordered, Idle
<1>9. ASSUME NEW p \in Page, NEW k \in Kind, Show(p, k)
      PROVE  Ordered'
  <2>1. /\ UNCHANGED <<version, visiting, hasConnected, role, owed>>
        /\ \A q \in Page, j \in Kind :
             /\ fetch'[q][j] = IF q = p /\ j = k THEN Idle ELSE fetch[q][j]
             /\ seen'[q][j] = IF q = p /\ j = k THEN fetch[p][k] ELSE seen[q][j]
        /\ fetch[p][k] \in Nat
    BY <1>9 DEF Show, TypeOK
  <2>2. p \in visiting
    BY <2>1 DEF Ordered, Idle
  <2>3. QED
    BY <2>1, <2>2, QueryTypes DEF Ordered, Idle
<1>10. QED
  <2>1. ASSUME NEW k \in Kind, NEW by \in User, HandleChange(k, by)
        PROVE  Ordered'
    BY <1>0, <2>1 DEF HandleChange
  <2>2. ASSUME NEW u \in User, HandleKick(u)
        PROVE  Ordered'
    BY <1>0, <2>2 DEF HandleKick
  <2>3. CASE LoseListener \/ (\E n \in Notice : MissNotice(n)) \/ Relisten \/ UNCHANGED vars
    BY <1>0, <2>3 DEF LoseListener, MissNotice, Relisten, vars
  <2>4. ASSUME NEW c \in Socket, ReceiveFrame(c) \/ Disconnect(c) \/ Sweep(c) \/ Break(c) \/ Closed(c)
        PROVE  Ordered'
    BY <1>0, <2>4 DEF ReceiveFrame, Disconnect, Sweep, Break, Closed, Lost
  <2>5. ASSUME NEW p \in Page, ReceiveChange(p)
        PROVE  Ordered'
    BY <1>0, <2>5 DEF ReceiveChange
  <2>6. QED
    BY <1>1, <1>2, <1>3, <1>4, <1>5, <1>6, <1>7, <1>8, <1>9, <2>1, <2>2, <2>3, <2>4, <2>5
       DEF Next, Gateway, Browser

-----------------------------------------------------------------------------
Excused(p) == p \in compensate \/ ~Owing(p)

(* A page that a subscription cannot reach stays so, and one that is        *)
(* subscribed stays subscribed or is no longer reached, until it makes up   *)
(* for what it missed.                                                     *)
LEMMA SameConnection ==
  ASSUME NEW p, UNCHANGED <<ws, clients, closing, channel, lookups>>
  PROVE  /\ Deaf(p) => Deaf(p)'
         /\ ws[p] \in channel => ws'[p] \in channel'
  BY DEF Deaf, Open

LEMMA StepHearing ==
  ASSUME TypeOK, Connected, Ordered, Steady, [Next]_vars, NEW p \in Page
  PROVE  /\ Deaf(p) => Deaf(p)' \/ Excused(p)'
         /\ ws[p] \in channel => ws'[p] \in channel' \/ Deaf(p)' \/ Excused(p)'
<1> USE RealtimeAssumption DEF gatewayVars, pageVars
<1>0. /\ ws \in [Page -> Socket \cup {Offline}] /\ lookups \in [Socket -> SUBSET BOOLEAN]
      /\ closing \subseteq clients /\ clients \subseteq Socket
  BY DEF TypeOK
<1>1. ASSUME NEW u \in User, HandleKick(u)
      PROVE  /\ Deaf(p) => Deaf(p)'
             /\ ws[p] \in channel => ws'[p] \in channel' \/ Deaf(p)'
  BY <1>1 DEF HandleKick, Deaf, Open
<1>2. ASSUME NEW c \in Socket, ReceiveFrame(c)
      PROVE  /\ Deaf(p) => Deaf(p)' \/ Excused(p)'
             /\ ws[p] \in channel => ws'[p] \in channel' \/ Excused(p)'
  <2>1. UNCHANGED <<owed, compensate, ws, clients, closing>> /\ up[c] # <<>>
    BY <1>2 DEF ReceiveFrame, queryVars
  <2>2. CASE ws[p] = c
    <3>1. ws[p] # Offline
      BY <2>2
    <3>2. Excused(p)
      BY <2>1, <2>2, <3>1 DEF Steady, Excused
    <3>3. Excused(p)'
      BY <2>1, <3>2 DEF Excused, Owing
    <3>4. QED
      BY <3>3
  <2>3. CASE ws[p] # c
    <3>1. /\ ws[p] \in Socket => lookups'[ws[p]] = lookups[ws[p]]
          /\ ws[p] \in channel' <=> ws[p] \in channel
      BY <1>0, <1>2, <2>3 DEF ReceiveFrame
    <3>2. QED
      BY <1>0, <2>1, <3>1 DEF Deaf, Open
  <2>4. QED
    BY <2>2, <2>3
<1>3. ASSUME NEW c \in Socket, NEW b \in BOOLEAN, Join(c, b)
      PROVE  /\ Deaf(p) => Deaf(p)'
             /\ ws[p] \in channel => ws'[p] \in channel'
  <2>1. /\ UNCHANGED <<ws, clients, closing>> /\ b \in lookups[c]
        /\ \A d \in Socket : lookups'[d] \subseteq lookups[d]
        /\ channel' = IF b THEN channel \cup {c} ELSE channel
    BY <1>0, <1>3 DEF Join, Admitted
  <2>2. ASSUME ws[p] \in Socket, ws[p] \notin channel, TRUE \notin lookups[ws[p]]
        PROVE  ws[p] \notin channel' /\ TRUE \notin lookups'[ws[p]]
    BY <2>1, <2>2
  <2>3. QED
    BY <1>0, <2>1, <2>2 DEF Deaf, Open
<1>4. ASSUME NEW c \in Socket, Disconnect(c) \/ Sweep(c)
      PROVE  /\ Deaf(p) => Deaf(p)'
             /\ ws[p] \in channel => ws'[p] \in channel' \/ Deaf(p)'
  <2>1. /\ UNCHANGED <<ws, lookups>> /\ clients' = clients \ {c} /\ closing' = closing \ {c}
        /\ channel' \in {channel, channel \ {c}}
    BY <1>4 DEF Disconnect, Sweep, Forget
  <2>2. QED
    BY <2>1 DEF Deaf, Open
<1>5. ASSUME NEW c \in Socket, Break(c) \/ Closed(c)
      PROVE  /\ Deaf(p) => Deaf(p)'
             /\ ws[p] \in channel => ws'[p] \in channel' \/ Deaf(p)'
  <2>1. /\ UNCHANGED <<clients, closing, channel, lookups>>
        /\ ws'[p] = ws[p] \/ ws'[p] = Offline
    BY <1>0, <1>5 DEF Break, Closed, Lost
  <2>2. QED
    BY <2>1 DEF Deaf, Open
<1>6. ASSUME NEW q \in Page, Teardown(q)
      PROVE  /\ Deaf(p) => Deaf(p)'
             /\ ws[p] \in channel => ws'[p] \in channel' \/ Deaf(p)'
  <2>1. /\ UNCHANGED <<clients, closing, channel, lookups>>
        /\ ws'[p] = ws[p] \/ ws'[p] = Offline
    BY <1>0, <1>6 DEF Teardown
  <2>2. QED
    BY <2>1 DEF Deaf, Open
<1>7. ASSUME NEW q \in Page, Connect(q)
      PROVE  /\ Deaf(p) => Deaf(p)' \/ Excused(p)'
             /\ ws[p] \in channel => ws'[p] \in channel' \/ Deaf(p)' \/ Excused(p)'
  <2> DEFINE c == CHOOSE c \in Unused(q) : TRUE
  <2>1. c \in Socket /\ PageOf[c] = q
    BY <1>7 DEF Connect, Unused
  <2>2. /\ ws' = [ws EXCEPT ![q] = c] /\ clients' = clients \cup {c}
        /\ UNCHANGED <<closing, channel, lookups, owed>>
        /\ q \in hasConnected => q \in compensate'
        /\ ws[q] = Offline
    BY <1>7 DEF Connect
  <2> HIDE DEF c
  <2>3. CASE p = q
    <3>1. Owing(p) => p \in hasConnected
      BY DEF Owing, Ordered
    <3>2. QED
      BY <2>2, <2>3, <3>1 DEF Excused, Owing
  <2>4. CASE p # q
    <3>1. ws'[p] = ws[p] /\ (ws[p] # Offline => ws[p] # c)
      BY <1>0, <2>1, <2>2, <2>4 DEF Connected
    <3>2. QED
      BY <1>0, <2>2, <3>1 DEF Deaf, Open
  <2>5. QED
    BY <2>3, <2>4
<1>8. QED
  <2>1. ASSUME NEW k \in Kind, NEW by \in User, Commit(k, by) \/ HandleChange(k, by)
        PROVE  UNCHANGED <<ws, clients, closing, channel, lookups>>
    BY <2>1 DEF Commit, HandleChange
  <2>2. CASE MembersAct \/ LoseListener \/ (\E n \in Notice : MissNotice(n)) \/ Relisten \/ UNCHANGED vars
    BY <2>2, SameConnection DEF MembersAct, LoseListener, MissNotice, Relisten, vars
  <2>3. ASSUME NEW q \in Page, Browser(q)
        PROVE  Teardown(q) \/ Connect(q) \/ UNCHANGED <<ws, clients, closing, channel, lookups>>
    BY <2>3 DEF Browser, Enter, Leave, ReceiveChange, Flush, Compensate, Read, Show
  <2>4. QED
    BY <1>1, <1>2, <1>3, <1>4, <1>5, <1>6, <1>7, <2>1, <2>2, <2>3, SameConnection DEF Next, Gateway

(* Frames of the page under way: none of a page that is owed something,     *)
(* unless its reconnection timer runs.                                     *)
LEMMA StepSteady ==
  ASSUME TypeOK, TypeOK', Connected, Ordered, Steady, [Next]_vars
  PROVE  Steady'
<1> USE RealtimeAssumption DEF gatewayVars, pageVars, queryVars
<1> SUFFICES ASSUME NEW p \in Page, Owing(p)', p \notin compensate', ws'[p] # Offline
             PROVE  up'[ws'[p]] = <<>> /\ (ws'[p] \in channel' \/ Deaf(p)')
  BY DEF Steady
<1>0. /\ ws \in [Page -> Socket \cup {Offline}] /\ up \in [Socket -> Seq({"subscribe", "unsubscribe"})]
  BY DEF TypeOK
<1>1. ~Excused(p)'
  BY DEF Excused
<1>2. (ws[p] \in channel \/ Deaf(p)) => ws'[p] \in channel' \/ Deaf(p)'
  BY <1>1, StepHearing
<1> DEFINE Before == Owing(p) /\ p \notin compensate
<1>3. CASE Before /\ ws'[p] = ws[p] /\ (up[ws[p]] = <<>> => up'[ws[p]] = <<>>)
  BY <1>2, <1>3 DEF Steady
<1>4. CASE /\ UNCHANGED <<owed, compensate, ws>>
           /\ ws[p] # Offline /\ up[ws[p]] = <<>> => up'[ws[p]] = <<>>
  <2>1. Before
    BY <1>4 DEF Owing
  <2>2. QED
    BY <1>2, <1>4, <2>1 DEF Steady
<1> HIDE DEF Before
<1>5. CASE MembersAct
  <2>1. Before /\ UNCHANGED <<ws, up>>
    BY <1>5 DEF MembersAct, Owing, Blank, Before
  <2>2. QED
    BY <1>3, <2>1
<1>6. ASSUME NEW k \in Kind, NEW by \in User, Commit(k, by)
      PROVE  up'[ws'[p]] = <<>> /\ (ws'[p] \in channel' \/ Deaf(p)')
  <2>1. UNCHANGED <<ws, up, channel, compensate>>
    BY <1>6 DEF Commit
  <2>2. CASE Hearing(p)
    BY <2>1, <2>2 DEF Hearing
  <2>3. CASE ~Hearing(p)
    <3>1. owed'[p] = owed[p]
      BY <1>6, <2>3 DEF Commit
    <3>2. Before
      BY <2>1, <3>1 DEF Before, Owing
    <3>3. QED
      BY <1>3, <2>1, <3>2
  <2>4. QED
    BY <2>2, <2>3
<1>7. ASSUME NEW c \in Socket, NEW b \in BOOLEAN, Join(c, b)
      PROVE  up'[ws'[p]] = <<>> /\ (ws'[p] \in channel' \/ Deaf(p)')
  <2>1. UNCHANGED <<ws, up, compensate>>
    BY <1>7 DEF Join
  <2>2. owed'[p] = owed[p]
    BY <1>7, <2>1 DEF Join, TypeOK
  <2>3. Before
    BY <2>1, <2>2 DEF Before, Owing
  <2>4. QED
    BY <1>3, <2>1, <2>3
<1>8. ASSUME NEW c \in Socket, ReceiveFrame(c)
      PROVE  up'[ws'[p]] = <<>> /\ (ws'[p] \in channel' \/ Deaf(p)')
  <2>1. UNCHANGED <<owed, ws, compensate>>
    BY <1>8 DEF ReceiveFrame
  <2>2. ws[p] \in Socket /\ up[ws[p]] = <<>> => up'[ws[p]] = <<>>
    BY <1>0, <1>8 DEF ReceiveFrame
  <2>3. QED
    BY <1>0, <1>4, <2>1, <2>2
<1>9. ASSUME NEW c \in Socket, Break(c) \/ Closed(c)
      PROVE  up'[ws'[p]] = <<>> /\ (ws'[p] \in channel' \/ Deaf(p)')
  <2>1. /\ UNCHANGED <<owed, compensate>> /\ ws'[p] = ws[p]
    BY <1>0, <1>9 DEF Break, Closed, Lost
  <2>2. up[ws[p]] = <<>> => up'[ws[p]] = <<>>
    BY <1>0, <1>9, <2>1 DEF Break, Closed, Lost, Hush
  <2>3. Before
    BY <2>1 DEF Before, Owing
  <2>4. QED
    BY <1>3, <2>1, <2>2, <2>3
<1>10. ASSUME NEW q \in Page, Enter(q) \/ Leave(q)
       PROVE  up'[ws'[p]] = <<>> /\ (ws'[p] \in channel' \/ Deaf(p)')
  <2>1. /\ UNCHANGED <<ws, compensate>>
        /\ up' = up \/ (ws[q] # Offline /\ \A c \in Socket : c # ws[q] => up'[c] = up[c])
        /\ owed'[p] = owed[p] \/ owed'[p] = Blank
    BY <1>0, <1>10 DEF Enter, Leave, SendUp, ForgetQueries, TypeOK
  <2>2. Before
    BY <2>1 DEF Before, Owing, Blank
  <2>3. p # q
    <3>1. CASE Enter(q)
      BY <2>2, <3>1 DEF Enter, Before, Owing, Ordered
    <3>2. CASE Leave(q)
      <4>1. owed'[q] = Blank
        BY <3>2 DEF Leave, ForgetQueries, TypeOK
      <4>2. QED
        BY <4>1 DEF Owing, Blank
    <3>3. QED
      BY <1>10, <3>1, <3>2
  <2>4. up'[ws[p]] = up[ws[p]]
    BY <1>0, <2>1, <2>3 DEF Connected
  <2>5. QED
    BY <1>3, <2>1, <2>2, <2>4
<1>11. ASSUME NEW q \in Page, Teardown(q)
       PROVE  up'[ws'[p]] = <<>> /\ (ws'[p] \in channel' \/ Deaf(p)')
  <2>1. /\ UNCHANGED compensate /\ ws'[p] = ws[p] /\ p # q
    BY <1>0, <1>11 DEF Teardown
  <2>2. up[ws[p]] = <<>> => up'[ws[p]] = <<>>
    BY <1>0, <1>11, <2>1 DEF Teardown, Hush
  <2>3. Before
    BY <1>11, <2>1 DEF Teardown, ForgetQueries, Before, Owing, TypeOK
  <2>4. QED
    BY <1>3, <2>1, <2>2, <2>3
<1>12. ASSUME NEW q \in Page, Connect(q)
       PROVE  up'[ws'[p]] = <<>> /\ (ws'[p] \in channel' \/ Deaf(p)')
  <2> DEFINE c == CHOOSE c \in Unused(q) : TRUE
  <2>1. c \in Socket /\ PageOf[c] = q
    BY <1>12 DEF Connect, Unused
  <2>2. /\ ws' = [ws EXCEPT ![q] = c] /\ UNCHANGED owed
        /\ up' = [up EXCEPT ![c] = IF q \in visiting THEN <<"subscribe">> ELSE <<>>]
        /\ q \in hasConnected => q \in compensate' /\ compensate \subseteq compensate'
    BY <1>12 DEF Connect
  <2> HIDE DEF c
  <2>3. Owing(p) /\ p \in hasConnected
    BY <2>2 DEF Owing, Ordered
  <2>4. p # q
    BY <2>2, <2>3
  <2>5. ws'[p] = ws[p] /\ ws[p] # c
    BY <1>0, <2>1, <2>2, <2>4 DEF Connected
  <2>6. up'[ws[p]] = up[ws[p]]
    BY <1>0, <2>1, <2>2, <2>5
  <2>7. Before
    BY <1>12, <2>3 DEF Connect, Before
  <2>8. QED
    BY <1>3, <2>5, <2>6, <2>7
<1>13. ASSUME NEW q \in Page, Compensate(q)
       PROVE  up'[ws'[p]] = <<>> /\ (ws'[p] \in channel' \/ Deaf(p)')
  <2>1. /\ UNCHANGED <<ws, up, channel, lookups, owed>> /\ compensate' = compensate \ {q}
        /\ PromptLookup(q)
    BY <1>13 DEF Compensate
  <2>2. CASE p = q
    BY <2>1, <2>2 DEF PromptLookup, Deaf
  <2>3. CASE p # q
    <3>1. Before
      BY <2>1, <2>3 DEF Before, Owing
    <3>2. QED
      BY <1>3, <2>1, <3>1
  <2>4. QED
    BY <2>2, <2>3
<1>14. ASSUME NEW k \in Kind, NEW by \in User, HandleChange(k, by)
       PROVE  UNCHANGED <<owed, compensate, ws, up>>
  BY <1>14 DEF HandleChange
<1>15. ASSUME NEW u \in User, HandleKick(u)
       PROVE  UNCHANGED <<owed, compensate, ws, up>>
  BY <1>15 DEF HandleKick
<1>16. CASE LoseListener \/ (\E n \in Notice : MissNotice(n)) \/ Relisten \/ UNCHANGED vars
  BY <1>4, <1>16 DEF LoseListener, MissNotice, Relisten, vars
<1>17. ASSUME NEW c \in Socket, Disconnect(c) \/ Sweep(c)
       PROVE  UNCHANGED <<owed, compensate, ws, up>>
  BY <1>17 DEF Disconnect, Sweep
<1>18. ASSUME NEW q \in Page, NEW k \in Kind,
              ReceiveChange(q) \/ Flush(q) \/ Read(q, k) \/ Show(q, k)
       PROVE  UNCHANGED <<owed, compensate, ws, up>>
  BY <1>18 DEF ReceiveChange, Flush, Read, Show
<1>19. UNCHANGED <<owed, compensate, ws, up>> => up'[ws'[p]] = <<>> /\ (ws'[p] \in channel' \/ Deaf(p)')
  BY <1>4
<1>20. QED
  <2>1. ASSUME NEW c \in Socket, Gateway(c) \/ Sweep(c) \/ Break(c) \/ Closed(c)
        PROVE  up'[ws'[p]] = <<>> /\ (ws'[p] \in channel' \/ Deaf(p)')
    BY <1>7, <1>8, <1>9, <1>17, <1>19, <2>1 DEF Gateway
  <2>2. ASSUME NEW q \in Page, Browser(q)
        PROVE  up'[ws'[p]] = <<>> /\ (ws'[p] \in channel' \/ Deaf(p)')
    <3>1. "rows" \in Kind
      BY DEF Kind
    <3>2. QED
      BY <1>10, <1>11, <1>12, <1>13, <1>18, <1>19, <2>2, <3>1 DEF Browser
  <2>3. QED
    BY <1>5, <1>6, <1>14, <1>15, <1>16, <1>19, <2>1, <2>2 DEF Next

-----------------------------------------------------------------------------
(* Notices are only taken by the gateway. *)
LEMMA MemberNotices ==
  ASSUME TypeOKMembers, MemberStep, NEW n \in Notice
  PROVE  notices'[n] >= notices[n]
<1>0. notices[n] \in Nat
  BY DEF TypeOKMembers
<1>1. \A ns : Publish(notices, ns)[n] >= notices[n]
  BY <1>0 DEF Publish
<1>2. notices' = notices \/ \E ns : notices' = Publish(notices, ns)
  BY DEF MemberStep, BeginMemberChange, BeginInvite, BeginDelete, BeginWithdraw, BeginAccept, Begin,
         Expire, LockMembers, ListMembers, Supersede, Proceed, ChangeMember, DeleteBase,
         InsertInvite, Withdraw, Accept, Reject
<1>3. QED
  BY <1>0, <1>1, <1>2

Framed(p, k) == \E i \in 1..Len(down[ws[p]]) : down[ws[p]][i] = k

Noticed(p, k) == \E by \in User : by # UserOf[p] /\ notices[<<k, by>>] > 0

LEMMA WayKeeps ==
  ASSUME TypeOK, Connected, Ordered, Steady, [Next]_vars,
         NEW p \in Page, NEW k \in Kind,
         OnItsWay(p, k), Owing(p)', owed'[p][k] = owed[p][k],
         seen'[p][k] = seen[p][k], fetch'[p][k] = fetch[p][k], pending[p] \subseteq pending'[p],
         \/ ws'[p] = Offline
         \/ ws'[p] = ws[p] /\ (ws[p] # Offline /\ Framed(p, k) => Framed(p, k)' \/ k \in pending'[p])
         \/ ws[p] = Offline,
         Noticed(p, k) => Noticed(p, k)' \/ (ws'[p] # Offline /\ Framed(p, k)') \/ Deaf(p)'
                            \/ p \in compensate',
         ~listening => ~listening' \/ k = "rows" \/ (ws'[p] # Offline /\ Framed(p, k)') \/ Deaf(p)'
                            \/ p \in compensate',
         compensate \subseteq compensate'
  PROVE  OnItsWay(p, k)'
<1>1. Deaf(p) \/ ws'[p] = Offline => Deaf(p)' \/ p \in compensate'
  BY StepHearing DEF Excused, Deaf
<1>2. ws[p] = Offline => Deaf(p)
  BY DEF Deaf
<1>3. QED
  BY <1>1, <1>2 DEF OnItsWay, Framed, Noticed

(* broadcast() reaches every subscribed page but those of the user whose    *)
(* change it is, and every frame before it stays in its place.             *)
LEMMA BroadcastKeeps ==
  ASSUME TypeOK, NEW j \in Kind, NEW e, Broadcast(j, e), NEW p \in Page, NEW k \in Kind,
         ws' = ws, ws[p] # Offline, Framed(p, k)
  PROVE  Framed(p, k)'
<1>1. ws[p] \in Socket /\ down[ws[p]] \in Seq(Kind)
  BY DEF TypeOK
<1>2. down'[ws[p]] = down[ws[p]] \/ down'[ws[p]] = Append(down[ws[p]], j)
  BY <1>1 DEF Broadcast
<1>3. PICK i \in 1..Len(down[ws[p]]) : down[ws[p]][i] = k
  BY DEF Framed
<1>4. i \in 1..Len(down'[ws[p]]) /\ down'[ws[p]][i] = k
  <2>1. CASE down'[ws[p]] = down[ws[p]]
    BY <1>3, <2>1
  <2>2. CASE down'[ws[p]] = Append(down[ws[p]], j)
    <3> DEFINE s == down[ws[p]]
    <3>1. s \in Seq(Kind) /\ i \in 1..Len(s) /\ s[i] = k
      BY <1>1, <1>3
    <3> HIDE DEF s
    <3>2. i \in 1..Len(Append(s, j)) /\ Append(s, j)[i] = k
      BY <3>1
    <3>3. QED
      BY <2>2, <3>2 DEF s
  <2>3. QED
    BY <1>2, <2>1, <2>2
<1>5. QED
  BY <1>4 DEF Framed

LEMMA BroadcastReaches ==
  ASSUME TypeOK, Connected, Steady, NEW k \in Kind, NEW p \in Page,
         NEW e, e # UserOf[p], Broadcast(k, e), Owing(p),
         UNCHANGED <<ws, clients, closing, channel, lookups, compensate>>
  PROVE  (ws'[p] # Offline /\ Framed(p, k)') \/ Deaf(p)' \/ p \in compensate'
<1> SUFFICES ASSUME ~Deaf(p), p \notin compensate
             PROVE  ws'[p] # Offline /\ Framed(p, k)'
  BY DEF Deaf, Open
<1>1. ws[p] # Offline /\ Open(ws[p]) /\ ws[p] \in Socket /\ down[ws[p]] \in Seq(Kind)
  BY DEF Deaf, TypeOK
<1>2. ws[p] \in channel
  BY <1>1 DEF Steady
<1>3. Holder(ws[p]) = UserOf[p]
  BY <1>1 DEF Connected, Holder
<1>4. down'[ws[p]] = Append(down[ws[p]], k)
  BY <1>1, <1>2, <1>3 DEF Broadcast
<1>5. Len(down'[ws[p]]) \in 1..Len(down'[ws[p]]) /\ down'[ws[p]][Len(down'[ws[p]])] = k
  BY <1>1, <1>4
<1>6. QED
  BY <1>1, <1>5 DEF Framed

LEMMA StepDelivered ==
  ASSUME Promised, TypeOK', Ordered', [Next]_vars
  PROVE  Delivered'
<1> USE RealtimeAssumption DEF gatewayVars, pageVars, queryVars
<1> TypeOK /\ Connected /\ Ordered /\ Steady /\ Delivered
  BY DEF Promised
<1> SUFFICES ASSUME NEW p \in Page, NEW k \in Kind,
                    owed'[p][k] > 0, k = "rows" => gaps' = 0
             PROVE  OnItsWay(p, k)'
  BY DEF Delivered
<1>0. /\ ws \in [Page -> Socket \cup {Offline}] /\ UserOf[p] \in User /\ Owing(p)'
      /\ gaps \in Nat /\ \A by \in User : <<k, by>> \in Notice
  BY DEF TypeOK, Owing, Kind, Notice
<1> DEFINE Owed == owed'[p][k] = owed[p][k]
           Asked == /\ seen'[p][k] = seen[p][k] /\ fetch'[p][k] = fetch[p][k]
                    /\ pending[p] \subseteq pending'[p]
           Wired == /\ \/ ws'[p] = Offline \/ ws[p] = Offline
                       \/ ws'[p] = ws[p] /\ (ws[p] # Offline /\ Framed(p, k) => Framed(p, k)' \/ k \in pending'[p])
                    /\ compensate \subseteq compensate'
           Reached == (ws'[p] # Offline /\ Framed(p, k)') \/ Deaf(p)' \/ p \in compensate'
           Heard == /\ Noticed(p, k) => Noticed(p, k)' \/ Reached
                    /\ ~listening => ~listening' \/ k = "rows" \/ Reached
<1>1. CASE Owed /\ Asked /\ Wired /\ Heard /\ gaps' = gaps
  <2>1. OnItsWay(p, k)
    BY <1>1 DEF Delivered
  <2>2. QED
    BY <1>0, <1>1, <2>1, WayKeeps
<1>2. UNCHANGED <<pending, fetch, seen>> => Asked
  OBVIOUS
<1>3. UNCHANGED <<ws, down, compensate>> => Wired
  BY DEF Framed
<1>4. UNCHANGED <<notices, listening>> => Heard
  BY DEF Noticed
<1> HIDE DEF Owed, Asked, Wired, Heard, Reached
<1>5. CASE MembersAct
  <2>1. Owed
    BY <1>5 DEF MembersAct, Blank, Owed
  <2>2. Heard
    <3>1. \A n \in Notice : notices[n] \in Nat /\ notices'[n] \in Nat
      BY DEF TypeOK, TypeOKMembers
    <3>2. \A n \in Notice : notices'[n] >= notices[n]
      BY <1>5, MemberNotices DEF MembersAct, TypeOK
    <3>3. listening' = listening
      BY <1>5 DEF MembersAct
    <3>4. QED
      BY <1>0, <3>1, <3>2, <3>3 DEF Heard, Noticed
  <2>3. UNCHANGED <<pending, fetch, seen, ws, down, compensate, gaps>>
    BY <1>5 DEF MembersAct
  <2>4. QED
    BY <1>1, <1>2, <1>3, <2>1, <2>2, <2>3
<1>6. ASSUME NEW j \in Kind, NEW by \in User, Commit(j, by)
      PROVE  OnItsWay(p, k)'
  <2>1. \A n \in Notice : /\ notices[n] \in Nat
                          /\ notices'[n] = IF n = <<j, by>> THEN notices[n] + 1 ELSE notices[n]
    BY <1>6 DEF Commit, Publish, TypeOK, TypeOKMembers
  <2>2. UNCHANGED <<pending, fetch, seen, ws, down, compensate, gaps, listening>>
    BY <1>6 DEF Commit
  <2>3. CASE Owed
    <3>1. Heard
      BY <1>0, <2>1, <2>2 DEF Heard, Noticed
    <3>2. QED
      BY <1>1, <1>2, <1>3, <2>2, <2>3, <3>1
  <2>4. CASE UserOf[p] # by /\ j = k
    <3>1. notices'[<<k, by>>] > 0
      BY <1>0, <2>1, <2>4
    <3>2. QED
      BY <2>4, <3>1 DEF OnItsWay
  <2>5. QED
    BY <1>6, <2>3, <2>4 DEF Commit, TypeOK, Owed
<1>7. ASSUME NEW c \in Socket, NEW b \in BOOLEAN, Join(c, b)
      PROVE  OnItsWay(p, k)'
  <2>1. UNCHANGED <<pending, fetch, seen, ws, down, compensate, gaps, listening, notices>>
    BY <1>7 DEF Join
  <2>2. CASE p \in compensate
    BY <2>1, <2>2 DEF OnItsWay
  <2>3. CASE p \notin compensate
    <3>1. Owed
      BY <1>7, <2>3 DEF Join, TypeOK, Owed
    <3>2. QED
      BY <1>1, <1>2, <1>3, <1>4, <2>1, <3>1
  <2>4. QED
    BY <2>2, <2>3
<1>8. ASSUME NEW j \in Kind, NEW by \in User, HandleChange(j, by)
      PROVE  OnItsWay(p, k)'
  <2>1. /\ UNCHANGED <<owed, pending, fetch, seen, ws, compensate, gaps, listening>>
        /\ UNCHANGED <<clients, closing, channel, lookups>>
        /\ Broadcast(j, by) /\ Consumed(<<j, by>>)
    BY <1>8 DEF HandleChange
  <2>2. Owing(p)
    BY <1>0, <2>1 DEF Owing
  <2>3. Wired
    BY <2>1, BroadcastKeeps DEF Wired
  <2>4. Heard
    <3>1. \A n \in Notice : n # <<j, by>> => notices'[n] = notices[n]
      BY <2>1 DEF Consumed, TypeOK, TypeOKMembers
    <3>2. ASSUME NEW u \in User, u # UserOf[p], notices[<<k, u>>] > 0
          PROVE  Noticed(p, k)' \/ Reached
      <4>1. CASE j = k /\ u = by
        BY <2>1, <2>2, <3>2, <4>1, BroadcastReaches DEF Reached
      <4>2. CASE ~(j = k /\ u = by)
        <5>1. notices'[<<k, u>>] = notices[<<k, u>>]
          BY <1>0, <3>1, <4>2
        <5>2. QED
          BY <3>2, <5>1 DEF Noticed
      <4>3. QED
        BY <4>1, <4>2
    <3>3. QED
      BY <2>1, <3>2 DEF Heard, Noticed
  <2>5. QED
    BY <1>1, <1>2, <2>1, <2>3, <2>4 DEF Owed
<1>9. ASSUME NEW u \in User, HandleKick(u)
      PROVE  OnItsWay(p, k)'
  <2>1. UNCHANGED <<owed, pending, fetch, seen, ws, down, compensate, gaps, listening>>
    BY <1>9 DEF HandleKick
  <2>2. \A by \in User : notices'[<<k, by>>] = notices[<<k, by>>]
    <3>1. notices' = [notices EXCEPT ![<<"kick", u>>] = @ - 1]
      BY <1>9 DEF HandleKick, Consumed
    <3>2. "kick" \notin Kind
      BY DEF Kind
    <3>3. QED
      BY <1>0, <3>1, <3>2 DEF TypeOK, TypeOKMembers
  <2>3. Heard
    BY <2>1, <2>2 DEF Heard, Noticed
  <2>4. QED
    BY <1>1, <1>2, <1>3, <2>1, <2>3 DEF Owed
<1>10. CASE LoseListener
  <2>1. UNCHANGED <<owed, pending, fetch, seen, ws, down, compensate, notices>>
    BY <1>10 DEF LoseListener
  <2>2. k = "structure" /\ ~listening'
    BY <1>0, <1>10 DEF LoseListener, Kind
  <2>3. QED
    BY <2>2 DEF OnItsWay
<1>11. ASSUME NEW n \in Notice, MissNotice(n)
       PROVE  OnItsWay(p, k)'
  <2>1. UNCHANGED <<listening, gaps>> /\ ~listening
    BY <1>11 DEF MissNotice
  <2>2. k = "structure"
    BY <1>0, <2>1 DEF Connected, Kind
  <2>3. QED
    BY <2>1, <2>2 DEF OnItsWay
<1>12. CASE Relisten
  <2>1. /\ UNCHANGED <<owed, pending, fetch, seen, ws, compensate, gaps, notices>>
        /\ UNCHANGED <<clients, closing, channel, lookups>>
        /\ Broadcast("structure", NoUser) /\ "structure" \in Kind
    BY <1>12 DEF Relisten, Rebroadcast, Kind
  <2>2. Owing(p)
    BY <1>0, <2>1 DEF Owing
  <2>3. Wired
    BY <2>1, BroadcastKeeps DEF Wired
  <2>4. k = "rows" \/ Reached
    <3>1. CASE k = "structure"
      BY <1>0, <2>1, <2>2, <3>1, BroadcastReaches DEF Reached
    <3>2. QED
      BY <3>1 DEF Kind
  <2>5. Heard
    BY <2>1, <2>4 DEF Heard, Noticed
  <2>6. QED
    BY <1>1, <1>2, <2>1, <2>3, <2>5 DEF Owed
<1>13. ASSUME NEW c \in Socket, ReceiveFrame(c) \/ Disconnect(c) \/ Sweep(c)
       PROVE  OnItsWay(p, k)'
  <2>1. UNCHANGED <<owed, pending, fetch, seen, ws, down, compensate, gaps, listening, notices>>
    BY <1>13 DEF ReceiveFrame, Disconnect, Sweep
  <2>2. QED
    BY <1>1, <1>2, <1>3, <1>4, <2>1 DEF Owed
<1>14. ASSUME NEW c \in Socket, Break(c) \/ Closed(c)
       PROVE  OnItsWay(p, k)'
  <2>1. UNCHANGED <<owed, pending, fetch, seen, compensate, gaps, listening, notices>>
    BY <1>14 DEF Break, Closed, Lost
  <2>2. CASE p = PageOf[c]
    <3>1. Wired
      BY <1>0, <1>14, <2>1, <2>2 DEF Break, Closed, Lost, Wired
    <3>2. QED
      BY <1>1, <1>2, <1>4, <2>1, <3>1 DEF Owed
  <2>3. CASE p # PageOf[c]
    <3>1. ws'[p] = ws[p] /\ (ws[p] # Offline => ws[p] # c)
      BY <1>0, <1>14, <2>3 DEF Break, Closed, Lost, Connected
    <3>2. ws[p] # Offline => down'[ws[p]] = down[ws[p]]
      BY <1>0, <1>14, <3>1 DEF Break, Closed, Lost, Hush
    <3>3. Wired
      BY <2>1, <3>1, <3>2 DEF Wired, Framed
    <3>4. QED
      BY <1>1, <1>2, <1>4, <2>1, <3>3 DEF Owed
  <2>4. QED
    BY <2>2, <2>3
<1>15. ASSUME NEW q \in Page, Browser(q)
       PROVE  OnItsWay(p, k)'
  <2> UNCHANGED <<gaps, listening, notices>>
    BY <1>15 DEF Browser, Enter, Leave, Teardown, Connect, ReceiveChange, Flush, Compensate, Read, Show
  <2>0. Heard
    BY <1>4
  <2>1. CASE Enter(q)
    <3>1. UNCHANGED <<owed, pending, fetch, ws, down, compensate>>
      BY <2>1 DEF Enter
    <3>2. p # q
      BY <2>1, <3>1 DEF Enter, Ordered
    <3>3. Asked
      BY <2>1, <3>1, <3>2 DEF Enter, TypeOK, Asked
    <3>4. QED
      BY <1>1, <1>3, <2>0, <3>1, <3>3 DEF Owed
  <2>2. CASE Leave(q) \/ Teardown(q)
    <3>1. UNCHANGED <<pending, compensate>> /\ ForgetQueries(q)
      BY <2>2 DEF Leave, Teardown
    <3>2. p # q
      BY <3>1 DEF ForgetQueries, Blank, TypeOK
    <3>3. Owed /\ Asked
      BY <3>1, <3>2 DEF ForgetQueries, TypeOK, Owed, Asked
    <3>4. ws'[p] = ws[p]
      BY <2>2, <3>2 DEF Leave, Teardown, TypeOK
    <3>5. ws[p] # Offline => down'[ws[p]] = down[ws[p]]
      <4>1. CASE Leave(q)
        BY <4>1 DEF Leave
      <4>2. CASE Teardown(q)
        <5>1. ws[p] # Offline => ws[p] # ws[q]
          BY <1>0, <3>2 DEF Connected
        <5>2. QED
          BY <1>0, <4>2, <5>1 DEF Teardown, Hush
      <4>3. QED
        BY <2>2, <4>1, <4>2
    <3>6. Wired
      BY <3>1, <3>4, <3>5 DEF Wired, Framed
    <3>7. QED
      BY <1>1, <2>0, <3>3, <3>6
  <2>3. CASE Connect(q)
    <3>1. UNCHANGED <<owed, pending, fetch, seen, down>> /\ compensate \subseteq compensate'
      BY <2>3 DEF Connect
    <3>2. ws[p] = Offline \/ ws'[p] = ws[p]
      BY <1>0, <2>3 DEF Connect
    <3>3. Wired
      BY <3>1, <3>2 DEF Wired, Framed
    <3>4. QED
      BY <1>1, <1>2, <2>0, <3>1, <3>3 DEF Owed
  <2>4. CASE ReceiveChange(q)
    <3>1. UNCHANGED <<owed, fetch, seen, ws, compensate>>
      BY <2>4 DEF ReceiveChange
    <3>2. ws[q] \in Socket /\ down[ws[q]] \in Seq(Kind) /\ down[ws[q]] # <<>>
      BY <1>0, <2>4 DEF ReceiveChange, TypeOK
    <3>3. Asked
      BY <2>4, <3>1 DEF ReceiveChange, TypeOK, Asked
    <3>4. Wired
      <4>1. CASE p = q
        <5>1. down'[ws[p]] = Tail(down[ws[p]]) /\ Head(down[ws[p]]) \in pending'[p]
          BY <2>4, <3>2, <4>1 DEF ReceiveChange, TypeOK
        <5>2. ASSUME NEW i \in 1..Len(down[ws[p]]), down[ws[p]][i] = k, i # 1
              PROVE  i - 1 \in 1..Len(down'[ws[p]]) /\ down'[ws[p]][i - 1] = k
          BY <3>2, <4>1, <5>1, <5>2
        <5>3. Framed(p, k) => Framed(p, k)' \/ k \in pending'[p]
          BY <3>1, <3>2, <4>1, <5>1, <5>2 DEF Framed
        <5>4. QED
          BY <3>1, <5>3 DEF Wired
      <4>2. CASE p # q
        <5>1. ws[p] # Offline => ws[p] # ws[q]
          BY <1>0, <3>2, <4>2 DEF Connected
        <5>2. ws[p] # Offline => down'[ws[p]] = down[ws[p]]
          BY <1>0, <2>4, <5>1 DEF ReceiveChange, TypeOK
        <5>3. QED
          BY <3>1, <5>2 DEF Wired, Framed
      <4>3. QED
        BY <4>1, <4>2
    <3>5. QED
      BY <1>1, <2>0, <3>1, <3>3, <3>4 DEF Owed
  <2>5. CASE Flush(q)
    <3>1. UNCHANGED <<owed, seen, ws, down, compensate>>
      BY <2>5 DEF Flush
    <3>2. /\ fetch' = [fetch EXCEPT ![q] = Invalidated(q, pending[q])]
          /\ pending' = [pending EXCEPT ![q] = {}]
      BY <2>5 DEF Flush
    <3>3. p \in visiting
      BY <3>1 DEF Ordered
    <3>4. CASE p = q /\ k \in pending[p]
      <4>1. fetch'[p][k] = Sent
        BY <3>2, <3>3, <3>4 DEF Invalidated, TypeOK
      <4>2. QED
        BY <4>1 DEF OnItsWay
    <3>5. CASE p = q /\ k \notin pending[p]
      <4>1. fetch'[p][k] = fetch[p][k]
        BY <3>2, <3>5 DEF Invalidated, TypeOK
      <4>2. OnItsWay(p, k)
        BY <3>1 DEF Delivered
      <4>3. Deaf(p) => Deaf(p)' \/ p \in compensate'
        BY <1>0, StepHearing DEF Excused
      <4>4. QED
        BY <3>1, <3>5, <4>1, <4>2, <4>3 DEF OnItsWay
    <3>6. CASE p # q
      <4>1. Asked
        BY <3>1, <3>2, <3>6 DEF Asked, TypeOK
      <4>2. QED
        BY <1>1, <1>3, <2>0, <3>1, <4>1 DEF Owed
    <3>7. QED
      BY <3>4, <3>5, <3>6
  <2>6. CASE Compensate(q)
    <3>1. UNCHANGED <<owed, seen, ws, down, pending>> /\ compensate' = compensate \ {q}
      BY <2>6 DEF Compensate
    <3>2. fetch' = [fetch EXCEPT ![q] = Invalidated(q, Missed)]
      BY <2>6 DEF Compensate
    <3>3. CASE p = q
      <4>1. p \in visiting
        BY <3>1 DEF Ordered
      <4>2. fetch'[p][k] = Sent
        BY <3>2, <3>3, <4>1 DEF Invalidated, Missed, TypeOK
      <4>3. QED
        BY <4>2 DEF OnItsWay
    <3>4. CASE p # q
      <4>1. fetch'[p][k] = fetch[p][k]
        BY <3>2, <3>4 DEF TypeOK
      <4>2. OnItsWay(p, k)
        BY <3>1 DEF Delivered
      <4>3. Deaf(p) => Deaf(p)' \/ p \in compensate'
        BY <1>0, StepHearing DEF Excused
      <4>4. QED
        BY <3>1, <3>4, <4>1, <4>2, <4>3 DEF OnItsWay
    <3>5. QED
      BY <3>3, <3>4
  <2>7. ASSUME NEW j \in Kind, Read(q, j)
        PROVE  OnItsWay(p, k)'
    <3>1. UNCHANGED <<owed, seen, ws, down, pending, compensate, version, role>>
      BY <2>7 DEF Read, memberVars
    <3>2. fetch' = [fetch EXCEPT ![q][j] = IF role[UserOf[q]] = "none" THEN Idle ELSE version[j]]
      BY <2>7 DEF Read
    <3>3. CASE p = q /\ k = j
      <4>1. role[UserOf[p]] # "none" /\ owed'[p][k] <= version[k]
        BY <3>1 DEF Ordered
      <4>2. fetch'[p][k] = version[k]
        BY <3>2, <3>3, <4>1 DEF TypeOK
      <4>3. QED
        BY <4>1, <4>2, QueryTypes, <3>1 DEF OnItsWay
    <3>4. CASE ~(p = q /\ k = j)
      <4>1. fetch'[p][k] = fetch[p][k]
        BY <3>2, <3>4 DEF TypeOK
      <4>2. Asked
        BY <3>1, <4>1 DEF Asked
      <4>3. QED
        BY <1>1, <1>3, <2>0, <3>1, <4>2 DEF Owed
    <3>5. QED
      BY <3>3, <3>4
  <2>8. ASSUME NEW j \in Kind, Show(q, j)
        PROVE  OnItsWay(p, k)'
    <3>1. UNCHANGED <<owed, ws, down, pending, compensate>>
      BY <2>8 DEF Show
    <3>2. /\ fetch' = [fetch EXCEPT ![q][j] = Idle]
          /\ seen' = [seen EXCEPT ![q][j] = fetch[q][j]] /\ fetch[q][j] \in Nat
      BY <2>8 DEF Show
    <3>3. CASE p = q /\ k = j
      <4>1. seen'[p][k] = fetch[p][k] /\ fetch[p][k] \in Nat /\ seen[p][k] <= fetch[p][k]
        BY <3>2, <3>3 DEF TypeOK, Ordered
      <4>2. OnItsWay(p, k)
        BY <3>1 DEF Delivered
      <4>3. Deaf(p) => Deaf(p)' \/ p \in compensate'
        BY <1>0, StepHearing DEF Excused
      <4>4. seen[p][k] >= owed[p][k] => seen'[p][k] >= owed'[p][k]
        BY <3>1, <4>1, QueryTypes DEF NoData
      <4>5. fetch[p][k] # Sent
        BY <4>1 DEF Sent
      <4>6. QED
        BY <3>1, <4>1, <4>2, <4>3, <4>4, <4>5 DEF OnItsWay
    <3>4. CASE ~(p = q /\ k = j)
      <4>1. fetch'[p][k] = fetch[p][k] /\ seen'[p][k] = seen[p][k]
        BY <3>2, <3>4 DEF TypeOK
      <4>2. Asked
        BY <3>1, <4>1 DEF Asked
      <4>3. QED
        BY <1>1, <1>3, <2>0, <3>1, <4>2 DEF Owed
    <3>5. QED
      BY <3>3, <3>4
  <2>9. QED
    BY <1>15, <2>1, <2>2, <2>3, <2>4, <2>5, <2>6, <2>7, <2>8 DEF Browser
<1>16. CASE UNCHANGED vars
  <2>1. UNCHANGED <<owed, pending, fetch, seen, ws, down, compensate, gaps, listening, notices>>
    BY <1>16 DEF vars
  <2>2. QED
    BY <1>1, <1>2, <1>3, <1>4, <2>1 DEF Owed
<1>17. QED
  BY <1>5, <1>6, <1>7, <1>8, <1>9, <1>10, <1>11, <1>12, <1>13, <1>14, <1>15, <1>16
     DEF Next, Gateway

LEMMA StepPromised ==
  ASSUME Promised, [Next]_vars
  PROVE  Promised'
<1>1. TypeOK' /\ Connected' /\ Ordered' /\ Steady'
  BY StepTyped, StepConnected, StepOrdered, StepSteady DEF Promised
<1>2. QED
  BY <1>1, StepDelivered DEF Promised

LEMMA InitPromised ==
  ASSUME Init
  PROVE  Promised
<1>1. /\ joined = channel /\ listening /\ \A p \in Page : ws[p] = Offline
      /\ \A p \in Page, k \in Kind :
           /\ owed[p][k] = 0 /\ version[k] = 0 /\ seen[p][k] = NoData /\ fetch[p][k] = Idle
  BY DEF Init, Blank, NoQueries, Unloaded
<1>2. Connected /\ Ordered /\ Steady /\ Delivered
  BY <1>1 DEF Connected, Ordered, Steady, Delivered, Owing, NoData, Idle
<1>3. QED
  BY <1>2, InitTyped DEF Promised

(* What is still on its way is gone once the page has settled. *)
LEMMA PromisesKept ==
  ASSUME Promised
  PROVE  PagesFresh
<1> SUFFICES ASSUME NEW p \in Page, NEW k \in Kind, k = "rows" => gaps = 0, Settled(p), owed[p][k] > 0
             PROVE  seen[p][k] >= owed[p][k]
  BY DEF PagesFresh, StructureFresh, RowsFresh, UpToDate, Kind
<1>1. OnItsWay(p, k)
  BY DEF Promised, Delivered
<1>2. fetch[p][k] = Idle /\ ~Deaf(p) /\ p \notin compensate /\ listening /\ pending[p] = {}
  BY DEF Settled, Hearing, Deaf, NoQueries
<1>3. ~Framed(p, k)
  <2>1. Len(down[ws[p]]) = 0
    BY DEF Settled
  <2>2. QED
    BY <2>1 DEF Framed
<1>4. \A by \in User : notices[<<k, by>>] = 0
  BY DEF Settled
<1>5. fetch[p][k] # Sent /\ fetch[p][k] \notin Nat /\ k \notin pending[p]
  BY <1>2 DEF Idle, Sent
<1>6. ~ \E by \in User : by # UserOf[p] /\ notices[<<k, by>>] > 0
  <2> SUFFICES ASSUME NEW by \in User, notices[<<k, by>>] > 0
               PROVE  FALSE
    OBVIOUS
  <2>1. notices[<<k, by>>] = 0
    BY <1>4
  <2>2. QED
    BY <2>1
<1>7. QED
  BY <1>1, <1>2, <1>3, <1>5, <1>6 DEF OnItsWay, Framed

(* A page that was subscribed when another user changed the base shows the  *)
(* change once everything in flight has arrived, across broken connections, *)
(* kicks and awaited lookups; of the rows unless LISTEN was lost            *)
(* (subscribe.ts:36-45, gateway.ts:253-260, realtime-provider.tsx:152-159). *)
THEOREM PagesCatchUp == Spec => []PagesFresh
  BY InitPromised, StepPromised, PromisesKept, PTL DEF Spec

=============================================================================
