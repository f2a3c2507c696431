------------------------------ MODULE Realtime ------------------------------
(***************************************************************************)
(* How an open page hears of changes, and how a former member stops        *)
(* hearing of them: server/realtime (publish.ts, subscribe.ts, gateway.ts) *)
(* and the browser (lib/realtime/client.ts, realtime-provider.tsx), over   *)
(* the membership of one base.                                             *)
(*                                                                         *)
(* A notice published while the gateway's LISTEN connection is down is     *)
(* lost.  The gateway authorizes a subscription with a database lookup it  *)
(* awaits, while frames, kicks and closures go on.  Frames of one socket   *)
(* stay in order; a socket may break at any time, and the gateway notices  *)
(* later than the browser.                                                 *)
(*                                                                         *)
(* Timing assumed: the lookup of a subscription ends within the 200 ms     *)
(* that the provider waits after a reconnection before it refetches        *)
(* (realtime-provider.tsx:163-177); see PromptLookup.                      *)
(***************************************************************************)
EXTENDS Membership, Sequences

CONSTANTS
  Page, UserOf,    \* pages of the browser, and whose each is
  Socket, PageOf,  \* connections, and the page that opens each
  MaxChanges,      \* bound: commits that are published
  MaxGaps,         \* bound: losses of the LISTEN connection
  MaxMoves         \* bound: departures of pages and broken connections

Offline == "offline"
NoUser == "nobody"

ASSUME RealtimeAssumption ==
  /\ UserOf \in [Page -> User] /\ NoUser \notin User
  /\ PageOf \in [Socket -> Page] /\ Offline \notin Socket
  /\ MaxChanges \in Nat /\ MaxGaps \in Nat /\ MaxMoves \in Nat

VARIABLES
  version,    \* number of commits to the rows and to the structure
  \* subscribe.ts and gateway.ts
  listening,  \* the LISTEN connection is up
  gaps,       \* how often it was lost
  clients,    \* connections the gateway knows
  closing,    \* connections it has begun to close
  joined,     \* clients whose meta.baseIds has the base
  channel,    \* channels.get(base)
  lookups,    \* answers of the membership lookups each onMessage awaits
  \* client.ts and realtime-provider.tsx
  wanted,     \* pages on a route under /bases
  visiting,   \* pages that show the base
  ws,         \* the current connection of each page
  hasConnected,
  pending,    \* what the next flush invalidates
  compensate, \* pages whose reconnection timer runs
  fetch,      \* per query: Idle, Sent or the version it has read
  seen,       \* the version the page shows, NoData before the first
  owed,       \* the version the page has been promised
  moves,      \* departures and breaks so far
  \* frames on their way in each connection
  up, down

gatewayVars == <<listening, gaps, clients, closing, joined, channel, lookups>>
queryVars == <<pending, compensate, fetch, seen, owed>>
pageVars == <<wanted, visiting, ws, hasConnected, moves, queryVars>>
vars == <<memberVars, notices, version, gatewayVars, pageVars, up, down>>

Kind == {"rows", "structure"}
Idle == -2
Sent == -1
NoData == -1
Blank == [k \in Kind |-> 0]
NoQueries == [k \in Kind |-> Idle]
Unloaded == [k \in Kind |-> NoData]
Holder(c) == UserOf[PageOf[c]]

TypeOK ==
  /\ TypeOKMembers
  /\ version \in [Kind -> 0..MaxChanges]
  /\ listening \in BOOLEAN /\ gaps \in 0..MaxGaps
  /\ clients \in SUBSET Socket /\ closing \in SUBSET clients
  /\ joined \in SUBSET Socket /\ channel \in SUBSET Socket
  /\ lookups \in [Socket -> SUBSET BOOLEAN]
  /\ up \in [Socket -> Seq({"subscribe", "unsubscribe"})]
  /\ down \in [Socket -> Seq(Kind)]
  /\ visiting \in SUBSET wanted /\ wanted \in SUBSET Page
  /\ ws \in [Page -> Socket \cup {Offline}]
  /\ moves \in 0..MaxMoves
  /\ hasConnected \in SUBSET wanted /\ compensate \in SUBSET Page
  /\ pending \in [Page -> SUBSET Kind]
  /\ fetch \in [Page -> [Kind -> {Idle, Sent} \cup Nat]]
  /\ seen \in [Page -> [Kind -> {NoData} \cup Nat]]
  /\ owed \in [Page -> [Kind -> Nat]]

Init ==
  /\ InitMembers
  /\ version = Blank
  /\ listening = TRUE /\ gaps = 0
  /\ clients = {} /\ closing = {} /\ joined = {} /\ channel = {}
  /\ lookups = [c \in Socket |-> {}]
  /\ up = [c \in Socket |-> <<>>] /\ down = [c \in Socket |-> <<>>]
  /\ wanted = {} /\ visiting = {} /\ hasConnected = {} /\ compensate = {}
  /\ ws = [p \in Page |-> Offline] /\ moves = 0
  /\ pending = [p \in Page |-> {}]
  /\ fetch = [p \in Page |-> NoQueries]
  /\ seen = [p \in Page |-> Unloaded]
  /\ owed = [p \in Page |-> Blank]

-----------------------------------------------------------------------------
(***************************************************************************)
(* Commits.                                                                *)
(***************************************************************************)
Open(c) == c \in clients \ closing

Hearing(p) ==
  /\ ws[p] # Offline /\ Open(ws[p]) /\ ws[p] \in channel /\ up[ws[p]] = <<>>
  /\ role[UserOf[p]] # "none"

(* A change by another user is owed to every page that shows the base and   *)
(* hears of it when the change commits.                                     *)
Commit(k, by) ==
  /\ version["rows"] + version["structure"] < MaxChanges
  /\ AtLeast(role[by], "editor")
  /\ version' = [version EXCEPT ![k] = @ + 1]
  /\ notices' = Publish(notices, {<<k, by>>})
  /\ owed' = [p \in Page |->
       IF Hearing(p) /\ UserOf[p] # by /\ seen[p][k] # NoData
       THEN [owed[p] EXCEPT ![k] = version'[k]] ELSE owed[p]]
  /\ UNCHANGED <<memberVars, gatewayVars, wanted, visiting, ws, hasConnected, moves,
                 pending, compensate, fetch, seen, up, down>>

(* Nothing is owed to a user who is not a member.                           *)
MembersAct ==
  /\ MemberStep
  /\ owed' = [p \in Page |-> IF role'[UserOf[p]] = "none" THEN Blank ELSE owed[p]]
  /\ UNCHANGED <<version, gatewayVars, wanted, visiting, ws, hasConnected, moves,
                 pending, compensate, fetch, seen, up, down>>

-----------------------------------------------------------------------------
(***************************************************************************)
(* The gateway.                                                            *)
(***************************************************************************)
Consumed(n) == notices[n] > 0 /\ notices' = [notices EXCEPT ![n] = @ - 1]

(* broadcast(): skips a connection that `clients` has lost, and every       *)
(* connection of the user whose change it is.                               *)
Broadcast(k, except) ==
  down' = [c \in Socket |->
    IF c \in channel /\ Open(c) /\ Holder(c) # except THEN Append(down[c], k) ELSE down[c]]

HandleChange(k, by) ==
  /\ listening /\ Consumed(<<k, by>>)
  /\ Broadcast(k, by)
  /\ UNCHANGED <<memberVars, version, gatewayVars, pageVars, up>>

(* closeBaseForUser(): a subscription whose lookup is under way escapes.    *)
HandleKick(u) ==
  /\ listening /\ Consumed(<<"kick", u>>)
  /\ LET kicked == {c \in channel \cap clients : Holder(c) = u}
     IN /\ channel' = channel \ kicked
        /\ joined' = joined \ kicked
        /\ closing' = closing \cup kicked
  /\ UNCHANGED <<memberVars, version, listening, gaps, clients, lookups, pageVars, up, down>>

LoseListener ==
  /\ listening /\ gaps < MaxGaps
  /\ listening' = FALSE /\ gaps' = gaps + 1
  /\ UNCHANGED <<memberVars, notices, version, clients, closing, joined, channel, lookups,
                 pageVars, up, down>>

MissNotice(n) ==
  /\ ~listening /\ Consumed(n)
  /\ UNCHANGED <<memberVars, version, gatewayVars, pageVars, up, down>>

(* rebroadcastAllChannels(): one change of the base, without a table.       *)
Rebroadcast == Broadcast("structure", NoUser)

Relisten ==
  /\ ~listening /\ listening' = TRUE
  /\ Rebroadcast
  /\ UNCHANGED <<memberVars, notices, version, gaps, clients, closing, joined, channel,
                 lookups, pageVars, up>>

(* onMessage: the lookup of a subscription is read here and used in Join.   *)
ReceiveFrame(c) ==
  /\ c \in clients /\ up[c] # <<>>
  /\ up' = [up EXCEPT ![c] = Tail(@)]
  /\ IF Head(up[c]) = "subscribe"
     THEN /\ lookups' = IF c \in joined THEN lookups
                        ELSE [lookups EXCEPT ![c] = @ \cup {role[Holder(c)] # "none"}]
          /\ UNCHANGED <<joined, channel>>
     ELSE /\ channel' = channel \ {c} /\ joined' = joined \ {c}
          /\ UNCHANGED lookups
  /\ UNCHANGED <<memberVars, notices, version, listening, gaps, clients, closing, pageVars, down>>

(* Mutant of Admitted: the answer of the lookup is not looked at. *)
AnyoneAdmitted(member) == TRUE

Admitted(member) == member

(* Nothing re-checks that the connection is still there or not kicked.      *)
(* After a reconnection the page is owed what it missed.                    *)
Join(c, member) ==
  /\ member \in lookups[c]
  /\ lookups' = [lookups EXCEPT ![c] = @ \ {member}]
  /\ IF Admitted(member)
     THEN channel' = channel \cup {c} /\ joined' = joined \cup {c}
     ELSE UNCHANGED <<channel, joined>>
  /\ LET p == PageOf[c]
     IN owed' = IF ws[p] = c /\ p \in compensate /\ role[UserOf[p]] # "none" /\ Admitted(member)
                THEN [owed EXCEPT ![p] = [k \in Kind |->
                        IF seen[p][k] = NoData THEN 0 ELSE version[k]]]
                ELSE owed
  /\ UNCHANGED <<memberVars, notices, version, listening, gaps, clients, closing, wanted,
                 visiting, ws, hasConnected, moves, pending, compensate, fetch, seen, up, down>>

Forget(c) ==
  /\ clients' = clients \ {c} /\ closing' = closing \ {c}
  /\ IF c \in joined
     THEN channel' = channel \ {c} /\ joined' = joined \ {c}
     ELSE UNCHANGED <<channel, joined>>

(* onClose: the gateway learns that the browser has gone.                   *)
Disconnect(c) ==
  /\ c \in clients /\ ws[PageOf[c]] # c
  /\ Forget(c)
  /\ UNCHANGED <<memberVars, notices, version, listening, gaps, lookups, pageVars, up, down>>

(* sweepMemberships: terminate a client that subscribes without membership. *)
Sweep(c) ==
  /\ c \in clients /\ c \in joined /\ role[Holder(c)] = "none"
  /\ Forget(c)
  /\ UNCHANGED <<memberVars, notices, version, listening, gaps, lookups, pageVars, up, down>>

-----------------------------------------------------------------------------
(***************************************************************************)
(* The browser.                                                            *)
(***************************************************************************)
(* Invalidation restarts a query in flight.                                 *)
Invalidated(p, kinds) ==
  [k \in Kind |-> IF p \in visiting /\ k \in kinds THEN Sent ELSE fetch[p][k]]

SendUp(p, frame) ==
  up' = IF ws[p] = Offline THEN up ELSE [up EXCEPT ![ws[p]] = Append(@, frame)]

Move == moves < MaxMoves /\ moves' = moves + 1

(* The queries of a page load in one step: nobody promised what changes     *)
(* before they have.                                                        *)
Enter(p) ==
  /\ p \notin visiting
  /\ wanted' = wanted \cup {p} /\ visiting' = visiting \cup {p}
  /\ SendUp(p, "subscribe")
  /\ seen' = [seen EXCEPT ![p] = IF role[UserOf[p]] = "none" THEN Unloaded ELSE version]
  /\ UNCHANGED <<memberVars, notices, version, gatewayVars, ws, hasConnected, moves, pending,
                 compensate, fetch, owed, down>>

ForgetQueries(p) ==
  /\ fetch' = [fetch EXCEPT ![p] = NoQueries]
  /\ seen' = [seen EXCEPT ![p] = Unloaded]
  /\ owed' = [owed EXCEPT ![p] = Blank]

Leave(p) ==
  /\ p \in visiting /\ visiting' = visiting \ {p}
  /\ Move
  /\ SendUp(p, "unsubscribe")
  /\ ForgetQueries(p)
  /\ UNCHANGED <<memberVars, notices, version, gatewayVars, wanted, ws, hasConnected,
                 pending, compensate, down>>

Hush(c) ==
  /\ up' = [x \in Socket |-> IF x = c THEN <<>> ELSE up[x]]
  /\ down' = [x \in Socket |-> IF x = c THEN <<>> ELSE down[x]]

(* The page leaves /bases: disconnect().                                    *)
Teardown(p) ==
  /\ p \in wanted
  /\ Move
  /\ wanted' = wanted \ {p} /\ visiting' = visiting \ {p}
  /\ hasConnected' = hasConnected \ {p}
  /\ Hush(ws[p])
  /\ ws' = [ws EXCEPT ![p] = Offline]
  /\ ForgetQueries(p)
  /\ UNCHANGED <<memberVars, notices, version, gatewayVars, pending, compensate>>

Unused(p) ==
  {c \in Socket : PageOf[c] = p /\ c \notin clients \cup channel /\ lookups[c] = {}}

(* The socket opens at both ends and replays the subscriptions.             *)
Connect(p) ==
  /\ p \in wanted /\ ws[p] = Offline /\ Unused(p) # {}
  /\ LET c == CHOOSE c \in Unused(p) : TRUE
     IN /\ ws' = [ws EXCEPT ![p] = c]
        /\ clients' = clients \cup {c}
        /\ up' = [up EXCEPT ![c] = IF p \in visiting THEN <<"subscribe">> ELSE <<>>]
  /\ compensate' = IF p \in hasConnected THEN compensate \cup {p} ELSE compensate
  /\ hasConnected' = hasConnected \cup {p}
  /\ UNCHANGED <<memberVars, notices, version, listening, gaps, closing, joined, channel,
                 lookups, wanted, visiting, moves, pending, fetch, seen, owed, down>>

Lost(c) ==
  /\ ws[PageOf[c]] = c
  /\ ws' = [ws EXCEPT ![PageOf[c]] = Offline]
  /\ Hush(c)
  /\ UNCHANGED <<memberVars, notices, version, gatewayVars, wanted, visiting, hasConnected,
                 queryVars>>

(* The network breaks, or the gateway terminates a slow reader.             *)
Break(c) == Open(c) /\ Move /\ Lost(c)

(* onclose after the gateway closed the connection.                         *)
Closed(c) == ~Open(c) /\ Lost(c) /\ UNCHANGED moves

ReceiveChange(p) ==
  /\ ws[p] # Offline /\ down[ws[p]] # <<>>
  /\ pending' = [pending EXCEPT ![p] = @ \cup {Head(down[ws[p]])}]
  /\ down' = [down EXCEPT ![ws[p]] = Tail(@)]
  /\ UNCHANGED <<memberVars, notices, version, gatewayVars, wanted, visiting, ws,
                 hasConnected, moves, compensate, fetch, seen, owed, up>>

(* flush(): a change of the base refetches its structure only.              *)
Flush(p) ==
  /\ pending[p] # {}
  /\ fetch' = [fetch EXCEPT ![p] = Invalidated(p, pending[p])]
  /\ pending' = [pending EXCEPT ![p] = {}]
  /\ UNCHANGED <<memberVars, notices, version, gatewayVars, wanted, visiting, ws,
                 hasConnected, moves, compensate, seen, owed, up, down>>

PromptLookup(p) == ws[p] # Offline => up[ws[p]] = <<>> /\ lookups[ws[p]] = {}

(* Mutant of Missed: a reconnection refetches the structure only. *)
MissedStructure == {"structure"}

Missed == Kind

Compensate(p) ==
  /\ p \in compensate /\ PromptLookup(p)
  /\ compensate' = compensate \ {p}
  /\ fetch' = [fetch EXCEPT ![p] = Invalidated(p, Missed)]
  /\ UNCHANGED <<memberVars, notices, version, gatewayVars, wanted, visiting, ws,
                 hasConnected, moves, pending, seen, owed, up, down>>

(* A query reads the database; it is refused without membership.            *)
Read(p, k) ==
  /\ fetch[p][k] = Sent
  /\ fetch' = [fetch EXCEPT ![p][k] =
       IF role[UserOf[p]] = "none" THEN Idle ELSE version[k]]
  /\ UNCHANGED <<memberVars, notices, version, gatewayVars, wanted, visiting, ws,
                 hasConnected, moves, pending, compensate, seen, owed, up, down>>

Show(p, k) ==
  /\ fetch[p][k] \in Nat
  /\ seen' = [seen EXCEPT ![p][k] = fetch[p][k]]
  /\ fetch' = [fetch EXCEPT ![p][k] = Idle]
  /\ UNCHANGED <<memberVars, notices, version, gatewayVars, wanted, visiting, ws,
                 hasConnected, moves, pending, compensate, owed, up, down>>

Gateway(c) ==
  ReceiveFrame(c) \/ (\E b \in BOOLEAN : Join(c, b)) \/ Disconnect(c)

Browser(p) ==
  \/ Enter(p) \/ Leave(p) \/ Teardown(p)
  \/ Connect(p)
  \/ ReceiveChange(p) \/ Flush(p) \/ Compensate(p)
  \/ \E k \in Kind : Read(p, k) \/ Show(p, k)

Next ==
  \/ MembersAct
  \/ \E k \in Kind, by \in User : Commit(k, by) \/ HandleChange(k, by)
  \/ \E u \in User : HandleKick(u)
  \/ LoseListener \/ (\E n \in Notice : MissNotice(n)) \/ Relisten
  \/ \E c \in Socket : Gateway(c) \/ Sweep(c) \/ Break(c) \/ Closed(c)
  \/ \E p \in Page : Browser(p)

(* The gateway's handlers run, its sweep is periodic (gateway.ts:228), and  *)
(* postgres.js listens again.  Nothing is assumed of users, of the network  *)
(* or of the browser.                                                       *)
Fairness ==
  /\ \A c \in Socket : WF_vars(Gateway(c)) /\ WF_vars(Sweep(c))
  /\ WF_vars(Relisten)

Spec == Init /\ [][Next]_vars /\ Fairness

-----------------------------------------------------------------------------
(***************************************************************************)
(* Properties.                                                             *)
(***************************************************************************)
(* Nothing is on its way to a page that hears of changes.                   *)
Settled(p) ==
  /\ Hearing(p) /\ listening
  /\ \A k \in Kind, u \in User : notices[<<k, u>>] = 0
  /\ down[ws[p]] = <<>> /\ pending[p] = {} /\ p \notin compensate
  /\ fetch[p] = NoQueries

UpToDate(p, k) == Settled(p) /\ owed[p][k] > 0 => seen[p][k] >= owed[p][k]

(* A page that was subscribed when another user changed the tables of the   *)
(* base shows the change once everything in flight has arrived, across      *)
(* broken connections, kicks, and losses of the LISTEN connection           *)
(* (subscribe.ts:36-45, gateway.ts:253-260).                                *)
StructureFresh == \A p \in Page : UpToDate(p, "structure")

(* The same of the rows of a table, while LISTEN is not lost; a client that *)
(* reconnects makes up for what it missed (realtime-provider.tsx:152-159).  *)
RowsFresh == gaps = 0 => \A p \in Page : UpToDate(p, "rows")

(* Both. *)
PagesFresh == StructureFresh /\ RowsFresh

(* The claim of gateway.ts:257-260 of the rebroadcast after a loss of       *)
(* LISTEN: clients treat it as "pull everything in this base".              *)
GapPullsEverything == \A p \in Page : UpToDate(p, "rows")

(* A user who is out for good ends up without a subscription the gateway    *)
(* sends to, though a kick may be lost or run before an awaited lookup      *)
(* (gateway.ts:25-28).                                                      *)
OutsidersStayOut ==
  \A p \in Page :
    <>[](role[UserOf[p]] = "none") =>
      <>[](\A c \in Socket : PageOf[c] = p => c \notin channel \cap clients)
=============================================================================
