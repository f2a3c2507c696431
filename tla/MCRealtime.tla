----------------------------- MODULE MCRealtime -----------------------------
(* Instances of Realtime for TLC: o created the base, m has one page.       *)
EXTENDS Realtime

CONSTANTS o, m, tab, c1, c2, i1, Budget

PageOwner == [x \in {tab} |-> m]
SocketPage == [x \in {c1, c2} |-> tab]

(* Bounds: either two calls about membership while no page is open, or one *)
(* call about the user of the page and one commit, loss or departure, or   *)
(* three of these, with commits of one kind.                               *)
AboutPage(c) == c.op \in {"delete", "accept"} \/ (c.op = "member" /\ c.to = m /\ c.role # "viewer")

Focus ==
  \/ wanted = {} /\ version = Blank /\ gaps = 0 /\ \A n \in Notice : notices[n] <= 1
  \/ /\ ops <= 1 /\ gaps + moves + version["rows"] + version["structure"] <= Budget - 2 * ops
     /\ 0 \in {version["rows"], version["structure"]}
     /\ role[m] \in {"none", "editor"} /\ \A c \in calls : AboutPage(c)
     /\ \A i \in Invite : invite[i].state = "pending" =>
          role[m] = "none" /\ invite[i].to = m /\ ~invite[i].expired
=============================================================================
