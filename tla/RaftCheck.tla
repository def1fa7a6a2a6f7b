------------------------------ MODULE RaftCheck ------------------------------
(***************************************************************************)
(* Check of raft/transport.go, the health check of the nodes of            *)
(* RaftCluster.  A node that knows a leader forwards the call to it; a     *)
(* node that leads asks every peer and names the ones that fail or know no *)
(* leader.  There is no hop count and no deadline of the code's own, the   *)
(* two atomics are loaded one after the other, and GracefulStop waits for  *)
(* the handlers of a node that stops.                                      *)
(*                                                                         *)
(* One call of a client is followed.  Of the handlers below the last one   *)
(* only the nodes matter (at which they keep GracefulStop waiting), as     *)
(* they pass on the answer they get.                                       *)
(***************************************************************************)
EXTENDS RaftCluster

VARIABLE check
    \* pc: what the last handler does next;  at: its node;  path: the nodes with a
    \* handler;  leader: what it loaded;  said: whether the last call was answered with
    \* HasLeader (by the node at), FALSE after an error

vars == <<clusterVars, check>>

CheckPcs == {"idle", "loadLeader", "loadIsLeader", "probe"}

TypeOK ==
    /\ ClusterTypeOK
    /\ check \in [pc : CheckPcs, at : Ids, path : SUBSET Nodes, leader : Ids, said : BOOLEAN]
    /\ check.pc \in {"loadIsLeader", "probe"} => check.leader \in Nodes

NoCheck == [pc |-> "idle", at |-> None, path |-> {}, leader |-> None,
            said |-> FALSE]

Init == ClusterInit /\ check = NoCheck

Active == check.pc # "idle"

\* All handlers return what the last one does.
Answered(hasLeader) ==
    IF hasLeader THEN [NoCheck EXCEPT !.at = check.at, !.said = TRUE] ELSE NoCheck

-----------------------------------------------------------------------------
\* A client, or a node that forwards, calls n.
Arrive(n) == [NoCheck EXCEPT !.pc = "loadLeader", !.at = n,
                             !.path = IF Active THEN check.path \cup {n} ELSE {n}]

Call(n) ==
    /\ ~Active /\ Up(n)
    /\ check' = Arrive(n)
    /\ UNCHANGED clusterVars

\* Slip: no leader is not an answer of its own.
LoadLeaderDefect ==
    /\ check.pc = "loadLeader"
    /\ check' = [check EXCEPT !.pc = "loadIsLeader", !.leader = transport[check.at].leader]
    /\ UNCHANGED clusterVars

\* leader := t.leader.Load()
LoadLeader ==
    /\ check.pc = "loadLeader"
    /\ LET leader == transport[check.at].leader
       IN  check' = IF leader = None THEN Answered(FALSE)
                    ELSE [check EXCEPT !.pc = "loadIsLeader", !.leader = leader]
    /\ UNCHANGED clusterVars

\* Slip: the forwarded call says that it comes from the leader.
ForwardDefect == Answered(Up(check.leader))

\* Slip: a call to a node that is not there waits for it.
ForwardWaitsDefect == IF Up(check.leader) THEN Arrive(check.leader) ELSE check

\* peer.client.Check: a node that is not up takes no call.
Forward == IF Up(check.leader) THEN Arrive(check.leader) ELSE Answered(FALSE)

\* isLeader := t.isLeader.Load() and what follows from both.  The peers of the
\* transport are all the nodes, so the leader is among them.
LoadIsLeader ==
    /\ check.pc = "loadIsLeader"
    /\ check' = IF transport[check.at].isLeader THEN [check EXCEPT !.pc = "probe"] ELSE Forward
    /\ UNCHANGED clusterVars

\* The leader has asked its peers, itself among them, with FromLeader.  Each of those
\* calls ends at once, in an answer or an error, and changes nothing; which peers are named
\* in UnhealthyNodes is left out.
Respond ==
    /\ check.pc = "probe"
    /\ check' = Answered(TRUE)
    /\ UNCHANGED clusterVars

\* The client's context ends, and with it those of all handlers.
GiveUp ==
    /\ Active
    /\ check' = Answered(FALSE)
    /\ UNCHANGED clusterVars

-----------------------------------------------------------------------------
\* GracefulStop is over when no handler is left.
ServerStops(n) ==
    /\ proc[n] = "stopping" /\ n \notin check.path
    /\ Forget(n)
    /\ UNCHANGED check

\* A process dies, and with it the calls that go through it.
Crash(n) ==
    /\ proc[n] # "down"
    /\ Forget(n)
    /\ check' = IF n \in check.path THEN Answered(FALSE) ELSE check

HandlerStep == LoadLeader \/ LoadIsLeader \/ Respond

ClusterStep ==
    /\ LibraryStep \/ (\E n \in Nodes : LoopStep(n) \/ Stop(n) \/ StartProcess(n))
    /\ UNCHANGED check

Next ==
    \/ ClusterStep \/ HandlerStep \/ GiveUp
    \/ \E n \in Nodes : Call(n) \/ ServerStops(n) \/ Crash(n)

Spec == Init /\ [][Next]_vars

\* Handlers, loops and servers are scheduled.  Nothing is assumed of elections, clients,
\* stops, crashes and restarts; that the loop gets to its next Ready assumes, as in
\* RaftLoop, that the calls of DoSend end.
Fairness ==
    /\ WF_vars(HandlerStep)
    /\ \A n \in Nodes : WF_vars((LoopStep(n) /\ UNCHANGED check) \/ ServerStops(n))

FairSpec == Spec /\ Fairness

-----------------------------------------------------------------------------
(* Properties. *)

\* HasLeader is said by a node that has led, however stale what the nodes before it have
\* published and however the loads of the two atomics meet the stores.
AnswersComeFromLeaders ==
    check.said \/ check.pc = "probe" => \E t \in Terms : <<t, check.at>> \in won

\* A call of Check ends, without help of the client's deadline: nodes may forward it to
\* each other only until they have published what they know.
CheckEnds == <>(restarts > 0) \/ [](Active => <>~Active)

\* GracefulStop ends: the handler that it waits for may itself wait for a peer that
\* stops, or for the node that it runs on, and gets an answer.
StopEnds == <>(restarts > 0) \/ \A n \in Nodes : [](proc[n] = "stopping" => <>(proc[n] = "down"))

=============================================================================
