----------------------------- MODULE RaftCluster -----------------------------
(***************************************************************************)
(* The nodes of a raft lock, seen from outside: the elections of the raft  *)
(* library that raft/locker.go starts on each of them, processes that stop *)
(* or crash and start again, and the two values by which the loop of a     *)
(* node publishes what it knows (grpcTransport.leader and .isLeader).      *)
(*                                                                         *)
(* The library is external and kept to what the locker depends on: a term, *)
(* a vote and a leader per node.  Votes and heartbeats are delivered late, *)
(* in any order or not at all, as the calls of DoSend are: votes is every  *)
(* vote ever cast and won every election ever won, and a message may       *)
(* arrive as long as it is true of that history.  Nothing of a node        *)
(* survives its process: the storage is in memory (raft/locker.go:155).    *)
(***************************************************************************)
EXTENDS Naturals, FiniteSets

CONSTANTS
    Nodes,
    None,         \* raft.None
    MaxTerm,      \* bound: elections
    MaxRestarts   \* bound: restarts of processes

ASSUME NoneIsNoNode == None \notin Nodes
ASSUME ClusterBoundsAreNat == MaxTerm \in Nat /\ MaxRestarts \in Nat
ASSUME NodesAreFinite == IsFiniteSet(Nodes)

VARIABLES
    term, vote, lead,  \* of the library on each node; lead is its SoftState.Lead
    cand,              \* the nodes in StateCandidate
    votes, won,        \* <<term, voter, candidate>> and <<term, leader>> so far
    proc,              \* the process: "up", "stopping" (GracefulStop) or "down"
    restarts,
    loop, seen,        \* runRaft: where in a Ready it is, and the leader it has seen
    transport          \* what it has published

libVars == <<term, vote, lead, cand, votes, won>>
pubVars == <<loop, seen, transport>>
clusterVars == <<libVars, proc, restarts, pubVars>>

Ids == Nodes \cup {None}
Terms == 0..MaxTerm

ClusterTypeOK ==
    /\ term \in [Nodes -> Terms]
    /\ vote \in [Nodes -> Ids]
    /\ lead \in [Nodes -> Ids]
    /\ cand \subseteq Nodes
    /\ votes \subseteq Terms \X Nodes \X Nodes
    /\ won \subseteq Terms \X Nodes
    /\ proc \in [Nodes -> {"up", "stopping", "down"}]
    /\ restarts \in 0..MaxRestarts
    /\ loop \in [Nodes -> {"select", "leader", "isLeader"}]
    /\ seen \in [Nodes -> Ids]
    /\ transport \in [Nodes -> [leader : Ids, isLeader : BOOLEAN]]

NothingPublished == [leader |-> None, isLeader |-> FALSE]

ClusterInit ==
    /\ term = [n \in Nodes |-> 0]
    /\ vote = [n \in Nodes |-> None]
    /\ lead = [n \in Nodes |-> None]
    /\ cand = {} /\ votes = {} /\ won = {}
    /\ proc = [n \in Nodes |-> "up"]
    /\ restarts = 0
    /\ loop = [n \in Nodes |-> "select"]
    /\ seen = [n \in Nodes |-> None]
    /\ transport = [n \in Nodes |-> NothingPublished]

Up(n) == proc[n] = "up"

-----------------------------------------------------------------------------
(* The raft library. *)

\* Slip: a node is started with itself for its only peer.
VotersDefect(n) == {n}

\* asPeers(config.Peers): every node is started with all of them, itself included.
Voters(n) == Nodes

Elected(n, t) ==
    2 * Cardinality({v \in Voters(n) : <<t, v, n>> \in votes}) > Cardinality(Voters(n))

Campaign(n) ==
    /\ Up(n) /\ lead[n] # n
    /\ term[n] < MaxTerm
    /\ term' = [term EXCEPT ![n] = @ + 1]
    /\ vote' = [vote EXCEPT ![n] = n]
    /\ lead' = [lead EXCEPT ![n] = None]
    /\ cand' = cand \cup {n}
    /\ votes' = votes \cup {<<term[n] + 1, n, n>>}
    /\ UNCHANGED <<won, proc, restarts, pubVars>>

\* DoSend to n, and Send there: a message is applied if the process of n is up.  All other
\* outcomes (a call that fails, a node that has not started or has stopped) lose it, until
\* DoSend is tried again.
Delivers(n) == Up(n)

\* n is asked by c, which has campaigned in term t.
GrantVote(n, c, t) ==
    /\ Delivers(n) /\ n # c
    /\ <<t, c, c>> \in votes
    /\ t > term[n] \/ (t = term[n] /\ vote[n] = None /\ lead[n] = None)
    /\ term' = [term EXCEPT ![n] = t]
    /\ vote' = [vote EXCEPT ![n] = c]
    /\ lead' = [lead EXCEPT ![n] = None]
    /\ cand' = cand \ {n}
    /\ votes' = votes \cup {<<t, n, c>>}
    /\ UNCHANGED <<won, proc, restarts, pubVars>>

Win(n) ==
    /\ Up(n) /\ n \in cand
    /\ Elected(n, term[n])
    /\ lead' = [lead EXCEPT ![n] = n]
    /\ cand' = cand \ {n}
    /\ won' = won \cup {<<term[n], n>>}
    /\ UNCHANGED <<term, vote, votes, proc, restarts, pubVars>>

\* A heartbeat of m, the leader of term t.
Follow(n, m, t) ==
    /\ Delivers(n) /\ n # m
    /\ <<t, m>> \in won
    /\ t > term[n] \/ (t = term[n] /\ lead[n] = None)
    /\ term' = [term EXCEPT ![n] = t]
    /\ vote' = [vote EXCEPT ![n] = IF t > term[n] THEN None ELSE @]
    /\ lead' = [lead EXCEPT ![n] = m]
    /\ cand' = cand \ {n}
    /\ UNCHANGED <<votes, won, proc, restarts, pubVars>>

\* CheckQuorum: a leader that does not hear from a majority steps down.
StepDown(n) ==
    /\ Up(n) /\ lead[n] = n
    /\ lead' = [lead EXCEPT ![n] = None]
    /\ UNCHANGED <<term, vote, cand, votes, won, proc, restarts, pubVars>>

-----------------------------------------------------------------------------
(* runRaft as far as others see it. *)

\* A Ready, or node.Status() where it has no soft state: the leader of that moment.
Receive(n) ==
    /\ Up(n)
    /\ loop[n] = "select" /\ seen[n] # lead[n]
    /\ seen' = [seen EXCEPT ![n] = lead[n]]
    /\ loop' = [loop EXCEPT ![n] = "leader"]
    /\ UNCHANGED <<libVars, proc, restarts, transport>>

\* Slip: a node that leads publishes only that it does.
StoreLeaderDefect(n) ==
    /\ proc[n] # "down" /\ loop[n] = "leader"
    /\ transport' = [transport EXCEPT ![n].leader = IF seen[n] = n THEN @ ELSE seen[n]]
    /\ loop' = [loop EXCEPT ![n] = "isLeader"]
    /\ UNCHANGED <<libVars, proc, restarts, seen>>

\* transport.leader.Store(leader)
StoreLeader(n) ==
    /\ proc[n] # "down" /\ loop[n] = "leader"
    /\ transport' = [transport EXCEPT ![n].leader = seen[n]]
    /\ loop' = [loop EXCEPT ![n] = "isLeader"]
    /\ UNCHANGED <<libVars, proc, restarts, seen>>

\* Slip: the flag is not stored.
StoreIsLeaderDefect(n) ==
    /\ proc[n] # "down" /\ loop[n] = "isLeader"
    /\ loop' = [loop EXCEPT ![n] = "select"]
    /\ UNCHANGED <<libVars, proc, restarts, seen, transport>>

\* transport.isLeader.Store(nowLeader)
StoreIsLeader(n) ==
    /\ proc[n] # "down" /\ loop[n] = "isLeader"
    /\ transport' = [transport EXCEPT ![n].isLeader = (seen[n] = n)]
    /\ loop' = [loop EXCEPT ![n] = "select"]
    /\ UNCHANGED <<libVars, proc, restarts, seen>>

-----------------------------------------------------------------------------
(* Processes. *)

\* Run's context is cancelled: the loop ends, the server stops taking calls.
Stop(n) ==
    /\ Up(n)
    /\ proc' = [proc EXCEPT ![n] = "stopping"]
    /\ UNCHANGED <<libVars, restarts, pubVars>>

\* The process of n is gone, and with it all that the library and the loop knew.
Forget(n) ==
    /\ proc' = [proc EXCEPT ![n] = "down"]
    /\ term' = [term EXCEPT ![n] = 0]
    /\ vote' = [vote EXCEPT ![n] = None]
    /\ lead' = [lead EXCEPT ![n] = None]
    /\ cand' = cand \ {n}
    /\ loop' = [loop EXCEPT ![n] = "select"]
    /\ seen' = [seen EXCEPT ![n] = None]
    /\ transport' = [transport EXCEPT ![n] = NothingPublished]
    /\ UNCHANGED <<votes, won, restarts>>

\* A process starts: NewMemoryStorage, StartNode and a new transport.
StartProcess(n) ==
    /\ proc[n] = "down"
    /\ restarts < MaxRestarts
    /\ restarts' = restarts + 1
    /\ proc' = [proc EXCEPT ![n] = "up"]
    /\ UNCHANGED <<libVars, pubVars>>

LibraryStep ==
    \E n \in Nodes :
        \/ Campaign(n) \/ Win(n) \/ StepDown(n)
        \/ \E m \in Nodes, t \in Terms : GrantVote(n, m, t) \/ Follow(n, m, t)

LoopStep(n) == Receive(n) \/ StoreLeader(n) \/ StoreIsLeader(n)

-----------------------------------------------------------------------------
(* Properties of the cluster. *)

\* One leader a term, as long as no process has lost its memory: README.md calls this a
\* lock.  After a restart it is not so, as a node then votes again in a term in which it
\* has voted before (HardState is not saved).
OneLeaderPerTerm ==
    restarts = 0 => \A t \in Terms, n, m \in Nodes : <<t, n>> \in won /\ <<t, m>> \in won => n = m

\* The Ready that carries the leader has been dealt with.
Settled(n) == loop[n] = "select" /\ seen[n] = lead[n]

\* Two nodes publish each other as the leader only while one of them has yet to publish
\* what its library knows: Check, which forwards along what is published and counts no
\* hops, does not go round in a cluster that has come to rest.
MutualForwardingIsLag ==
    restarts = 0 =>
        \A n, m \in Nodes :
            /\ n # m /\ Up(n) /\ Up(m)
            /\ transport[n].leader = m /\ transport[m].leader = n
            => ~Settled(n) \/ ~Settled(m)

=============================================================================
