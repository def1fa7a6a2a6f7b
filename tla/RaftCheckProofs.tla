--------------------------- MODULE RaftCheckProofs ---------------------------
(***************************************************************************)
(* Proofs about RaftCluster and RaftCheck, for any number of nodes, terms  *)
(* and restarts.                                                           *)
(***************************************************************************)
EXTENDS RaftCheck, FiniteSetTheorems, TLAPS

USE NoneIsNoNode, ClusterBoundsAreNat

Majorities == {Q \in SUBSET Nodes : 2 * Cardinality(Q) > Cardinality(Nodes)}

\* Who wins a term has been elected in it, restarts or not.
WonByMajority ==
    \A t \in Terms, n \in Nodes :
        <<t, n>> \in won => \E Q \in Majorities : \A v \in Q : <<t, v, n>> \in votes

\* A node votes once in a term and remembers it, as long as it is not started again.
VotesAreRemembered ==
    restarts = 0 =>
        /\ \A t \in Terms, v, c, d \in Nodes : <<t, v, c>> \in votes /\ <<t, v, d>> \in votes => c = d
        /\ \A t \in Terms, v, c \in Nodes :
              <<t, v, c>> \in votes /\ proc[v] # "down" => t < term[v] \/ (t = term[v] /\ vote[v] = c)

\* Its term is not behind an election that it has won.
WonIsPast ==
    restarts = 0 =>
        \A t \in Terms, n \in Nodes : <<t, n>> \in won /\ proc[n] # "down" => t <= term[n]

HasWon(n) == \E t \in Terms : <<t, n>> \in won

\* The leader that a node knows has won the term that it is in; what the loop has seen and
\* published of itself it has been.
LeadersHaveWon ==
    \A n \in Nodes :
        /\ lead[n] # None => <<term[n], lead[n]>> \in won
        /\ seen[n] = n => HasWon(n)
        /\ transport[n].isLeader => HasWon(n)

PublishedIsSeen == \A n \in Nodes : loop[n] # "leader" => transport[n].leader = seen[n]

ClusterInv ==
    /\ ClusterTypeOK /\ WonByMajority /\ VotesAreRemembered /\ WonIsPast
    /\ LeadersHaveWon /\ PublishedIsSeen

CheckInv == TypeOK /\ (Active => check.at \in Nodes) /\ AnswersComeFromLeaders

IInv == ClusterInv /\ CheckInv

-----------------------------------------------------------------------------
LEMMA ClusterInitially == ClusterInit => ClusterInv
BY DEF ClusterInit, ClusterInv, ClusterTypeOK, WonByMajority, VotesAreRemembered, WonIsPast,
       LeadersHaveWon, PublishedIsSeen, NothingPublished, Ids, Terms

\* A vote in a term in which the node has not voted, nor in a later one.
LEMMA NewVoteIsRemembered ==
    ASSUME ClusterTypeOK, VotesAreRemembered, restarts = 0,
           NEW n \in Nodes, NEW c \in Nodes, NEW t \in Terms,
           \A s \in Terms, d \in Nodes : <<s, n, d>> \in votes => s < t,
           term' = [term EXCEPT ![n] = t], vote' = [vote EXCEPT ![n] = c],
           votes' = votes \cup {<<t, n, c>>}, UNCHANGED proc
    PROVE  VotesAreRemembered'
<1>1. t \in Nat BY DEF Terms
<1>2. \A s \in Terms, v, d \in Nodes :
         <<s, v, d>> \in votes' => <<s, v, d>> \in votes \/ (s = t /\ v = n /\ d = c)
  OBVIOUS
<1>3. \A v \in Nodes : v # n => term'[v] = term[v] /\ vote'[v] = vote[v]
  BY DEF ClusterTypeOK
<1>4. term'[n] = t /\ vote'[n] = c BY DEF ClusterTypeOK
<1>5. \A s \in Terms, v, d, e \in Nodes :
         <<s, v, d>> \in votes' /\ <<s, v, e>> \in votes' => d = e
  BY <1>1, <1>2 DEF VotesAreRemembered
<1>6. \A s \in Terms, v, d \in Nodes :
         <<s, v, d>> \in votes' /\ proc[v] # "down"
             => s < term'[v] \/ (s = term'[v] /\ vote'[v] = d)
  BY <1>1, <1>2, <1>3, <1>4 DEF VotesAreRemembered
<1>7. QED BY <1>5, <1>6 DEF VotesAreRemembered

LEMMA CampaignKeeps == ASSUME ClusterInv, NEW n \in Nodes, Campaign(n) PROVE ClusterInv'
<1> USE DEF Campaign, pubVars, Up
<1>1. term[n] + 1 \in Terms /\ n \in Ids BY DEF ClusterInv, ClusterTypeOK, Ids, Terms
<1>2. ClusterTypeOK' BY <1>1 DEF ClusterInv, ClusterTypeOK, Ids
<1>3. WonByMajority' BY DEF ClusterInv, WonByMajority
<1>4. VotesAreRemembered'
  <2>1. SUFFICES ASSUME restarts = 0 PROVE VotesAreRemembered'
    BY DEF VotesAreRemembered
  <2>2. term[n] \in Nat BY DEF ClusterInv, ClusterTypeOK, Terms
  <2>3. \A s \in Terms, d \in Nodes : <<s, n, d>> \in votes => s < term[n] \/ s = term[n]
    BY <2>1 DEF ClusterInv, VotesAreRemembered
  <2>4. \A s \in Terms, d \in Nodes : <<s, n, d>> \in votes => s < term[n] + 1
    BY <2>2, <2>3, ClusterBoundsAreNat DEF Terms
  <2>5. QED BY <1>1, <2>1, <2>4, NewVoteIsRemembered DEF ClusterInv
<1>5. WonIsPast' BY <1>1 DEF ClusterInv, ClusterTypeOK, WonIsPast, Terms
<1>6. LeadersHaveWon' BY DEF ClusterInv, ClusterTypeOK, LeadersHaveWon, HasWon
<1>7. PublishedIsSeen' BY DEF ClusterInv, PublishedIsSeen
<1>8. QED BY <1>2, <1>3, <1>4, <1>5, <1>6, <1>7 DEF ClusterInv

LEMMA GrantVoteKeeps ==
    ASSUME ClusterInv, NEW n \in Nodes, NEW c \in Nodes, NEW t \in Terms, GrantVote(n, c, t)
    PROVE  ClusterInv'
<1> USE DEF GrantVote, Delivers, pubVars, Up
<1>1. c \in Ids /\ t \in Nat /\ term[n] \in Nat
  BY DEF ClusterInv, ClusterTypeOK, Ids, Terms
<1>2. ClusterTypeOK' BY <1>1 DEF ClusterInv, ClusterTypeOK, Ids
<1>3. WonByMajority' BY DEF ClusterInv, WonByMajority
<1>4. VotesAreRemembered'
  <2>1. SUFFICES ASSUME restarts = 0 PROVE VotesAreRemembered'
    BY DEF VotesAreRemembered
  <2>2. \A s \in Terms, d \in Nodes : <<s, n, d>> \in votes => s < t
    BY <1>1, <2>1 DEF ClusterInv, ClusterTypeOK, VotesAreRemembered, Terms
  <2>3. QED BY <2>1, <2>2, NewVoteIsRemembered DEF ClusterInv
<1>5. WonIsPast' BY <1>1 DEF ClusterInv, ClusterTypeOK, WonIsPast, Terms
<1>6. LeadersHaveWon' BY DEF ClusterInv, ClusterTypeOK, LeadersHaveWon, HasWon
<1>7. PublishedIsSeen' BY DEF ClusterInv, PublishedIsSeen
<1>8. QED BY <1>2, <1>3, <1>4, <1>5, <1>6, <1>7 DEF ClusterInv

LEMMA WinKeeps == ASSUME ClusterInv, NEW n \in Nodes, Win(n) PROVE ClusterInv'
<1> USE DEF Win, pubVars, Up
<1>1. term[n] \in Terms /\ n \in Ids BY DEF ClusterInv, ClusterTypeOK, Ids, Terms
<1>2. ClusterTypeOK' BY <1>1 DEF ClusterInv, ClusterTypeOK
<1>3. WonByMajority'
  <2>1. {v \in Nodes : <<term[n], v, n>> \in votes} \in Majorities
    BY DEF Elected, Voters, Majorities
  <2>2. QED BY <2>1 DEF ClusterInv, WonByMajority
<1>4. VotesAreRemembered' BY DEF ClusterInv, VotesAreRemembered
<1>5. WonIsPast' BY <1>1 DEF ClusterInv, ClusterTypeOK, WonIsPast, Terms
<1>6. LeadersHaveWon' BY <1>1 DEF ClusterInv, ClusterTypeOK, LeadersHaveWon, HasWon
<1>7. PublishedIsSeen' BY DEF ClusterInv, PublishedIsSeen
<1>8. QED BY <1>2, <1>3, <1>4, <1>5, <1>6, <1>7 DEF ClusterInv

LEMMA FollowKeeps ==
    ASSUME ClusterInv, NEW n \in Nodes, NEW m \in Nodes, NEW t \in Terms, Follow(n, m, t)
    PROVE  ClusterInv'
<1> USE DEF Follow, Delivers, pubVars, Up
<1>1. m \in Ids /\ t \in Nat /\ term[n] \in Nat BY DEF ClusterInv, ClusterTypeOK, Ids, Terms
<1>2. ClusterTypeOK' BY <1>1 DEF ClusterInv, ClusterTypeOK, Ids
<1>3. WonByMajority' BY DEF ClusterInv, WonByMajority
<1>4. VotesAreRemembered' BY <1>1 DEF ClusterInv, ClusterTypeOK, VotesAreRemembered, Terms
<1>5. WonIsPast' BY <1>1 DEF ClusterInv, ClusterTypeOK, WonIsPast, Terms
<1>6. LeadersHaveWon' BY DEF ClusterInv, ClusterTypeOK, LeadersHaveWon, HasWon
<1>7. PublishedIsSeen' BY DEF ClusterInv, PublishedIsSeen
<1>8. QED BY <1>2, <1>3, <1>4, <1>5, <1>6, <1>7 DEF ClusterInv

LEMMA StepDownKeeps == ASSUME ClusterInv, NEW n \in Nodes, StepDown(n) PROVE ClusterInv'
<1> USE DEF StepDown, pubVars, ClusterInv
<1>1. ClusterTypeOK' BY DEF ClusterTypeOK, Ids
<1>2. WonByMajority' /\ VotesAreRemembered' /\ WonIsPast'
  BY DEF WonByMajority, VotesAreRemembered, WonIsPast
<1>3. LeadersHaveWon' /\ PublishedIsSeen' BY DEF ClusterTypeOK, LeadersHaveWon, HasWon, PublishedIsSeen
<1>4. QED BY <1>1, <1>2, <1>3

\* The steps of the loop leave the library alone.
LEMMA LoopKeeps == ASSUME ClusterInv, NEW n \in Nodes, LoopStep(n) PROVE ClusterInv'
<1> USE DEF LoopStep, Receive, StoreLeader, StoreIsLeader, libVars, ClusterInv
<1>1. UNCHANGED <<term, vote, lead, cand, votes, won, proc, restarts>> OBVIOUS
<1>2. WonByMajority' /\ VotesAreRemembered' /\ WonIsPast'
  BY <1>1 DEF WonByMajority, VotesAreRemembered, WonIsPast
<1>3. CASE Receive(n)
  <2>1. ClusterTypeOK' BY <1>3 DEF ClusterTypeOK
  <2>2. LeadersHaveWon' BY <1>3 DEF ClusterTypeOK, LeadersHaveWon, HasWon
  <2>3. PublishedIsSeen' BY <1>3 DEF ClusterTypeOK, PublishedIsSeen
  <2>4. QED BY <1>2, <2>1, <2>2, <2>3
<1>4. CASE StoreLeader(n)
  <2>1. ClusterTypeOK' BY <1>4 DEF ClusterTypeOK
  <2>2. LeadersHaveWon'
    <3>1. \A k \in Nodes : transport'[k].isLeader = transport[k].isLeader /\ seen'[k] = seen[k]
      BY <1>4 DEF ClusterTypeOK
    <3>2. QED BY <1>1, <3>1 DEF LeadersHaveWon, HasWon
  <2>3. PublishedIsSeen' BY <1>4 DEF ClusterTypeOK, PublishedIsSeen
  <2>4. QED BY <1>2, <2>1, <2>2, <2>3
<1>5. CASE StoreIsLeader(n)
  <2>1. ClusterTypeOK' BY <1>5 DEF ClusterTypeOK
  <2>2. LeadersHaveWon'
    <3>1. \A k \in Nodes : /\ transport'[k].isLeader => transport[k].isLeader \/ seen[k] = k
                           /\ seen'[k] = seen[k]
      BY <1>5 DEF ClusterTypeOK
    <3>2. QED BY <1>1, <3>1 DEF LeadersHaveWon, HasWon
  <2>3. PublishedIsSeen' BY <1>5 DEF ClusterTypeOK, PublishedIsSeen
  <2>4. QED BY <1>2, <2>1, <2>2, <2>3
<1>6. QED BY <1>3, <1>4, <1>5

LEMMA ForgetKeeps == ASSUME ClusterInv, NEW n \in Nodes, Forget(n) PROVE ClusterInv'
<1> USE DEF Forget, ClusterInv
<1>1. ClusterTypeOK' BY DEF ClusterTypeOK, NothingPublished, Ids, Terms
<1>2. WonByMajority' BY DEF WonByMajority
<1>3. VotesAreRemembered' BY DEF ClusterTypeOK, VotesAreRemembered
<1>4. WonIsPast' BY DEF ClusterTypeOK, WonIsPast
<1>5. LeadersHaveWon' BY DEF ClusterTypeOK, LeadersHaveWon, HasWon, NothingPublished
<1>6. PublishedIsSeen' BY DEF ClusterTypeOK, PublishedIsSeen, NothingPublished
<1>7. QED BY <1>1, <1>2, <1>3, <1>4, <1>5, <1>6

LEMMA ProcessKeeps ==
    ASSUME ClusterInv, NEW n \in Nodes, Stop(n) \/ StartProcess(n) PROVE ClusterInv'
<1> USE DEF Stop, StartProcess, libVars, pubVars, Up, ClusterInv
<1>1. ClusterTypeOK' BY DEF ClusterTypeOK
<1>2. WonByMajority' BY DEF WonByMajority
<1>3. VotesAreRemembered' BY DEF ClusterTypeOK, VotesAreRemembered
<1>4. WonIsPast' BY DEF ClusterTypeOK, WonIsPast
<1>5. LeadersHaveWon' /\ PublishedIsSeen' BY DEF LeadersHaveWon, HasWon, PublishedIsSeen
<1>6. QED BY <1>1, <1>2, <1>3, <1>4, <1>5

LEMMA ClusterInductive == ClusterInv /\ [Next]_vars => ClusterInv'
<1> SUFFICES ASSUME ClusterInv, [Next]_vars PROVE ClusterInv' OBVIOUS
<1>1. CASE LibraryStep
  BY <1>1, CampaignKeeps, WinKeeps, StepDownKeeps, GrantVoteKeeps, FollowKeeps DEF LibraryStep
<1>2. ASSUME NEW n \in Nodes, LoopStep(n) \/ Stop(n) \/ StartProcess(n) PROVE ClusterInv'
  BY <1>2, LoopKeeps, ProcessKeeps
<1>3. ASSUME NEW n \in Nodes, ServerStops(n) \/ Crash(n) PROVE ClusterInv'
  BY <1>3, ForgetKeeps DEF ServerStops, Crash
<1>4. CASE UNCHANGED clusterVars
  BY <1>4 DEF clusterVars, libVars, pubVars, ClusterInv, ClusterTypeOK, WonByMajority,
              VotesAreRemembered, WonIsPast, LeadersHaveWon, HasWon, PublishedIsSeen
<1>5. QED
  BY <1>1, <1>2, <1>3, <1>4
  DEF Next, vars, ClusterStep, HandlerStep, Call, LoadLeader, LoadIsLeader, Respond, GiveUp

-----------------------------------------------------------------------------
\* A handler's answers.
LEMMA CheckInductive == IInv /\ [Next]_vars => CheckInv'
<1> SUFFICES ASSUME IInv, [Next]_vars, ClusterInv' PROVE CheckInv'
  BY ClusterInductive DEF IInv
<1>1. /\ check \in [pc : CheckPcs, at : Ids, path : SUBSET Nodes, leader : Ids, said : BOOLEAN]
      /\ check.pc \in {"loadIsLeader", "probe"} => check.leader \in Nodes
      /\ Active => check.at \in Nodes
  BY DEF IInv, CheckInv, TypeOK
<1>2. won \subseteq won' \/ UNCHANGED won
  BY DEF Next, vars, clusterVars, libVars, ClusterStep, LibraryStep, LoopStep, Campaign, Win,
         StepDown, GrantVote, Follow, Delivers, Receive, StoreLeader, StoreIsLeader, Stop, StartProcess,
         HandlerStep, Call, LoadLeader, LoadIsLeader, Respond, GiveUp, ServerStops, Crash, Forget
<1>3. \A n : (\E t \in Terms : <<t, n>> \in won) => (\E t \in Terms : <<t, n>> \in won')
  BY <1>2
<1>4. /\ NoCheck \in [pc : CheckPcs, at : Ids, path : SUBSET Nodes, leader : Ids, said : BOOLEAN]
      /\ NoCheck.pc = "idle" /\ ~NoCheck.said
  BY DEF NoCheck, CheckPcs, Ids
<1>5. ASSUME check' = check PROVE CheckInv'
  BY <1>1, <1>3, <1>5 DEF IInv, CheckInv, ClusterInv, TypeOK, Active, AnswersComeFromLeaders
<1>6. ASSUME check' = NoCheck PROVE CheckInv'
  BY <1>4, <1>6 DEF IInv, CheckInv, ClusterInv, TypeOK, Active, AnswersComeFromLeaders
<1>7. ASSUME NEW n \in Nodes, check' = Arrive(n) PROVE CheckInv'
  <2>1. /\ check' \in [pc : CheckPcs, at : Ids, path : SUBSET Nodes, leader : Ids, said : BOOLEAN]
        /\ check'.pc = "loadLeader" /\ check'.at = n /\ ~check'.said
    BY <1>1, <1>7 DEF Arrive, NoCheck, CheckPcs, Ids
  <2>2. QED BY <2>1 DEF CheckInv, ClusterInv, TypeOK, Active, AnswersComeFromLeaders
<1>8. CASE LoadLeader
  <2>1. check.at \in Nodes /\ transport[check.at].leader \in Ids
    BY <1>1, <1>8 DEF LoadLeader, Active, IInv, ClusterInv, ClusterTypeOK
  <2>2. CASE transport[check.at].leader = None
    BY <1>6, <1>8, <2>2 DEF LoadLeader, Answered
  <2>3. CASE transport[check.at].leader # None
    <3>1. transport[check.at].leader \in Nodes BY <2>1, <2>3 DEF Ids
    <3>2. check' = [check EXCEPT !.pc = "loadIsLeader", !.leader = transport[check.at].leader]
      BY <1>8, <2>3 DEF LoadLeader
    <3>3. /\ check' \in [pc : CheckPcs, at : Ids, path : SUBSET Nodes, leader : Ids, said : BOOLEAN]
          /\ check'.pc = "loadIsLeader" /\ check'.at = check.at /\ check'.said = check.said
          /\ check'.leader \in Nodes
      BY <1>1, <2>1, <3>1, <3>2 DEF CheckPcs
    <3>4. QED
      BY <1>3, <2>1, <3>3 DEF IInv, CheckInv, ClusterInv, TypeOK, Active, AnswersComeFromLeaders
  <2>4. QED BY <2>2, <2>3
<1>9. CASE LoadIsLeader
  <2>1. check.at \in Nodes /\ check.leader \in Nodes
    BY <1>1, <1>9 DEF LoadIsLeader, Active
  <2>2. CASE ~transport[check.at].isLeader
    BY <1>6, <1>7, <1>9, <2>1, <2>2 DEF LoadIsLeader, Forward, Answered
  <2>3. CASE transport[check.at].isLeader
    <3>1. HasWon(check.at) BY <2>1, <2>3 DEF IInv, ClusterInv, LeadersHaveWon
    <3>2. check' = [check EXCEPT !.pc = "probe"] BY <1>9, <2>3 DEF LoadIsLeader
    <3>3. /\ check' \in [pc : CheckPcs, at : Ids, path : SUBSET Nodes, leader : Ids, said : BOOLEAN]
          /\ check'.at = check.at /\ check'.leader = check.leader
      BY <1>1, <3>2 DEF CheckPcs
    <3>4. QED
      BY <1>3, <2>1, <3>1, <3>3 DEF HasWon, CheckInv, ClusterInv, TypeOK, Active, AnswersComeFromLeaders
  <2>4. QED BY <2>2, <2>3
<1>10. CASE Respond
  <2>1. check' = [NoCheck EXCEPT !.at = check.at, !.said = TRUE] BY <1>10 DEF Respond, Answered
  <2>2. check.at \in Nodes /\ HasWon(check.at)
    BY <1>1, <1>10 DEF Respond, Active, IInv, CheckInv, AnswersComeFromLeaders, HasWon
  <2>3. /\ check' \in [pc : CheckPcs, at : Ids, path : SUBSET Nodes, leader : Ids, said : BOOLEAN]
        /\ check'.pc = "idle" /\ check'.at = check.at
    BY <1>1, <2>1 DEF NoCheck, CheckPcs, Ids
  <2>4. QED
    BY <1>3, <2>2, <2>3 DEF HasWon, CheckInv, ClusterInv, TypeOK, Active, AnswersComeFromLeaders
<1>11. ASSUME NEW n \in Nodes, Crash(n) PROVE CheckInv'
  BY <1>5, <1>6, <1>11 DEF Crash, Answered
<1>12. CASE GiveUp BY <1>6, <1>12 DEF GiveUp, Answered
<1>13. ASSUME NEW n \in Nodes, Call(n) PROVE CheckInv' BY <1>7, <1>13 DEF Call
<1>14. QED
  BY <1>5, <1>8, <1>9, <1>10, <1>11, <1>12, <1>13
  DEF Next, vars, ClusterStep, HandlerStep, ServerStops

LEMMA Invariant == Spec => []IInv
<1>1. Init => IInv
  <2>1. SUFFICES ASSUME Init PROVE IInv OBVIOUS
  <2>2. ClusterInv BY <2>1, ClusterInitially DEF Init
  <2>3. CheckInv
    BY <2>1, <2>2 DEF Init, ClusterInv, CheckInv, TypeOK, NoCheck, CheckPcs, Ids, Active,
                      AnswersComeFromLeaders
  <2>4. QED BY <2>2, <2>3 DEF IInv
<1>2. IInv /\ [Next]_vars => IInv' BY ClusterInductive, CheckInductive DEF IInv
<1>3. QED BY <1>1, <1>2, PTL DEF Spec

-----------------------------------------------------------------------------
LEMMA OneWinner == ClusterInv => OneLeaderPerTerm
<1> SUFFICES ASSUME ClusterInv, restarts = 0, NEW t \in Terms, NEW n \in Nodes, NEW m \in Nodes,
                    <<t, n>> \in won, <<t, m>> \in won
             PROVE  n = m
  BY DEF OneLeaderPerTerm
<1>1. PICK Q \in Majorities : \A v \in Q : <<t, v, n>> \in votes
  BY DEF ClusterInv, WonByMajority
<1>2. PICK R \in Majorities : \A v \in R : <<t, v, m>> \in votes
  BY DEF ClusterInv, WonByMajority
<1>3. Q \cap R # {}
  <2>1. Q \subseteq Nodes /\ R \subseteq Nodes BY DEF Majorities
  <2>2. Cardinality(Q) \in Nat /\ Cardinality(R) \in Nat /\ Cardinality(Nodes) \in Nat
    BY <2>1, NodesAreFinite, FS_Subset, FS_CardinalityType
  <2>3. Cardinality(Q) + Cardinality(R) > Cardinality(Nodes) BY <2>2 DEF Majorities
  <2>4. QED BY <2>1, <2>3, NodesAreFinite, FS_MajoritiesIntersect
<1>4. PICK v \in Q \cap R : TRUE BY <1>3
<1>5. v \in Nodes BY <1>4 DEF Majorities
<1>6. QED BY <1>1, <1>2, <1>4, <1>5 DEF ClusterInv, VotesAreRemembered

LEMMA NoCycleAtRest == ClusterInv => MutualForwardingIsLag
<1> SUFFICES ASSUME ClusterInv, restarts = 0, NEW n \in Nodes, NEW m \in Nodes, n # m,
                    Up(n), Up(m), transport[n].leader = m, transport[m].leader = n,
                    Settled(n), Settled(m)
             PROVE  FALSE
  BY DEF MutualForwardingIsLag
<1>1. lead[n] = m /\ lead[m] = n BY DEF ClusterInv, PublishedIsSeen, Settled
<1>2. <<term[n], m>> \in won /\ <<term[m], n>> \in won
  BY <1>1 DEF ClusterInv, LeadersHaveWon
<1>3. term[n] \in Terms /\ term[m] \in Terms BY DEF ClusterInv, ClusterTypeOK
<1>4. term[n] <= term[m] /\ term[m] <= term[n]
  BY <1>2, <1>3 DEF ClusterInv, WonIsPast, Up
<1>5. term[n] = term[m] BY <1>3, <1>4 DEF Terms
<1>6. QED BY <1>2, <1>3, <1>5, OneWinner DEF OneLeaderPerTerm

\* The state of the nodes and of the handlers of Check.
THEOREM TypeCorrect == Spec => []TypeOK
<1>1. IInv => TypeOK BY DEF IInv, CheckInv
<1>2. QED BY <1>1, Invariant, PTL

\* One leader a term for any number of nodes, until a process that has lost its memory
\* (raft/locker.go:155) comes back.
THEOREM OneLeader == Spec => []OneLeaderPerTerm
<1>1. IInv => OneLeaderPerTerm BY OneWinner DEF IInv
<1>2. QED BY <1>1, Invariant, PTL

\* Two nodes that have published what they know do not forward Check to each other.
THEOREM ForwardingIsLag == Spec => []MutualForwardingIsLag
<1>1. IInv => MutualForwardingIsLag BY NoCycleAtRest DEF IInv
<1>2. QED BY <1>1, Invariant, PTL

\* Check says HasLeader in the name of nodes that have led, restarts or not.
THEOREM AnswersFromLeaders == Spec => []AnswersComeFromLeaders
<1>1. IInv => AnswersComeFromLeaders BY DEF IInv, CheckInv
<1>2. QED BY <1>1, Invariant, PTL

=============================================================================
