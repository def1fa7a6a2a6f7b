--------------------------- MODULE RaftLoopProofs ---------------------------
(***************************************************************************)
(* The safety properties of RaftLoop, for every set of routines and every  *)
(* value of the bounds.                                                    *)
(*                                                                         *)
(* None of the properties is inductive alone.  IInv adds what the code     *)
(* keeps true without saying so: isLeader is set once and never reset, so  *)
(* there is at most one launch in a Run (OneLaunch); the epochs in use are *)
(* those launched (EpochsInUse); a cancelled Run has no live context       *)
(* (NoLiveContextAfterCancel with CancelledFirst); and what was published  *)
(* is what the loop last observed (PublishedIsObserved).                   *)
(***************************************************************************)
EXTENDS RaftLoop, LeaderManagerProofs, FiniteSetTheorems

\* The bound on waiting OnStoppedLeading goroutines is exceeded by the last one only.
StopsBounded == stops <= MaxStops \/ pc = "done"

\* isLeader is sticky, and it counts the calls of OnStartedLeading.
OneLaunch ==
    /\ launches = IF isLeader THEN 1 ELSE 0
    /\ isLeader => initialized
    /\ initialized => pc # "start"

\* Contexts, start goroutines and loops exist only for epochs that were launched.
EpochsInUse ==
    /\ \A e \in live : e <= launches
    /\ \A e \in Epochs : starts[e] # "none" => e <= launches
    /\ \A r \in Routines, e \in Epochs : loops[r][e] # "none" => e <= launches

\* Run leaves its select only once the context is cancelled.
CancelledFirst == runPc # "select" => ctxDone

\* What the last Ready said reaches the other goroutines before it is acted on.
PublishedIsObserved ==
    /\ nowLeader /\ pc \in {"publish", "transition"} => leader = "self"
    /\ pc = "transition" =>
        /\ transport = [leader |-> leader, isLeader |-> nowLeader]
        /\ tracked = leader

IInv ==
    /\ TypeOK
    /\ StopsBounded
    /\ OneLaunch
    /\ EpochsInUse
    /\ CancelledFirst
    /\ PublishedIsObserved
    /\ LiveOnlyWhileObservedLeading
    /\ NoLiveContextAfterCancel
    /\ RoutinesAgreeWithPublished

-----------------------------------------------------------------------------
(* The initial states. *)

\* The program starts in a state that satisfies the invariant.
LEMMA InitInv == Init => IInv
<1> USE DEF Epochs, StartPhases, LoopPhases, Ids, SoftStates, Readys, LoopPcs
<1> SUFFICES ASSUME Init PROVE IInv
    OBVIOUS
<1>1. LMTypeOK
  <2>1. /\ lmIsLeader \in BOOLEAN
        /\ leaderRoutines \subseteq Routines
        /\ live \subseteq Epochs
    BY DEF Init, LMInit
  <2>2. launches \in 0..MaxLaunches /\ stops \in 0..(MaxStops + 1)
    BY BoundsAreNat DEF Init, LMInit
  <2>3. starts \in [Epochs -> StartPhases]
    BY DEF Init, LMInit
  <2>4. loops \in [Routines -> [Epochs -> LoopPhases]]
    BY DEF Init, LMInit
  <2> QED
    BY <2>1, <2>2, <2>3, <2>4 DEF LMTypeOK
<1>2. TypeOK
  <2>1. NoReady \in Readys /\ NoLead \in SoftStates
    BY MaxMsgsIsNat DEF NoLead, NoReady
  <2>2. transport \in [leader : Ids, isLeader : BOOLEAN]
    BY DEF Init
  <2>3. 0 \in 0..MaxMsgs
    BY MaxMsgsIsNat
  <2> QED
    BY <1>1, <2>1, <2>2, <2>3 DEF Init, TypeOK
<1>3. /\ StopsBounded
      /\ OneLaunch
      /\ CancelledFirst
      /\ PublishedIsObserved
      /\ LiveOnlyWhileObservedLeading
      /\ NoLiveContextAfterCancel
      /\ RoutinesAgreeWithPublished
    BY BoundsAreNat DEF Init, LMInit, StopsBounded, OneLaunch, CancelledFirst,
       PublishedIsObserved, LiveOnlyWhileObservedLeading, NoLiveContextAfterCancel,
       RoutinesAgreeWithPublished
<1>4. EpochsInUse
    BY DEF Init, LMInit, EpochsInUse
<1> QED
    BY <1>2, <1>3, <1>4 DEF IInv

-----------------------------------------------------------------------------
(* Types. *)

\* Every step of the manager's own goroutines preserves the types.
LEMMA ManagerTypes ==
    ASSUME TypeOK, StopsBounded, ManagerStep
    PROVE  TypeOK' /\ StopsBounded'
<1>1. LMTypeOK' /\ stops' <= stops
    BY ManagerKeepsTypes DEF ManagerStep, TypeOK
<1>2. stops \in Nat /\ stops' \in Nat
    BY <1>1, BoundsAreNat DEF LMTypeOK, TypeOK
<1> QED
    BY <1>1, <1>2, BoundsAreNat DEF ManagerStep, TypeOK, StopsBounded, raftVars, runVars,
       loopVars, pubVars

\* The steps that leave the manager alone, or only cancel its contexts.
LEMMA QuietTypes ==
    ASSUME TypeOK, StopsBounded,
           RaftStep \/ RunStep \/ StartNode \/ (\E m \in 0..MaxMsgs : Receive(m))
           \/ Observe \/ Publish \/ SendMessage \/ Advance
    PROVE  TypeOK' /\ StopsBounded'
<1> USE BoundsAreNat, MaxMsgsIsNat DEF TypeOK, LMTypeOK, StopsBounded, lmVars, raftVars,
        runVars, loopVars, pubVars
<1>1. CASE RaftStep
    BY <1>1 DEF RaftStep
<1>2. CASE RunStep
  <2>1. CASE ParentCancels
    BY <2>1 DEF ParentCancels, CancelCtx
  <2>2. CASE ServerFails
    BY <2>2 DEF ServerFails
  <2>3. CASE ServerStops
    BY <2>3 DEF ServerStops
  <2>4. CASE RunTakesError
    BY <2>4 DEF RunTakesError, CancelCtx
  <2>5. CASE RunSeesDone
    BY <2>5 DEF RunSeesDone
  <2>6. CASE RunReturns
    BY <2>6 DEF RunReturns
  <2> QED
    BY <1>2, <2>1, <2>2, <2>3, <2>4, <2>5, <2>6 DEF RunStep
<1>3. CASE StartNode
    BY <1>3 DEF StartNode, LoopPcs
<1>4. ASSUME NEW m \in 0..MaxMsgs, Receive(m)
      PROVE  TypeOK' /\ StopsBounded'
  <2>1. rd' \in Readys
    BY <1>4 DEF Receive, Readys
  <2> QED
    BY <1>4, <2>1 DEF Receive, LoopPcs
<1>5. CASE Observe
  <2>1. rd.SoftState \in SoftStates
    BY DEF Readys
  <2>2. \A s \in SoftStates : s.Lead \in Ids
    BY DEF SoftStates, Ids
  <2>3. leader' \in Ids /\ nowLeader' \in BOOLEAN
    BY <1>5, <2>1, <2>2 DEF Observe
  <2> QED
    BY <1>5, <2>3 DEF Observe, LoopPcs
<1>6. CASE Publish
    BY <1>6 DEF Publish, LoopPcs
<1>7. CASE SendMessage
    BY <1>7 DEF SendMessage
<1>8. CASE Advance
    BY <1>8 DEF Advance, LoopPcs
<1> QED
    BY <1>1, <1>2, <1>3, <1>4, <1>5, <1>6, <1>7, <1>8

\* The two steps of the loop that make callbacks.
LEMMA CallbackTypes ==
    ASSUME TypeOK, StopsBounded, Shutdown \/ Transition
    PROVE  TypeOK' /\ StopsBounded'
<1> USE BoundsAreNat, MaxMsgsIsNat DEF TypeOK, LMTypeOK, StopsBounded, lmVars, raftVars,
        runVars, loopVars, pubVars
<1>1. CASE Shutdown
    BY <1>1 DEF Shutdown, GoStoppedLeading, LoopPcs
<1>2. CASE Transition
  <2>1. unsent' \in 0..MaxMsgs /\ pc' \in LoopPcs
    BY <1>2 DEF Transition, Readys, LoopPcs
  <2>2. CASE UNCHANGED <<initialized, isLeader, launches, starts, live, stops>>
    BY <1>2, <2>1, <2>2 DEF Transition
  <2>3. CASE initialized' = TRUE /\ BecomeLeader
    <3>1. launches' \in 0..MaxLaunches /\ launches + 1 \in Epochs
      BY <2>3 DEF BecomeLeader, GoStartedLeading, Epochs
    <3>2. starts' \in [Epochs -> StartPhases] /\ live' \subseteq Epochs
      BY <2>3, <3>1 DEF BecomeLeader, GoStartedLeading, StartPhases
    <3> QED
      BY <1>2, <2>1, <2>3, <3>1, <3>2 DEF Transition, BecomeLeader
  <2>4. CASE initialized' = TRUE /\ BecomeFollower
    BY <1>2, <2>1, <2>4 DEF Transition, BecomeFollower, GoStoppedLeading
  <2> QED
    BY <1>2, <2>2, <2>3, <2>4 DEF Transition
<1> QED
    BY <1>1, <1>2

\* A step of the process, whichever it is, preserves the types.
LEMMA TypeStep ==
    ASSUME TypeOK, StopsBounded, [Next]_vars
    PROVE  TypeOK' /\ StopsBounded'
<1>1. CASE UNCHANGED vars
    BY <1>1 DEF vars, lmVars, raftVars, runVars, loopVars, pubVars, TypeOK, LMTypeOK,
       StopsBounded
<1>2. CASE ManagerStep
    BY <1>2, ManagerTypes
<1>3. CASE Shutdown \/ Transition
    BY <1>3, CallbackTypes
<1>4. CASE RaftStep \/ RunStep \/ StartNode \/ (\E m \in 0..MaxMsgs : Receive(m))
           \/ Observe \/ Publish \/ SendMessage \/ Advance
    BY <1>4, QuietTypes
<1> QED
    BY <1>1, <1>2, <1>3, <1>4 DEF Next, LoopStep

-----------------------------------------------------------------------------
(* The inductive step. *)

\* Nothing exists for an epoch that was not launched.
LEMMA EpochsStep ==
    ASSUME IInv, [Next]_vars
    PROVE  EpochsInUse'
<1> USE BoundsAreNat DEF IInv, TypeOK, LMTypeOK, EpochsInUse, Epochs
<1>1. CASE UNCHANGED <<launches, starts, live, loops>>
    BY <1>1
<1>2. CASE UNCHANGED <<launches, starts, loops>> /\ live' = {}
    BY <1>2
<1>3. CASE Transition
  <2>1. CASE BecomeLeader
    <3>1. /\ launches' = launches + 1
          /\ starts' = [starts EXCEPT ![launches + 1] = "launched"]
          /\ live' \subseteq live \cup {launches + 1}
          /\ UNCHANGED loops
      BY <1>3, <2>1 DEF Transition, BecomeLeader, GoStartedLeading
    <3> QED
      BY <3>1
  <2>2. CASE UNCHANGED <<launches, starts>> /\ live' \in {live, {}}
    BY <1>3, <2>2 DEF Transition
  <2> QED
    BY <1>3, <2>1, <2>2 DEF Transition, BecomeFollower
<1>4. ASSUME NEW e \in Epochs, StoreLeading(e)
      PROVE  EpochsInUse'
    BY <1>4 DEF StoreLeading
<1>5. ASSUME NEW e \in Epochs, SpawnRoutines(e)
      PROVE  EpochsInUse'
    BY <1>5 DEF SpawnRoutines
<1>6. ASSUME NEW r \in Routines, NEW e \in Epochs,
             RoutineReturns(r, e) \/ BackoffCancelled(r, e) \/ BackoffElapsed(r, e)
      PROVE  EpochsInUse'
  <2>1. /\ \E p : loops' = [loops EXCEPT ![r][e] = p]
        /\ loops[r][e] # "none"
        /\ UNCHANGED <<launches, starts, live>>
    BY <1>6, Zenon DEF RoutineReturns, BackoffCancelled, BackoffElapsed
  <2> QED
    BY <2>1
<1>7. \/ UNCHANGED <<launches, starts, live, loops>>
      \/ UNCHANGED <<launches, starts, loops>> /\ live' = {}
      \/ Transition
      \/ \E e \in Epochs : StoreLeading(e) \/ SpawnRoutines(e)
      \/ \E r \in Routines, e \in Epochs :
            RoutineReturns(r, e) \/ BackoffCancelled(r, e) \/ BackoffElapsed(r, e)
  <2>1. CASE UNCHANGED vars \/ RaftStep
    BY <2>1 DEF vars, lmVars, RaftStep
  <2>2. CASE RunStep
    BY <2>2 DEF RunStep, ParentCancels, ServerFails, ServerStops, RunTakesError,
       RunSeesDone, RunReturns, CancelCtx, lmVars
  <2>3. CASE LoopStep
    BY <2>3 DEF LoopStep, StartNode, Shutdown, Receive, Observe, Publish, SendMessage,
       Advance, lmVars
  <2>4. CASE ManagerStep
    BY <2>4 DEF ManagerStep, LMNext, RunStoppedLeading, RegisterRoutine
  <2> QED
    BY <2>1, <2>2, <2>3, <2>4 DEF Next
<1> QED
    BY <1>1, <1>2, <1>3, <1>4, <1>5, <1>6, <1>7

\* The conjuncts of IInv that relate the loop to its contexts and to what it published.
LoopInv ==
    /\ OneLaunch
    /\ CancelledFirst
    /\ PublishedIsObserved
    /\ LiveOnlyWhileObservedLeading
    /\ NoLiveContextAfterCancel
    /\ RoutinesAgreeWithPublished

\* Outside the leadership block nothing comes alive, and the loop's locals change only
\* where the next publication will show it.
LEMMA LoopStepInv ==
    ASSUME IInv, TypeOK', [Next]_vars
    PROVE  LoopInv'
<1> USE DEF LoopInv, OneLaunch, CancelledFirst, PublishedIsObserved,
        LiveOnlyWhileObservedLeading, NoLiveContextAfterCancel, RoutinesAgreeWithPublished,
        lmVars, raftVars, runVars, loopVars, pubVars
<1>1. LoopInv /\ TypeOK
    BY DEF IInv
<1>2. CASE UNCHANGED vars \/ RaftStep
    BY <1>1, <1>2 DEF vars, RaftStep
<1>3. CASE ManagerStep
  <2>1. UNCHANGED <<launches, live>>
    BY <1>3, ManagerKeepsContexts DEF ManagerStep
  <2> QED
    BY <1>1, <1>3, <2>1 DEF ManagerStep
<1>4. CASE RunStep
    BY <1>1, <1>4 DEF RunStep, ParentCancels, ServerFails, ServerStops, RunTakesError,
       RunSeesDone, RunReturns, CancelCtx
<1>5. CASE StartNode
    BY <1>1, <1>5 DEF StartNode
<1>6. CASE Shutdown
    BY <1>1, <1>6 DEF Shutdown
<1>7. ASSUME NEW m \in 0..MaxMsgs, Receive(m)
      PROVE  LoopInv'
  <2>1. pc = "select" /\ pc' = "observe"
    BY <1>7 DEF Receive
  <2>2. UNCHANGED <<lmVars, runVars, nowLeader, leader, isLeader, initialized, pubVars>>
    BY <1>7 DEF Receive
  <2> QED
    BY <1>1, <2>1, <2>2
<1>8. CASE Observe
  <2>1. PICK seen \in SoftStates :
            /\ leader' = seen.Lead
            /\ nowLeader' = (seen.Lead = "self" \/ seen.RaftState = "leader")
    BY <1>1, <1>8 DEF Observe, TypeOK, Readys
  <2>2. \A s \in SoftStates : s.Lead = "self" \/ s.RaftState = "leader" => s.Lead = "self"
    BY DEF SoftStates
  <2>3. nowLeader' => leader' = "self"
    BY <2>1, <2>2
  <2> QED
    BY <1>1, <1>8, <2>3 DEF Observe
<1>9. CASE Publish
    BY <1>1, <1>9 DEF Publish
<1>10. CASE Transition
  <2>1. CASE nowLeader # isLeader \/ ~initialized
    <3>1. CASE BecomeLeader
      <4>1. isLeader = FALSE /\ launches = 0 /\ live = {}
        BY <1>1, <1>10, <2>1, <3>1 DEF BecomeLeader, TypeOK
      <4>2. OneLaunch'
        <5>1. launches' = 0 + 1 /\ isLeader' = TRUE /\ initialized' = TRUE /\ pc' = "send"
          BY <1>10, <2>1, <3>1, <4>1 DEF Transition, BecomeLeader, GoStartedLeading
        <5> QED
          BY <5>1
      <4> QED
        BY <1>1, <1>10, <2>1, <3>1, <4>1, <4>2 DEF Transition, BecomeLeader, GoStartedLeading
    <3>2. CASE BecomeFollower
      BY <1>1, <1>10, <2>1, <3>2 DEF Transition, BecomeFollower, TypeOK
    <3> QED
      BY <1>10, <2>1, <3>1, <3>2 DEF Transition
  <2>2. CASE ~(nowLeader # isLeader \/ ~initialized)
    BY <1>1, <1>10, <2>2 DEF Transition, TypeOK
  <2> QED
    BY <2>1, <2>2
<1>11. CASE SendMessage
    BY <1>1, <1>11 DEF SendMessage
<1>12. CASE Advance
    BY <1>1, <1>12 DEF Advance
<1> QED
    BY <1>2, <1>3, <1>4, <1>5, <1>6, <1>7, <1>8, <1>9, <1>10, <1>11, <1>12
    DEF Next, LoopStep

\* The inductive invariant holds in every reachable state.
THEOREM Invariance == Spec => []IInv
<1>1. Init => IInv
    BY InitInv
<1>2. IInv /\ [Next]_vars => IInv'
  <2> SUFFICES ASSUME IInv, [Next]_vars PROVE IInv'
    OBVIOUS
  <2>1. TypeOK' /\ StopsBounded'
    BY TypeStep DEF IInv
  <2>2. EpochsInUse'
    BY EpochsStep
  <2>3. LoopInv'
    BY <2>1, LoopStepInv
  <2> QED
    BY <2>1, <2>2, <2>3 DEF IInv, LoopInv
<1> QED
    BY <1>1, <1>2, PTL DEF Spec

-----------------------------------------------------------------------------
(* The properties. *)

\* Every variable keeps its type: in particular no more than MaxStops + 1
\* OnStoppedLeading goroutines ever wait.
THEOREM TypeCorrect == Spec => []TypeOK
<1>1. IInv => TypeOK
    BY DEF IInv
<1> QED
    BY <1>1, Invariance, PTL

\* A Ready that says that this node does not lead cancels the leader context before the
\* loop can block.
THEOREM LiveOnlyWhileLeading == Spec => []LiveOnlyWhileObservedLeading
<1>1. IInv => LiveOnlyWhileObservedLeading
    BY DEF IInv
<1> QED
    BY <1>1, Invariance, PTL

\* No leader context survives the cancellation of Run's context or is born alive later.
THEOREM CancelIsFinal == Spec => []NoLiveContextAfterCancel
<1>1. IInv => NoLiveContextAfterCancel
    BY DEF IInv
<1> QED
    BY <1>1, Invariance, PTL

\* Leader routines, Check and the multicluster runtime agree on who leads.
THEOREM RoutinesAgree == Spec => []RoutinesAgreeWithPublished
<1>1. IInv => RoutinesAgreeWithPublished
    BY DEF IInv
<1> QED
    BY <1>1, Invariance, PTL

\* A set of epochs that were all launched has at most one element.
LEMMA OneEpoch ==
    ASSUME IInv, NEW E \in SUBSET Epochs, \A e \in E : e <= launches
    PROVE  Cardinality(E) <= 1
<1>1. launches \in {0, 1}
    BY DEF IInv, OneLaunch
<1>2. E \subseteq {1}
    BY <1>1, BoundsAreNat DEF Epochs
<1>3. CASE E = {}
    BY <1>3, FS_EmptySet
<1>4. CASE E = {1}
    BY <1>4, FS_Singleton
<1> QED
    BY <1>2, <1>3, <1>4

\* No leader routine runs twice at once in one process.
THEOREM NoOverlap == Spec => []OneLoopPerRoutine
<1>1. IInv => OneLoopPerRoutine
  <2> SUFFICES ASSUME IInv, NEW r \in Routines
               PROVE  Cardinality({e \in Epochs : loops[r][e] \in {"running", "backoff"}}) <= 1
    BY DEF OneLoopPerRoutine
  <2>1. \A e \in Epochs : loops[r][e] \in {"running", "backoff"} => e <= launches
    BY DEF IInv, EpochsInUse
  <2> QED
    BY <2>1, OneEpoch
<1> QED
    BY <1>1, Invariance, PTL

\* The loop implements the contract of LeaderSessions: the sessions of one Run never
\* overlap, end for good, and none is alive once Run was told to stop.
THEOREM Implementation == Spec => ImplementsSessions
<1>1. Init => Sessions!SessionsInit
    BY DEF Init, LMInit, Sessions!SessionsInit
<1>2. IInv /\ [Next]_vars => [Sessions!SessionsNext]_Sessions!sessionVars
  <2> SUFFICES ASSUME IInv, [Next]_vars
               PROVE  Sessions!SessionsNext \/ UNCHANGED <<launches, live, ctxDone>>
    BY DEF Sessions!sessionVars
  <2> USE DEF lmVars, raftVars, runVars, loopVars, pubVars
  <2>1. CASE Transition
    <3>1. CASE nowLeader # isLeader \/ ~initialized
      <4>1. CASE BecomeLeader /\ ctxDone
        BY <2>1, <4>1 DEF Transition, BecomeLeader, GoStartedLeading,
           Sessions!SessionsNext, Sessions!BeginDead
      <4>2. CASE BecomeLeader /\ ~ctxDone
        <5>1. live = {}
          BY <3>1, <4>2 DEF BecomeLeader, IInv, OneLaunch, TypeOK,
             LiveOnlyWhileObservedLeading
        <5> QED
          BY <2>1, <4>2, <5>1 DEF Transition, BecomeLeader, GoStartedLeading,
             Sessions!SessionsNext, Sessions!Begin
      <4>3. CASE BecomeFollower
        BY <2>1, <4>3 DEF Transition, BecomeFollower, Sessions!SessionsNext, Sessions!End
      <4> QED
        BY <2>1, <3>1, <4>1, <4>2, <4>3 DEF Transition
    <3>2. CASE ~(nowLeader # isLeader \/ ~initialized)
      BY <2>1, <3>2 DEF Transition
    <3> QED
      BY <3>1, <3>2
  <2>2. CASE ParentCancels \/ RunTakesError
    BY <2>2 DEF ParentCancels, RunTakesError, CancelCtx, Sessions!SessionsNext, Sessions!Close
  <2>3. CASE UNCHANGED vars \/ RaftStep \/ ServerFails \/ ServerStops \/ RunSeesDone
             \/ RunReturns
    BY <2>3 DEF vars, RaftStep, ServerFails, ServerStops, RunSeesDone, RunReturns
  <2>4. CASE StartNode \/ Shutdown \/ (\E m \in 0..MaxMsgs : Receive(m)) \/ Observe
             \/ Publish \/ SendMessage \/ Advance
    BY <2>4 DEF StartNode, Shutdown, Receive, Observe, Publish, SendMessage, Advance
  <2>5. CASE ManagerStep
    BY <2>5, ManagerKeepsContexts DEF ManagerStep
  <2> QED
    BY <2>1, <2>2, <2>3, <2>4, <2>5 DEF Next, RunStep, LoopStep
<1> QED
    BY <1>1, <1>2, Invariance, PTL DEF Spec, ImplementsSessions, Sessions!SessionsSpec

=============================================================================
