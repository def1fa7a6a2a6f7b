-------------------------- MODULE KubeElectorProofs --------------------------
(***************************************************************************)
(* The safety properties of KubeElector, for every set of routines and     *)
(* every value of the bounds.                                              *)
(*                                                                         *)
(* IInv adds to the properties how the goroutines hang together: the       *)
(* OnStartedLeading goroutine exists exactly when the leader context does, *)
(* it reaches the manager once (CallsFollowTheElector), what the manager   *)
(* believes alive is alive (ManagersContextIsTheLeaders), and each of the  *)
(* two flags pays for one OnStoppedLeading goroutine at most               *)
(* (TwoStopsAtMost).                                                       *)
(***************************************************************************)
EXTENDS KubeElector, LeaderManagerProofs

\* The calls of the manager follow the steps of the elector.
CallsFollowTheElector ==
    /\ leaderCtx = "none" <=> onStarted = "none"
    /\ runPc \in {"acquire", "acquired"} => leaderCtx = "none"
    /\ onStarted # "done" => launches = 0 /\ live = {} /\ ~isLeader
    /\ launches <= 1

\* A context that the manager's routines have and that is alive is the leader's.
ManagersContextIsTheLeaders ==
    /\ live # {} => leaderCtx = "live"
    /\ leaderCtx = "live" => ~ctxDone /\ runPc \in {"renew", "release", "cancel"}

\* OnNewLeader calls OnStoppedLeading when it is the first callback of all or when it
\* takes isLeader back, which is set once: what has not happened leaves room for one more.
TwoStopsAtMost ==
    /\ stops <= 2
    /\ ~initialized => stops <= 1
    /\ isLeader \/ onStarted # "done" => stops <= 1
    /\ ~initialized /\ (isLeader \/ onStarted # "done") => stops = 0

ReportsBounded == fresh + checking <= MaxReports

IInv ==
    /\ TypeOK
    /\ CallsFollowTheElector
    /\ ManagersContextIsTheLeaders
    /\ TwoStopsAtMost
    /\ ReportsBounded

-----------------------------------------------------------------------------
(* The inductive invariant. *)

\* The program starts in a state that satisfies the invariant.
LEMMA InitInv == Init => IInv
<1> USE BoundsAreNat, RoomForOneRun
<1> SUFFICES ASSUME Init PROVE IInv
    OBVIOUS
<1>1. LMTypeOK
  <2>1. starts \in [Epochs -> StartPhases] /\ loops \in [Routines -> [Epochs -> LoopPhases]]
    BY DEF Init, LMInit, StartPhases, LoopPhases
  <2>2. launches \in 0..MaxLaunches /\ stops \in 0..(MaxStops + 1)
    BY DEF Init, LMInit
  <2>3. lmIsLeader \in BOOLEAN /\ leaderRoutines \subseteq Routines /\ live \subseteq Epochs
    BY DEF Init, LMInit
  <2> QED
    BY <2>1, <2>2, <2>3 DEF LMTypeOK
<1>2. TypeOK
  <2>1. fresh \in 0..MaxReports /\ checking \in 0..MaxReports
    BY DEF Init
  <2> QED
    BY <1>1, <2>1 DEF Init, TypeOK, Holders, RunPcs
<1>3. CallsFollowTheElector /\ ManagersContextIsTheLeaders /\ TwoStopsAtMost /\ ReportsBounded
    BY DEF Init, LMInit, CallsFollowTheElector, ManagersContextIsTheLeaders, TwoStopsAtMost,
       ReportsBounded
<1> QED
    BY <1>2, <1>3 DEF IInv

\* The steps of the elector's Run, its deferred calls included.
LEMMA RunKeepsInv ==
    ASSUME IInv, ElectorStep \/ StopStep
    PROVE  IInv'
<1> USE BoundsAreNat, RoomForOneRun DEF IInv, TypeOK, LMTypeOK, CallsFollowTheElector,
        ManagersContextIsTheLeaders, TwoStopsAtMost, ReportsBounded, RunPcs, Holders,
        lmVars, runVars, callbackVars
<1>1. CASE ParentCancels
    BY <1>1 DEF ParentCancels, EndLeaderCtx
<1>2. ASSUME NEW h \in Holders, TryFails(h)
      PROVE  IInv'
    BY <1>2 DEF TryFails, Report
<1>3. CASE Acquire
    BY <1>3 DEF Acquire, Report
<1>4. CASE AcquireSeesDone
    BY <1>4 DEF AcquireSeesDone
<1>5. CASE Launch
    BY <1>5 DEF Launch
<1>6. ASSUME NEW h \in Holders, RenewFails(h)
      PROVE  IInv'
    BY <1>6 DEF RenewFails, Report
<1>7. CASE ReleaseLock
    BY <1>7 DEF ReleaseLock
<1>8. CASE CancelLeader
    BY <1>8 DEF CancelLeader, EndLeaderCtx
<1>9. CASE StopSwaps
    BY <1>9 DEF StopSwaps
<1>10. CASE StopChecks
    BY <1>10 DEF StopChecks
<1>11. CASE StopCalls
    BY <1>11 DEF StopCalls
<1> QED
    BY <1>1, <1>2, <1>3, <1>4, <1>5, <1>6, <1>7, <1>8, <1>9, <1>10, <1>11
    DEF ElectorStep, StopStep

\* The steps of the goroutines of OnStartedLeading and OnNewLeader.
LEMMA CallbacksKeepInv ==
    ASSUME IInv, CallbackStep
    PROVE  IInv'
<1> USE BoundsAreNat, RoomForOneRun DEF IInv, TypeOK, LMTypeOK, CallsFollowTheElector,
        ManagersContextIsTheLeaders, TwoStopsAtMost, ReportsBounded, RunPcs, Holders,
        lmVars, runVars, callbackVars
<1>1. CASE StartedStores
    BY <1>1 DEF StartedStores
<1>2. CASE StartedSwaps
  <2>1. launches = 0 /\ live = {} /\ ~isLeader /\ 1 \in Epochs
    BY <1>2 DEF StartedSwaps, Epochs
  <2>2. launches' = 1 /\ live' \subseteq {1} /\ (live' # {} => leaderCtx = "live")
    BY <1>2, <2>1 DEF StartedSwaps, GoStartedLeading
  <2>3. starts' \in [Epochs -> StartPhases]
    BY <1>2, <2>1 DEF StartedSwaps, GoStartedLeading, StartPhases
  <2> QED
    BY <1>2, <2>1, <2>2, <2>3 DEF StartedSwaps
<1>3. CASE NewLeaderSwaps
    BY <1>3 DEF NewLeaderSwaps, GoStoppedLeading
<1>4. CASE NewLeaderChecks
  <2>1. checking' \in 0..MaxReports /\ fresh + checking' <= MaxReports
    BY <1>4 DEF NewLeaderChecks
  <2>2. CASE isLeader
    <3>1. onStarted = "done" /\ stops' = stops + 1
      BY <1>4, <2>2 DEF NewLeaderChecks, GoStoppedLeading
    <3>2. stops' \in 0..(MaxStops + 1) /\ TwoStopsAtMost'
      BY <1>4, <2>2, <3>1 DEF NewLeaderChecks
    <3> QED
      BY <1>4, <2>1, <2>2, <3>1, <3>2 DEF NewLeaderChecks
  <2>3. CASE ~isLeader
    BY <1>4, <2>1, <2>3 DEF NewLeaderChecks
  <2> QED
    BY <2>2, <2>3
<1> QED
    BY <1>1, <1>2, <1>3, <1>4 DEF CallbackStep

\* The inductive invariant holds in every reachable state.
THEOREM Invariance == Spec => []IInv
<1>1. Init => IInv
    BY InitInv
<1>2. IInv /\ [Next]_vars => IInv'
  <2> SUFFICES ASSUME IInv, [Next]_vars PROVE IInv'
    OBVIOUS
  <2>1. CASE ElectorStep \/ StopStep
    BY <2>1, RunKeepsInv
  <2>2. CASE CallbackStep
    BY <2>2, CallbacksKeepInv
  <2>3. CASE ManagerStep
    <3>1. LMTypeOK' /\ stops' <= stops /\ UNCHANGED <<launches, live>>
      BY <2>3, ManagerKeepsTypes, ManagerKeepsContexts DEF ManagerStep, IInv, TypeOK
    <3>2. stops \in Nat /\ stops' \in Nat
      BY <3>1, BoundsAreNat DEF LMTypeOK, IInv, TypeOK
    <3> QED
      BY <2>3, <3>1, <3>2 DEF ManagerStep, IInv, TypeOK, CallsFollowTheElector,
         ManagersContextIsTheLeaders, TwoStopsAtMost, ReportsBounded, runVars,
         callbackVars
  <2>4. CASE UNCHANGED vars
    BY <2>4 DEF vars, lmVars, runVars, callbackVars, IInv, TypeOK, LMTypeOK,
       CallsFollowTheElector, ManagersContextIsTheLeaders, TwoStopsAtMost, ReportsBounded
  <2> QED
    BY <2>1, <2>2, <2>3, <2>4 DEF Next
<1> QED
    BY <1>1, <1>2, PTL DEF Spec

-----------------------------------------------------------------------------
(* The properties. *)

\* Every variable keeps its type: in particular no more than two OnStoppedLeading
\* goroutines ever wait in a Run.
THEOREM TypeCorrect == Spec => []TypeOK
<1>1. IInv => TypeOK
    BY DEF IInv
<1> QED
    BY <1>1, Invariance, PTL

\* The leader routines have a live context at most from the launch of OnStartedLeading to
\* the deferred cancel of the elector's Run, and never once the context of Run is
\* cancelled.  (It is live for a moment after the release when renewal has failed.)
THEOREM LiveNoLonger == Spec => []LiveUntilCancel
<1>1. IInv => LiveUntilCancel
    BY DEF IInv, ManagersContextIsTheLeaders, LiveUntilCancel
<1> QED
    BY <1>1, Invariance, PTL

\* The kube locker implements the contract of LeaderSessions.
THEOREM Implementation == Spec => ImplementsSessions
<1>1. Init => Sessions!SessionsInit
    BY DEF Init, LMInit, Sessions!SessionsInit
<1>2. IInv /\ [Next]_vars => [Sessions!SessionsNext]_Sessions!sessionVars
  <2> SUFFICES ASSUME IInv, [Next]_vars
               PROVE  Sessions!SessionsNext
                      \/ UNCHANGED <<launches, live, ctxDone \/ leaderCtx = "cancelled">>
    BY DEF Sessions!sessionVars
  <2> USE DEF lmVars, runVars, callbackVars
  <2>1. CASE ParentCancels
    BY <2>1 DEF ParentCancels, EndLeaderCtx, Sessions!SessionsNext, Sessions!Close
  <2>2. CASE CancelLeader
    BY <2>2 DEF CancelLeader, EndLeaderCtx, Sessions!SessionsNext, Sessions!Close,
       Sessions!End
  <2>3. CASE Launch
    BY <2>3 DEF Launch, IInv, CallsFollowTheElector
  <2>4. CASE StartedSwaps
    <3>1. live = {} /\ launches = 0 /\ ~isLeader /\ leaderCtx \in {"live", "cancelled"}
      BY <2>4 DEF StartedSwaps, IInv, CallsFollowTheElector, TypeOK
    <3>2. CASE leaderCtx = "cancelled"
      BY <2>4, <3>1, <3>2 DEF StartedSwaps, GoStartedLeading, Sessions!SessionsNext,
         Sessions!BeginDead
    <3>3. CASE leaderCtx = "live"
      <4>1. ~ctxDone
        BY <3>3 DEF IInv, ManagersContextIsTheLeaders
      <4> QED
        BY <2>4, <3>1, <3>3, <4>1 DEF StartedSwaps, GoStartedLeading, Sessions!SessionsNext,
           Sessions!Begin
    <3> QED
      BY <3>1, <3>2, <3>3
  <2>5. CASE ManagerStep
    BY <2>5, ManagerKeepsContexts DEF ManagerStep
  <2>6. CASE \/ UNCHANGED vars \/ Acquire \/ AcquireSeesDone \/ ReleaseLock \/ StopStep
             \/ StartedStores \/ NewLeaderSwaps \/ NewLeaderChecks
             \/ \E h \in Holders : TryFails(h) \/ RenewFails(h)
    BY <2>6 DEF vars, Acquire, AcquireSeesDone, ReleaseLock, StopStep, StopSwaps, StopChecks,
       StopCalls, StartedStores, NewLeaderSwaps, NewLeaderChecks, TryFails, RenewFails
  <2> QED
    BY <2>1, <2>2, <2>3, <2>4, <2>5, <2>6 DEF Next, ElectorStep, CallbackStep
<1> QED
    BY <1>1, <1>2, Invariance, PTL DEF Spec, ImplementsSessions, Sessions!SessionsSpec

=============================================================================
