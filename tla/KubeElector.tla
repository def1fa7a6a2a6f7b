----------------------------- MODULE KubeElector -----------------------------
(***************************************************************************)
(* kube/locker.go on one node: Run, which drives the leader elector of     *)
(* client-go to its end, and the three callbacks that the elector makes.   *)
(* Two flags that the callbacks share, initialized and isLeader, decide    *)
(* which of the elector's callbacks become callbacks of the LeaderManager  *)
(* (leader.go), which this module extends.                                 *)
(*                                                                         *)
(* The elector is external.  Its Run acquires the lock, renews it until    *)
(* that fails for RenewDeadline or the context is cancelled, releases it,  *)
(* cancels the context of the leader and calls OnStoppedLeading, all in    *)
(* one goroutine.  OnStartedLeading, and OnNewLeader after every try that  *)
(* left it with another holder than the one reported last, get goroutines  *)
(* of their own.  What the tries find in the lock is up to the lock        *)
(* (module MultiLock): here it is any holder at any time.                  *)
(***************************************************************************)
EXTENDS LeaderManager, FiniteSets

CONSTANTS
    MaxReports     \* bound: OnNewLeader goroutines under way when one more is started

\* A Run calls OnStartedLeading once at most and OnStoppedLeading in a goroutine twice.
ASSUME RoomForOneRun == MaxReports \in Nat /\ MaxLaunches >= 1 /\ MaxStops >= 1

VARIABLES
    ctxDone,       \* the context of Run is cancelled
    runPc,         \* where Run is
    reported,      \* LeaderElector.reportedLeader
    leaderCtx,     \* the context made for OnStartedLeading
    onStarted,     \* progress of the OnStartedLeading goroutine, up to the manager's part
    fresh,         \* OnNewLeader goroutines that have not run yet
    checking,      \* OnNewLeader goroutines between the two swaps
    initialized,   \* the two flags of leaderElector
    isLeader

runVars == <<ctxDone, runPc, reported, leaderCtx>>
callbackVars == <<onStarted, fresh, checking, initialized, isLeader>>
vars == <<lmVars, runVars, callbackVars>>

\* The identity in a record, as this node tells them apart.
Holders == {"nobody", "self", "other"}

RunPcs == {"acquire", "acquired", "renew", "release", "cancel",
           "stop", "stopCheck", "stopCall", "returned"}

TypeOK ==
    /\ LMTypeOK
    /\ ctxDone \in BOOLEAN
    /\ runPc \in RunPcs
    /\ reported \in Holders
    /\ leaderCtx \in {"none", "live", "cancelled"}
    /\ onStarted \in {"none", "launched", "initialized", "done"}
    /\ fresh \in 0..MaxReports
    /\ checking \in 0..MaxReports
    /\ initialized \in BOOLEAN
    /\ isLeader \in BOOLEAN

Init ==
    /\ LMInit
    /\ ctxDone = FALSE
    /\ runPc = "acquire"
    /\ reported = "nobody"
    /\ leaderCtx = "none"
    /\ onStarted = "none"
    /\ fresh = 0
    /\ checking = 0
    /\ initialized = FALSE
    /\ isLeader = FALSE

-----------------------------------------------------------------------------
(* The elector. *)

\* The contexts of the leader and of its routines end.
EndLeaderCtx ==
    /\ leaderCtx' = IF leaderCtx = "live" THEN "cancelled" ELSE leaderCtx
    /\ live' = {}

ParentCancels ==
    /\ ~ctxDone
    /\ ctxDone' = TRUE
    /\ EndLeaderCtx
    /\ UNCHANGED <<lmIsLeader, leaderRoutines, launches, starts, stops, loops,
                   runPc, reported, callbackVars>>

\* maybeReportTransition, when a try has ended with this holder in the observed record.
Report(holder) ==
    /\ reported' = holder
    /\ IF holder = reported
       THEN UNCHANGED fresh
       ELSE fresh + checking < MaxReports /\ fresh' = fresh + 1

\* A try of acquire that did not get the lock, whoever the record names: it may name
\* this node, whose predecessor with the same identity left it there.
TryFails(holder) ==
    /\ runPc = "acquire"
    /\ holder # reported
    /\ Report(holder)
    /\ UNCHANGED <<lmVars, ctxDone, runPc, leaderCtx, onStarted, checking, initialized,
                   isLeader>>

\* A try of acquire succeeds, which it may after the context is cancelled.
Acquire ==
    /\ runPc = "acquire"
    /\ runPc' = "acquired"
    /\ Report("self")
    /\ UNCHANGED <<lmVars, ctxDone, leaderCtx, onStarted, checking, initialized, isLeader>>

AcquireSeesDone ==
    /\ runPc = "acquire"
    /\ ctxDone
    /\ runPc' = "stop"
    /\ UNCHANGED <<lmVars, ctxDone, reported, leaderCtx, callbackVars>>

\* go OnStartedLeading(ctx)
Launch ==
    /\ runPc = "acquired"
    /\ runPc' = "renew"
    /\ leaderCtx' = IF ctxDone THEN "cancelled" ELSE "live"
    /\ onStarted' = "launched"
    /\ UNCHANGED <<lmVars, ctxDone, reported, fresh, checking, initialized, isLeader>>

\* No renewal succeeded for RenewDeadline, or the context is cancelled.  (A renewal that
\* succeeds changes nothing here.)
RenewFails(holder) ==
    /\ runPc = "renew"
    /\ runPc' = "release"
    /\ Report(holder)
    /\ UNCHANGED <<lmVars, ctxDone, leaderCtx, onStarted, checking, initialized, isLeader>>

\* ReleaseOnCancel: the lock is free for others from here on.
ReleaseLock ==
    /\ runPc = "release"
    /\ runPc' = "cancel"
    /\ UNCHANGED <<lmVars, ctxDone, reported, leaderCtx, callbackVars>>

\* The deferred calls of the elector's Run, in their order: cancel, OnStoppedLeading.
CancelLeader ==
    /\ runPc = "cancel"
    /\ runPc' = "stop"
    /\ EndLeaderCtx
    /\ UNCHANGED <<lmIsLeader, leaderRoutines, launches, starts, stops, loops,
                   ctxDone, reported, callbackVars>>

-----------------------------------------------------------------------------
(* The callbacks. *)

\* OnStartedLeading: initialized.Store(true)
StartedStores ==
    /\ onStarted = "launched"
    /\ onStarted' = "initialized"
    /\ initialized' = TRUE
    /\ UNCHANGED <<lmVars, runVars, fresh, checking, isLeader>>

\* Slip: the manager gets the context of Run instead of the leader's.
StartedSwapsOuterDefect ==
    /\ onStarted = "initialized"
    /\ onStarted' = "done"
    /\ isLeader' = TRUE
    /\ IF isLeader
       THEN UNCHANGED <<launches, starts, live>>
       ELSE GoStartedLeading(ctxDone)
    /\ UNCHANGED <<lmIsLeader, leaderRoutines, stops, loops, runVars, fresh, checking,
                   initialized>>

\* Slip: the first callback of all is taken for a repetition.
StartedSwapsFirstDefect ==
    /\ onStarted = "initialized"
    /\ onStarted' = "done"
    /\ isLeader' = TRUE
    /\ IF ~isLeader
       THEN UNCHANGED <<launches, starts, live>>
       ELSE GoStartedLeading(leaderCtx = "cancelled")
    /\ UNCHANGED <<lmIsLeader, leaderRoutines, stops, loops, runVars, fresh, checking,
                   initialized>>

\* isLeader.Swap(true), and the manager's OnStartedLeading with the leader context as it
\* is by now.
StartedSwaps ==
    /\ onStarted = "initialized"
    /\ onStarted' = "done"
    /\ isLeader' = TRUE
    /\ IF isLeader
       THEN UNCHANGED <<launches, starts, live>>
       ELSE GoStartedLeading(leaderCtx = "cancelled")
    /\ UNCHANGED <<lmIsLeader, leaderRoutines, stops, loops, runVars, fresh, checking,
                   initialized>>

\* Slip: isLeader is loaded and not swapped.
NewLeaderChecksDefect ==
    /\ checking > 0
    /\ checking' = checking - 1
    /\ IF isLeader THEN GoStoppedLeading ELSE UNCHANGED stops
    /\ UNCHANGED <<lmIsLeader, leaderRoutines, launches, starts, live, loops, runVars,
                   onStarted, fresh, initialized, isLeader>>

\* OnNewLeader: initialized.Swap(true).  The first callback of all tells the manager that
\* it does not lead, without a look at isLeader.
NewLeaderSwaps ==
    /\ fresh > 0
    /\ fresh' = fresh - 1
    /\ initialized' = TRUE
    /\ IF initialized
       THEN checking' = checking + 1 /\ UNCHANGED stops
       ELSE GoStoppedLeading /\ UNCHANGED checking
    /\ UNCHANGED <<lmIsLeader, leaderRoutines, launches, starts, live, loops, runVars,
                   onStarted, isLeader>>

\* OnNewLeader: isLeader.Swap(false), whoever the new leader is.
NewLeaderChecks ==
    /\ checking > 0
    /\ checking' = checking - 1
    /\ isLeader' = FALSE
    /\ IF isLeader THEN GoStoppedLeading ELSE UNCHANGED stops
    /\ UNCHANGED <<lmIsLeader, leaderRoutines, launches, starts, live, loops, runVars,
                   onStarted, fresh, initialized>>

\* OnStoppedLeading, which Run waits for.
StopSwaps ==
    /\ runPc = "stop"
    /\ initialized' = TRUE
    /\ runPc' = IF initialized THEN "stopCheck" ELSE "stopCall"
    /\ UNCHANGED <<lmVars, ctxDone, reported, leaderCtx, onStarted, fresh, checking, isLeader>>

\* OnStoppedLeading: isLeader.Swap(false).
StopChecks ==
    /\ runPc = "stopCheck"
    /\ isLeader' = FALSE
    /\ runPc' = IF isLeader THEN "stopCall" ELSE "returned"
    /\ UNCHANGED <<lmVars, ctxDone, reported, leaderCtx, onStarted, fresh, checking,
                   initialized>>

StopCalls ==
    /\ runPc = "stopCall"
    /\ runPc' = "returned"
    /\ lmIsLeader' = FALSE
    /\ UNCHANGED <<leaderRoutines, launches, starts, stops, live, loops,
                   ctxDone, reported, leaderCtx, callbackVars>>

-----------------------------------------------------------------------------
ElectorStep ==
    \/ ParentCancels \/ Acquire \/ AcquireSeesDone \/ Launch \/ ReleaseLock \/ CancelLeader
    \/ \E h \in Holders : TryFails(h) \/ RenewFails(h)

CallbackStep == StartedStores \/ StartedSwaps \/ NewLeaderSwaps \/ NewLeaderChecks

StopStep == StopSwaps \/ StopChecks \/ StopCalls

ManagerStep == LMNext /\ UNCHANGED <<runVars, callbackVars>>

Next == ElectorStep \/ CallbackStep \/ StopStep \/ ManagerStep

Spec == Init /\ [][Next]_vars

\* Every goroutine is scheduled, a release ends, and a cancelled context ends acquire and
\* renew.  Nothing is assumed of tries, of failures to renew, or of ParentCancels.
Fairness ==
    /\ WF_vars(AcquireSeesDone) /\ WF_vars(Launch)
    /\ WF_vars(ctxDone /\ \E h \in Holders : RenewFails(h))
    /\ WF_vars(ReleaseLock) /\ WF_vars(CancelLeader) /\ WF_vars(StopStep)
    /\ WF_vars(StartedStores) /\ WF_vars(StartedSwaps)
    /\ WF_vars(NewLeaderSwaps) /\ WF_vars(NewLeaderChecks)
    /\ LMFairness

FairSpec == Spec /\ Fairness

-----------------------------------------------------------------------------
(* Properties. *)

\* The leader routines have a live context at most from the launch of OnStartedLeading to
\* the deferred cancel of the elector's Run, however late that goroutine is scheduled, and
\* never once the context of Run is cancelled.  So a node that is told to stop has ended
\* them before it releases the lock.  A node that gives up renewing has not: between its
\* release and its cancel they are live and the lock is free, and at no other time.
LiveUntilCancel ==
    live # {} => ~ctxDone /\ runPc \in {"renew", "release", "cancel"}

\* Run obeys the contract of LeaderSessions, as the raft locker does: one session at
\* most, and one that begins after the loss begins with a dead context.
Sessions == INSTANCE LeaderSessions
            WITH begun <- launches, alive <- live, over <- ctxDone \/ leaderCtx = "cancelled"
ImplementsSessions == Sessions!SessionsSpec

\* A node that keeps the lock for good starts its leader routines: none of the callbacks
\* that run next to OnStartedLeading makes it skip the call of the manager.
HeldLockStarts ==
    <>[](runPc = "renew" /\ ~ctxDone) => <>(\E e \in Epochs : starts[e] = "done")

\* Run's return ends the leader routines, also those whose OnStartedLeading goroutine is
\* scheduled only after it.
ReturnEndsRoutines ==
    <>(runPc = "returned") =>
        <>[](\A r \in Routines, e \in Epochs : loops[r][e] \in {"none", "exited"})

=============================================================================
