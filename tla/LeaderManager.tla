---------------------------- MODULE LeaderManager ----------------------------
(***************************************************************************)
(* leader.go: the LeaderManager, which runs the registered leader routines *)
(* while this process holds the lock.  The lock implementation (raft.Run   *)
(* or kube.Run) calls it back through OnStartedLeading and                 *)
(* OnStoppedLeading; this module has the state of the manager and one      *)
(* operator per step of its callbacks, and RaftLoop and KubeElector        *)
(* compose it with the code that makes the calls.                          *)
(*                                                                         *)
(* Every call of OnStartedLeading gets a context.  Contexts are numbered   *)
(* by the call (an epoch), and the only fact about a context that the      *)
(* manager reads is whether it has been cancelled: live is the set of      *)
(* epochs whose context has not.                                           *)
(*                                                                         *)
(* Definitions named ...Defect are not part of the model: each is the      *)
(* definition after it with one slip that a change of the code could make, *)
(* kept to show that a property notices.  The other modules do the same.   *)
(***************************************************************************)
EXTENDS Naturals

CONSTANTS
    Routines,      \* the functions a program registers with RegisterRoutine
    MaxLaunches,   \* bound: OnStartedLeading calls in one Run
    MaxStops       \* bound: OnStoppedLeading goroutines waiting when one more is started

ASSUME BoundsAreNat == MaxLaunches \in Nat /\ MaxStops \in Nat

VARIABLES
    lmIsLeader,      \* LeaderManager.isLeader, what IsLeader() returns
    leaderRoutines,  \* LeaderManager.leaderRoutines
    launches,        \* number of OnStartedLeading goroutines started so far
    starts,          \* progress of each of those goroutines
    stops,           \* OnStoppedLeading goroutines started and not yet run
    live,            \* epochs whose leader context is not cancelled
    loops            \* the retry loop of each routine in each epoch

lmVars == <<lmIsLeader, leaderRoutines, launches, starts, stops, live, loops>>

Epochs == 1..MaxLaunches
StartPhases == {"none", "launched", "stored", "done"}
LoopPhases == {"none", "running", "backoff", "exited"}

LMTypeOK ==
    /\ lmIsLeader \in BOOLEAN
    /\ leaderRoutines \subseteq Routines
    /\ launches \in 0..MaxLaunches
    /\ starts \in [Epochs -> StartPhases]
    /\ stops \in 0..(MaxStops + 1)
    /\ live \subseteq Epochs
    /\ loops \in [Routines -> [Epochs -> LoopPhases]]

LMInit ==
    /\ lmIsLeader = FALSE
    /\ leaderRoutines = {}
    /\ launches = 0
    /\ starts = [e \in Epochs |-> "none"]
    /\ stops = 0
    /\ live = {}
    /\ loops = [r \in Routines |-> [e \in Epochs |-> "none"]]

-----------------------------------------------------------------------------
(* What the lock implementation does to the manager; parts of its actions. *)

\* Slip: the context is not derived from Run's.
GoStartedLeadingDefect(parentDone) ==
    /\ launches < MaxLaunches
    /\ launches' = launches + 1
    /\ starts' = [starts EXCEPT ![launches + 1] = "launched"]
    /\ live' = live \cup {launches + 1}

\* go callbacks.OnStartedLeading(leaderCtx): the goroutine exists, it has not run.
\* A context derived from a cancelled parent is born cancelled.
GoStartedLeading(parentDone) ==
    /\ launches < MaxLaunches
    /\ launches' = launches + 1
    /\ starts' = [starts EXCEPT ![launches + 1] = "launched"]
    /\ live' = IF parentDone THEN live ELSE live \cup {launches + 1}

\* go callbacks.OnStoppedLeading().  A loop that calls it again and again tests the
\* bound MaxStops; the last call of a Run goes through in any case.
GoStoppedLeading == stops' = stops + 1

-----------------------------------------------------------------------------
(* The steps of the manager's own goroutines. *)

\* runLeaderRoutines, first statement: the flag is set before the lock is taken.
StoreLeading(e) ==
    /\ starts[e] = "launched"
    /\ starts' = [starts EXCEPT ![e] = "stored"]
    /\ lmIsLeader' = TRUE
    /\ UNCHANGED <<leaderRoutines, launches, stops, live, loops>>

\* runLeaderRoutines, under the read lock: one goroutine per registered routine.
\* RegisterRoutine needs the write lock, so the iteration is one step; the context
\* is not looked at, a cancelled one is handed to the routine all the same.
SpawnRoutines(e) ==
    /\ starts[e] = "stored"
    /\ starts' = [starts EXCEPT ![e] = "done"]
    /\ loops' = [r \in Routines |->
                    IF r \in leaderRoutines
                    THEN [loops[r] EXCEPT ![e] = "running"]
                    ELSE loops[r]]
    /\ UNCHANGED <<lmIsLeader, leaderRoutines, launches, stops, live>>

\* The OnStoppedLeading closure of the manager's constructors.
RunStoppedLeading ==
    /\ stops > 0
    /\ stops' = stops - 1
    /\ lmIsLeader' = FALSE
    /\ UNCHANGED <<leaderRoutines, launches, starts, live, loops>>

RegisterRoutine(r) ==
    /\ r \notin leaderRoutines
    /\ leaderRoutines' = leaderRoutines \cup {r}
    /\ UNCHANGED <<lmIsLeader, launches, starts, stops, live, loops>>

\* Slip: the retry loop goes around where it should leave.
RoutineReturnsDefect(r, e) ==
    /\ loops[r][e] = "running"
    /\ loops' = [loops EXCEPT ![r][e] = IF e \in live THEN "backoff" ELSE "running"]
    /\ UNCHANGED <<lmIsLeader, leaderRoutines, launches, starts, stops, live>>

\* fn(ctx) returns, with or without an error: the loop leaves when the context is
\* cancelled and waits 10 seconds before the next attempt otherwise.
RoutineReturns(r, e) ==
    /\ loops[r][e] = "running"
    /\ loops' = [loops EXCEPT ![r][e] = IF e \in live THEN "backoff" ELSE "exited"]
    /\ UNCHANGED <<lmIsLeader, leaderRoutines, launches, starts, stops, live>>

\* The two cases of the second select.  When both are ready Go picks either, so a
\* routine can be called once more with a cancelled context.
BackoffCancelled(r, e) ==
    /\ loops[r][e] = "backoff"
    /\ e \notin live
    /\ loops' = [loops EXCEPT ![r][e] = "exited"]
    /\ UNCHANGED <<lmIsLeader, leaderRoutines, launches, starts, stops, live>>

BackoffElapsed(r, e) ==
    /\ loops[r][e] = "backoff"
    /\ loops' = [loops EXCEPT ![r][e] = "running"]
    /\ UNCHANGED <<lmIsLeader, leaderRoutines, launches, starts, stops, live>>

LMNext ==
    \/ RunStoppedLeading
    \/ \E e \in Epochs : StoreLeading(e) \/ SpawnRoutines(e)
    \/ \E r \in Routines :
        \/ RegisterRoutine(r)
        \/ \E e \in Epochs :
            \/ RoutineReturns(r, e)
            \/ BackoffCancelled(r, e)
            \/ BackoffElapsed(r, e)

\* The Go scheduler runs every goroutine; a routine is expected to return once its
\* context is cancelled, and nothing is assumed of one whose context is live.
LMFairness ==
    /\ WF_lmVars(RunStoppedLeading)
    /\ \A e \in Epochs : WF_lmVars(StoreLeading(e)) /\ WF_lmVars(SpawnRoutines(e))
    /\ \A r \in Routines, e \in Epochs :
        /\ WF_lmVars(e \notin live /\ RoutineReturns(r, e))
        /\ WF_lmVars(BackoffCancelled(r, e))

=============================================================================
