------------------------------ MODULE RaftLoop ------------------------------
(***************************************************************************)
(* raft/locker.go on one node: Run, which supervises the gRPC server and   *)
(* runRaft, and runRaft itself, the loop that receives Ready values from   *)
(* the raft library, derives leadership from them, publishes it, makes the *)
(* leader callbacks and sends the messages out.  The callbacks are those   *)
(* of the LeaderManager (leader.go), which this module extends.            *)
(*                                                                         *)
(* The raft library runs in a goroutine of its own and is the environment: *)
(* it moves its soft state (who leads, am I the leader) whenever it likes, *)
(* also while the loop is busy with an earlier Ready.                      *)
(***************************************************************************)
EXTENDS LeaderManager, FiniteSets

CONSTANTS
    MaxMsgs        \* bound: messages in one Ready

ASSUME MaxMsgsIsNat == MaxMsgs \in Nat

VARIABLES
    \* the raft library
    soft,          \* its current soft state
    prevSoft,      \* the soft state of the last Ready that carried one
    \* Run
    ctxDone,       \* the context of Run is cancelled
    errs,          \* the server goroutine left its error in the channel
    runPc, serverPc,
    \* runRaft's locals
    pc, rd, nowLeader, leader, isLeader, initialized, unsent,
    \* what other goroutines read
    transport,     \* grpcTransport.leader and grpcTransport.isLeader
    tracked        \* the value SetLeader stored last (currentLeader in multicluster)

raftVars == <<soft, prevSoft>>
runVars == <<ctxDone, errs, runPc, serverPc>>
loopVars == <<pc, rd, nowLeader, leader, isLeader, initialized, unsent>>
pubVars == <<transport, tracked>>
vars == <<lmVars, raftVars, runVars, loopVars, pubVars>>

\* Node ids as this node tells them apart.  "none" is raft.None (0): no leader.
Ids == {"none", "self", "other"}

\* raft.SoftState: the library sets Lead to its own id exactly in StateLeader;
\* StateFollower and StateCandidate are the same to the locker.
SoftStates == {[Lead |-> "none",  RaftState |-> "follower"],
               [Lead |-> "other", RaftState |-> "follower"],
               [Lead |-> "self",  RaftState |-> "leader"]}

\* raft.Ready: SoftState is nil unless it changed since the last Ready.
Readys == [hasSoft : BOOLEAN, SoftState : SoftStates, Messages : 0..MaxMsgs]

LoopPcs == {"start", "select", "observe", "publish", "transition", "send", "done"}

TypeOK ==
    /\ LMTypeOK
    /\ soft \in SoftStates
    /\ prevSoft \in SoftStates
    /\ ctxDone \in BOOLEAN
    /\ errs \in BOOLEAN
    /\ runPc \in {"select", "wait", "returned"}
    /\ serverPc \in {"serving", "exited"}
    /\ pc \in LoopPcs
    /\ rd \in Readys
    /\ nowLeader \in BOOLEAN
    /\ leader \in Ids
    /\ isLeader \in BOOLEAN
    /\ initialized \in BOOLEAN
    /\ unsent \in 0..MaxMsgs
    /\ transport \in [leader : Ids, isLeader : BOOLEAN]
    /\ tracked \in Ids

NoLead == [Lead |-> "none", RaftState |-> "follower"]
NoReady == [hasSoft |-> FALSE, SoftState |-> NoLead, Messages |-> 0]

Init ==
    /\ LMInit
    /\ soft = NoLead
    /\ prevSoft = NoLead
    /\ ctxDone = FALSE
    /\ errs = FALSE
    /\ runPc = "select"
    /\ serverPc = "serving"
    /\ pc = "start"
    /\ rd = NoReady
    /\ nowLeader = FALSE
    /\ leader = "none"
    /\ isLeader = FALSE
    /\ initialized = FALSE
    /\ unsent = 0
    /\ transport = [leader |-> "none", isLeader |-> FALSE]
    /\ tracked = "none"

-----------------------------------------------------------------------------
(* The raft library. *)

\* Any number of elections between two looks of the loop are one step here.
RaftStep ==
    /\ pc \notin {"start", "done"}
    /\ \E s \in SoftStates : s # soft /\ soft' = s
    /\ UNCHANGED <<lmVars, prevSoft, runVars, loopVars, pubVars>>

-----------------------------------------------------------------------------
(* Run: the two goroutines, the error channel and the select over both.    *)

\* Cancelling a context cancels everything derived from it.
CancelCtx ==
    /\ ctxDone' = TRUE
    /\ live' = {}

ParentCancels ==
    /\ ~ctxDone
    /\ CancelCtx
    /\ UNCHANGED <<lmIsLeader, leaderRoutines, launches, starts, stops, loops,
                   raftVars, errs, runPc, serverPc, loopVars, pubVars>>

\* transport.Run returns an error: the port is taken, or Serve fails.
ServerFails ==
    /\ serverPc = "serving"
    /\ serverPc' = "exited"
    /\ errs' = TRUE
    /\ UNCHANGED <<lmVars, raftVars, ctxDone, runPc, loopVars, pubVars>>

\* transport.Run sees the cancelled context and finishes its GracefulStop.
ServerStops ==
    /\ serverPc = "serving"
    /\ ctxDone
    /\ serverPc' = "exited"
    /\ UNCHANGED <<lmVars, raftVars, ctxDone, errs, runPc, loopVars, pubVars>>

\* Slip: Run waits for the goroutines and cancels their context afterwards.
RunTakesErrorDefect ==
    /\ runPc = "select"
    /\ errs
    /\ runPc' = "wait"
    /\ errs' = FALSE
    /\ UNCHANGED <<lmVars, raftVars, ctxDone, serverPc, loopVars, pubVars>>

RunTakesError ==
    /\ runPc = "select"
    /\ errs
    /\ runPc' = "wait"
    /\ errs' = FALSE
    /\ CancelCtx
    /\ UNCHANGED <<lmIsLeader, leaderRoutines, launches, starts, stops, loops,
                   raftVars, serverPc, loopVars, pubVars>>

RunSeesDone ==
    /\ runPc = "select"
    /\ ctxDone
    /\ runPc' = "wait"
    /\ UNCHANGED <<lmVars, raftVars, ctxDone, errs, serverPc, loopVars, pubVars>>

\* wg.Wait() is over
RunReturns ==
    /\ runPc = "wait"
    /\ pc = "done"
    /\ serverPc = "exited"
    /\ runPc' = "returned"
    /\ UNCHANGED <<lmVars, raftVars, ctxDone, errs, serverPc, loopVars, pubVars>>

-----------------------------------------------------------------------------
(* runRaft. *)

\* StartNode, setNode and the first leaderCtx; the context is not looked at.
StartNode ==
    /\ pc = "start"
    /\ pc' = "select"
    /\ UNCHANGED <<lmVars, raftVars, runVars, rd, nowLeader, leader, isLeader,
                   initialized, unsent, pubVars>>

\* case <-ctx.Done()
Shutdown ==
    /\ pc = "select"
    /\ ctxDone
    /\ IF isLeader THEN GoStoppedLeading ELSE UNCHANGED stops
    /\ pc' = "done"
    /\ UNCHANGED <<lmIsLeader, leaderRoutines, launches, starts, live, loops, raftVars,
                   runVars, rd, nowLeader, leader, isLeader, initialized, unsent, pubVars>>

\* case rd := <-node.Ready().  The library offers a Ready when its soft state moved
\* since the last one or when it has messages or entries to hand over.
Receive(msgs) ==
    /\ pc = "select"
    /\ soft # prevSoft \/ msgs > 0
    /\ rd' = [hasSoft |-> soft # prevSoft, SoftState |-> soft, Messages |-> msgs]
    /\ prevSoft' = soft
    /\ pc' = "observe"
    /\ UNCHANGED <<lmVars, soft, runVars, nowLeader, leader, isLeader, initialized,
                   unsent, pubVars>>

\* A Ready without a soft state makes the loop ask node.Status(), which answers with
\* the state of now and not the one the Ready was made in.
Observe ==
    /\ pc = "observe"
    /\ LET seen == IF rd.hasSoft THEN rd.SoftState ELSE soft
       IN  /\ leader' = seen.Lead
           /\ nowLeader' = (seen.Lead = "self" \/ seen.RaftState = "leader")
    /\ pc' = "publish"
    /\ UNCHANGED <<lmVars, raftVars, runVars, rd, isLeader, initialized, unsent, pubVars>>

\* Slip: isLeader, the state before this Ready, is published.
PublishDefect ==
    /\ pc = "publish"
    /\ transport' = [leader |-> leader, isLeader |-> isLeader]
    /\ tracked' = leader
    /\ pc' = "transition"
    /\ UNCHANGED <<lmVars, raftVars, runVars, rd, nowLeader, leader, isLeader,
                   initialized, unsent>>

\* The two stores of the transport and the SetLeader callback.
Publish ==
    /\ pc = "publish"
    /\ transport' = [leader |-> leader, isLeader |-> nowLeader]
    /\ tracked' = leader
    /\ pc' = "transition"
    /\ UNCHANGED <<lmVars, raftVars, runVars, rd, nowLeader, leader, isLeader,
                   initialized, unsent>>

\* Slip: isLeader is not set.
BecomeLeaderDefect ==
    /\ nowLeader
    /\ GoStartedLeading(ctxDone)
    /\ UNCHANGED <<isLeader, stops>>

\* "just became leader, start things up"
BecomeLeader ==
    /\ nowLeader
    /\ isLeader' = TRUE
    /\ GoStartedLeading(ctxDone)
    /\ UNCHANGED stops

\* Slip: the leader context is not cancelled.
BecomeFollowerKeepsContextDefect ==
    /\ ~nowLeader
    /\ stops < MaxStops
    /\ GoStoppedLeading
    /\ UNCHANGED <<isLeader, launches, starts, live>>

\* Not quite a slip: isLeader is reset, and nothing else changes.
BecomeFollowerResetsDefect ==
    /\ ~nowLeader
    /\ isLeader' = FALSE
    /\ live' = {}
    /\ stops < MaxStops
    /\ GoStoppedLeading
    /\ UNCHANGED <<launches, starts>>

\* "we became a follower": the leader context is replaced by a fresh one.  isLeader
\* keeps its value here.
BecomeFollower ==
    /\ ~nowLeader
    /\ live' = {}
    /\ stops < MaxStops
    /\ GoStoppedLeading
    /\ UNCHANGED <<isLeader, launches, starts>>

\* Slip: only the first Ready is looked at.
TransitionDefect ==
    /\ pc = "transition"
    /\ IF ~initialized
       THEN initialized' = TRUE /\ (BecomeLeader \/ BecomeFollower)
       ELSE UNCHANGED <<initialized, isLeader, launches, starts, live, stops>>
    /\ pc' = "send"
    /\ unsent' = rd.Messages
    /\ UNCHANGED <<lmIsLeader, leaderRoutines, loops, raftVars, runVars, rd, nowLeader,
                   leader, pubVars>>

\* The leadership block of a Ready, up to storage.Append.
Transition ==
    /\ pc = "transition"
    /\ IF nowLeader # isLeader \/ ~initialized
       THEN initialized' = TRUE /\ (BecomeLeader \/ BecomeFollower)
       ELSE UNCHANGED <<initialized, isLeader, launches, starts, live, stops>>
    /\ pc' = "send"
    /\ unsent' = rd.Messages
    /\ UNCHANGED <<lmIsLeader, leaderRoutines, loops, raftVars, runVars, rd, nowLeader,
                   leader, pubVars>>

\* Slip: the loop over the messages overruns.
SendMessageDefect ==
    /\ pc = "send"
    /\ unsent' = unsent - 1
    /\ UNCHANGED <<lmVars, raftVars, runVars, pc, rd, nowLeader, leader, isLeader,
                   initialized, pubVars>>

\* One message is done with: applied by the peer, stepped locally, or reported
\* unreachable.  A peer that answers "not applied" is asked again a second later and
\* a call that hangs holds the loop here; both are this action not happening.
SendMessage ==
    /\ pc = "send"
    /\ unsent > 0
    /\ unsent' = unsent - 1
    /\ UNCHANGED <<lmVars, raftVars, runVars, pc, rd, nowLeader, leader, isLeader,
                   initialized, pubVars>>

\* node.Advance()
Advance ==
    /\ pc = "send"
    /\ unsent = 0
    /\ pc' = "select"
    /\ UNCHANGED <<lmVars, raftVars, runVars, rd, nowLeader, leader, isLeader,
                   initialized, unsent, pubVars>>

-----------------------------------------------------------------------------
ManagerStep == LMNext /\ UNCHANGED <<raftVars, runVars, loopVars, pubVars>>

RunStep == ParentCancels \/ ServerFails \/ ServerStops \/ RunTakesError \/ RunSeesDone
           \/ RunReturns

LoopStep == StartNode \/ Shutdown \/ (\E m \in 0..MaxMsgs : Receive(m)) \/ Observe
            \/ Publish \/ Transition \/ SendMessage \/ Advance

Next == RaftStep \/ RunStep \/ LoopStep \/ ManagerStep

Spec == Init /\ [][Next]_vars

\* The goroutines of the process are scheduled, an RPC to a peer is answered or fails,
\* GracefulStop ends.  Go's select picks at random among ready cases, so a cancelled
\* context is seen even when a Ready is always there: Shutdown is strongly fair.  The
\* library keeps producing Readys (every heartbeat and every vote is one).  Nothing is
\* assumed of ParentCancels, ServerFails or RaftStep.
Fairness ==
    /\ WF_vars(StartNode) /\ WF_vars(Observe) /\ WF_vars(Publish) /\ WF_vars(Transition)
    /\ WF_vars(SendMessage) /\ WF_vars(Advance)
    /\ WF_vars(\E m \in 0..MaxMsgs : Receive(m))
    /\ SF_vars(Shutdown)
    /\ WF_vars(ServerStops) /\ WF_vars(RunTakesError) /\ WF_vars(RunSeesDone)
    /\ WF_vars(RunReturns)
    /\ LMFairness

FairSpec == Spec /\ Fairness

-----------------------------------------------------------------------------
(* Properties. *)

\* The leader routines run under a live context only while the last Ready that the
\* loop has acted on said that this node leads.  A Ready that says otherwise cancels
\* the context before the loop turns to anything that can block: between Observe and
\* Transition is the only window (raft/locker.go, "we became a follower").
LiveOnlyWhileObservedLeading ==
    live # {} => isLeader /\ (nowLeader \/ pc \in {"publish", "transition"})

\* Run's context being cancelled, by the caller or because the server failed, leaves
\* no leader context alive, and none comes alive afterwards: not even the one of a
\* Ready that was received before the cancellation and is acted on after it.
NoLiveContextAfterCancel ==
    ctxDone \/ runPc # "select" => live = {}

\* Whenever the loop is idle or sending and leader routines hold a live context, the
\* other goroutines of the process are told the same story: Check answers for this
\* node itself, and the multicluster runtime's currentLeader is this node.
RoutinesAgreeWithPublished ==
    live # {} /\ pc \in {"select", "observe", "send"} =>
        transport.isLeader /\ transport.leader = "self" /\ tracked = "self"

\* No leader routine runs twice at the same time in one process: a retry loop of an
\* earlier leadership is never still calling the function when a later leadership
\* starts its own.  Neither the callbacks (unordered goroutines) nor cancellation
\* (cooperative) would prevent it.
OneLoopPerRoutine ==
    \A r \in Routines :
        Cardinality({e \in Epochs : loops[r][e] \in {"running", "backoff"}}) <= 1

\* The sessions of leadership follow the contract of LeaderSessions.
Sessions == INSTANCE LeaderSessions WITH begun <- launches, alive <- live, over <- ctxDone
ImplementsSessions == Sessions!SessionsSpec

\* A node that stops leading for good ends every leader routine it started, also one
\* whose goroutine is scheduled only after the loss.
LossEndsRoutines ==
    <>[](soft.Lead # "self") =>
        <>[](\A r \in Routines, e \in Epochs : loops[r][e] \in {"none", "exited"})

\* A node that stops leading for good, and keeps running, says so: IsLeader() ends up
\* false.  The callbacks that set and clear the flag are unordered goroutines, so one
\* late OnStartedLeading can overwrite the OnStoppedLeading of the loss.
LossClearsIsLeader ==
    <>[](soft.Lead # "self" /\ ~ctxDone) => <>[](~lmIsLeader)

\* A node that leads for good while it runs has started its leader routines.
StableLeaderStarts ==
    <>[](soft.Lead = "self" /\ ~ctxDone) => <>(\E e \in Epochs : starts[e] = "done")

\* Run ends once its context is cancelled or its server has failed: the two goroutines
\* that it waits for are told to stop before it waits, whichever of them is the cause.
RunEnds ==
    (ctxDone \/ errs) ~> (runPc = "returned")

\* "just became leader, start things up" (raft/locker.go:237): a node that leads for
\* good while it runs has its leader routines running under a live context.  The code
\* does not do this: isLeader is not reset when leadership is lost, so leadership that
\* is won back is not seen as a change and starts nothing.
StableLeaderRuns ==
    <>[](soft.Lead = "self" /\ ~ctxDone) => <>[](live # {})

=============================================================================
