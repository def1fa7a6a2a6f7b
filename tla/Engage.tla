------------------------------- MODULE Engage -------------------------------
(***************************************************************************)
(* multicluster/manager.go and the part of multicluster/raft.go that runs: *)
(* how the runnables of an operator are told of the clusters.              *)
(*                                                                         *)
(* A runnable has a leader routine or two (leaderRunnable.Add).  Each      *)
(* calls Engage for every cluster that is known, starts a goroutine that   *)
(* does so again for every token in the channel restart, and runs.  The    *)
(* channel holds one token and all those goroutines take from it.  Tokens  *)
(* are sent by whoever adds a cluster: the bootstrap routine of a peer,    *)
(* or a caller of AddOrReplaceCluster.  The routines are run by            *)
(* LeaderManager, once in a Run (OneLaunch of RaftLoopProofs).             *)
(*                                                                         *)
(* The provider of multicluster-runtime is external: a map from names to   *)
(* clusters that forgets a cluster when its context is cancelled.          *)
(***************************************************************************)
EXTENDS Naturals, Sequences

CONSTANTS
    Names,         \* peers other than the node itself, by name
    Runnables,     \* leaderRunnable.runnables
    Warm,          \* those with a Warmup
    MaxListeners,  \* bound: listeners a routine has at once, cancelled ones included
    MaxVersions    \* bound: clusters added under one name

RunnableSet == {Runnables[i] : i \in DOMAIN Runnables}

ASSUME EngageAssumption == MaxListeners \in Nat \ {0} /\ MaxVersions \in Nat \ {0}
ASSUME RunnablesAssumption ==
    /\ Len(Runnables) \in Nat /\ DOMAIN Runnables = 1..Len(Runnables)
    /\ Warm \subseteq RunnableSet

VARIABLES
    session,   \* leadership: "before", "leading", "ended" (its context is cancelled)
    provided,  \* the provider: which cluster of a name it has, 0 is none
    added,     \* how many clusters of a name there have been
    owner,     \* whose context the cluster of a name lives in
    token,     \* what is in the channel restart
    boot,      \* the bootstrap routine of a name ("none": a KubeconfigFile is set)
    caller,    \* a call of AddOrReplaceCluster
    walk,      \* the routines and their listeners, and the doEngage they are in
    live,      \* the listeners whose cancelCtx is not cancelled
    engaged    \* <<runnable, name, cluster>>: Engage has been called

vars == <<session, provided, added, owner, token, boot, caller, walk, live, engaged>>

\* leaderRunnable.Add
Routines ==
    {<<r, "start">> : r \in RunnableSet} \cup {<<r, "warmup">> : r \in Warm}

\* Goroutines: 0 is a routine's own, the others are its listeners.
Walkers == Routines \X (0..MaxListeners)

Versions == 1..MaxVersions

WalkStates ==
    [pc : {"idle", "read", "walk", "fn", "backoff", "select"},
     names : SUBSET Names,                \* the names it has yet to look up
     list : SUBSET (Names \X Versions)]   \* the clusters it has yet to engage

TypeOK ==
    /\ session \in {"before", "leading", "ended"}
    /\ provided \in [Names -> 0..MaxVersions]
    /\ added \in [Names -> 0..MaxVersions]
    /\ owner \in [Names -> {"static", "leader", "caller"}]
    /\ token \in BOOLEAN
    /\ boot \in [Names -> {"none", "idle", "fetch", "send", "wait", "backoff"}]
    /\ caller \in {"idle", "send"}
    /\ walk \in [Walkers -> WalkStates]
    /\ live \subseteq Walkers
    /\ engaged \subseteq RunnableSet \X Names \X Versions

Idle == [pc |-> "idle", names |-> {}, list |-> {}]

\* Peers with a KubeconfigFile are added before anything runs.
Init ==
    \E static \in SUBSET Names :
        /\ session = "before"
        /\ provided = [c \in Names |-> IF c \in static THEN 1 ELSE 0]
        /\ added = provided
        /\ owner = [c \in Names |-> "static"]
        /\ boot = [c \in Names |-> IF c \in static THEN "none" ELSE "idle"]
        /\ token = FALSE /\ caller = "idle"
        /\ walk = [w \in Walkers |-> Idle]
        /\ live = {} /\ engaged = {}

-----------------------------------------------------------------------------
(* Leadership: runLeaderRoutines, and the end of its context. *)

Begin ==
    /\ session = "before"
    /\ session' = "leading"
    /\ boot' = [c \in Names |-> IF boot[c] = "idle" THEN "fetch" ELSE boot[c]]
    /\ walk' = [w \in Walkers |-> IF w[2] = 0 THEN [Idle EXCEPT !.pc = "read"] ELSE Idle]
    /\ UNCHANGED <<provided, added, owner, token, caller, live, engaged>>

End ==
    /\ session = "leading"
    /\ session' = "ended"
    /\ live' = {}
    /\ UNCHANGED <<provided, added, owner, token, boot, caller, walk, engaged>>

-----------------------------------------------------------------------------
(* The provider (external). *)

AddOrReplace(c, who) ==
    /\ added[c] < MaxVersions
    /\ added' = [added EXCEPT ![c] = @ + 1]
    /\ provided' = [provided EXCEPT ![c] = added[c] + 1]
    /\ owner' = [owner EXCEPT ![c] = who]

\* The context of a cluster is cancelled: the caller's, or that of the leadership.
Removed(c) ==
    /\ provided[c] # 0
    /\ owner[c] = "caller" \/ (owner[c] = "leader" /\ session = "ended")
    /\ provided' = [provided EXCEPT ![c] = 0]
    /\ UNCHANGED <<session, added, owner, token, boot, caller, walk, live, engaged>>

-----------------------------------------------------------------------------
(* Who adds clusters. *)

\* The bootstrap routine of a peer.  A client, the Kubeconfig call, parsing, cluster.New
\* or adding the cluster fails, and LeaderManager calls the routine again.
BootFails(c) ==
    /\ boot[c] = "fetch"
    /\ boot' = [boot EXCEPT ![c] = IF session = "leading" THEN "backoff" ELSE "idle"]
    /\ UNCHANGED <<session, provided, added, owner, token, caller, walk, live, engaged>>

BootRetry(c) ==
    /\ boot[c] = "backoff"
    /\ \/ boot' = [boot EXCEPT ![c] = "fetch"]
       \/ session = "ended" /\ boot' = [boot EXCEPT ![c] = "idle"]
    /\ UNCHANGED <<session, provided, added, owner, token, caller, walk, live, engaged>>

\* Slip: the runnables are not told.
BootAddDefect(c) ==
    /\ boot[c] = "fetch"
    /\ AddOrReplace(c, "leader")
    /\ boot' = [boot EXCEPT ![c] = "wait"]
    /\ UNCHANGED <<session, token, caller, walk, live, engaged>>

BootAdd(c) ==
    /\ boot[c] = "fetch"
    /\ AddOrReplace(c, "leader")
    /\ boot' = [boot EXCEPT ![c] = "send"]
    /\ UNCHANGED <<session, token, caller, walk, live, engaged>>

\* select { case restart <- struct{}{}: default: }
BootSend(c) ==
    /\ boot[c] = "send"
    /\ token' = TRUE
    /\ boot' = [boot EXCEPT ![c] = "wait"]
    /\ UNCHANGED <<session, provided, added, owner, caller, walk, live, engaged>>

\* <-ctx.Done()
BootEnds(c) ==
    /\ boot[c] = "wait" /\ session = "ended"
    /\ boot' = [boot EXCEPT ![c] = "idle"]
    /\ UNCHANGED <<session, provided, added, owner, token, caller, walk, live, engaged>>

\* AddOrReplaceCluster, before, while or after this node leads.
CallerAdds(c) ==
    /\ caller = "idle"
    /\ AddOrReplace(c, "caller")
    /\ caller' = "send"
    /\ UNCHANGED <<session, token, boot, walk, live, engaged>>

CallerSends ==
    /\ caller = "send"
    /\ token' = TRUE
    /\ caller' = "idle"
    /\ UNCHANGED <<session, provided, added, owner, boot, walk, live, engaged>>

-----------------------------------------------------------------------------
(* doEngage *)

SetWalk(w, state) ==
    /\ walk' = [walk EXCEPT ![w] = state]
    /\ UNCHANGED <<session, provided, added, owner, boot, caller>>

\* getClusters, first the names
ReadNames(w) ==
    /\ walk[w].pc = "read"
    /\ SetWalk(w, [pc |-> "walk", names |-> {c \in Names : provided[c] # 0}, list |-> {}])
    /\ UNCHANGED <<token, live, engaged>>

\* Slip: the error of Get is ignored.
GetClusterDefect(w, c) ==
    /\ c \in walk[w].names
    /\ SetWalk(w, [walk[w] EXCEPT !.names = @ \ {c}, !.list = @ \cup {<<c, provided[c]>>}])
    /\ UNCHANGED <<token, live, engaged>>

\* and then each cluster, unless it is gone.
GetCluster(w, c) ==
    /\ c \in walk[w].names
    /\ SetWalk(w, [walk[w] EXCEPT
                     !.names = @ \ {c},
                     !.list = IF provided[c] = 0 THEN @ ELSE @ \cup {<<c, provided[c]>>}])
    /\ UNCHANGED <<token, live, engaged>>

\* Engage is called, in any order; its error is dropped.
CallEngage(w, cl) ==
    /\ walk[w].names = {} /\ cl \in walk[w].list
    /\ SetWalk(w, [walk[w] EXCEPT !.list = @ \ {cl}])
    /\ engaged' = engaged \cup {<<w[1][1], cl[1], cl[2]>>}
    /\ UNCHANGED <<token, live>>

Walked(w) == walk[w].pc = "walk" /\ walk[w].names = {} /\ walk[w].list = {}

-----------------------------------------------------------------------------
(* wrapStart *)

\* Slip: doEngage runs beside fn, which is called at once.
StartFnDefect(r, l) ==
    /\ walk[<<r, 0>>].pc = "walk" /\ walk[<<r, l>>].pc = "idle"
    /\ walk' = [walk EXCEPT ![<<r, 0>>] = [Idle EXCEPT !.pc = "fn"], ![<<r, l>>] = walk[<<r, 0>>]]
    /\ live' = IF session = "leading" THEN live \cup {<<r, l>>} ELSE live
    /\ UNCHANGED <<session, provided, added, owner, token, boot, caller, engaged>>

\* The listener is started, and fn called.
StartFn(r, l) ==
    /\ Walked(<<r, 0>>)
    /\ walk[<<r, l>>].pc = "idle"
    /\ walk' = [walk EXCEPT ![<<r, 0>>] = [Idle EXCEPT !.pc = "fn"],
                            ![<<r, l>>] = [Idle EXCEPT !.pc = "select"]]
    /\ live' = IF session = "leading" THEN live \cup {<<r, l>>} ELSE live
    /\ UNCHANGED <<session, provided, added, owner, token, boot, caller, engaged>>

\* fn returns, with or without an error, and cancels the listener.
FnReturns(r) ==
    /\ walk[<<r, 0>>].pc = "fn"
    /\ SetWalk(<<r, 0>>, [Idle EXCEPT !.pc = IF session = "leading" THEN "backoff" ELSE "idle"])
    /\ live' = {w \in live : w[1] # r}
    /\ UNCHANGED <<token, engaged>>

FnRetry(r) ==
    /\ walk[<<r, 0>>].pc = "backoff"
    /\ \/ SetWalk(<<r, 0>>, [Idle EXCEPT !.pc = "read"])
       \/ session = "ended" /\ SetWalk(<<r, 0>>, Idle)
    /\ UNCHANGED <<token, live, engaged>>

\* Any listener may take a token, one that is cancelled too, as select chooses freely.
TakeToken(w) ==
    /\ walk[w].pc = "select" /\ token
    /\ token' = FALSE
    /\ SetWalk(w, [Idle EXCEPT !.pc = "read"])
    /\ UNCHANGED <<live, engaged>>

\* Slip: a listener engages once.
ListenAgainDefect(w) ==
    /\ w[2] # 0 /\ Walked(w)
    /\ SetWalk(w, Idle)
    /\ UNCHANGED <<token, live, engaged>>

ListenAgain(w) ==
    /\ w[2] # 0 /\ Walked(w)
    /\ SetWalk(w, [Idle EXCEPT !.pc = "select"])
    /\ UNCHANGED <<token, live, engaged>>

\* Slip: the context is looked at when a token has come.
ListenerEndsDefect(w) ==
    /\ walk[w].pc = "select" /\ w \notin live /\ token
    /\ SetWalk(w, Idle)
    /\ UNCHANGED <<token, live, engaged>>

ListenerEnds(w) ==
    /\ walk[w].pc = "select" /\ w \notin live
    /\ SetWalk(w, Idle)
    /\ UNCHANGED <<token, live, engaged>>

-----------------------------------------------------------------------------
\* leaderRunnable.Engage, called by the library for a cluster of the provider: the
\* runnables up to the first that fails.
EngageAll(c) ==
    /\ provided[c] # 0
    /\ \E k \in DOMAIN Runnables :
          engaged' = engaged \cup {<<Runnables[i], c, provided[c]>> : i \in 1..k}
    /\ UNCHANGED <<session, provided, added, owner, token, boot, caller, walk, live>>

WalkStep(w) ==
    \/ ReadNames(w) \/ ListenAgain(w)
    \/ \E c \in Names : GetCluster(w, c)
    \/ \E cl \in Names \X Versions : CallEngage(w, cl)

Listeners == Routines \X (1..MaxListeners)

RoutineStep(r) == FnRetry(r) \/ \E l \in 1..MaxListeners : StartFn(r, l)

Next ==
    \/ Begin \/ End \/ CallerSends
    \/ \E c \in Names : \/ Removed(c) \/ CallerAdds(c) \/ EngageAll(c)
                        \/ BootAdd(c) \/ BootSend(c) \/ BootEnds(c)
                        \/ BootFails(c) \/ BootRetry(c)
    \/ \E r \in Routines : RoutineStep(r) \/ FnReturns(r)
    \/ \E w \in Walkers : WalkStep(w)
    \/ \E w \in Listeners : TakeToken(w) \/ ListenerEnds(w)

Spec == Init /\ [][Next]_vars

\* Goroutines are scheduled, calls of Engage return, and fn returns when its context is
\* cancelled.  Of two cases of a select neither is passed over for ever (SF).
Fairness ==
    /\ WF_vars(CallerSends \/ \E c \in Names : BootSend(c))
    /\ \A r \in Routines :
        WF_vars(WalkStep(<<r, 0>>) \/ RoutineStep(r) \/ (session = "ended" /\ FnReturns(r)))
    /\ \A w \in Listeners : WF_vars(WalkStep(w)) /\ SF_vars(ListenerEnds(w))
    /\ WF_vars(\E w \in Listeners : TakeToken(w))

FairSpec == Spec /\ Fairness

-----------------------------------------------------------------------------
(* Properties. *)

Engaged(c) == \E r \in RunnableSet : <<r, c, provided[c]>> \in engaged

\* Somebody is going to engage the cluster that the provider has under the name c.
OnItsWay(c) ==
    \/ token \/ caller = "send" \/ \E p \in Names : boot[p] = "send"
    \/ \E w \in Walkers : \/ walk[w].pc = "read"
                          \/ c \in walk[w].names
                          \/ <<c, provided[c]>> \in walk[w].list

\* No cluster falls between a listener that has read the provider and a token that was
\* not sent because there was one: unless no routine is past its start, a cluster has
\* been handed to some runnable or is on its way to one.
NoClusterForgotten ==
    \A c \in Names :
        \/ provided[c] = 0 \/ Engaged(c) \/ OnItsWay(c)
        \/ \A r \in Routines : walk[<<r, 0>>].pc \in {"idle", "backoff"}

\* A cluster that stays is handed to some runnable in the end, if this node leads on: the
\* token is taken although routines fail and are started again, and although the one who
\* takes it may be a listener whose routine has just failed.
ClusterIsEngaged ==
    \A c \in Names, v \in Versions :
        <>[](session = "leading" /\ provided[c] = v)
            => <>(\E r \in RunnableSet : <<r, c, v>> \in engaged)

\* Clusters of the configuration are known to every runnable before it runs ("engage any
\* static clusters", manager.go:110).
StaticAreEngaged ==
    \A r \in Routines, c \in Names :
        walk[<<r, 0>>].pc = "fn" /\ owner[c] = "static" /\ provided[c] # 0
            => <<r[1], c, provided[c]>> \in engaged

\* When leadership has ended, the routines and all that they started come to an end.
GoroutinesEnd == session = "ended" ~> \A w \in Walkers : walk[w] = Idle

=============================================================================
