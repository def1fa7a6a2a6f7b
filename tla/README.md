# A TLA+ verification project for `locking`

`locking` gives multi-cluster Kubernetes operators leader election, with three locks: a Lease in one
cluster, a Lease in each of several clusters, and raft between the operators. This directory has TLA+
modules that model the program, TLC runs that check them on small instances, and TLAPS proofs of the safety
properties for every value of the constants. `PROJECT.json` lists the components, the runs, the lines each
definition models, the findings, the hazards and the theorems.

    tlc -workers 2 -config MCRaftLoop.cfg MCRaftLoop     # model-check one run
    tlapm RaftLoopProofs.tla                             # check the proofs of one module

## The system

| part | state | operations | hard because |
|---|---|---|---|
| leader manager, `leader.go` | routines, `isLeader` flag | `RegisterRoutine`, the two leadership callbacks, a retry loop per routine | callbacks run in goroutines without an order; cancellation is cooperative |
| raft locker, `raft/locker.go` | loop locals `isLeader`, `initialized`, `leaderCtx`; raft library in memory | `Run`, `runRaft` | the library moves on while the loop is busy; two goroutines and a context to wind down |
| raft transport, `raft/transport.go` | `leader` and `isLeader` atomics, the node, peers | `Send`, `Check`, `Kubeconfig`, `DoSend`, `Run` | read by other goroutines while the loop writes; calls to peers without deadline; graceful stop |
| multi-cluster lock, `kube/multi.go`, `kube/single.go` | one `LeaseLock` (last lease seen) per cluster | `Get`, `Create`, `Update` | several requests per operation, interleaved with other nodes' and failing half-way |
| kube locker, `kube/locker.go` | `initialized` and `isLeader` flags shared by three callbacks | `Run`, the callbacks | two of the three callbacks are goroutines |
| multicluster manager, `multicluster/manager.go` | runnables, restart channel | `Add`, `Engage`, `wrapStart` | many listeners on a channel of capacity one |
| raft runtime manager, `multicluster/raft.go` | `currentLeader`, cluster provider | bootstrap routines, `AddOrReplaceCluster`, `GetLeader` | routines race re-engagement |
| bootstrapper, `multicluster/bootstrap/` | secrets in clusters, certificates | `BootstrapKubernetesClusters`, `Sign`, `Intermediate`, kubeconfigs | fails half-way; validity windows |

They interact by calls and callbacks. `LeaderManager.Run` calls `raft.Run` or `kube.Run`; those call
`OnStartedLeading` with a context and `OnStoppedLeading`. The raft loop publishes the leader to the transport
(which answers `Check`) and through `SetLeader` to the runtime manager. `kube.Run` hands the lock to the
leader elector of client-go, which calls back into both. The runtime manager registers its bootstrap routines
and the runnables of the operator as leader routines; the bootstrap routine of a peer asks the peer's
transport for a kubeconfig, which the peer makes with the bootstrapper's `CreateRemoteKubeconfig`. The elector,
the raft library, the cluster provider and the API servers are not part of the repository; they are modelled
from how it uses them and marked external in the map.

What makes the parts correct: leader routines have a live context only while their locker has them lead, and
never after it was told to stop; what the process tells others about leadership agrees with what its routines do; routines end when the lock is lost
and start when it is won; one node leads at a time; a lock left behind is taken over; health checks end and
say what is so; every cluster is handed to the runnables; a bootstrap that succeeds leaves clusters that trust
each other, and one that fails can be repeated; what an authority signs is valid only while the authority is.

## Modules

| module | models | state and actions |
|---|---|---|
| `LeaderManager` | `leader.go` | The flag, the registered routines, every `OnStartedLeading` call with its context (an *epoch*) and the retry loop of each routine in each epoch. One action per step of a goroutine, one per `select` case. |
| `LeaderSessions` | no code: the abstract contract of a lock implementation towards its program | Sessions begin, end, never overlap; none is alive once `Run` was told to stop. |
| `RaftLoop` | `raft/locker.go`, `Run` of `raft/transport.go` | Extends `LeaderManager`. The library's soft state as the environment; `Run`'s goroutines, error channel and select; `runRaft` as Receive, Observe, Publish, Transition, SendMessage, Advance, Shutdown. |
| `KubeElector` | `kube/locker.go` | Extends `LeaderManager`. The elector's `Run` up to its deferred calls, and the three callbacks with each atomic operation a step of its own. What a try finds in the lock is any holder. |
| `MultiLock` | `kube/multi.go`, `kube/single.go`, durations and `ReleaseOnCancel` of `kube/locker.go` | Several nodes, a lease per cluster, one action per request, discrete time. `N = 1` is the lock of one cluster. |
| `RaftCluster` | `raft/locker.go` and `raft/transport.go` seen from other nodes | Several nodes, each with a term, a vote and a leader of the library (external), the two atomics its loop publishes one after the other, and a process that stops, crashes and restarts with an empty memory. Votes and heartbeats arrive late, in any order or not at all. |
| `RaftCheck` | `Check` and the end of `Run` of `raft/transport.go` | Extends `RaftCluster`. One call of `Check` with its two loads, followed from node to node; `GracefulStop` waiting for its handlers. |
| `Engage` | `multicluster/manager.go`, the running part of `multicluster/raft.go` | The provider's clusters, the token in the restart channel, the bootstrap routines and callers that add clusters, and the goroutines of `wrapStart`: each routine, its listeners, and where in `doEngage` each of them is. |
| `Bootstrap` | `multicluster/bootstrap/bootstraper.go`, `kubeconfig.go`, `CreateTLSSecret` | The clusters' objects and the request a call is about to make, with the one that follows it. `CreateOrUpdate` is a Get and a Put, between which operators create the same objects. |
| `Certificates` | `multicluster/bootstrap/certificates.go` | The authorities a program has, generated, loaded or intermediate, the last certificate signed, and the clock. |
| `LeaderManagerProofs`, `RaftLoopProofs`, `KubeElectorProofs`, `MultiLockProofs`, `RaftCheckProofs`, `EngageProofs`, `BootstrapProofs`, `CertificatesProofs` | | The proofs. |
| `MC...` | | Constants and symmetry for TLC. |

Definitions whose names end in `Defect` are not part of the model. Each is a definition of the model with a
slip that a change of the code could make, and shows that a property notices it.

### Decisions of the models

* **Contexts.** All the code asks of a context is whether it is cancelled: `live` is the set of epochs whose
  context is not. A context derived from a cancelled one is born cancelled.
* **Raft.** The loop sees the library through `SoftState` and `Status()`, so those are all that is modelled,
  including that `Status()` is newer than the Ready it is read for (`Observe`). `SendMessage` is a message
  done with, one way or another; a hanging peer is that action not happening.
* **Leases.** Resource versions and raw records are not numbers. A node's copy of a lease is `current` until
  somebody writes the lease, and the same goes for each lease in the raw record its elector compares with the one
  before: a write always changes the record, as it changes the renew time.
  The server never runs out of versions and TLC's state space is finite without a bound on them.
* **Which leases are in a raw record.** After a mismatch `Get` marshals its record anew from the primary
  (`kube/multi.go:35`), and as the holder is `UnknownLeader` from then on, every later secondary is a mismatch
  too. What remains is the primary and the last secondary read (`Collected`); with one secondary nothing is lost.
  With more of them, some missing, two records may be equal in more ways than the model keeps apart, so
  `StartsEmpty` demands at most two clusters (`ParametersAreSound`).
* **Time in `MultiLock`.** A step of time is possible when nobody is over the limits the code sets: a request
  takes at most `Lag` (the client timeout, half of `RenewDeadline`), a leader retries on time, `RenewDeadline`
  is kept. Followers may be as late as they like. A record's age is measured by the node that observed it,
  as in the code: clocks are not compared. Two effects of one call are at most `Lag` apart, and so are the last
  effect and its answer. In the program a request may have its effect early and its answer late, and the next its
  effect late, so that the walk from the write of the primary to that of the last of N leases may take a timeout
  more than in the model, 7.5 (2N - 1) s: 22.5 s for two clusters, which is still less than a lease of 30 s, and
  37.5 s for three.
* **An `AlreadyExists` or a conflict** leaves the `LeaseLock` with what the client library returns next to
  the error; for `Create` that is an empty lease.
* **Elections in `RaftCluster`.** `votes` and `won` are histories: every vote ever cast and every election ever
  won. A request for a vote or a heartbeat may arrive as long as it is true of the history, which is any delay,
  loss, duplication and order that `DoSend` and its retries make. The log is left out: it holds the
  configuration and one empty entry a leader, and elections are freer without it.
* **`Check`** of the client is one call; of the handlers it leaves behind only the nodes are kept, as they
  return what they get. The leader's probes of its peers end at once and change nothing, so they are part of
  `Respond`.
* **`Engage`.** A cluster is a version of its name, so that one that was replaced is told from its successor. An
  `Engage` call counts when it is made, as the code drops its error. Routines are run as `LeaderManager` runs
  them, for one leadership (`OneLaunch` of `RaftLoopProofs`).
* **`Bootstrap`.** The number of an authority is that of the call that made it. The last call that the bound
  allows is the one that is left alone, so that what it does with everything before it can be asked.
* **`Certificates`** counts half seconds, as a certificate keeps whole ones and the checks before it do not. A
  time or a lifetime has no other structure. Between the checks of `Intermediate` and either end of its template
  the clock may move by up to `MaxDelay`. The code bounds that by nothing; the constant names the bound, and the
  property and the theorem that depend on it say so.
* **Effects after the client gave up** on a request are modelled as `AnswerLost`: the write of an `Update` or a
  `Create` happens and the node does not learn of it. After a `Create` the `LeaseLock` then has the empty lease
  that the client library returned with the error. A write that takes effect even later, after other requests of
  the same node, is not modelled.

## Runs

Passing:

| run | instance | shows |
|---|---|---|
| `raft_loop` | 1 routine, 2 launches, 2 waiting stops, 1 message a Ready, fair; 185 000 states | `LiveOnlyWhileObservedLeading`, `NoLiveContextAfterCancel`, `RoutinesAgreeWithPublished`, `OneLoopPerRoutine`, that the loop implements `LeaderSessions`, `LossEndsRoutines`, `LossClearsIsLeader`, `StableLeaderStarts`, `RunEnds` |
| `kube_elector` | 2 routines, 3 `OnNewLeader` goroutines, fair; 82 000 states | `LiveUntilCancel`, that the locker implements `LeaderSessions`, `HeldLockStarts`, `ReturnEndsRoutines` |
| `multi_lock` | 2 nodes, 2 clusters, leases present, stops and crashes; 570 000 states | `LeaderHoldsPrimary` (and so one leader at a time, as the primary lease names one), `SecondaryFollowsPrimary` |
| `multi_lock_live` | 2 nodes, 2 clusters, no lease at first, crashes, short durations, fair | `LockIsTakenOver` |
| `single_lock_errors` | 2 nodes, 1 cluster, stops, crashes, errors and lost answers; 610 000 states | `NoTakeFromLeader` |
| `raft_check` | 2 nodes, 2 terms, 1 restart, fair; 540 000 states | `OneLeaderPerTerm`, `MutualForwardingIsLag`, `AnswersComeFromLeaders`, and that calls of `Check` (`CheckEnds`) and servers that stop (`StopEnds`) come to an end |
| `engage` | 1 name, 1 runnable, 2 listeners at once, 2 clusters of the name, fair; 70 000 states | `NoClusterForgotten`, `StaticAreEngaged`, `ClusterIsEngaged`, `GoroutinesEnd` |
| `bootstrap` | 3 clusters, 3 calls, fair; 88 000 states | `SuccessIsComplete`, `SecretsAreTheirs`, `CollectsBeforeItWrites`, `NewestFirst`, `UndisturbedSucceeds` |
| `certificates` | 3 authorities, 9 s in half seconds, an hour of 1 s, a year of 2 s and a delay of 1 s; 2.9 million states | `IssuedWithinIssuer`, `NeverTooYoungToSign` |

Violated, each with a finding in `PROJECT.json`:

| run | shows |
|---|---|
| `raft_loop_regain` | `isLeader` of the raft loop is never reset. A node that loses leadership and wins it back publishes itself as leader and never runs its routines again. |
| `multi_lock_first_start` | `Create` takes `AlreadyExists` for success. Two nodes that start before any lease exists both lead. |
| `multi_lock_three` | Three clusters, the default durations, no fault at all. A Get does not tell the writes of the middle secondary, and the four requests that follow the write of the primary may take 7.5 s each, 30 s together. Another node finds the record expired, takes the primary and walks on; the slow one settles as well, as nothing it still has to write is refused. |

More that the models showed, and that no document of the repository speaks about:

* A `Get` that fails on a secondary has refreshed the primary's resource version (`kube/multi.go:18` and `:30`),
  while the elector's record is the old one that names the node itself. The next optimistic `Update` overwrites
  another node's acquisition, and both lead: `LeaderHoldsPrimary` fails when requests may fail.
* A node that releases a multi-lock walks on to secondaries its successor has taken, and the successor leads
  without them.
* A restarted raft node has forgotten its vote (`raft/locker.go:155`). With three nodes, n1 votes for n2, which
  wins; n1 restarts, gets the request of n3 for the same term, which `DoSend` has tried again every second, and
  votes for n3: two nodes lead in one term until one of them hears of the other. With two nodes this cannot
  happen, and `OneLeaderPerTerm` is proved for the time before the first restart.
* After a restart two nodes may take each other for the leader for as long as neither hears from the other, and
  a `Check` without a deadline goes round between them. Before it, they can do so only until their loops have
  caught up (`MutualForwardingIsLag`, `CheckEnds`); the run reaches such states.
* One token wakes one listener, so a new cluster is engaged by one runnable of several, and by the others only
  when another cluster comes or their routine is started again. `ClusterIsEngaged` says *some* runnable.
* With two listeners a replaced cluster may be engaged after its successor. `Engage` is called with
  `context.Background()`, its error is dropped (`manager.go:111`), and a listener may engage clusters after its
  context was cancelled, as `select` picks among ready cases.
* A `Warmup` that returns is called again every ten seconds (`leader.go:79`), and engages all clusters again.
* A bootstrap that fails half-way leaves clusters that trust different authorities; `NewestFirst` says which.
  `CreateOrUpdate` ends with AlreadyExists when an operator creates the account or the token between its Get and
  its Create, and is not tried again.
* An intermediate authority lasts one year (`certificates.go:155`), whatever is configured and although
  `defaultIntermediateCAExpiration` is five. With a configured lifetime of just a year, or less, it may outlive its
  issuer, although `certificates.go:136` refuses "CA expires before certificate expiration time" (the check
  is of the configured lifetime); and with the default one it can hardly sign a certificate of the default
  lifetime, as that has to end with it: `NeverTooYoungToSign` is about the first of the two checks only. An
  intermediate can be made from an intermediate, which `MaxPathLen` of the root then makes useless.
* A bootstrap that fails in its first loop has written no kubeconfig and no certificate
  (`CollectsBeforeItWrites`). One that fails in the second has, in the clusters before the failure; and a call
  without kubeconfigs contacts no cluster in the first loop, so that an unreachable one is found in the second.
* Resetting `isLeader` where the raft loop became a follower is the obvious repair of `raft_loop_regain`, and
  not enough: with it a routine of the last leadership may overlap with one of the next, and a late
  `OnStartedLeading` may leave `IsLeader()` true (`BecomeFollowerResetsDefect` breaks `OneLoopPerRoutine` and
  `LossClearsIsLeader`, which hold today because there is one launch in a `Run`).
* In the kube locker `IsLeader()` may be false for as long as the node holds the lock and its routines run.
  `OnNewLeader` fires for the node itself; as the first callback of all it calls `OnStoppedLeading` of the
  manager without a look at the locker's `isLeader`, and that `Store(false)` may come after the `Store(true)` of
  `OnStartedLeading`. As a later callback it takes `isLeader` back and has the same effect.
* In the kube locker `IsLeader()` may stay true after `Run` returned, when `OnNewLeader` of the node's own
  acquisition has taken the flag back before the manager's `Store(true)`: `OnStoppedLeading` then finds
  nothing to do.
* The default durations are tight. A lease is written, its answer takes 7.5 s, the next retry comes 5 s later,
  and the leader gives up 15 s after that: 27.5 s of 30. `NoTakeFromLeader` fails with a `LeaseDuration` of
  27.5 s. For two clusters a client timeout of 10 s would be too long even without any failure, and for three that
  of the defaults is.
* When renewal fails, the lock is released before the context of the routines is cancelled (`release` before
  `cancel` in `KubeElector`), so a successor may start while the routines still have a live context.
  `LiveUntilCancel` admits these states and no others after a release: a node that is told to stop has ended its
  routines before it releases.
* With failing requests, a `release` of client-go may overwrite the lease of a successor, in one cluster too.
  That is why `single_lock_errors` is about taking over only.
* An empty `ID` is replaced by a host name in a shadowed variable (`kube/locker.go:87`); the elector then
  refuses the empty identity.

### Bounds

* `MaxLaunches` = 2 in `RaftLoop` allows one more launch than a `Run` makes (`OneLaunch`, proved), so that a
  model with two launches, as the slips have it, is visible. In `KubeElector` one is all there can be.
* `MaxStops` = 2 and `MaxMsgs` = 1: a stop goroutine only clears a flag, so a third one waiting is like the
  second; a second message is like the first. The proofs are for all values.
* Routines share nothing but the registry, so `raft_loop` has one; its safety properties are proved for any set.
* `RaftCheck` has two nodes, the fewest that can forward to each other, two terms, so that a leader is replaced,
  and one restart. The proofs are for any number of each; a run with three nodes is where two leaders of a term
  were found.
* `Engage` has one name with two clusters, so that one is replaced while it is read, and one runnable with two
  listeners, so that the listener of a failed routine competes with that of the next try. Two runnables
  (2.3 million states) and a runnable with a `Warmup` (510 000 states) pass as well.
* `Bootstrap` has three clusters (first, middle and last of the order) and three calls, two of which may fail.
* In `Certificates` hours and years are as short as their order allows, with configurations around them.
* `MultiLock` has two nodes: every property is about one node and another. Durations are in units of 2.5 s,
  in which the defaults and the client timeout are whole numbers (`RetryPeriod` 2, `Lag` 3, `RenewDeadline` 6,
  `LeaseDuration` 12). `multi_lock_live` has the smallest durations in the same order; it is about locks left
  half-written and not about margins. These runs have two clusters, that is one secondary, the case in which
  `Collected` loses nothing; `multi_lock_three` has the fewest clusters in which it does, with every fault left out.
  With requests so fast that a lease outlasts the walk (`Lag` 1, `RenewDeadline` 2, `LeaseDuration` 5) three clusters
  with stops and crashes keep `AtMostOneLeader` (670 000 states), and with a `LeaseDuration` of 4 they do not.
* Restarts are unbounded, and so are tries and renewals.

`MultiLock` is checked for deadlock. The others may stop: `Run` ends, processes may stay down, nobody has to add
clusters or to bootstrap again, and bounded time runs out.

### Fairness

Go schedules every goroutine, so every step of a goroutine that does not wait for anybody is weakly fair.
`Shutdown` of the raft loop is strongly fair, as `select` picks among ready cases at random and a Ready may
be there again and again. `SendMessage` and `ServerStops` are fair, that is, a peer answers or fails and
`GracefulStop` ends; the code has no timeout there, and this is the one assumption it does not justify by
itself (see the hazards). A routine is assumed to return once its context is cancelled, and nothing is assumed
of it before. In `MultiLock` a process that is up goes on, time passes, and a dead process is restarted.
In `RaftCheck` handlers, loops and servers are scheduled, and in `Engage` so are routines, listeners and those
who are about to send a token; a listener whose context is cancelled is strongly fair, as `select` does not pass
over a ready case for ever. In `Bootstrap` a call goes on and the token controller of Kubernetes works.
Nothing is assumed of elections, cancellations, failures, crashes or errors.

## Proofs

`RaftLoopProofs` proves, for every set of routines and all bounds: `TypeCorrect`, `LiveOnlyWhileLeading`,
`CancelIsFinal`, `RoutinesAgree`, `NoOverlap` and `Implementation` (the loop implements `LeaderSessions`).
None of the properties is inductive. The invariant `IInv` adds that `isLeader` is set once and so counts the
launches (`OneLaunch`), that contexts, goroutines and loops exist only for launched epochs (`EpochsInUse`),
that `Run` leaves its select only when cancelled (`CancelledFirst`), and that what was published is what was
last observed (`PublishedIsObserved`). `NoOverlap` follows from the first two: one launch, one epoch, one
loop per routine.

`KubeElectorProofs` proves `TypeCorrect`, `LiveNoLonger` and `Implementation` for the kube locker. Its `IInv`
ties the goroutine of `OnStartedLeading` to the leader context (`CallsFollowTheElector`), the manager's idea
of a live context to that context (`ManagersContextIsTheLeaders`), and gives each flag one
`OnStoppedLeading` goroutine to pay for (`TwoStopsAtMost`). `LeaderManagerProofs` has the lemmas about the
manager that both use.

`RaftCheckProofs` proves, for any finite set of nodes and any number of terms and restarts, `TypeCorrect`,
`OneLeader`, `ForwardingIsLag` and `AnswersFromLeaders`. Two majorities meet, and the node in which they meet has
voted once in a term: `VotesAreRemembered` says that, before a restart, a vote cast in a node's current term is
the one it remembers. `WonByMajority`, `WonIsPast` and `LeadersHaveWon` tie what nodes believe to the history,
and `PublishedIsSeen` what they publish to what they believe. Two nodes at rest that publish each other would
both have won the same term, or each a later one than the other.

`EngageProofs` proves `TypeCorrect`, `NoneForgotten` and `StaticFirst` for any names, runnables and numbers of
listeners. The invariant adds that a goroutine outside `doEngage` has nothing left to engage (`NothingLeft`), and
follows each static cluster through a walk (`StaticOnTheirWay`).

`CertificatesProofs` proves `TypeCorrect`, `ValidityNests` and `NeverTooYoung` for all configurations and all
lengths of hours and years in whole seconds. That they are whole is what makes a comparison before rounding good
after it. `ValidityNests` is unconditional for what `Sign` makes and for the beginning of intermediates. For their
end it has the hypothesis, written into `IssuedWithinIssuer`, that the configured lifetime of intermediates is at
least `Year + MaxDelay`; without it the code gives no such bound.

`BootstrapProofs` proves `TypeCorrect`, `SuccessComplete`, `SecretsTheirs`, `AuthoritiesNewestFirst` and
`CollectedFirst` for any number of clusters and calls. The invariant says how far the call has come: as many
kubeconfigs and certificates as clusters passed in the first loop, each in its place; in the second, the clusters
before the current one have all their secrets, of this call; the authority of a call is newer than all others.

`MultiLockProofs` proves `TypeCorrect` for all constants, and two sets of theorems.

* *Several clusters, requests that do not fail* (`Reliable`: leases exist, no errors; crashes, restarts and
  cancellations happen): `PrimaryIsHeld`, `OneLeader`, `SecondariesFollow`, `NothingIsTaken`, for any nodes and
  as many clusters as the durations allow (`LeaseOutlastsWalk`, below). A node *holds* the primary from its write to the first request of its release. A write
  succeeds only with a current copy, so what a node concluded from reading the primary (`ClaimIsFree`,
  `OwnRecordIsTrue`, `RecordIsTrue`, `ReadIsTrue`) has to be true only while the copy or the record is current, and
  whoever begins to hold the primary makes all others' copies stale. A node may also conclude from the age of the
  record that it has expired; `Seen` bounds that age by where the holder is in its call, for a record in which the
  primary and the last secondary are unchanged (`Visible`): no other lease is sure to be in it. `Quiet` is that bound,
  in which `Walked` counts the time of the secondaries behind the holder. A Get that finds the record unchanged
  has read the leases one after the other, so `ReadIsTrue` carries along, until the last lease is read, that it
  differs from the observed record.
* *One cluster, everything may fail* (errors, lost answers, no lease at first): `SingleLockIsNotTaken`. `Honest`
  says that a current copy or record of a working elector names whom the lease names, `Watched` that the record of
  a leader, or of one about to lead, is not older than its time since the last write allows.

Both need `LeaseOutlastsRenewal`: `Lag + RetryPeriod + RenewDeadline < LeaseDuration`, with the defaults
7.5 + 5 + 15 < 30 s. The first needs `LeaseOutlastsWalk` besides: a request takes at most half of `RenewDeadline`, which
is the timeout `kube/single.go:21` sets, and a lease outlasts two requests for every secondary,
`(N - 1) * (2 * Lag) < LeaseDuration`. With the defaults that is 15 < 30 s for two clusters, and for three it
is false, 30 < 30 s: there the theorems say nothing, and `multi_lock_three` shows two leaders. For more than two
clusters they are about installations whose requests are answered faster than the client timeout demands, or with
a longer `LeaseDuration`. Both hypotheses hold in the passing runs. They are hypotheses of the theorems and not
assumptions of the module, as a `LockConfiguration` may have other durations. Without the first,
`NoTakeFromLeader` fails (see above). Both invariants, `IInv` and `SingleInv`, hold in the instances of `multi_lock`
and `single_lock_errors`.

The assumptions are that the bounds are natural numbers (`BoundsAreNat`, `MaxMsgsIsNat`, `ClusterBoundsAreNat`,
`EngageAssumption`, `CertificateBoundsAreNat`, `BootstrapAssumption`) and leave room for one Run (`RoomForOneRun`); that nodes are
finitely many and `raft.None` is none of them; that runnables are a list that has those with a `Warmup`
(`RunnablesAssumption`); that a year is longer than an hour (`CalendarAssumption`); that durations are positive and
in the order client-go demands, and that leases are missing at first for two clusters at most
(`ParametersAreSound`); and that no identity is the empty one of a released lease or
client-go's name for an unknown leader (`IdentitiesAreNames`).

Every invariant and every safety action property of the passing runs is stated by a theorem. Only model-checked:
liveness under fairness, which TLAPS does not do (`LossEndsRoutines`, `LossClearsIsLeader`, `StableLeaderStarts`,
`RunEnds`, `HeldLockStarts`, `ReturnEndsRoutines`, `LockIsTakenOver`, `CheckEnds`, `StopEnds`, `ClusterIsEngaged`,
`GoroutinesEnd`, `UndisturbedSucceeds`).

## Plan

1. An abstract lock with one leader at a time that `MultiLock` is shown to implement, with the theorems above as
   its step simulation.
2. `MultiLock` with two secondaries of which some are missing, for which the raw record has to keep apart what
   `Collected` does not, and a property about the ones `Update` leaves out after it has created a missing one
   (`kube/multi.go:71`).

## Not modelled

Generated protobuf code, the test clusters and the acceptance operator, charts, TLS configuration, flags and
logging: they keep no state of the locks. Of the raft library the log and its compaction; of `Check` the names of
unhealthy nodes. The outcome of `Engage` calls, which the code ignores.
