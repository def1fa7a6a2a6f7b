------------------------------ MODULE MultiLock ------------------------------
(***************************************************************************)
(* kube/multi.go: a lock made of one Lease in each of several clusters.    *)
(* The first cluster's lease is the primary, the others are secondaries.   *)
(* Get, Create and Update of the lock walk over the leases one request at  *)
(* a time, and requests of different nodes interleave.                     *)
(*                                                                         *)
(* The lock is driven by the leader elector of client-go (external), whose *)
(* rules decide what the walk is for: it reads the lock, takes it when the *)
(* record names nobody or has not changed for LeaseDuration, renews it     *)
(* every RetryPeriod, gives up when no renewal succeeded for RenewDeadline *)
(* and then releases it.  Each node has its own clock: what it measures is *)
(* the time since it saw the record change.                                *)
(*                                                                         *)
(* Resource versions are not numbers here.  A node's LeaseLock remembers   *)
(* the lease it read or wrote last; all that matters is whether the lease  *)
(* has been written since, and the same goes for the raw record that the   *)
(* elector compares with the one it observed before.                       *)
(***************************************************************************)
EXTENDS Naturals, FiniteSets

CONSTANTS
    Nodes,          \* the identities that compete for the lock
    N,              \* number of clusters
    Lag,            \* most time between two steps of a node in the middle of a call
    RetryPeriod, RenewDeadline, LeaseDuration,   \* of the LockConfiguration
    StartsEmpty,    \* TRUE: no lease exists yet; FALSE: all exist, released
    Faults          \* which of "error", "cancel", "crash" happen

ASSUME ParametersAreSound ==
    /\ N \in Nat \ {0}
    /\ {Lag, RetryPeriod, RenewDeadline, LeaseDuration} \subseteq Nat \ {0}
    /\ RetryPeriod < RenewDeadline /\ RenewDeadline < LeaseDuration
    /\ StartsEmpty \in BOOLEAN
    /\ StartsEmpty => N <= 2   \* see Collected
    /\ Faults \subseteq {"error", "cancel", "crash"}

\* An identity is neither the empty name of a released lease nor UnknownLeader.
ASSUME IdentitiesAreNames ==
    Nodes \cap {"nobody", "absent", "unknown", "unknownReleased"} = {}

VARIABLES
    lease,    \* per cluster: who the Lease in the API server names
    node,     \* per node: the elector and the call it is in the middle of
    copy,     \* per node and lease: LeaseLock.lease against the server's
    obsRaw,   \* per node and lease: the observed raw record against the server's
    newRaw    \* the same of the raw record that a Get in progress is collecting

vars == <<lease, node, copy, obsRaw, newRaw>>

Locks == 1..N

Holders == Nodes \cup {"nobody"}

\* resourcelock.UnknownLeader.  The record is otherwise the primary's, and that of a
\* released primary runs out after a second.
Unknowns == {"unknown", "unknownReleased"}

\* Slip: leases that do not agree are given the name of nobody.
MismatchDefect(primary) == "nobody"

Mismatch(primary) == IF primary \in {"nobody", "unknownReleased"}
                     THEN "unknownReleased" ELSE "unknown"

Fresh == [phase |-> "acquire", op |-> "idle", at |-> 1, seen |-> "nobody", same |-> {},
          fast |-> FALSE, expired |-> FALSE, observed |-> "nobody", age |-> 0, lag |-> 0,
          wait |-> 0, left |-> 0]

Stopped == [Fresh EXCEPT !.phase = "stopped"]

Uniform(v) == [n \in Nodes |-> [l \in Locks |-> v]]

Init ==
    /\ lease = [l \in Locks |-> IF StartsEmpty THEN "absent" ELSE "nobody"]
    /\ node = [n \in Nodes |-> Fresh]
    /\ copy = Uniform("none")
    /\ obsRaw = Uniform("missing")
    /\ newRaw = Uniform("missing")

Leads(n) == node[n].phase = "renew"

TypeOK ==
    /\ lease \in [Locks -> Holders \cup {"absent"}]
    /\ node \in [Nodes -> [phase : {"acquire", "renew", "release", "stopped"},
                           op : {"idle", "get", "create", "update", "check", "recreate", "settle"},
                           at : Locks, seen : Holders \cup Unknowns, same : SUBSET Locks,
                           fast : BOOLEAN, expired : BOOLEAN, observed : Holders \cup Unknowns,
                           age : 0..LeaseDuration, lag : 0..Lag, wait : 0..RetryPeriod,
                           left : 0..(RetryPeriod + RenewDeadline)]]
    /\ copy \in [Nodes -> [Locks -> {"none", "current", "stale"}]]
    /\ obsRaw \in [Nodes -> [Locks -> {"missing", "current", "old"}]]
    /\ newRaw \in [Nodes -> [Locks -> {"missing", "current", "old"}]]

-----------------------------------------------------------------------------
(* Parts of the actions. *)

\* Node n goes on with request op to cluster l.
Go(s, op, l) == [s EXCEPT !.op = op, !.at = l, !.lag = 0]

\* The call is over and the elector sleeps until its next try.
Sleep(s) == [s EXCEPT !.op = "idle", !.at = 1, !.lag = 0, !.seen = "nobody", !.same = {},
                      !.fast = FALSE, !.expired = FALSE, !.wait = RetryPeriod]

\* An error of the call: the optimistic update falls back to the slow path, a release
\* ends Run, everything else is tried again later.
Failed(s) ==
    IF s.phase = "release" THEN Stopped
    ELSE IF s.fast THEN [Go(s, "get", 1) EXCEPT !.fast = FALSE]
    ELSE Sleep(s)

\* What a node writes: itself, or nobody when it releases.
Value(n) == IF node[n].phase = "release" THEN "nobody" ELSE n

\* Lease l now names v.  What n's LeaseLock has of it depends on the answer.
Write(n, l, v, kept) ==
    /\ lease' = [lease EXCEPT ![l] = v]
    /\ copy' = [m \in Nodes |->
        [copy[m] EXCEPT ![l] = IF m = n THEN kept
                               ELSE IF @ = "current" THEN "stale" ELSE @]]
    /\ obsRaw' = [m \in Nodes |-> [obsRaw[m] EXCEPT ![l] = IF @ = "current" THEN "old" ELSE @]]
    /\ newRaw' = [m \in Nodes |-> [newRaw[m] EXCEPT ![l] = IF @ = "current" THEN "old" ELSE @]]

NoMatch(n) == newRaw' = [newRaw EXCEPT ![n] = [l \in Locks |-> "missing"]]

-----------------------------------------------------------------------------
(* tryAcquireOrRenew, up to the first request. *)

Dur(observed) == IF observed \in {"nobody", "unknownReleased"} THEN 1 ELSE LeaseDuration

\* The fast path of a leader is an optimistic Update, everything else begins with a Get.
Try(n) ==
    LET s == node[n]
        expired == s.age >= Dur(s.observed)
        fast == s.observed = n /\ ~expired
    IN  /\ s.phase \in {"acquire", "renew"} /\ s.op = "idle" /\ s.wait = 0
        /\ node' = [node EXCEPT ![n] =
               [Go(s, IF fast THEN "update" ELSE "get", 1) EXCEPT !.fast = fast,
                                                                  !.expired = expired]]
        /\ UNCHANGED <<lease, copy, obsRaw, newRaw>>

-----------------------------------------------------------------------------
(* multiLock.Get *)

\* The raw record when lease l has been read.  After a mismatch it is marshalled anew
\* from the primary, without the secondaries read before.  As the name is UnknownLeader
\* from then on, every later secondary is a mismatch too: what remains is the primary and
\* the last secondary read.  (Which leases are in the record, and what they say, tells
\* whether the primary's part has that name.  When secondaries are missing, the last one
\* read is not always the same, and the parts of two secondaries may be equal: hence the
\* assumption that there is one.)
Collected(raw, l, mismatch) ==
    [k \in Locks |-> CASE k = l -> "current"
                       [] mismatch /\ k \notin {1, l} -> "missing"
                       [] OTHER -> raw[k]]

\* Get succeeded with this holder, raw being the record, of which the leases in same were
\* read as they are in the observed record.  A release looks at nothing
\* but the record it remembers; a try compares the raw record with the observed one and
\* goes on to Update unless the record names another node and is not expired.
GetDone(n, holder, same, raw) ==
    LET s == node[n]
        identical == \A l \in Locks : IF raw[l] = "missing" THEN obsRaw[n][l] = "missing"
                                      ELSE l \in same
        observed == IF identical THEN s.observed ELSE holder
        held == /\ observed \notin {"nobody", n}
                /\ ~(identical /\ s.expired)
        t == [s EXCEPT !.observed = observed, !.age = IF identical THEN @ ELSE 0,
                       !.seen = "nobody", !.same = {}]
    IN  /\ NoMatch(n)
        /\ IF s.phase = "release"
           THEN /\ node' = [node EXCEPT ![n] = IF s.observed = n THEN Go(s, "update", 1)
                                               ELSE Stopped]
                /\ UNCHANGED obsRaw
           ELSE /\ node' = [node EXCEPT ![n] = IF held THEN Sleep(t) ELSE Go(t, "update", 1)]
                /\ obsRaw' = IF identical THEN obsRaw ELSE [obsRaw EXCEPT ![n] = raw]

\* Slip: the raw record has something in it that is new on every read.
ReadLeaseDefect(n) ==
    LET s == node[n]
        l == s.at
        mismatch == l > 1 /\ s.seen # lease[l]
        holder == IF mismatch THEN Mismatch(s.seen) ELSE lease[l]
        raw == Collected(newRaw[n], l, mismatch)
    IN  /\ s.op = "get"
        /\ lease[l] # "absent"
        /\ copy' = [copy EXCEPT ![n][l] = "current"]
        /\ IF l = N
           THEN GetDone(n, holder, {}, raw)
           ELSE /\ node' = [node EXCEPT ![n] = [Go(s, "get", l + 1) EXCEPT !.seen = holder]]
                /\ newRaw' = [newRaw EXCEPT ![n] = raw]
                /\ UNCHANGED obsRaw
        /\ UNCHANGED lease

\* One lease is read.
ReadLease(n) ==
    LET s == node[n]
        l == s.at
        mismatch == l > 1 /\ s.seen # lease[l]
        holder == IF mismatch THEN Mismatch(s.seen) ELSE lease[l]
        raw == Collected(newRaw[n], l, mismatch)
        same == {k \in 1..l : IF k = l THEN obsRaw[n][k] = "current" ELSE k \in s.same}
    IN  /\ s.op = "get"
        /\ lease[l] # "absent"
        /\ copy' = [copy EXCEPT ![n][l] = "current"]
        /\ IF l = N
           THEN GetDone(n, holder, same, raw)
           ELSE /\ node' = [node EXCEPT ![n] =
                       [Go(s, "get", l + 1) EXCEPT !.seen = holder, !.same = same]]
                /\ newRaw' = [newRaw EXCEPT ![n] = raw]
                /\ UNCHANGED obsRaw
        /\ UNCHANGED lease

\* A secondary does not exist and the primary names somebody else: "Lock is held by old
\* client", the secondaries after it are not read.
ReadMissingOfOther(n) ==
    LET s == node[n]
    IN  /\ s.op = "get" /\ s.at > 1
        /\ lease[s.at] = "absent"
        /\ s.seen # n
        /\ GetDone(n, s.seen, s.same, newRaw[n])
        /\ UNCHANGED <<lease, copy>>

\* NotFound: the elector creates the lock.
ReadMissing(n) ==
    LET s == node[n]
    IN  /\ s.op = "get"
        /\ lease[s.at] = "absent"
        /\ s.at = 1 \/ s.seen = n
        /\ node' = [node EXCEPT ![n] =
               IF s.phase = "release" THEN Stopped
               ELSE [Go(s, "create", 1) EXCEPT !.seen = "nobody", !.same = {}]]
        /\ NoMatch(n)
        /\ UNCHANGED <<lease, copy, obsRaw>>

-----------------------------------------------------------------------------
(* multiLock.Create *)

NextCreate(n) ==
    LET s == node[n]
    IN  node' = [node EXCEPT ![n] = IF s.at = N THEN Go(s, "settle", 1)
                                    ELSE Go(s, "create", s.at + 1)]

CreateLease(n) ==
    /\ node[n].op = "create"
    /\ lease[node[n].at] = "absent"
    /\ Write(n, node[n].at, n, "current")
    /\ NextCreate(n)

\* AlreadyExists is not an error here.  What the client library hands back with the
\* error is an empty Lease, and the LeaseLock keeps that.  (With one cluster there is
\* no multiLock, and the error of the only lease is the elector's.)
CreateExisting(n) ==
    /\ node[n].op = "create"
    /\ lease[node[n].at] # "absent"
    /\ copy' = [copy EXCEPT ![n][node[n].at] = "none"]
    /\ IF N = 1 THEN node' = [node EXCEPT ![n] = Failed(node[n])] ELSE NextCreate(n)
    /\ UNCHANGED <<lease, obsRaw, newRaw>>

-----------------------------------------------------------------------------
(* multiLock.Update *)

\* Slip: the walk over the secondaries is one too long.
UpdateLeaseDefect(n) ==
    LET s == node[n]
    IN  /\ s.op = "update"
        /\ copy[n][s.at] = "current"
        /\ Write(n, s.at, Value(n), "current")
        /\ node' = [node EXCEPT ![n] = IF s.at > N THEN Go(s, "settle", 1)
                                       ELSE Go(s, "check", s.at + 1)]

\* The request carries the resource version of the copy.
UpdateLease(n) ==
    LET s == node[n]
    IN  /\ s.op = "update"
        /\ copy[n][s.at] = "current"
        /\ Write(n, s.at, Value(n), "current")
        /\ node' = [node EXCEPT ![n] = IF s.at = N THEN Go(s, "settle", 1)
                                       ELSE Go(s, "check", s.at + 1)]

\* Slip: a conflict is no error, as AlreadyExists is none in Create.
UpdateRefusedDefect(n) ==
    LET s == node[n]
    IN  /\ s.op = "update"
        /\ copy[n][s.at] # "current"
        /\ node' = [node EXCEPT ![n] = IF s.at = N THEN Go(s, "settle", 1)
                                       ELSE Go(s, "check", s.at + 1)]
        /\ UNCHANGED <<lease, copy, obsRaw, newRaw>>

\* A conflict, or a LeaseLock that has no lease to update.
UpdateRefused(n) ==
    /\ node[n].op = "update"
    /\ copy[n][node[n].at] # "current"
    /\ node' = [node EXCEPT ![n] = Failed(node[n])]
    /\ UNCHANGED <<lease, copy, obsRaw, newRaw>>

\* A secondary is read before it is updated.
CheckLease(n) ==
    LET s == node[n]
    IN  /\ s.op = "check"
        /\ IF lease[s.at] = "absent"
           THEN node' = [node EXCEPT ![n] = Go(s, "recreate", s.at)] /\ UNCHANGED copy
           ELSE /\ node' = [node EXCEPT ![n] = Go(s, "update", s.at)]
                /\ copy' = [copy EXCEPT ![n][s.at] = "current"]
        /\ UNCHANGED <<lease, obsRaw, newRaw>>

\* A secondary that is missing is created, and Update returns: the secondaries after it
\* are not visited.  AlreadyExists is an error here.
RecreateLease(n) ==
    LET s == node[n]
    IN  /\ s.op = "recreate"
        /\ IF lease[s.at] = "absent"
           THEN /\ Write(n, s.at, Value(n), "current")
                /\ node' = [node EXCEPT ![n] = Go(s, "settle", 1)]
           ELSE /\ copy' = [copy EXCEPT ![n][s.at] = "none"]
                /\ node' = [node EXCEPT ![n] = Failed(s)]
                /\ UNCHANGED <<lease, obsRaw, newRaw>>

-----------------------------------------------------------------------------
(* The elector. *)

\* Create or Update succeeded.  The elector leads, goes on leading, or has released.
Settle(n) ==
    LET s == node[n]
        t == [Sleep(s) EXCEPT !.observed = n, !.age = 0]
    IN  /\ s.op = "settle"
        /\ node' = [node EXCEPT ![n] =
               CASE s.phase = "acquire" -> [t EXCEPT !.phase = "renew", !.wait = 0,
                                                     !.left = RenewDeadline]
                 [] s.phase = "renew"   -> [t EXCEPT !.left = RetryPeriod + RenewDeadline]
                 [] OTHER               -> Stopped]
        /\ UNCHANGED <<lease, copy, obsRaw, newRaw>>

\* A release begins with a Get; how old the observed record is plays no part any more.
Release(s) == [Go(Sleep(s), "get", 1) EXCEPT !.phase = "release", !.age = 0, !.left = 0]

\* No renewal succeeded for RenewDeadline.
GiveUp(n) ==
    LET s == node[n]
    IN  /\ s.phase = "renew" /\ s.left = 0
        /\ node' = [node EXCEPT ![n] = Release(s)]
        /\ NoMatch(n)
        /\ UNCHANGED <<lease, copy, obsRaw>>

\* The context of Run is cancelled.  A leader releases the lock, a follower returns.
Cancel(n) ==
    LET s == node[n]
    IN  /\ "cancel" \in Faults
        /\ s.phase \in {"acquire", "renew"}
        /\ node' = [node EXCEPT ![n] = IF s.phase = "acquire" THEN Stopped
                                              ELSE Release(s)]
        /\ NoMatch(n)
        /\ UNCHANGED <<lease, copy, obsRaw>>

\* The process dies; nothing is released.
Crash(n) ==
    /\ "crash" \in Faults
    /\ node[n].phase # "stopped"
    /\ node' = [node EXCEPT ![n] = Stopped]
    /\ NoMatch(n)
    /\ UNCHANGED <<lease, copy, obsRaw>>

\* A new process with the same identity and none of the memory.
Restart(n) ==
    /\ node[n].phase = "stopped"
    /\ node' = [node EXCEPT ![n] = Fresh]
    /\ copy' = [copy EXCEPT ![n] = [l \in Locks |-> "none"]]
    /\ obsRaw' = [obsRaw EXCEPT ![n] = [l \in Locks |-> "missing"]]
    /\ UNCHANGED <<lease, newRaw>>

\* A LeaseLock forgets its lease when its Create fails: the client library returns an
\* empty one with the error.
Creates(s) == s.op \in {"create", "recreate"}

\* A request ends with an error and without an effect.  Update ignores an error of the
\* Get before it unless it is NotFound, and goes on with the lease it had.
RequestFails(n) ==
    LET s == node[n]
    IN  /\ "error" \in Faults
        /\ s.op \in {"get", "create", "update", "check", "recreate"}
        /\ node' = [node EXCEPT ![n] = IF s.op = "check" THEN Go(s, "update", s.at)
                                       ELSE Failed(s)]
        /\ copy' = [copy EXCEPT ![n][s.at] = IF Creates(s) THEN "none" ELSE @]
        /\ NoMatch(n)
        /\ UNCHANGED <<lease, obsRaw>>

\* A write has its effect and the answer is lost.
AnswerLost(n) ==
    LET s == node[n]
    IN  /\ "error" \in Faults
        /\ \/ s.op = "update" /\ copy[n][s.at] = "current"
           \/ Creates(s) /\ lease[s.at] = "absent"
        /\ Write(n, s.at, Value(n), IF Creates(s) THEN "none" ELSE "stale")
        /\ node' = [node EXCEPT ![n] = Failed(s)]

-----------------------------------------------------------------------------
(* Time.  Nobody is slower than Lag between two steps of a call, a leader's retries *)
(* start on time, and RenewDeadline is observed on the dot.  A follower may be late. *)

\* Slip: the client times out after RenewDeadline and not after half of it.
MayWaitDefect(s) ==
    /\ s.op # "idle" => s.lag < RenewDeadline
    /\ s.phase = "renew" => s.left > 0 /\ (s.op = "idle" => s.wait > 0)

MayWait(s) ==
    /\ s.op # "idle" => s.lag < Lag
    /\ s.phase = "renew" => s.left > 0 /\ (s.op = "idle" => s.wait > 0)

Minus1(k) == IF k = 0 THEN 0 ELSE k - 1

Older(s) ==
    IF s.phase = "stopped" THEN s
    ELSE [s EXCEPT !.age = IF @ >= Dur(s.observed) \/ s.phase = "release" THEN @ ELSE @ + 1,
                   !.lag = IF s.op = "idle" THEN 0 ELSE @ + 1,
                   !.wait = IF s.op = "idle" THEN Minus1(@) ELSE @,
                   !.left = IF s.phase = "renew" THEN @ - 1 ELSE @]

Tick ==
    /\ \A n \in Nodes : MayWait(node[n])
    /\ node' = [n \in Nodes |-> Older(node[n])]
    /\ UNCHANGED <<lease, copy, obsRaw, newRaw>>

-----------------------------------------------------------------------------
GetStep(n) == ReadLease(n) \/ ReadMissingOfOther(n) \/ ReadMissing(n)
CreateStep(n) == CreateLease(n) \/ CreateExisting(n)
UpdateStep(n) == UpdateLease(n) \/ UpdateRefused(n) \/ CheckLease(n) \/ RecreateLease(n)
FaultStep(n) == Cancel(n) \/ Crash(n) \/ RequestFails(n) \/ AnswerLost(n)

Next ==
    \/ Tick
    \/ \E n \in Nodes : \/ Try(n) \/ GetStep(n) \/ CreateStep(n) \/ UpdateStep(n)
                        \/ Settle(n) \/ GiveUp(n) \/ Restart(n) \/ FaultStep(n)

Spec == Init /\ [][Next]_vars

\* A process that is up makes its requests, the API servers answer, and time goes on.
\* Nothing is assumed of the faults.
Progress(n) == Try(n) \/ GetStep(n) \/ CreateStep(n) \/ UpdateStep(n) \/ Settle(n) \/ GiveUp(n)

Fairness ==
    /\ WF_vars(Tick)
    /\ \A n \in Nodes : WF_vars(Progress(n)) /\ WF_vars(Restart(n))

FairSpec == Spec /\ Fairness

-----------------------------------------------------------------------------
(* Properties. *)

\* At most one node leads: the elector of one node at most is between its acquisition
\* and the end of its renewals.  (kube/locker_test.go waits for the second node to be a
\* follower while the first leads.)  The code does not do this when no lease exists at
\* first, nor with three clusters and requests as slow as the client timeout allows.
AtMostOneLeader == \A m, n \in Nodes : Leads(m) /\ Leads(n) => m = n

\* The primary lease alone decides: it names a leader for as long as it leads, whatever
\* the secondaries say.  It is taken from nobody who has not given up, although a leader
\* whose update is slow in the secondaries starts its lease long after it wrote the
\* primary.  With more than two clusters that takes faster requests (see Collected).
LeaderHoldsPrimary == \A n \in Nodes : Leads(n) => lease[1] = n

\* A secondary changes hands only to the node that the primary names at that moment: no
\* straggler of an earlier acquisition walks on through the secondaries.
SecondaryFollowsPrimary ==
    [][\A n \in Nodes, l \in Locks :
           lease[l] # n /\ lease'[l] = n => lease'[1] = n]_vars

\* If in the end no process is dead any more, somebody leads again and again: the locks
\* that dead processes left half-written, with leases that disagree or are missing, are
\* taken over (multi.go, UnknownLeader and "Lock is held by old client").
LockIsTakenOver ==
    <>[](\A n \in Nodes : node[n].phase # "stopped") => []<>(\E n \in Nodes : Leads(n))

\* Nobody takes the lock from a node that leads: when another node finds the record
\* expired, the leader, whose last renewal may have been answered late and whose retries
\* since then may all have failed, has given up.
NoTakeFromLeader ==
    [][\A m, n \in Nodes : m # n /\ Leads(m) /\ lease[1] = m => lease'[1] # n]_vars

=============================================================================
