--------------------------- MODULE MultiLockProofs ---------------------------
(***************************************************************************)
(* Proofs about MultiLock, for every set of nodes, number of clusters and  *)
(* duration: type correctness; the lock of several clusters, when requests *)
(* do not fail; the lock of one cluster, when everything may fail.         *)
(***************************************************************************)
EXTENDS MultiLock, TLAPS

\* The states that TypeOK allows a node.
NodeStates ==
    [phase : {"acquire", "renew", "release", "stopped"},
     op : {"idle", "get", "create", "update", "check", "recreate", "settle"},
     at : Locks, seen : Holders \cup Unknowns, same : SUBSET Locks,
     fast : BOOLEAN, expired : BOOLEAN, observed : Holders \cup Unknowns,
     age : 0..LeaseDuration, lag : 0..Lag, wait : 0..RetryPeriod,
     left : 0..(RetryPeriod + RenewDeadline)]

-----------------------------------------------------------------------------
(* The states of a node. *)

LEMMA Constants ==
    /\ N \in Nat /\ 1 <= N /\ 1 \in Locks /\ N \in Locks
    /\ Lag \in Nat /\ 1 <= Lag /\ RetryPeriod \in Nat /\ 1 <= RetryPeriod
    /\ RenewDeadline \in Nat /\ LeaseDuration \in Nat
    /\ RetryPeriod < RenewDeadline /\ RenewDeadline < LeaseDuration
    /\ "nobody" \in Holders
BY ParametersAreSound DEF Locks, Holders

LEMMA Units ==
    /\ 0 \in 0..Lag /\ 0 \in 0..LeaseDuration /\ 0 \in 0..RetryPeriod
    /\ RetryPeriod \in 0..RetryPeriod
    /\ {0, RenewDeadline, RetryPeriod + RenewDeadline} \subseteq 0..(RetryPeriod + RenewDeadline)
    /\ 1 \in Locks /\ "nobody" \in Holders \cup Unknowns
BY Constants

LEMMA SleepState ==
    ASSUME NEW s \in NodeStates
    PROVE  LET t == Sleep(s)
           IN  /\ t \in NodeStates /\ t.op = "idle" /\ t.at = 1 /\ t.lag = 0 /\ t.wait = RetryPeriod
               /\ t.phase = s.phase /\ t.observed = s.observed /\ t.age = s.age /\ t.left = s.left
               /\ ~t.fast
BY Units, Zenon DEF Sleep, NodeStates

LEMMA FreshState ==
    /\ Fresh \in NodeStates /\ Fresh.phase = "acquire" /\ Fresh.op = "idle" /\ Fresh.at = 1
    /\ Fresh.observed = "nobody" /\ Fresh.age = 0 /\ Fresh.lag = 0
    /\ ~Fresh.fast
    /\ Stopped \in NodeStates /\ Stopped.phase = "stopped" /\ Stopped.op = "idle"
    /\ Stopped.observed = "nobody" /\ ~Stopped.fast
BY Units, Zenon DEF Fresh, Stopped, NodeStates

\* An error: the call begins again with a Get, or it is over.
LEMMA FailedState ==
    ASSUME NEW s \in NodeStates
    PROVE  LET t == Failed(s)
           IN  /\ t \in NodeStates
               /\ s.phase = "release" => t = Stopped
               /\ s.phase # "release" /\ s.fast =>
                     t.op = "get" /\ t.at = 1 /\ t.lag = 0 /\ (t.expired <=> s.expired)
               /\ s.phase # "release" /\ ~s.fast => t.op = "idle" /\ t.at = 1 /\ t.wait = RetryPeriod
               /\ s.phase # "release" =>
                     /\ t.phase = s.phase /\ t.observed = s.observed /\ t.age = s.age
                     /\ t.left = s.left /\ ~t.fast
<1> DEFINE g == [Go(s, "get", 1) EXCEPT !.fast = FALSE]
<1>1. /\ g \in NodeStates /\ g.op = "get" /\ g.at = 1 /\ g.lag = 0 /\ (g.expired <=> s.expired)
      /\ g.phase = s.phase /\ g.observed = s.observed /\ g.age = s.age /\ g.left = s.left
      /\ ~g.fast
  BY Units, Zenon DEF Go, NodeStates
<1> HIDE DEF g
<1>2. Failed(s) = IF s.phase = "release" THEN Stopped ELSE IF s.fast THEN g ELSE Sleep(s)
  BY DEF Failed, g
<1>3. CASE s.phase = "release" BY <1>2, <1>3, FreshState
<1>4. CASE s.phase # "release" /\ s.fast BY <1>1, <1>2, <1>4
<1>5. CASE s.phase # "release" /\ ~s.fast BY <1>2, <1>5, SleepState
<1>6. QED BY <1>3, <1>4, <1>5

-----------------------------------------------------------------------------
(* What the actions do to the node. *)

Raws == [Locks -> {"missing", "current", "old"}]

\* Node n goes to a state that it may be in, and nobody else moves.
Moves(n) == node' = [node EXCEPT ![n] = node'[n]] /\ node'[n] \in NodeStates

LEMMA Types ==
    ASSUME TypeOK, NEW n \in Nodes
    PROVE  /\ node \in [Nodes -> NodeStates] /\ node[n] \in NodeStates
           /\ node[n].phase \in {"acquire", "renew", "release", "stopped"}
           /\ node[n].op \in {"idle", "get", "create", "update", "check", "recreate", "settle"}
           /\ node[n].at \in Locks /\ node[n].at \in Nat /\ 1 <= node[n].at /\ node[n].at <= N
           /\ node[n].seen \in Holders \cup Unknowns /\ node[n].observed \in Holders \cup Unknowns
           /\ node[n].same \in SUBSET Locks /\ node[n].fast \in BOOLEAN /\ node[n].expired \in BOOLEAN
           /\ node[n].age \in 0..LeaseDuration /\ node[n].lag \in 0..Lag
           /\ node[n].wait \in 0..RetryPeriod /\ node[n].left \in 0..(RetryPeriod + RenewDeadline)
           /\ copy[n] \in [Locks -> {"none", "current", "stale"}]
           /\ obsRaw[n] \in Raws /\ newRaw[n] \in Raws
<1>1. node \in [Nodes -> NodeStates] BY DEF TypeOK, NodeStates
<1>2. node[n] \in NodeStates BY <1>1
<1>3. node[n].at \in Locks BY <1>2 DEF NodeStates
<1>4. node[n].at \in Nat /\ 1 <= node[n].at /\ node[n].at <= N BY <1>3, Constants DEF Locks
<1>5. /\ copy[n] \in [Locks -> {"none", "current", "stale"}]
      /\ obsRaw[n] \in Raws /\ newRaw[n] \in Raws
  BY DEF TypeOK, Raws
<1>6. QED BY <1>1, <1>2, <1>3, <1>4, <1>5 DEF NodeStates

LEMMA MovesTo ==
    ASSUME TypeOK, NEW n \in Nodes, NEW t \in NodeStates, node' = [node EXCEPT ![n] = t]
    PROVE  /\ Moves(n) /\ node'[n] = t
           /\ \A m \in Nodes : m # n => node'[m] = node[m]
<1>1. node'[n] = t BY Types
<1>2. QED BY <1>1, Types DEF Moves

LEMMA TryEffect ==
    ASSUME TypeOK, NEW n \in Nodes, Try(n)
    PROVE  LET s == node[n]
               t == node'[n]
           IN  /\ s.phase \in {"acquire", "renew"} /\ s.op = "idle" /\ s.wait = 0
               /\ Moves(n) /\ t.phase = s.phase /\ t.at = 1 /\ t.lag = 0
               /\ t.observed = s.observed /\ t.age = s.age /\ t.left = s.left
               /\ t.expired <=> s.age >= Dur(s.observed)
               /\ t.fast => ~t.expired
               /\ \/ t.op = "update" /\ t.fast /\ s.observed = n
                  \/ t.op = "get" /\ ~(s.observed = n /\ s.age < Dur(s.observed))
               /\ UNCHANGED <<lease, copy, obsRaw, newRaw>>
<1> DEFINE s == node[n]
           e == s.age >= Dur(s.observed)
           f == s.observed = n /\ ~e
           op == IF f THEN "update" ELSE "get"
           t == [Go(s, op, 1) EXCEPT !.fast = f, !.expired = e]
<1>1. /\ s.phase \in {"acquire", "renew"} /\ s.op = "idle" /\ s.wait = 0
      /\ node' = [node EXCEPT ![n] = t] /\ UNCHANGED <<lease, copy, obsRaw, newRaw>>
  BY DEF Try
<1>2. e \in BOOLEAN /\ f \in BOOLEAN /\ op \in {"get", "update"} OBVIOUS
<1>3. s \in NodeStates /\ s.age \in Nat BY Types
<1>4. /\ t \in NodeStates /\ t.op = op /\ t.at = 1 /\ t.lag = 0 /\ t.fast = f /\ t.expired = e
      /\ t.phase = s.phase /\ t.observed = s.observed /\ t.age = s.age /\ t.left = s.left
  <2> HIDE DEF e, f, op, s
  <2>1. QED BY <1>2, <1>3, Units, Zenon DEF Go, NodeStates
<1>5. (f /\ op = "update") \/ (~f /\ op = "get") OBVIOUS
<1>6. ~f => ~(s.observed = n /\ s.age < Dur(s.observed))
  BY <1>3, Constants DEF Dur
<1> HIDE DEF t
<1>7. Moves(n) /\ node'[n] = t BY <1>1, <1>4, MovesTo
<1>8. QED BY <1>1, <1>4, <1>5, <1>6, <1>7

\* Write makes every other copy of the lease stale and every record of it old.
LEMMA WriteEffect ==
    ASSUME TypeOK, NEW n \in Nodes, NEW l \in Locks, NEW v \in Holders,
           NEW kept \in {"none", "current", "stale"}, Write(n, l, v, kept)
    PROVE  /\ lease' \in [Locks -> Holders \cup {"absent"}]
           /\ copy' \in [Nodes -> [Locks -> {"none", "current", "stale"}]]
           /\ obsRaw' \in [Nodes -> Raws] /\ newRaw' \in [Nodes -> Raws]
           /\ lease'[l] = v
           /\ \A k \in Locks : k # l => lease'[k] = lease[k]
           /\ \A m \in Nodes, k \in Locks :
                 k # l => /\ copy'[m][k] = copy[m][k]
                          /\ obsRaw'[m][k] = obsRaw[m][k] /\ newRaw'[m][k] = newRaw[m][k]
           /\ \A m \in Nodes : obsRaw'[m][l] # "current" /\ newRaw'[m][l] # "current"
           /\ \A m \in Nodes : newRaw[m][l] # "missing" => newRaw'[m][l] # "missing"
           /\ \A m \in Nodes : m # n => copy'[m][l] # "current"
           /\ copy'[n][l] = kept
<1>1. lease \in [Locks -> Holders \cup {"absent"}] BY DEF TypeOK
<1>2. lease' = [lease EXCEPT ![l] = v] BY DEF Write
<1>3. /\ lease' \in [Locks -> Holders \cup {"absent"}] /\ lease'[l] = v
      /\ \A k \in Locks : k # l => lease'[k] = lease[k]
  BY <1>1, <1>2
<1>4. ASSUME NEW m \in Nodes
      PROVE  /\ copy'[m] \in [Locks -> {"none", "current", "stale"}]
             /\ \A k \in Locks : k # l => copy'[m][k] = copy[m][k]
             /\ m # n => copy'[m][l] # "current"
             /\ m = n => copy'[n][l] = kept
  <2> DEFINE c == IF m = n THEN kept
                  ELSE IF copy[m][l] = "current" THEN "stale" ELSE copy[m][l]
  <2>1. copy'[m] = [copy[m] EXCEPT ![l] = c] BY DEF Write
  <2>2. copy[m] \in [Locks -> {"none", "current", "stale"}] BY Types
  <2>3. c \in {"none", "current", "stale"} /\ (m = n => c = kept) /\ (m # n => c # "current")
    BY <2>2
  <2> HIDE DEF c
  <2>4. QED BY <2>1, <2>2, <2>3
<1>5. ASSUME NEW m \in Nodes
      PROVE  /\ obsRaw'[m] \in Raws
             /\ \A k \in Locks : k # l => obsRaw'[m][k] = obsRaw[m][k]
             /\ obsRaw'[m][l] # "current"
  <2> DEFINE c == IF obsRaw[m][l] = "current" THEN "old" ELSE obsRaw[m][l]
  <2>1. obsRaw'[m] = [obsRaw[m] EXCEPT ![l] = c] BY DEF Write
  <2>2. obsRaw[m] \in Raws BY Types
  <2>3. c \in {"missing", "current", "old"} /\ c # "current" BY <2>2 DEF Raws
  <2> HIDE DEF c
  <2>4. QED BY <2>1, <2>2, <2>3 DEF Raws
<1>6. ASSUME NEW m \in Nodes
      PROVE  /\ newRaw'[m] \in Raws
             /\ \A k \in Locks : k # l => newRaw'[m][k] = newRaw[m][k]
             /\ newRaw'[m][l] # "current" /\ (newRaw[m][l] # "missing" => newRaw'[m][l] # "missing")
  <2> DEFINE c == IF newRaw[m][l] = "current" THEN "old" ELSE newRaw[m][l]
  <2>1. newRaw'[m] = [newRaw[m] EXCEPT ![l] = c] BY DEF Write
  <2>2. newRaw[m] \in Raws BY Types
  <2>3. /\ c \in {"missing", "current", "old"} /\ c # "current"
        /\ newRaw[m][l] # "missing" => c # "missing"
    BY <2>2 DEF Raws
  <2> HIDE DEF c
  <2>4. QED BY <2>1, <2>2, <2>3 DEF Raws
<1>7. /\ copy' = [m \in Nodes |-> copy'[m]] /\ obsRaw' = [m \in Nodes |-> obsRaw'[m]]
      /\ newRaw' = [m \in Nodes |-> newRaw'[m]]
  BY Zenon DEF Write
<1>8. copy' \in [Nodes -> [Locks -> {"none", "current", "stale"}]] BY <1>4, <1>7
<1>9. obsRaw' \in [Nodes -> Raws] BY <1>5, <1>7
<1>10. newRaw' \in [Nodes -> Raws] BY <1>6, <1>7
<1>11. QED BY <1>3, <1>4, <1>5, <1>6, <1>8, <1>9, <1>10

LEMMA NoMatchEffect ==
    ASSUME TypeOK, NEW n \in Nodes, NoMatch(n)
    PROVE  /\ newRaw' \in [Nodes -> Raws]
           /\ \A l \in Locks : newRaw'[n][l] = "missing"
           /\ \A m \in Nodes : m # n => newRaw'[m] = newRaw[m]
<1>1. newRaw \in [Nodes -> Raws] BY DEF TypeOK, Raws
<1>2. [l \in Locks |-> "missing"] \in Raws BY DEF Raws
<1>3. QED BY <1>1, <1>2 DEF NoMatch

\* The raw record after one more read.
LEMMA CollectedEffect ==
    ASSUME NEW raw \in Raws, NEW l \in Locks, NEW mismatch \in BOOLEAN
    PROVE  LET c == Collected(raw, l, mismatch)
           IN  c \in Raws /\ c[l] = "current" /\ (l # 1 => c[1] = raw[1])
<1> DEFINE v(k) == CASE k = l -> "current"
                     [] mismatch /\ k \notin {1, l} -> "missing"
                     [] OTHER -> raw[k]
<1>1. /\ \A k \in Locks : v(k) \in {"missing", "current", "old"}
      /\ v(l) = "current" /\ (l # 1 => v(1) = raw[1])
  BY DEF Raws
<1>2. Collected(raw, l, mismatch) = [k \in Locks |-> v(k)] BY DEF Collected
<1> HIDE DEF v
<1>3. QED BY <1>1, <1>2, Constants DEF Raws

\* The end of a Get.  When the records are identical, the reads of all leases in the new
\* one were.
LEMMA GetDoneEffect ==
    ASSUME TypeOK, NEW n \in Nodes, NEW holder \in Holders \cup Unknowns, NEW same,
           NEW raw \in Raws, GetDone(n, holder, same, raw)
    PROVE  LET s == node[n]
               t == node'[n]
           IN  /\ Moves(n) /\ NoMatch(n) /\ obsRaw' \in [Nodes -> Raws]
               /\ t.at = 1 \/ t.phase = "stopped"
               /\ t.fast => s.fast /\ (t.expired => s.expired)
               /\ s.phase = "release" =>
                     /\ obsRaw' = obsRaw
                     /\ \/ t = Stopped
                        \/ /\ s.observed = n /\ t.phase = "release" /\ t.op = "update"
                           /\ t.observed = n
               /\ s.phase # "release" =>
                     /\ t.phase = s.phase /\ t.left = s.left
                     /\ \/ /\ \A l \in Locks : raw[l] # "missing" => l \in same
                           /\ obsRaw' = obsRaw
                           /\ t.observed = s.observed /\ t.age = s.age
                           /\ \/ t.op = "idle"
                              \/ t.op = "update" /\ (s.expired \/ s.observed \in {n, "nobody"})
                        \/ /\ obsRaw' = [obsRaw EXCEPT ![n] = raw]
                           /\ t.observed = holder /\ t.age = 0
                           /\ \/ t.op = "idle"
                              \/ t.op = "update" /\ holder \in {n, "nobody"}
<1> DEFINE s == node[n]
           identical == \A l \in Locks : IF raw[l] = "missing" THEN obsRaw[n][l] = "missing"
                                         ELSE l \in same
           covered == \A l \in Locks : raw[l] # "missing" => l \in same
           observed == IF identical THEN s.observed ELSE holder
           age == IF identical THEN s.age ELSE 0
           held == observed \notin {"nobody", n} /\ ~(identical /\ s.expired)
           t == [s EXCEPT !.observed = observed, !.age = age, !.seen = "nobody", !.same = {}]
           u == IF held THEN Sleep(t) ELSE Go(t, "update", 1)
           r == IF s.observed = n THEN Go(s, "update", 1) ELSE Stopped
<1>1. /\ NoMatch(n)
      /\ s.phase = "release" => node' = [node EXCEPT ![n] = r] /\ obsRaw' = obsRaw
      /\ s.phase # "release" =>
           /\ node' = [node EXCEPT ![n] = u]
           /\ obsRaw' = IF identical THEN obsRaw ELSE [obsRaw EXCEPT ![n] = raw]
  BY DEF GetDone
<1>2. s \in NodeStates BY Types
<1>3. /\ observed \in Holders \cup Unknowns /\ age \in 0..LeaseDuration
      /\ identical => covered /\ observed = s.observed /\ age = s.age
      /\ ~identical => observed = holder /\ age = 0
      /\ ~held => observed \in {"nobody", n} \/ (identical /\ s.expired)
      /\ identical => obsRaw' = obsRaw \/ s.phase = "release"
      /\ ~identical => obsRaw' = [obsRaw EXCEPT ![n] = raw] \/ s.phase = "release"
  BY <1>1, <1>2, Units, Types
<1>4. obsRaw' \in [Nodes -> Raws]
  <2>1. obsRaw \in [Nodes -> Raws] BY DEF TypeOK, Raws
  <2>2. QED BY <1>1, <1>3, <2>1
<1> HIDE DEF s, identical, covered, observed, age
<1>5. /\ t \in NodeStates /\ t.observed = observed /\ t.age = age /\ t.phase = s.phase
      /\ t.left = s.left /\ (t.fast <=> s.fast) /\ (t.expired <=> s.expired)
  BY <1>2, <1>3, Units, Zenon DEF NodeStates
<1> HIDE DEF t, held
<1>6. /\ u \in NodeStates /\ u.at = 1 /\ u.observed = observed /\ u.age = age
      /\ u.phase = s.phase /\ u.left = s.left
      /\ u.op = "idle" \/ (u.op = "update" /\ ~held)
      /\ u.fast => s.fast /\ (u.expired => s.expired)
  <2>1. CASE held BY <1>5, <2>1, SleepState
  <2>2. CASE ~held
    <3> DEFINE g == Go(t, "update", 1)
    <3>1. /\ g \in NodeStates /\ g.phase = t.phase /\ g.op = "update" /\ g.at = 1
          /\ g.observed = t.observed /\ g.age = t.age /\ g.left = t.left
          /\ (g.fast <=> t.fast) /\ (g.expired <=> t.expired)
      BY <1>5, Units, Zenon DEF Go, NodeStates
    <3>2. u = g BY <2>2
    <3> HIDE DEF g, u
    <3>3. QED BY <1>5, <2>2, <3>1, <3>2
  <2>3. QED BY <2>1, <2>2
<1>7. /\ r \in NodeStates /\ (r.fast => s.fast /\ (r.expired => s.expired))
      /\ s.phase = "release" =>
           \/ r = Stopped
           \/ s.observed = n /\ r.phase = "release" /\ r.op = "update" /\ r.observed = n /\ r.at = 1
  <2>1. CASE s.observed = n
    <3> DEFINE g == Go(s, "update", 1)
    <3>1. /\ g \in NodeStates /\ g.phase = s.phase /\ g.op = "update" /\ g.at = 1
          /\ g.observed = s.observed /\ (g.fast <=> s.fast) /\ (g.expired <=> s.expired)
      BY <1>2, Units, Zenon DEF Go, NodeStates
    <3>2. r = g BY <2>1
    <3> HIDE DEF g, r
    <3>3. QED BY <2>1, <3>1, <3>2
  <2>2. CASE s.observed # n BY <2>2, FreshState
  <2>3. QED BY <2>1, <2>2
<1> HIDE DEF u, r
<1>8. CASE s.phase = "release"
  <2>1. Moves(n) /\ node'[n] = r BY <1>1, <1>7, <1>8, MovesTo
  <2>2. QED BY <1>1, <1>4, <1>7, <1>8, <2>1, FreshState DEF s
<1>9. CASE s.phase # "release"
  <2>1. Moves(n) /\ node'[n] = u BY <1>1, <1>6, <1>9, MovesTo
  <2>2. CASE identical BY <1>1, <1>3, <1>4, <1>6, <1>9, <2>1, <2>2 DEF s, covered
  <2>3. CASE ~identical BY <1>1, <1>3, <1>4, <1>6, <1>9, <2>1, <2>3 DEF s
  <2>4. QED BY <2>2, <2>3
<1>10. QED BY <1>8, <1>9

-----------------------------------------------------------------------------
(* Type correctness, action by action. *)

Leases == [Locks -> Holders \cup {"absent"}]
Copies == [Locks -> {"none", "current", "stale"}]

LEMMA TypeSteps ==
    ASSUME TypeOK, NEW n \in Nodes, Moves(n), lease' \in Leases, copy' \in [Nodes -> Copies],
           obsRaw' \in [Nodes -> Raws], newRaw' \in [Nodes -> Raws]
    PROVE  TypeOK'
<1>1. node' \in [Nodes -> NodeStates] BY Types DEF Moves
<1>2. QED BY <1>1 DEF TypeOK, NodeStates, Leases, Copies, Raws

LEMMA Kinds ==
    ASSUME TypeOK
    PROVE  /\ lease \in Leases /\ copy \in [Nodes -> Copies]
           /\ obsRaw \in [Nodes -> Raws] /\ newRaw \in [Nodes -> Raws]
BY DEF TypeOK, Leases, Copies, Raws

\* Only the copy of one lease changes, and only that of node n.
LEMMA CopyEffect ==
    ASSUME TypeOK, NEW n \in Nodes, NEW l \in Locks, NEW c \in {"none", "current", "stale"},
           copy' = [copy EXCEPT ![n][l] = c]
    PROVE  /\ copy' \in [Nodes -> Copies] /\ copy'[n][l] = c
           /\ \A k \in Locks : k # l => copy'[n][k] = copy[n][k]
           /\ \A m \in Nodes : m # n => copy'[m] = copy[m]
<1>1. copy' = [copy EXCEPT ![n] = [copy[n] EXCEPT ![l] = c]] OBVIOUS
<1>2. copy[n] \in Copies BY Kinds
<1>3. [copy[n] EXCEPT ![l] = c] \in Copies BY <1>2 DEF Copies
<1>4. QED BY <1>1, <1>2, <1>3, Kinds DEF Copies

\* The call goes on with another request.
LEMMA GoEffect ==
    ASSUME TypeOK, NEW n \in Nodes, NEW l \in Locks,
           NEW op \in {"idle", "get", "create", "update", "check", "recreate", "settle"},
           node' = [node EXCEPT ![n] = Go(node[n], op, l)]
    PROVE  /\ Moves(n) /\ node'[n].op = op /\ node'[n].at = l /\ node'[n].lag = 0
           /\ node'[n].phase = node[n].phase /\ node'[n].observed = node[n].observed
           /\ node'[n].age = node[n].age /\ node'[n].left = node[n].left
           /\ (node'[n].fast <=> node[n].fast) /\ (node'[n].expired <=> node[n].expired)
<1> DEFINE t == Go(node[n], op, l)
<1>1. node[n] \in NodeStates BY Types
<1>2. /\ t \in NodeStates /\ t.op = op /\ t.at = l /\ t.lag = 0
      /\ t.phase = node[n].phase /\ t.observed = node[n].observed
      /\ t.age = node[n].age /\ t.left = node[n].left
      /\ (t.fast <=> node[n].fast) /\ (t.expired <=> node[n].expired)
  BY <1>1, Units, Zenon DEF Go, NodeStates
<1> HIDE DEF t
<1>3. node' = [node EXCEPT ![n] = t] BY DEF t
<1>4. Moves(n) /\ node'[n] = t BY <1>2, <1>3, MovesTo
<1>5. QED BY <1>2, <1>4

LEMMA FailedEffect ==
    ASSUME TypeOK, NEW n \in Nodes, node' = [node EXCEPT ![n] = Failed(node[n])]
    PROVE  Moves(n) /\ node'[n] = Failed(node[n])
BY Types, FailedState, MovesTo

LEMMA ValueIsHolder ==
    ASSUME NEW n \in Nodes
    PROVE  Value(n) \in Holders
BY DEF Value, Holders

LEMMA TypeTry ==
    ASSUME TypeOK, NEW n \in Nodes, Try(n)
    PROVE  TypeOK'
<1>1. Moves(n) /\ UNCHANGED <<lease, copy, obsRaw, newRaw>> BY TryEffect
<1>2. QED BY <1>1, Kinds, TypeSteps

\* One lease has been read: the name that goes on, and the copy.
LEMMA ReadHolder ==
    ASSUME TypeOK, NEW n \in Nodes, lease[node[n].at] # "absent"
    PROVE  (IF node[n].at > 1 /\ node[n].seen # lease[node[n].at] THEN Mismatch(node[n].seen)
            ELSE lease[node[n].at]) \in Holders \cup Unknowns
<1>1. lease[node[n].at] \in Holders BY Kinds, Types DEF Leases
<1>2. Mismatch(node[n].seen) \in Unknowns BY DEF Mismatch, Unknowns
<1>3. QED BY <1>1, <1>2

\* A read that does not end the Get.
LEMMA ReadOnEffect ==
    ASSUME TypeOK, NEW n \in Nodes, ReadLease(n), node[n].at # N
    PROVE  LET s == node[n]
               t == node'[n]
               mismatch == s.at > 1 /\ s.seen # lease[s.at]
           IN  /\ Moves(n) /\ t.op = "get" /\ t.at = s.at + 1 /\ t.lag = 0
               /\ t.phase = s.phase /\ t.observed = s.observed /\ t.age = s.age /\ t.left = s.left
               /\ t.seen = (IF mismatch THEN Mismatch(s.seen) ELSE lease[s.at])
               /\ t.same = {k \in 1..s.at : IF k = s.at THEN obsRaw[n][k] = "current" ELSE k \in s.same}
               /\ (t.expired <=> s.expired) /\ (t.fast <=> s.fast)
               /\ newRaw' = [newRaw EXCEPT ![n] = Collected(newRaw[n], s.at, mismatch)]
               /\ newRaw' \in [Nodes -> Raws]
               /\ UNCHANGED <<lease, obsRaw>>
<1> DEFINE s == node[n]
           mismatch == s.at > 1 /\ s.seen # lease[s.at]
           h == IF mismatch THEN Mismatch(s.seen) ELSE lease[s.at]
           same == {k \in 1..s.at : IF k = s.at THEN obsRaw[n][k] = "current" ELSE k \in s.same}
           t == [Go(s, "get", s.at + 1) EXCEPT !.seen = h, !.same = same]
           raw == Collected(newRaw[n], s.at, mismatch)
<1>1. /\ s.op = "get" /\ lease[s.at] # "absent" /\ node' = [node EXCEPT ![n] = t]
      /\ newRaw' = [newRaw EXCEPT ![n] = raw] /\ UNCHANGED <<lease, obsRaw>>
  BY DEF ReadLease
<1>2. h \in Holders \cup Unknowns BY <1>1, ReadHolder
<1>3. s \in NodeStates /\ s.at \in Locks BY Types
<1>4. s.at + 1 \in Locks BY Types, Constants DEF Locks
<1>5. same \in SUBSET Locks BY Types DEF Locks
<1>6. raw \in Raws BY <1>3, Types, CollectedEffect
<1>7. newRaw' \in [Nodes -> Raws] BY <1>1, <1>6, Kinds
<1>8. /\ t \in NodeStates /\ t.op = "get" /\ t.at = s.at + 1 /\ t.lag = 0 /\ t.seen = h
      /\ t.phase = s.phase /\ t.observed = s.observed /\ t.age = s.age /\ t.left = s.left
      /\ t.same = same /\ (t.expired <=> s.expired) /\ (t.fast <=> s.fast)
  <2> HIDE DEF h, same, s
  <2>1. QED BY <1>2, <1>3, <1>4, <1>5, Units, Zenon DEF Go, NodeStates
<1> HIDE DEF t
<1>9. Moves(n) /\ node'[n] = t BY <1>1, <1>8, MovesTo
<1>10. QED BY <1>1, <1>7, <1>8, <1>9

LEMMA TypeReadLease ==
    ASSUME TypeOK, NEW n \in Nodes, ReadLease(n)
    PROVE  TypeOK'
<1> DEFINE s == node[n]
           mismatch == s.at > 1 /\ s.seen # lease[s.at]
           h == IF mismatch THEN Mismatch(s.seen) ELSE lease[s.at]
           same == {k \in 1..s.at : IF k = s.at THEN obsRaw[n][k] = "current" ELSE k \in s.same}
           raw == Collected(newRaw[n], s.at, mismatch)
<1>1. /\ lease[s.at] # "absent" /\ UNCHANGED lease /\ copy' = [copy EXCEPT ![n][s.at] = "current"]
      /\ s.at = N => GetDone(n, h, same, raw)
  BY DEF ReadLease
<1>2. s.at \in Locks BY Types
<1>3. copy' \in [Nodes -> Copies] BY <1>1, <1>2, CopyEffect
<1>4. CASE s.at = N
  <2>1. h \in Holders \cup Unknowns BY <1>1, ReadHolder
  <2>2. raw \in Raws BY <1>2, Types, CollectedEffect
  <2> HIDE DEF h, raw, same
  <2>3. Moves(n) /\ NoMatch(n) /\ obsRaw' \in [Nodes -> Raws]
    BY <1>1, <1>4, <2>1, <2>2, GetDoneEffect
  <2>4. QED BY <1>1, <1>3, <2>3, Kinds, NoMatchEffect, TypeSteps
<1>5. CASE s.at # N
  <2>1. Moves(n) /\ newRaw' \in [Nodes -> Raws] /\ UNCHANGED obsRaw BY <1>5, ReadOnEffect
  <2>2. QED BY <1>1, <1>3, <2>1, Kinds, TypeSteps
<1>6. QED BY <1>4, <1>5

LEMMA TypeReadMissing ==
    ASSUME TypeOK, NEW n \in Nodes, ReadMissingOfOther(n) \/ ReadMissing(n)
    PROVE  TypeOK'
<1>1. CASE ReadMissingOfOther(n)
  <2>1. GetDone(n, node[n].seen, node[n].same, newRaw[n]) /\ UNCHANGED <<lease, copy>>
    BY <1>1 DEF ReadMissingOfOther
  <2>2. node[n].seen \in Holders \cup Unknowns /\ newRaw[n] \in Raws BY Types
  <2>3. Moves(n) /\ NoMatch(n) /\ obsRaw' \in [Nodes -> Raws] BY <2>1, <2>2, GetDoneEffect
  <2>4. QED BY <2>1, <2>3, Kinds, NoMatchEffect, TypeSteps
<1>2. CASE ReadMissing(n)
  <2> DEFINE s == node[n]
             t == [Go(s, "create", 1) EXCEPT !.seen = "nobody", !.same = {}]
             u == IF s.phase = "release" THEN Stopped ELSE t
  <2>1. node' = [node EXCEPT ![n] = u] /\ NoMatch(n) /\ UNCHANGED <<lease, copy, obsRaw>>
    BY <1>2 DEF ReadMissing
  <2>2. s \in NodeStates BY Types
  <2>3. t \in NodeStates BY <2>2, Units, Zenon DEF Go, NodeStates
  <2> HIDE DEF t
  <2>4. u \in NodeStates BY <2>3, FreshState
  <2> HIDE DEF u
  <2>5. Moves(n) BY <2>1, <2>4, MovesTo
  <2>6. QED BY <2>1, <2>5, Kinds, NoMatchEffect, TypeSteps
<1>3. QED BY <1>1, <1>2

\* A write whose node goes to a state that it may be in.
LEMMA TypeWrite ==
    ASSUME TypeOK, NEW n \in Nodes, NEW l \in Locks, NEW v \in Holders,
           NEW kept \in {"none", "current", "stale"}, Write(n, l, v, kept), Moves(n)
    PROVE  TypeOK'
<1>1. /\ lease' \in Leases /\ copy' \in [Nodes -> Copies]
      /\ obsRaw' \in [Nodes -> Raws] /\ newRaw' \in [Nodes -> Raws]
  BY WriteEffect DEF Leases, Copies
<1>2. QED BY <1>1, TypeSteps

LEMMA NextCreateMoves ==
    ASSUME TypeOK, NEW n \in Nodes, NextCreate(n)
    PROVE  Moves(n)
<1>1. CASE node[n].at = N
  <2>1. node' = [node EXCEPT ![n] = Go(node[n], "settle", 1)] BY <1>1 DEF NextCreate
  <2>2. QED BY <2>1, Constants, GoEffect
<1>2. CASE node[n].at # N
  <2>1. node' = [node EXCEPT ![n] = Go(node[n], "create", node[n].at + 1)] BY <1>2 DEF NextCreate
  <2>2. node[n].at + 1 \in Locks BY <1>2, Types, Constants DEF Locks
  <2>3. QED BY <2>1, <2>2, GoEffect
<1>3. QED BY <1>1, <1>2

LEMMA TypeCreate ==
    ASSUME TypeOK, NEW n \in Nodes, CreateStep(n)
    PROVE  TypeOK'
<1>1. CASE CreateLease(n)
  <2>1. Write(n, node[n].at, n, "current") /\ NextCreate(n) BY <1>1 DEF CreateLease
  <2>2. n \in Holders BY DEF Holders
  <2>3. QED BY <2>1, <2>2, NextCreateMoves, Types, TypeWrite
<1>2. CASE CreateExisting(n)
  <2>1. /\ copy' = [copy EXCEPT ![n][node[n].at] = "none"] /\ UNCHANGED <<lease, obsRaw, newRaw>>
        /\ node' = [node EXCEPT ![n] = Failed(node[n])] \/ NextCreate(n)
    BY <1>2 DEF CreateExisting
  <2>2. Moves(n) BY <2>1, NextCreateMoves, FailedEffect
  <2>3. copy' \in [Nodes -> Copies] BY <2>1, Types, CopyEffect
  <2>4. QED BY <2>1, <2>2, <2>3, Kinds, TypeSteps
<1>3. QED BY <1>1, <1>2 DEF CreateStep

LEMMA UpdateLeaseEffect ==
    ASSUME TypeOK, NEW n \in Nodes, UpdateLease(n)
    PROVE  LET s == node[n]
               t == node'[n]
           IN  /\ s.op = "update" /\ copy[n][s.at] = "current" /\ Write(n, s.at, Value(n), "current")
               /\ Moves(n) /\ t.lag = 0 /\ t.phase = s.phase /\ t.observed = s.observed
               /\ t.age = s.age /\ t.left = s.left
               /\ (t.fast <=> s.fast) /\ (t.expired <=> s.expired)
               /\ \/ t.op = "settle" /\ s.at = N
                  \/ t.op = "check" /\ t.at = s.at + 1
<1>1. /\ node[n].op = "update" /\ copy[n][node[n].at] = "current"
      /\ Write(n, node[n].at, Value(n), "current")
  BY DEF UpdateLease
<1>2. CASE node[n].at = N
  <2>1. node' = [node EXCEPT ![n] = Go(node[n], "settle", 1)] BY <1>2 DEF UpdateLease
  <2>2. QED BY <1>1, <1>2, <2>1, Constants, GoEffect
<1>3. CASE node[n].at # N
  <2>1. node' = [node EXCEPT ![n] = Go(node[n], "check", node[n].at + 1)] BY <1>3 DEF UpdateLease
  <2>2. node[n].at + 1 \in Locks BY <1>3, Types, Constants DEF Locks
  <2>3. QED BY <1>1, <2>1, <2>2, GoEffect
<1>4. QED BY <1>2, <1>3

LEMMA TypeUpdate ==
    ASSUME TypeOK, NEW n \in Nodes, UpdateStep(n)
    PROVE  TypeOK'
<1> DEFINE s == node[n]
<1>1. s.at \in Locks /\ Value(n) \in Holders BY Types, ValueIsHolder
<1>2. CASE UpdateLease(n)
  BY <1>1, <1>2, UpdateLeaseEffect, TypeWrite
<1>3. CASE UpdateRefused(n)
  <2>1. node' = [node EXCEPT ![n] = Failed(node[n])] /\ UNCHANGED <<lease, copy, obsRaw, newRaw>>
    BY <1>3 DEF UpdateRefused
  <2>2. QED BY <2>1, FailedEffect, Kinds, TypeSteps
<1>4. CASE CheckLease(n)
  <2>1. /\ UNCHANGED <<lease, obsRaw, newRaw>>
        /\ \/ node' = [node EXCEPT ![n] = Go(node[n], "recreate", s.at)] /\ UNCHANGED copy
           \/ /\ node' = [node EXCEPT ![n] = Go(node[n], "update", s.at)]
              /\ copy' = [copy EXCEPT ![n][s.at] = "current"]
    BY <1>4 DEF CheckLease
  <2>2. Moves(n) BY <1>1, <2>1, GoEffect
  <2>3. copy' \in [Nodes -> Copies] BY <1>1, <2>1, CopyEffect, Kinds
  <2>4. QED BY <2>1, <2>2, <2>3, Kinds, TypeSteps
<1>5. CASE RecreateLease(n)
  <2>1. CASE lease[s.at] = "absent"
    <3>1. /\ Write(n, s.at, Value(n), "current")
          /\ node' = [node EXCEPT ![n] = Go(node[n], "settle", 1)]
      BY <1>5, <2>1 DEF RecreateLease
    <3>2. Moves(n) BY <3>1, Constants, GoEffect
    <3>3. QED BY <1>1, <3>1, <3>2, TypeWrite
  <2>2. CASE lease[s.at] # "absent"
    <3>1. /\ copy' = [copy EXCEPT ![n][s.at] = "none"]
          /\ node' = [node EXCEPT ![n] = Failed(node[n])] /\ UNCHANGED <<lease, obsRaw, newRaw>>
      BY <1>5, <2>2 DEF RecreateLease
    <3>2. copy' \in [Nodes -> Copies] BY <1>1, <3>1, CopyEffect
    <3>3. QED BY <3>1, <3>2, FailedEffect, Kinds, TypeSteps
  <2>3. QED BY <2>1, <2>2
<1>6. QED BY <1>2, <1>3, <1>4, <1>5 DEF UpdateStep

LEMMA SettleEffect ==
    ASSUME TypeOK, NEW n \in Nodes, Settle(n)
    PROVE  LET s == node[n]
               t == node'[n]
           IN  /\ s.op = "settle" /\ Moves(n) /\ UNCHANGED <<lease, copy, obsRaw, newRaw>>
               /\ \/ /\ s.phase \in {"acquire", "renew"} /\ t.phase = "renew" /\ t.op = "idle"
                     /\ t.at = 1 /\ t.observed = n /\ t.age = 0 /\ ~t.fast
                     /\ t.wait \in {0, RetryPeriod} /\ t.left = RenewDeadline + t.wait
                  \/ s.phase \in {"release", "stopped"} /\ t = Stopped
<1> DEFINE s == node[n]
           t == [Sleep(s) EXCEPT !.observed = n, !.age = 0]
           a == [t EXCEPT !.phase = "renew", !.wait = 0, !.left = RenewDeadline]
           r == [t EXCEPT !.left = RetryPeriod + RenewDeadline]
           u == CASE s.phase = "acquire" -> a [] s.phase = "renew" -> r [] OTHER -> Stopped
<1>1. s.op = "settle" /\ UNCHANGED <<lease, copy, obsRaw, newRaw>> /\ node' = [node EXCEPT ![n] = u]
  BY DEF Settle
<1>2. s \in NodeStates /\ s.phase \in {"acquire", "renew", "release", "stopped"} BY Types
<1>3. /\ a \in NodeStates /\ a.phase = "renew" /\ a.op = "idle" /\ a.at = 1 /\ a.observed = n
      /\ a.age = 0 /\ a.wait = 0 /\ a.left = RenewDeadline /\ ~a.fast
  <2>1. n \in Holders \cup Unknowns /\ RenewDeadline \in 0..(RetryPeriod + RenewDeadline)
    BY Units DEF Holders
  <2> HIDE DEF s
  <2>2. QED BY <1>2, <2>1, Units, Zenon DEF Sleep, NodeStates
<1>4. /\ r \in NodeStates /\ r.phase = s.phase /\ r.op = "idle" /\ r.at = 1 /\ r.observed = n
      /\ r.age = 0 /\ r.wait = RetryPeriod /\ r.left = RetryPeriod + RenewDeadline
      /\ ~r.fast
  <2>1. n \in Holders \cup Unknowns
        /\ RetryPeriod + RenewDeadline \in 0..(RetryPeriod + RenewDeadline)
    BY Units DEF Holders
  <2> HIDE DEF s
  <2>2. QED BY <1>2, <2>1, Units, Zenon DEF Sleep, NodeStates
<1> HIDE DEF a, r
<1>5. CASE s.phase = "acquire"
  <2>1. node' = [node EXCEPT ![n] = a] BY <1>1, <1>5
  <2>2. Moves(n) /\ node'[n] = a BY <1>3, <2>1, MovesTo
  <2>3. QED BY <1>1, <1>3, <1>5, <2>2, Constants
<1>6. CASE s.phase = "renew"
  <2>1. node' = [node EXCEPT ![n] = r] BY <1>1, <1>6
  <2>2. Moves(n) /\ node'[n] = r BY <1>4, <2>1, MovesTo
  <2>3. QED BY <1>1, <1>4, <1>6, <2>2, Constants
<1>7. CASE s.phase \in {"release", "stopped"}
  <2>1. node' = [node EXCEPT ![n] = Stopped] BY <1>1, <1>7
  <2>2. Moves(n) /\ node'[n] = Stopped BY <2>1, FreshState, MovesTo
  <2>3. QED BY <1>1, <1>7, <2>2
<1>8. QED BY <1>2, <1>5, <1>6, <1>7

\* The ends of a session: n gives up, is cancelled, or dies.
LEMMA EndEffect ==
    ASSUME TypeOK, NEW n \in Nodes, GiveUp(n) \/ Cancel(n) \/ Crash(n)
    PROVE  LET s == node[n]
               t == node'[n]
           IN  /\ Moves(n) /\ NoMatch(n) /\ UNCHANGED <<lease, copy, obsRaw>>
               /\ \/ t = Stopped
                  \/ /\ s.phase = "renew" /\ t.phase = "release" /\ t.op = "get" /\ t.at = 1
                     /\ t.lag = 0 /\ t.observed = s.observed /\ ~t.expired /\ ~t.fast
<1> DEFINE s == node[n]
           t == Release(s)
<1>1. /\ NoMatch(n) /\ UNCHANGED <<lease, copy, obsRaw>>
      /\ \/ node' = [node EXCEPT ![n] = Stopped]
         \/ s.phase = "renew" /\ node' = [node EXCEPT ![n] = t]
  BY DEF GiveUp, Cancel, Crash
<1>2. s \in NodeStates BY Types
<1>3. /\ t \in NodeStates /\ t.phase = "release" /\ t.op = "get" /\ t.at = 1 /\ t.lag = 0
      /\ t.observed = s.observed /\ ~t.expired /\ ~t.fast
  <2> HIDE DEF s
  <2>1. QED BY <1>2, Units, Zenon DEF Release, Go, Sleep, NodeStates
<1> HIDE DEF t
<1>4. CASE node' = [node EXCEPT ![n] = Stopped]
  BY <1>1, <1>4, FreshState, MovesTo
<1>5. CASE s.phase = "renew" /\ node' = [node EXCEPT ![n] = t]
  <2>1. Moves(n) /\ node'[n] = t BY <1>3, <1>5, MovesTo
  <2>2. QED BY <1>1, <1>3, <1>5, <2>1
<1>6. QED BY <1>1, <1>4, <1>5

LEMMA RestartEffect ==
    ASSUME TypeOK, NEW n \in Nodes, Restart(n)
    PROVE  /\ node[n].phase = "stopped" /\ Moves(n) /\ node'[n] = Fresh
           /\ copy' \in [Nodes -> Copies] /\ obsRaw' \in [Nodes -> Raws] /\ UNCHANGED <<lease, newRaw>>
           /\ \A l \in Locks : copy'[n][l] = "none" /\ obsRaw'[n][l] = "missing"
           /\ \A m \in Nodes : m # n => copy'[m] = copy[m] /\ obsRaw'[m] = obsRaw[m]
<1>1. /\ node[n].phase = "stopped" /\ UNCHANGED <<lease, newRaw>>
      /\ node' = [node EXCEPT ![n] = Fresh]
      /\ copy' = [copy EXCEPT ![n] = [l \in Locks |-> "none"]]
      /\ obsRaw' = [obsRaw EXCEPT ![n] = [l \in Locks |-> "missing"]]
  BY DEF Restart
<1>2. Moves(n) /\ node'[n] = Fresh BY <1>1, FreshState, MovesTo
<1>3. [l \in Locks |-> "none"] \in Copies /\ [l \in Locks |-> "missing"] \in Raws
  BY DEF Copies, Raws
<1>4. QED BY <1>1, <1>2, <1>3, Kinds

LEMMA TypeElector ==
    ASSUME TypeOK, NEW n \in Nodes, Settle(n) \/ GiveUp(n) \/ Restart(n) \/ FaultStep(n)
    PROVE  TypeOK'
<1>1. CASE Settle(n) BY <1>1, SettleEffect, Kinds, TypeSteps
<1>2. CASE GiveUp(n) \/ Cancel(n) \/ Crash(n)
  BY <1>2, EndEffect, NoMatchEffect, Kinds, TypeSteps
<1>3. CASE Restart(n) BY <1>3, RestartEffect, Kinds, TypeSteps
<1>4. CASE RequestFails(n)
  <2> DEFINE l == node[n].at
             c == IF Creates(node[n]) THEN "none" ELSE copy[n][l]
  <2>1. /\ NoMatch(n) /\ UNCHANGED <<lease, obsRaw>> /\ copy' = [copy EXCEPT ![n][l] = c]
        /\ \/ node' = [node EXCEPT ![n] = Go(node[n], "update", l)]
           \/ node' = [node EXCEPT ![n] = Failed(node[n])]
    BY <1>4 DEF RequestFails
  <2>2. Moves(n) BY <2>1, Types, GoEffect, FailedEffect
  <2>3. l \in Locks /\ c \in {"none", "current", "stale"} BY Types
  <2>4. copy' \in [Nodes -> Copies] BY <2>1, <2>3, CopyEffect
  <2>5. QED BY <2>1, <2>2, <2>4, NoMatchEffect, Kinds, TypeSteps
<1>5. CASE AnswerLost(n)
  <2>1. PICK kept \in {"none", "stale"} : /\ Write(n, node[n].at, Value(n), kept)
                                         /\ node' = [node EXCEPT ![n] = Failed(node[n])]
    BY <1>5 DEF AnswerLost
  <2>2. kept \in {"none", "current", "stale"} OBVIOUS
  <2>3. Moves(n) /\ node[n].at \in Locks /\ Value(n) \in Holders
    BY <2>1, FailedEffect, Types, ValueIsHolder
  <2>4. QED BY <2>1, <2>2, <2>3, TypeWrite
<1>6. QED BY <1>1, <1>2, <1>3, <1>4, <1>5 DEF FaultStep

\* One unit of time in the life of a node.
LEMMA OlderState ==
    ASSUME NEW s \in NodeStates, MayWait(s)
    PROVE  LET t == Older(s)
           IN  /\ t \in NodeStates
               /\ t.phase = s.phase /\ t.op = s.op /\ t.at = s.at /\ t.seen = s.seen
               /\ t.observed = s.observed
               /\ t.same = s.same /\ (t.fast <=> s.fast) /\ (t.expired <=> s.expired)
               /\ \/ t.age = s.age + 1
                  \/ t.age = s.age /\ (s.age >= Dur(s.observed) \/ s.phase \in {"release", "stopped"})
               /\ (s.phase # "stopped" /\ s.op # "idle" => t.lag = s.lag + 1)
               /\ (s.phase = "renew" => t.left = s.left - 1 /\ s.left > 0)
               /\ (s.phase = "renew" /\ s.op = "idle" => t.wait = s.wait - 1 /\ s.wait > 0)
<1> DEFINE age == IF s.age >= Dur(s.observed) \/ s.phase = "release" THEN s.age ELSE s.age + 1
           lag == IF s.op = "idle" THEN 0 ELSE s.lag + 1
           wait == IF s.op = "idle" THEN Minus1(s.wait) ELSE s.wait
           left == IF s.phase = "renew" THEN s.left - 1 ELSE s.left
           t == [s EXCEPT !.age = age, !.lag = lag, !.wait = wait, !.left = left]
<1>1. Older(s) = IF s.phase = "stopped" THEN s ELSE t BY DEF Older
<1>2. /\ s.age \in 0..LeaseDuration /\ s.lag \in 0..Lag /\ s.wait \in 0..RetryPeriod
      /\ s.left \in 0..(RetryPeriod + RenewDeadline)
  BY Zenon DEF NodeStates
<1>3. /\ s.op # "idle" => s.lag < Lag
      /\ s.phase = "renew" => s.left > 0
      /\ s.phase = "renew" /\ s.op = "idle" => s.wait > 0
  BY DEF MayWait
<1>4. /\ age \in 0..LeaseDuration
      /\ age = s.age + 1 \/ (age = s.age /\ (s.age >= Dur(s.observed) \/ s.phase = "release"))
  BY <1>2, Constants DEF Dur
<1>5. lag \in 0..Lag /\ (s.op # "idle" => lag = s.lag + 1) BY <1>2, <1>3, Constants
<1>6. wait \in 0..RetryPeriod /\ (s.phase = "renew" /\ s.op = "idle" => wait = s.wait - 1)
  BY <1>2, <1>3, Constants DEF Minus1
<1>7. left \in 0..(RetryPeriod + RenewDeadline) /\ (s.phase = "renew" => left = s.left - 1)
  BY <1>2, <1>3, Constants
<1> HIDE DEF age, lag, wait, left
<1>8. /\ t \in NodeStates /\ t.age = age /\ t.lag = lag /\ t.wait = wait /\ t.left = left
      /\ t.phase = s.phase /\ t.op = s.op /\ t.at = s.at /\ t.seen = s.seen
      /\ t.observed = s.observed
      /\ t.same = s.same /\ (t.fast <=> s.fast) /\ (t.expired <=> s.expired)
  BY <1>4, <1>5, <1>6, <1>7, Zenon DEF NodeStates
<1> HIDE DEF t
<1>9. CASE s.phase = "stopped"
  <2>1. Older(s) = s BY <1>1, <1>9
  <2>2. QED BY <2>1, <1>2, <1>9, Constants
<1>10. CASE s.phase # "stopped"
  <2>1. Older(s) = t BY <1>1, <1>10
  <2>2. QED BY <1>3, <1>4, <1>5, <1>6, <1>7, <1>8, <1>10, <2>1
<1>11. QED BY <1>9, <1>10

LEMMA TypeTick ==
    ASSUME TypeOK, Tick
    PROVE  TypeOK'
<1>1. /\ \A n \in Nodes : MayWait(node[n])
      /\ node' = [n \in Nodes |-> Older(node[n])] /\ UNCHANGED <<lease, copy, obsRaw, newRaw>>
  BY DEF Tick
<1>2. \A n \in Nodes : Older(node[n]) \in NodeStates BY <1>1, Types, OlderState
<1>3. node' \in [Nodes -> NodeStates] BY <1>1, <1>2
<1>4. QED BY <1>1, <1>3 DEF TypeOK, NodeStates

LEMMA TypeInit == Init => TypeOK
<1> SUFFICES ASSUME Init PROVE TypeOK OBVIOUS
<1>1. node \in [Nodes -> NodeStates] BY FreshState DEF Init
<1>2. lease \in Leases BY Constants DEF Init, Leases
<1>3. copy \in [Nodes -> Copies] BY DEF Init, Uniform, Copies
<1>4. obsRaw \in [Nodes -> Raws] /\ newRaw \in [Nodes -> Raws] BY DEF Init, Uniform, Raws
<1>5. QED BY <1>1, <1>2, <1>3, <1>4 DEF TypeOK, NodeStates, Leases, Copies, Raws

LEMMA TypeInductive == TypeOK /\ [Next]_vars => TypeOK'
<1> SUFFICES ASSUME TypeOK, [Next]_vars PROVE TypeOK' OBVIOUS
<1>1. CASE Tick BY <1>1, TypeTick
<1>2. ASSUME NEW n \in Nodes,
             \/ Try(n) \/ GetStep(n) \/ CreateStep(n) \/ UpdateStep(n)
             \/ Settle(n) \/ GiveUp(n) \/ Restart(n) \/ FaultStep(n)
      PROVE  TypeOK'
  BY <1>2, TypeTry, TypeReadLease, TypeReadMissing, TypeCreate, TypeUpdate, TypeElector DEF GetStep
<1>3. CASE UNCHANGED vars BY <1>3 DEF vars, TypeOK
<1>4. QED BY <1>1, <1>2, <1>3 DEF Next

\* The type invariant: every action leaves the leases, the copies, the records and the
\* elector of every node in their sets; in particular the age of a record never passes
\* LeaseDuration, no request takes longer than Lag, and the walk over the clusters stays
\* within them.
THEOREM TypeCorrect == Spec => []TypeOK
BY TypeInit, TypeInductive, PTL DEF Spec

-----------------------------------------------------------------------------
(***************************************************************************)
(* The lock of several clusters, when requests do not fail and the leases  *)
(* exist.  What has to be shown is that nobody overwrites the primary of a *)
(* node that holds it, although nobody reads all leases at one moment and  *)
(* the clocks are separate.  Two arguments meet in the invariant:          *)
(*   - a write of the primary succeeds only with a current copy, so what   *)
(*     has been concluded from a read of the primary stays true for as     *)
(*     long as the copy is current;                                        *)
(*   - a node that takes a record for expired has not seen it change for   *)
(*     LeaseDuration.  Of the secondaries the last one alone is sure to be *)
(*     in it, so that a holder has to get from the primary to the last in  *)
(*     less (LeaseOutlastsWalk), and to renew or give up in less.          *)
(***************************************************************************)

Reliable == ~StartsEmpty /\ "error" \notin Faults

\* The wait for the answer of a renewal, the pause after it and the time allowed for the
\* next one fit into the lease.  (locker.go's defaults: a lease of 30 s, RenewDeadline of
\* 15 s, RetryPeriod of 5 s, and requests that time out after half of RenewDeadline.)
LeaseOutlastsRenewal == Lag + RetryPeriod + RenewDeadline < LeaseDuration

\* And so does the walk over the secondaries, two requests each: a Get does not tell the
\* writes of a secondary that is not the last.  (With requests of 7.5 s that is so for two
\* clusters, 15 s, and no longer for three, 30 s.)
LeaseOutlastsWalk ==
    /\ LeaseOutlastsRenewal
    /\ 2 * Lag <= RenewDeadline
    /\ (N - 1) * (2 * Lag) < LeaseDuration

\* A call has written the primary and is on its way through the secondaries.
Walks(s) == s.op \in {"check", "settle"} \/ (s.op = "update" /\ s.at > 1)

\* A Get has read the primary.
Reading(s) == s.op = "get" /\ s.at > 1

\* The primary belongs to n, from its write to the first request of its release.
Holds(s, n) ==
    \/ s.phase = "renew"
    \/ s.phase = "acquire" /\ Walks(s)
    \/ s.phase = "release" /\ s.op = "get" /\ s.at = 1 /\ s.observed = n

Holding(n) == Holds(node[n], n)

NoOther(n) == \A m \in Nodes : m # n => ~Holding(m)

HasPrimary(n) == Holding(n) => lease[1] = n /\ copy[n][1] = "current"

\* Names that do not keep n from taking the lock at once.
Friendly(n) == {n, "nobody", "unknownReleased"}

\* What n has concluded from its reads of the primary, while what it read is current.
ClaimIsFree(n) == node[n].op = "update" /\ node[n].at = 1 /\ copy[n][1] = "current" => NoOther(n)

OwnRecordIsTrue(n) ==
    /\ node[n].observed = n /\ copy[n][1] = "current"
    /\ node[n].phase = "release" \/ ~Reading(node[n])
    => NoOther(n)

RecordIsTrue(n) ==
    /\ node[n].phase # "stopped"
    /\ node[n].observed \in Friendly(n) /\ obsRaw[n][1] = "current"
    => NoOther(n)

ReadIsTrue(n) ==
    Reading(node[n]) =>
    /\ newRaw[n][1] # "missing"
    /\ newRaw[n][1] = "current" => copy[n][1] = "current"
    /\ node[n].seen \in Friendly(n) /\ copy[n][1] = "current" => NoOther(n)
    /\ /\ node[n].phase = "acquire" /\ copy[n][1] = "current" /\ 1 \in node[n].same
       /\ node[n].expired \/ node[n].observed \in Friendly(n)
       => NoOther(n) \/ obsRaw[n][N] # "current"

ExpiryIsTrue(s) ==
    /\ s.op = "get" /\ s.expired => s.age >= Dur(s.observed)
    /\ s.fast => ~s.expired

\* The last renewal is not older than the wait, the update after it included.
Rested(s, n) ==
    /\ s.observed = n
    /\ \/ s.op = "idle" /\ s.age + s.wait <= RetryPeriod
       \/ s.op = "update" /\ s.at = 1 /\ s.age <= RetryPeriod + s.lag

InTime(s, n) ==
    s.phase = "renew" =>
    /\ s.op # "idle" => s.left <= RenewDeadline
    /\ s.op = "idle" => s.left <= RenewDeadline + s.wait
    /\ s.left <= RenewDeadline \/ Rested(s, n)

\* How long the walk has taken when it comes to secondary l.
Walked(l) == (l - 2) * (2 * Lag)

\* How long a record that a holder wrote can have been unchanged.
Quiet(s, n, age) ==
    /\ s.phase = "release" =>
         age <= s.lag + 2 * Lag + RetryPeriod \/ age <= s.lag + RenewDeadline
    /\ s.phase # "release" /\ Walks(s) =>
         /\ s.op = "check" => age <= Walked(s.at) + s.lag
         /\ s.op = "update" => age <= Walked(s.at) + Lag + s.lag
         /\ s.op = "settle" => age <= s.lag
         /\ s.phase = "renew" => age + s.left <= RenewDeadline
    /\ s.phase = "renew" /\ ~Walks(s) =>
         age + s.left <= RenewDeadline \/ (Rested(s, n) /\ age <= Lag + s.age)

\* What n observed is what a Get would find now: of the secondaries that is sure to be in
\* the record only of the last.
Visible(n) == obsRaw[n][1] = "current" /\ obsRaw[n][N] = "current"

Seen(m, n) ==
    /\ m # n /\ Holding(m) /\ node[n].phase = "acquire" /\ Visible(n)
    => Quiet(node[m], m, node[n].age)

\* Nothing is missing, so that nothing is created; a release has no pauses.
Regular(s) ==
    /\ s.op \notin {"create", "recreate"}
    /\ s.phase = "release" => s.op # "idle"
    /\ s.phase = "stopped" => s.op = "idle"
    /\ s.op = "check" => s.at > 1

NodeInv(n) ==
    /\ Regular(node[n]) /\ HasPrimary(n) /\ ClaimIsFree(n) /\ OwnRecordIsTrue(n)
    /\ RecordIsTrue(n) /\ ReadIsTrue(n) /\ ExpiryIsTrue(node[n]) /\ InTime(node[n], n)

IInv ==
    /\ TypeOK
    /\ \A l \in Locks : lease[l] # "absent"
    /\ \A n \in Nodes : NodeInv(n)
    /\ \A m, n \in Nodes : Seen(m, n)

-----------------------------------------------------------------------------
(* The invariant under a step of one node that writes nothing. *)

LEMMA Parts ==
    ASSUME IInv, NEW n \in Nodes
    PROVE  /\ TypeOK /\ (\A l \in Locks : lease[l] # "absent") /\ lease[1] \in Holders
           /\ Regular(node[n]) /\ HasPrimary(n) /\ ClaimIsFree(n) /\ OwnRecordIsTrue(n)
           /\ RecordIsTrue(n) /\ ReadIsTrue(n) /\ ExpiryIsTrue(node[n]) /\ InTime(node[n], n)
           /\ \A m \in Nodes : Seen(m, n) /\ Seen(n, m)
<1>1. TypeOK /\ (\A l \in Locks : lease[l] # "absent") BY DEF IInv
<1>2. lease[1] \in Holders BY <1>1, Kinds, Constants DEF Leases
<1>3. QED BY <1>1, <1>2 DEF IInv, NodeInv

LEMMA HolderAlone ==
    ASSUME IInv, NEW n \in Nodes, lease[1] \in Friendly(n)
    PROVE  NoOther(n)
<1> SUFFICES ASSUME NEW m \in Nodes, m # n, Holding(m) PROVE FALSE BY DEF NoOther
<1>1. lease[1] = m BY Parts DEF HasPrimary
<1>2. QED BY <1>1, IdentitiesAreNames DEF Friendly

LEMMA HoldersOwn ==
    ASSUME IInv, NEW n \in Nodes, Holding(n)
    PROVE  lease[1] = n /\ copy[n][1] = "current" /\ NoOther(n)
<1>1. lease[1] = n /\ copy[n][1] = "current" BY Parts DEF HasPrimary
<1>2. QED BY <1>1, HolderAlone DEF Friendly

\* Every secondary takes two requests, and the last is reached before the lease runs out.
LEMMA WalkBound ==
    ASSUME NEW l \in Locks, l > 1
    PROVE  /\ Walked(l) \in Nat
           /\ Walked(l + 1) = Walked(l) + 2 * Lag
           /\ LeaseOutlastsWalk => Walked(l) + 2 * Lag < LeaseDuration
<1> DEFINE X == 2 * Lag
<1>1. l \in Nat /\ l - 2 \in Nat /\ N - l \in Nat BY Constants DEF Locks
<1>2. X \in Nat BY Constants
<1>3. Walked(l) = (l - 2) * X /\ Walked(l + 1) = (l - 1) * X BY <1>1 DEF Walked
<1>4. LeaseOutlastsWalk => (N - 1) * X < LeaseDuration BY DEF LeaseOutlastsWalk
<1> HIDE DEF X
<1>5. (l - 2) * X \in Nat /\ (N - l) * X \in Nat BY <1>1, <1>2
<1>6. (l - 1) * X = (l - 2) * X + X BY <1>1, <1>2
<1>7. (N - 1) * X = (N - l) * X + (l - 1) * X BY <1>1, <1>2, Constants
<1>8. (l - 2) * X + X <= (N - 1) * X BY <1>2, <1>5, <1>6, <1>7
<1>9. LeaseOutlastsWalk => Walked(l) + X < LeaseDuration
  BY <1>2, <1>3, <1>4, <1>5, <1>7, <1>8, Constants
<1>10. QED BY <1>3, <1>5, <1>6, <1>9 DEF X

\* A record that has just been read has not been quiet for long.
LEMMA QuietNow ==
    ASSUME IInv, NEW m \in Nodes
    PROVE  Quiet(node[m], m, 0)
<1>1. TypeOK /\ InTime(node[m], m) BY Parts
<1>2. /\ node[m].lag \in Nat /\ node[m].left \in Nat /\ node[m].age \in Nat
      /\ node[m].at \in Locks
  BY <1>1, Types, Constants
<1>3. Walks(node[m]) /\ node[m].op # "settle" => Walked(node[m].at) \in Nat
  BY <1>2, WalkBound, Parts DEF Walks, Regular
<1>4. QED BY <1>1, <1>2, <1>3, Constants DEF Quiet, InTime, Walks

\* When the others do not move, none of them begins to hold the primary.
LEMMA SameOthers ==
    ASSUME TypeOK, NEW n \in Nodes, Moves(n)
    PROVE  /\ \A m \in Nodes : m # n => node'[m] = node[m] /\ (Holding(m)' <=> Holding(m))
           /\ NoOther(n)' <=> NoOther(n)
<1>1. \A m \in Nodes : m # n => node'[m] = node[m] BY Types DEF Moves
<1>2. \A m \in Nodes : m # n => (Holding(m)' <=> Holding(m)) BY <1>1 DEF Holding
<1>3. NoOther(n)' <=> NoOther(n) BY <1>2 DEF NoOther
<1>4. QED BY <1>1, <1>2, <1>3

LEMMA NodeStep ==
    ASSUME IInv, TypeOK', NEW n \in Nodes, Moves(n), UNCHANGED lease,
           \A m \in Nodes : m # n => /\ copy'[m] = copy[m] /\ obsRaw'[m] = obsRaw[m]
                                     /\ newRaw'[m] = newRaw[m],
           Holding(n)' => Holding(n) /\ copy'[n][1] = "current",
           Regular(node'[n]), ClaimIsFree(n)', OwnRecordIsTrue(n)', RecordIsTrue(n)',
           ReadIsTrue(n)', ExpiryIsTrue(node'[n]), InTime(node'[n], n),
           Holding(n)' => \A age \in Nat : Quiet(node[n], n, age) => Quiet(node'[n], n, age),
           node'[n].phase = "acquire" /\ Visible(n)' =>
               \/ node'[n].age = 0
               \/ node[n].phase = "acquire" /\ node'[n].age = node[n].age /\ Visible(n)
    PROVE  IInv'
<1>1. TypeOK /\ NodeInv(n) BY DEF IInv
<1>2. /\ \A m \in Nodes : m # n => node'[m] = node[m] /\ (Holding(m)' <=> Holding(m))
      /\ NoOther(n)' <=> NoOther(n)
  BY <1>1, SameOthers
<1>3. \A l \in Locks : lease'[l] # "absent" BY DEF IInv
<1>4. NodeInv(n)'
  <2>1. HasPrimary(n)' BY Parts DEF HasPrimary
  <2>2. QED BY <2>1 DEF NodeInv
<1>5. ASSUME NEW m \in Nodes, m # n
      PROVE  NodeInv(m)'
  <2>1. /\ node'[m] = node[m] /\ copy'[m] = copy[m] /\ obsRaw'[m] = obsRaw[m]
        /\ newRaw'[m] = newRaw[m] /\ lease' = lease
    BY <1>2, <1>5
  <2>2. \A k \in Nodes : Holding(k)' => Holding(k) BY <1>2
  <2>3. NoOther(m) => NoOther(m)' BY <2>2 DEF NoOther
  <2>4. NodeInv(m) BY DEF IInv
  <2>5. Regular(node[m])' /\ ExpiryIsTrue(node[m])' /\ InTime(node[m], m)'
    BY <2>1, <2>4 DEF NodeInv
  <2>6. HasPrimary(m)' BY <1>5, <2>1, <2>2, <2>4 DEF NodeInv, HasPrimary
  <2>7. ClaimIsFree(m)' /\ OwnRecordIsTrue(m)' /\ RecordIsTrue(m)'
    BY <2>1, <2>3, <2>4 DEF NodeInv, ClaimIsFree, OwnRecordIsTrue, RecordIsTrue
  <2>8. ReadIsTrue(m)' BY <2>1, <2>3, <2>4 DEF NodeInv, ReadIsTrue
  <2>9. QED BY <2>5, <2>6, <2>7, <2>8 DEF NodeInv
<1>6. ASSUME NEW m \in Nodes, NEW k \in Nodes
      PROVE  Seen(m, k)'
  <2> SUFFICES ASSUME m # k, Holding(m)', node'[k].phase = "acquire", Visible(k)'
               PROVE  Quiet(node'[m], m, node'[k].age)
    BY DEF Seen
  <2>1. Seen(m, k) /\ Holding(m) BY <1>2, Parts
  <2>2. node[k].age \in Nat BY <1>1, Types, Constants
  <2>3. CASE k = n
    <3>1. node'[m] = node[m] BY <1>2, <2>3
    <3>2. CASE node'[n].age = 0 BY <2>3, <3>1, <3>2, QuietNow
    <3>3. CASE node[n].phase = "acquire" /\ node'[n].age = node[n].age /\ Visible(n)
      BY <2>1, <2>3, <3>1, <3>3 DEF Seen
    <3>4. QED BY <2>3, <3>2, <3>3
  <2>4. CASE k # n
    <3>1. node'[k] = node[k] /\ obsRaw'[k] = obsRaw[k] BY <1>2, <2>4
    <3>2. Quiet(node[m], m, node[k].age) BY <2>1, <3>1 DEF Seen, Visible
    <3>3. QED BY <1>2, <2>2, <3>1, <3>2
  <2>5. QED BY <2>3, <2>4
<1>7. QED BY <1>3, <1>4, <1>5, <1>6 DEF IInv

\* A node that stops, for whatever reason, holds nothing and concludes nothing.
LEMMA StopStep ==
    ASSUME IInv, TypeOK', NEW n \in Nodes, Moves(n), node'[n] = Stopped, UNCHANGED lease,
           \A m \in Nodes : m # n => /\ copy'[m] = copy[m] /\ obsRaw'[m] = obsRaw[m]
                                     /\ newRaw'[m] = newRaw[m]
    PROVE  IInv'
<1>1. /\ node'[n].phase = "stopped" /\ node'[n].op = "idle" /\ node'[n].observed = "nobody"
      /\ ~node'[n].fast
  BY FreshState
<1>2. ~Holding(n)' BY <1>1 DEF Holding, Holds
<1>3. Regular(node'[n]) /\ ExpiryIsTrue(node'[n]) /\ InTime(node'[n], n)
  BY <1>1 DEF Regular, ExpiryIsTrue, InTime
<1>4. ClaimIsFree(n)' /\ OwnRecordIsTrue(n)' /\ RecordIsTrue(n)' /\ ReadIsTrue(n)'
  BY <1>1, IdentitiesAreNames DEF ClaimIsFree, OwnRecordIsTrue, RecordIsTrue, ReadIsTrue, Reading
<1>5. QED BY <1>1, <1>2, <1>3, <1>4, NodeStep DEF Visible

LEMMA SafeTry ==
    ASSUME IInv, NEW n \in Nodes, Try(n)
    PROVE  IInv'
<1> DEFINE s == node[n]
           t == node'[n]
<1>1. /\ s.phase \in {"acquire", "renew"} /\ s.op = "idle" /\ s.wait = 0
      /\ Moves(n) /\ t.phase = s.phase /\ t.at = 1 /\ t.lag = 0
      /\ t.observed = s.observed /\ t.age = s.age /\ t.left = s.left
      /\ (t.expired <=> s.age >= Dur(s.observed)) /\ (t.fast => ~t.expired)
      /\ \/ t.op = "update" /\ s.observed = n
         \/ t.op = "get" /\ ~(s.observed = n /\ s.age < Dur(s.observed))
      /\ lease' = lease /\ copy' = copy /\ obsRaw' = obsRaw /\ newRaw' = newRaw
  BY Parts, TryEffect
<1>2. TypeOK /\ TypeOK' BY Parts, TypeTry
<1>3. NoOther(n)' <=> NoOther(n) BY <1>1, <1>2, SameOthers
<1>4. s.age \in Nat /\ s.left \in Nat /\ Dur(n) = LeaseDuration
  BY <1>2, Types, Constants, IdentitiesAreNames DEF Dur
<1>5. Holding(n)' => Holding(n) /\ copy'[n][1] = "current"
  <2>1. Holding(n)' => s.phase = "renew" BY <1>1 DEF Holding, Holds, Walks
  <2>2. s.phase = "renew" => Holding(n) BY DEF Holding, Holds
  <2>3. QED BY <1>1, <2>1, <2>2, HoldersOwn
<1>6. Regular(t) /\ ExpiryIsTrue(t) BY <1>1 DEF Regular, ExpiryIsTrue
<1>7. ClaimIsFree(n)' /\ OwnRecordIsTrue(n)'
  BY <1>1, <1>3, Parts DEF ClaimIsFree, OwnRecordIsTrue, Reading
<1>8. RecordIsTrue(n)' /\ ReadIsTrue(n)'
  BY <1>1, <1>3, Parts DEF RecordIsTrue, ReadIsTrue, Reading
<1>9. InTime(t, n)
  <2>1. InTime(s, n) BY Parts
  <2>2. s.phase = "renew" => s.left <= RenewDeadline BY <1>1, <1>4, <2>1, Constants DEF InTime
  <2>3. QED BY <1>1, <2>2 DEF InTime
<1>10. ASSUME Holding(n)', NEW age \in Nat, Quiet(s, n, age)
       PROVE  Quiet(t, n, age)
  <2>1. s.phase = "renew" BY <1>1, <1>10 DEF Holding, Holds, Walks
  <2>2. ~Walks(s) /\ ~Walks(t) BY <1>1 DEF Walks
  <2>3. age + s.left <= RenewDeadline \/ (Rested(s, n) /\ age <= Lag + s.age)
    BY <1>10, <2>1, <2>2 DEF Quiet
  <2>4. Rested(s, n) => Rested(t, n) BY <1>1, <1>4, Constants DEF Rested
  <2>5. QED BY <1>1, <2>1, <2>2, <2>3, <2>4 DEF Quiet
<1>11. QED BY <1>1, <1>2, <1>5, <1>6, <1>7, <1>8, <1>9, <1>10, NodeStep DEF Visible

\* What a node may conclude from the lease that it reads.
LEMMA ReadFacts ==
    ASSUME LeaseOutlastsWalk, IInv, NEW n \in Nodes, ReadLease(n)
    PROVE  LET s == node[n]
               mismatch == s.at > 1 /\ s.seen # lease[s.at]
               h == IF mismatch THEN Mismatch(s.seen) ELSE lease[s.at]
               same == {k \in 1..s.at : IF k = s.at THEN obsRaw[n][k] = "current" ELSE k \in s.same}
               raw == Collected(newRaw[n], s.at, mismatch)
           IN  /\ s.op = "get" /\ s.phase # "stopped"
               /\ \A m \in Nodes : m # n => copy'[m] = copy[m]
               /\ copy[n][1] = "current" => copy'[n][1] = "current"
               /\ raw \in Raws /\ raw[s.at] = "current" /\ raw[1] # "missing"
               /\ raw[1] = "current" => copy'[n][1] = "current"
               /\ h \in Friendly(n) /\ copy'[n][1] = "current" => NoOther(n)
               /\ (s.phase = "release" /\ s.observed = n /\ copy'[n][1] = "current" => NoOther(n))
               /\ (/\ s.phase = "acquire" /\ copy'[n][1] = "current" /\ 1 \in same
                   /\ s.expired \/ s.observed \in Friendly(n)
                   => NoOther(n) \/ obsRaw[n][N] # "current")
<1> DEFINE s == node[n]
           mismatch == s.at > 1 /\ s.seen # lease[s.at]
           h == IF mismatch THEN Mismatch(s.seen) ELSE lease[s.at]
           same == {k \in 1..s.at : IF k = s.at THEN obsRaw[n][k] = "current" ELSE k \in s.same}
           raw == Collected(newRaw[n], s.at, mismatch)
<1>1. s.op = "get" /\ copy' = [copy EXCEPT ![n][s.at] = "current"] BY DEF ReadLease
<1>2. TypeOK /\ s.phase # "stopped" /\ s.at \in Locks /\ s.at \in Nat /\ 1 <= s.at
  BY <1>1, Parts, Types DEF Regular
<1>3. /\ copy'[n][s.at] = "current"
      /\ \A k \in Locks : k # s.at => copy'[n][k] = copy[n][k]
      /\ \A m \in Nodes : m # n => copy'[m] = copy[m]
  BY <1>1, <1>2, CopyEffect
<1>4. /\ s.at = 1 => copy'[n][1] = "current"
      /\ s.at # 1 => copy'[n][1] = copy[n][1] /\ Reading(s)
  BY <1>1, <1>2, <1>3, Constants DEF Reading
<1>5. /\ raw \in Raws /\ raw[s.at] = "current" /\ raw[1] # "missing"
      /\ raw[1] = "current" => copy'[n][1] = "current"
  <2>1. raw \in Raws /\ raw[s.at] = "current" /\ (s.at # 1 => raw[1] = newRaw[n][1])
    BY <1>2, Types, CollectedEffect
  <2> HIDE DEF raw
  <2>2. CASE s.at = 1 BY <1>4, <2>1, <2>2
  <2>3. CASE s.at # 1 BY <1>4, <2>1, <2>3, Parts DEF ReadIsTrue
  <2>4. QED BY <2>1, <2>2, <2>3
<1>6. h \in Friendly(n) /\ copy'[n][1] = "current" => NoOther(n)
  <2>1. CASE s.at = 1 BY <2>1, HolderAlone
  <2>2. CASE s.at # 1
    <3>1. h = Mismatch(s.seen) \/ h = s.seen BY <1>2, <2>2
    <3> HIDE DEF h
    <3>2. h \in Friendly(n) => s.seen \in Friendly(n)
      BY <3>1, IdentitiesAreNames DEF Mismatch, Friendly
    <3>3. QED BY <1>4, <2>2, <3>2, Parts DEF ReadIsTrue
  <2>3. QED BY <2>1, <2>2
<1>7. s.phase = "release" /\ s.observed = n /\ copy'[n][1] = "current" => NoOther(n)
  <2>1. CASE s.at = 1
    <3>1. s.phase = "release" /\ s.observed = n => Holding(n) BY <1>1, <2>1 DEF Holding, Holds
    <3>2. QED BY <3>1, HoldersOwn
  <2>2. CASE s.at # 1 BY <1>4, <2>2, Parts DEF OwnRecordIsTrue
  <2>3. QED BY <2>1, <2>2
<1>8. ASSUME s.phase = "acquire", copy'[n][1] = "current", 1 \in same,
             s.expired \/ s.observed \in Friendly(n), obsRaw[n][N] = "current"
      PROVE  NoOther(n)
  <2>1. CASE s.at = 1
    <3>1. Visible(n) BY <1>8, <2>1 DEF Visible
    <3>2. CASE s.observed \in Friendly(n) BY <1>8, <2>1, <3>2, Parts DEF RecordIsTrue
    <3>3. CASE s.observed \notin Friendly(n)
      <4>1. s.age >= LeaseDuration
        BY <1>1, <1>8, <3>3, Parts DEF ExpiryIsTrue, Dur, Friendly
      <4> SUFFICES ASSUME NEW m \in Nodes, m # n, Holding(m) PROVE FALSE BY DEF NoOther
      <4>2. Quiet(node[m], m, s.age) BY <1>8, <3>1, Parts DEF Seen
      <4>3. /\ node[m].lag \in Nat /\ node[m].lag <= Lag /\ node[m].left \in Nat
            /\ node[m].age \in Nat /\ node[m].wait \in Nat /\ s.age \in Nat
            /\ node[m].at \in Locks
        BY <1>2, Types, Constants
      <4>4. node[m].phase \in {"acquire", "renew", "release"} BY DEF Holding, Holds
      <4>5. CASE node[m].phase = "release"
        BY <4>1, <4>2, <4>3, <4>5, Constants DEF Quiet, LeaseOutlastsWalk, LeaseOutlastsRenewal
      <4>6. CASE node[m].phase # "release" /\ Walks(node[m])
        <5>1. node[m].op = "settle" => s.age <= node[m].lag BY <4>2, <4>6 DEF Quiet
        <5>2. node[m].op # "settle" => node[m].op \in {"check", "update"} /\ node[m].at > 1
          BY <4>6, Parts DEF Walks, Regular
        <5>3. node[m].at > 1 => /\ Walked(node[m].at) \in Nat
                                /\ Walked(node[m].at) + 2 * Lag < LeaseDuration
          BY <4>3, WalkBound
        <5>4. node[m].op # "settle" => s.age <= Walked(node[m].at) + Lag + node[m].lag
          BY <4>2, <4>3, <4>6, <5>2, <5>3, Constants DEF Quiet
        <5>5. QED
          BY <4>1, <4>3, <5>1, <5>2, <5>3, <5>4, Constants DEF LeaseOutlastsWalk, LeaseOutlastsRenewal
      <4>7. CASE node[m].phase = "renew" /\ ~Walks(node[m])
        BY <4>1, <4>2, <4>3, <4>7, Constants DEF Quiet, LeaseOutlastsWalk, LeaseOutlastsRenewal, Rested
      <4>8. QED BY <4>4, <4>5, <4>6, <4>7 DEF Holding, Holds
    <3>4. QED BY <3>2, <3>3
  <2>2. CASE s.at # 1
    <3>1. Reading(s) /\ copy[n][1] = "current" /\ 1 \in s.same BY <1>4, <1>8, <2>2
    <3>2. QED BY <1>8, <3>1, Parts DEF ReadIsTrue
  <2>3. QED BY <2>1, <2>2
<1>9. QED BY <1>1, <1>2, <1>3, <1>4, <1>5, <1>6, <1>7, <1>8

LEMMA SafeReadOn ==
    ASSUME LeaseOutlastsWalk, IInv, NEW n \in Nodes, ReadLease(n), node[n].at # N
    PROVE  IInv'
<1> DEFINE s == node[n]
           t == node'[n]
           mismatch == s.at > 1 /\ s.seen # lease[s.at]
           h == IF mismatch THEN Mismatch(s.seen) ELSE lease[s.at]
           same == {k \in 1..s.at : IF k = s.at THEN obsRaw[n][k] = "current" ELSE k \in s.same}
           raw == Collected(newRaw[n], s.at, mismatch)
<1>1. TypeOK /\ TypeOK' BY Parts, TypeReadLease
<1>2. s.at \in Nat /\ 1 <= s.at /\ s.left \in Nat BY <1>1, Types, Constants
<1>3. /\ Moves(n) /\ t.op = "get" /\ t.at = s.at + 1 /\ t.phase = s.phase
      /\ t.observed = s.observed /\ t.age = s.age /\ t.left = s.left /\ t.seen = h
      /\ t.same = same
      /\ (t.expired <=> s.expired) /\ (t.fast <=> s.fast)
      /\ newRaw' = [newRaw EXCEPT ![n] = raw] /\ lease' = lease /\ obsRaw' = obsRaw
  BY <1>1, ReadOnEffect
<1>4. /\ s.op = "get" /\ s.phase # "stopped"
      /\ \A m \in Nodes : m # n => copy'[m] = copy[m]
      /\ copy[n][1] = "current" => copy'[n][1] = "current"
      /\ raw \in Raws /\ raw[s.at] = "current" /\ raw[1] # "missing"
      /\ raw[1] = "current" => copy'[n][1] = "current"
      /\ h \in Friendly(n) /\ copy'[n][1] = "current" => NoOther(n)
      /\ (s.phase = "release" /\ s.observed = n /\ copy'[n][1] = "current" => NoOther(n))
      /\ (/\ s.phase = "acquire" /\ copy'[n][1] = "current"
          /\ 1 \in same
          /\ s.expired \/ s.observed \in Friendly(n)
          => NoOther(n) \/ obsRaw[n][N] # "current")
  BY ReadFacts
<1> HIDE DEF mismatch, h, same, raw
<1>5. NoOther(n)' <=> NoOther(n) BY <1>1, <1>3, SameOthers
<1>6. newRaw'[n] = raw /\ \A m \in Nodes : m # n => newRaw'[m] = newRaw[m]
  BY <1>1, <1>3, Kinds
<1>7. Holding(n)' => s.phase = "renew"
  <2>1. t.at # 1 BY <1>2, <1>3
  <2>2. QED BY <1>3, <2>1 DEF Holding, Holds, Walks
<1>8. Holding(n)' => Holding(n) /\ copy'[n][1] = "current"
  <2>1. s.phase = "renew" => Holding(n) BY DEF Holding, Holds
  <2>2. QED BY <1>4, <1>7, <2>1, HoldersOwn
<1>9. Regular(t) /\ ExpiryIsTrue(t)
  <2>1. Regular(s) /\ ExpiryIsTrue(s) BY Parts
  <2>2. QED BY <1>3, <1>4, <2>1 DEF Regular, ExpiryIsTrue
<1>10. ClaimIsFree(n)' BY <1>3 DEF ClaimIsFree
<1>11. OwnRecordIsTrue(n)'
  <2>1. Reading(t) BY <1>2, <1>3 DEF Reading
  <2>2. QED BY <1>3, <1>4, <1>5, <2>1 DEF OwnRecordIsTrue
<1>12. RecordIsTrue(n)' BY <1>3, <1>4, <1>5, Parts DEF RecordIsTrue
<1>13. ReadIsTrue(n)'
  <2>1. newRaw'[n][1] = raw[1] BY <1>6
  <2>2. QED BY <1>3, <1>4, <1>5, <2>1 DEF ReadIsTrue
<1>14. InTime(t, n)
  <2>1. InTime(s, n) BY Parts
  <2>2. QED BY <1>3, <1>4, <2>1 DEF InTime
<1>15. ASSUME Holding(n)', NEW age \in Nat, Quiet(s, n, age)
       PROVE  Quiet(t, n, age)
  <2>1. s.phase = "renew" BY <1>7, <1>15
  <2>2. ~Walks(s) /\ ~Walks(t) /\ ~Rested(s, n) BY <1>3, <1>4 DEF Walks, Rested
  <2>3. age + s.left <= RenewDeadline BY <1>15, <2>1, <2>2 DEF Quiet
  <2>4. QED BY <1>3, <2>1, <2>2, <2>3 DEF Quiet
<1>16. QED
  BY <1>1, <1>3, <1>4, <1>6, <1>8, <1>9, <1>10, <1>11, <1>12, <1>13, <1>14, <1>15, NodeStep DEF Visible

LEMMA SafeReadLast ==
    ASSUME LeaseOutlastsWalk, IInv, NEW n \in Nodes, ReadLease(n), node[n].at = N
    PROVE  IInv'
<1> DEFINE s == node[n]
           t == node'[n]
           mismatch == s.at > 1 /\ s.seen # lease[s.at]
           h == IF mismatch THEN Mismatch(s.seen) ELSE lease[s.at]
           same == {k \in 1..s.at : IF k = s.at THEN obsRaw[n][k] = "current" ELSE k \in s.same}
           raw == Collected(newRaw[n], s.at, mismatch)
<1>1. TypeOK /\ TypeOK' BY Parts, TypeReadLease
<1>2. lease[s.at] # "absent" /\ lease' = lease /\ GetDone(n, h, same, raw) BY DEF ReadLease
<1>3. h \in Holders \cup Unknowns BY <1>1, <1>2, ReadHolder
<1>4. s.at = N /\ N \in Locks /\ 1 \in Locks BY Constants
<1>5. N \in same => obsRaw[n][N] = "current" BY <1>4
<1>6. /\ s.op = "get" /\ s.phase # "stopped"
      /\ \A m \in Nodes : m # n => copy'[m] = copy[m]
      /\ copy[n][1] = "current" => copy'[n][1] = "current"
      /\ raw \in Raws /\ raw[s.at] = "current" /\ raw[1] # "missing"
      /\ raw[1] = "current" => copy'[n][1] = "current"
      /\ h \in Friendly(n) /\ copy'[n][1] = "current" => NoOther(n)
      /\ (s.phase = "release" /\ s.observed = n /\ copy'[n][1] = "current" => NoOther(n))
      /\ (/\ s.phase = "acquire" /\ copy'[n][1] = "current" /\ 1 \in same
          /\ s.expired \/ s.observed \in Friendly(n)
          => NoOther(n) \/ obsRaw[n][N] # "current")
  BY ReadFacts
<1> HIDE DEF mismatch, h, same, raw
<1>7. /\ s.phase = "acquire" /\ copy'[n][1] = "current"
      /\ \A l \in Locks : raw[l] # "missing" => l \in same
      /\ s.expired \/ s.observed \in Friendly(n)
      => NoOther(n)
  BY <1>4, <1>5, <1>6
<1>8. /\ Moves(n) /\ NoMatch(n) /\ obsRaw' \in [Nodes -> Raws]
      /\ t.at = 1 \/ t.phase = "stopped"
      /\ t.fast => s.fast /\ (t.expired => s.expired)
      /\ s.phase = "release" =>
            /\ obsRaw' = obsRaw
            /\ \/ t = Stopped
               \/ /\ s.observed = n /\ t.phase = "release" /\ t.op = "update"
                  /\ t.observed = n
      /\ s.phase # "release" =>
            /\ t.phase = s.phase /\ t.left = s.left
            /\ \/ /\ \A l \in Locks : raw[l] # "missing" => l \in same
                  /\ obsRaw' = obsRaw
                  /\ t.observed = s.observed /\ t.age = s.age
                  /\ \/ t.op = "idle"
                     \/ t.op = "update" /\ (s.expired \/ s.observed \in {n, "nobody"})
               \/ /\ obsRaw' = [obsRaw EXCEPT ![n] = raw]
                  /\ t.observed = h /\ t.age = 0
                  /\ \/ t.op = "idle"
                     \/ t.op = "update" /\ h \in {n, "nobody"}
  BY <1>1, <1>2, <1>3, <1>6, GetDoneEffect
<1>9. \A m \in Nodes : m # n => newRaw'[m] = newRaw[m] BY <1>1, <1>8, NoMatchEffect
<1>10. NoOther(n)' <=> NoOther(n) BY <1>1, <1>8, SameOthers
<1>11. \A m \in Nodes : m # n => obsRaw'[m] = obsRaw[m]
  <2>1. obsRaw' = obsRaw \/ obsRaw' = [obsRaw EXCEPT ![n] = raw] BY <1>8
  <2>2. QED BY <1>1, <2>1, Kinds
<1>12. CASE t = Stopped BY <1>1, <1>2, <1>6, <1>8, <1>9, <1>11, <1>12, StopStep
<1>13. CASE s.phase = "release" /\ t # Stopped
  <2>1. /\ s.observed = n /\ t.phase = "release" /\ t.op = "update" /\ t.observed = n
        /\ t.at = 1 /\ obsRaw' = obsRaw
    BY <1>8, <1>13
  <2>2. ~Holding(n)' /\ Regular(t) /\ InTime(t, n) /\ ~Reading(t)
    BY <2>1 DEF Holding, Holds, Regular, InTime, Reading
  <2>3. ExpiryIsTrue(t)
    <3>1. ExpiryIsTrue(s) BY Parts
    <3>2. QED BY <1>8, <2>1, <3>1 DEF ExpiryIsTrue
  <2>4. ClaimIsFree(n)' /\ OwnRecordIsTrue(n)'
    BY <1>6, <1>10, <1>13, <2>1 DEF ClaimIsFree, OwnRecordIsTrue
  <2>5. RecordIsTrue(n)' /\ ReadIsTrue(n)'
    BY <1>10, <1>13, <2>1, <2>2, Parts DEF RecordIsTrue, ReadIsTrue
  <2>6. QED BY <1>1, <1>2, <1>6, <1>8, <1>9, <1>11, <2>1, <2>2, <2>3, <2>4, <2>5, NodeStep DEF Visible
<1>14. CASE s.phase # "release"
  <2>1. /\ t.phase = s.phase /\ t.phase # "stopped" /\ t.at = 1 /\ t.left = s.left
        /\ t.op \in {"idle", "update"} /\ (t.fast => s.fast /\ (t.expired => s.expired))
    BY <1>6, <1>8, <1>14
  <2>2. s.phase = "renew" => Holding(n) /\ NoOther(n) /\ copy[n][1] = "current"
    BY HoldersOwn DEF Holding, Holds
  <2>3. Holding(n)' => s.phase = "renew" BY <1>14, <2>1 DEF Holding, Holds, Walks
  <2>4. Holding(n)' => Holding(n) /\ copy'[n][1] = "current" BY <1>6, <2>2, <2>3
  <2>5. s.phase \in {"acquire", "renew"} BY <1>1, <1>6, <1>14, Types
  <2>6. Regular(t) BY <1>14, <2>1 DEF Regular
  <2>7. ExpiryIsTrue(t)
    <3>1. ExpiryIsTrue(s) BY Parts
    <3>2. QED BY <2>1, <3>1 DEF ExpiryIsTrue
  <2>8. ClaimIsFree(n)'
    <3>1. t.op = "update" /\ copy'[n][1] = "current" => NoOther(n)
      BY <1>6, <1>7, <1>8, <1>14, <2>2, <2>5 DEF Friendly
    <3>2. QED BY <1>10, <3>1 DEF ClaimIsFree
  <2>9. OwnRecordIsTrue(n)'
    <3>1. t.observed = n /\ copy'[n][1] = "current" => NoOther(n)
      BY <1>6, <1>7, <1>8, <1>14, <2>2, <2>5 DEF Friendly
    <3>2. QED BY <1>10, <3>1 DEF OwnRecordIsTrue
  <2>10. RecordIsTrue(n)'
    <3>1. CASE obsRaw' = obsRaw /\ t.observed = s.observed
      BY <1>6, <1>10, <3>1, Parts DEF RecordIsTrue
    <3>2. CASE obsRaw' = [obsRaw EXCEPT ![n] = raw] /\ t.observed = h
      <4>1. obsRaw'[n] = raw BY <1>1, <3>2, Kinds
      <4>2. QED BY <1>6, <1>10, <3>2, <4>1 DEF RecordIsTrue
    <3>3. QED BY <1>8, <1>14, <3>1, <3>2
  <2>11. ReadIsTrue(n)' BY <2>1 DEF ReadIsTrue, Reading
  <2>12. InTime(t, n)
    <3>1. InTime(s, n) BY Parts
    <3>2. s.phase = "renew" => s.left <= RenewDeadline BY <1>6, <3>1 DEF InTime
    <3>3. t.left \in Nat /\ t.wait \in Nat
      <4>1. t \in NodeStates BY <1>8 DEF Moves
      <4>2. QED BY <4>1, Constants DEF NodeStates
    <3>4. QED BY <2>1, <3>2, <3>3, Constants DEF InTime
  <2>13. ASSUME Holding(n)', NEW age \in Nat, Quiet(s, n, age)
         PROVE  Quiet(t, n, age)
    <3>1. s.phase = "renew" BY <2>3, <2>13
    <3>2. ~Walks(s) /\ ~Walks(t) /\ ~Rested(s, n) BY <1>6, <2>1 DEF Walks, Rested
    <3>3. age + s.left <= RenewDeadline BY <2>13, <3>1, <3>2 DEF Quiet
    <3>4. QED BY <2>1, <3>1, <3>2, <3>3 DEF Quiet
  <2>14. t.age = 0 \/ (t.age = s.age /\ obsRaw' = obsRaw) BY <1>8, <1>14
  <2>15. QED
    BY <1>1, <1>2, <1>6, <1>8, <1>9, <1>11, <2>1, <2>4, <2>6, <2>7, <2>8, <2>9, <2>10, <2>11,
       <2>12, <2>13, <2>14, NodeStep DEF Visible
<1>15. QED BY <1>12, <1>13, <1>14

LEMMA SafeUpdateRefused ==
    ASSUME IInv, NEW n \in Nodes, UpdateRefused(n)
    PROVE  IInv'
<1> DEFINE s == node[n]
           t == node'[n]
<1>1. /\ s.op = "update" /\ copy[n][s.at] # "current" /\ node' = [node EXCEPT ![n] = Failed(node[n])]
      /\ lease' = lease /\ copy' = copy /\ obsRaw' = obsRaw /\ newRaw' = newRaw
  BY DEF UpdateRefused
<1>2. TypeOK /\ TypeOK' BY <1>1, Parts, TypeUpdate DEF UpdateStep
<1>3. Moves(n) /\ t = Failed(s) BY <1>1, <1>2, FailedEffect
<1>4. CASE s.phase = "release"
  <2>1. t = Stopped BY <1>3, <1>4 DEF Failed
  <2>2. QED BY <1>1, <1>2, <1>3, <2>1, StopStep
<1>5. CASE s.phase # "release"
  <2>1. /\ t \in NodeStates
        /\ s.fast => t.op = "get" /\ t.at = 1 /\ (t.expired <=> s.expired)
        /\ ~s.fast => t.op = "idle" /\ t.at = 1
        /\ t.phase = s.phase /\ t.observed = s.observed /\ t.age = s.age
        /\ t.left = s.left /\ ~t.fast
    <3>1. s \in NodeStates BY <1>2, Types
    <3> HIDE DEF s, t
    <3>2. QED BY <1>3, <1>5, <3>1, FailedState
  <2>2. t.op \in {"get", "idle"} /\ t.at = 1 BY <2>1
  <2>3. t.left \in Nat /\ t.wait \in Nat BY <2>1, Constants DEF NodeStates
  <2>4. NoOther(n)' <=> NoOther(n) BY <1>2, <1>3, SameOthers
  <2>5. Regular(s) /\ ExpiryIsTrue(s) /\ InTime(s, n) BY Parts
  <2>6. s.phase = "renew" => Holding(n) /\ copy[n][1] = "current"
    BY HoldersOwn DEF Holding, Holds
  <2>7. Holding(n)' => s.phase = "renew" BY <1>5, <2>1, <2>2 DEF Holding, Holds, Walks
  <2>8. Holding(n)' => Holding(n) /\ copy'[n][1] = "current" BY <1>1, <2>6, <2>7
  <2>9. Regular(t) /\ ExpiryIsTrue(t)
    BY <1>1, <1>5, <2>1, <2>2, <2>5 DEF Regular, ExpiryIsTrue
  <2>10. ClaimIsFree(n)' /\ OwnRecordIsTrue(n)'
    BY <1>1, <2>1, <2>2, <2>4, Parts DEF ClaimIsFree, OwnRecordIsTrue, Reading
  <2>11. RecordIsTrue(n)' /\ ReadIsTrue(n)'
    BY <1>1, <2>1, <2>2, <2>4, Parts DEF RecordIsTrue, ReadIsTrue, Reading
  <2>12. InTime(t, n) BY <1>1, <2>1, <2>3, <2>5, Constants DEF InTime
  <2>13. ASSUME Holding(n)', NEW age \in Nat, Quiet(s, n, age)
         PROVE  Quiet(t, n, age)
    <3>1. s.phase = "renew" BY <2>7, <2>13
    <3>2. s.at # 1 BY <1>1, <2>6, <3>1
    <3>3. s.at > 1 BY <1>2, <3>2, Types
    <3>4. Walks(s) /\ ~Walks(t) BY <1>1, <2>2, <3>3 DEF Walks
    <3>5. age + s.left <= RenewDeadline BY <2>13, <3>1, <3>4 DEF Quiet
    <3>6. QED BY <2>1, <3>1, <3>4, <3>5 DEF Quiet
  <2>14. QED
    BY <1>1, <1>2, <1>3, <2>1, <2>8, <2>9, <2>10, <2>11, <2>12, <2>13, NodeStep DEF Visible
<1>6. QED BY <1>4, <1>5

LEMMA SafeCheckLease ==
    ASSUME IInv, NEW n \in Nodes, CheckLease(n)
    PROVE  IInv'
<1> DEFINE s == node[n]
           t == node'[n]
<1>1. TypeOK /\ TypeOK' /\ s.at \in Locks /\ s.at > 1 /\ s.op = "check"
  BY Parts, TypeUpdate, Types DEF UpdateStep, CheckLease, Regular
<1>2. /\ node' = [node EXCEPT ![n] = Go(node[n], "update", s.at)]
      /\ copy' = [copy EXCEPT ![n][s.at] = "current"]
      /\ lease' = lease /\ obsRaw' = obsRaw /\ newRaw' = newRaw
  BY <1>1, Parts DEF CheckLease
<1>3. /\ Moves(n) /\ t.op = "update" /\ t.at = s.at /\ t.lag = 0 /\ t.phase = s.phase
      /\ t.observed = s.observed /\ t.age = s.age /\ t.left = s.left
      /\ (t.fast <=> s.fast) /\ (t.expired <=> s.expired)
  BY <1>1, <1>2, GoEffect
<1>4. copy'[n][1] = copy[n][1] /\ \A m \in Nodes : m # n => copy'[m] = copy[m]
  <2>1. s.at # 1 BY <1>1, Types
  <2>2. QED BY <1>1, <1>2, <2>1, CopyEffect, Constants
<1>5. NoOther(n)' <=> NoOther(n) BY <1>1, <1>3, SameOthers
<1>6. Regular(s) /\ ExpiryIsTrue(s) /\ InTime(s, n) BY Parts
<1>7. Walks(s) /\ Walks(t) BY <1>1, <1>3 DEF Walks
<1>8. Holding(n)' => Holding(n) /\ copy'[n][1] = "current"
  <2>1. Holding(n)' => Holding(n) BY <1>3, <1>7 DEF Holding, Holds
  <2>2. QED BY <1>4, <2>1, HoldersOwn
<1>9. Regular(t) /\ ExpiryIsTrue(t) /\ InTime(t, n)
  <2>1. Regular(t) BY <1>1, <1>3, <1>6 DEF Regular
  <2>2. ExpiryIsTrue(t) BY <1>3, <1>6 DEF ExpiryIsTrue
  <2>3. InTime(t, n) BY <1>1, <1>3, <1>6 DEF InTime
  <2>4. QED BY <2>1, <2>2, <2>3
<1>10. ClaimIsFree(n)' /\ OwnRecordIsTrue(n)'
  BY <1>1, <1>3, <1>4, <1>5, Parts DEF ClaimIsFree, OwnRecordIsTrue, Reading
<1>11. RecordIsTrue(n)' /\ ReadIsTrue(n)'
  BY <1>1, <1>2, <1>3, <1>4, <1>5, Parts DEF RecordIsTrue, ReadIsTrue, Reading
<1>12. ASSUME Holding(n)', NEW age \in Nat, Quiet(s, n, age)
       PROVE  Quiet(t, n, age)
  <2>1. t.phase # "release" BY <1>3, <1>12 DEF Holding, Holds
  <2>2. age <= Walked(s.at) + s.lag /\ (s.phase = "renew" => age + s.left <= RenewDeadline)
    BY <1>1, <1>3, <1>7, <1>12, <2>1 DEF Quiet
  <2>3. Walked(s.at) \in Nat /\ s.lag \in Nat /\ s.lag <= Lag BY <1>1, Types, Constants, WalkBound
  <2>4. QED BY <1>3, <1>7, <2>1, <2>2, <2>3, Constants DEF Quiet
<1>13. QED
  BY <1>1, <1>2, <1>3, <1>4, <1>8, <1>9, <1>10, <1>11, <1>12, NodeStep DEF Visible

LEMMA SafeSettle ==
    ASSUME IInv, NEW n \in Nodes, Settle(n)
    PROVE  IInv'
<1> DEFINE s == node[n]
           t == node'[n]
<1>1. TypeOK /\ TypeOK' BY Parts, TypeElector
<1>2. /\ s.op = "settle" /\ Moves(n) /\ lease' = lease /\ copy' = copy
      /\ obsRaw' = obsRaw /\ newRaw' = newRaw
      /\ \/ /\ s.phase \in {"acquire", "renew"} /\ t.phase = "renew" /\ t.op = "idle"
            /\ t.at = 1 /\ t.observed = n /\ t.age = 0 /\ ~t.fast
            /\ t.wait \in {0, RetryPeriod} /\ t.left = RenewDeadline + t.wait
         \/ t = Stopped
  BY <1>1, SettleEffect
<1>3. CASE t = Stopped BY <1>1, <1>2, <1>3, StopStep
<1>4. CASE t # Stopped
  <2>1. Holding(n) /\ Walks(s) BY <1>2, <1>4 DEF Holding, Holds, Walks
  <2>2. NoOther(n)' /\ copy'[n][1] = "current" BY <1>1, <1>2, <2>1, SameOthers, HoldersOwn
  <2>3. Regular(t) /\ ExpiryIsTrue(t) BY <1>2, <1>4 DEF Regular, ExpiryIsTrue
  <2>4. ClaimIsFree(n)' /\ OwnRecordIsTrue(n)' /\ RecordIsTrue(n)' /\ ReadIsTrue(n)'
    BY <1>2, <1>4, <2>2 DEF ClaimIsFree, OwnRecordIsTrue, RecordIsTrue, ReadIsTrue, Reading
  <2>5. Rested(t, n) /\ ~Walks(t) BY <1>2, <1>4, Constants DEF Rested, Walks
  <2>6. InTime(t, n) BY <1>2, <1>4, <2>5, Constants DEF InTime
  <2>7. ASSUME NEW age \in Nat, Quiet(s, n, age)
        PROVE  Quiet(t, n, age)
    <3>1. s.phase # "release" BY <1>2, <1>4
    <3>2. age <= s.lag BY <1>2, <2>1, <2>7, <3>1 DEF Quiet
    <3>3. age <= Lag BY <1>1, <3>2, Types, Constants
    <3>4. QED BY <1>2, <1>4, <2>5, <3>3, Constants DEF Quiet
  <2>8. QED BY <1>1, <1>2, <1>4, <2>1, <2>2, <2>3, <2>4, <2>6, <2>7, NodeStep DEF Visible
<1>5. QED BY <1>3, <1>4

LEMMA SafeEnd ==
    ASSUME IInv, NEW n \in Nodes, GiveUp(n) \/ Cancel(n) \/ Crash(n)
    PROVE  IInv'
<1> DEFINE s == node[n]
           t == node'[n]
<1>1. TypeOK /\ TypeOK' BY Parts, TypeElector DEF FaultStep
<1>2. /\ Moves(n) /\ NoMatch(n) /\ lease' = lease /\ copy' = copy /\ obsRaw' = obsRaw
      /\ \/ t = Stopped
         \/ /\ s.phase = "renew" /\ t.phase = "release" /\ t.op = "get" /\ t.at = 1
            /\ t.lag = 0 /\ t.observed = s.observed /\ ~t.expired /\ ~t.fast
  BY <1>1, EndEffect
<1>3. \A m \in Nodes : m # n => newRaw'[m] = newRaw[m] BY <1>1, <1>2, NoMatchEffect
<1>4. CASE t = Stopped BY <1>1, <1>2, <1>3, <1>4, StopStep
<1>5. CASE t # Stopped
  <2>1. s.phase = "renew" /\ Holding(n) BY <1>2, <1>5 DEF Holding, Holds
  <2>2. NoOther(n)' /\ copy'[n][1] = "current" BY <1>1, <1>2, <2>1, SameOthers, HoldersOwn
  <2>3. Regular(t) /\ ExpiryIsTrue(t) /\ InTime(t, n)
    BY <1>2, <1>5 DEF Regular, ExpiryIsTrue, InTime
  <2>4. ClaimIsFree(n)' /\ OwnRecordIsTrue(n)' /\ RecordIsTrue(n)' /\ ReadIsTrue(n)'
    BY <1>2, <1>5, <2>2 DEF ClaimIsFree, OwnRecordIsTrue, RecordIsTrue, ReadIsTrue, Reading
  <2>5. ASSUME NEW age \in Nat, Quiet(s, n, age)
        PROVE  Quiet(t, n, age)
    <3>1. /\ s.lag \in Nat /\ s.lag <= Lag /\ s.left \in Nat /\ s.age \in Nat /\ s.wait \in Nat
      BY <1>1, Types, Constants
    <3>2. age + s.left <= RenewDeadline \/ (Rested(s, n) /\ age <= Lag + s.age)
      BY <2>1, <2>5 DEF Quiet
    <3>3. Rested(s, n) => s.age <= RetryPeriod + Lag BY <3>1, Constants DEF Rested
    <3>4. age <= RenewDeadline \/ age <= 2 * Lag + RetryPeriod BY <3>1, <3>2, <3>3, Constants
    <3>5. QED BY <1>2, <1>5, <3>4, Constants DEF Quiet
  <2>6. QED BY <1>1, <1>2, <1>3, <1>5, <2>1, <2>2, <2>3, <2>4, <2>5, NodeStep DEF Visible
<1>6. QED BY <1>4, <1>5

LEMMA SafeRestart ==
    ASSUME IInv, NEW n \in Nodes, Restart(n)
    PROVE  IInv'
<1> DEFINE t == node'[n]
<1>1. TypeOK /\ TypeOK' BY Parts, TypeElector
<1>2. /\ Moves(n) /\ t = Fresh /\ lease' = lease /\ newRaw' = newRaw
      /\ copy'[n][1] = "none" /\ obsRaw'[n][1] = "missing"
      /\ \A m \in Nodes : m # n => copy'[m] = copy[m] /\ obsRaw'[m] = obsRaw[m]
  BY <1>1, RestartEffect, Constants
<1>3. /\ t.phase = "acquire" /\ t.op = "idle" /\ t.at = 1 /\ t.observed = "nobody" /\ ~t.fast
  BY <1>2, FreshState
<1>4. ~Holding(n)' /\ Regular(t) /\ ExpiryIsTrue(t) /\ InTime(t, n)
  BY <1>3 DEF Holding, Holds, Walks, Regular, ExpiryIsTrue, InTime
<1>5. ClaimIsFree(n)' /\ OwnRecordIsTrue(n)' /\ RecordIsTrue(n)' /\ ReadIsTrue(n)'
  BY <1>2, <1>3 DEF ClaimIsFree, OwnRecordIsTrue, RecordIsTrue, ReadIsTrue, Reading
<1>6. QED BY <1>1, <1>2, <1>4, <1>5, NodeStep, Constants DEF Visible

-----------------------------------------------------------------------------
(* The invariant under a write, and as time passes. *)

\* A write of the primary takes it from nobody.
LEMMA WritesOwnPrimary ==
    ASSUME IInv, NEW n \in Nodes, node[n].op = "update", copy[n][node[n].at] = "current"
    PROVE  /\ node[n].at = 1 => NoOther(n)
           /\ node[n].at # 1 /\ node[n].phase \in {"acquire", "renew"} => Holding(n)
<1>1. node[n].at = 1 => NoOther(n) BY Parts DEF ClaimIsFree
<1>2. node[n].at # 1 => node[n].at > 1 BY Parts, Types
<1>3. QED BY <1>1, <1>2 DEF Holding, Holds, Walks

LEMMA SafeUpdateLease ==
    ASSUME IInv, NEW n \in Nodes, UpdateLease(n)
    PROVE  IInv'
<1> DEFINE s == node[n]
           t == node'[n]
           l == s.at
<1>1. TypeOK /\ TypeOK' BY Parts, TypeUpdate DEF UpdateStep
<1>2. /\ s.op = "update" /\ copy[n][l] = "current" /\ Write(n, l, Value(n), "current")
      /\ Moves(n) /\ t.lag = 0 /\ t.phase = s.phase /\ t.observed = s.observed
      /\ t.age = s.age /\ t.left = s.left
      /\ (t.fast <=> s.fast) /\ (t.expired <=> s.expired)
      /\ \/ t.op = "settle" /\ l = N
         \/ t.op = "check" /\ t.at = l + 1
  BY <1>1, UpdateLeaseEffect
<1>3. l \in Locks /\ l \in Nat /\ 1 <= l /\ Value(n) \in Holders BY <1>1, Types, ValueIsHolder
<1>4. /\ lease'[l] = Value(n)
      /\ \A k \in Locks : k # l => lease'[k] = lease[k]
      /\ \A m \in Nodes, k \in Locks :
            k # l => /\ copy'[m][k] = copy[m][k]
                     /\ obsRaw'[m][k] = obsRaw[m][k] /\ newRaw'[m][k] = newRaw[m][k]
      /\ \A m \in Nodes : obsRaw'[m][l] # "current" /\ newRaw'[m][l] # "current"
      /\ \A m \in Nodes : newRaw[m][l] # "missing" => newRaw'[m][l] # "missing"
      /\ \A m \in Nodes : m # n => copy'[m][l] # "current"
      /\ copy'[n][l] = "current"
  BY <1>1, <1>2, <1>3, WriteEffect
<1>5. /\ \A m \in Nodes : m # n => node'[m] = node[m] /\ (Holding(m)' <=> Holding(m))
      /\ NoOther(n)' <=> NoOther(n)
  BY <1>1, <1>2, SameOthers
<1>6. /\ l = 1 => NoOther(n)
      /\ l # 1 /\ s.phase \in {"acquire", "renew"} => Holding(n)
  BY <1>2, WritesOwnPrimary
<1>7. Walks(t) /\ ~Reading(t) /\ ~Reading(s) BY <1>2 DEF Walks, Reading
<1>8. \A k \in Locks : lease'[k] # "absent"
  <2>1. Value(n) # "absent" BY IdentitiesAreNames DEF Value
  <2>2. QED BY <1>4, <2>1, Parts
<1>9. \A m \in Nodes : Regular(node[m])' /\ ExpiryIsTrue(node[m])' /\ InTime(node[m], m)'
  <2>1. Regular(s) /\ ExpiryIsTrue(s) /\ InTime(s, n) BY Parts
  <2>2. Regular(t) BY <1>2, <1>3, <2>1 DEF Regular
  <2>3. ExpiryIsTrue(t) BY <1>2, <2>1 DEF ExpiryIsTrue
  <2>4. InTime(t, n) BY <1>2, <2>1 DEF InTime
  <2>5. \A m \in Nodes : m # n => Regular(node'[m]) /\ ExpiryIsTrue(node'[m]) /\ InTime(node'[m], m)
    BY <1>5, Parts
  <2>6. QED BY <2>2, <2>3, <2>4, <2>5
<1>10. CASE l = 1
  <2>1. NoOther(n) /\ NoOther(n)' BY <1>5, <1>6, <1>10
  <2>2. \A m \in Nodes : m # n => ~Holding(m)' BY <2>1 DEF NoOther
  <2>3. HasPrimary(n)'
    <3>1. Holding(n)' => t.phase # "release" BY <1>2 DEF Holding, Holds
    <3>2. t.phase # "release" => lease'[1] = n BY <1>2, <1>4, <1>10 DEF Value
    <3>3. QED BY <1>4, <1>10, <3>1, <3>2 DEF HasPrimary
  <2>4. ClaimIsFree(n)' /\ OwnRecordIsTrue(n)' /\ RecordIsTrue(n)' /\ ReadIsTrue(n)'
    BY <1>7, <2>1 DEF ClaimIsFree, OwnRecordIsTrue, RecordIsTrue, ReadIsTrue
  <2>5. ASSUME NEW m \in Nodes, m # n
        PROVE  HasPrimary(m)' /\ ClaimIsFree(m)' /\ OwnRecordIsTrue(m)' /\ RecordIsTrue(m)'
               /\ ReadIsTrue(m)'
    <3>1. /\ copy'[m][1] # "current" /\ obsRaw'[m][1] # "current" /\ newRaw'[m][1] # "current"
          /\ ~Holding(m)' /\ node'[m] = node[m]
          /\ newRaw[m][1] # "missing" => newRaw'[m][1] # "missing"
      BY <1>4, <1>5, <1>10, <2>2, <2>5
    <3>2. QED BY <3>1, Parts DEF HasPrimary, ClaimIsFree, OwnRecordIsTrue, RecordIsTrue, ReadIsTrue
  <2>6. \A m \in Nodes : NodeInv(m)' BY <1>9, <2>3, <2>4, <2>5 DEF NodeInv
  <2>7. \A m, k \in Nodes : Seen(m, k)' BY <1>4, <1>10 DEF Seen, Visible
  <2>8. QED BY <1>1, <1>8, <2>6, <2>7 DEF IInv
<1>11. CASE l # 1
  <2>1. l > 1 BY <1>3, <1>11
  <2>2. Walks(s) BY <1>2, <2>1 DEF Walks
  <2>3. Holding(n)' <=> Holding(n) BY <1>2, <1>7, <2>2 DEF Holding, Holds
  <2>4. \A m \in Nodes : Holding(m)' <=> Holding(m) BY <1>5, <2>3
  <2>5. \A m \in Nodes : NoOther(m)' <=> NoOther(m) BY <2>4 DEF NoOther
  <2>6. /\ lease'[1] = lease[1]
        /\ \A m \in Nodes : /\ copy'[m][1] = copy[m][1]
                            /\ obsRaw'[m][1] = obsRaw[m][1] /\ newRaw'[m][1] = newRaw[m][1]
    BY <1>4, <1>11, Constants
  <2>7. \A m \in Nodes : HasPrimary(m)' BY <2>4, <2>6, Parts DEF HasPrimary
  <2>8. ClaimIsFree(n)' /\ OwnRecordIsTrue(n)' /\ RecordIsTrue(n)' /\ ReadIsTrue(n)'
    <3>1. ClaimIsFree(n)' /\ ReadIsTrue(n)' BY <1>2, <1>7 DEF ClaimIsFree, ReadIsTrue
    <3>2. OwnRecordIsTrue(n)' BY <1>2, <1>7, <2>5, <2>6, Parts DEF OwnRecordIsTrue
    <3>3. RecordIsTrue(n)' BY <1>2, <2>5, <2>6, Parts DEF RecordIsTrue
    <3>4. QED BY <3>1, <3>2, <3>3
  <2>9. ASSUME NEW m \in Nodes, m # n
        PROVE  ClaimIsFree(m)' /\ OwnRecordIsTrue(m)' /\ RecordIsTrue(m)' /\ ReadIsTrue(m)'
    <3>1. node'[m] = node[m] BY <1>5, <2>9
    <3>2. ClaimIsFree(m)' /\ OwnRecordIsTrue(m)' /\ RecordIsTrue(m)'
      BY <2>5, <2>6, <3>1, Parts DEF ClaimIsFree, OwnRecordIsTrue, RecordIsTrue
    <3>3. obsRaw[m][N] # "current" => obsRaw'[m][N] # "current" BY <1>4, Constants
    <3>4. ReadIsTrue(m)' BY <2>5, <2>6, <3>1, <3>3, Parts DEF ReadIsTrue
    <3>5. QED BY <3>2, <3>4
  <2>10. \A m \in Nodes : NodeInv(m)' BY <1>9, <2>7, <2>8, <2>9 DEF NodeInv
  <2>11. ASSUME NEW m \in Nodes, NEW k \in Nodes PROVE Seen(m, k)'
    <3> SUFFICES ASSUME m # k, Holding(m)', node'[k].phase = "acquire", Visible(k)'
                 PROVE  Quiet(node'[m], m, node'[k].age)
      BY DEF Seen
    <3>1. l # N BY <1>4 DEF Visible
    <3>2. Visible(k) BY <1>4, <2>6, <3>1, Constants DEF Visible
    <3>3. node'[k].phase = node[k].phase /\ node'[k].age = node[k].age BY <1>2, <1>5
    <3>4. Quiet(node[m], m, node[k].age) BY <2>4, <3>2, <3>3, Parts DEF Seen
    <3>5. CASE m # n BY <1>5, <3>3, <3>4, <3>5
    <3>6. CASE m = n
      <4>1. t.phase # "release" /\ t.op = "check" /\ t.at = l + 1 BY <1>2, <3>1, <3>6 DEF Holding, Holds
      <4>2. /\ node[k].age <= Walked(l) + Lag + s.lag
            /\ s.phase = "renew" => node[k].age + s.left <= RenewDeadline
        BY <1>2, <2>2, <3>4, <3>6, <4>1 DEF Quiet
      <4>3. Walked(l) \in Nat /\ Walked(l + 1) = Walked(l) + 2 * Lag BY <1>3, <2>1, WalkBound
      <4>4. s.lag \in Nat /\ s.lag <= Lag /\ node[k].age \in Nat BY <1>1, Types, Constants
      <4>5. node[k].age <= Walked(t.at) + t.lag BY <1>2, <4>1, <4>2, <4>3, <4>4, Constants
      <4>6. QED BY <1>2, <1>7, <3>3, <3>6, <4>1, <4>2, <4>5 DEF Quiet
    <3>7. QED BY <3>5, <3>6
  <2>12. QED BY <1>1, <1>8, <2>10, <2>11 DEF IInv
<1>12. QED BY <1>10, <1>11

LEMMA SafeTick ==
    ASSUME LeaseOutlastsWalk, IInv, Tick
    PROVE  IInv'
<1>1. TypeOK /\ TypeOK' BY TypeTick DEF IInv
<1>2. /\ \A n \in Nodes : MayWait(node[n])
      /\ node' = [n \in Nodes |-> Older(node[n])]
      /\ lease' = lease /\ copy' = copy /\ obsRaw' = obsRaw /\ newRaw' = newRaw
  BY DEF Tick
<1>3. ASSUME NEW n \in Nodes
      PROVE  LET s == node[n]
                 t == node'[n]
             IN  /\ t.phase = s.phase /\ t.op = s.op /\ t.at = s.at /\ t.seen = s.seen
                 /\ t.observed = s.observed
                 /\ t.same = s.same /\ (t.fast <=> s.fast) /\ (t.expired <=> s.expired)
                 /\ \/ t.age = s.age + 1
                    \/ t.age = s.age /\ (s.age >= Dur(s.observed) \/ s.phase \in {"release", "stopped"})
                 /\ (s.phase # "stopped" /\ s.op # "idle" => t.lag = s.lag + 1)
                 /\ (s.phase = "renew" => t.left = s.left - 1 /\ s.left > 0)
                 /\ (s.phase = "renew" /\ s.op = "idle" => t.wait = s.wait - 1 /\ s.wait > 0)
                 /\ s.age \in Nat /\ s.lag \in Nat /\ s.lag <= Lag /\ s.left \in Nat /\ s.wait \in Nat
  <2>1. node[n] \in NodeStates /\ MayWait(node[n]) /\ node'[n] = Older(node[n]) BY <1>1, <1>2, Types
  <2>2. /\ node[n].age \in Nat /\ node[n].lag \in Nat /\ node[n].lag <= Lag
        /\ node[n].left \in Nat /\ node[n].wait \in Nat
    BY <1>1, Types, Constants
  <2>3. QED BY <2>1, <2>2, OlderState
<1>4. \A n \in Nodes : (Holding(n)' <=> Holding(n)) /\ (Reading(node'[n]) <=> Reading(node[n]))
  BY <1>3 DEF Holding, Holds, Walks, Reading
<1>5. \A n \in Nodes : NoOther(n)' <=> NoOther(n) BY <1>4 DEF NoOther
<1>6. ASSUME NEW n \in Nodes PROVE Rested(node[n], n) /\ node[n].phase = "renew" => Rested(node'[n], n)
  <2>1. node[n].op # "idle" /\ node[n].phase = "renew" => node'[n].lag = node[n].lag + 1 BY <1>3
  <2>2. QED BY <1>3, <2>1, Constants DEF Rested
<1>7. ASSUME NEW n \in Nodes PROVE NodeInv(n)'
  <2>1. NodeInv(n) BY DEF IInv
  <2>2. Regular(node[n])' BY <1>3, <2>1 DEF NodeInv, Regular
  <2>3. HasPrimary(n)' BY <1>2, <1>4, <2>1 DEF NodeInv, HasPrimary
  <2>4. ClaimIsFree(n)' BY <1>2, <1>3, <1>5, <2>1 DEF NodeInv, ClaimIsFree
  <2>5. OwnRecordIsTrue(n)' BY <1>2, <1>3, <1>4, <1>5, <2>1 DEF NodeInv, OwnRecordIsTrue
  <2>6. RecordIsTrue(n)' BY <1>2, <1>3, <1>5, <2>1 DEF NodeInv, RecordIsTrue
  <2>7. ReadIsTrue(n)' BY <1>2, <1>3, <1>4, <1>5, <2>1 DEF NodeInv, ReadIsTrue
  <2>8. ExpiryIsTrue(node[n])'
    <3>1. Dur(node[n].observed) \in Nat BY Constants DEF Dur
    <3>2. QED BY <1>3, <2>1, <3>1 DEF NodeInv, ExpiryIsTrue
  <2>9. InTime(node[n], n)'
    <3>1. InTime(node[n], n) BY <2>1 DEF NodeInv
    <3>2. QED BY <1>3, <1>6, <3>1, Constants DEF InTime
  <2>10. QED BY <2>2, <2>3, <2>4, <2>5, <2>6, <2>7, <2>8, <2>9 DEF NodeInv
<1>8. ASSUME NEW m \in Nodes, NEW n \in Nodes PROVE Seen(m, n)'
  <2> DEFINE s == node[m]
             t == node'[m]
             a == node[n].age
             b == node'[n].age
  <2> SUFFICES ASSUME m # n, Holding(m)', node'[n].phase = "acquire", Visible(n)'
               PROVE  Quiet(t, m, b)
    BY DEF Seen
  <2>1. Quiet(s, m, a) /\ Holding(m)
    BY <1>2, <1>3, <1>4, Parts DEF Seen, Visible
  <2>2. a \in Nat /\ b \in Nat /\ b <= a + 1 BY <1>3
  <2>3. CASE s.phase = "release"
    <3>1. t.lag = s.lag + 1 /\ t.phase = "release" BY <1>3, <2>3, Parts DEF Regular
    <3>2. QED BY <1>3, <2>1, <2>2, <2>3, <3>1, Constants DEF Quiet
  <2>4. CASE s.phase # "release" /\ Walks(s)
    <3>1. s.op # "idle" /\ s.phase # "stopped" /\ Walks(t) BY <1>3, <2>1, <2>4 DEF Walks, Holding, Holds
    <3>2. t.lag = s.lag + 1 BY <1>3, <3>1
    <3>3. s.op # "settle" => Walked(s.at) \in Nat
      <4>1. s.at \in Locks BY <1>1, Types
      <4>2. s.op # "settle" => s.at > 1 BY <2>4, Parts DEF Walks, Regular
      <4>3. QED BY <4>1, <4>2, WalkBound
    <3>4. QED BY <1>3, <2>1, <2>2, <2>4, <3>1, <3>2, <3>3, Constants DEF Quiet, Walks
  <2>5. CASE s.phase = "renew" /\ ~Walks(s)
    <3>1. a + s.left <= RenewDeadline \/ (Rested(s, m) /\ a <= Lag + s.age)
      BY <2>1, <2>5 DEF Quiet
    <3>2. t.phase = "renew" /\ ~Walks(t) BY <1>3, <2>5 DEF Walks
    <3>3. a + s.left <= RenewDeadline => b + t.left <= RenewDeadline
      BY <1>3, <2>2, <2>5, Constants
    <3>4. Rested(s, m) /\ a <= Lag + s.age => Rested(t, m) /\ b <= Lag + t.age
      <4> SUFFICES ASSUME Rested(s, m), a <= Lag + s.age PROVE Rested(t, m) /\ b <= Lag + t.age
        OBVIOUS
      <4>1. Rested(t, m) BY <1>6, <2>5
      <4>2. s.observed = m /\ s.age <= RetryPeriod + Lag BY <1>3, Constants DEF Rested
      <4>3. Dur(s.observed) = LeaseDuration BY <4>2, IdentitiesAreNames DEF Dur
      <4>4. s.age < LeaseDuration BY <1>3, <4>2, Constants DEF LeaseOutlastsWalk, LeaseOutlastsRenewal
      <4>5. t.age = s.age + 1 BY <1>3, <2>5, <4>3, <4>4, Constants
      <4>6. QED BY <1>3, <2>2, <4>1, <4>5, Constants
    <3>5. QED BY <3>1, <3>2, <3>3, <3>4 DEF Quiet
  <2>6. QED BY <2>1, <2>3, <2>4, <2>5 DEF Holding, Holds
<1>9. QED BY <1>1, <1>2, <1>7, <1>8 DEF IInv

-----------------------------------------------------------------------------
(* The theorems. *)

LEMMA SafeInit ==
    ASSUME Reliable, Init
    PROVE  IInv
<1>1. TypeOK BY TypeInit
<1>2. /\ \A l \in Locks : lease[l] = "nobody"
      /\ \A n \in Nodes : node[n] = Fresh /\ copy[n][1] = "none" /\ obsRaw[n][1] = "missing"
  BY Constants DEF Init, Reliable, Uniform
<1>3. \A n \in Nodes : ~Holding(n) BY <1>2, FreshState DEF Holding, Holds, Walks
<1>4. \A n \in Nodes : Regular(node[n]) /\ ExpiryIsTrue(node[n]) /\ InTime(node[n], n)
  BY <1>2, FreshState DEF Regular, ExpiryIsTrue, InTime
<1>5. \A n \in Nodes : /\ HasPrimary(n) /\ ClaimIsFree(n) /\ OwnRecordIsTrue(n)
                       /\ RecordIsTrue(n) /\ ReadIsTrue(n)
  BY <1>2, <1>3, FreshState
     DEF HasPrimary, ClaimIsFree, OwnRecordIsTrue, RecordIsTrue, ReadIsTrue, Reading
<1>6. \A m, n \in Nodes : Seen(m, n) BY <1>3 DEF Seen
<1>7. QED BY <1>1, <1>2, <1>4, <1>5, <1>6 DEF IInv, NodeInv

\* Which actions there are when nothing is missing and no request fails.
LEMMA ReliableSteps ==
    ASSUME Reliable, IInv, NEW n \in Nodes,
           \/ GetStep(n) \/ CreateStep(n) \/ UpdateStep(n) \/ FaultStep(n)
    PROVE  ReadLease(n) \/ UpdateLease(n) \/ UpdateRefused(n) \/ CheckLease(n) \/ Cancel(n) \/ Crash(n)
<1>1. /\ TypeOK /\ (\A l \in Locks : lease[l] # "absent") /\ node[n].at \in Locks
      /\ node[n].op \notin {"create", "recreate"}
  BY Parts, Types DEF Regular
<1>2. ~ReadMissing(n) /\ ~ReadMissingOfOther(n) BY <1>1 DEF ReadMissing, ReadMissingOfOther
<1>3. ~CreateStep(n) /\ ~RecreateLease(n)
  BY <1>1 DEF CreateStep, CreateLease, CreateExisting, RecreateLease
<1>4. ~RequestFails(n) /\ ~AnswerLost(n) BY DEF Reliable, RequestFails, AnswerLost
<1>5. QED BY <1>2, <1>3, <1>4 DEF GetStep, UpdateStep, FaultStep

LEMMA SafeNext ==
    ASSUME Reliable, LeaseOutlastsWalk, IInv, [Next]_vars
    PROVE  IInv'
<1>1. CASE Tick BY <1>1, SafeTick
<1>2. ASSUME NEW n \in Nodes,
             \/ Try(n) \/ GetStep(n) \/ CreateStep(n) \/ UpdateStep(n)
             \/ Settle(n) \/ GiveUp(n) \/ Restart(n) \/ FaultStep(n)
      PROVE  IInv'
  <2>1. CASE Try(n) BY <2>1, SafeTry
  <2>2. CASE ReadLease(n) BY <2>2, SafeReadOn, SafeReadLast
  <2>3. CASE UpdateLease(n) BY <2>3, SafeUpdateLease
  <2>4. CASE UpdateRefused(n) BY <2>4, SafeUpdateRefused
  <2>5. CASE CheckLease(n) BY <2>5, SafeCheckLease
  <2>6. CASE Settle(n) BY <2>6, SafeSettle
  <2>7. CASE GiveUp(n) \/ Cancel(n) \/ Crash(n) BY <2>7, SafeEnd
  <2>8. CASE Restart(n) BY <2>8, SafeRestart
  <2>9. QED BY <1>2, <2>1, <2>2, <2>3, <2>4, <2>5, <2>6, <2>7, <2>8, ReliableSteps
<1>3. CASE UNCHANGED vars
  <2>1. lease' = lease /\ node' = node /\ copy' = copy /\ obsRaw' = obsRaw /\ newRaw' = newRaw
    BY <1>3 DEF vars
  <2>2. QED
    BY <2>1 DEF IInv, TypeOK, NodeInv, HasPrimary, ClaimIsFree, OwnRecordIsTrue, RecordIsTrue,
                ReadIsTrue, Seen, Visible, Holding, NoOther
<1>4. QED BY <1>1, <1>2, <1>3 DEF Next

\* The invariant: with leases that exist, requests that do not fail and a lease that
\* outlasts a renewal and the walk over the secondaries, what a node concludes from its
\* reads of the primary stays true while its copy is current, and nobody finds the record
\* of a holder expired.
THEOREM Invariance ==
    ASSUME Reliable, LeaseOutlastsWalk
    PROVE  Spec => []IInv
<1>1. Init => IInv BY SafeInit
<1>2. IInv /\ [Next]_vars => IInv' BY SafeNext
<1>3. QED BY <1>1, <1>2, PTL DEF Spec

\* The primary alone decides: it names a leader for as long as it leads, for any number
\* of nodes and for as many clusters as LeaseOutlastsWalk admits, however the walks over
\* the leases interleave, through crashes, restarts and cancellations (kube/multi.go,
\* Update; the retries of the elector).  With the default durations these are two clusters:
\* for three a request has to be answered in less than 7.5 s, the client timeout, and it
\* need not be (run multi_lock_three).
THEOREM PrimaryIsHeld ==
    ASSUME Reliable, LeaseOutlastsWalk
    PROVE  Spec => []LeaderHoldsPrimary
<1>1. IInv => LeaderHoldsPrimary BY Parts DEF LeaderHoldsPrimary, Leads, HasPrimary, Holding, Holds
<1>2. QED BY <1>1, Invariance, PTL

\* At most one node leads, under the same hypotheses.
THEOREM OneLeader ==
    ASSUME Reliable, LeaseOutlastsWalk
    PROVE  Spec => []AtMostOneLeader
<1>1. LeaderHoldsPrimary => AtMostOneLeader BY DEF LeaderHoldsPrimary, AtMostOneLeader
<1>2. QED BY <1>1, PrimaryIsHeld, PTL

\* What changes a lease, and to what.
LEMMA LeaseChanges ==
    ASSUME Reliable, IInv, [Next]_vars, NEW l \in Locks, NEW n \in Nodes,
           lease[l] # n, lease'[l] = n
    PROVE  /\ node[n].op = "update" /\ node[n].at = l /\ copy[n][l] = "current"
           /\ node[n].phase \in {"acquire", "renew"}
           /\ \A k \in Locks : k # l => lease'[k] = lease[k]
<1>1. PICK m \in Nodes : UpdateLease(m)
  <2>1. lease' # lease OBVIOUS
  <2>2. ~Tick /\ ~UNCHANGED vars BY <2>1 DEF Tick, vars
  <2>3. PICK m \in Nodes : \/ Try(m) \/ GetStep(m) \/ CreateStep(m) \/ UpdateStep(m)
                           \/ Settle(m) \/ GiveUp(m) \/ Restart(m) \/ FaultStep(m)
    BY <2>2 DEF Next
  <2>4. ~Try(m) /\ ~Settle(m) /\ ~GiveUp(m) /\ ~Restart(m)
    BY <2>1 DEF Try, Settle, GiveUp, Restart
  <2>5. ~ReadLease(m) /\ ~UpdateRefused(m) /\ ~CheckLease(m) /\ ~Cancel(m) /\ ~Crash(m)
    BY <2>1 DEF ReadLease, UpdateRefused, CheckLease, Cancel, Crash
  <2>6. QED BY <2>3, <2>4, <2>5, ReliableSteps
<1>2. TypeOK BY DEF IInv
<1>3. /\ node[m].op = "update" /\ copy[m][node[m].at] = "current"
      /\ Write(m, node[m].at, Value(m), "current")
  BY <1>1, <1>2, UpdateLeaseEffect
<1>4. node[m].at \in Locks /\ Value(m) \in Holders BY <1>2, Types, ValueIsHolder
<1>5. lease'[node[m].at] = Value(m) /\ \A k \in Locks : k # node[m].at => lease'[k] = lease[k]
  BY <1>2, <1>3, <1>4, WriteEffect
<1>6. node[m].at = l /\ Value(m) = n BY <1>5
<1>7. m = n /\ node[m].phase # "release" BY <1>6, IdentitiesAreNames DEF Value
<1>8. node[m].phase \in {"acquire", "renew", "release"}
  BY <1>2, <1>3, Parts, Types DEF Regular
<1>9. QED BY <1>3, <1>5, <1>6, <1>7, <1>8

\* A secondary changes hands only to the node that the primary names: no straggler of an
\* earlier acquisition walks on through the secondaries, provided that a lease outlasts
\* the walk.
THEOREM SecondariesFollow ==
    ASSUME Reliable, LeaseOutlastsWalk
    PROVE  Spec => SecondaryFollowsPrimary
<1> DEFINE Follows == \A n \in Nodes, l \in Locks : lease[l] # n /\ lease'[l] = n => lease'[1] = n
<1>1. IInv /\ [Next]_vars => [Follows]_vars
  <2> SUFFICES ASSUME IInv, [Next]_vars, NEW n \in Nodes, NEW l \in Locks,
                      lease[l] # n, lease'[l] = n
               PROVE  lease'[1] = n
    OBVIOUS
  <2>1. CASE l = 1 BY <2>1
  <2>2. CASE l # 1
    <3>1. /\ node[n].op = "update" /\ node[n].at = l /\ copy[n][l] = "current"
          /\ node[n].phase \in {"acquire", "renew"}
          /\ \A k \in Locks : k # l => lease'[k] = lease[k]
      BY LeaseChanges
    <3>2. Holding(n) BY <2>2, <3>1, WritesOwnPrimary
    <3>3. lease'[1] = lease[1] BY <2>2, <3>1, Constants
    <3>4. QED BY <3>2, <3>3, HoldersOwn
  <2>3. QED BY <2>1, <2>2
<1>2. QED BY <1>1, Invariance, PTL DEF Spec, SecondaryFollowsPrimary

\* Nobody takes the lock from a node that leads: whoever finds the record expired finds
\* it so only after the leader has given up, provided that a lease outlasts the walk.
THEOREM NothingIsTaken ==
    ASSUME Reliable, LeaseOutlastsWalk
    PROVE  Spec => NoTakeFromLeader
<1> DEFINE NotTaken == \A m, n \in Nodes : m # n /\ Leads(m) /\ lease[1] = m => lease'[1] # n
<1>1. IInv /\ [Next]_vars => [NotTaken]_vars
  <2> SUFFICES ASSUME IInv, [Next]_vars, NEW m \in Nodes, NEW n \in Nodes,
                      m # n, Leads(m), lease[1] = m, lease'[1] = n
               PROVE  FALSE
    OBVIOUS
  <2>1. node[n].op = "update" /\ node[n].at = 1 /\ copy[n][node[n].at] = "current"
    BY LeaseChanges, Constants
  <2>2. NoOther(n) BY <2>1, WritesOwnPrimary
  <2>3. QED BY <2>2 DEF NoOther, Holding, Holds, Leads
<1>2. QED BY <1>1, Invariance, PTL DEF Spec, NoTakeFromLeader

-----------------------------------------------------------------------------
(***************************************************************************)
(* The lock of one cluster, when everything may fail: requests, answers,   *)
(* the processes, and the lease may not exist yet.  A release that goes on *)
(* for long may then erase the lease of the next leader, so the primary    *)
(* need not name a leader; but nobody takes the lease from one.            *)
(***************************************************************************)

Works(s) == s.phase \in {"acquire", "renew"}

\* The elector leads, or has written the lease and is about to.
Live(s) == s.phase = "renew" \/ (s.phase = "acquire" /\ s.op = "settle")

OfNoOther(n) == \A m \in Nodes : m # n /\ lease[1] = m => ~Live(node[m])

\* What an elector knows of the lease while its copy or its record is current.
Honest(n) ==
    Works(node[n]) =>
    /\ (node[n].observed = n \/ node[n].op = "settle") /\ copy[n][1] = "current" => lease[1] = n
    /\ obsRaw[n][1] = "current" => lease[1] = node[n].observed /\ node[n].op # "settle"
    /\ node[n].op = "update" /\ copy[n][1] = "current" => OfNoOther(n)

\* How long the record of a live node can have been unchanged.
Paced(s, age) ==
    /\ s.phase = "renew" => age + s.left <= Lag + RetryPeriod + RenewDeadline
    /\ s.op = "settle" => age <= s.lag

Watched(m, n) ==
    /\ m # n /\ lease[1] = m /\ Live(node[m])
    /\ Works(node[n]) /\ obsRaw[n][1] = "current"
    => Paced(node[m], node[n].age)

\* There are no secondaries.
Plain(s) == s.op \notin {"check", "recreate"} /\ (s.phase = "stopped" => s.op = "idle")

SingleInv ==
    /\ TypeOK
    /\ \A n \in Nodes : Plain(node[n]) /\ ExpiryIsTrue(node[n]) /\ Honest(n)
    /\ \A m, n \in Nodes : Watched(m, n)

LEMMA SingleParts ==
    ASSUME SingleInv, NEW n \in Nodes
    PROVE  /\ TypeOK /\ Plain(node[n]) /\ ExpiryIsTrue(node[n]) /\ Honest(n)
           /\ \A m \in Nodes : Watched(m, n) /\ Watched(n, m)
BY DEF SingleInv

LEMMA OnlyOne ==
    ASSUME N = 1, TypeOK, NEW n \in Nodes
    PROVE  node[n].at = 1 /\ \A l \in Locks : l = 1
<1>1. Locks = {1} BY DEF Locks
<1>2. QED BY <1>1, Types

LEMMA SingleStep ==
    ASSUME SingleInv, TypeOK', NEW n \in Nodes, Moves(n), UNCHANGED lease,
           \A m \in Nodes : m # n => copy'[m] = copy[m] /\ obsRaw'[m] = obsRaw[m],
           Plain(node'[n]), ExpiryIsTrue(node'[n]), Honest(n)',
           lease[1] = n /\ Live(node'[n]) => Live(node[n]),
           Live(node'[n]) => \A age \in Nat : Paced(node[n], age) => Paced(node'[n], age),
           Works(node'[n]) /\ obsRaw'[n][1] = "current" =>
               \/ node'[n].age = 0
               \/ /\ Works(node[n]) /\ node'[n].age = node[n].age
                  /\ obsRaw[n][1] = "current"
    PROVE  SingleInv'
<1>1. TypeOK BY DEF SingleInv
<1>2. \A m \in Nodes : m # n => node'[m] = node[m] BY <1>1, SameOthers
<1>3. ASSUME NEW m \in Nodes, m # n
      PROVE  Plain(node[m])' /\ ExpiryIsTrue(node[m])' /\ Honest(m)'
  <2>1. node'[m] = node[m] /\ copy'[m] = copy[m] /\ obsRaw'[m] = obsRaw[m] BY <1>2, <1>3
  <2>2. OfNoOther(m) => OfNoOther(m)' BY <1>2 DEF OfNoOther
  <2>3. Honest(m)' BY <2>1, <2>2, SingleParts DEF Honest
  <2>4. QED BY <2>1, <2>3, SingleParts
<1>4. ASSUME NEW m \in Nodes, NEW k \in Nodes
      PROVE  Watched(m, k)'
  <2> SUFFICES ASSUME m # k, lease[1] = m, Live(node'[m]), Works(node'[k]),
                      obsRaw'[k][1] = "current"
               PROVE  Paced(node'[m], node'[k].age)
    BY DEF Watched
  <2>1. Live(node[m]) BY <1>2
  <2>2. node[k].age \in Nat /\ node[m].lag \in Nat /\ node[m].left \in Nat
        /\ node[m].left <= RetryPeriod + RenewDeadline
    BY <1>1, Types, Constants
  <2>3. CASE k = n
    <3>1. node'[m] = node[m] BY <1>2, <2>3
    <3>2. CASE node'[n].age = 0 BY <2>2, <2>3, <3>1, <3>2, Constants DEF Paced
    <3>3. CASE Works(node[n]) /\ node'[n].age = node[n].age /\ obsRaw[n][1] = "current"
      BY <2>1, <2>3, <3>1, <3>3, SingleParts DEF Watched
    <3>4. QED BY <2>3, <3>2, <3>3
  <2>4. CASE k # n
    <3>1. node'[k] = node[k] /\ obsRaw'[k] = obsRaw[k] BY <1>2, <2>4
    <3>2. Paced(node[m], node[k].age) BY <2>1, <3>1, SingleParts DEF Watched
    <3>3. QED BY <1>2, <2>2, <3>1, <3>2
  <2>5. QED BY <2>3, <2>4
<1>5. QED BY <1>3, <1>4 DEF SingleInv

\* An elector whose session is over, or that only releases.
LEMMA SingleOver ==
    ASSUME SingleInv, TypeOK', NEW n \in Nodes, Moves(n), UNCHANGED lease,
           \A m \in Nodes : m # n => copy'[m] = copy[m] /\ obsRaw'[m] = obsRaw[m],
           Plain(node'[n]), ExpiryIsTrue(node'[n]), ~Works(node'[n])
    PROVE  SingleInv'
<1>1. ~Live(node'[n]) BY DEF Live, Works
<1>2. Honest(n)' BY DEF Honest
<1>3. QED BY <1>1, <1>2, SingleStep

LEMMA StoppedIsOver ==
    ~Works(Stopped) /\ Plain(Stopped) /\ ExpiryIsTrue(Stopped)
BY FreshState DEF Works, Plain, ExpiryIsTrue

\* A request that fails without an effect; the copy may get lost.
LEMMA SingleFailed ==
    ASSUME SingleInv, TypeOK', NEW n \in Nodes, node' = [node EXCEPT ![n] = Failed(node[n])],
           UNCHANGED lease, UNCHANGED obsRaw, node[n].op # "idle",
           \A m \in Nodes : m # n => copy'[m] = copy[m],
           copy'[n][1] = "current" => copy[n][1] = "current"
    PROVE  SingleInv'
<1> DEFINE s == node[n]
           t == node'[n]
<1>1. TypeOK BY DEF SingleInv
<1>2. Moves(n) /\ t = Failed(s) BY <1>1, FailedEffect
<1>3. CASE s.phase = "release"
  <2>1. t = Stopped BY <1>2, <1>3 DEF Failed
  <2>2. QED BY <1>2, <2>1, StoppedIsOver, SingleOver
<1>4. CASE s.phase # "release"
  <2>1. /\ t \in NodeStates
        /\ s.fast => t.op = "get" /\ t.at = 1 /\ (t.expired <=> s.expired)
        /\ ~s.fast => t.op = "idle" /\ t.at = 1
        /\ t.phase = s.phase /\ t.observed = s.observed /\ t.age = s.age
        /\ t.left = s.left /\ ~t.fast
    <3>1. s \in NodeStates BY <1>1, Types
    <3> HIDE DEF s, t
    <3>2. QED BY <1>2, <1>4, <3>1, FailedState
  <2>2. Plain(s) /\ ExpiryIsTrue(s) /\ Honest(n) BY SingleParts
  <2>3. t.op \in {"get", "idle"} BY <2>1
  <2>4. Plain(t) /\ ExpiryIsTrue(t) BY <2>1, <2>2, <2>3 DEF Plain, ExpiryIsTrue
  <2>5. Works(t) => Works(s) BY <2>1 DEF Works
  <2>6. Honest(n)' BY <2>1, <2>2, <2>3, <2>5 DEF Honest
  <2>7. Live(t) => Live(s) BY <2>1, <2>3 DEF Live
  <2>8. \A age \in Nat : Paced(s, age) => Paced(t, age) BY <2>1, <2>3 DEF Paced
  <2>9. QED BY <1>2, <2>1, <2>4, <2>5, <2>6, <2>7, <2>8, SingleStep
<1>5. QED BY <1>3, <1>4

\* A write of the lease.
LEMMA SingleWrite ==
    ASSUME SingleInv, TypeOK', NEW n \in Nodes, NEW v \in Holders,
           NEW kept \in {"none", "current", "stale"}, Write(n, 1, v, kept), Moves(n), Plain(node'[n]), ExpiryIsTrue(node'[n]),
           Works(node'[n]) => v = n /\ node'[n].op # "update"
    PROVE  SingleInv'
<1>1. TypeOK /\ 1 \in Locks BY Constants DEF SingleInv
<1>2. /\ lease'[1] = v
      /\ \A m \in Nodes : obsRaw'[m][1] # "current"
      /\ \A m \in Nodes : m # n => copy'[m][1] # "current"
  BY <1>1, WriteEffect
<1>3. \A m \in Nodes : m # n => node'[m] = node[m] BY <1>1, SameOthers
<1>4. Honest(n)' BY <1>2 DEF Honest
<1>5. \A m \in Nodes : m # n => Plain(node'[m]) /\ ExpiryIsTrue(node'[m]) BY <1>3, SingleParts
<1>6. ASSUME NEW m \in Nodes, m # n
      PROVE  Honest(m)'
  <2>1. copy'[m][1] # "current" /\ obsRaw'[m][1] # "current" BY <1>2, <1>6
  <2>2. QED BY <2>1 DEF Honest
<1>7. \A m, k \in Nodes : Watched(m, k)' BY <1>2 DEF Watched
<1>8. QED BY <1>4, <1>5, <1>6, <1>7 DEF SingleInv

LEMMA SingleTry ==
    ASSUME SingleInv, NEW n \in Nodes, Try(n)
    PROVE  SingleInv'
<1> DEFINE s == node[n]
           t == node'[n]
<1>1. TypeOK /\ TypeOK' /\ Honest(n) BY SingleParts, TypeTry
<1>2. /\ s.phase \in {"acquire", "renew"} /\ s.op = "idle"
      /\ Moves(n) /\ t.phase = s.phase
      /\ t.observed = s.observed /\ t.age = s.age /\ t.left = s.left
      /\ (t.expired <=> s.age >= Dur(s.observed)) /\ (t.fast => ~t.expired)
      /\ (t.op = "update" /\ s.observed = n) \/ t.op = "get"
      /\ lease' = lease /\ copy' = copy /\ obsRaw' = obsRaw
  BY <1>1, TryEffect
<1>3. Works(s) /\ Works(t) /\ Plain(t) /\ ExpiryIsTrue(t) BY <1>2 DEF Works, Plain, ExpiryIsTrue
<1>4. t.op = "update" /\ copy[n][1] = "current" => OfNoOther(n)'
  <2>1. t.op = "update" /\ copy[n][1] = "current" => lease[1] = n BY <1>1, <1>2, <1>3 DEF Honest
  <2>2. QED BY <1>2, <2>1 DEF OfNoOther
<1>5. Honest(n)' BY <1>1, <1>2, <1>3, <1>4 DEF Honest
<1>6. Live(t) => Live(s) BY <1>2 DEF Live
<1>7. \A age \in Nat : Paced(s, age) => Paced(t, age) BY <1>2 DEF Paced
<1>8. QED BY <1>1, <1>2, <1>3, <1>5, <1>6, <1>7, SingleStep

\* A read tells an elector who holds the lease.  It goes on to Update when that is nobody
\* or itself, and when the record has not changed for LeaseDuration; no live node lets
\* that happen.
LEMMA SingleRead ==
    ASSUME N = 1, LeaseOutlastsRenewal, SingleInv, NEW n \in Nodes, ReadLease(n)
    PROVE  SingleInv'
<1> DEFINE s == node[n]
           t == node'[n]
           h == lease[1]
           same == {k \in 1..s.at : IF k = s.at THEN obsRaw[n][k] = "current" ELSE k \in s.same}
           mismatch == s.at > 1 /\ s.seen # lease[s.at]
           raw == Collected(newRaw[n], s.at, mismatch)
<1>1. TypeOK /\ TypeOK' /\ Honest(n) /\ ExpiryIsTrue(s) /\ s.at = 1 /\ 1 \in Locks
  BY SingleParts, TypeReadLease, OnlyOne, Constants
<1>2. /\ s.op = "get" /\ h # "absent" /\ lease' = lease
      /\ copy' = [copy EXCEPT ![n][1] = "current"] /\ GetDone(n, h, same, raw)
  <2>1. ~mismatch BY <1>1
  <2>2. /\ s.op = "get" /\ lease[s.at] # "absent" /\ lease' = lease
        /\ copy' = [copy EXCEPT ![n][s.at] = "current"]
        /\ GetDone(n, IF mismatch THEN Mismatch(s.seen) ELSE lease[s.at], same, raw)
    BY <1>1 DEF ReadLease
  <2> HIDE DEF mismatch, same, raw
  <2>3. QED BY <1>1, <2>1, <2>2
<1>3. h \in Holders BY <1>1, <1>2, Kinds DEF Leases
<1>4. raw \in Raws /\ raw[1] = "current"
  <2> HIDE DEF mismatch
  <2>1. newRaw[n] \in Raws /\ mismatch \in BOOLEAN BY <1>1, Types DEF mismatch
  <2>2. QED BY <1>1, <2>1, CollectedEffect
<1>5. 1 \in same => obsRaw[n][1] = "current" BY <1>1
<1>6. copy'[n][1] = "current" /\ \A m \in Nodes : m # n => copy'[m] = copy[m]
  BY <1>1, <1>2, CopyEffect
<1> HIDE DEF h, same, raw
<1>7. /\ Moves(n) /\ (t.at = 1 \/ t.phase = "stopped")
      /\ t.fast => s.fast /\ (t.expired => s.expired)
      /\ s.phase = "release" =>
            /\ obsRaw' = obsRaw
            /\ t = Stopped \/ (t.phase = "release" /\ t.op = "update")
      /\ s.phase # "release" =>
            /\ t.phase = s.phase /\ t.left = s.left
            /\ \/ /\ 1 \in same /\ obsRaw' = obsRaw
                  /\ t.observed = s.observed /\ t.age = s.age
                  /\ \/ t.op = "idle"
                     \/ t.op = "update" /\ (s.expired \/ s.observed \in {n, "nobody"})
               \/ /\ obsRaw' = [obsRaw EXCEPT ![n] = raw]
                  /\ t.observed = h /\ t.age = 0
                  /\ \/ t.op = "idle"
                     \/ t.op = "update" /\ h \in {n, "nobody"}
  <2>1. (\A l \in Locks : raw[l] # "missing" => l \in same) => 1 \in same BY <1>1, <1>4
  <2>2. QED BY <1>1, <1>2, <1>3, <1>4, <2>1, GetDoneEffect
<1>8. \A m \in Nodes : m # n => obsRaw'[m] = obsRaw[m]
  <2>1. obsRaw' = obsRaw \/ obsRaw' = [obsRaw EXCEPT ![n] = raw] BY <1>7
  <2>2. QED BY <1>1, <2>1, Kinds
<1>9. s.phase # "stopped" BY <1>2, SingleParts DEF Plain
<1>10. CASE s.phase = "release"
  <2>1. CASE t = Stopped BY <1>1, <1>2, <1>6, <1>7, <1>8, <2>1, StoppedIsOver, SingleOver
  <2>2. CASE t.phase = "release" /\ t.op = "update"
    <3>1. ~Works(t) /\ Plain(t) /\ ExpiryIsTrue(t)
      BY <1>1, <1>7, <2>2 DEF Works, Plain, ExpiryIsTrue
    <3>2. QED BY <1>1, <1>2, <1>6, <1>7, <1>8, <3>1, SingleOver
  <2>3. QED BY <1>7, <1>10, <2>1, <2>2
<1>11. CASE s.phase # "release"
  <2>1. Works(s) BY <1>1, <1>9, <1>11, Types DEF Works
  <2>2. Works(t) /\ t.op \in {"idle", "update"} /\ t.phase = s.phase /\ t.left = s.left
    BY <1>7, <1>11, <2>1 DEF Works
  <2>3. Plain(t) /\ ExpiryIsTrue(t)
    BY <1>1, <1>7, <1>9, <2>2 DEF Plain, ExpiryIsTrue
  <2>4. lease[1] = t.observed
    BY <1>1, <1>5, <1>7, <1>11, <2>1 DEF Honest, h
  <2>5. t.op = "update" => OfNoOther(n)'
    <3> SUFFICES ASSUME t.op = "update", NEW m \in Nodes, m # n, lease[1] = m, Live(node'[m])
                 PROVE  FALSE
      BY <1>2 DEF OfNoOther
    <3>1. Live(node[m]) BY <1>1, <1>7, SameOthers
    <3>2. lease[1] \notin {n, "nobody"} BY IdentitiesAreNames
    <3>3. 1 \in same /\ s.expired /\ s.observed = m BY <1>7, <1>11, <2>4, <3>2 DEF h
    <3>4. s.age >= LeaseDuration
      BY <1>1, <1>2, <3>3, IdentitiesAreNames DEF ExpiryIsTrue, Dur
    <3>5. Paced(node[m], s.age) BY <1>5, <2>1, <3>1, <3>3, SingleParts DEF Watched
    <3>6. node[m].lag \in Nat /\ node[m].lag <= Lag /\ node[m].left \in Nat /\ s.age \in Nat
      BY <1>1, Types, Constants
    <3>7. QED BY <3>1, <3>4, <3>5, <3>6, Constants DEF Live, Paced, LeaseOutlastsRenewal
  <2>6. Honest(n)' BY <1>2, <2>2, <2>4, <2>5 DEF Honest
  <2>7. Live(t) => Live(s) BY <2>2 DEF Live
  <2>8. \A age \in Nat : Paced(s, age) => Paced(t, age) BY <2>2 DEF Paced
  <2>9. t.age = 0 \/ (t.age = s.age /\ obsRaw' = obsRaw) BY <1>7, <1>11
  <2>10. QED
    BY <1>1, <1>2, <1>6, <1>7, <1>8, <2>1, <2>3, <2>6, <2>7, <2>8, <2>9, SingleStep
<1>12. QED BY <1>10, <1>11

LEMMA SingleMissing ==
    ASSUME SingleInv, NEW n \in Nodes, ReadMissing(n), node[n].at = 1
    PROVE  SingleInv'
<1> DEFINE s == node[n]
           t == node'[n]
           c == [Go(s, "create", 1) EXCEPT !.seen = "nobody", !.same = {}]
<1>1. TypeOK /\ TypeOK' /\ Honest(n) /\ Plain(s) /\ ExpiryIsTrue(s) BY SingleParts, TypeReadMissing
<1>2. /\ s.op = "get" /\ lease[1] = "absent" /\ lease' = lease /\ copy' = copy /\ obsRaw' = obsRaw
      /\ node' = [node EXCEPT ![n] = IF s.phase = "release" THEN Stopped ELSE c]
  BY DEF ReadMissing
<1>3. CASE s.phase = "release"
  <2>1. node' = [node EXCEPT ![n] = Stopped] BY <1>2, <1>3
  <2>2. Moves(n) /\ t = Stopped BY <1>1, <2>1, FreshState, MovesTo
  <2>3. QED BY <1>1, <1>2, <2>2, StoppedIsOver, SingleOver
<1>4. CASE s.phase # "release"
  <2>1. s \in NodeStates BY <1>1, Types
  <2>2. /\ c \in NodeStates /\ c.op = "create" /\ c.phase = s.phase /\ c.observed = s.observed
        /\ c.age = s.age /\ c.left = s.left
        /\ (c.fast <=> s.fast) /\ (c.expired <=> s.expired)
    <3> HIDE DEF s
    <3>1. QED BY <2>1, Units, Zenon DEF Go, NodeStates
  <2> HIDE DEF c
  <2>3. node' = [node EXCEPT ![n] = c] BY <1>2, <1>4
  <2>4. Moves(n) /\ t = c BY <1>1, <2>2, <2>3, MovesTo
  <2>5. Plain(t) /\ ExpiryIsTrue(t) /\ (Works(t) => Works(s))
    BY <1>1, <1>2, <2>2, <2>4 DEF Plain, ExpiryIsTrue, Works
  <2>6. Honest(n)' BY <1>1, <1>2, <2>2, <2>4, <2>5 DEF Honest
  <2>7. Live(t) => Live(s) BY <2>2, <2>4 DEF Live
  <2>8. \A age \in Nat : Paced(s, age) => Paced(t, age) BY <2>2, <2>4 DEF Paced
  <2>9. QED BY <1>1, <1>2, <2>2, <2>4, <2>5, <2>6, <2>7, <2>8, SingleStep
<1>5. QED BY <1>3, <1>4

LEMMA SingleCreate ==
    ASSUME N = 1, SingleInv, NEW n \in Nodes, CreateStep(n)
    PROVE  SingleInv'
<1> DEFINE s == node[n]
           t == node'[n]
<1>1. /\ TypeOK /\ TypeOK' /\ s.at = 1 /\ 1 \in Locks /\ n \in Holders
      /\ Plain(s) /\ ExpiryIsTrue(s)
  BY SingleParts, TypeCreate, OnlyOne, Constants DEF Holders
<1>2. CASE CreateLease(n)
  <2>1. s.op = "create" /\ Write(n, 1, n, "current") /\ node' = [node EXCEPT ![n] = Go(node[n], "settle", 1)]
    BY <1>1, <1>2 DEF CreateLease, NextCreate
  <2>2. /\ Moves(n) /\ t.op = "settle" /\ t.phase = s.phase
        /\ (t.fast <=> s.fast) /\ (t.expired <=> s.expired)
    BY <1>1, <2>1, GoEffect
  <2>3. Plain(t) /\ ExpiryIsTrue(t) BY <1>1, <2>1, <2>2 DEF Plain, ExpiryIsTrue
  <2>4. QED BY <1>1, <2>1, <2>2, <2>3, SingleWrite
<1>3. CASE CreateExisting(n)
  <2>1. /\ s.op = "create" /\ copy' = [copy EXCEPT ![n][1] = "none"] /\ lease' = lease
        /\ obsRaw' = obsRaw /\ node' = [node EXCEPT ![n] = Failed(node[n])]
    BY <1>1, <1>3 DEF CreateExisting
  <2>2. copy'[n][1] = "none" /\ \A m \in Nodes : m # n => copy'[m] = copy[m]
    BY <1>1, <2>1, CopyEffect
  <2>3. QED BY <1>1, <2>1, <2>2, SingleFailed
<1>4. QED BY <1>2, <1>3 DEF CreateStep

LEMMA SingleUpdate ==
    ASSUME N = 1, SingleInv, NEW n \in Nodes, UpdateStep(n) \/ RequestFails(n) \/ AnswerLost(n)
    PROVE  SingleInv'
<1> DEFINE s == node[n]
           t == node'[n]
<1>1. /\ TypeOK /\ TypeOK' /\ s.at = 1 /\ 1 \in Locks /\ Value(n) \in Holders
      /\ Plain(s) /\ ExpiryIsTrue(s)
  BY SingleParts, TypeUpdate, TypeElector, OnlyOne, Constants, ValueIsHolder DEF FaultStep
<1>2. CASE UpdateLease(n)
  <2>1. s.op = "update" /\ Write(n, 1, Value(n), "current")
        /\ node' = [node EXCEPT ![n] = Go(node[n], "settle", 1)]
    BY <1>1, <1>2 DEF UpdateLease
  <2>2. /\ Moves(n) /\ t.op = "settle" /\ t.phase = s.phase
        /\ (t.fast <=> s.fast) /\ (t.expired <=> s.expired)
    BY <1>1, <2>1, GoEffect
  <2>3. Plain(t) /\ ExpiryIsTrue(t) BY <1>1, <2>1, <2>2 DEF Plain, ExpiryIsTrue
  <2>4. Works(t) => Value(n) = n BY <2>2 DEF Works, Value
  <2>5. QED BY <1>1, <2>1, <2>2, <2>3, <2>4, SingleWrite
<1>3. CASE UpdateRefused(n)
  <2>1. /\ s.op = "update" /\ node' = [node EXCEPT ![n] = Failed(node[n])]
        /\ lease' = lease /\ copy' = copy /\ obsRaw' = obsRaw
    BY <1>3 DEF UpdateRefused
  <2>2. QED BY <1>1, <2>1, SingleFailed
<1>4. CASE RequestFails(n)
  <2> DEFINE c == IF Creates(s) THEN "none" ELSE copy[n][1]
  <2>1. /\ s.op # "idle" /\ node' = [node EXCEPT ![n] = Failed(node[n])]
        /\ lease' = lease /\ copy' = [copy EXCEPT ![n][1] = c] /\ obsRaw' = obsRaw
    <3>1. s.op # "check" BY <1>1 DEF Plain
    <3>2. s.op # "idle" /\ lease' = lease /\ obsRaw' = obsRaw BY <1>4 DEF RequestFails
    <3>3. node' = [node EXCEPT ![n] = Failed(node[n])] BY <1>4, <3>1 DEF RequestFails
    <3>4. copy' = [copy EXCEPT ![n][1] = c] BY <1>1, <1>4 DEF RequestFails
    <3>5. QED BY <3>2, <3>3, <3>4
  <2>2. c \in {"none", "current", "stale"} /\ (c = "current" => copy[n][1] = "current")
    BY <1>1, Types
  <2> HIDE DEF c
  <2>3. copy'[n][1] = c /\ \A m \in Nodes : m # n => copy'[m] = copy[m]
    BY <1>1, <2>1, <2>2, CopyEffect
  <2>4. QED BY <1>1, <2>1, <2>2, <2>3, SingleFailed
<1>5. CASE AnswerLost(n)
  <2> DEFINE kept == IF Creates(s) THEN "none" ELSE "stale"
  <2>1. /\ s.op \in {"update", "create"} /\ Write(n, 1, Value(n), kept)
        /\ kept \in {"none", "current", "stale"} /\ node' = [node EXCEPT ![n] = Failed(node[n])]
    BY <1>1, <1>5 DEF AnswerLost, Creates, Plain
  <2>2. Moves(n) /\ t = Failed(s) BY <1>1, <2>1, FailedEffect
  <2>3. CASE s.phase = "release"
    <3>1. t = Stopped BY <2>2, <2>3 DEF Failed
    <3>2. QED BY <1>1, <2>1, <2>2, <3>1, StoppedIsOver, SingleWrite
  <2>4. CASE s.phase # "release"
    <3>1. /\ s.fast => t.op = "get" /\ (t.expired <=> s.expired)
          /\ ~s.fast => t.op = "idle"
          /\ t.phase = s.phase /\ ~t.fast
      <4>1. s \in NodeStates BY <1>1, Types
      <4> HIDE DEF s, t
      <4>2. QED BY <2>2, <2>4, <4>1, FailedState
    <3>2. Plain(t) /\ ExpiryIsTrue(t) BY <1>1, <2>1, <3>1 DEF Plain, ExpiryIsTrue
    <3>3. Value(n) = n /\ t.op # "update" BY <2>4, <3>1 DEF Value
    <3>4. QED BY <1>1, <2>1, <2>2, <3>2, <3>3, SingleWrite
  <2>5. QED BY <2>3, <2>4
<1>6. ~CheckLease(n) /\ ~RecreateLease(n) BY <1>1 DEF CheckLease, RecreateLease, Plain
<1>7. QED BY <1>2, <1>3, <1>4, <1>5, <1>6 DEF UpdateStep

LEMMA SingleElector ==
    ASSUME SingleInv, NEW n \in Nodes, Settle(n) \/ GiveUp(n) \/ Restart(n) \/ Cancel(n) \/ Crash(n)
    PROVE  SingleInv'
<1> DEFINE s == node[n]
           t == node'[n]
<1>1. TypeOK /\ TypeOK' /\ Honest(n) BY SingleParts, TypeElector DEF FaultStep
<1>2. CASE Settle(n)
  <2>1. /\ s.op = "settle" /\ Moves(n) /\ lease' = lease /\ copy' = copy /\ obsRaw' = obsRaw
        /\ \/ /\ s.phase \in {"acquire", "renew"} /\ t.phase = "renew" /\ t.op = "idle"
              /\ t.observed = n /\ ~t.fast
              /\ t.wait \in {0, RetryPeriod} /\ t.left = RenewDeadline + t.wait
           \/ t = Stopped
    BY <1>1, <1>2, SettleEffect
  <2>2. CASE t = Stopped BY <1>1, <2>1, <2>2, StoppedIsOver, SingleOver
  <2>3. CASE t # Stopped
    <3>1. Plain(t) /\ ExpiryIsTrue(t) /\ Works(s) /\ Live(s)
      BY <2>1, <2>3 DEF Plain, ExpiryIsTrue, Works, Live
    <3>2. Honest(n)' /\ obsRaw'[n][1] # "current" BY <1>1, <2>1, <2>3, <3>1 DEF Honest
    <3>3. \A age \in Nat : Paced(s, age) => Paced(t, age)
      <4>1. s.lag \in Nat /\ s.lag <= Lag BY <1>1, Types, Constants
      <4>2. QED BY <2>1, <2>3, <4>1, Constants DEF Paced
    <3>4. QED BY <1>1, <2>1, <3>1, <3>2, <3>3, SingleStep
  <2>4. QED BY <2>2, <2>3
<1>3. CASE GiveUp(n) \/ Cancel(n) \/ Crash(n)
  <2>1. /\ Moves(n) /\ lease' = lease /\ copy' = copy /\ obsRaw' = obsRaw
        /\ \/ t = Stopped
           \/ t.phase = "release" /\ t.op = "get" /\ ~t.expired /\ ~t.fast
    BY <1>1, <1>3, EndEffect
  <2>2. ~Works(t) /\ Plain(t) /\ ExpiryIsTrue(t)
    BY <2>1, StoppedIsOver DEF Works, Plain, ExpiryIsTrue
  <2>3. QED BY <1>1, <2>1, <2>2, SingleOver
<1>4. CASE Restart(n)
  <2>1. /\ Moves(n) /\ t = Fresh /\ lease' = lease
        /\ copy'[n][1] = "none" /\ obsRaw'[n][1] = "missing"
        /\ \A m \in Nodes : m # n => copy'[m] = copy[m] /\ obsRaw'[m] = obsRaw[m]
    BY <1>1, <1>4, RestartEffect, Constants
  <2>2. t.phase = "acquire" /\ t.op = "idle" /\ ~t.fast BY <2>1, FreshState
  <2>3. Plain(t) /\ ExpiryIsTrue(t) /\ ~Live(t) BY <2>2 DEF Plain, ExpiryIsTrue, Live
  <2>4. Honest(n)' BY <2>1, <2>2 DEF Honest
  <2>5. QED BY <1>1, <2>1, <2>3, <2>4, SingleStep
<1>5. QED BY <1>2, <1>3, <1>4

LEMMA SingleTick ==
    ASSUME SingleInv, Tick
    PROVE  SingleInv'
<1>1. TypeOK /\ TypeOK' BY TypeTick DEF SingleInv
<1>2. /\ \A n \in Nodes : MayWait(node[n])
      /\ node' = [n \in Nodes |-> Older(node[n])]
      /\ lease' = lease /\ copy' = copy /\ obsRaw' = obsRaw
  BY DEF Tick
<1>3. ASSUME NEW n \in Nodes
      PROVE  LET s == node[n]
                 t == node'[n]
             IN  /\ t.phase = s.phase /\ t.op = s.op /\ t.observed = s.observed
                 /\ (t.fast <=> s.fast) /\ (t.expired <=> s.expired)
                 /\ t.age = s.age + 1 \/ t.age = s.age
                 /\ (s.phase # "stopped" /\ s.op # "idle" => t.lag = s.lag + 1)
                 /\ (s.phase = "renew" => t.left = s.left - 1)
                 /\ s.age \in Nat /\ s.lag \in Nat /\ s.left \in Nat
  <2>1. node[n] \in NodeStates /\ MayWait(node[n]) /\ node'[n] = Older(node[n]) BY <1>1, <1>2, Types
  <2>2. node[n].age \in Nat /\ node[n].lag \in Nat /\ node[n].left \in Nat
    BY <1>1, Types, Constants
  <2>3. QED BY <2>1, <2>2, OlderState
<1>4. \A n \in Nodes : /\ Live(node'[n]) <=> Live(node[n])
                       /\ Works(node'[n]) <=> Works(node[n])
  BY <1>3 DEF Live, Works
<1>5. ASSUME NEW n \in Nodes PROVE Plain(node[n])' /\ ExpiryIsTrue(node[n])' /\ Honest(n)'
  <2>1. Plain(node[n]) /\ ExpiryIsTrue(node[n]) /\ Honest(n) BY SingleParts
  <2>2. Dur(node[n].observed) \in Nat BY Constants DEF Dur
  <2>3. Plain(node'[n]) BY <1>3, <2>1 DEF Plain
  <2>4. ExpiryIsTrue(node'[n]) BY <1>3, <2>1, <2>2 DEF ExpiryIsTrue
  <2>5. OfNoOther(n)' <=> OfNoOther(n) BY <1>2, <1>4 DEF OfNoOther
  <2>6. Honest(n)' BY <1>2, <1>3, <1>4, <2>1, <2>5 DEF Honest
  <2>7. QED BY <2>3, <2>4, <2>6
<1>6. ASSUME NEW m \in Nodes, NEW n \in Nodes PROVE Watched(m, n)'
  <2> DEFINE s == node[m]
             t == node'[m]
             a == node[n].age
             b == node'[n].age
  <2> SUFFICES ASSUME m # n, lease[1] = m, Live(t), Works(node'[n]), obsRaw[n][1] = "current"
               PROVE  Paced(t, b)
    BY <1>2 DEF Watched
  <2>1. Paced(s, a) /\ Live(s) BY <1>4, SingleParts DEF Watched
  <2>2. s.phase # "stopped" BY <2>1 DEF Live
  <2>3. s.op = "settle" => t.lag = s.lag + 1 BY <1>3, <2>2
  <2>4. a \in Nat /\ b \in Nat /\ b <= a + 1 BY <1>3
  <2>5. QED BY <1>3, <2>1, <2>3, <2>4, Constants DEF Paced
<1>7. QED BY <1>1, <1>5, <1>6 DEF SingleInv

LEMMA SingleInit == Init => SingleInv
<1> SUFFICES ASSUME Init PROVE SingleInv OBVIOUS
<1>1. TypeOK BY TypeInit
<1>2. \A n \in Nodes : node[n] = Fresh /\ copy[n][1] = "none" /\ obsRaw[n][1] = "missing"
  BY Constants DEF Init, Uniform
<1>3. \A n \in Nodes : Plain(node[n]) /\ ExpiryIsTrue(node[n]) /\ Honest(n)
  BY <1>2, FreshState DEF Plain, ExpiryIsTrue, Honest
<1>4. \A m, n \in Nodes : Watched(m, n) BY <1>2 DEF Watched
<1>5. QED BY <1>1, <1>3, <1>4 DEF SingleInv

LEMMA SingleNext ==
    ASSUME N = 1, LeaseOutlastsRenewal, SingleInv, [Next]_vars
    PROVE  SingleInv'
<1>1. CASE Tick BY <1>1, SingleTick
<1>2. ASSUME NEW n \in Nodes,
             \/ Try(n) \/ GetStep(n) \/ CreateStep(n) \/ UpdateStep(n)
             \/ Settle(n) \/ GiveUp(n) \/ Restart(n) \/ FaultStep(n)
      PROVE  SingleInv'
  <2>1. node[n].at = 1 BY SingleParts, OnlyOne
  <2>2. CASE Try(n) BY <2>2, SingleTry
  <2>3. CASE GetStep(n)
    <3>1. ~ReadMissingOfOther(n) BY <2>1 DEF ReadMissingOfOther
    <3>2. QED BY <2>1, <2>3, <3>1, SingleRead, SingleMissing DEF GetStep
  <2>4. CASE CreateStep(n) BY <2>4, SingleCreate
  <2>5. CASE UpdateStep(n) \/ RequestFails(n) \/ AnswerLost(n) BY <2>5, SingleUpdate
  <2>6. CASE Settle(n) \/ GiveUp(n) \/ Restart(n) \/ Cancel(n) \/ Crash(n) BY <2>6, SingleElector
  <2>7. QED BY <1>2, <2>2, <2>3, <2>4, <2>5, <2>6 DEF FaultStep
<1>3. CASE UNCHANGED vars
  <2>1. lease' = lease /\ node' = node /\ copy' = copy /\ obsRaw' = obsRaw /\ newRaw' = newRaw
    BY <1>3 DEF vars
  <2>2. QED BY <2>1 DEF SingleInv, TypeOK, Honest, Watched, OfNoOther
<1>4. QED BY <1>1, <1>2, <1>3 DEF Next

\* Nobody takes the lease of one cluster from a leader that it names, whatever fails: a
\* leader whose last renewal was answered late, or had its effect and no answer, and whose
\* retries since then have all failed, gives up before anybody else finds the record
\* expired (kube/single.go's timeout, the durations of kube/locker.go).
THEOREM SingleLockIsNotTaken ==
    ASSUME N = 1, LeaseOutlastsRenewal
    PROVE  Spec => NoTakeFromLeader
<1> DEFINE NotTaken == \A m, n \in Nodes : m # n /\ Leads(m) /\ lease[1] = m => lease'[1] # n
<1>1. SingleInv /\ [Next]_vars => [NotTaken]_vars
  <2> SUFFICES ASSUME SingleInv, [Next]_vars, NEW m \in Nodes, NEW n \in Nodes,
                      m # n, Leads(m), lease[1] = m, lease'[1] = n
               PROVE  FALSE
    OBVIOUS
  <2>1. TypeOK /\ lease' # lease /\ lease[1] # "absent" BY IdentitiesAreNames DEF SingleInv
  <2>2. PICK k \in Nodes : \/ Try(k) \/ GetStep(k) \/ CreateStep(k) \/ UpdateStep(k)
                           \/ Settle(k) \/ GiveUp(k) \/ Restart(k) \/ FaultStep(k)
    BY <2>1 DEF Next, Tick, vars
  <2>3. node[k].at = 1 /\ Plain(node[k]) BY <2>1, SingleParts, OnlyOne
  <2>4. ~Try(k) /\ ~GetStep(k) /\ ~Settle(k) /\ ~GiveUp(k) /\ ~Restart(k)
    BY <2>1 DEF Try, GetStep, ReadLease, ReadMissingOfOther, ReadMissing, Settle, GiveUp, Restart
  <2>5. ~CreateStep(k) BY <2>1, <2>3 DEF CreateStep, CreateLease, CreateExisting
  <2>6. ~Cancel(k) /\ ~Crash(k) /\ ~RequestFails(k) BY <2>1 DEF Cancel, Crash, RequestFails
  <2>7. ~UpdateRefused(k) /\ ~CheckLease(k) /\ ~RecreateLease(k)
    BY <2>1, <2>3 DEF UpdateRefused, CheckLease, RecreateLease, Plain
  <2>8. PICK a \in {"none", "current", "stale"} :
           node[k].op = "update" /\ copy[k][1] = "current" /\ Write(k, 1, Value(k), a)
    BY <2>1, <2>2, <2>3, <2>4, <2>5, <2>6, <2>7 DEF UpdateStep, FaultStep, UpdateLease, AnswerLost
  <2>9. lease'[1] = Value(k) BY <2>1, <2>8, ValueIsHolder, Constants, WriteEffect
  <2>10. k = n /\ node[n].phase # "release" BY <2>9, IdentitiesAreNames DEF Value
  <2>11. Works(node[n]) BY <2>1, <2>3, <2>8, <2>10, Types DEF Works, Plain
  <2>12. OfNoOther(n) BY <2>8, <2>10, <2>11, SingleParts DEF Honest
  <2>13. QED BY <2>12 DEF OfNoOther, Leads, Live
<1>2. SingleInv /\ [Next]_vars => SingleInv' BY SingleNext
<1>3. QED BY <1>1, <1>2, SingleInit, PTL DEF Spec, NoTakeFromLeader

=============================================================================
