---------------------------- MODULE EngageProofs ----------------------------
(***************************************************************************)
(* Proofs about Engage, for all sets of clusters and runnables and all     *)
(* bounds: types, that no cluster is forgotten, and that the clusters of   *)
(* the configuration are engaged before a runnable runs.                   *)
(*                                                                         *)
(* NoClusterForgotten is inductive but for one thing: a goroutine that is  *)
(* not in the middle of doEngage has nothing left to look up or to engage  *)
(* (NothingLeft), so that no reset of it loses a cluster.  For the static  *)
(* clusters the invariant follows each of them through a walk: it is still *)
(* to be looked up, or to be engaged, or has been (StaticOnTheirWay).      *)
(***************************************************************************)
EXTENDS Engage, TLAPS

NothingLeft == \A w \in Walkers : walk[w].pc # "walk" => walk[w].names = {} /\ walk[w].list = {}

EngagedBy(w, c) == <<w[1][1], c, provided[c]>> \in engaged

StaticOnTheirWay ==
    \A w \in Walkers, c \in Names :
        owner[c] = "static" /\ provided[c] # 0 =>
            /\ walk[w].pc = "walk" =>
                c \in walk[w].names \/ <<c, provided[c]>> \in walk[w].list \/ EngagedBy(w, c)
            /\ walk[w].pc = "fn" => EngagedBy(w, c)

IInv == TypeOK /\ NothingLeft /\ StaticOnTheirWay /\ NoClusterForgotten

-----------------------------------------------------------------------------
(* Facts about the constants. *)

\* A goroutine belongs to a runnable, and 0 and the listeners are different ones.
LEMMA WalkerFacts ==
    /\ \A w \in Walkers : w[1] \in Routines /\ w[1][1] \in RunnableSet /\ w[2] \in 0..MaxListeners
    /\ \A w \in Walkers : w = <<w[1], w[2]>>
    /\ \A r \in Routines : <<r, 0>> \in Walkers /\ r[1] \in RunnableSet
    /\ \A r \in Routines, l \in 1..MaxListeners : <<r, l>> \in Walkers /\ <<r, l>> # <<r, 0>>
    /\ Listeners \subseteq Walkers
<1>1. \A r \in Routines : r[1] \in RunnableSet
  BY RunnablesAssumption DEF Routines
<1>2. 0 \in 0..MaxListeners /\ 1..MaxListeners \subseteq 0..MaxListeners /\ 0 \notin 1..MaxListeners
  BY EngageAssumption
<1> HIDE DEF Routines
<1>3. \A w \in Walkers : w[1] \in Routines /\ w[2] \in 0..MaxListeners /\ w = <<w[1], w[2]>>
  BY DEF Walkers
<1>4. \A r \in Routines, l \in 0..MaxListeners : <<r, l>> \in Walkers
  BY DEF Walkers
<1>5. \A r \in Routines, l \in 1..MaxListeners : <<r, l>> # <<r, 0>>
  BY <1>2
<1>6. Listeners \subseteq Walkers
  BY <1>2 DEF Walkers, Listeners
<1> QED BY <1>1, <1>2, <1>3, <1>4, <1>5, <1>6

\* Records that the actions build are states of a goroutine.
LEMMA IdleStates ==
    /\ Idle \in WalkStates
    /\ Idle.pc = "idle" /\ Idle.names = {} /\ Idle.list = {}
    /\ \A p \in {"idle", "read", "fn", "backoff", "select"} :
          LET s == [Idle EXCEPT !.pc = p]
          IN  s \in WalkStates /\ s.pc = p /\ s.names = {} /\ s.list = {}
BY DEF Idle, WalkStates

\* A cluster that is there has a version.
LEMMA ProvidedIsVersion ==
    ASSUME TypeOK PROVE \A c \in Names : provided[c] # 0 => provided[c] \in Versions
BY EngageAssumption DEF TypeOK, Versions

-----------------------------------------------------------------------------
LEMMA InitIInv == Init => IInv
<1> SUFFICES ASSUME Init PROVE IInv
  OBVIOUS
<1>1. PICK static \in SUBSET Names :
        /\ provided = [c \in Names |-> IF c \in static THEN 1 ELSE 0]
        /\ added = provided
        /\ boot = [c \in Names |-> IF c \in static THEN "none" ELSE "idle"]
  BY DEF Init
<1>2. walk = [w \in Walkers |-> Idle] /\ live = {} /\ engaged = {}
  BY DEF Init
<1>3. TypeOK
  <2>1. /\ provided \in [Names -> 0..MaxVersions]
        /\ boot \in [Names -> {"none", "idle", "fetch", "send", "wait", "backoff"}]
    BY <1>1, EngageAssumption
  <2>2. /\ session = "before" /\ token = FALSE /\ caller = "idle"
        /\ owner = [c \in Names |-> "static"]
    BY DEF Init
  <2> QED BY <1>1, <1>2, <2>1, <2>2, IdleStates DEF TypeOK
<1>4. NothingLeft /\ StaticOnTheirWay
  BY <1>2, IdleStates DEF NothingLeft, StaticOnTheirWay
<1>5. NoClusterForgotten
  BY <1>2, IdleStates, WalkerFacts DEF NoClusterForgotten
<1> QED BY <1>3, <1>4, <1>5 DEF IInv

-----------------------------------------------------------------------------
(* A step of a goroutine: all but walk, token, live and engaged stay. *)

LEMMA SetWalkTypes ==
    ASSUME TypeOK, NEW w \in Walkers, NEW state \in WalkStates, SetWalk(w, state),
           token' \in BOOLEAN, live' \subseteq Walkers,
           engaged' \subseteq RunnableSet \X Names \X Versions
    PROVE  /\ TypeOK'
           /\ walk'[w] = state
           /\ \A v \in Walkers : v # w => walk'[v] = walk[v]
BY DEF TypeOK, SetWalk

\* What a step of the goroutine w has to show for the rest.
LEMMA SetWalkKeeps ==
    ASSUME IInv, NEW w \in Walkers, NEW state \in WalkStates, SetWalk(w, state),
           token' \in BOOLEAN, live' \subseteq Walkers,
           engaged \subseteq engaged', engaged' \subseteq RunnableSet \X Names \X Versions,
           state.pc # "walk" => state.names = {} /\ state.list = {},
           \A c \in Names :
              owner[c] = "static" /\ provided[c] # 0 =>
                /\ state.pc = "walk" => \/ c \in state.names \/ <<c, provided[c]>> \in state.list
                                        \/ <<w[1][1], c, provided[c]>> \in engaged'
                /\ state.pc = "fn" => <<w[1][1], c, provided[c]>> \in engaged',
           token => token' \/ state.pc = "read",
           \A c \in Names :
              /\ provided[c] # 0
              /\ \/ walk[w].pc = "read" \/ c \in walk[w].names
                 \/ <<c, provided[c]>> \in walk[w].list
              => \/ state.pc = "read" \/ c \in state.names \/ <<c, provided[c]>> \in state.list
                 \/ \E r \in RunnableSet : <<r, c, provided[c]>> \in engaged',
           walk[w].pc \in {"idle", "backoff"} => state.pc \in {"idle", "backoff", "read"}
    PROVE  IInv'
<1>1. /\ TypeOK'
      /\ walk'[w] = state
      /\ \A v \in Walkers : v # w => walk'[v] = walk[v]
  BY SetWalkTypes DEF IInv
<1>2. UNCHANGED <<provided, owner>>
  BY DEF SetWalk
<1>3. NothingLeft'
  BY <1>1 DEF IInv, NothingLeft
<1>4. StaticOnTheirWay'
  BY <1>1, <1>2 DEF IInv, StaticOnTheirWay, EngagedBy
<1>5. NoClusterForgotten'
  <2> SUFFICES ASSUME NEW c \in Names, provided[c] # 0, ~Engaged(c)', ~OnItsWay(c)',
                      NEW r \in Routines
               PROVE  walk'[<<r, 0>>].pc \in {"idle", "backoff"}
    BY <1>2 DEF NoClusterForgotten
  <2>1. ~Engaged(c)
    BY <1>2 DEF Engaged
  <2>2. /\ state.pc # "read" /\ c \notin state.names /\ <<c, provided[c]>> \notin state.list
        /\ ~token' /\ caller' # "send" /\ ~\E p \in Names : boot'[p] = "send"
    BY <1>1, <1>2 DEF OnItsWay
  <2>3. ~\E q \in RunnableSet : <<q, c, provided[c]>> \in engaged'
    BY <1>2 DEF Engaged
  <2>4. ~token /\ caller # "send" /\ ~\E p \in Names : boot[p] = "send"
    BY <2>2 DEF SetWalk
  <2>5. ASSUME NEW v \in Walkers
        PROVE  walk[v].pc # "read" /\ c \notin walk[v].names /\ <<c, provided[c]>> \notin walk[v].list
    BY <1>1, <1>2, <2>2, <2>3 DEF OnItsWay
  <2>6. ~OnItsWay(c)
    BY <2>4, <2>5 DEF OnItsWay
  <2>7. walk[<<r, 0>>].pc \in {"idle", "backoff"}
    BY <2>1, <2>6 DEF IInv, NoClusterForgotten
  <2> QED BY <1>1, <2>2, <2>7, WalkerFacts
<1> QED BY <1>1, <1>3, <1>4, <1>5 DEF IInv

-----------------------------------------------------------------------------
(* The steps of doEngage and of the routines, one by one. *)

LEMMA ReadNamesKeeps == ASSUME IInv, NEW w \in Walkers, ReadNames(w) PROVE IInv'
<1> DEFINE state == [pc |-> "walk", names |-> {c \in Names : provided[c] # 0}, list |-> {}]
<1>1. state \in WalkStates /\ state.pc = "walk" /\ state.names = {c \in Names : provided[c] # 0}
  BY DEF WalkStates
<1>2. SetWalk(w, state) /\ UNCHANGED <<token, live, engaged>> /\ walk[w].pc = "read"
  BY DEF ReadNames
<1> HIDE DEF state
<1> QED BY <1>1, <1>2, SetWalkKeeps DEF IInv, TypeOK

LEMMA GetClusterKeeps ==
    ASSUME IInv, NEW w \in Walkers, NEW c \in Names, GetCluster(w, c) PROVE IInv'
<1> DEFINE state == [walk[w] EXCEPT
                       !.names = @ \ {c},
                       !.list = IF provided[c] = 0 THEN @ ELSE @ \cup {<<c, provided[c]>>}]
<1>1. walk[w] \in WalkStates
  BY DEF IInv, TypeOK
<1>2. /\ state \in WalkStates
      /\ state.pc = walk[w].pc /\ state.names = walk[w].names \ {c}
      /\ state.list = IF provided[c] = 0 THEN walk[w].list ELSE walk[w].list \cup {<<c, provided[c]>>}
  <2> DEFINE list == IF provided[c] = 0 THEN walk[w].list ELSE walk[w].list \cup {<<c, provided[c]>>}
  <2>1. list \in SUBSET (Names \X Versions)
    BY <1>1, ProvidedIsVersion DEF WalkStates, IInv
  <2>2. state = [walk[w] EXCEPT !.names = @ \ {c}, !.list = list]
    OBVIOUS
  <2> HIDE DEF list, state
  <2>3. /\ state \in WalkStates
        /\ state.pc = walk[w].pc /\ state.names = walk[w].names \ {c} /\ state.list = list
    BY <1>1, <2>1, <2>2 DEF WalkStates
  <2> QED BY <2>3 DEF list
<1>3. SetWalk(w, state) /\ UNCHANGED <<token, live, engaged>> /\ c \in walk[w].names
  BY DEF GetCluster
<1>4. walk[w].pc = "walk"
  BY <1>3 DEF IInv, NothingLeft
<1> HIDE DEF state
<1>5. \A d \in Names : owner[d] = "static" /\ provided[d] # 0 =>
         \/ d \in state.names \/ <<d, provided[d]>> \in state.list
         \/ <<w[1][1], d, provided[d]>> \in engaged
  BY <1>2, <1>4 DEF IInv, StaticOnTheirWay, EngagedBy
<1> QED BY <1>2, <1>3, <1>4, <1>5, SetWalkKeeps DEF IInv, TypeOK

LEMMA CallEngageKeeps ==
    ASSUME IInv, NEW w \in Walkers, NEW cl \in Names \X Versions, CallEngage(w, cl) PROVE IInv'
<1> DEFINE state == [walk[w] EXCEPT !.list = @ \ {cl}]
<1>1. walk[w] \in WalkStates
  BY DEF IInv, TypeOK
<1>2. /\ state \in WalkStates
      /\ state.pc = walk[w].pc /\ state.names = walk[w].names /\ state.list = walk[w].list \ {cl}
  BY <1>1 DEF WalkStates
<1>3. /\ SetWalk(w, state) /\ UNCHANGED <<token, live>>
      /\ engaged' = engaged \cup {<<w[1][1], cl[1], cl[2]>>}
      /\ walk[w].names = {} /\ cl \in walk[w].list
  BY DEF CallEngage
<1>4. walk[w].pc = "walk"
  BY <1>3 DEF IInv, NothingLeft
<1> HIDE DEF state
<1>5. engaged' \subseteq RunnableSet \X Names \X Versions
  BY <1>3, WalkerFacts DEF IInv, TypeOK
<1>6. \A d \in Names : <<d, provided[d]>> = cl => <<w[1][1], d, provided[d]>> \in engaged'
  BY <1>3
<1>7. \A d \in Names : owner[d] = "static" /\ provided[d] # 0 =>
         \/ <<d, provided[d]>> \in state.list
         \/ <<w[1][1], d, provided[d]>> \in engaged'
  BY <1>2, <1>3, <1>4, <1>6 DEF IInv, StaticOnTheirWay, EngagedBy
<1>8. \A d \in Names : <<d, provided[d]>> \in walk[w].list =>
         \/ <<d, provided[d]>> \in state.list
         \/ \E r \in RunnableSet : <<r, d, provided[d]>> \in engaged'
  BY <1>2, <1>6, WalkerFacts
<1> QED BY <1>2, <1>3, <1>4, <1>5, <1>7, <1>8, SetWalkKeeps DEF IInv, TypeOK

\* Steps after which the goroutine has nothing left to do in doEngage.
LEMMA ResetKeeps ==
    ASSUME IInv, NEW w \in Walkers, NEW p \in {"idle", "read", "backoff", "select"},
           SetWalk(w, [Idle EXCEPT !.pc = p]),
           token' \in BOOLEAN, live' \subseteq Walkers, UNCHANGED engaged,
           token => token' \/ p = "read",
           walk[w].pc # "read" /\ walk[w].names = {} /\ walk[w].list = {},
           walk[w].pc \in {"idle", "backoff"} => p # "select"
    PROVE  IInv'
<1> DEFINE state == [Idle EXCEPT !.pc = p]
<1>1. state \in WalkStates /\ state.pc = p /\ state.names = {} /\ state.list = {}
  BY IdleStates
<1>2. SetWalk(w, state)
  OBVIOUS
<1> HIDE DEF state
<1>3. engaged' \subseteq RunnableSet \X Names \X Versions
  BY DEF IInv, TypeOK
<1> QED BY <1>1, <1>2, <1>3, SetWalkKeeps

LEMMA RoutineKeeps ==
    ASSUME IInv, NEW r \in Routines, FnReturns(r) \/ FnRetry(r) PROVE IInv'
<1>1. <<r, 0>> \in Walkers
  BY WalkerFacts
<1>2. token \in BOOLEAN /\ live \subseteq Walkers
  BY DEF IInv, TypeOK
<1>3. Idle = [Idle EXCEPT !.pc = "idle"]
  BY DEF Idle
<1>4. CASE FnReturns(r)
  <2>1. PICK p \in {"idle", "backoff"} : SetWalk(<<r, 0>>, [Idle EXCEPT !.pc = p])
    BY <1>4 DEF FnReturns
  <2>2. walk[<<r, 0>>].pc = "fn" /\ UNCHANGED <<token, engaged>> /\ live' \subseteq live
    BY <1>4 DEF FnReturns
  <2>3. walk[<<r, 0>>].names = {} /\ walk[<<r, 0>>].list = {}
    BY <1>1, <2>2 DEF IInv, NothingLeft
  <2> QED BY <1>1, <1>2, <2>1, <2>2, <2>3, ResetKeeps
<1>5. CASE FnRetry(r)
  <2>1. PICK p \in {"idle", "read"} : SetWalk(<<r, 0>>, [Idle EXCEPT !.pc = p])
    BY <1>3, <1>5 DEF FnRetry
  <2>2. walk[<<r, 0>>].pc = "backoff" /\ UNCHANGED <<token, live, engaged>>
    BY <1>5 DEF FnRetry
  <2>3. walk[<<r, 0>>].names = {} /\ walk[<<r, 0>>].list = {}
    BY <1>1, <2>2 DEF IInv, NothingLeft
  <2> QED BY <1>1, <1>2, <2>1, <2>2, <2>3, ResetKeeps
<1> QED BY <1>4, <1>5

LEMMA ListenerKeeps ==
    ASSUME IInv, NEW w \in Walkers, TakeToken(w) \/ ListenerEnds(w) \/ ListenAgain(w) PROVE IInv'
<1>1. token \in BOOLEAN /\ live \subseteq Walkers
  BY DEF IInv, TypeOK
<1>2. Idle = [Idle EXCEPT !.pc = "idle"]
  BY DEF Idle
<1>3. walk[w].pc = "select" => walk[w].names = {} /\ walk[w].list = {}
  BY DEF IInv, NothingLeft
<1>4. CASE TakeToken(w)
  BY <1>1, <1>3, <1>4, ResetKeeps DEF TakeToken
<1>5. CASE ListenerEnds(w)
  BY <1>1, <1>2, <1>3, <1>5, ResetKeeps DEF ListenerEnds
<1>6. CASE ListenAgain(w)
  BY <1>1, <1>6, ResetKeeps DEF ListenAgain, Walked
<1> QED BY <1>4, <1>5, <1>6

\* Every static cluster has been engaged when fn is called.
LEMMA StartFnKeeps ==
    ASSUME IInv, NEW r \in Routines, NEW l \in 1..MaxListeners, StartFn(r, l) PROVE IInv'
<1> DEFINE own == <<r, 0>>
           new == <<r, l>>
           fn == [Idle EXCEPT !.pc = "fn"]
           select == [Idle EXCEPT !.pc = "select"]
<1>1. own \in Walkers /\ new \in Walkers /\ own # new
  BY WalkerFacts
<1>2. /\ fn \in WalkStates /\ fn.pc = "fn" /\ fn.names = {} /\ fn.list = {}
      /\ select \in WalkStates /\ select.pc = "select" /\ select.names = {} /\ select.list = {}
  BY IdleStates
<1>3. /\ walk' = [walk EXCEPT ![own] = fn, ![new] = select]
      /\ live' \subseteq live \cup {new}
      /\ UNCHANGED <<session, provided, added, owner, token, boot, caller, engaged>>
      /\ walk[own].pc = "walk" /\ walk[own].names = {} /\ walk[own].list = {}
      /\ walk[new].pc = "idle"
  BY DEF StartFn, Walked
<1> HIDE DEF own, new, fn, select
<1>4. /\ walk' \in [Walkers -> WalkStates]
      /\ walk'[own] = fn /\ walk'[new] = select
      /\ \A v \in Walkers : v # own /\ v # new => walk'[v] = walk[v]
  BY <1>1, <1>2, <1>3 DEF IInv, TypeOK
<1>5. TypeOK'
  BY <1>1, <1>3, <1>4 DEF IInv, TypeOK
<1>6. NothingLeft'
  BY <1>2, <1>4 DEF IInv, NothingLeft
<1>7. \A c \in Names : owner[c] = "static" /\ provided[c] # 0 => EngagedBy(own, c)
  BY <1>1, <1>3 DEF IInv, StaticOnTheirWay
<1>8. StaticOnTheirWay'
  BY <1>2, <1>3, <1>4, <1>7 DEF IInv, StaticOnTheirWay, EngagedBy
<1>9. NoClusterForgotten'
  <2> SUFFICES ASSUME NEW c \in Names, provided[c] # 0, ~Engaged(c)', ~OnItsWay(c)' PROVE FALSE
    BY <1>3 DEF NoClusterForgotten
  <2>1. ~Engaged(c)
    BY <1>3 DEF Engaged
  <2>2. ASSUME NEW v \in Walkers
        PROVE  walk[v].pc # "read" /\ c \notin walk[v].names /\ <<c, provided[c]>> \notin walk[v].list
    <3>1. v # own /\ v # new =>
            walk[v].pc # "read" /\ c \notin walk[v].names /\ <<c, provided[c]>> \notin walk[v].list
      BY <1>3, <1>4 DEF OnItsWay
    <3>2. walk[new].names = {} /\ walk[new].list = {}
      BY <1>1, <1>3 DEF IInv, NothingLeft
    <3> QED BY <1>3, <3>1, <3>2
  <2>3. ~OnItsWay(c)
    BY <1>3, <2>2 DEF OnItsWay
  <2>4. walk[own].pc \in {"idle", "backoff"}
    BY <2>1, <2>3 DEF IInv, NoClusterForgotten, own
  <2> QED BY <1>3, <2>4
<1> QED BY <1>5, <1>6, <1>8, <1>9 DEF IInv

-----------------------------------------------------------------------------
(* Steps of others. *)

\* Somebody has sent a token or is about to.
Announced == token \/ caller = "send" \/ \E p \in Names : boot[p] = "send"

\* A cluster that changes is announced, and static ones do not change.
LEMMA OthersKeep ==
    ASSUME IInv, TypeOK', UNCHANGED walk, engaged \subseteq engaged', Announced => Announced',
           \A c \in Names : provided'[c] \in {0, provided[c]} \/ Announced',
           \A c \in Names : owner'[c] = "static" => owner[c] = "static" /\ provided'[c] = provided[c]
    PROVE  IInv'
<1>1. NothingLeft'
  BY DEF IInv, NothingLeft
<1>2. StaticOnTheirWay'
  BY DEF IInv, StaticOnTheirWay, EngagedBy
<1>3. NoClusterForgotten'
  <2> SUFFICES ASSUME NEW c \in Names, provided'[c] # 0, ~Engaged(c)', ~OnItsWay(c)'
               PROVE  \A r \in Routines : walk[<<r, 0>>].pc \in {"idle", "backoff"}
    BY DEF NoClusterForgotten
  <2>1. ~Announced' /\ ~Announced
    BY DEF OnItsWay, Announced
  <2>2. provided'[c] = provided[c]
    BY <2>1
  <2>3. ~Engaged(c) /\ ~OnItsWay(c)
    BY <2>1, <2>2 DEF Engaged, OnItsWay, Announced
  <2> QED BY <2>2, <2>3 DEF IInv, NoClusterForgotten
<1> QED BY <1>1, <1>2, <1>3 DEF IInv

LEMMA AddKeeps ==
    ASSUME IInv, NEW c \in Names, BootAdd(c) \/ CallerAdds(c) PROVE IInv'
<1>1. PICK who \in {"leader", "caller"} : AddOrReplace(c, who)
  BY DEF BootAdd, CallerAdds
<1>2. UNCHANGED <<session, token, walk, live, engaged>>
  BY DEF BootAdd, CallerAdds
<1>3. \/ boot' = [boot EXCEPT ![c] = "send"] /\ caller' = caller
      \/ boot' = boot /\ caller' = "send"
  BY DEF BootAdd, CallerAdds
<1>4. /\ provided' \in [Names -> 0..MaxVersions] /\ added' \in [Names -> 0..MaxVersions]
      /\ owner' \in [Names -> {"static", "leader", "caller"}]
      /\ owner'[c] = who
      /\ \A d \in Names : d # c => owner'[d] = owner[d] /\ provided'[d] = provided[d]
  BY <1>1, EngageAssumption DEF IInv, TypeOK, AddOrReplace
<1>5. TypeOK'
  BY <1>2, <1>3, <1>4 DEF IInv, TypeOK
<1>6. Announced'
  BY <1>3 DEF Announced, IInv, TypeOK
<1>7. who # "static"
  OBVIOUS
<1> QED BY <1>2, <1>4, <1>5, <1>6, <1>7, OthersKeep

LEMMA SendKeeps ==
    ASSUME IInv, CallerSends \/ \E c \in Names : BootSend(c) PROVE IInv'
<1>1. /\ token' = TRUE /\ UNCHANGED <<session, provided, added, owner, walk, live, engaged>>
      /\ \/ caller' = "idle" /\ boot' = boot
         \/ caller' = caller /\ \E c \in Names : boot' = [boot EXCEPT ![c] = "wait"]
  BY DEF CallerSends, BootSend
<1>2. TypeOK'
  BY <1>1 DEF IInv, TypeOK
<1>3. Announced'
  BY <1>1 DEF Announced
<1> QED BY <1>1, <1>2, <1>3, OthersKeep

LEMMA BootKeeps ==
    ASSUME IInv, NEW c \in Names, BootFails(c) \/ BootRetry(c) \/ BootEnds(c) PROVE IInv'
<1>1. /\ UNCHANGED <<session, provided, added, owner, token, caller, walk, live, engaged>>
      /\ boot[c] # "send"
      /\ \E p \in {"idle", "fetch", "backoff"} : boot' = [boot EXCEPT ![c] = p]
  BY DEF BootFails, BootRetry, BootEnds
<1>2. TypeOK'
  BY <1>1 DEF IInv, TypeOK
<1>3. Announced => Announced'
  BY <1>1 DEF IInv, TypeOK, Announced
<1> QED BY <1>1, <1>2, <1>3, OthersKeep

LEMMA RemovedKeeps == ASSUME IInv, NEW c \in Names, Removed(c) PROVE IInv'
<1>1. /\ UNCHANGED <<session, added, owner, token, boot, caller, walk, live, engaged>>
      /\ provided' = [provided EXCEPT ![c] = 0] /\ owner[c] # "static"
  BY DEF Removed
<1>2. TypeOK'
  BY <1>1, EngageAssumption DEF IInv, TypeOK
<1>3. \A d \in Names : provided'[d] \in {0, provided[d]} /\ (d # c => provided'[d] = provided[d])
  BY <1>1 DEF IInv, TypeOK
<1>4. Announced => Announced'
  BY <1>1 DEF Announced
<1> QED BY <1>1, <1>2, <1>3, <1>4, OthersKeep

LEMMA EngageAllKeeps == ASSUME IInv, NEW c \in Names, EngageAll(c) PROVE IInv'
<1>1. UNCHANGED <<session, provided, added, owner, token, boot, caller, walk, live>>
  BY DEF EngageAll
<1>2. PICK k \in DOMAIN Runnables :
        engaged' = engaged \cup {<<Runnables[i], c, provided[c]>> : i \in 1..k}
  BY DEF EngageAll
<1>3. \A i \in 1..k : Runnables[i] \in RunnableSet
  BY RunnablesAssumption DEF RunnableSet
<1>4. provided[c] \in Versions
  BY ProvidedIsVersion DEF IInv, EngageAll
<1>5. TypeOK'
  BY <1>1, <1>2, <1>3, <1>4 DEF IInv, TypeOK
<1>6. Announced => Announced'
  BY <1>1 DEF Announced
<1> QED BY <1>1, <1>2, <1>5, <1>6, OthersKeep

LEMMA EndKeeps == ASSUME IInv, End PROVE IInv'
<1>1. TypeOK'
  BY DEF End, IInv, TypeOK
<1>2. /\ UNCHANGED <<provided, owner, token, boot, caller, walk, engaged>>
  BY DEF End
<1>3. Announced => Announced'
  BY <1>2 DEF Announced
<1> QED BY <1>1, <1>2, <1>3, OthersKeep

\* All routines begin by reading the provider.
LEMMA BeginKeeps == ASSUME IInv, Begin PROVE IInv'
<1> DEFINE read == [Idle EXCEPT !.pc = "read"]
<1>1. read \in WalkStates /\ read.pc = "read" /\ read.names = {} /\ read.list = {}
  BY IdleStates
<1>2. /\ walk' = [w \in Walkers |-> IF w[2] = 0 THEN read ELSE Idle]
      /\ session' = "leading"
      /\ boot' = [c \in Names |-> IF boot[c] = "idle" THEN "fetch" ELSE boot[c]]
      /\ UNCHANGED <<provided, added, owner, token, caller, live, engaged>>
  BY DEF Begin
<1> HIDE DEF read
<1>3. TypeOK'
  BY <1>1, <1>2, IdleStates DEF IInv, TypeOK
<1>4. NothingLeft' /\ StaticOnTheirWay'
  BY <1>1, <1>2, IdleStates DEF NothingLeft, StaticOnTheirWay
<1>5. ASSUME NEW r \in Routines PROVE walk'[<<r, 0>>].pc = "read"
  BY <1>1, <1>2, WalkerFacts
<1>6. NoClusterForgotten'
  BY <1>5, WalkerFacts DEF NoClusterForgotten, OnItsWay
<1> QED BY <1>3, <1>4, <1>6 DEF IInv

-----------------------------------------------------------------------------
LEMMA Inductive == IInv /\ [Next]_vars => IInv'
<1> SUFFICES ASSUME IInv, [Next]_vars PROVE IInv'
  OBVIOUS
<1>1. CASE UNCHANGED vars
  BY <1>1 DEF vars, IInv, TypeOK, NothingLeft, StaticOnTheirWay, EngagedBy, NoClusterForgotten,
              Engaged, OnItsWay
<1>2. CASE Begin \/ End
  BY <1>2, BeginKeeps, EndKeeps
<1>3. CASE CallerSends \/ \E c \in Names : BootSend(c)
  BY <1>3, SendKeeps
<1>4. ASSUME NEW c \in Names,
             \/ Removed(c) \/ CallerAdds(c) \/ EngageAll(c) \/ BootAdd(c)
             \/ BootEnds(c) \/ BootFails(c) \/ BootRetry(c)
      PROVE  IInv'
  BY <1>4, RemovedKeeps, AddKeeps, EngageAllKeeps, BootKeeps
<1>5. ASSUME NEW r \in Routines, RoutineStep(r) \/ FnReturns(r) PROVE IInv'
  BY <1>5, RoutineKeeps, StartFnKeeps DEF RoutineStep
<1>6. ASSUME NEW w \in Walkers, WalkStep(w) PROVE IInv'
  BY <1>6, ReadNamesKeeps, ListenerKeeps, GetClusterKeeps, CallEngageKeeps DEF WalkStep
<1>7. ASSUME NEW w \in Listeners, TakeToken(w) \/ ListenerEnds(w) PROVE IInv'
  BY <1>7, ListenerKeeps, WalkerFacts
<1> QED BY <1>1, <1>2, <1>3, <1>4, <1>5, <1>6, <1>7 DEF Next

LEMMA Invariance == Spec => []IInv
BY InitIInv, Inductive, PTL DEF Spec

\* The manager's channel, clusters and goroutines keep their types.
THEOREM TypeCorrect == Spec => []TypeOK
<1>1. IInv => TypeOK
  BY DEF IInv
<1> QED BY <1>1, Invariance, PTL

\* However tokens are dropped, taken by listeners of failed routines, or sent while a walk
\* is under way, no cluster falls in between (wrapStart and the two sends of raft.go).
THEOREM NoneForgotten == Spec => []NoClusterForgotten
<1>1. IInv => NoClusterForgotten
  BY DEF IInv
<1> QED BY <1>1, Invariance, PTL

\* wrapStart calls fn only when doEngage has engaged all clusters of the configuration.
THEOREM StaticFirst == Spec => []StaticAreEngaged
<1>1. IInv => StaticAreEngaged
  <2> SUFFICES ASSUME IInv, NEW r \in Routines, NEW c \in Names, walk[<<r, 0>>].pc = "fn",
                      owner[c] = "static", provided[c] # 0
               PROVE  <<r[1], c, provided[c]>> \in engaged
    BY DEF StaticAreEngaged
  <2>1. EngagedBy(<<r, 0>>, c)
    BY WalkerFacts DEF IInv, StaticOnTheirWay
  <2> QED BY <2>1 DEF EngagedBy
<1> QED BY <1>1, Invariance, PTL

=============================================================================
