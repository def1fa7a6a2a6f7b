------------------------- MODULE LeaderManagerProofs -------------------------
(***************************************************************************)
(* Lemmas about the goroutines of the LeaderManager, for the proofs about  *)
(* the lock implementations that run it.                                   *)
(***************************************************************************)
EXTENDS LeaderManager, TLAPS

\* Every step of the manager's own goroutines preserves the types, and none of them adds
\* to the OnStoppedLeading goroutines (leader.go).
LEMMA ManagerKeepsTypes ==
    ASSUME LMTypeOK, LMNext
    PROVE  LMTypeOK' /\ stops' <= stops
<1> USE BoundsAreNat
<1>1. CASE RunStoppedLeading
  <2>1. stops' \in 0..(MaxStops + 1) /\ stops' <= stops
    BY <1>1 DEF RunStoppedLeading, LMTypeOK
  <2> QED
    BY <1>1, <2>1 DEF RunStoppedLeading, LMTypeOK
<1>2. ASSUME NEW e \in Epochs, StoreLeading(e)
      PROVE  LMTypeOK' /\ stops' <= stops
  <2>1. starts' \in [Epochs -> StartPhases]
    BY <1>2 DEF StoreLeading, LMTypeOK, StartPhases
  <2> QED
    BY <1>2, <2>1 DEF StoreLeading, LMTypeOK
<1>3. ASSUME NEW e \in Epochs, SpawnRoutines(e)
      PROVE  LMTypeOK' /\ stops' <= stops
  <2>1. loops' \in [Routines -> [Epochs -> LoopPhases]]
    BY <1>3 DEF SpawnRoutines, LMTypeOK, LoopPhases
  <2>2. starts' \in [Epochs -> StartPhases]
    BY <1>3 DEF SpawnRoutines, LMTypeOK, StartPhases
  <2> QED
    BY <1>3, <2>1, <2>2 DEF SpawnRoutines, LMTypeOK
<1>4. ASSUME NEW r \in Routines, RegisterRoutine(r)
      PROVE  LMTypeOK' /\ stops' <= stops
    BY <1>4 DEF RegisterRoutine, LMTypeOK
<1>5. ASSUME NEW r \in Routines, NEW e \in Epochs,
             RoutineReturns(r, e) \/ BackoffCancelled(r, e) \/ BackoffElapsed(r, e)
      PROVE  LMTypeOK' /\ stops' <= stops
  <2>1. PICK p \in LoopPhases : loops' = [loops EXCEPT ![r][e] = p]
    BY <1>5 DEF RoutineReturns, BackoffCancelled, BackoffElapsed, LoopPhases
  <2>2. loops' \in [Routines -> [Epochs -> LoopPhases]]
    BY <2>1 DEF LMTypeOK
  <2>3. UNCHANGED <<lmIsLeader, leaderRoutines, launches, starts, stops, live>>
    BY <1>5 DEF RoutineReturns, BackoffCancelled, BackoffElapsed
  <2> QED
    BY <2>2, <2>3 DEF LMTypeOK
<1> QED
    BY <1>1, <1>2, <1>3, <1>4, <1>5 DEF LMNext

\* The manager neither makes nor cancels a context.
LEMMA ManagerKeepsContexts ==
    ASSUME LMNext
    PROVE  UNCHANGED <<launches, live>>
BY DEF LMNext, RunStoppedLeading, StoreLeading, SpawnRoutines, RegisterRoutine,
   RoutineReturns, BackoffCancelled, BackoffElapsed

=============================================================================
