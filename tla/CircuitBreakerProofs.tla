------------------------ MODULE CircuitBreakerProofs ------------------------
(***************************************************************************)
(* The breaker's invariants, for any number of goroutines, any threshold   *)
(* and any timeout.                                                        *)
(***************************************************************************)
EXTENDS CircuitBreaker, FiniteSetTheorems, TLAPS

Permits == {"none", "CLOSED", "HALF_OPEN"}

ClosedPermits == {c \in Callers : permit[c] = "CLOSED"}

(* The counter and the reports that may still raise it: each caller let    *)
(* through a closed breaker can add one, and no other caller can.          *)
RoomLeft == failures + Cardinality(ClosedPermits) < MaxFailures + Cardinality(Callers)

BreakerInv == BreakerTypeOK /\ CounterAgrees /\ CountsConsecutive

-----------------------------------------------------------------------------
(* The part of the invariant without cardinalities.                        *)

(* The breaker starts closed with nothing counted (NewCircuitBreaker).     *)
LEMMA InitBreakerInv == BreakerInit => BreakerInv
  BY BreakerAssumption
     DEF BreakerInit, BreakerInv, BreakerTypeOK, CounterAgrees, CountsConsecutive, States

(* Every critical section of Call, and the passing of time, keeps the type *)
(* invariant and both readings of the counter.                             *)
LEMMA StepBreakerInv == BreakerInv /\ [BreakerNext]_breakerVars => BreakerInv'
<1> SUFFICES ASSUME BreakerInv, [BreakerNext]_breakerVars PROVE BreakerInv'
  OBVIOUS
<1> USE BreakerAssumption
        DEF BreakerInv, BreakerTypeOK, CounterAgrees, CountsConsecutive, States
<1>1. ASSUME NEW c \in Callers, Admit(c) PROVE BreakerInv'
  BY <1>1 DEF Admit, CurrentState, Rejects
<1>2. ASSUME NEW c \in Callers, Succeed(c) PROVE BreakerInv'
  BY <1>2 DEF Succeed, Reset
<1>3. ASSUME NEW c \in Callers, Fail(c) PROVE BreakerInv'
  <2>1. CASE permit[c] = "HALF_OPEN"
    BY <1>3, <2>1 DEF Fail, Reopen
  <2>2. CASE permit[c] # "HALF_OPEN"
    BY <1>3, <2>2 DEF Fail, CountFailure
  <2> QED BY <2>1, <2>2
<1>4. CASE Observe
  BY <1>4 DEF Observe, CurrentState
<1>5. CASE Tick
  BY <1>5 DEF Tick
<1>6. CASE UNCHANGED breakerVars
  BY <1>6 DEF breakerVars
<1> QED BY <1>1, <1>2, <1>3, <1>4, <1>5, <1>6 DEF BreakerNext

LEMMA InvariantHolds == BreakerSpec => []BreakerInv
  BY InitBreakerInv, StepBreakerInv, PTL DEF BreakerSpec

-----------------------------------------------------------------------------
(* The bound of the counter.                                               *)

(* A set of callers, and what one caller more or less makes of its size.   *)
LEMMA CallerSets ==
  ASSUME NEW S \in SUBSET Callers, NEW c \in Callers
  PROVE  /\ Cardinality(S) \in Nat
         /\ Cardinality(S) <= Cardinality(Callers)
         /\ Cardinality(Callers) \in Nat
         /\ c \in S => Cardinality(S \ {c}) = Cardinality(S) - 1
         /\ c \notin S => Cardinality(S) < Cardinality(Callers)
<1>1. IsFiniteSet(Callers)
  BY BreakerAssumption
<1>2. IsFiniteSet(S) /\ Cardinality(S) <= Cardinality(Callers)
  BY <1>1, FS_Subset
<1>3. Cardinality(S) \in Nat /\ Cardinality(Callers) \in Nat
  BY <1>1, <1>2, FS_CardinalityType
<1>4. c \in S => Cardinality(S \ {c}) = Cardinality(S) - 1
  BY <1>2, FS_RemoveElement
<1>5. ASSUME c \notin S PROVE Cardinality(S) < Cardinality(Callers)
  <2>1. S \subseteq Callers \ {c}
    BY <1>5
  <2>2. /\ IsFiniteSet(Callers \ {c})
        /\ Cardinality(Callers \ {c}) = Cardinality(Callers) - 1
    BY <1>1, FS_RemoveElement
  <2>3. Cardinality(S) <= Cardinality(Callers \ {c})
    BY <2>1, <2>2, FS_Subset
  <2> QED BY <1>3, <2>2, <2>3
<1> QED BY <1>2, <1>3, <1>4, <1>5

LEMMA InitRoomLeft == BreakerInit => RoomLeft
<1> SUFFICES ASSUME BreakerInit PROVE RoomLeft
  OBVIOUS
<1>1. ClosedPermits = {}
  BY DEF BreakerInit, ClosedPermits
<1>2. Cardinality(ClosedPermits) = 0
  BY <1>1, FS_EmptySet
<1>3. Cardinality(Callers) \in Nat
  BY BreakerAssumption, FS_CardinalityType
<1> QED BY <1>2, <1>3, BreakerAssumption DEF BreakerInit, RoomLeft

(* Only a closed breaker lets callers through as CLOSED, and then the      *)
(* counter is below its threshold; a report gives its permit back.         *)
LEMMA StepRoomLeft == BreakerInv /\ RoomLeft /\ [BreakerNext]_breakerVars => RoomLeft'
<1> SUFFICES ASSUME BreakerInv, RoomLeft, [BreakerNext]_breakerVars PROVE RoomLeft'
  OBVIOUS
<1>0. /\ failures \in Nat /\ MaxFailures \in Nat /\ MaxFailures > 0
      /\ permit \in [Callers -> Permits]
      /\ Cardinality(ClosedPermits) \in Nat
      /\ Cardinality(Callers) \in Nat
  <2>1. ClosedPermits \in SUBSET Callers
    BY DEF ClosedPermits
  <2>2. IsFiniteSet(ClosedPermits)
    BY <2>1, BreakerAssumption, FS_Subset
  <2> QED BY <2>2, BreakerAssumption, FS_CardinalityType
          DEF BreakerInv, BreakerTypeOK, Permits
<1>1. ASSUME NEW c \in Callers, Admit(c) PROVE RoomLeft'
  <2>1. CASE CurrentState = "CLOSED"
    <3>1. failures' = failures /\ failures < MaxFailures
      BY <1>1, <2>1 DEF Admit, CurrentState, BreakerInv, CounterAgrees
    <3>2. ClosedPermits' \in SUBSET Callers
      BY DEF ClosedPermits
    <3>3. Cardinality(ClosedPermits') \in Nat /\ Cardinality(ClosedPermits') <= Cardinality(Callers)
      BY <3>2, <1>1, CallerSets
    <3> QED BY <3>1, <3>3, <1>0 DEF RoomLeft
  <2>2. CASE CurrentState # "CLOSED"
    <3>1. ClosedPermits' = ClosedPermits /\ failures' = failures
      BY <1>0, <1>1, <2>2 DEF Admit, ClosedPermits
    <3> QED BY <3>1 DEF RoomLeft
  <2> QED BY <2>1, <2>2
<1>2. ASSUME NEW c \in Callers, Succeed(c) PROVE RoomLeft'
  <2>1. ClosedPermits' \in SUBSET Callers /\ failures' = 0
    BY <1>2 DEF ClosedPermits, Succeed, Reset
  <2>2. Cardinality(ClosedPermits') \in Nat /\ Cardinality(ClosedPermits') <= Cardinality(Callers)
    BY <2>1, <1>2, CallerSets
  <2> QED BY <2>1, <2>2, <1>0 DEF RoomLeft
<1>3. ASSUME NEW c \in Callers, Fail(c) PROVE RoomLeft'
  <2>0. ClosedPermits' = ClosedPermits \ {c}
    BY <1>0, <1>3 DEF Fail, ClosedPermits
  <2>00. ClosedPermits \in SUBSET Callers
    BY DEF ClosedPermits
  <2>1. CASE permit[c] = "HALF_OPEN"
    <3>1. c \notin ClosedPermits /\ failures' = MaxFailures
      BY <1>3, <2>1 DEF Fail, Reopen, ClosedPermits
    <3>2. ClosedPermits' = ClosedPermits
      BY <2>0, <3>1
    <3>3. Cardinality(ClosedPermits) < Cardinality(Callers)
      BY <2>00, <3>1, <1>3, CallerSets
    <3> QED BY <3>1, <3>2, <3>3, <1>0 DEF RoomLeft
  <2>2. CASE permit[c] # "HALF_OPEN"
    <3>1. c \in ClosedPermits /\ failures' = failures + 1
      BY <1>0, <1>3, <2>2 DEF Fail, CountFailure, ClosedPermits, Permits
    <3>2. Cardinality(ClosedPermits') = Cardinality(ClosedPermits) - 1
      BY <2>0, <2>00, <3>1, <1>3, CallerSets
    <3> QED BY <3>1, <3>2, <1>0 DEF RoomLeft
  <2> QED BY <2>1, <2>2
<1>4. CASE Observe
  BY <1>4 DEF Observe, RoomLeft, ClosedPermits
<1>5. CASE Tick
  BY <1>5 DEF Tick, RoomLeft, ClosedPermits
<1>6. CASE UNCHANGED breakerVars
  BY <1>6 DEF breakerVars, RoomLeft, ClosedPermits
<1> QED BY <1>1, <1>2, <1>3, <1>4, <1>5, <1>6 DEF BreakerNext

LEMMA RoomLeftBounds == BreakerInv /\ RoomLeft => CounterBounded
<1> SUFFICES ASSUME BreakerInv, RoomLeft PROVE CounterBounded
  OBVIOUS
<1>1. ClosedPermits \in SUBSET Callers
  BY DEF ClosedPermits
<1>2. IsFiniteSet(ClosedPermits) /\ IsFiniteSet(Callers)
  BY <1>1, BreakerAssumption, FS_Subset
<1>3. Cardinality(ClosedPermits) \in Nat /\ Cardinality(Callers) \in Nat
  BY <1>2, FS_CardinalityType
<1> QED BY <1>3, BreakerAssumption
        DEF RoomLeft, CounterBounded, BreakerInv, BreakerTypeOK

-----------------------------------------------------------------------------
(* The breaker's variables keep their types.                               *)
THEOREM BreakerTypeCorrect == BreakerSpec => []BreakerTypeOK
<1>1. BreakerInv => BreakerTypeOK
  BY DEF BreakerInv
<1> QED BY <1>1, InvariantHolds, PTL

(* currentState may trust the stored state: however the reports of         *)
(* concurrent calls are ordered, it is CLOSED exactly while the failure    *)
(* counter is below maxFailures.                                           *)
THEOREM StateMatchesCounter == BreakerSpec => []CounterAgrees
<1>1. BreakerInv => CounterAgrees
  BY DEF BreakerInv
<1> QED BY <1>1, InvariantHolds, PTL

(* No failure reported since the last success is forgotten or counted      *)
(* twice while the breaker is closed.                                      *)
THEOREM ClosedCountsConsecutive == BreakerSpec => []CountsConsecutive
<1>1. BreakerInv => CountsConsecutive
  BY DEF BreakerInv
<1> QED BY <1>1, InvariantHolds, PTL

(* The failures counter, which nothing caps, stays below maxFailures plus  *)
(* the number of goroutines.                                               *)
THEOREM CounterStaysBounded == BreakerSpec => []CounterBounded
<1>1. BreakerInit => RoomLeft
  BY InitRoomLeft
<1>2. BreakerInv /\ RoomLeft /\ [BreakerNext]_breakerVars => RoomLeft'
  BY StepRoomLeft
<1>3. BreakerInv /\ RoomLeft => CounterBounded
  BY RoomLeftBounds
<1> QED BY <1>1, <1>2, <1>3, InvariantHolds, PTL DEF BreakerSpec
=============================================================================
