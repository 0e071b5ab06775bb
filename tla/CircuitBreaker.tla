--------------------------- MODULE CircuitBreaker ---------------------------
(***************************************************************************)
(* The circuit breaker of step 12. Its mutex is held while a caller reads  *)
(* the state and again while it reports the outcome, and released while the*)
(* protected function runs, so a report may meet a state that is not the   *)
(* one under which its call was let through.                               *)
(***************************************************************************)
EXTENDS Naturals, FiniteSets

CONSTANTS Callers,      \* goroutines that use the breaker
          MaxFailures,  \* 5 in the code
          Timeout       \* ticks an OPEN breaker stays so (30 s in the code)

ASSUME BreakerAssumption == /\ IsFiniteSet(Callers)
                            /\ MaxFailures \in Nat \ {0}
                            /\ Timeout \in Nat \ {0}

VARIABLES state,     \* the stored state
          failures,  \* consecutive failures
          age,       \* ticks since lastFailTime, not counted beyond Timeout
          permit,    \* state under which a caller's running call was let through
          streak     \* history: failures reported since the last success, up to MaxFailures

breakerVars == <<state, failures, age, permit, streak>>

States == {"CLOSED", "OPEN", "HALF_OPEN"}

BreakerInit == /\ state = "CLOSED"
               /\ failures = 0
               /\ age = Timeout
               /\ permit = [c \in Callers |-> "none"]
               /\ streak = 0

CurrentState == IF state = "OPEN" /\ age >= Timeout THEN "HALF_OPEN" ELSE state

(* Call, first critical section: ErrCircuitOpen...                         *)
Rejects == CurrentState = "OPEN"

(* ... or the function runs, and an expired OPEN has become HALF_OPEN.     *)
Admit(c) == /\ permit[c] = "none"
            /\ ~Rejects
            /\ state' = CurrentState
            /\ permit' = [permit EXCEPT ![c] = CurrentState]
            /\ UNCHANGED <<failures, age, streak>>

(* Mutant: the counter is not reset.                                       *)
ResetStateOnly == state' = "CLOSED" /\ UNCHANGED failures

(* Mutant: the state is not reset.                                         *)
ResetCounterOnly == UNCHANGED state /\ failures' = 0

(* reset()                                                                 *)
Reset == state' = "CLOSED" /\ failures' = 0

(* Call, second critical section, the function having succeeded.           *)
Succeed(c) == /\ permit[c] # "none"
              /\ Reset
              /\ permit' = [permit EXCEPT ![c] = "none"]
              /\ streak' = 0
              /\ UNCHANGED age

(* Mutant: adds to the counter instead of setting it.                      *)
ReopenAdds == /\ state' = "OPEN"
              /\ failures' = failures + MaxFailures

Reopen == /\ state' = "OPEN"
          /\ failures' = MaxFailures

(* Mutant: opens one failure late.                                         *)
CountFailureLate == /\ failures' = failures + 1
                    /\ state' = IF failures + 1 > MaxFailures THEN "OPEN" ELSE state

CountFailure == /\ failures' = failures + 1
                /\ state' = IF failures + 1 >= MaxFailures THEN "OPEN" ELSE state

(* ... the function having failed.                                         *)
Fail(c) == /\ permit[c] # "none"
           /\ IF permit[c] = "HALF_OPEN" THEN Reopen ELSE CountFailure
           /\ age' = 0
           /\ permit' = [permit EXCEPT ![c] = "none"]
           /\ streak' = IF streak < MaxFailures THEN streak + 1 ELSE streak

(* State() and GetStats(), of /health and /circuit-breaker/status.         *)
Observe == /\ state' = CurrentState
           /\ UNCHANGED <<failures, age, permit, streak>>

Tick == /\ age < Timeout
        /\ age' = age + 1
        /\ UNCHANGED <<state, failures, permit, streak>>

BreakerNext == \/ \E c \in Callers : Admit(c) \/ Succeed(c) \/ Fail(c)
               \/ Observe \/ Tick

BreakerSpec == BreakerInit /\ [][BreakerNext]_breakerVars

-----------------------------------------------------------------------------
BreakerTypeOK == /\ state \in States
                 /\ failures \in Nat
                 /\ age \in 0..Timeout
                 /\ permit \in [Callers -> {"none", "CLOSED", "HALF_OPEN"}]
                 /\ streak \in 0..MaxFailures

(* Whatever order calls end in, the counter and the state agree: the       *)
(* breaker is closed exactly while the counter is below its threshold.     *)
CounterAgrees == state = "CLOSED" <=> failures < MaxFailures

(* A closed breaker counts exactly the failures reported since the last    *)
(* success, late reports included.                                         *)
CountsConsecutive == state = "CLOSED" => failures = streak

(* Reports of calls let through before the breaker opened push the counter *)
(* past its threshold, but by less than one for each goroutine.            *)
CounterBounded == failures < MaxFailures + Cardinality(Callers)

(* Comment of CircuitBreaker: CLOSED --[maxFailures consecutive failures]  *)
(* --> OPEN. A breaker that is not closed has seen that many failures and  *)
(* no success since.                                                       *)
OpenedByStreak == state # "CLOSED" => streak >= MaxFailures
=============================================================================
