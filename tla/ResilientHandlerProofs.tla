----------------------- MODULE ResilientHandlerProofs -----------------------
(***************************************************************************)
(* The handler around the breaker: for any set of requests, users and      *)
(* bounds it uses the breaker only as the breaker allows, and it never     *)
(* serves or caches a user that does not exist.                            *)
(***************************************************************************)
EXTENDS ResilientHandler, CircuitBreakerProofs

(* Between the successful query and the answer the user is known to exist. *)
SavedExist == \A c \in Callers : phase[c] \in {"save", "backup"} => user[c] \in Existing

HandlerTypeOK == /\ phase \in [Callers -> Phases]
                 /\ user \in [Callers -> Users]
                 /\ attempt \in [Callers -> 0..(MaxRetries - 1)]
                 /\ gone \subseteq Callers
                 /\ reason \in [Callers -> {"none", "open", "error"}]
                 /\ answer \in [Callers -> Answers]
                 /\ fresh \subseteq Users /\ stale \subseteq Users
                 /\ dbUp \in BOOLEAN /\ redisUp \in BOOLEAN
                 /\ faults \in Nat

IInv == HandlerTypeOK /\ SavedExist /\ OnlyExistingServed

-----------------------------------------------------------------------------
(* The implementation of the breaker.                                      *)

(* A step of the handler is a step of the breaker or leaves it alone.      *)
LEMMA BreakerStep == [Next]_vars => [BreakerNext]_breakerVars
<1> SUFFICES ASSUME [Next]_vars PROVE [BreakerNext]_breakerVars
  OBVIOUS
<1>1. ASSUME NEW c \in Callers, Serve(c) PROVE [BreakerNext]_breakerVars
  <2>1. CASE Call(c)
    BY <2>1 DEF Call, BreakerNext
  <2>2. CASE Query(c)
    BY <2>2 DEF Query, ReportFailure, BreakerNext
  <2>3. CASE Lookup(c) \/ Wait(c) \/ Save(c) \/ Backup(c) \/ Fallback(c)
    BY <2>3 DEF Lookup, Wait, Save, Backup, Fallback
  <2> QED BY <1>1, <2>1, <2>2, <2>3 DEF Serve
<1>2. ASSUME NEW c \in Callers, Disconnect(c) \/ \E u \in Users : Request(c, u)
      PROVE  [BreakerNext]_breakerVars
  BY <1>2 DEF Disconnect, Fault, Request
<1>3. CASE \E u \in Users : ExpireKey(u) \/ ExpireBackup(u)
  BY <1>3 DEF ExpireKey, ExpireBackup
<1>4. CASE DbDown \/ DbRecover \/ RedisDown \/ RedisRecover
  BY <1>4 DEF DbDown, DbRecover, RedisDown, RedisRecover
<1>5. CASE Status \/ Clock
  BY <1>5 DEF Status, Clock, BreakerNext
<1>6. CASE UNCHANGED vars
  BY <1>6 DEF vars
<1> QED BY <1>1, <1>2, <1>3, <1>4, <1>5, <1>6 DEF Next

(* Whatever a request does -- retries, gives up, is abandoned by its       *)
(* client -- the breaker sees only calls that were let through and are     *)
(* reported exactly once, so its invariants hold in the handler as well.   *)
THEOREM HandlerUsesBreaker == Spec => BreakerSpec
<1>1. Init => BreakerInit
  BY DEF Init
<1> QED BY <1>1, BreakerStep, PTL DEF Spec, BreakerSpec

-----------------------------------------------------------------------------
(* What is served.                                                         *)

LEMMA InitIInv == Init => IInv
  BY HandlerAssumption DEF Init, IInv, HandlerTypeOK, SavedExist, OnlyExistingServed, Phases, Answers

(* One step of a request.                                                  *)
LEMMA ServeIInv == ASSUME IInv, NEW c \in Callers, Serve(c) PROVE IInv'
<1> USE HandlerAssumption DEF IInv, HandlerTypeOK, SavedExist, OnlyExistingServed, Phases, Answers
<1>1. CASE Lookup(c)
  <2>1. CASE RedisOk(c) /\ user[c] \in fresh
    BY <1>1, <2>1 DEF Lookup, Respond, Goto, cacheVars, envVars
  <2>2. CASE ~(RedisOk(c) /\ user[c] \in fresh)
    BY <1>1, <2>2 DEF Lookup, Goto, cacheVars, envVars
  <2> QED BY <2>1, <2>2
<1>2. CASE Call(c)
  BY <1>2 DEF Call, Goto, GiveUp, cacheVars, envVars
<1>3. CASE Query(c)
  BY <1>3 DEF Query, ReportFailure, QueryOk, Goto, cacheVars, envVars
<1>4. CASE Wait(c)
  BY <1>4 DEF Wait, GivesUp, Goto, GiveUp, cacheVars, envVars
<1>5. CASE Save(c)
  <2>1. CASE RedisOk(c)
    BY <1>5, <2>1 DEF Save, Goto, envVars
  <2>2. CASE ~RedisOk(c)
    BY <1>5, <2>2 DEF Save, Respond, Goto, envVars
  <2> QED BY <2>1, <2>2
<1>6. CASE Backup(c)
  BY <1>6 DEF Backup, Respond, Goto, envVars
<1>7. CASE Fallback(c)
  <2>1. CASE RedisOk(c) /\ user[c] \in stale
    BY <1>7, <2>1 DEF Fallback, Respond, Goto, cacheVars, envVars
  <2>2. CASE ~(RedisOk(c) /\ user[c] \in stale)
    BY <1>7, <2>2 DEF Fallback, Respond, Goto, cacheVars, envVars
  <2> QED BY <2>1, <2>2
<1> QED BY <1>1, <1>2, <1>3, <1>4, <1>5, <1>6, <1>7 DEF Serve

LEMMA StepIInv == IInv /\ [Next]_vars => IInv'
<1> SUFFICES ASSUME IInv, [Next]_vars PROVE IInv'
  OBVIOUS
<1> USE DEF IInv, HandlerTypeOK, SavedExist, OnlyExistingServed
<1>1. ASSUME NEW c \in Callers, Serve(c) PROVE IInv'
  BY <1>1, ServeIInv
<1>2. ASSUME NEW c \in Callers, Disconnect(c) PROVE IInv'
  BY <1>2 DEF Disconnect, Fault, cacheVars, envVars
<1>3. ASSUME NEW c \in Callers, NEW u \in Users, Request(c, u) PROVE IInv'
  BY <1>3 DEF Request, Goto, Phases, Answers, cacheVars, envVars
<1>4. ASSUME NEW u \in Users, ExpireKey(u) \/ ExpireBackup(u) PROVE IInv'
  BY <1>4 DEF ExpireKey, ExpireBackup, requestVars, envVars
<1>5. CASE DbDown \/ DbRecover \/ RedisDown \/ RedisRecover
  <2>1. faults' \in Nat
    BY <1>5 DEF Fault, DbDown, DbRecover, RedisDown, RedisRecover
  <2>2. dbUp' \in BOOLEAN /\ redisUp' \in BOOLEAN
    BY <1>5, Zenon DEF DbDown, DbRecover, RedisDown, RedisRecover
  <2>3. UNCHANGED <<requestVars, cacheVars>>
    BY <1>5 DEF DbDown, DbRecover, RedisDown, RedisRecover
  <2> QED BY <2>1, <2>2, <2>3 DEF requestVars, cacheVars
<1>6. CASE Status \/ Clock
  BY <1>6 DEF Status, Clock, requestVars, cacheVars, envVars
<1>7. CASE UNCHANGED vars
  BY <1>7 DEF vars, requestVars, cacheVars, envVars
<1> QED BY <1>1, <1>2, <1>3, <1>4, <1>5, <1>6, <1>7 DEF Next

(* The handler's variables keep their types: in particular withRetry stops *)
(* at MaxRetries attempts.                                                 *)
THEOREM HandlerTypeCorrect == Spec => []TypeOK
<1>1. IInv /\ BreakerTypeOK => TypeOK
  BY DEF IInv, HandlerTypeOK, TypeOK
<1> QED BY <1>1, InitIInv, StepIInv, HandlerUsesBreaker, BreakerTypeCorrect, PTL DEF Spec

(* No failure of MySQL, Redis or a client makes the handler cache or serve *)
(* a user that has no row.                                                 *)
THEOREM ServesOnlyExisting == Spec => []OnlyExistingServed
<1>1. IInv => OnlyExistingServed
  BY DEF IInv
<1> QED BY <1>1, InitIInv, StepIInv, PTL DEF Spec
-----------------------------------------------------------------------------
(* How long a request takes.                                               *)

(* What is left of a request is a number of steps.                         *)
LEMMA StepsLeftType ==
  ASSUME HandlerTypeOK, NEW c \in Callers
  PROVE  StepsLeft(c) \in 0..(3 * MaxRetries + 2)
<1>1. MaxRetries \in Nat \ {0} /\ attempt[c] \in 0..(MaxRetries - 1)
  BY HandlerAssumption DEF HandlerTypeOK
<1>2. phase[c] \in Phases
  BY DEF HandlerTypeOK
<1> QED BY <1>1, <1>2 DEF StepsLeft, Phases

LEMMA ServeShortens ==
  ASSUME HandlerTypeOK, NEW c \in Callers, Serve(c)
  PROVE  StepsLeft(c)' < StepsLeft(c)
<1> USE HandlerAssumption DEF StepsLeft
<1>1. /\ phase \in [Callers -> Phases] /\ attempt \in [Callers -> 0..(MaxRetries - 1)]
      /\ attempt[c] \in 0..(MaxRetries - 1)
  BY DEF HandlerTypeOK
<1>2. CASE Lookup(c)
  BY <1>1, <1>2 DEF Lookup, Respond, Goto
<1>3. CASE Call(c)
  BY <1>1, <1>3 DEF Call, Goto, GiveUp
<1>4. CASE Query(c)
  BY <1>1, <1>4 DEF Query, Goto
<1>5. CASE Wait(c)
  BY <1>1, <1>5 DEF Wait, GivesUp, Goto, GiveUp
<1>6. CASE Save(c)
  BY <1>1, <1>6 DEF Save, Respond, Goto
<1>7. CASE Backup(c)
  BY <1>1, <1>7 DEF Backup, Respond, Goto
<1>8. CASE Fallback(c)
  BY <1>1, <1>8 DEF Fallback, Respond, Goto
<1> QED BY <1>2, <1>3, <1>4, <1>5, <1>6, <1>7, <1>8 DEF Serve

(* A step that is not of its handler leaves a request where it is.         *)
LEMMA OthersWait ==
  ASSUME HandlerTypeOK, [Next]_vars, NEW c \in Callers, phase[c] # "idle", ~Serve(c)
  PROVE  UNCHANGED <<phase[c], attempt[c]>>
<1>1. ASSUME NEW d \in Callers, Serve(d) PROVE UNCHANGED <<phase[c], attempt[c]>>
  <2>1. c # d
    BY <1>1
  <2> USE <2>1 DEF HandlerTypeOK, Goto, Respond
  <2>2. CASE Lookup(d)
    BY <2>2 DEF Lookup
  <2>3. CASE Call(d)
    BY <2>3 DEF Call, GiveUp
  <2>4. CASE Query(d)
    BY <2>4 DEF Query
  <2>5. CASE Wait(d)
    BY <2>5 DEF Wait, GiveUp
  <2>6. CASE Save(d)
    BY <2>6 DEF Save
  <2>7. CASE Backup(d) \/ Fallback(d)
    BY <2>7 DEF Backup, Fallback
  <2> QED BY <1>1, <2>2, <2>3, <2>4, <2>5, <2>6, <2>7 DEF Serve
<1>2. ASSUME NEW d \in Callers, NEW u \in Users, Request(d, u) PROVE UNCHANGED <<phase[c], attempt[c]>>
  BY <1>2 DEF Request, Goto, HandlerTypeOK
<1>3. ASSUME NEW d \in Callers, Disconnect(d) PROVE UNCHANGED <<phase[c], attempt[c]>>
  BY <1>3 DEF Disconnect
<1>4. CASE \E u \in Users : ExpireKey(u) \/ ExpireBackup(u)
  BY <1>4 DEF ExpireKey, ExpireBackup, requestVars
<1>5. CASE DbDown \/ DbRecover \/ RedisDown \/ RedisRecover \/ Status \/ Clock
  BY <1>5 DEF DbDown, DbRecover, RedisDown, RedisRecover, Status, Clock, requestVars
<1>6. CASE UNCHANGED vars
  BY <1>6 DEF vars, requestVars
<1> QED BY <1>1, <1>2, <1>3, <1>4, <1>5, <1>6 DEF Next

(* No request, breaker, outage or disconnection sends a request back: each *)
(* step of a request that moves it leaves it fewer, and there are at most  *)
(* 3 * MaxRetries + 2 of them.                                             *)
THEOREM RequestsShorten == Spec => RequestShortens /\ [](\A c \in Callers : StepsLeft(c) \in 0..(3 * MaxRetries + 2))
<1>1. IInv => HandlerTypeOK
  BY DEF IInv
<1>2. HandlerTypeOK => \A c \in Callers : StepsLeft(c) \in 0..(3 * MaxRetries + 2)
  BY StepsLeftType
<1>3. HandlerTypeOK /\ [Next]_vars
        => (\A c \in Callers :
               phase[c] # "idle" =>
                  StepsLeft(c)' < StepsLeft(c) \/ UNCHANGED <<phase[c], attempt[c]>>)
  BY ServeShortens, OthersWait
<1> QED BY <1>1, <1>2, <1>3, InitIInv, StepIInv, PTL DEF Spec, RequestShortens
=============================================================================
