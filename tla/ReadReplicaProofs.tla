-------------------------- MODULE ReadReplicaProofs --------------------------
(***************************************************************************)
(* How fast the flag follows the replica, and what the reads of a client   *)
(* show, for any number of clients, any period, timeout and size of pool.  *)
(***************************************************************************)
EXTENDS ReadReplica, TLAPS

(* The two histories never count while they should be reset.               *)
Observed == /\ mode["replica"] = "up" => downFor = 0
            /\ ~Well => wellFor = 0

(* The age of the flag: after a ping the flag is right, so it is wrong for *)
(* no longer than the time since the last tick, and a period more while    *)
(* the next ping lasts.                                                    *)
FlagAge ==
    stage = "serving" =>
        /\ watch = "waiting" => /\ healthy => downFor <= elapsed
                                /\ connected /\ ~healthy => wellFor <= elapsed
        /\ watch # "waiting" => /\ elapsed <= PingTimeout
                                /\ healthy => downFor <= Period + elapsed
                                /\ ~healthy => wellFor <= Period + elapsed
        /\ watch = "ok" => downFor <= elapsed
        /\ watch = "failed" => wellFor <= elapsed

(* A calm client's read goes where Reader would send it now.               *)
Steady == /\ stage # "serving" => calm = {} /\ \A c \in Clients : op[c] = "none"
          /\ \A c \in Clients : op[c] = "read" => seen[c] <= rows[db[c]]
          /\ \A c \in calm : /\ seen[c] <= rows[Reader]
                             /\ op[c] = "read" => db[c] = Reader

IInv == TypeOK /\ Observed /\ FlagAge /\ Steady

-----------------------------------------------------------------------------
(* The initial state.                                                      *)

LEMMA WindowType == Window \in Nat /\ Window = Period + PingTimeout /\ PingTimeout < Period
  BY ReplicaAssumption DEF Window

LEMMA Zero == 1 \in 1..Attempts /\ 0 \in 0..Period /\ 0 \in 0..(Window + 1)
  BY ReplicaAssumption, WindowType

LEMMA InitInv == Init => IInv
<1> SUFFICES ASSUME Init PROVE IInv
  OBVIOUS
<1>1. TypeOK
  BY Zero DEF Init, TypeOK, Dbs, Modes, Stages, Phases, Ops
<1>2. Observed /\ FlagAge /\ Steady
  BY DEF Init, Observed, FlagAge, Steady
<1> QED BY <1>1, <1>2 DEF IInv

-----------------------------------------------------------------------------
(* Types.                                                                  *)

LEMMA ObserveType ==
  ASSUME TypeOK, Observe
  PROVE  downFor' \in {0, downFor} /\ wellFor' \in {0, wellFor} /\ Observed'
  BY DEF TypeOK, Observe, Observed

LEMMA ServeType ==
  ASSUME NEW opened \in BOOLEAN, Serve(opened)
  PROVE  /\ stage' \in Stages /\ attempt' \in 1..Attempts
         /\ connected' \in BOOLEAN /\ healthy' \in BOOLEAN /\ (healthy' => connected')
         /\ watch' \in Phases /\ watch' = "waiting"
         /\ elapsed' \in 0..Period
  BY ReplicaAssumption DEF Serve, Stages, Phases

LEMMA StartKeepsTypes ==
  ASSUME TypeOK, OpenPrimary \/ OpenReplica \/ OpenFails \/ Crash \/ Restart
  PROVE  TypeOK'
<1>1. /\ downFor' \in 0..(Window + 1) /\ wellFor' \in 0..(Window + 1)
      /\ mode' = mode /\ rows' = rows /\ seen' = seen
  <2>1. Observe /\ mode' = mode /\ rows' = rows /\ seen' = seen
    BY DEF OpenPrimary, OpenReplica, OpenFails, Crash, Restart, requests
  <2> QED BY <2>1, ObserveType, WindowType DEF TypeOK
<1>2. CASE OpenPrimary \/ OpenReplica
  <2>1. /\ stage' \in Stages /\ attempt' \in 1..Attempts
        /\ connected' \in BOOLEAN /\ healthy' \in BOOLEAN /\ (healthy' => connected')
        /\ watch' \in Phases /\ (watch' # "waiting" => connected')
        /\ elapsed' \in 0..Period
    <3>1. CASE Serve(FALSE) \/ Serve(TRUE)
      BY <3>1, ServeType
    <3>2. CASE /\ stage' = "replica" /\ attempt' = 1
               /\ UNCHANGED <<connected, healthy, watch, elapsed>>
      BY <3>2, ReplicaAssumption DEF TypeOK, Stages, Dbs
    <3> QED BY <1>2, <3>1, <3>2 DEF OpenPrimary, OpenReplica
  <2> QED BY <1>1, <1>2, <2>1 DEF TypeOK, OpenPrimary, OpenReplica, requests
<1>3. CASE OpenFails
  <2>1. /\ stage' \in Stages /\ attempt' \in 1..Attempts
        /\ connected' \in BOOLEAN /\ healthy' \in BOOLEAN /\ (healthy' => connected')
        /\ watch' \in Phases /\ (watch' # "waiting" => connected')
        /\ elapsed' \in 0..Period
    <3>1. CASE Serve(FALSE)
      BY <3>1, ServeType
    <3>2. CASE UNCHANGED <<connected, healthy, watch, elapsed>>
      BY <1>3, <3>2, ReplicaAssumption DEF OpenFails, TypeOK, Stages, Serve
    <3> QED BY <1>3, <3>1, <3>2 DEF OpenFails
  <2>2. faults' \in Nat
    BY <1>3 DEF OpenFails, Fault, TypeOK
  <2> QED BY <1>1, <1>3, <2>1, <2>2 DEF TypeOK, OpenFails, requests
<1>4. CASE Crash
  BY <1>1, <1>4 DEF Crash, Fault, TypeOK, Stages, Ops, Dbs
<1>5. CASE Restart
  BY <1>1, <1>5, Zero DEF Restart, TypeOK, Stages, Dbs, Phases, requests
<1> QED BY <1>2, <1>3, <1>4, <1>5

LEMMA WatcherKeepsTypes ==
  ASSUME TypeOK, FlagAge, Watcher \/ Tick
  PROVE  TypeOK'
<1>1. CASE Wake
  <2>1. downFor' \in {0, downFor} /\ wellFor' \in {0, wellFor}
    BY <1>1, ObserveType DEF Wake
  <2>2. watch' \in Phases /\ (watch' # "waiting" => connected') /\ elapsed' \in 0..Period
    BY <1>1, ReplicaAssumption DEF Wake, TypeOK, Phases
  <2> QED BY <1>1, <2>1, <2>2, WindowType DEF Wake, TypeOK, requests
<1>2. CASE PingReturns
  <2>1. downFor' \in {0, downFor} /\ wellFor' \in {0, wellFor} /\ faults' \in Nat
    BY <1>2, ObserveType DEF PingReturns, Fault, TypeOK
  <2>2. watch' \in Phases /\ connected
    BY <1>2 DEF PingReturns, TypeOK, Phases
  <2> QED BY <1>2, <2>1, <2>2, WindowType DEF PingReturns, TypeOK, requests
<1>3. CASE SetFlag
  <2>1. downFor' \in {0, downFor} /\ wellFor' \in {0, wellFor}
    BY <1>3, ObserveType DEF SetFlag
  <2>2. healthy' \in BOOLEAN /\ connected /\ watch' = "waiting" /\ calm' \subseteq Clients
    BY <1>3 DEF SetFlag, TypeOK, FlagAfter
  <2> QED BY <1>3, <2>1, <2>2, WindowType DEF SetFlag, TypeOK, Phases
<1>4. CASE Tick
  <2>1. elapsed' \in 0..Period
    <3>1. CASE stage = "serving"
      <4>1. elapsed' = elapsed + 1 /\ elapsed < Period
        BY <1>4, <3>1, WindowType, ReplicaAssumption DEF Tick, Due, TypeOK, Phases, FlagAge
      <4> QED BY <4>1, ReplicaAssumption DEF TypeOK
    <3> QED BY <1>4, <3>1 DEF Tick, TypeOK
  <2>2. downFor' \in 0..(Window + 1) /\ wellFor' \in 0..(Window + 1)
    BY <1>4, WindowType DEF Tick, TypeOK
  <2> QED BY <1>4, <2>1, <2>2 DEF Tick, TypeOK, requests
<1> QED BY <1>1, <1>2, <1>3, <1>4 DEF Watcher

LEMMA RequestKeepsTypes ==
  ASSUME TypeOK, NEW c \in Clients, Request(c)
  PROVE  TypeOK'
<1>1. downFor' \in 0..(Window + 1) /\ wellFor' \in 0..(Window + 1)
  <2>1. Observe
    BY DEF Request, Read, CreateUser, Connect, ReadAnswered, Created, Fails
  <2> QED BY <2>1, ObserveType, WindowType DEF TypeOK
<1>2. CASE Read(c)
  BY <1>1, <1>2 DEF Read, TypeOK, Reader, Ops, Dbs, server
<1>3. CASE CreateUser(c)
  BY <1>1, <1>3 DEF CreateUser, TypeOK, Writer, Ops, Dbs, server
<1>4. CASE Connect(c)
  BY <1>1, <1>4 DEF Connect, TypeOK, server
<1>5. CASE ReadAnswered(c) \/ Created(c) \/ Fails(c)
  <2>1. op' \in [Clients -> Ops] /\ db' \in [Clients -> Dbs] /\ running' \subseteq Clients
    BY <1>5 DEF ReadAnswered, Created, Fails, End, TypeOK, Ops, Dbs
  <2>2. rows' \in [Dbs -> Nat]
    BY <1>5 DEF ReadAnswered, Created, Fails, Committed, TypeOK, Dbs
  <2>3. seen' \in [Clients -> Nat]
    BY <1>5 DEF ReadAnswered, Created, Fails, TypeOK
  <2> QED BY <1>1, <1>5, <2>1, <2>2, <2>3 DEF ReadAnswered, Created, Fails, TypeOK, server
<1> QED BY <1>2, <1>3, <1>4, <1>5 DEF Request

LEMMA MySQLKeepsTypes ==
  ASSUME TypeOK, Replicate \/ \E d \in Dbs, m \in Modes : Turn(d, m)
  PROVE  TypeOK'
<1>1. downFor' \in 0..(Window + 1) /\ wellFor' \in 0..(Window + 1)
  <2>1. Observe
    BY DEF Replicate, Turn
  <2> QED BY <2>1, ObserveType, WindowType DEF TypeOK
<1>2. CASE Replicate
  BY <1>1, <1>2 DEF Replicate, TypeOK, Dbs, server, requests
<1>3. ASSUME NEW d \in Dbs, NEW m \in Modes, Turn(d, m) PROVE TypeOK'
  BY <1>1, <1>3 DEF Turn, Fault, TypeOK, server, requests
<1> QED BY <1>2, <1>3

LEMMA StepKeepsTypes == TypeOK /\ FlagAge /\ [Next]_vars => TypeOK'
<1> SUFFICES ASSUME TypeOK, FlagAge, [Next]_vars PROVE TypeOK'
  OBVIOUS
<1>1. CASE UNCHANGED vars
  BY <1>1 DEF vars, server, requests, TypeOK
<1> QED BY <1>1, StartKeepsTypes, WatcherKeepsTypes, RequestKeepsTypes, MySQLKeepsTypes DEF Next

-----------------------------------------------------------------------------
(* The flag's age.                                                         *)

LEMMA StepKeepsObserved == IInv /\ [Next]_vars => Observed'
<1> SUFFICES ASSUME IInv, [Next]_vars PROVE Observed'
  OBVIOUS
<1>1. CASE Observe
  BY <1>1, ObserveType DEF IInv
<1>2. CASE PingReturns
  <2>1. CASE Observe
    BY <1>1, <2>1
  <2>2. CASE ~Observe
    <3>1. mode' = mode /\ downFor' = downFor /\ wellFor' = 0
      BY <1>2, <2>2 DEF PingReturns
    <3> QED BY <3>1 DEF IInv, Observed
  <2> QED BY <2>1, <2>2
<1>3. CASE Tick \/ UNCHANGED vars
  <2>1. mode' = mode /\ (Well' <=> Well)
    BY <1>3 DEF Tick, vars, requests, Well, FreeSlot
  <2>2. mode["replica"] = "up" => downFor' = downFor
    BY <1>3 DEF Tick, vars
  <2>3. ~Well => wellFor' = wellFor
    BY <1>3 DEF Tick, vars
  <2> QED BY <2>1, <2>2, <2>3 DEF IInv, Observed
<1> QED BY <1>1, <1>2, <1>3 DEF Next, OpenPrimary, OpenReplica, OpenFails, Crash, Restart, Watcher,
       Wake, SetFlag, Replicate, Request, Read, CreateUser, Connect, ReadAnswered, Created, Fails, Turn

(* A step that takes no time and leaves the server alone.                  *)
LEMMA QuietStep ==
  ASSUME IInv, Observe, UNCHANGED server
  PROVE  FlagAge'
<1>1. downFor' \in {0, downFor} /\ wellFor' \in {0, wellFor} /\ elapsed \in Nat
  BY ObserveType DEF IInv, TypeOK
<1> QED BY <1>1, WindowType, ReplicaAssumption DEF IInv, TypeOK, FlagAge, server

LEMMA StartStep ==
  ASSUME IInv, Observe, Serve(TRUE) \/ Serve(FALSE), mode' = mode, Serve(TRUE) => mode["replica"] = "up"
  PROVE  FlagAge'
<1>1. stage' = "serving" /\ watch' = "waiting" /\ elapsed' = 0 /\ healthy' = connected'
  BY DEF Serve
<1>2. healthy' => downFor' = 0
  BY DEF Serve, Observe
<1> QED BY <1>1, <1>2 DEF FlagAge, IInv, TypeOK

LEMMA StepKeepsAge == IInv /\ [Next]_vars => FlagAge'
<1> SUFFICES ASSUME IInv, [Next]_vars PROVE FlagAge'
  OBVIOUS
<1>1. CASE OpenPrimary
  <2>1. CASE Serve(FALSE)
    BY <1>1, <2>1, StartStep DEF OpenPrimary, Serve
  <2>2. CASE stage' = "replica"
    BY <2>2 DEF FlagAge
  <2> QED BY <1>1, <2>1, <2>2 DEF OpenPrimary
<1>2. CASE OpenReplica
  BY <1>2, StartStep DEF OpenReplica
<1>3. CASE OpenFails
  <2>1. CASE Serve(FALSE)
    BY <1>3, <2>1, StartStep DEF OpenFails, Serve
  <2>2. CASE stage' = "exited" \/ stage' = stage
    BY <1>3, <2>2 DEF FlagAge, OpenFails, Dbs
  <2> QED BY <1>3, <2>1, <2>2 DEF OpenFails
<1>4. CASE Crash \/ Restart
  BY <1>4 DEF Crash, Restart, FlagAge
<1>5. CASE Wake
  <2>1. downFor' \in {0, downFor} /\ wellFor' \in {0, wellFor}
    BY <1>5, ObserveType DEF Wake, IInv
  <2>2. CASE connected
    BY <1>5, <2>1, <2>2, WindowType, ReplicaAssumption DEF Wake, IInv, TypeOK, FlagAge
  <2>3. CASE ~connected
    BY <1>5, <2>1, <2>3, WindowType, ReplicaAssumption DEF Wake, IInv, TypeOK, FlagAge
  <2> QED BY <2>2, <2>3
<1>6. CASE PingReturns
  <2>1. /\ stage = "serving" /\ watch = "pinging" /\ elapsed' = elapsed /\ healthy' = healthy
        /\ downFor' \in {0, downFor} /\ wellFor' \in {0, wellFor}
    BY <1>6, ObserveType DEF PingReturns, IInv
  <2>2. CASE watch' = "ok"
    <3>1. Well
      BY <1>6, <2>2 DEF PingReturns
    <3>2. downFor' = 0
      BY <2>1, <3>1 DEF Well, IInv, Observed
    <3> QED BY <1>6, <2>1, <2>2, <3>2, WindowType, ReplicaAssumption DEF PingReturns, IInv, TypeOK, FlagAge
  <2>3. CASE watch' = "failed"
    <3>1. wellFor' <= elapsed
      <4>1. CASE mode["replica"] = "down"
        <5>1. wellFor = 0
          BY <4>1 DEF Well, IInv, Observed
        <5> QED BY <2>1, <5>1 DEF IInv, TypeOK
      <4>2. CASE TimedOut
        BY <2>1, <4>2, ReplicaAssumption DEF TimedOut, IInv, TypeOK
      <4>3. CASE wellFor' = 0
        BY <4>3 DEF IInv, TypeOK
      <4> QED BY <1>6, <2>3, <4>1, <4>2, <4>3 DEF PingReturns
    <3> QED BY <1>6, <2>1, <2>3, <3>1, WindowType, ReplicaAssumption DEF PingReturns, IInv, TypeOK, FlagAge
  <2> QED BY <1>6, <2>2, <2>3 DEF PingReturns
<1>7. CASE SetFlag
  <2>1. /\ stage = "serving" /\ elapsed' = elapsed /\ watch' = "waiting"
        /\ downFor' \in {0, downFor} /\ wellFor' \in {0, wellFor}
    BY <1>7, ObserveType DEF SetFlag, IInv
  <2>2. CASE watch = "ok"
    <3>1. healthy' /\ downFor <= elapsed
      BY <1>7, <2>1, <2>2 DEF SetFlag, FlagAfter, IInv, FlagAge
    <3> QED BY <2>1, <3>1 DEF IInv, TypeOK, FlagAge
  <2>3. CASE watch = "failed"
    <3>1. ~healthy' /\ wellFor <= elapsed
      BY <1>7, <2>1, <2>3 DEF SetFlag, FlagAfter, IInv, FlagAge
    <3> QED BY <2>1, <3>1 DEF IInv, TypeOK, FlagAge
  <2> QED BY <1>7, <2>2, <2>3 DEF SetFlag
<1>8. CASE Tick
  <2>1. CASE stage = "serving"
    <3>1. /\ elapsed' = elapsed + 1 /\ downFor' \in {downFor, downFor + 1}
          /\ wellFor' \in {wellFor, wellFor + 1}
          /\ UNCHANGED <<stage, watch, healthy, connected>>
      BY <1>8, <2>1 DEF Tick
    <3>2. watch \in {"waiting", "pinging"} /\ (watch = "pinging" => elapsed + 1 <= PingTimeout)
      BY <1>8, <2>1, ReplicaAssumption DEF Tick, Due, IInv, TypeOK, Phases, FlagAge
    <3> QED BY <2>1, <3>1, <3>2, ReplicaAssumption DEF IInv, TypeOK, FlagAge
  <2>2. CASE stage # "serving"
    BY <1>8, <2>2 DEF Tick, FlagAge
  <2> QED BY <2>1, <2>2
<1>9. CASE UNCHANGED vars
  BY <1>9 DEF vars, server, IInv, FlagAge
<1>10. CASE Replicate \/ \E d \in Dbs, m \in Modes : Turn(d, m)
  BY <1>10, QuietStep DEF Replicate, Turn
<1>11. CASE \E c \in Clients : Request(c)
  BY <1>11, QuietStep DEF Request, Read, CreateUser, Connect, ReadAnswered, Created, Fails
<1> QED BY <1>1, <1>2, <1>3, <1>4, <1>5, <1>6, <1>7, <1>8, <1>9, <1>10, <1>11 DEF Next, Watcher

-----------------------------------------------------------------------------
(* What the reads of a client show.                                        *)

LEMMA StepKeepsSteady == IInv /\ [Next]_vars => Steady'
<1> SUFFICES ASSUME IInv, [Next]_vars PROVE Steady'
  OBVIOUS
<1>1. CASE OpenPrimary \/ OpenReplica \/ OpenFails \/ Restart
  <2>1. /\ stage # "serving" /\ UNCHANGED requests
    BY <1>1 DEF OpenPrimary, OpenReplica, OpenFails, Restart, Dbs
  <2> QED BY <2>1 DEF IInv, Steady, requests
<1>2. CASE Crash
  <2>1. calm' = {} /\ op' = [c \in Clients |-> "none"]
    BY <1>2 DEF Crash
  <2> QED BY <2>1 DEF Steady
<1>3. CASE SetFlag
  <2>1. UNCHANGED <<stage, connected, op, db, seen, rows>> /\ stage = "serving"
    BY <1>3 DEF SetFlag
  <2>2. CASE healthy' = healthy
    <3>1. calm' = calm /\ Reader' = Reader
      BY <1>3, <2>1, <2>2 DEF SetFlag, Reader
    <3> QED BY <2>1, <3>1 DEF IInv, Steady
  <2>3. CASE healthy' # healthy
    <3>1. calm' = {}
      BY <1>3, <2>3 DEF SetFlag
    <3> QED BY <2>1, <3>1 DEF IInv, Steady
  <2> QED BY <2>2, <2>3
<1>4. ASSUME UNCHANGED <<stage, connected, healthy, op, db, calm, seen>>,
             \A d \in Dbs : rows'[d] >= rows[d] /\ rows'[d] \in Nat
      PROVE  Steady'
  <2>1. Reader' = Reader /\ Reader \in Dbs
    BY <1>4 DEF Reader, Dbs
  <2> QED BY <1>4, <2>1 DEF IInv, TypeOK, Steady
<1>5. \A d \in Dbs : rows[d] \in Nat
  BY DEF IInv, TypeOK
<1>6. CASE Wake \/ PingReturns \/ Tick \/ UNCHANGED vars
  BY <1>4, <1>5, <1>6 DEF Wake, PingReturns, Tick, vars, server, requests
<1>7. CASE Replicate
  BY <1>4, <1>5, <1>7 DEF Replicate, IInv, TypeOK, Dbs, server, requests
<1>8. ASSUME NEW d \in Dbs, NEW m \in Modes, Turn(d, m) PROVE Steady'
  BY <1>4, <1>5, <1>8 DEF Turn, server, requests
<1>9. ASSUME NEW c \in Clients, Connect(c) PROVE Steady'
  BY <1>4, <1>5, <1>9 DEF Connect, server
<1>10. ASSUME NEW c \in Clients, Read(c) PROVE Steady'
  <2>1. /\ UNCHANGED <<stage, connected, healthy, rows>> /\ stage = "serving"
        /\ op' = [op EXCEPT ![c] = "read"] /\ db' = [db EXCEPT ![c] = Reader]
        /\ calm' = calm \cup {c}
        /\ seen' = IF c \in calm THEN seen ELSE [seen EXCEPT ![c] = 0]
    BY <1>10 DEF Read, server
  <2>2. Reader' = Reader /\ Reader \in Dbs
    BY <2>1 DEF Reader, Dbs
  <2>3. \A e \in Clients : e # c => op'[e] = op[e] /\ db'[e] = db[e] /\ seen'[e] = seen[e]
    BY <2>1 DEF IInv, TypeOK
  <2>4. db'[c] = Reader /\ seen'[c] <= rows[Reader]
    BY <1>5, <2>1, <2>2 DEF IInv, TypeOK, Steady
  <2>5. \A e \in Clients : op'[e] = "read" => seen'[e] <= rows'[db'[e]]
    BY <2>1, <2>3, <2>4 DEF IInv, Steady
  <2>6. \A e \in calm' : seen'[e] <= rows'[Reader'] /\ (op'[e] = "read" => db'[e] = Reader')
    BY <2>1, <2>2, <2>3, <2>4 DEF IInv, TypeOK, Steady
  <2> QED BY <2>1, <2>5, <2>6 DEF Steady
<1>11. ASSUME NEW c \in Clients, CreateUser(c) PROVE Steady'
  <2>1. /\ UNCHANGED <<stage, connected, healthy, rows, calm, seen>> /\ stage = "serving"
        /\ op' = [op EXCEPT ![c] = "create"]
        /\ \A e \in Clients : e # c => db'[e] = db[e]
    BY <1>11 DEF CreateUser, server, IInv, TypeOK
  <2>2. Reader' = Reader /\ op'[c] # "read" /\ \A e \in Clients : e # c => op'[e] = op[e]
    BY <2>1 DEF Reader, IInv, TypeOK
  <2> QED BY <2>1, <2>2 DEF IInv, TypeOK, Steady
<1>12. ASSUME NEW c \in Clients, ReadAnswered(c) PROVE Steady'
  <2>1. /\ UNCHANGED <<stage, connected, healthy, rows, calm>> /\ op[c] = "read"
        /\ op'[c] = "none" /\ seen'[c] = rows[db[c]]
        /\ \A e \in Clients : e # c => op'[e] = op[e] /\ db'[e] = db[e] /\ seen'[e] = seen[e]
    BY <1>12 DEF ReadAnswered, End, server, IInv, TypeOK
  <2>2. Reader' = Reader /\ Reader \in Dbs
    BY <2>1 DEF Reader, Dbs
  <2>3. stage = "serving"
    BY <2>1 DEF IInv, Steady
  <2>4. c \in calm => seen'[c] <= rows[Reader]
    BY <1>5, <2>1, <2>2 DEF IInv, Steady
  <2> QED BY <2>1, <2>2, <2>3, <2>4 DEF IInv, TypeOK, Steady
<1>13. ASSUME NEW c \in Clients, Created(c) \/ Fails(c) PROVE Steady'
  <2>1. /\ UNCHANGED <<stage, connected, healthy, calm, seen>> /\ op[c] # "none"
        /\ op'[c] = "none"
        /\ \A e \in Clients : e # c => op'[e] = op[e] /\ db'[e] = db[e]
    BY <1>13 DEF Created, Fails, Answers, End, server, IInv, TypeOK
  <2>2. \A d \in Dbs : rows'[d] >= rows[d] /\ rows'[d] \in Nat
    BY <1>5, <1>13 DEF Created, Fails, Committed, IInv, TypeOK, Dbs
  <2>3. Reader' = Reader /\ Reader \in Dbs
    BY <2>1 DEF Reader, Dbs
  <2>4. stage = "serving"
    BY <2>1 DEF IInv, Steady
  <2>5. \A e \in Clients : op'[e] = "read" => seen'[e] <= rows'[db'[e]]
    BY <1>5, <2>1, <2>2 DEF IInv, TypeOK, Steady
  <2>6. \A e \in calm' : seen'[e] <= rows'[Reader'] /\ (op'[e] = "read" => db'[e] = Reader')
    BY <1>5, <2>1, <2>2, <2>3 DEF IInv, TypeOK, Steady
  <2> QED BY <2>1, <2>4, <2>5, <2>6 DEF Steady
<1> QED BY <1>1, <1>2, <1>3, <1>6, <1>7, <1>8, <1>9, <1>10, <1>11, <1>12, <1>13 DEF Next, Watcher, Request

LEMMA StepInv == IInv /\ [Next]_vars => IInv'
  BY StepKeepsTypes, StepKeepsObserved, StepKeepsAge, StepKeepsSteady DEF IInv

-----------------------------------------------------------------------------
(* The theorems.                                                           *)

(* The inductive invariant holds in every state.                           *)
THEOREM Invariant == Spec => []IInv
  BY InitInv, StepInv, PTL DEF Spec

(* Types, and the flag is up only with a replica.                          *)
THEOREM TypeCorrect == Spec => []TypeOK
<1>1. IInv => TypeOK
  BY DEF IInv
<1> QED BY <1>1, Invariant, PTL

(* The flag is down when the replica has not answered for a period and a   *)
(* ping's timeout.                                                         *)
THEOREM Detection == Spec => []DetectedInTime
<1>1. IInv => DetectedInTime
  BY WindowType, ReplicaAssumption DEF IInv, TypeOK, FlagAge, DetectedInTime, Phases
<1> QED BY <1>1, Invariant, PTL

(* The flag is up when the replica would have answered for as long.        *)
THEOREM Failback == Spec => []FailsBackInTime
<1>1. IInv => FailsBackInTime
  BY WindowType, ReplicaAssumption DEF IInv, TypeOK, FlagAge, FailsBackInTime, Phases
<1> QED BY <1>1, Invariant, PTL

(* Reads go backwards only over a change of the flag.                      *)
THEOREM ReadsDoNotRewind == Spec => NoRewind
<1>1. IInv => \A c \in Clients : ReadAnswered(c) => rows[db[c]] >= seen[c]
  BY DEF IInv, TypeOK, Steady, ReadAnswered
<1> QED BY <1>1, Invariant, PTL DEF NoRewind

(* What a list says of the replica is right unless the flag has changed.   *)
THEOREM ListsTellRight == Spec => ToldRight
<1>1. IInv => \A c \in Clients : ReadAnswered(c) /\ c \in calm => (ReplicaUsed <=> db[c] = "replica")
  BY DEF IInv, TypeOK, Steady, ReadAnswered, Reader, ReplicaUsed
<1> QED BY <1>1, Invariant, PTL DEF ToldRight
=============================================================================
