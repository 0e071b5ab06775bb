-------------------------- MODULE CacheAsideProofs --------------------------
(***************************************************************************)
(* What makes cached data stale, for any number of requests, users and     *)
(* tenants.                                                                *)
(***************************************************************************)
EXTENDS CacheAside, TLAPS

(* What a reader is about to SET is what MySQL has, or the key is excused. *)
FillsAreExcused ==
    \A c \in Clients : \A k \in target[c] :
        phase[c] = "fill" => fetched[c] = Content(k) \/ k \in excused

IInv == TypeOK /\ FillsAreExcused /\ StaleIsExcused

-----------------------------------------------------------------------------
(* Types.                                                                  *)

LEMMA ContentType == ASSUME TypeOK, NEW k \in Keys PROVE Content(k) \in Contents
  BY DEF TypeOK, Content, Contents

LEMMA HomeKey == \A u \in Users : {u, Home[u]} \subseteq Keys
  BY CacheAssumption DEF Keys

LEMMA InitTypeOK == Init => TypeOK
  BY DEF Init, TypeOK, Phases, Contents

LEMMA GotoType ==
  ASSUME TypeOK, NEW c \in Clients, NEW p \in Phases, NEW K \in SUBSET Keys,
         NEW rows \in Contents, Goto(c, p, K, rows)
  PROVE  /\ phase' \in [Clients -> Phases]
         /\ target' \in [Clients -> SUBSET Keys]
         /\ fetched' \in [Clients -> Contents]
<1> USE DEF TypeOK, Goto
<1>1. phase' \in [Clients -> Phases]
  OBVIOUS
<1>2. target' \in [Clients -> SUBSET Keys]
  OBVIOUS
<1>3. fetched' \in [Clients -> Contents]
  OBVIOUS
<1> QED BY <1>1, <1>2, <1>3

LEMMA RespondType ==
  ASSUME TypeOK, NEW c \in Clients, Respond(c)
  PROVE  /\ phase' \in [Clients -> Phases]
         /\ target' \in [Clients -> SUBSET Keys]
         /\ fetched' \in [Clients -> Contents]
<1>1. "idle" \in Phases /\ {} \in SUBSET Keys /\ {} \in Contents
  BY DEF Phases, Contents
<1> QED BY <1>1, GotoType DEF Respond

LEMMA WriteType ==
  ASSUME TypeOK, NEW u \in Users, NEW X \in SUBSET Keys, Write(u, X)
  PROVE  version' \in [Users -> Nat] /\ excused' \subseteq Keys /\ writes' \in Nat
<1>1. version' \in [Users -> Nat] /\ writes' \in Nat
  BY DEF TypeOK, Write
<1>2. excused' \subseteq Keys
  BY DEF TypeOK, Write
<1> QED BY <1>1, <1>2

LEMMA WrittenType ==
  ASSUME TypeOK, NEW c \in Clients, NEW u \in Users, NEW K \in SUBSET Keys,
         NEW X \in SUBSET Keys, Written(c, u, K, X), UNCHANGED cache
  PROVE  TypeOK'
<1>1. CASE Write(u, X) /\ Goto(c, "invalidate", K, {}) /\ NoFault
  <2>1. "invalidate" \in Phases /\ {} \in Contents
    BY DEF Phases, Contents
  <2> QED BY <1>1, <2>1, GotoType, WriteType DEF TypeOK, NoFault
<1>2. CASE Write(u, {u, Home[u]}) /\ UNCHANGED requestVars /\ Fault
  <2>1. {u, Home[u]} \in SUBSET Keys
    BY HomeKey
  <2> QED BY <1>2, <2>1, WriteType DEF TypeOK, Fault, requestVars
<1> QED BY <1>1, <1>2 DEF Written

LEMMA DropType ==
  ASSUME TypeOK, NEW K \in SUBSET Keys, Drop(K)
  PROVE  cache' \in [Keys -> SUBSET Contents] /\ excused' \subseteq Keys
  BY DEF TypeOK, Drop

LEMMA FaultType == TypeOK /\ (Fault \/ NoFault) => faults' \in Nat
  BY DEF TypeOK, Fault, NoFault

(* Every request's step, expiry and a restart keep the types.              *)
LEMMA StepTypeOK == TypeOK /\ [Next]_vars => TypeOK'
<1> SUFFICES ASSUME TypeOK, [Next]_vars PROVE TypeOK'
  OBVIOUS
<1>0. {} \in Contents /\ Phases = {"idle", "query", "fill", "invalidate"}
  BY DEF Contents, Phases
<1>1. ASSUME NEW c \in Clients, NEW k \in Keys, Miss(c, k) PROVE TypeOK'
  <2>1. Goto(c, "query", {k}, {}) /\ faults' \in Nat
    BY <1>1, FaultType DEF Miss
  <2> QED BY <1>0, <1>1, <2>1, GotoType DEF Miss, TypeOK
<1>2. ASSUME NEW c \in Clients, Query(c) PROVE TypeOK'
  <2>1. PICK k \in target[c] :
          \/ Goto(c, "fill", {k}, Content(k)) /\ NoFault
          \/ Respond(c) /\ NoFault
          \/ Respond(c) /\ Fault
    BY <1>2 DEF Query
  <2>2. k \in Keys /\ faults' \in Nat
    BY <2>1, FaultType DEF TypeOK
  <2>3. CASE Goto(c, "fill", {k}, Content(k))
    BY <1>0, <1>2, <2>2, <2>3, GotoType, ContentType DEF Query, TypeOK
  <2>4. CASE Respond(c)
    BY <1>2, <2>2, <2>4, RespondType DEF Query, TypeOK
  <2> QED BY <2>1, <2>3, <2>4
<1>3. ASSUME NEW c \in Clients, Fill(c) PROVE TypeOK'
  <2>1. Respond(c) /\ faults' \in Nat
    BY <1>3, FaultType DEF Fill
  <2>2. cache' \in [Keys -> SUBSET Contents]
    <3>1. CASE UNCHANGED cache
      BY <3>1 DEF TypeOK
    <3>2. ASSUME NEW k \in target[c], cache' = [cache EXCEPT ![k] = {fetched[c]}]
          PROVE  cache' \in [Keys -> SUBSET Contents]
      BY <3>2 DEF TypeOK
    <3> QED BY <1>3, <3>1, <3>2 DEF Fill
  <2> QED BY <1>3, <2>1, <2>2, RespondType DEF Fill, TypeOK
<1>4. ASSUME NEW c \in Clients, Invalidate(c) PROVE TypeOK'
  <2>1. Respond(c) /\ faults' \in Nat /\ target[c] \in SUBSET Keys
    BY <1>4, FaultType DEF Invalidate, TypeOK
  <2>2. cache' \in [Keys -> SUBSET Contents] /\ excused' \subseteq Keys
    BY <1>4, <2>1, DropType DEF Invalidate, TypeOK
  <2> QED BY <1>4, <2>1, <2>2, RespondType DEF Invalidate, TypeOK
<1>5. ASSUME NEW c \in Clients, NEW u \in Users, Create(c, u) PROVE TypeOK'
  <2>1. {u, Home[u]} \in SUBSET Keys
    BY HomeKey
  <2> QED BY <1>5, <2>1, WrittenType DEF Create, CreatedKeys
<1>6. ASSUME NEW c \in Clients, NEW u \in Users, Update(c, u) PROVE TypeOK'
  <2>1. PICK T \in BodyTenants :
          \/ Written(c, u, {u} \cup T, {Home[u]} \ T)
          \/ /\ Goto(c, "invalidate", {u} \cup T, {})
             /\ UNCHANGED <<version, writes, excused, faults>>
    BY <1>6 DEF Update
  <2>2. {u} \cup T \in SUBSET Keys /\ {Home[u]} \ T \in SUBSET Keys
    BY HomeKey DEF BodyTenants, Keys
  <2>3. CASE Written(c, u, {u} \cup T, {Home[u]} \ T)
    BY <1>6, <2>2, <2>3, WrittenType DEF Update
  <2>4. CASE /\ Goto(c, "invalidate", {u} \cup T, {})
             /\ UNCHANGED <<version, writes, excused, faults>>
    BY <1>0, <1>6, <2>2, <2>4, GotoType DEF Update, TypeOK
  <2> QED BY <2>1, <2>3, <2>4
<1>7. ASSUME NEW k \in Keys, Expire(k) PROVE TypeOK'
  <2>1. cache' \in [Keys -> SUBSET Contents] /\ excused' \subseteq Keys
    BY <1>7, DropType DEF Expire
  <2> QED BY <1>7, <2>1 DEF Expire, TypeOK, requestVars
<1>8. CASE Restart
  <2>1. excused' \subseteq Keys
    BY <1>8 DEF Restart, TypeOK
  <2> QED BY <1>0, <1>8, <2>1 DEF Restart, TypeOK, Fault
<1>9. CASE UNCHANGED vars
  BY <1>9 DEF vars, requestVars, TypeOK
<1> QED BY <1>1, <1>2, <1>3, <1>4, <1>5, <1>6, <1>7, <1>8, <1>9 DEF Next, Handle

-----------------------------------------------------------------------------
(* Staleness.                                                              *)

(* A key shows what it did unless a row it names is written.               *)
LEMMA ContentKept ==
  ASSUME NEW k \in Keys, \A u \in Users : Names(k, u) => version'[u] = version[u]
  PROVE  Content(k)' = Content(k)
  BY DEF Content, Names

LEMMA WriteContent ==
  ASSUME TypeOK, NEW u \in Users, NEW X \in SUBSET Keys, Write(u, X), NEW k \in Keys
  PROVE  /\ k \in X => k \in excused'
         /\ Names(k, u) /\ Filling(k) => k \in excused'
         /\ ~Names(k, u) => Content(k)' = Content(k)
         /\ k \in excused => k \in excused'
<1>1. ASSUME ~Names(k, u) PROVE Content(k)' = Content(k)
  <2>1. \A x \in Users : Names(k, x) => version'[x] = version[x]
    BY <1>1 DEF Write, TypeOK
  <2> QED BY <2>1, ContentKept
<1> QED BY <1>1 DEF Write

(* The invariant but for its types.                                        *)
Explained == FillsAreExcused /\ StaleIsExcused

(* A write and the request it comes from.                                  *)
LEMMA WrittenExplained ==
  ASSUME IInv, NEW c \in Clients, NEW u \in Users, NEW K \in SUBSET Keys,
         NEW X \in SUBSET Keys, \A k \in Keys : Names(k, u) => k \in K \cup X,
         phase[c] = "idle", Written(c, u, K, X), UNCHANGED cache
  PROVE  Explained'
<1>0. TypeOK /\ FillsAreExcused /\ StaleIsExcused
  BY DEF IInv
<1>1. PICK Y \in SUBSET Keys :
        /\ Write(u, Y)
        /\ \/ Y = X /\ Goto(c, "invalidate", K, {})
           \/ (\A k \in Keys : Names(k, u) => k \in Y) /\ UNCHANGED requestVars
  <2>1. CASE Write(u, X) /\ Goto(c, "invalidate", K, {})
    BY <2>1
  <2>2. CASE Write(u, {u, Home[u]}) /\ UNCHANGED requestVars
    BY <2>2, HomeKey DEF Names
  <2> QED BY <2>1, <2>2 DEF Written
<1>2. ASSUME NEW d \in Clients, NEW k \in Keys, phase[d] = "invalidate", k \in target[d]
      PROVE  phase'[d] = "invalidate" /\ k \in target'[d]
  BY <1>0, <1>1, <1>2 DEF Goto, TypeOK, requestVars
<1>3. ASSUME NEW k \in Keys, Names(k, u), k \notin Y PROVE Pending(k)'
  <2>1. k \in K /\ Goto(c, "invalidate", K, {})
    BY <1>1, <1>3
  <2> QED BY <1>0, <2>1 DEF Goto, TypeOK, Pending
<1>4. ASSUME NEW k \in Keys PROVE Fresh(k)' \/ Pending(k)' \/ k \in excused'
  <2>1. CASE Names(k, u)
    BY <1>0, <1>1, <1>3, <2>1, WriteContent
  <2>2. CASE ~Names(k, u)
    <3>1. Content(k)' = Content(k) /\ (k \in excused => k \in excused')
      BY <1>0, <1>1, <2>2, WriteContent
    <3>2. Fresh(k) => Fresh(k)'
      BY <3>1 DEF Fresh
    <3>3. Pending(k) => Pending(k)'
      BY <1>2 DEF Pending
    <3> QED BY <1>0, <3>1, <3>2, <3>3 DEF StaleIsExcused
  <2> QED BY <2>1, <2>2
<1>5. StaleIsExcused'
  BY <1>4 DEF StaleIsExcused, Keys
<1>6. ASSUME NEW d \in Clients, NEW k \in target'[d], phase'[d] = "fill"
      PROVE  fetched'[d] = Content(k)' \/ k \in excused'
  <2>1. /\ k \in target[d] /\ phase[d] = "fill" /\ fetched'[d] = fetched[d]
        /\ k \in Keys
    BY <1>0, <1>1, <1>6 DEF Goto, TypeOK, requestVars
  <2>2. Filling(k)
    BY <2>1 DEF Filling
  <2> QED BY <1>0, <1>1, <2>1, <2>2, WriteContent DEF FillsAreExcused
<1>7. FillsAreExcused'
  BY <1>6 DEF FillsAreExcused
<1> QED BY <1>5, <1>7 DEF Explained

(* Requests that write nothing to MySQL, and lift no excuse: key by key.   *)
LEMMA NoWriteExplained ==
  ASSUME IInv, version' = version, excused \subseteq excused',
         \A k \in Keys : Fresh(k) => Fresh(k)' \/ k \in excused',
         \A k \in Keys : Pending(k) => Pending(k)' \/ Fresh(k)' \/ k \in excused',
         \A d \in Clients : \A k \in target'[d] :
             phase'[d] = "fill" => \/ fetched'[d] = Content(k)
                                   \/ phase[d] = "fill" /\ k \in target[d] /\ fetched'[d] = fetched[d]
  PROVE  Explained'
<1>0. TypeOK /\ FillsAreExcused /\ StaleIsExcused
  BY DEF IInv
<1>1. \A k \in Keys : Content(k)' = Content(k)
  BY ContentKept
<1>2. \A k \in Keys : Fresh(k)' \/ Pending(k)' \/ k \in excused'
  BY <1>0 DEF StaleIsExcused
<1>3. StaleIsExcused'
  BY <1>2 DEF StaleIsExcused, Keys
<1>4. FillsAreExcused'
  BY <1>0 DEF FillsAreExcused, Content, Names
<1> QED BY <1>3, <1>4 DEF Explained

(* Keys are deleted: what they excuse ends, unless somebody fills them.    *)
LEMMA DropExplained ==
  ASSUME IInv, NEW K \in SUBSET Keys, Drop(K), version' = version,
         \A k \in Keys \ K : Pending(k) => Pending(k)',
         \A d \in Clients : phase'[d] = "fill" =>
             phase[d] = "fill" /\ target'[d] = target[d] /\ fetched'[d] = fetched[d]
  PROVE  Explained'
<1>0. TypeOK /\ FillsAreExcused /\ StaleIsExcused
  BY DEF IInv
<1>1. \A k \in Keys : Content(k)' = Content(k)
  BY ContentKept
<1>2. ASSUME NEW k \in Keys PROVE Fresh(k)' \/ Pending(k)' \/ k \in excused'
  <2>1. CASE k \in K
    BY <2>1 DEF Drop, Fresh
  <2>2. CASE k \notin K
    <3>1. cache'[k] = cache[k] /\ (k \in excused => k \in excused')
      BY <2>2 DEF Drop
    <3>2. Fresh(k) => Fresh(k)'
      BY <1>1, <3>1 DEF Fresh
    <3> QED BY <1>0, <2>2, <3>1, <3>2 DEF StaleIsExcused
  <2> QED BY <2>1, <2>2
<1>3. StaleIsExcused'
  BY <1>2 DEF StaleIsExcused, Keys
<1>4. ASSUME NEW d \in Clients, NEW k \in target'[d], phase'[d] = "fill"
      PROVE  fetched'[d] = Content(k)' \/ k \in excused'
  <2>1. phase[d] = "fill" /\ k \in target[d] /\ k \in Keys /\ fetched'[d] = fetched[d]
    BY <1>0, <1>4 DEF TypeOK
  <2>2. k \in excused => k \in excused'
    BY <2>1 DEF Drop, Filling
  <2> QED BY <1>0, <1>1, <2>1, <2>2 DEF FillsAreExcused
<1>5. FillsAreExcused'
  BY <1>4 DEF FillsAreExcused
<1> QED BY <1>3, <1>5 DEF Explained

(* What a request does to itself leaves the others alone.                  *)
LEMMA GotoOthers ==
  ASSUME TypeOK, NEW c \in Clients, NEW p, NEW K, NEW rows, Goto(c, p, K, rows)
  PROVE  /\ phase'[c] = p /\ target'[c] = K /\ fetched'[c] = rows
         /\ \A d \in Clients \ {c} :
               phase'[d] = phase[d] /\ target'[d] = target[d] /\ fetched'[d] = fetched[d]
  BY DEF Goto, TypeOK

LEMMA StepExplained == IInv /\ [Next]_vars => Explained'
<1> SUFFICES ASSUME IInv, [Next]_vars PROVE Explained'
  OBVIOUS
<1>0. TypeOK /\ FillsAreExcused /\ StaleIsExcused
  BY DEF IInv
<1>1. ASSUME NEW c \in Clients, NEW k \in Keys, Miss(c, k) PROVE Explained'
  <2>1. /\ phase[c] = "idle" /\ Goto(c, "query", {k}, {})
        /\ UNCHANGED <<version, cache, excused>>
    BY <1>1 DEF Miss
  <2>2. \A j \in Keys : (Fresh(j) => Fresh(j)') /\ (Pending(j) => Pending(j)')
    BY <1>0, <2>1, GotoOthers, ContentKept DEF Fresh, Pending
  <2>3. \A d \in Clients : phase'[d] = "fill" =>
            phase[d] = "fill" /\ target'[d] = target[d] /\ fetched'[d] = fetched[d]
    BY <1>0, <2>1, GotoOthers
  <2> QED BY <2>1, <2>2, <2>3, NoWriteExplained
<1>2. ASSUME NEW c \in Clients, Query(c) PROVE Explained'
  <2>1. phase[c] = "query" /\ UNCHANGED <<version, cache, excused>>
    BY <1>2 DEF Query
  <2>2. PICK p \in {"fill", "idle"}, K \in SUBSET Keys, rows \in Contents :
          /\ Goto(c, p, K, rows)
          /\ p = "fill" => \A k \in K : rows = Content(k)
    <3>1. target[c] \subseteq Keys /\ {} \in SUBSET Keys /\ {} \in Contents
      BY <1>0 DEF TypeOK, Contents
    <3>2. PICK k \in target[c] :
             Goto(c, "fill", {k}, Content(k)) \/ Goto(c, "idle", {}, {})
      BY <1>2 DEF Query, Respond
    <3>3. Content(k) \in Contents /\ {k} \in SUBSET Keys
      BY <1>0, <3>1, ContentType
    <3> QED BY <3>1, <3>2, <3>3
  <2>3. \A j \in Keys : (Fresh(j) => Fresh(j)') /\ (Pending(j) => Pending(j)')
    BY <1>0, <2>1, <2>2, GotoOthers, ContentKept DEF Fresh, Pending
  <2>4. ASSUME NEW d \in Clients, NEW k \in target'[d], phase'[d] = "fill"
        PROVE  \/ fetched'[d] = Content(k)
               \/ phase[d] = "fill" /\ k \in target[d] /\ fetched'[d] = fetched[d]
    <3>1. CASE d = c
      BY <1>0, <2>2, <2>4, <3>1, GotoOthers
    <3>2. CASE d # c
      BY <1>0, <2>2, <2>4, <3>2, GotoOthers
    <3> QED BY <3>1, <3>2
  <2> QED BY <2>1, <2>3, <2>4, NoWriteExplained
<1>3. ASSUME NEW c \in Clients, Fill(c) PROVE Explained'
  <2>1. phase[c] = "fill" /\ Goto(c, "idle", {}, {}) /\ UNCHANGED <<version, excused>>
    BY <1>3 DEF Fill, Respond
  <2>2. ASSUME NEW j \in Keys, Fresh(j) PROVE Fresh(j)' \/ j \in excused'
    <3>1. Content(j)' = Content(j)
      BY <2>1, ContentKept
    <3>2. CASE cache'[j] = cache[j]
      BY <2>2, <3>1, <3>2 DEF Fresh
    <3>3. CASE cache'[j] # cache[j]
      <4>1. PICK k \in target[c] : cache' = [cache EXCEPT ![k] = {fetched[c]}]
        BY <1>3, <3>3 DEF Fill
      <4>2. k = j /\ cache'[j] = {fetched[c]}
        BY <1>0, <3>3, <4>1 DEF TypeOK
      <4> QED BY <1>0, <2>1, <3>1, <4>2 DEF FillsAreExcused, Fresh
    <3> QED BY <3>2, <3>3
  <2>3. \A j \in Keys : Pending(j) => Pending(j)'
    BY <1>0, <2>1, GotoOthers DEF Pending
  <2>4. \A d \in Clients : phase'[d] = "fill" =>
            phase[d] = "fill" /\ target'[d] = target[d] /\ fetched'[d] = fetched[d]
    BY <1>0, <2>1, GotoOthers
  <2> QED BY <2>1, <2>2, <2>3, <2>4, NoWriteExplained
<1>4. ASSUME NEW c \in Clients, Invalidate(c) PROVE Explained'
  <2>1. /\ phase[c] = "invalidate" /\ Goto(c, "idle", {}, {}) /\ version' = version
        /\ target[c] \in SUBSET Keys
    BY <1>0, <1>4 DEF Invalidate, Respond, TypeOK
  <2>2. \A d \in Clients : phase'[d] = "fill" =>
            phase[d] = "fill" /\ target'[d] = target[d] /\ fetched'[d] = fetched[d]
    BY <1>0, <2>1, GotoOthers
  <2>3. \A k \in Keys \ target[c] : Pending(k) => Pending(k)'
    BY <1>0, <2>1, GotoOthers DEF Pending
  <2>4. CASE Drop(target[c])
    BY <2>1, <2>2, <2>3, <2>4, DropExplained
  <2>5. CASE UNCHANGED cache /\ excused' = excused \cup target[c]
    <3>1. \A k \in Keys : Fresh(k) => Fresh(k)'
      BY <2>1, <2>5, ContentKept DEF Fresh
    <3> QED BY <2>1, <2>2, <2>3, <2>5, <3>1, NoWriteExplained
  <2> QED BY <1>4, <2>4, <2>5 DEF Invalidate
<1>5. ASSUME NEW c \in Clients, NEW u \in Users, Create(c, u) PROVE Explained'
  <2>1. {u, Home[u]} \in SUBSET Keys /\ {} \in SUBSET Keys
    BY HomeKey
  <2>2. \A k \in Keys : Names(k, u) => k \in {u, Home[u]}
    BY DEF Names
  <2> QED BY <1>5, <2>1, <2>2, WrittenExplained DEF Create, CreatedKeys
<1>6. ASSUME NEW c \in Clients, NEW u \in Users, Update(c, u) PROVE Explained'
  <2>1. PICK T \in BodyTenants :
          \/ Written(c, u, {u} \cup T, {Home[u]} \ T)
          \/ /\ Goto(c, "invalidate", {u} \cup T, {})
             /\ UNCHANGED <<version, writes, excused, faults>>
    BY <1>6 DEF Update
  <2>2. /\ {u} \cup T \in SUBSET Keys /\ {Home[u]} \ T \in SUBSET Keys
        /\ phase[c] = "idle" /\ UNCHANGED cache
    BY <1>6, HomeKey DEF BodyTenants, Keys, Update
  <2>3. CASE Written(c, u, {u} \cup T, {Home[u]} \ T)
    <3>1. \A k \in Keys : Names(k, u) => k \in ({u} \cup T) \cup ({Home[u]} \ T)
      BY DEF Names
    <3> QED BY <2>2, <2>3, <3>1, WrittenExplained
  <2>4. CASE /\ Goto(c, "invalidate", {u} \cup T, {})
             /\ UNCHANGED <<version, writes, excused, faults>>
    <3>1. \A j \in Keys : (Fresh(j) => Fresh(j)') /\ (Pending(j) => Pending(j)')
      BY <1>0, <2>2, <2>4, GotoOthers, ContentKept DEF Fresh, Pending
    <3>2. \A d \in Clients : phase'[d] = "fill" =>
              phase[d] = "fill" /\ target'[d] = target[d] /\ fetched'[d] = fetched[d]
      BY <1>0, <2>4, GotoOthers
    <3> QED BY <2>4, <3>1, <3>2, NoWriteExplained
  <2> QED BY <2>1, <2>3, <2>4
<1>7. ASSUME NEW k \in Keys, Expire(k) PROVE Explained'
  <2>1. Drop({k}) /\ UNCHANGED <<version, phase, target, fetched>> /\ {k} \in SUBSET Keys
    BY <1>7 DEF Expire, requestVars
  <2> QED BY <2>1, DropExplained DEF Pending
<1>8. CASE Restart
  <2>1. /\ UNCHANGED <<version, cache>> /\ excused \subseteq excused'
        /\ \A d \in Clients : phase'[d] = "idle"
        /\ \A k \in Keys : Pending(k) => k \in excused'
    BY <1>8 DEF Restart, Pending
  <2>2. \A k \in Keys : Fresh(k) => Fresh(k)'
    BY <2>1, ContentKept DEF Fresh
  <2> QED BY <2>1, <2>2, NoWriteExplained
<1>9. CASE UNCHANGED vars
  <2>1. \A j \in Keys : (Fresh(j) => Fresh(j)') /\ (Pending(j) => Pending(j)')
    BY <1>9, ContentKept DEF vars, requestVars, Fresh, Pending
  <2> QED BY <1>9, <2>1, NoWriteExplained DEF vars, requestVars
<1> QED BY <1>1, <1>2, <1>3, <1>4, <1>5, <1>6, <1>7, <1>8, <1>9 DEF Next, Handle

LEMMA InitIInv == Init => IInv
<1> SUFFICES ASSUME Init PROVE IInv
  OBVIOUS
<1>1. \A k \in Keys : Fresh(k)
  BY DEF Init, Fresh
<1> QED BY <1>1, InitTypeOK DEF Init, IInv, FillsAreExcused, StaleIsExcused

LEMMA StepIInv == IInv /\ [Next]_vars => IInv'
  BY StepTypeOK, StepExplained DEF IInv, Explained

LEMMA InvariantHolds == Spec => []IInv
  BY InitIInv, StepIInv, PTL DEF Spec

-----------------------------------------------------------------------------
(* Keys hold contents, requests hold keys.                                 *)
THEOREM TypeCorrect == Spec => []TypeOK
<1>1. IInv => TypeOK
  BY DEF IInv
<1> QED BY <1>1, InvariantHolds, PTL

(* Cached data is stale only for one of the reasons the server cannot or   *)
(* does not exclude: a reader between SELECT and SET, an update that does  *)
(* not name its tenant, a lost answer or deletion.                         *)
THEOREM StalenessExplained == Spec => []StaleIsExcused
<1>1. IInv => StaleIsExcused
  BY DEF IInv
<1> QED BY <1>1, InvariantHolds, PTL
=============================================================================
