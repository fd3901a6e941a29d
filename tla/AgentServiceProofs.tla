------------------------- MODULE AgentServiceProofs -------------------------
(***************************************************************************)
(* Machine-checked theorems about the agent's service: the verifier it     *)
(* decides with (Verifier), for any number of phones, sessions and         *)
(* requests, any clock and any capacity of the replay guard; authorize()   *)
(* around it (AgentService), for any number of clients, calls, phones and  *)
(* sessions; and the local endpoint in front of it (LocalApi), for any     *)
(* number of connections and requests and any size of its table.  Those    *)
(* about authorize() rest on the mutex: who holds it is the only one       *)
(* between Connect and Conclude, and what it checked or issued in one step *)
(* is still so in the next.                                                *)
(***************************************************************************)
EXTENDS AgentService, LocalApi, SequenceTheorems, FiniteSetTheorems, TLAPS

(***************************************************************************)
(* Lemmas about the pure operators.                                        *)
(***************************************************************************)

(* What insert() leaves in memory is again a map of paired devices. *)
LEMMA InsertedType ==
    ASSUME NEW devs \in DeviceMap, NEW d \in DeviceIds,
           NEW creds \in SUBSET PairedCredential
    PROVE  Inserted(devs, d, creds) \in DeviceMap
  BY DEF Inserted, DeviceMap

LEMMA RemovedType ==
    ASSUME NEW devs \in DeviceMap, NEW d \in DeviceIds
    PROVE  Removed(devs, d) \in DeviceMap
  BY DEF Removed, DeviceMap

(* Replacing one credential's permissions yields credentials again. *)
LEMMA EditedType ==
    ASSUME NEW devs \in DeviceMap, NEW d \in DeviceIds, NEW cid,
           NEW perms \in SUBSET Permissions
    PROVE  Edited(devs[d], cid, perms) \in SUBSET PairedCredential
  <1>1. ASSUME NEW c \in devs[d]
        PROVE  /\ c \in PairedCredential
               /\ [c EXCEPT !.permissions = perms] \in PairedCredential
    <2>1. c \in PairedCredential
      BY DEF DeviceMap
    <2>. QED
      BY <2>1 DEF PairedCredential
  <1>. QED
    BY <1>1 DEF Edited

(* The replay guard keeps its ids in a sequence of request ids. *)
LEMMA ConsumeType ==
    ASSUME seen \subseteq RequestIds, order \in Seq(RequestIds),
           NEW id \in RequestIds, Consume(id)
    PROVE  /\ seen' \subseteq RequestIds
           /\ order' \in Seq(RequestIds)
  <1>1. /\ Append(order, id) \in Seq(RequestIds)
        /\ Append(order, id) # << >>
    OBVIOUS
  <1>2. Tail(Append(order, id)) \in Seq(RequestIds)
    BY <1>1
  <1>. QED
    BY <1>1, <1>2 DEF Consume

(***************************************************************************)
(* Type correctness.                                                       *)
(***************************************************************************)

LEMMA InitType == Init => TypeOK
  BY StoredAssumption DEF Init, TypeOK

(* Judging an answer keeps the guard and the histories typed. *)
LEMMA JudgeType ==
    ASSUME TypeOK, NEW r \in pending, NEW f \in Frame, NEW s \in Sessions,
           Judge(r, f, s)
    PROVE  /\ seen' \subseteq RequestIds /\ order' \in Seq(RequestIds)
           /\ judged' \in Seq(RequestIds) /\ grants' \subseteq Grant
  <1>1. r \in Request /\ r.request_id \in RequestIds
    BY DEF TypeOK, Request
  <1>2. seen' \subseteq RequestIds /\ order' \in Seq(RequestIds)
    BY <1>1, ConsumeType DEF Judge, TypeOK
  <1>3. judged' \in Seq(RequestIds)
    BY <1>1 DEF Judge, TypeOK
  <1>4. grants' \subseteq Grant
    <2>1. ASSUME NEW d \in DeviceIds, NEW c \in devices[d]
          PROVE  [request |-> r, session |-> s, device |-> d,
                  key |-> c.public_key, kind |-> c.key_kind, at |-> now] \in Grant
      <3>1. c \in PairedCredential
        BY DEF TypeOK, DeviceMap
      <3>2. c.public_key \in Keys /\ c.key_kind \in KeyKind
        BY <3>1 DEF PairedCredential
      <3>. QED
        BY <3>2, <1>1 DEF Grant, TypeOK
    <2>. QED
      BY <2>1 DEF Judge, TypeOK
  <1>. QED
    BY <1>2, <1>3, <1>4

LEMMA NextType == TypeOK /\ [Next]_vars => TypeOK'
  <1>. SUFFICES ASSUME TypeOK, [Next]_vars PROVE TypeOK'
    OBVIOUS
  <1>1. ASSUME NEW id \in RequestIds, NEW cid \in CredentialIds, NEW f \in Fields,
               NEW v \in Validities, NEW s \in Sessions, Issue(id, cid, f, v, s)
        PROVE  TypeOK'
    <2>1. now \in Int /\ clamp(v) \in Int
      BY ClockAssumption DEF TypeOK, clamp
    <2>2. [request_id |-> id, credential_id |-> cid, fields |-> f, issued_at |-> now,
           expires_at |-> now + clamp(v), session |-> s] \in Request
      BY <2>1 DEF Request
    <2>. QED
      BY <1>1, <2>2 DEF Issue, TypeOK
  <1>2. ASSUME NEW r \in pending, NEW f \in Frame, NEW s \in Sessions, Accept(r, f, s)
        PROVE  TypeOK'
    <2>1. CASE Judge(r, f, s)
      BY <1>2, <2>1, JudgeType DEF Accept, TypeOK
    <2>2. CASE UNCHANGED <<seen, order, judged, grants>>
      BY <1>2, <2>2 DEF Accept, TypeOK
    <2>. QED
      BY <1>2, <2>1, <2>2 DEF Accept
  <1>3. ASSUME NEW e \in Enrolments, Pair(e[1], e[2]) PROVE TypeOK'
    <2>1. e[1] \in DeviceIds /\ {e[2]} \in SUBSET PairedCredential
      BY EnrolmentAssumption
    <2>2. devices' \in DeviceMap
      BY <1>3, <2>1, InsertedType DEF Pair, TypeOK
    <2>. QED
      BY <1>3, <2>2 DEF Pair, TypeOK
  <1>4. ASSUME NEW d \in DeviceIds, Forget(d) PROVE TypeOK'
    BY <1>4, RemovedType DEF Forget, TypeOK
  <1>5. ASSUME NEW d \in DeviceIds, NEW cid \in CredentialIds,
               NEW perms \in SUBSET Permissions, SetPermissions(d, cid, perms)
        PROVE  TypeOK'
    <2>1. devices' \in DeviceMap
      BY <1>5, EditedType, InsertedType DEF SetPermissions, TypeOK
    <2>. QED
      BY <1>5, <2>1 DEF SetPermissions, TypeOK
  <1>6. ASSUME NEW key \in Keys, NEW r \in pending, NEW s \in Sessions, NEW f \in Fields,
               Sign(key, Shown(r, s, f))
        PROVE  TypeOK'
    <2>1. r \in Request
      BY DEF TypeOK
    <2>2. Shown(r, s, f) \in Request
      BY <2>1 DEF Request, Shown
    <2>. QED
      BY <1>6, <2>2 DEF Sign, TypeOK, Signature
  <1>7. ASSUME ClockMoves PROVE TypeOK'
    BY <1>7 DEF ClockMoves, TypeOK
  <1>8. ASSUME UNCHANGED vars PROVE TypeOK'
    BY <1>8 DEF vars, TypeOK
  <1>. QED
    BY <1>1, <1>2, <1>3, <1>4, <1>5, <1>6, <1>7, <1>8 DEF Next

(* Every state the verifier reaches is well typed. *)
THEOREM TypeCorrect == Spec => []TypeOK
  BY InitType, NextType, PTL DEF Spec

(***************************************************************************)
(* A credential id names one record.  Inductive together with TypeOK.      *)
(***************************************************************************)

(* insert() keeps ids unique when it is given credentials with distinct    *)
(* ids and its conflict check found nothing.                               *)
LEMMA InsertedUnique ==
    ASSUME TypeOK, UniqueCredentials, NEW d \in DeviceIds,
           NEW creds \in SUBSET PairedCredential,
           \A a, b \in creds : a.credential_id = b.credential_id => a = b,
           ~Conflicts(devices, d, creds),
           devices' = Inserted(devices, d, creds)
    PROVE  UniqueCredentials'
  <1>1. ASSUME NEW x \in DeviceIds, NEW c \in devices'[x]
        PROVE  \/ x = d /\ c \in creds
               \/ /\ c \in devices[x]
                  /\ x = d => c.credential_id \notin Ids(creds)
    BY DEF Inserted, TypeOK, DeviceMap
  <1>2. ASSUME NEW x \in DeviceIds, NEW c \in devices[x], NEW a \in creds,
               c.credential_id = a.credential_id
        PROVE  x = d
    BY <1>2 DEF Conflicts
  <1>3. \A a \in creds : a.credential_id \in Ids(creds)
    BY DEF Ids
  <1>4. SUFFICES ASSUME NEW x \in DeviceIds, NEW y \in DeviceIds,
                        NEW c \in devices'[x], NEW e \in devices'[y],
                        c.credential_id = e.credential_id
                 PROVE  x = y /\ c = e
    BY DEF UniqueCredentials, Unique
  <1>5. CASE x = d /\ c \in creds
    BY <1>5, <1>1, <1>2, <1>3, <1>4
  <1>6. CASE y = d /\ e \in creds
    BY <1>6, <1>1, <1>2, <1>3, <1>4
  <1>7. CASE c \in devices[x] /\ e \in devices[y]
    BY <1>7, <1>4 DEF UniqueCredentials, Unique
  <1>. QED
    BY <1>1, <1>5, <1>6, <1>7

LEMMA NextUnique == TypeOK /\ UniqueCredentials /\ [Next]_vars => UniqueCredentials'
  <1>. SUFFICES ASSUME TypeOK, UniqueCredentials, [Next]_vars PROVE UniqueCredentials'
    OBVIOUS
  <1>1. ASSUME UNCHANGED devices PROVE UniqueCredentials'
    BY <1>1 DEF UniqueCredentials, Unique
  <1>2. ASSUME NEW e \in Enrolments, Pair(e[1], e[2]) PROVE UniqueCredentials'
    <2>1. e[1] \in DeviceIds /\ {e[2]} \in SUBSET PairedCredential
      BY EnrolmentAssumption
    <2>. QED
      BY <1>2, <2>1, InsertedUnique DEF Pair
  <1>3. ASSUME NEW d \in DeviceIds, Forget(d) PROVE UniqueCredentials'
    <2>1. \A x \in DeviceIds : devices'[x] \subseteq devices[x]
      BY <1>3 DEF Forget, Removed, TypeOK, DeviceMap
    <2>. QED
      BY <2>1 DEF UniqueCredentials, Unique
  <1>4. ASSUME NEW d \in DeviceIds, NEW cid \in CredentialIds,
               NEW perms \in SUBSET Permissions, SetPermissions(d, cid, perms)
        PROVE  UniqueCredentials'
    <2>. DEFINE E == Edited(devices[d], cid, perms)
    <2>1. E \in SUBSET PairedCredential
      BY EditedType DEF TypeOK
    <2>2. ASSUME NEW a \in E
          PROVE  \E c \in devices[d] : /\ a.credential_id = c.credential_id
                                       /\ a = IF c.credential_id = cid
                                              THEN [c EXCEPT !.permissions = perms] ELSE c
      <3>1. PICK c \in devices[d] : a = IF c.credential_id = cid
                                        THEN [c EXCEPT !.permissions = perms] ELSE c
        BY <2>2 DEF Edited
      <3>2. c \in PairedCredential
        BY DEF TypeOK, DeviceMap
      <3>3. a.credential_id = c.credential_id
        BY <3>1, <3>2 DEF PairedCredential
      <3>. QED
        BY <3>1, <3>3
    <2>3. \A a, b \in E : a.credential_id = b.credential_id => a = b
      <3>. SUFFICES ASSUME NEW a \in E, NEW b \in E, a.credential_id = b.credential_id
                    PROVE  a = b
        OBVIOUS
      <3>1. PICK c \in devices[d] : /\ a.credential_id = c.credential_id
                                    /\ a = IF c.credential_id = cid
                                           THEN [c EXCEPT !.permissions = perms] ELSE c
        BY <2>2
      <3>2. PICK e \in devices[d] : /\ b.credential_id = e.credential_id
                                    /\ b = IF e.credential_id = cid
                                           THEN [e EXCEPT !.permissions = perms] ELSE e
        BY <2>2
      <3>3. c = e
        BY <3>1, <3>2 DEF UniqueCredentials, Unique
      <3>. QED
        BY <3>1, <3>2, <3>3
    <2>. QED
      BY <1>4, <2>1, <2>3, InsertedUnique DEF SetPermissions
  <1>. QED
    BY <1>1, <1>2, <1>3, <1>4 DEF Next, Issue, Accept, Sign, ClockMoves, vars

(* No sequence of pairings, permission edits and removals leaves a         *)
(* credential id on two phones, or twice on one: find_credential, which    *)
(* takes the first match, has only one to take.                            *)
THEOREM CredentialsAreUnique == Spec => []UniqueCredentials
  <1>1. Init => UniqueCredentials
    BY StoredAssumption DEF Init, UniqueCredentials
  <1>. QED
    BY <1>1, NextUnique, TypeCorrect, PTL DEF Spec

(***************************************************************************)
(* The replay guard.  SpentOnce is not inductive: it needs to know that    *)
(* the guard remembers exactly the latest Capacity judged ids, in the      *)
(* order they were judged.                                                 *)
(***************************************************************************)

(* The guard's queue is the tail of the history of judged answers, and     *)
(* seen is the set of its elements.                                        *)
GuardIsRecentHistory ==
    /\ Len(order) <= Capacity
    /\ Len(order) <= Len(judged)
    /\ Len(order) = Capacity \/ Len(order) = Len(judged)
    /\ \A k \in 1 .. Len(order) : order[k] = judged[Len(judged) - Len(order) + k]
    /\ seen = {order[k] : k \in 1 .. Len(order)}

ReplayInv == TypeOK /\ GuardIsRecentHistory /\ SpentOnce

(* Spending an id that is not in seen keeps the queue a suffix of the      *)
(* history.                                                                *)
LEMMA ConsumeKeepsWindow ==
    ASSUME ReplayInv, NEW id \in RequestIds, id \notin seen, Consume(id),
           judged' = Append(judged, id)
    PROVE  GuardIsRecentHistory'
  <1>. DEFINE L == Append(order, id)
  <1>1. /\ order \in Seq(RequestIds) /\ judged \in Seq(RequestIds)
        /\ Len(order) \in Nat /\ Len(judged) \in Nat /\ Capacity \in Nat \ {0}
    BY CapacityAssumption DEF ReplayInv, TypeOK
  <1>2. /\ Len(judged') = Len(judged) + 1
        /\ \A k \in 1 .. Len(judged) : judged'[k] = judged[k]
        /\ judged'[Len(judged) + 1] = id
    BY <1>1
  <1>3. /\ L \in Seq(RequestIds) /\ Len(L) = Len(order) + 1
        /\ \A k \in 1 .. Len(order) : L[k] = order[k]
        /\ L[Len(order) + 1] = id
    BY <1>1
  <1>a. L = Append(order, id)
    OBVIOUS
  <1>. HIDE DEF L
  <1>4. \A k \in 1 .. Len(L) : L[k] = judged'[Len(judged') - Len(L) + k]
    <2>0. Len(judged') - Len(L) = Len(judged) - Len(order)
      BY <1>1, <1>2, <1>3
    <2>. SUFFICES ASSUME NEW k \in 1 .. Len(L)
                  PROVE  L[k] = judged'[Len(judged) - Len(order) + k]
      BY <2>0
    <2>3. k = Len(order) + 1 \/ k \in 1 .. Len(order)
      BY <1>1, <1>3
    <2>1. CASE k = Len(order) + 1
      BY <2>1, <1>1, <1>2, <1>3
    <2>2. CASE k \in 1 .. Len(order)
      <3>1. Len(judged) - Len(order) + k \in 1 .. Len(judged)
        BY <2>2, <1>1 DEF ReplayInv, GuardIsRecentHistory
      <3>2. order[k] = judged[Len(judged) - Len(order) + k]
        BY <2>2 DEF ReplayInv, GuardIsRecentHistory
      <3>. QED
        BY <3>1, <3>2, <2>2, <1>2, <1>3
    <2>. QED
      BY <2>1, <2>2, <2>3
  <1>5. seen \cup {id} = {L[k] : k \in 1 .. Len(L)}
    <2>1. seen = {order[k] : k \in 1 .. Len(order)}
      BY DEF ReplayInv, GuardIsRecentHistory
    <2>2. ASSUME NEW k \in 1 .. Len(order) PROVE k \in 1 .. Len(L) /\ L[k] = order[k]
      BY <1>1, <1>3
    <2>3. Len(L) \in 1 .. Len(L) /\ L[Len(L)] = id
      BY <1>1, <1>3
    <2>4. ASSUME NEW k \in 1 .. Len(L) PROVE L[k] \in seen \cup {id}
      <3>1. k = Len(order) + 1 \/ k \in 1 .. Len(order)
        BY <1>1, <1>3
      <3>. QED
        BY <3>1, <2>1, <2>2, <1>3
    <2>. QED
      BY <2>1, <2>2, <2>3, <2>4
  <1>6. CASE Len(L) <= Capacity
    <2>1. order' = L /\ seen' = seen \cup {id}
      BY <1>1, <1>3, <1>6, <1>a DEF Consume
    <2>2. /\ Len(order') <= Capacity /\ Len(order') <= Len(judged')
          /\ Len(order') = Len(judged')
      BY <2>1, <1>1, <1>2, <1>3, <1>6 DEF ReplayInv, GuardIsRecentHistory
    <2>. QED
      BY <2>1, <2>2, <1>4, <1>5 DEF GuardIsRecentHistory
  <1>7. CASE Len(L) > Capacity
    <2>1. order' = Tail(L) /\ seen' = (seen \cup {id}) \ {Head(L)}
      BY <1>1, <1>3, <1>7, <1>a DEF Consume
    <2>2. Len(order) = Capacity
      BY <1>1, <1>3, <1>7 DEF ReplayInv, GuardIsRecentHistory
    <2>3. /\ L # << >> /\ Head(L) = L[1]
          /\ Tail(L) \in Seq(RequestIds) /\ Len(Tail(L)) = Len(L) - 1
          /\ \A k \in 1 .. Len(L) - 1 : Tail(L)[k] = L[k + 1]
      BY <1>1, <1>3
    <2>4. \A i, j \in 1 .. Len(L) : i < j => L[i] # L[j]
      <3>. SUFFICES ASSUME NEW i \in 1 .. Len(L), NEW j \in 1 .. Len(L),
                           i < j, L[i] = L[j]
                    PROVE  FALSE
        OBVIOUS
      <3>1. CASE j = Len(order) + 1
        <4>1. i \in 1 .. Len(order) /\ L[i] = order[i] /\ L[j] = id
          BY <3>1, <1>1, <1>3
        <4>. QED
          BY <4>1 DEF ReplayInv, GuardIsRecentHistory
      <3>2. CASE j # Len(order) + 1
        <4>1. PICK off : off = Len(judged) - Len(order)
          OBVIOUS
        <4>2. off \in Int
          BY <4>1, <1>1
        <4>3. i \in 1 .. Len(order) /\ j \in 1 .. Len(order)
          BY <3>2, <1>1, <1>3
        <4>4. off + i \in 1 .. Len(judged) /\ off + j \in 1 .. Len(judged)
          BY <4>1, <4>3, <1>1 DEF ReplayInv, GuardIsRecentHistory
        <4>5. judged[off + i] = judged[off + j]
          BY <4>1, <4>3, <1>3 DEF ReplayInv, GuardIsRecentHistory
        <4>6. (off + j) - (off + i) > Capacity
          <5>1. off + i < off + j
            BY <4>2, <4>3
          <5>. QED
            BY <4>4, <4>5, <5>1 DEF ReplayInv, SpentOnce
        <4>7. j - i > Capacity
          BY <4>2, <4>3, <4>6
        <4>. QED
          BY <4>3, <4>7, <2>2, <1>1
      <3>. QED
        BY <3>1, <3>2
    <2>5. seen' = {order'[k] : k \in 1 .. Len(order')}
      <3>1. {order'[k] : k \in 1 .. Len(order')} = {L[k] : k \in 2 .. Len(L)}
        <4>1. ASSUME NEW k \in 2 .. Len(L) PROVE k - 1 \in 1 .. Len(order') /\ order'[k - 1] = L[k]
          BY <2>1, <2>3, <1>1, <1>3
        <4>2. ASSUME NEW k \in 1 .. Len(order') PROVE k + 1 \in 2 .. Len(L) /\ order'[k] = L[k + 1]
          BY <2>1, <2>3, <1>1, <1>3
        <4>3. ASSUME NEW x \in {L[k] : k \in 2 .. Len(L)}
              PROVE  x \in {order'[k] : k \in 1 .. Len(order')}
          BY <4>1
        <4>4. ASSUME NEW x \in {order'[k] : k \in 1 .. Len(order')}
              PROVE  x \in {L[k] : k \in 2 .. Len(L)}
          BY <4>2
        <4>. QED
          BY <4>3, <4>4
      <3>2. {L[k] : k \in 2 .. Len(L)} = {L[k] : k \in 1 .. Len(L)} \ {L[1]}
        BY <2>4, <1>1, <1>3
      <3>. QED
        BY <3>1, <3>2, <2>1, <2>3, <1>5
    <2>6. \A k \in 1 .. Len(order') : order'[k] = judged'[Len(judged') - Len(order') + k]
      <3>. SUFFICES ASSUME NEW k \in 1 .. Len(order')
                    PROVE  order'[k] = judged'[Len(judged') - Len(order') + k]
        OBVIOUS
      <3>1. Len(order') = Len(L) - 1 /\ Len(L) \in Nat /\ Len(judged') \in Nat
        BY <2>1, <2>3, <1>1, <1>2, <1>3
      <3>2. k + 1 \in 1 .. Len(L) /\ k \in 1 .. Len(L) - 1
        BY <3>1
      <3>3. Len(judged') - Len(L) + (k + 1) = Len(judged') - Len(order') + k
        BY <3>1
      <3>4. order'[k] = L[k + 1]
        BY <3>2, <2>1, <2>3
      <3>5. L[k + 1] = judged'[Len(judged') - Len(L) + (k + 1)]
        BY <3>2, <1>4
      <3>. QED
        BY <3>3, <3>4, <3>5
    <2>7. /\ Len(order') = Capacity /\ Len(order') <= Len(judged')
      BY <2>1, <2>2, <2>3, <1>1, <1>2, <1>3 DEF ReplayInv, GuardIsRecentHistory
    <2>. QED
      BY <2>5, <2>6, <2>7, <1>1 DEF GuardIsRecentHistory
  <1>. QED
    BY <1>1, <1>3, <1>6, <1>7

(* Judging an id the guard does not remember repeats none of the latest    *)
(* Capacity ids.                                                           *)
LEMMA ConsumeSpendsOnce ==
    ASSUME ReplayInv, NEW id \in RequestIds, id \notin seen,
           judged' = Append(judged, id)
    PROVE  SpentOnce'
  <1>1. /\ judged \in Seq(RequestIds) /\ Len(order) \in Nat /\ Len(judged) \in Nat
        /\ Capacity \in Nat \ {0}
    BY CapacityAssumption DEF ReplayInv, TypeOK
  <1>2. /\ Len(judged') = Len(judged) + 1
        /\ \A k \in 1 .. Len(judged) : judged'[k] = judged[k]
        /\ judged'[Len(judged) + 1] = id
    BY <1>1
  <1>3. ASSUME NEW i \in 1 .. Len(judged), judged[i] = id
        PROVE  Len(judged) + 1 - i > Capacity
    <2>. DEFINE k == i - (Len(judged) - Len(order))
    <2>1. ASSUME k \in 1 .. Len(order) PROVE FALSE
      <3>1. k \in Int /\ Len(judged) - Len(order) + k = i
        BY <1>1
      <3>2. order[k] = judged[i]
        BY <2>1, <3>1 DEF ReplayInv, GuardIsRecentHistory
      <3>3. order[k] \in seen
        BY <2>1 DEF ReplayInv, GuardIsRecentHistory
      <3>. QED
        BY <3>2, <3>3, <1>3
    <2>. QED
      BY <2>1, <1>1, <1>3 DEF ReplayInv, GuardIsRecentHistory
  <1>4. SUFFICES ASSUME NEW i \in 1 .. Len(judged'), NEW j \in 1 .. Len(judged'),
                        i < j, judged'[i] = judged'[j]
                 PROVE  j - i > Capacity
    BY DEF SpentOnce
  <1>5. CASE j = Len(judged) + 1
    BY <1>1, <1>2, <1>3, <1>4, <1>5
  <1>6. CASE j # Len(judged) + 1
    <2>1. i \in 1 .. Len(judged) /\ j \in 1 .. Len(judged) /\ judged[i] = judged[j]
      BY <1>1, <1>2, <1>4, <1>6
    <2>. QED
      BY <2>1, <1>4 DEF ReplayInv, SpentOnce
  <1>. QED
    BY <1>5, <1>6

LEMMA NextReplay == ReplayInv /\ [Next]_vars => ReplayInv'
  <1>. SUFFICES ASSUME ReplayInv, [Next]_vars PROVE ReplayInv'
    OBVIOUS
  <1>1. TypeOK'
    BY NextType DEF ReplayInv
  <1>2. CASE UNCHANGED <<seen, order, judged>>
    BY <1>1, <1>2 DEF ReplayInv, GuardIsRecentHistory, SpentOnce
  <1>3. ASSUME NEW r \in pending, NEW f \in Frame, NEW s \in Sessions, Judge(r, f, s)
        PROVE  ReplayInv'
    <2>1. r.request_id \in RequestIds
      BY DEF ReplayInv, TypeOK, Request
    <2>2. GuardIsRecentHistory'
      BY <1>3, <2>1, ConsumeKeepsWindow DEF Judge
    <2>3. SpentOnce'
      BY <1>3, <2>1, ConsumeSpendsOnce DEF Judge
    <2>. QED
      BY <1>1, <2>2, <2>3 DEF ReplayInv
  <1>. QED
    BY <1>2, <1>3 DEF Next, Issue, Accept, Pair, Forget, SetPermissions, Sign, ClockMoves, vars

(* For every capacity of the guard and every interleaving of callers, an   *)
(* id that was judged once, even by an answer that failed, is judged again *)
(* only after more than Capacity judgements.                               *)
THEOREM RequestsAreSpentOnce == Spec => []SpentOnce
  <1>1. Init => ReplayInv
    BY InitType, CapacityAssumption DEF Init, ReplayInv, GuardIsRecentHistory, SpentOnce
  <1>2. ReplayInv => SpentOnce
    BY DEF ReplayInv
  <1>. QED
    BY <1>1, <1>2, NextReplay, PTL DEF Spec

(***************************************************************************)
(* Grants.                                                                 *)
(***************************************************************************)

(* A PendingAuthorization only comes from issue(). *)
PendingWasIssued == \A r \in pending : r.request_id \in issued

GrantInv == TypeOK /\ PendingWasIssued /\ GrantIsTheUsersAnswer

(* The grant accept() returns for r when it is judged good. *)
GrantOf(r, d, c) ==
    [request |-> r, session |-> r.session, device |-> d,
     key |-> c.public_key, kind |-> c.key_kind, at |-> now]

(* A frame that verifies carries a signature some phone made. *)
LEMMA VerifiedWasSigned ==
    ASSUME NEW f \in Frame, NEW key, NEW r, verify_authorization(key, r, f)
    PROVE  [key |-> key, payload |-> r] \in signatures
  <1>1. f.signature = [key |-> key, payload |-> r]
    BY DEF verify_authorization
  <1>2. f.signature \in signatures \cup {NoSignature}
    BY DEF Frame
  <1>3. [key |-> key, payload |-> r] # NoSignature
    <2>1. DOMAIN [key |-> key, payload |-> r] = {"key", "payload"}
      OBVIOUS
    <2>2. DOMAIN NoSignature = {"none"}
      BY DEF NoSignature
    <2>. QED
      BY <2>1, <2>2
  <1>. QED
    BY <1>1, <1>2, <1>3

(* Every grant a step adds is one that Granting justified in that step.    *)
LEMMA NewGrantsAreJudged ==
    ASSUME TypeOK, [Next]_vars, NEW g \in NewGrants
    PROVE  \E r \in pending, f \in Frame, d \in DeviceIds : \E c \in devices[d] :
              Answers(r, f, r.session) /\ Granting(r, f, d, c) /\ g = GrantOf(r, d, c)
  <1>1. ASSUME NEW r \in pending, NEW f \in Frame, NEW s \in Sessions, Accept(r, f, s)
        PROVE  \E d \in DeviceIds : \E c \in devices[d] :
                  Answers(r, f, r.session) /\ Granting(r, f, d, c) /\ g = GrantOf(r, d, c)
    <2>1. grants' # grants
      BY DEF NewGrants
    <2>2. Answers(r, f, s) /\ Judge(r, f, s)
      BY <1>1, <2>1 DEF Accept
    <2>3. s = r.session
      BY <2>2 DEF Answers
    <2>. QED
      BY <2>1, <2>2, <2>3 DEF Judge, NewGrants, GrantOf
  <1>2. grants' # grants
    BY DEF NewGrants
  <1>3. PICK r \in pending, f \in Frame, s \in Sessions : Accept(r, f, s)
    BY <1>2 DEF Next, Issue, Pair, Forget, SetPermissions, Sign, ClockMoves, vars
  <1>. QED
    BY <1>1, <1>3

LEMMA NextPendingIssued == PendingWasIssued /\ [Next]_vars => PendingWasIssued'
  <1>. SUFFICES ASSUME PendingWasIssued, [Next]_vars PROVE PendingWasIssued'
    OBVIOUS
  <1>1. ASSUME NEW id \in RequestIds, NEW cid \in CredentialIds, NEW f \in Fields,
               NEW v \in Validities, NEW s \in Sessions, Issue(id, cid, f, v, s)
        PROVE  PendingWasIssued'
    BY <1>1 DEF Issue, PendingWasIssued
  <1>2. ASSUME NEW r \in pending, NEW f \in Frame, NEW s \in Sessions, Accept(r, f, s)
        PROVE  PendingWasIssued'
    <2>1. pending' \subseteq pending /\ issued' = issued
      BY <1>2 DEF Accept
    <2>. QED
      BY <2>1 DEF PendingWasIssued
  <1>3. ASSUME UNCHANGED <<pending, issued>> PROVE PendingWasIssued'
    BY <1>3 DEF PendingWasIssued
  <1>. QED
    BY <1>1, <1>2, <1>3 DEF Next, Pair, Forget, SetPermissions, Sign, ClockMoves, vars

LEMMA NextGrants == GrantInv /\ [Next]_vars => GrantInv'
  <1>. SUFFICES ASSUME GrantInv, [Next]_vars PROVE GrantInv'
    OBVIOUS
  <1>1. TypeOK' /\ PendingWasIssued'
    BY NextType, NextPendingIssued DEF GrantInv
  <1>2. issued \subseteq issued' /\ signatures \subseteq signatures'
    BY DEF Next, Issue, Accept, Pair, Forget, SetPermissions, Sign, ClockMoves, vars
  <1>3. ASSUME NEW g \in grants'
        PROVE  /\ g.request.request_id \in issued
               /\ g.session = g.request.session
               /\ suitable_for_authorization(g.session)
               /\ [key |-> g.key, payload |-> g.request] \in signatures
    <2>1. CASE g \in grants
      BY <2>1 DEF GrantInv, GrantIsTheUsersAnswer
    <2>2. CASE g \in NewGrants
      <3>1. PICK r \in pending, f \in Frame, d \in DeviceIds : \E c \in devices[d] :
               Answers(r, f, r.session) /\ Granting(r, f, d, c) /\ g = GrantOf(r, d, c)
        BY <2>2, NewGrantsAreJudged DEF GrantInv
      <3>. PICK c \in devices[d] :
               Answers(r, f, r.session) /\ Granting(r, f, d, c) /\ g = GrantOf(r, d, c)
        BY <3>1
      <3>2. [key |-> c.public_key, payload |-> r] \in signatures
        BY VerifiedWasSigned DEF Granting
      <3>3. g.request = r /\ g.session = r.session /\ g.key = c.public_key
        BY DEF GrantOf
      <3>4. r.request_id \in issued /\ suitable_for_authorization(r.session)
        BY DEF Answers, GrantInv, PendingWasIssued
      <3>. QED
        BY <3>2, <3>3, <3>4
    <2>. QED
      BY <1>3, <2>1, <2>2 DEF NewGrants
  <1>. QED
    BY <1>1, <1>2, <1>3 DEF GrantInv, GrantIsTheUsersAnswer, suitable_for_authorization

(* A grant always rests on a signature the credential's key made over the  *)
(* request exactly as it was issued, and on the session it was issued for, *)
(* whatever other signatures and frames circulate.                         *)
THEOREM GrantsAreTheUsersAnswers == Spec => []GrantIsTheUsersAnswer
  <1>1. Init => GrantInv
    BY InitType DEF Init, GrantInv, PendingWasIssued, GrantIsTheUsersAnswer
  <1>2. GrantInv => GrantIsTheUsersAnswer
    BY DEF GrantInv
  <1>. QED
    BY <1>1, <1>2, NextGrants, PTL DEF Spec

(* Unpairing and narrowing hold against requests already in flight: a step *)
(* that grants finds the credential, with the key that signed and a        *)
(* permission that covers the request, in the store it starts from.        *)
THEOREM RevocationAlwaysHolds == Spec => RevocationHolds
  <1>1. ASSUME TypeOK, [Next]_vars
        PROVE  \A g \in NewGrants :
                  \E c \in devices[g.device] :
                     /\ c.credential_id = g.request.credential_id
                     /\ c.public_key = g.key
                     /\ permits(c.permissions, g.request.fields)
    <2>. SUFFICES ASSUME NEW g \in NewGrants
                  PROVE  \E c \in devices[g.device] :
                            /\ c.credential_id = g.request.credential_id
                            /\ c.public_key = g.key
                            /\ permits(c.permissions, g.request.fields)
      OBVIOUS
    <2>1. PICK r \in pending, f \in Frame, d \in DeviceIds : \E c \in devices[d] :
             Granting(r, f, d, c) /\ g = GrantOf(r, d, c)
      BY <1>1, NewGrantsAreJudged
    <2>. PICK c \in devices[d] : Granting(r, f, d, c) /\ g = GrantOf(r, d, c)
      BY <2>1
    <2>2. g.device = d /\ g.request = r /\ g.key = c.public_key
      BY DEF GrantOf
    <2>. QED
      BY <2>2 DEF Granting, HeldBy
  <1>. QED
    BY <1>1, TypeCorrect, PTL DEF Spec, RevocationHolds

-----------------------------------------------------------------------------
(***************************************************************************)
(* The inductive invariant.                                                *)
(***************************************************************************)

Busy == {"connecting", "issuing", "asking"}

(* A thread is in the middle of authorize() exactly while it holds the     *)
(* mutex.                                                                  *)
MutexIsHeld ==
    \A t \in Threads : /\ phase[t] \in Busy <=> mutex = t
                       /\ mutex = t => call[t] \in CallsOf[t] /\ call[t].op = "authorize"

(* The credential was selected on a phone that holds it, and the session   *)
(* is that phone's.                                                        *)
JobIsConsistent ==
    \A t \in Threads :
        /\ phase[t] \in Busy =>
             /\ job.device \in DeviceIds /\ job.credential_id \in CredentialIds
             /\ \E c \in devices[job.device] : c.credential_id = job.credential_id
        /\ phase[t] \in {"issuing", "asking"} =>
             job.session \in Sessions /\ PeerOf[job.session] = job.device

(* What is pending is the one request of the thread that asks, issued over *)
(* its job under checks that still hold.                                   *)
PendingIsTheJob ==
    /\ \A r \in pending : \E t \in Threads :
         /\ phase[t] = "asking"
         /\ r.credential_id = job.credential_id /\ r.session = job.session
         /\ r.fields = call[t].fields
         /\ Issuable(r.credential_id, r.fields, r.session)
    /\ \A r, q \in pending : r = q
    /\ \A t \in Threads : phase[t] = "asking" => pending # {}

(* Events, audit log and grants tell one story; the log may leave out a    *)
(* request whose append failed.                                            *)
Story ==
    /\ started = issued
    /\ \A r \in pending : r.request_id \in started
    /\ \A i \in started :
         (\A r \in pending : r.request_id # i) <=> \E e \in finished : e[1] = i
    /\ \A e \in finished : e[1] \in started
    /\ \A d, e \in finished : d[1] = e[1] => d = e
    /\ \A e \in finished : e[2] <=> \E g \in grants : g.request.request_id = e[1]
    /\ \A g \in grants : \E e \in finished : e[1] = g.request.request_id
    /\ \A a, b \in audit : a[1] = b[1] => a = b
    /\ \A a \in audit : <<a[1], a[2] = "granted">> \in finished
    /\ \A e \in finished : e[1] \in unlogged \/ \E a \in audit : a[1] = e[1]

(* Only what was asked is signed, and a grant is over a signature. *)
SignaturesAreStarted == \A x \in signatures : x.payload.request_id \in started

AgentInv ==
    /\ AgentTypeOK /\ UniqueCredentials
    /\ MutexIsHeld /\ JobIsConsistent /\ PendingIsTheJob /\ Story
    /\ SignaturesAreStarted /\ GrantIsTheUsersAnswer /\ GrantOverOwnSession

(***************************************************************************)
(* Every step of the agent is a step of the verifier, or drops a pending   *)
(* request.                                                                *)
(***************************************************************************)

DropsPending ==
    /\ pending' \subseteq pending
    /\ UNCHANGED <<now, devices, seen, order, issued, signatures, judged, grants>>

LEMMA StepsOfTheVerifier ==
    ASSUME AgentTypeOK, MutexIsHeld, JobIsConsistent, [AgentNext]_allVars
    PROVE  [Next]_vars \/ DropsPending
  <1>1. ASSUME NEW t \in Threads, NEW c \in CallsOf[t], Dispatch(t, c)
        PROVE  UNCHANGED vars
    BY <1>1 DEF Dispatch
  <1>2. ASSUME NEW t \in Threads, RunSetPermissions(t) PROVE [Next]_vars
    <2>1. call[t] \in CallsOf[t] /\ call[t].op = "set_permissions"
      BY <1>2 DEF RunSetPermissions, Queued, AgentTypeOK, NoCall
    <2>2. /\ call[t].device \in DeviceIds /\ call[t].credential_id \in CredentialIds
          /\ call[t].permissions \in SUBSET Permissions
      BY <2>1, CallsAssumption
    <2>. QED
      BY <1>2, <2>2 DEF RunSetPermissions, Next
  <1>3. ASSUME NEW t \in Threads, RunForget(t) PROVE [Next]_vars
    <2>1. call[t] \in CallsOf[t] /\ call[t].op = "forget"
      BY <1>3 DEF RunForget, Queued, AgentTypeOK, NoCall
    <2>2. call[t].device \in DeviceIds
      BY <2>1, CallsAssumption
    <2>. QED
      BY <1>3, <2>2 DEF RunForget, Next
  <1>4. ASSUME NEW t \in Threads, RunConfirmPairing(t) PROVE [Next]_vars
    <2>1. call[t] \in CallsOf[t] /\ call[t].op = "confirm_pairing"
      BY <1>4 DEF RunConfirmPairing, Queued, AgentTypeOK, NoCall
    <2>2. <<call[t].device, call[t].credential>> \in Enrolments
      BY <2>1, CallsAssumption
    <2>3. CASE Pair(call[t].device, call[t].credential)
      BY <2>2, <2>3 DEF Next
    <2>. QED
      BY <1>4, <2>3 DEF RunConfirmPairing
  <1>5. ASSUME NEW t \in Threads, StartAuthorize(t) \/ Connect(t) \/ IssueRefused(t)
        PROVE  UNCHANGED vars
    BY <1>5 DEF StartAuthorize, Connect, IssueRefused
  <1>6. ASSUME NEW t \in Threads, NEW id \in RequestIds, NEW v \in Validities,
               IssueRequest(t, id, v)
        PROVE  Next
    <2>1. call[t] \in CallsOf[t] /\ call[t].op = "authorize"
      BY <1>6 DEF IssueRequest, MutexIsHeld
    <2>2. call[t].fields \in Fields
      BY <2>1, CallsAssumption
    <2>3. job.credential_id \in CredentialIds /\ job.session \in Sessions
      BY <1>6 DEF IssueRequest, JobIsConsistent, Busy
    <2>. QED
      BY <1>6, <2>2, <2>3 DEF IssueRequest, Next
  <1>7. ASSUME NEW t \in Threads, NEW r \in pending, NEW f \in Frame, Answered(t, r, f)
        PROVE  Next
    <2>1. job.session \in Sessions
      BY <1>7 DEF Answered, JobIsConsistent, Busy
    <2>. QED
      BY <1>7, <2>1 DEF Answered, Next
  <1>8. ASSUME NEW t \in Threads, NEW r \in pending, Unanswered(t, r) PROVE DropsPending
    BY <1>8 DEF Unanswered, DropsPending
  <1>9. ASSUME NEW key \in Keys, Approve(key) PROVE Next
    <2>1. PICK r \in pending : Sign(key, r)
      BY <1>9 DEF Approve
    <2>2. r \in Request
      BY DEF AgentTypeOK, TypeOK
    <2>3. Shown(r, r.session, r.fields) = r /\ r.session \in Sessions /\ r.fields \in Fields
      BY <2>2 DEF Request, Shown
    <2>. QED
      BY <2>1, <2>3 DEF Next
  <1>10. CASE Clock
    BY <1>10 DEF Clock, Next
  <1>11. CASE UNCHANGED allVars
    BY <1>11 DEF allVars, vars
  <1>. QED
    BY <1>1, <1>2, <1>3, <1>4, <1>5, <1>6, <1>7, <1>8, <1>9, <1>10, <1>11
       DEF AgentNext, ThreadStep, vars

(***************************************************************************)
(* Type correctness, and the mutex.                                        *)
(***************************************************************************)

LEMMA AgentInitType == AgentInit => AgentTypeOK
  BY InitType DEF AgentInit, AgentTypeOK, NoJob

LEMMA StoreTyped ==
    ASSUME AgentTypeOK, MutexIsHeld, JobIsConsistent, [AgentNext]_allVars
    PROVE  TypeOK'
  <1>1. TypeOK
    BY DEF AgentTypeOK
  <1>2. CASE [Next]_vars
    BY <1>1, <1>2, NextType
  <1>3. CASE DropsPending
    BY <1>1, <1>3 DEF DropsPending, TypeOK
  <1>. QED
    BY <1>2, <1>3, StepsOfTheVerifier

LEMMA AgentNextType ==
    ASSUME AgentTypeOK, MutexIsHeld, JobIsConsistent, [AgentNext]_allVars
    PROVE  AgentTypeOK'
  <1>1. TypeOK'
    BY StoreTyped
  <1>2. ASSUME NEW t \in Threads, NEW c \in CallsOf[t], Dispatch(t, c) PROVE AgentTypeOK'
    BY <1>1, <1>2 DEF Dispatch, AgentTypeOK, reported
  <1>3. ASSUME NEW t \in Threads,
               RunSetPermissions(t) \/ RunForget(t) \/ RunConfirmPairing(t)
        PROVE  AgentTypeOK'
    BY <1>1, <1>3 DEF RunSetPermissions, RunForget, RunConfirmPairing, Reply, AgentTypeOK, reported
  <1>4. ASSUME NEW t \in Threads, StartAuthorize(t) PROVE AgentTypeOK'
    <2>1. Candidates(call[t]) \subseteq DeviceIds \X CredentialIds
      BY DEF Candidates
    <2>2. mutex' \in Threads \cup {NoThread}
          /\ phase' \in [Threads -> {"reading", "queued", "connecting", "issuing", "asking", "replied"}]
      BY <1>4 DEF StartAuthorize, Reply, AgentTypeOK
    <2>3. job' \in [device : DeviceIds \cup {"none"}, credential_id : CredentialIds \cup {"none"},
                    session : Sessions \cup {"none"}]
      BY <1>4, <2>1 DEF StartAuthorize, AgentTypeOK
    <2>. QED
      BY <1>1, <1>4, <2>2, <2>3 DEF StartAuthorize, AgentTypeOK, reported
  <1>5. ASSUME NEW t \in Threads, Connect(t) PROVE AgentTypeOK'
    BY <1>1, <1>5 DEF Connect, Leave, Reply, NoJob, AgentTypeOK, reported
  <1>6. ASSUME NEW t \in Threads, IssueRefused(t) PROVE AgentTypeOK'
    BY <1>1, <1>6 DEF IssueRefused, Leave, Reply, NoJob, AgentTypeOK, reported
  <1>7. ASSUME NEW t \in Threads, NEW id \in RequestIds, NEW v \in Validities,
               IssueRequest(t, id, v)
        PROVE  AgentTypeOK'
    BY <1>1, <1>7 DEF IssueRequest, AgentTypeOK
  <1>8. ASSUME NEW t \in Threads, NEW r \in pending,
               NEW outcome \in {"granted", "denied", "failed"},
               Conclude(t, r, outcome), UNCHANGED <<call, spent, started>>
        PROVE  AgentTypeOK'
    <2>1. r.request_id \in RequestIds
      BY DEF AgentTypeOK, TypeOK, Request
    <2>2. <<r.request_id, outcome>> \in RequestIds \X {"granted", "denied", "failed"}
          /\ <<r.request_id, outcome>>[1] = r.request_id
          /\ <<r.request_id, outcome = "granted">> \in RequestIds \X BOOLEAN
      BY <2>1
    <2>3. /\ audit' \subseteq RequestIds \X {"granted", "denied", "failed"}
          /\ unlogged' \subseteq RequestIds /\ finished' \subseteq RequestIds \X BOOLEAN
      BY <1>8, <2>1, <2>2 DEF Conclude, Record, AgentTypeOK
    <2>. QED
      BY <1>1, <1>8, <2>3 DEF Conclude, Leave, Reply, NoJob, AgentTypeOK
  <1>9. ASSUME NEW t \in Threads, NEW r \in pending, NEW f \in Frame, Answered(t, r, f)
        PROVE  AgentTypeOK'
    <2>1. Outcome(r, f) \in {"granted", "denied", "failed"}
      BY DEF Outcome
    <2>. QED
      BY <1>8, <1>9, <2>1 DEF Answered
  <1>10. ASSUME NEW t \in Threads, NEW r \in pending, Unanswered(t, r) PROVE AgentTypeOK'
    BY <1>8, <1>10 DEF Unanswered
  <1>11. ASSUME UNCHANGED agentVars PROVE AgentTypeOK'
    BY <1>1, <1>11 DEF agentVars, reported, AgentTypeOK
  <1>. QED
    BY <1>2, <1>3, <1>4, <1>5, <1>6, <1>7, <1>9, <1>10, <1>11
       DEF AgentNext, ThreadStep, allVars, Approve, Clock

LEMMA MutexStaysHeld ==
    ASSUME AgentTypeOK, MutexIsHeld, [AgentNext]_allVars
    PROVE  MutexIsHeld'
  <1>. USE CallsAssumption DEF AgentTypeOK, MutexIsHeld, Busy
  <1>1. ASSUME NEW t \in Threads, NEW c \in CallsOf[t], Dispatch(t, c) PROVE MutexIsHeld'
    BY <1>1 DEF Dispatch
  <1>2. ASSUME NEW t \in Threads,
               RunSetPermissions(t) \/ RunForget(t) \/ RunConfirmPairing(t)
        PROVE  MutexIsHeld'
    BY <1>2 DEF RunSetPermissions, RunForget, RunConfirmPairing, Reply, Queued
  <1>3. ASSUME NEW t \in Threads, StartAuthorize(t) PROVE MutexIsHeld'
    <2>1. call[t] \in CallsOf[t] /\ call[t].op = "authorize"
      BY <1>3 DEF StartAuthorize, Queued, NoCall
    <2>. QED
      BY <1>3, <2>1 DEF StartAuthorize, Reply, Queued
  <1>4. ASSUME NEW t \in Threads, Connect(t) PROVE MutexIsHeld'
    BY <1>4 DEF Connect, Leave, Reply
  <1>5. ASSUME NEW t \in Threads, IssueRefused(t) PROVE MutexIsHeld'
    BY <1>5 DEF IssueRefused, Leave, Reply
  <1>6. ASSUME NEW t \in Threads, NEW id \in RequestIds, NEW v \in Validities,
               IssueRequest(t, id, v)
        PROVE  MutexIsHeld'
    BY <1>6 DEF IssueRequest
  <1>7. ASSUME NEW t \in Threads, mutex = t, Leave(t), UNCHANGED call PROVE MutexIsHeld'
    BY <1>7 DEF Leave, Reply
  <1>8. ASSUME UNCHANGED agentVars PROVE MutexIsHeld'
    BY <1>8 DEF agentVars, reported
  <1>. QED
    BY <1>1, <1>2, <1>3, <1>4, <1>5, <1>6, <1>7, <1>8
       DEF AgentNext, ThreadStep, allVars, Approve, Clock, Answered, Unanswered, Conclude

(***************************************************************************)
(* The job.  Nothing changes the store between the selection and the       *)
(* answer, because nobody else has the mutex.                              *)
(***************************************************************************)

(* A call that changes the store finds the mutex free, so nobody is busy   *)
(* and nothing is pending.                                                 *)
LEMMA NobodyIsBusy ==
    ASSUME MutexIsHeld, mutex = NoThread
    PROVE  \A t \in Threads : phase[t] \notin Busy
  BY CallsAssumption DEF MutexIsHeld

(* Whoever is busy is the only one. *)
LEMMA OneIsBusy ==
    ASSUME MutexIsHeld, NEW t \in Threads, mutex = t
    PROVE  \A u \in Threads : phase[u] \in Busy => u = t
  BY DEF MutexIsHeld

LEMMA JobStaysConsistent ==
    ASSUME AgentTypeOK, MutexIsHeld, JobIsConsistent, [AgentNext]_allVars
    PROVE  JobIsConsistent'
  <1>. USE DEF AgentTypeOK
  <1>1. ASSUME NEW t \in Threads, NEW c \in CallsOf[t], Dispatch(t, c) PROVE JobIsConsistent'
    BY <1>1 DEF Dispatch, JobIsConsistent, vars, Busy
  <1>2. ASSUME NEW t \in Threads,
               RunSetPermissions(t) \/ RunForget(t) \/ RunConfirmPairing(t)
        PROVE  JobIsConsistent'
    <2>1. mutex = NoThread
      BY <1>2 DEF RunSetPermissions, RunForget, RunConfirmPairing, Queued
    <2>2. \A u \in Threads : phase'[u] \notin Busy
      BY <1>2, <2>1, NobodyIsBusy
         DEF RunSetPermissions, RunForget, RunConfirmPairing, Reply, Busy
    <2>. QED
      BY <2>2 DEF JobIsConsistent, Busy
  <1>3. ASSUME NEW t \in Threads, StartAuthorize(t) PROVE JobIsConsistent'
    <2>1. \A u \in Threads : phase[u] \notin Busy
      BY <1>3, NobodyIsBusy DEF StartAuthorize, Queued
    <2>2. ASSUME NEW x \in Candidates(call[t]),
                 job' = [device |-> x[1], credential_id |-> x[2], session |-> "none"],
                 phase' = [phase EXCEPT ![t] = "connecting"]
          PROVE  JobIsConsistent'
      <3>1. /\ job'.device = x[1] /\ job'.credential_id = x[2]
            /\ x[1] \in DeviceIds /\ x[2] \in CredentialIds
            /\ \E c \in devices[x[1]] : c.credential_id = x[2]
        BY <2>2 DEF Candidates
      <3>2. \A u \in Threads : phase'[u] \notin {"issuing", "asking"}
        BY <2>1, <2>2 DEF Busy
      <3>3. devices' = devices
        BY <1>3 DEF StartAuthorize, vars
      <3>. QED
        BY <3>1, <3>2, <3>3 DEF JobIsConsistent
    <2>3. CASE Reply(t)
      <3>1. \A u \in Threads : phase'[u] \notin Busy
        BY <2>1, <2>3 DEF Reply, Busy
      <3>. QED
        BY <3>1 DEF JobIsConsistent, Busy
    <2>. QED
      BY <1>3, <2>2, <2>3 DEF StartAuthorize
  <1>4. ASSUME NEW t \in Threads, Connect(t) PROVE JobIsConsistent'
    <2>1. mutex = t /\ phase[t] \in Busy
      BY <1>4 DEF Connect, Busy
    <2>2. /\ job.device \in DeviceIds /\ job.credential_id \in CredentialIds
          /\ \E c \in devices[job.device] : c.credential_id = job.credential_id
      BY <2>1 DEF JobIsConsistent
    <2>3. ASSUME NEW s \in Sessions, PeerOf[s] = job.device,
                 job' = [job EXCEPT !.session = s]
          PROVE  JobIsConsistent'
      <3>1. job'.device = job.device /\ job'.credential_id = job.credential_id /\ job'.session = s
        BY <2>3
      <3>. QED
        BY <2>2, <2>3, <3>1, <1>4 DEF Connect, JobIsConsistent, vars
    <2>4. CASE Leave(t)
      <3>1. \A u \in Threads : phase'[u] \notin Busy
        BY <2>1, <2>4, OneIsBusy DEF Leave, Reply, Busy
      <3>. QED
        BY <3>1 DEF JobIsConsistent, Busy
    <2>. QED
      BY <1>4, <2>3, <2>4 DEF Connect
  <1>5. ASSUME NEW t \in Threads, mutex = t, Leave(t) PROVE JobIsConsistent'
    <2>1. \A u \in Threads : phase'[u] \notin Busy
      BY <1>5, OneIsBusy DEF Leave, Reply, Busy
    <2>. QED
      BY <2>1 DEF JobIsConsistent, Busy
  <1>6. ASSUME NEW t \in Threads, NEW id \in RequestIds, NEW v \in Validities,
               IssueRequest(t, id, v)
        PROVE  JobIsConsistent'
    BY <1>6 DEF IssueRequest, Issue, JobIsConsistent, Busy
  <1>7. ASSUME UNCHANGED <<devices, phase, job>> PROVE JobIsConsistent'
    BY <1>7 DEF JobIsConsistent
  <1>. QED
    BY <1>1, <1>2, <1>3, <1>4, <1>5, <1>6, <1>7
       DEF AgentNext, ThreadStep, allVars, vars, agentVars, reported, Approve, Sign, Clock, ClockMoves,
           Answered, Unanswered, IssueRefused, Conclude

(***************************************************************************)
(* What is pending.                                                        *)
(***************************************************************************)

LEMMA NothingPendingUnlessAsking ==
    ASSUME PendingIsTheJob, \A t \in Threads : phase[t] # "asking"
    PROVE  pending = {}
  BY DEF PendingIsTheJob

LEMMA IssuableDependsOnDevices ==
    ASSUME UNCHANGED devices, NEW cid, NEW f, NEW s
    PROVE  Issuable(cid, f, s)' <=> Issuable(cid, f, s)
  BY DEF Issuable

LEMMA PendingStaysTheJob ==
    ASSUME AgentTypeOK, MutexIsHeld, PendingIsTheJob, [AgentNext]_allVars
    PROVE  PendingIsTheJob'
  <1>. USE DEF AgentTypeOK
  <1>1. ASSUME pending' = {}, \A t \in Threads : phase'[t] # "asking" PROVE PendingIsTheJob'
    BY <1>1 DEF PendingIsTheJob
  <1>2. ASSUME NEW t \in Threads, NEW c \in CallsOf[t], Dispatch(t, c) PROVE PendingIsTheJob'
    <2>1. devices' = devices /\ pending' = pending /\ job' = job
      BY <1>2 DEF Dispatch, vars
    <2>2. \A u \in Threads : /\ phase'[u] = "asking" <=> phase[u] = "asking"
                             /\ phase[u] = "asking" => call'[u] = call[u]
      BY <1>2 DEF Dispatch
    <2>. QED
      BY <2>1, <2>2, IssuableDependsOnDevices DEF PendingIsTheJob
  <1>3. ASSUME NEW t \in Threads,
               RunSetPermissions(t) \/ RunForget(t) \/ RunConfirmPairing(t) \/ StartAuthorize(t)
        PROVE  PendingIsTheJob'
    <2>1. mutex = NoThread
      BY <1>3 DEF RunSetPermissions, RunForget, RunConfirmPairing, StartAuthorize, Queued
    <2>2. \A u \in Threads : phase[u] # "asking" /\ phase'[u] # "asking"
      BY <1>3, <2>1, NobodyIsBusy
         DEF RunSetPermissions, RunForget, RunConfirmPairing, StartAuthorize, Reply, Busy
    <2>3. pending' = pending
      BY <1>3 DEF RunSetPermissions, RunForget, RunConfirmPairing, StartAuthorize, vars,
                  SetPermissions, Forget, Pair
    <2>. QED
      BY <1>1, <2>2, <2>3, NothingPendingUnlessAsking
  <1>4. ASSUME NEW t \in Threads, Connect(t) \/ IssueRefused(t) PROVE PendingIsTheJob'
    <2>1. mutex = t /\ phase[t] # "asking"
      BY <1>4 DEF Connect, IssueRefused
    <2>2. \A u \in Threads : phase[u] # "asking" /\ phase'[u] # "asking"
      BY <1>4, <2>1, OneIsBusy DEF Connect, IssueRefused, Leave, Reply, Busy
    <2>3. pending' = pending
      BY <1>4 DEF Connect, IssueRefused, vars
    <2>. QED
      BY <1>1, <2>2, <2>3, NothingPendingUnlessAsking
  <1>5. ASSUME NEW t \in Threads, NEW id \in RequestIds, NEW v \in Validities,
               IssueRequest(t, id, v)
        PROVE  PendingIsTheJob'
    <2>0. PICK q : q = [request_id |-> id, credential_id |-> job.credential_id,
                        fields |-> call[t].fields, issued_at |-> now,
                        expires_at |-> now + clamp(v), session |-> job.session]
      OBVIOUS
    <2>1. mutex = t /\ phase[t] = "issuing" /\ devices' = devices /\ job' = job /\ call' = call
          /\ pending' = pending \cup {q}
          /\ Issuable(job.credential_id, call[t].fields, job.session)
      BY <1>5, <2>0 DEF IssueRequest, Issue
    <2>2. \A u \in Threads : phase[u] # "asking"
      BY <2>1, OneIsBusy DEF Busy
    <2>3. pending' = {q}
      BY <2>1, <2>2, NothingPendingUnlessAsking
    <2>4. Issuable(q.credential_id, q.fields, q.session)'
      BY <2>0, <2>1, IssuableDependsOnDevices
    <2>5. phase'[t] = "asking"
      BY <1>5 DEF IssueRequest
    <2>6. /\ q.credential_id = job'.credential_id /\ q.session = job'.session
          /\ q.fields = call'[t].fields
      BY <2>0, <2>1
    <2>. QED
      BY <2>3, <2>4, <2>5, <2>6 DEF PendingIsTheJob
  <1>6. ASSUME NEW t \in Threads, NEW r \in pending, mutex = t, phase[t] = "asking",
               Leave(t), pending' = pending \ {r}
        PROVE  PendingIsTheJob'
    <2>1. pending' = {}
      BY <1>6 DEF PendingIsTheJob
    <2>2. \A u \in Threads : phase'[u] # "asking"
      BY <1>6, OneIsBusy DEF Leave, Reply, Busy
    <2>. QED
      BY <1>1, <2>1, <2>2
  <1>7. ASSUME UNCHANGED <<devices, pending, phase, call, job>> PROVE PendingIsTheJob'
    BY <1>7, IssuableDependsOnDevices DEF PendingIsTheJob
  <1>. QED
    BY <1>2, <1>3, <1>4, <1>5, <1>6, <1>7
       DEF AgentNext, ThreadStep, allVars, vars, agentVars, reported, Approve, Sign, Clock, ClockMoves,
           Answered, Unanswered, Conclude

(***************************************************************************)
(* The events, the audit log and the grants.                               *)
(***************************************************************************)

(* What one answered or unanswered request adds to the story. *)
LEMMA ConcludeTellsTheStory ==
    ASSUME AgentTypeOK, PendingIsTheJob, Story, NEW t \in Threads, NEW r \in pending,
           NEW outcome, Conclude(t, r, outcome), pending' = pending \ {r},
           UNCHANGED <<issued, started>>,
           grants \subseteq grants',
           \A g \in grants' \ grants : g.request = r,
           outcome = "granted" <=> grants' # grants
    PROVE  Story'
  <1>. DEFINE i == r.request_id
              E == <<i, outcome = "granted">>
              A == <<i, outcome>>
  <1>1. pending = {r} /\ pending' = {}
    BY DEF PendingIsTheJob
  <1>2. i \in started /\ \A e \in finished : e[1] # i
    BY DEF Story
  <1>3. \A a \in audit : a[1] # i
    <2>. SUFFICES ASSUME NEW a \in audit PROVE a[1] # i
      OBVIOUS
    <2>1. <<a[1], a[2] = "granted">> \in finished
      BY DEF Story
    <2>2. <<a[1], a[2] = "granted">>[1] = a[1]
      OBVIOUS
    <2>. QED
      BY <2>1, <2>2, <1>2
  <1>4. \A g \in grants : g.request.request_id # i
    BY <1>2 DEF Story
  <1>5. /\ finished' = finished \cup {E} /\ E[1] = i /\ (E[2] <=> outcome = "granted")
        /\ E = <<A[1], A[2] = "granted">> /\ A[1] = i
        /\ audit' \in {audit, audit \cup {A}}
        /\ unlogged' \in {unlogged, unlogged \cup {i}}
        /\ i \in unlogged' \/ A \in audit'
    BY DEF Conclude, Record
  <1>. HIDE DEF E, A
  <1>6. started' = issued' /\ \A q \in pending' : q.request_id \in started'
    BY <1>1 DEF Story
  <1>7. \A j \in started' : \E e \in finished' : e[1] = j
    <2>1. \A j \in started : j # i => \A q \in pending : q.request_id # j
      BY <1>1
    <2>2. \A j \in started : j # i => \E e \in finished : e[1] = j
      BY <2>1 DEF Story
    <2>. QED
      BY <2>2, <1>5
  <1>8. /\ \A e \in finished' : e[1] \in started'
        /\ \A d, e \in finished' : d[1] = e[1] => d = e
    BY <1>2, <1>5 DEF Story
  <1>9. \A e \in finished' : e[2] <=> \E g \in grants' : g.request.request_id = e[1]
    <2>1. (\E g \in grants' : g.request.request_id = i) <=> grants' # grants
      BY <1>4
    <2>2. \A e \in finished : (\E g \in grants' : g.request.request_id = e[1])
                               <=> (\E g \in grants : g.request.request_id = e[1])
      BY <1>2
    <2>3. E[2] <=> \E g \in grants' : g.request.request_id = E[1]
      BY <2>1, <1>5
    <2>4. \A e \in finished : e[2] <=> \E g \in grants' : g.request.request_id = e[1]
      BY <2>2 DEF Story
    <2>. QED
      BY <2>3, <2>4, <1>5
  <1>10. \A g \in grants' : \E e \in finished' : e[1] = g.request.request_id
    <2>1. ASSUME NEW g \in grants' PROVE \E e \in finished' : e[1] = g.request.request_id
      <3>1. CASE g \in grants
        BY <3>1, <1>5 DEF Story
      <3>2. CASE g \notin grants
        BY <3>2, <1>5
      <3>. QED
        BY <3>1, <3>2
    <2>. QED
      BY <2>1
  <1>11. /\ \A a, b \in audit' : a[1] = b[1] => a = b
         /\ \A a \in audit' : <<a[1], a[2] = "granted">> \in finished'
    BY <1>3, <1>5 DEF Story
  <1>12. \A e \in finished' : e[1] \in unlogged' \/ \E a \in audit' : a[1] = e[1]
    <2>1. \A e \in finished : e[1] \in unlogged' \/ \E a \in audit' : a[1] = e[1]
      BY <1>5 DEF Story
    <2>. QED
      BY <2>1, <1>5
  <1>. QED
    BY <1>1, <1>6, <1>7, <1>8, <1>9, <1>10, <1>11, <1>12 DEF Story

LEMMA StoryGoesOn ==
    ASSUME AgentTypeOK, MutexIsHeld, PendingIsTheJob, Story, [AgentNext]_allVars
    PROVE  Story'
  <1>1. ASSUME NEW t \in Threads, NEW id \in RequestIds, NEW v \in Validities,
               IssueRequest(t, id, v)
        PROVE  Story'
    <2>1. \A u \in Threads : phase[u] # "asking"
      BY <1>1, OneIsBusy DEF IssueRequest, Busy
    <2>2. pending = {}
      BY <2>1, NothingPendingUnlessAsking
    <2>3. PICK q : pending' = {q} /\ q.request_id = id
      <3>1. PICK q : q = [request_id |-> id, credential_id |-> job.credential_id,
                          fields |-> call[t].fields, issued_at |-> now,
                          expires_at |-> now + clamp(v), session |-> job.session]
        OBVIOUS
      <3>2. pending' = {q} /\ q.request_id = id
        BY <1>1, <2>2, <3>1 DEF IssueRequest, Issue
      <3>. QED
        BY <3>2
    <2>4. /\ id \notin issued /\ issued' = issued \cup {id} /\ started' = started \cup {id}
          /\ UNCHANGED <<finished, audit, unlogged, grants>>
      BY <1>1 DEF IssueRequest, Issue
    <2>. QED
      BY <2>2, <2>3, <2>4 DEF Story
  <1>2. ASSUME NEW t \in Threads, NEW r \in pending, Unanswered(t, r) PROVE Story'
    BY <1>2, ConcludeTellsTheStory DEF Unanswered
  <1>3. ASSUME NEW t \in Threads, NEW r \in pending, NEW f \in Frame, Answered(t, r, f)
        PROVE  Story'
    <2>1. /\ grants \subseteq grants'
          /\ \A g \in grants' \ grants : g.request = r
      BY <1>3 DEF Answered, Accept, Judge
    <2>2. Outcome(r, f) = "granted" <=> grants' # grants
      BY DEF Outcome
    <2>3. UNCHANGED <<issued, started>> /\ pending' = pending \ {r}
          /\ Conclude(t, r, Outcome(r, f))
      BY <1>3 DEF Answered, Accept
    <2>. QED
      BY <2>1, <2>2, <2>3, ConcludeTellsTheStory
  <1>4. ASSUME UNCHANGED <<pending, issued, grants, reported>> PROVE Story'
    BY <1>4 DEF Story, reported
  <1>. QED
    BY <1>1, <1>2, <1>3, <1>4
       DEF AgentNext, ThreadStep, allVars, vars, agentVars, reported, Dispatch, RunSetPermissions,
           RunForget, RunConfirmPairing, SetPermissions, Forget, Pair, StartAuthorize, Connect,
           IssueRefused, Approve, Sign, Clock, ClockMoves

LEMMA SignaturesStayStarted ==
    ASSUME Story, SignaturesAreStarted, [AgentNext]_allVars
    PROVE  SignaturesAreStarted'
  <1>1. started \subseteq started'
    BY DEF AgentNext, ThreadStep, allVars, agentVars, reported, Dispatch, RunSetPermissions,
           RunForget, RunConfirmPairing, StartAuthorize, Connect, IssueRequest,
           IssueRefused, Answered, Unanswered, Approve, Clock
  <1>2. CASE UNCHANGED signatures
    BY <1>1, <1>2 DEF SignaturesAreStarted
  <1>3. ASSUME NEW key \in Keys, NEW r \in pending, Sign(key, r) PROVE SignaturesAreStarted'
    <2>1. r.request_id \in started
      BY DEF Story
    <2>. QED
      BY <1>1, <1>3, <2>1 DEF Sign, SignaturesAreStarted
  <1>. QED
    BY <1>2, <1>3
       DEF AgentNext, ThreadStep, allVars, vars, Dispatch, RunSetPermissions,
           RunForget, RunConfirmPairing, SetPermissions, Forget, Pair, StartAuthorize, Connect,
           IssueRequest, Issue, IssueRefused, Answered, Accept, Unanswered, Approve, Clock,
           ClockMoves

(* Grants come only from an answer, over the running job. *)
LEMMA NewGrantsAreTheJobs ==
    ASSUME AgentInv, [AgentNext]_allVars, NEW g \in NewGrants
    PROVE  /\ g.session = g.request.session
           /\ g.request \in pending /\ PeerOf[g.session] = g.device
           /\ Issuable(g.request.credential_id, g.request.fields, g.session)
  <1>1. TypeOK /\ grants' # grants
    BY DEF AgentInv, AgentTypeOK, NewGrants
  <1>2. [Next]_vars
    BY <1>1, StepsOfTheVerifier DEF AgentInv, DropsPending
  <1>3. PICK r \in pending, f \in Frame, d \in DeviceIds : \E c \in devices[d] :
           Answers(r, f, r.session) /\ Granting(r, f, d, c) /\ g = GrantOf(r, d, c)
    BY <1>1, <1>2, NewGrantsAreJudged
  <1>4. PICK c \in devices[d] :
           Answers(r, f, r.session) /\ Granting(r, f, d, c) /\ g = GrantOf(r, d, c)
    BY <1>3
  <1>5. g.request = r /\ g.session = r.session /\ g.device = d
    BY <1>4 DEF GrantOf
  <1>6. PICK t \in Threads :
           /\ phase[t] = "asking"
           /\ r.credential_id = job.credential_id /\ r.session = job.session
           /\ Issuable(r.credential_id, r.fields, r.session)
    BY DEF AgentInv, PendingIsTheJob
  <1>7. PICK e \in devices[job.device] : e.credential_id = job.credential_id
    BY <1>6 DEF AgentInv, JobIsConsistent, Busy
  <1>8. job.device \in DeviceIds /\ PeerOf[job.session] = job.device
    BY <1>6 DEF AgentInv, JobIsConsistent, Busy
  <1>9. c.credential_id = r.credential_id
    BY <1>4 DEF Granting, HeldBy
  <1>10. d = job.device
    BY <1>6, <1>7, <1>8, <1>9 DEF AgentInv, UniqueCredentials, Unique
  <1>. QED
    BY <1>5, <1>6, <1>8, <1>10

LEMMA AgentNextInv == AgentInv /\ [AgentNext]_allVars => AgentInv'
  <1>. SUFFICES ASSUME AgentInv, [AgentNext]_allVars PROVE AgentInv'
    OBVIOUS
  <1>1. AgentTypeOK' /\ MutexIsHeld' /\ JobIsConsistent'
    BY AgentNextType, MutexStaysHeld, JobStaysConsistent DEF AgentInv
  <1>2. PendingIsTheJob' /\ Story' /\ SignaturesAreStarted'
    BY PendingStaysTheJob, StoryGoesOn, SignaturesStayStarted DEF AgentInv
  <1>3. [Next]_vars \/ DropsPending
    BY StepsOfTheVerifier DEF AgentInv
  <1>4. UniqueCredentials'
    <2>1. DropsPending /\ UniqueCredentials => UniqueCredentials'
      BY DEF DropsPending, UniqueCredentials, Unique
    <2>. QED
      BY <1>3, <2>1, NextUnique DEF AgentInv, AgentTypeOK
  <1>5. GrantIsTheUsersAnswer'
    <2>1. GrantInv
      BY DEF AgentInv, AgentTypeOK, GrantInv, PendingWasIssued, Story
    <2>2. DropsPending /\ GrantIsTheUsersAnswer => GrantIsTheUsersAnswer'
      BY DEF DropsPending, GrantIsTheUsersAnswer, suitable_for_authorization
    <2>. QED
      BY <1>3, <2>1, <2>2, NextGrants DEF GrantInv
  <1>6. GrantOverOwnSession'
    <2>. SUFFICES ASSUME NEW g \in grants' PROVE PeerOf[g.session] = g.device
      BY DEF GrantOverOwnSession
    <2>1. CASE g \in grants
      BY <2>1 DEF AgentInv, GrantOverOwnSession
    <2>2. CASE g \in NewGrants
      BY <2>2, NewGrantsAreTheJobs
    <2>. QED
      BY <2>1, <2>2 DEF NewGrants
  <1>. QED
    BY <1>1, <1>2, <1>4, <1>5, <1>6 DEF AgentInv

LEMMA AgentInitInv == AgentInit => AgentInv
  <1>. SUFFICES ASSUME AgentInit PROVE AgentInv
    OBVIOUS
  <1>1. AgentTypeOK
    BY AgentInitType
  <1>2. UniqueCredentials
    BY StoredAssumption DEF AgentInit, Init, UniqueCredentials
  <1>3. MutexIsHeld /\ JobIsConsistent
    BY CallsAssumption DEF AgentInit, MutexIsHeld, JobIsConsistent, Busy
  <1>4. PendingIsTheJob /\ Story /\ SignaturesAreStarted
    BY DEF AgentInit, Init, PendingIsTheJob, Story, SignaturesAreStarted
  <1>5. GrantIsTheUsersAnswer /\ GrantOverOwnSession
    BY DEF AgentInit, Init, GrantIsTheUsersAnswer, GrantOverOwnSession
  <1>. QED
    BY <1>1, <1>2, <1>3, <1>4, <1>5 DEF AgentInv

LEMMA AgentInvariant == AgentSpec => []AgentInv
  BY AgentInitInv, AgentNextInv, PTL DEF AgentSpec

(***************************************************************************)
(* The theorems.                                                           *)
(***************************************************************************)

(* Every state the agent reaches is well typed. *)
THEOREM AgentTypeCorrect == AgentSpec => []AgentTypeOK
  <1>1. AgentInv => AgentTypeOK
    BY DEF AgentInv
  <1>. QED
    BY <1>1, AgentInvariant, PTL

(* A grant's session was authenticated as the phone whose key signed it,   *)
(* though accept() compares neither: the session was picked for the phone  *)
(* that holds the credential, ids are unique, and the store does not       *)
(* change while the phone is being asked.                                  *)
THEOREM GrantsAreOverOwnSessions == AgentSpec => []GrantOverOwnSession
  <1>1. AgentInv => GrantOverOwnSession
    BY DEF AgentInv
  <1>. QED
    BY <1>1, AgentInvariant, PTL

(* What issue() checked and accept() does not check again, the purpose,    *)
(* the key kind and the transport, still holds in the step that grants.    *)
THEOREM GrantsAreStillIssuable == AgentSpec => GrantStillIssuable
  <1>1. AgentInv /\ [AgentNext]_allVars
          => [\A g \in NewGrants :
                Issuable(g.request.credential_id, g.request.fields, g.session)]_allVars
    BY NewGrantsAreTheJobs
  <1>. QED
    BY <1>1, AgentInvariant, PTL DEF AgentSpec, GrantStillIssuable

(* Whenever nobody holds the mutex, every RequestStarted has had exactly   *)
(* one RequestFinished, which says granted exactly for the requests that   *)
(* were, whether or not the audit log could be written; the log never      *)
(* disagrees, and leaves out only a request whose append failed.           *)
THEOREM EveryPromptIsAccounted == AgentSpec => []PromptsAreAccounted
  <1>1. ASSUME AgentInv PROVE PromptsAreAccounted
    <2>1. ASSUME mutex = NoThread
          PROVE  pending = {} /\ \A i \in started : \E e \in finished : e[1] = i
      <3>1. \A t \in Threads : phase[t] # "asking"
        BY <1>1, <2>1, NobodyIsBusy DEF AgentInv, Busy
      <3>2. pending = {}
        BY <1>1, <3>1, NothingPendingUnlessAsking DEF AgentInv
      <3>. QED
        BY <1>1, <3>2 DEF AgentInv, Story
    <2>. QED
      BY <1>1, <2>1 DEF PromptsAreAccounted, AgentInv, Story
  <1>. QED
    BY <1>1, AgentInvariant, PTL

(***************************************************************************)
(* The agent implements the authorization contract.                        *)
(***************************************************************************)

StatusOf(i) ==
    IF <<i, TRUE>> \in finished THEN "granted"
    ELSE IF <<i, FALSE>> \in finished THEN "refused"
    ELSE IF i \in started THEN "asked" ELSE "none"

Approved == {x.payload.request_id : x \in signatures}

(* A request is waited for exactly while it is pending. *)
LEMMA AskedIsPending ==
    ASSUME AgentInv, NEW i \in RequestIds
    PROVE  /\ StatusOf(i) = "asked" <=> \E r \in pending : r.request_id = i
           /\ StatusOf(i) = "none" <=> i \notin started
  <1>1. (\E e \in finished : e[1] = i) <=> <<i, TRUE>> \in finished \/ <<i, FALSE>> \in finished
    <2>1. ASSUME NEW e \in finished, e[1] = i PROVE e = <<i, TRUE>> \/ e = <<i, FALSE>>
      <3>1. e \in RequestIds \X BOOLEAN
        BY DEF AgentInv, AgentTypeOK
      <3>2. e = <<e[1], e[2]>> /\ e[2] \in BOOLEAN
        BY <3>1
      <3>. QED
        BY <2>1, <3>2
    <2>2. <<i, TRUE>>[1] = i /\ <<i, FALSE>>[1] = i
      OBVIOUS
    <2>. QED
      BY <2>1, <2>2
  <1>2. /\ \A e \in finished : e[1] \in started
        /\ \A r \in pending : r.request_id \in started
        /\ i \in started => ((\A r \in pending : r.request_id # i) <=> \E e \in finished : e[1] = i)
    BY DEF AgentInv, Story
  <1>. QED
    BY <1>1, <1>2 DEF StatusOf

LEMMA IssueAsks ==
    ASSUME AgentInv, NEW t \in Threads, NEW id \in RequestIds, NEW v \in Validities,
           IssueRequest(t, id, v)
    PROVE  Contract!Ask(id)
  <1>1. \A u \in Threads : phase[u] # "asking"
    BY OneIsBusy DEF AgentInv, IssueRequest, Busy
  <1>2. pending = {}
    BY <1>1, NothingPendingUnlessAsking DEF AgentInv
  <1>3. /\ id \notin started /\ started' = started \cup {id}
        /\ UNCHANGED <<finished, signatures>>
    BY DEF IssueRequest, Issue, AgentInv, Story
  <1>4. StatusOf(id) = "none" /\ \A j \in RequestIds : StatusOf(j) # "asked"
    BY <1>2, <1>3, AskedIsPending
  <1>5. StatusOf(id)' = "asked"
    BY <1>3, <1>4 DEF StatusOf
  <1>6. \A j \in RequestIds : j # id => StatusOf(j)' = StatusOf(j)
    BY <1>3 DEF StatusOf
  <1>. QED
    BY <1>3, <1>4, <1>5, <1>6 DEF Contract!Ask, StatusOf

LEMMA ConcludeSettles ==
    ASSUME AgentInv, NEW t \in Threads, NEW r \in pending,
           NEW outcome \in {"granted", "denied", "failed"}, Conclude(t, r, outcome),
           UNCHANGED <<started, signatures>>,
           outcome = "granted" => r.request_id \in Approved
    PROVE  Contract!Settle(r.request_id)
  <1>. DEFINE id == r.request_id
  <1>1. id \in RequestIds
    BY DEF AgentInv, AgentTypeOK, TypeOK, Request
  <1>2. StatusOf(id) = "asked" /\ <<id, TRUE>> \notin finished /\ <<id, FALSE>> \notin finished
    BY <1>1, AskedIsPending DEF StatusOf
  <1>3. finished' = finished \cup {<<id, outcome = "granted">>}
    BY DEF Conclude
  <1>4. StatusOf(id)' = IF outcome = "granted" THEN "granted" ELSE "refused"
    BY <1>2, <1>3 DEF StatusOf
  <1>5. \A j \in RequestIds : j # id => StatusOf(j)' = StatusOf(j)
    BY <1>3 DEF StatusOf
  <1>. QED
    BY <1>1, <1>2, <1>4, <1>5 DEF Contract!Settle, StatusOf, Approved

LEMMA ApproveApproves ==
    ASSUME AgentInv, NEW key \in Keys, NEW r \in pending, Sign(key, r),
           UNCHANGED agentVars
    PROVE  Contract!Approve(r.request_id)
  <1>1. r.request_id \in started /\ r.request_id \in RequestIds
    BY DEF AgentInv, Story, AgentTypeOK, TypeOK, Request
  <1>2. StatusOf(r.request_id) # "none"
    BY <1>1, AskedIsPending
  <1>3. PICK x : x = [key |-> key, payload |-> r]
    OBVIOUS
  <1>4. signatures' = signatures \cup {x} /\ x.payload = r
    BY <1>3 DEF Sign
  <1>5. Approved' = Approved \cup {r.request_id}
    BY <1>4 DEF Approved
  <1>. QED
    BY <1>1, <1>2, <1>5 DEF Contract!Approve, StatusOf, Approved, agentVars, reported

(* Requests are asked one at a time, settled once, and granted only if a   *)
(* phone approved them: the safety part of AuthorizationContract, with the *)
(* events of service.rs as its state.                                      *)
THEOREM KeepsContractSafely == AgentSpec => Contract!Safety
  <1>1. AgentInit => Contract!Init
    BY DEF AgentInit, Init, Contract!Init
  <1>2. ASSUME AgentInv, AgentInv', [AgentNext]_allVars
        PROVE  [Contract!Next]_<<[i \in RequestIds |-> StatusOf(i)], Approved>>
    <2>1. ASSUME NEW t \in Threads, NEW id \in RequestIds, NEW v \in Validities,
                 IssueRequest(t, id, v)
          PROVE  Contract!Next
      BY <1>2, <2>1, IssueAsks DEF Contract!Next
    <2>2. ASSUME NEW r \in pending PROVE r.request_id \in RequestIds
      BY <1>2 DEF AgentInv, AgentTypeOK, TypeOK, Request
    <2>3. ASSUME NEW t \in Threads, NEW r \in pending, Unanswered(t, r)
          PROVE  Contract!Next
      <3>1. Conclude(t, r, "failed") /\ UNCHANGED <<started, signatures>>
        BY <2>3 DEF Unanswered
      <3>2. Contract!Settle(r.request_id)
        BY <1>2, <3>1, ConcludeSettles
      <3>. QED
        BY <2>2, <3>2 DEF Contract!Next
    <2>4. ASSUME NEW t \in Threads, NEW r \in pending, NEW f \in Frame, Answered(t, r, f)
          PROVE  Contract!Next
      <3>1. /\ Conclude(t, r, Outcome(r, f)) /\ UNCHANGED <<started, signatures>>
            /\ grants \subseteq grants' /\ \A g \in grants' \ grants : g.request = r
        BY <2>4 DEF Answered, Accept, Judge
      <3>2. Outcome(r, f) \in {"granted", "denied", "failed"}
        BY DEF Outcome
      <3>3. ASSUME Outcome(r, f) = "granted" PROVE r.request_id \in Approved
        <4>1. PICK g \in grants' : g.request = r
          BY <3>1, <3>3 DEF Outcome
        <4>2. [key |-> g.key, payload |-> r] \in signatures
          BY <1>2, <3>1, <4>1 DEF AgentInv, GrantIsTheUsersAnswer
        <4>. QED
          BY <4>2 DEF Approved
      <3>4. Contract!Settle(r.request_id)
        BY <1>2, <3>1, <3>2, <3>3, ConcludeSettles
      <3>. QED
        BY <2>2, <3>4 DEF Contract!Next
    <2>5. ASSUME NEW key \in Keys, Approve(key) PROVE Contract!Next
      <3>1. PICK r \in pending : Sign(key, r) /\ UNCHANGED agentVars
        BY <2>5 DEF Approve
      <3>2. Contract!Approve(r.request_id)
        BY <1>2, <3>1, ApproveApproves
      <3>. QED
        BY <2>2, <3>2 DEF Contract!Next
    <2>6. ASSUME UNCHANGED <<started, finished, signatures>>
          PROVE  UNCHANGED <<[i \in RequestIds |-> StatusOf(i)], Approved>>
      BY <2>6 DEF StatusOf, Approved
    <2>. QED
      BY <1>2, <2>1, <2>3, <2>4, <2>5, <2>6
         DEF AgentNext, ThreadStep, allVars, vars, agentVars, reported, Dispatch,
             RunSetPermissions, RunForget, RunConfirmPairing, SetPermissions, Forget, Pair,
             StartAuthorize, Connect, IssueRefused, Clock, ClockMoves
  <1>3. AgentInv /\ AgentInv' /\ [AgentNext]_allVars
          => [Contract!Next]_<<[i \in RequestIds |->
                 IF <<i, TRUE>> \in finished THEN "granted"
                 ELSE IF <<i, FALSE>> \in finished THEN "refused"
                 ELSE IF i \in started THEN "asked" ELSE "none"],
               {x.payload.request_id : x \in signatures}>>
    BY <1>2 DEF StatusOf, Approved
  <1>. QED
    BY <1>1, <1>3, AgentInvariant, PTL DEF AgentSpec, Contract!Safety

-----------------------------------------------------------------------------
(***************************************************************************)
(* The table of cancelled requests (LocalApi).                             *)
(***************************************************************************)

Takes(s, keep, new) ==
    \E at \in [DOMAIN new -> keep] :
        /\ \A k \in DOMAIN new : new[k] = s[at[k]]
        /\ \A k, l \in DOMAIN new : at[k] = at[l] => k = l

MovesUp(s, keep, new) ==
    \A i \in keep : \E k \in DOMAIN new : new[k] = s[i] /\ Len(new) - k <= Len(s) - i

(* A place moves towards the end of a selection, never away from it.       *)
LEMMA KeptMovesUp ==
    ASSUME NEW S, NEW s \in Seq(S), NEW keep \in SUBSET (DOMAIN s)
    PROVE  /\ Kept(s, keep) \in Seq(S)
           /\ Takes(s, keep, Kept(s, keep))
           /\ MovesUp(s, keep, Kept(s, keep))
  <1>. DEFINE new == Kept(s, keep)
  <1>. DEFINE n == Len(s)
              upTo(i) == {j \in keep : j <= i}
              after(i) == {j \in keep : j > i}
              m == Cardinality(keep)
  <1>1. n \in Nat /\ DOMAIN s = 1 .. n /\ \A i \in 1 .. n : s[i] \in S
    OBVIOUS
  <1>2. IsFiniteSet(1 .. n) /\ IsFiniteSet(keep) /\ m \in Nat
    <2>1. IsFiniteSet(1 .. n)
      BY <1>1, FS_Interval
    <2>2. keep \in SUBSET (1 .. n)
      BY <1>1
    <2>. QED
      BY <2>1, <2>2, FS_Subset, FS_CardinalityType
  <1>3. ASSUME NEW i \in keep
        PROVE  /\ IsFiniteSet(upTo(i)) /\ Cardinality(upTo(i)) \in Nat
               /\ IsFiniteSet(after(i)) /\ Cardinality(after(i)) \in Nat
               /\ m = Cardinality(upTo(i)) + Cardinality(after(i))
               /\ Cardinality(upTo(i)) # 0
               /\ Cardinality(after(i)) <= n - i
    <2>1. upTo(i) \in SUBSET keep /\ after(i) \in SUBSET keep
      OBVIOUS
    <2>2. /\ IsFiniteSet(upTo(i)) /\ Cardinality(upTo(i)) \in Nat
          /\ IsFiniteSet(after(i)) /\ Cardinality(after(i)) \in Nat
      BY <1>2, <2>1, FS_Subset, FS_CardinalityType
    <2>3. upTo(i) \cup after(i) = keep /\ upTo(i) \cap after(i) = {}
      <3>1. \A j \in keep : j \in Int /\ i \in Int
        BY <1>1
      <3>. QED
        BY <3>1
    <2>4. m = Cardinality(upTo(i)) + Cardinality(after(i))
      <3>1. Cardinality(upTo(i) \cup after(i))
              = Cardinality(upTo(i)) + Cardinality(after(i)) - Cardinality(upTo(i) \cap after(i))
        BY <2>2, FS_Union
      <3>2. Cardinality(upTo(i) \cap after(i)) = 0
        BY <2>3, FS_EmptySet
      <3>3. Cardinality(upTo(i) \cup after(i)) = m
        BY <2>3
      <3>. HIDE DEF upTo, after, m
      <3>. QED
        BY <2>2, <3>1, <3>2, <3>3
    <2>5. Cardinality(upTo(i)) # 0
      <3>1. i \in upTo(i)
        BY <1>1
      <3>. QED
        BY <2>2, <3>1, FS_EmptySet
    <2>6. Cardinality(after(i)) <= n - i
      <3>1. i + 1 \in Int /\ n \in Int /\ i <= n
        BY <1>1
      <3>2. IsFiniteSet(i + 1 .. n) /\ Cardinality(i + 1 .. n) = IF i + 1 > n THEN 0 ELSE n - (i + 1) + 1
        BY <3>1, FS_Interval
      <3>3. after(i) \in SUBSET (i + 1 .. n)
        BY <1>1
      <3>4. Cardinality(after(i)) <= Cardinality(i + 1 .. n)
        BY <3>2, <3>3, FS_Subset
      <3>. QED
        BY <2>2, <3>1, <3>2, <3>4
    <2>. HIDE DEF upTo, after, m
    <2>. QED
      BY <2>2, <2>4, <2>5, <2>6
  <1>4. \A i \in keep : Rank(keep, i) = Cardinality(upTo(i)) /\ Rank(keep, i) \in 1 .. m
    <2>1. \A i \in keep : Rank(keep, i) = Cardinality(upTo(i))
      BY DEF Rank
    <2>2. ASSUME NEW i \in keep
          PROVE  Cardinality(upTo(i)) \in 1 .. m
      <3>. HIDE DEF upTo, after, m
      <3>. QED
        BY <1>2, <1>3
    <2>. QED
      BY <2>1, <2>2
  <1>5. ASSUME NEW i \in keep, NEW j \in keep, Rank(keep, i) = Rank(keep, j), i < j
        PROVE  FALSE
    <2>1. upTo(i) \in SUBSET upTo(j)
      <3>1. \A k \in keep : k \in Int
        BY <1>1
      <3>2. \A k \in keep : k <= i => k <= j
        BY <1>5, <3>1
      <3>. QED
        BY <3>2
    <2>2. j \in upTo(j) /\ j \notin upTo(i)
      BY <1>1, <1>5
    <2>3. Cardinality(upTo(i)) # Cardinality(upTo(j))
      BY <1>3, <2>1, <2>2, FS_Subset
    <2>. QED
      BY <1>4, <1>5, <2>3
  <1>6. \A i, j \in keep : Rank(keep, i) = Rank(keep, j) => i = j
    BY <1>1, <1>5
  <1>. DEFINE f == [i \in keep |-> Rank(keep, i)]
              pos(k) == CHOOSE i \in keep : Rank(keep, i) = k
  <1>7. \A k \in 1 .. m : \E i \in keep : Rank(keep, i) = k
    <2>1. f \in Injection(keep, 1 .. m)
      BY <1>4, <1>6 DEF Injection, IsInjective
    <2>2. IsFiniteSet(1 .. m) /\ Cardinality(1 .. m) = m
      BY <1>2, FS_Interval
    <2>3. f \in Surjection(keep, 1 .. m)
      BY <2>1, <2>2, <1>2, FS_Injection
    <2>. QED
      BY <2>3 DEF Surjection
  <1>8. \A k \in 1 .. m : pos(k) \in keep /\ Rank(keep, pos(k)) = k
    BY <1>7
  <1>9. new = [k \in 1 .. m |-> s[pos(k)]]
    BY DEF Kept
  <1>. HIDE DEF new
  <1>10. new \in [1 .. m -> S]
    BY <1>1, <1>8, <1>9
  <1>11. new \in Seq(S) /\ DOMAIN new = 1 .. m /\ Len(new) = m
    BY <1>2, <1>10
  <1>12. \A i \in keep : pos(Rank(keep, i)) = i
    BY <1>4, <1>6, <1>8
  <1>13. ASSUME NEW i \in keep
         PROVE  \E k \in DOMAIN new : new[k] = s[i] /\ Len(new) - k <= Len(s) - i
    <2>. DEFINE k == Rank(keep, i)
    <2>1. k \in 1 .. m /\ new[k] = s[i]
      <3>1. Rank(keep, i) \in 1 .. m /\ pos(Rank(keep, i)) = i
        BY <1>4, <1>12
      <3>. HIDE DEF pos
      <3>. QED
        BY <1>9, <3>1
    <2>2. m - k <= n - i
      <3>1. k = Cardinality(upTo(i)) /\ i \in 1 .. n
        BY <1>1, <1>4
      <3>. HIDE DEF upTo, after, m, n, k
      <3>. QED
        BY <1>1, <1>2, <1>3, <3>1
    <2>. QED
      BY <1>11, <2>1, <2>2
  <1>14. \E at \in [DOMAIN new -> keep] :
                /\ \A k \in DOMAIN new : new[k] = s[at[k]]
                /\ \A k, l \in DOMAIN new : at[k] = at[l] => k = l
    <2>. DEFINE at == [k \in DOMAIN new |-> pos(k)]
    <2>. HIDE DEF pos
    <2>1. at \in [DOMAIN new -> keep] /\ \A k \in DOMAIN new : new[k] = s[at[k]]
      BY <1>8, <1>9, <1>11
    <2>2. \A k, l \in DOMAIN new : at[k] = at[l] => k = l
      BY <1>8, <1>11
    <2>. QED
      BY <2>1, <2>2
  <1>. QED
    BY <1>11, <1>13, <1>14 DEF Takes, MovesUp, new

NoRepeats(table) == \A i, j \in DOMAIN table : table[i] = table[j] => i = j

(* r is in the table with at most n entries after it. *)
Within(table, r, n) == \E k \in DOMAIN table : table[k] = r /\ Len(table) - k <= n

LEMMA WithoutKeeps ==
    ASSUME NEW table \in Seq(Requests), NoRepeats(table), NEW out, NEW left, left = Without(table, out)
    PROVE  /\ left \in Seq(Requests) /\ NoRepeats(left)
           /\ \A k \in DOMAIN left : left[k] \notin out /\ \E i \in DOMAIN table : left[k] = table[i]
           /\ \A i \in DOMAIN table : table[i] \notin out =>
                \E k \in DOMAIN left : left[k] = table[i] /\ Len(left) - k <= Len(table) - i
  <1>1. PICK keep \in SUBSET (DOMAIN table) :
             left = Kept(table, keep) /\ keep = {i \in DOMAIN table : table[i] \notin out}
    BY DEF Without
  <1>2. left \in Seq(Requests) /\ Takes(table, keep, left) /\ MovesUp(table, keep, left)
    BY <1>1, KeptMovesUp
  <1>3. PICK at \in [DOMAIN left -> keep] :
             /\ \A k \in DOMAIN left : left[k] = table[at[k]]
             /\ \A k, l \in DOMAIN left : at[k] = at[l] => k = l
    BY <1>2 DEF Takes
  <1>5. NoRepeats(left)
    BY <1>1, <1>3 DEF NoRepeats
  <1>. QED
    BY <1>1, <1>2, <1>3, <1>5 DEF MovesUp

LEMMA WithoutIsWithin ==
    ASSUME NEW table \in Seq(Requests), NoRepeats(table), NEW out,
           NEW r, r \notin out, NEW n \in Nat, Within(table, r, n)
    PROVE  Within(Without(table, out), r, n)
  <1>. DEFINE left == Without(table, out)
  <1>1. PICK i \in DOMAIN table : table[i] = r /\ Len(table) - i <= n
    BY DEF Within
  <1>2. PICK k \in DOMAIN left : left[k] = r /\ Len(left) - k <= Len(table) - i
    BY <1>1, WithoutKeeps
  <1>3. left \in Seq(Requests)
    BY WithoutKeeps
  <1>. HIDE DEF left
  <1>4. k \in Int /\ i \in Int /\ Len(left) \in Int /\ Len(table) \in Int
    BY <1>3
  <1>5. Len(left) - k <= n
    BY <1>1, <1>2, <1>4
  <1>. QED
    BY <1>2, <1>5 DEF Within, left

(***************************************************************************)
(* The inductive invariant.                                                *)
(***************************************************************************)

InRelay == {"check", "receive", "finish"}

ThreadsTyped ==
    /\ pc \in [Conns -> Outside \cup Holding]
    /\ handled \in [Conns -> Calls]
    /\ service \in Conns \cup {None} /\ polls \in 0 .. MaxPolls
    /\ subscribers \subseteq registered /\ pump \subseteq registered

(* The service is held by the thread inside it, and a thread is where its  *)
(* call takes it.                                                          *)
ThreadsHold ==
    \A c \in Conns : /\ pc[c] \in Holding <=> service = c
                     /\ pc[c] \in InRelay => handled[c].kind = "perform"
                     /\ pc[c] = "cancel" => handled[c].kind = "cancel"
                     /\ pc[c] = "receive" => polls < MaxPolls

TableTyped ==
    /\ cancelled \in Seq(Requests) /\ NoRepeats(cancelled)
    /\ aged \subseteq Entries
    /\ newer \in [Requests -> Nat \cup {None}]

(* A cancellation has only those before the newer ones behind it.          *)
Remembered(r) == newer[r] # None => newer[r] >= MaxCancelled \/ Within(cancelled, r, newer[r])

ApiInv ==
    /\ ThreadsTyped /\ ThreadsHold
    /\ TableTyped /\ \A r \in Requests : Remembered(r)

LEMMA CallsOfRequests ==
    ASSUME NEW m \in Calls
    PROVE  m.kind \in {"perform", "cancel"} => m.req \in Requests
  BY DEF Calls, Plain, Perform, CancelOf

LEMMA ApiInitially == ApiInit => ApiInv
  <1>. SUFFICES ASSUME ApiInit PROVE ApiInv
    OBVIOUS
  <1>. USE LocalAssumption DEF ApiInit
  <1>1. ThreadsTyped
    BY DEF ThreadsTyped, Calls, Holding, Outside
  <1>2. ThreadsHold
    BY DEF ThreadsHold, Holding, InRelay
  <1>3. TableTyped /\ \A r \in Requests : Remembered(r)
    BY DEF TableTyped, NoRepeats, Remembered
  <1>. QED
    BY <1>1, <1>2, <1>3 DEF ApiInv

LEMMA TableStays ==
    ASSUME ApiInv, UNCHANGED tableVars
    PROVE  TableTyped' /\ \A r \in Requests : Remembered(r)'
  BY DEF ApiInv, tableVars, TableTyped, Entries, Remembered, Within, NoRepeats

(* A request is taken off the table. *)
LEMMA TakeKeeps ==
    ASSUME ApiInv, NEW r \in Requests, Take(r)
    PROVE  TableTyped' /\ \A q \in Requests : Remembered(q)'
  <1>. DEFINE left == Without(cancelled, {r})
  <1>1. cancelled \in Seq(Requests) /\ NoRepeats(cancelled)
    BY DEF ApiInv, TableTyped
  <1>2. /\ left \in Seq(Requests) /\ NoRepeats(left)
        /\ \A i \in DOMAIN cancelled : cancelled[i] \notin {r} =>
             \E k \in DOMAIN left :
               left[k] = cancelled[i] /\ Len(left) - k <= Len(cancelled) - i
    BY <1>1, WithoutKeeps
  <1>3. cancelled' = left /\ aged' = aged \ {r} /\ newer' = [newer EXCEPT ![r] = None]
    BY DEF Take
  <1>4. ASSUME NEW q \in Requests, q # r, newer[q] # None, ~(newer[q] >= MaxCancelled)
        PROVE  Within(left, q, newer[q])
    <2>1. Within(cancelled, q, newer[q]) /\ newer[q] \in Nat
      BY <1>4 DEF ApiInv, Remembered, TableTyped
    <2>2. q \notin {r}
      BY <1>4
    <2>. QED
      BY <1>1, <2>1, <2>2, WithoutIsWithin
  <1>. HIDE DEF left
  <1>5. aged' \subseteq Entries'
    BY <1>2, <1>3 DEF ApiInv, TableTyped, Entries
  <1>6. TableTyped'
    BY <1>2, <1>3, <1>5 DEF ApiInv, TableTyped, NoRepeats
  <1>7. ASSUME NEW q \in Requests
        PROVE  Remembered(q)'
    BY <1>3, <1>4 DEF ApiInv, TableTyped, Remembered, Within
  <1>. QED
    BY <1>6, <1>7

(* A request is entered: only the oldest entry may go, and it had the      *)
(* whole table after it.                                                   *)
LEMMA CancelKeeps ==
    ASSUME ApiInv, NEW c \in Conns, Cancel(c)
    PROVE  TableTyped' /\ \A q \in Requests : Remembered(q)'
  <1>. DEFINE r == handled[c].req
              fresh == Without(cancelled, aged)
              kept == RoomFor(fresh)
              left == Without(kept, {r})
  <1>1. cancelled \in Seq(Requests) /\ NoRepeats(cancelled) /\ newer \in [Requests -> Nat \cup {None}]
    BY DEF ApiInv, TableTyped
  <1>2. r \in Requests
    <2>1. handled[c] \in Calls /\ handled[c].kind = "cancel"
      BY DEF ApiInv, ThreadsTyped, ThreadsHold, Cancel
    <2>. QED
      BY <2>1, CallsOfRequests
  <1>3. /\ cancelled' = Append(left, r) /\ aged' = {}
        /\ newer' = [q \in Requests |->
                        IF q = r THEN 0
                        ELSE IF newer[q] = None \/ q \in aged THEN None
                        ELSE newer[q] + 1]
    BY DEF Cancel
  <1>4. fresh \in Seq(Requests) /\ NoRepeats(fresh)
    BY <1>1, WithoutKeeps
  <1>5. kept \in Seq(Requests) /\ NoRepeats(kept)
    <2>. HIDE DEF fresh
    <2>1. CASE Len(fresh) < MaxCancelled
      BY <1>4, <2>1, LocalAssumption DEF RoomFor
    <2>2. CASE Len(fresh) >= MaxCancelled
      <3>1. fresh # << >> /\ kept = Tail(fresh)
        BY <1>4, <2>2, LocalAssumption DEF RoomFor
      <3>2. kept \in Seq(Requests) /\ Len(kept) = Len(fresh) - 1
            /\ \A k \in 1 .. Len(kept) : kept[k] = fresh[k + 1]
        BY <1>4, <3>1
      <3>. HIDE DEF kept
      <3>3. ASSUME NEW i \in 1 .. Len(kept), NEW j \in 1 .. Len(kept), kept[i] = kept[j]
            PROVE  i = j
        <4>1. i + 1 \in DOMAIN fresh /\ j + 1 \in DOMAIN fresh /\ fresh[i + 1] = fresh[j + 1]
          BY <1>4, <3>2, <3>3
        <4>. QED
          BY <1>4, <3>2, <4>1 DEF NoRepeats
      <3>. QED
        BY <3>2, <3>3 DEF NoRepeats
    <2>. QED
      BY <1>4, <2>1, <2>2, LocalAssumption
  <1>6. /\ left \in Seq(Requests) /\ NoRepeats(left)
        /\ \A k \in DOMAIN left : left[k] # r
    BY <1>5, WithoutKeeps
  <1>7. ASSUME NEW q \in Requests, q # r, q \notin aged, newer[q] # None
        PROVE  newer[q] + 1 >= MaxCancelled \/ Within(left, q, newer[q])
    <2>1. newer[q] \in Nat /\ (newer[q] >= MaxCancelled \/ Within(cancelled, q, newer[q]))
      BY <1>1, <1>7 DEF ApiInv, Remembered
    <2>2. CASE newer[q] >= MaxCancelled
      BY <2>1, <2>2, LocalAssumption
    <2>3. CASE Within(cancelled, q, newer[q])
      <3>1. Within(fresh, q, newer[q])
        BY <1>1, <1>7, <2>1, <2>3, WithoutIsWithin
      <3>. HIDE DEF fresh
      <3>2. PICK k \in DOMAIN fresh : fresh[k] = q /\ Len(fresh) - k <= newer[q]
        BY <3>1 DEF Within
      <3>3. k \in 1 .. Len(fresh) /\ Len(fresh) \in Nat
        BY <1>4
      <3>4. newer[q] + 1 >= MaxCancelled \/ Within(kept, q, newer[q])
        <4>1. CASE Len(fresh) < MaxCancelled
          <5>1. kept = fresh
            BY <3>3, <4>1, LocalAssumption DEF RoomFor
          <5>. QED
            BY <3>1, <5>1
        <4>2. CASE Len(fresh) >= MaxCancelled /\ k = 1
          BY <2>1, <3>2, <3>3, <4>2, LocalAssumption
        <4>3. CASE Len(fresh) >= MaxCancelled /\ k # 1
          <5>1. fresh # << >> /\ kept = Tail(fresh)
            BY <1>4, <4>3, LocalAssumption DEF RoomFor
          <5>2. Len(kept) = Len(fresh) - 1 /\ DOMAIN kept = 1 .. Len(fresh) - 1
                /\ \A l \in 1 .. Len(fresh) - 1 : kept[l] = fresh[l + 1]
            BY <1>4, <5>1
          <5>. HIDE DEF kept
          <5>3. k - 1 \in DOMAIN kept /\ kept[k - 1] = q /\ Len(kept) - (k - 1) <= newer[q]
            BY <2>1, <3>2, <3>3, <4>3, <5>2
          <5>. QED
            BY <5>3 DEF Within
        <4>. QED
          BY <3>3, <4>1, <4>2, <4>3, LocalAssumption
      <3>. HIDE DEF kept
      <3>5. Within(kept, q, newer[q]) => Within(left, q, newer[q])
        <4>1. q \notin {r}
          BY <1>7
        <4>. QED
          BY <1>5, <2>1, <4>1, WithoutIsWithin
      <3>. QED
        BY <3>4, <3>5
    <2>. QED
      BY <2>1, <2>2, <2>3
  <1>. HIDE DEF left, kept, fresh, r
  <1>8. /\ Append(left, r) \in Seq(Requests) /\ Len(Append(left, r)) = Len(left) + 1
        /\ DOMAIN Append(left, r) = 1 .. Len(left) + 1
        /\ Append(left, r)[Len(left) + 1] = r
        /\ \A k \in 1 .. Len(left) : Append(left, r)[k] = left[k]
        /\ DOMAIN left = 1 .. Len(left) /\ Len(left) \in Nat
    BY <1>2, <1>6
  <1>9. NoRepeats(cancelled')
    <2>1. ASSUME NEW i \in 1 .. Len(left) + 1, NEW j \in 1 .. Len(left) + 1,
                 Append(left, r)[i] = Append(left, r)[j]
          PROVE  i = j
      <3>1. CASE i \in 1 .. Len(left) /\ j \in 1 .. Len(left)
        BY <1>6, <1>8, <2>1, <3>1 DEF NoRepeats
      <3>2. CASE i = Len(left) + 1 \/ j = Len(left) + 1
        BY <1>6, <1>8, <2>1, <3>2
      <3>. QED
        BY <1>8, <3>1, <3>2
    <2>. QED
      BY <1>3, <1>8, <2>1 DEF NoRepeats
  <1>10. newer' \in [Requests -> Nat \cup {None}]
    BY <1>1, <1>3
  <1>11. TableTyped'
    BY <1>3, <1>8, <1>9, <1>10 DEF TableTyped
  <1>12. ASSUME NEW q \in Requests, newer'[q] # None
         PROVE  newer'[q] >= MaxCancelled \/ Within(cancelled', q, newer'[q])
    <2>1. CASE q = r
      <3>1. newer'[q] = 0 /\ Len(left) + 1 - (Len(left) + 1) <= 0
        BY <1>3, <1>8, <2>1
      <3>. QED
        BY <1>3, <1>8, <2>1, <3>1 DEF Within
    <2>2. CASE q # r
      <3>1. newer'[q] = newer[q] + 1 /\ newer[q] # None /\ q \notin aged /\ newer[q] \in Nat
        BY <1>1, <1>3, <1>12, <2>2
      <3>2. CASE newer[q] + 1 >= MaxCancelled
        BY <3>1, <3>2
      <3>3. CASE Within(left, q, newer[q])
        <4>1. PICK k \in 1 .. Len(left) : left[k] = q /\ Len(left) - k <= newer[q]
          BY <1>8, <3>3 DEF Within
        <4>2. Len(left) + 1 - k <= newer[q] + 1 /\ k \in 1 .. Len(left) + 1
          BY <1>8, <3>1, <4>1
        <4>3. Append(left, r)[k] = q
          BY <1>8, <4>1
        <4>. QED
          BY <1>3, <1>8, <3>1, <4>2, <4>3 DEF Within
      <3>. QED
        BY <1>7, <2>2, <3>1, <3>2, <3>3
    <2>. QED
      BY <2>1, <2>2
  <1>13. ASSUME NEW q \in Requests
         PROVE  Remembered(q)'
    BY <1>12 DEF Remembered
  <1>. QED
    BY <1>11, <1>13

(* What an action does to the threads, one after another.                  *)
LEMMA ThreadsGoOn ==
    ASSUME ApiInv, ApiNext
    PROVE  ThreadsTyped' /\ ThreadsHold'
  <1>. USE LocalAssumption DEF ApiInv, ThreadsTyped, Goto, eventVars, tableVars, Outside
  <1>0. None \notin Conns /\ \A k \in {"read", "change", "subscribe"} : Plain(k) \in Calls /\ Plain(k).kind = k
    BY DEF Calls, Plain
  <1>1. ASSUME NEW c \in Conns,
               StopReading(c) \/ BadLine(c) \/ ReplyRead(c) \/ ReplyFails(c) \/ LeaveConn(c)
        PROVE  ThreadsTyped' /\ ThreadsHold'
    <2>1. /\ pc[c] \in {"read", "reply", "leave"}
          /\ \E w \in {"read", "leave", "closed"} : pc' = [pc EXCEPT ![c] = w]
          /\ UNCHANGED <<handled, service, polls, registered, pump>>
          /\ subscribers' \subseteq subscribers
      BY <1>1 DEF StopReading, BadLine, ReplyRead, ReplyFails, LeaveConn
    <2>. QED
      BY <2>1 DEF ThreadsHold, Holding, InRelay
  <1>2. ASSUME NEW c \in Conns,
               HangUp(c) \/ Feed(c) \/ WindowRuns(c) \/ WriteEvent(c) \/ PumpEnds(c)
        PROVE  ThreadsTyped' /\ ThreadsHold'
    BY <1>2 DEF HangUp, Feed, WindowRuns, WriteEvent, PumpEnds, ThreadsHold, Holding, InRelay
  <1>3. ASSUME NEW c \in Conns, NEW m \in Makes[c], ReadCall(c, m)
        PROVE  ThreadsTyped' /\ ThreadsHold'
    <2>1. m \in Calls
      OBVIOUS
    <2>. QED
      BY <1>3, <2>1 DEF ReadCall, ThreadsHold, Holding, InRelay
  <1>4. ASSUME NEW c \in Conns, RunRead(c) \/ RefusePerform(c) \/ RunSubscribe(c)
        PROVE  ThreadsTyped' /\ ThreadsHold'
    <2>1. /\ pc[c] = "lock" /\ pc' = [pc EXCEPT ![c] = "reply"]
          /\ handled' = [handled EXCEPT ![c] = Plain("read")]
          /\ UNCHANGED <<service, polls>>
          /\ subscribers' \subseteq registered' /\ pump' \subseteq registered'
      BY <1>4 DEF RunRead, RefusePerform, RunSubscribe, Locks, Replied
    <2>. HIDE DEF Plain
    <2>. QED
      BY <1>0, <2>1 DEF ThreadsHold, Holding, InRelay
  <1>5. ASSUME NEW c \in Conns, RunChange(c)
        PROVE  ThreadsTyped' /\ ThreadsHold'
    BY <1>0, <1>5 DEF RunChange, Locks, ThreadsHold, Holding, InRelay
  <1>6. ASSUME NEW c \in Conns, SendRequest(c)
        PROVE  ThreadsTyped' /\ ThreadsHold'
    BY <1>0, <1>6 DEF SendRequest, Locks, ThreadsHold, Holding, InRelay
  <1>7. ASSUME NEW c \in Conns, Broadcast(c) \/ Finish(c)
        PROVE  ThreadsTyped' /\ ThreadsHold'
    <2>1. /\ pc[c] \in Holding /\ pc' = [pc EXCEPT ![c] = "reply"]
          /\ handled' = [handled EXCEPT ![c] = Plain("read")]
          /\ service' = None /\ polls' = polls
          /\ subscribers' \subseteq registered' /\ pump' \subseteq registered'
      BY <1>7 DEF Broadcast, Finish, Replied, Holding
    <2>2. service = c
      BY <2>1 DEF ThreadsHold
    <2>3. ThreadsTyped'
      BY <1>0, <2>1 DEF Holding
    <2>4. ThreadsHold'
      BY <1>0, <2>1, <2>2 DEF ThreadsHold, Holding, InRelay
    <2>. QED
      BY <2>3, <2>4
  <1>8. ASSUME NEW c \in Conns, Check(c) \/ NothingYet(c) \/ Hear(c)
        PROVE  ThreadsTyped' /\ ThreadsHold'
    <2>1. /\ pc[c] \in {"check", "receive"} /\ \E w \in InRelay : pc' = [pc EXCEPT ![c] = w]
          /\ UNCHANGED <<handled, service>>
          /\ polls' = polls \/ (pc[c] = "receive" /\ polls' = polls + 1)
          /\ pc'[c] = "receive" => polls' < MaxPolls
          /\ UNCHANGED <<subscribers, registered, pump>>
      BY <1>8 DEF Check, NothingYet, Hear, InRelay
    <2>2. service = c /\ \A d \in Conns : d # c => pc[d] # "receive"
      BY <1>0, <2>1 DEF ThreadsHold, Holding
    <2>3. ThreadsTyped'
      BY <2>1 DEF ThreadsHold, Holding, InRelay
    <2>4. ThreadsHold'
      BY <2>1, <2>2 DEF ThreadsHold, Holding, InRelay
    <2>. QED
      BY <2>3, <2>4
  <1>9. ASSUME NEW c \in Conns, Cancel(c)
        PROVE  ThreadsTyped' /\ ThreadsHold'
    <2>1. /\ pc[c] = "cancel" /\ pc' = [pc EXCEPT ![c] = "reply"]
          /\ handled' = [handled EXCEPT ![c] = Plain("read")]
          /\ UNCHANGED <<service, polls, subscribers, registered, pump>>
      BY <1>9 DEF Cancel, Replied
    <2>. QED
      BY <1>0, <2>1 DEF ThreadsHold, Holding, InRelay
  <1>10. CASE Age
    BY <1>10 DEF Age, ThreadsHold
  <1>. QED
    BY <1>1, <1>2, <1>3, <1>4, <1>5, <1>6, <1>7, <1>8, <1>9, <1>10 DEF ApiNext, Serve

LEMMA TableGoesOn ==
    ASSUME ApiInv, ApiNext
    PROVE  TableTyped' /\ \A r \in Requests : Remembered(r)'
  <1>1. CASE UNCHANGED tableVars
    BY <1>1, TableStays
  <1>2. ASSUME NEW c \in Conns, Check(c) \/ Finish(c)
        PROVE  TableTyped' /\ \A r \in Requests : Remembered(r)'
    <2>1. handled[c].req \in Requests
      <3>1. handled[c] \in Calls /\ handled[c].kind = "perform"
        BY <1>2 DEF Check, Finish, ApiInv, ThreadsTyped, ThreadsHold, InRelay
      <3>. QED
        BY <3>1, CallsOfRequests
    <2>2. Take(handled[c].req) \/ UNCHANGED tableVars
      BY <1>2 DEF Check, Finish
    <2>. QED
      BY <1>1, <2>1, <2>2, TakeKeeps
  <1>3. ASSUME NEW c \in Conns, Cancel(c)
        PROVE  TableTyped' /\ \A r \in Requests : Remembered(r)'
    BY <1>3, CancelKeeps
  <1>4. CASE Age
    BY <1>4 DEF Age, ApiInv, TableTyped, Entries, NoRepeats, Remembered, Within
  <1>5. ASSUME NEW c \in Conns,
               \/ WindowRuns(c) \/ StopReading(c) \/ ReplyFails(c) \/ LeaveConn(c)
               \/ RunRead(c) \/ RunChange(c) \/ Broadcast(c)
               \/ RunSubscribe(c) \/ RefusePerform(c) \/ SendRequest(c) \/ NothingYet(c)
               \/ PumpEnds(c) \/ HangUp(c) \/ BadLine(c) \/ Feed(c) \/ ReplyRead(c)
               \/ WriteEvent(c) \/ Hear(c) \/ \E m \in Makes[c] : ReadCall(c, m)
        PROVE  UNCHANGED tableVars
    BY <1>5 DEF WindowRuns, StopReading, ReplyFails, LeaveConn, RunRead, RunChange, Broadcast,
                RunSubscribe, RefusePerform, SendRequest, NothingYet, PumpEnds, HangUp, BadLine,
                Feed, ReplyRead, WriteEvent, Hear, ReadCall
  <1>. QED
    BY <1>1, <1>2, <1>3, <1>4, <1>5 DEF ApiNext, Serve

LEMMA ApiInvariant == ApiSpec => []ApiInv
  <1>1. ApiInv /\ [ApiNext]_localVars => ApiInv'
    <2>1. ApiInv /\ ApiNext => ApiInv'
      BY ThreadsGoOn, TableGoesOn DEF ApiInv
    <2>2. ApiInv /\ UNCHANGED localVars => ApiInv'
      <3>. SUFFICES ASSUME ApiInv, UNCHANGED localVars PROVE ApiInv'
        OBVIOUS
      <3>1. TableTyped' /\ \A r \in Requests : Remembered(r)'
        BY TableStays DEF localVars, tableVars
      <3>2. ThreadsTyped' /\ ThreadsHold'
        BY DEF localVars, ApiInv, ThreadsTyped, ThreadsHold
      <3>. QED
        BY <3>1, <3>2 DEF ApiInv
    <2>. QED
      BY <2>1, <2>2
  <1>. QED
    BY ApiInitially, <1>1, PTL DEF ApiSpec

(* The service is held by exactly the thread inside it, and the table has  *)
(* no request twice (handle_connection, cancel_webauthn).                  *)
THEOREM ApiTypeCorrect == ApiSpec => []ApiTypeOK
  <1>1. ApiInv => ApiTypeOK
    <2>. SUFFICES ASSUME ApiInv PROVE ApiTypeOK
      OBVIOUS
    <2>1. Len(cancelled) = Cardinality(Entries)
      <3>1. /\ Len(cancelled) \in Nat /\ DOMAIN cancelled = 1 .. Len(cancelled)
            /\ cancelled \in Surjection(1 .. Len(cancelled), Entries)
            /\ \A i, j \in 1 .. Len(cancelled) : cancelled[i] = cancelled[j] => i = j
        BY DEF ApiInv, TableTyped, NoRepeats, Entries, Surjection
      <3>2. cancelled \in Injection(1 .. Len(cancelled), Entries)
        BY <3>1 DEF Injection, Surjection, IsInjective
      <3>3. IsFiniteSet(1 .. Len(cancelled)) /\ Cardinality(1 .. Len(cancelled)) = Len(cancelled)
        BY <3>1, FS_Interval
      <3>4. /\ IsFiniteSet(Entries)
            /\ Cardinality(Entries) = Cardinality(1 .. Len(cancelled)) <=>
                 cancelled \in Injection(1 .. Len(cancelled), Entries)
        BY <3>1, <3>3, FS_Surjection
      <3>. QED
        BY <3>2, <3>3, <3>4
    <2>2. Entries \subseteq Requests
      BY DEF ApiInv, TableTyped, Entries
    <2>. QED
      BY <2>1, <2>2 DEF ApiInv, ThreadsTyped, ThreadsHold, TableTyped, ApiTypeOK
  <1>. QED
    BY <1>1, ApiInvariant, PTL

(* cancel_webauthn's bound loses a cancellation nobody has acted on only   *)
(* when as many cancel calls came after it as the table has room for.      *)
THEOREM CancellationsAreKept == ApiSpec => []CancelNotLost
  <1>1. ApiInv => CancelNotLost
    BY DEF ApiInv, TableTyped, Remembered, Within, CancelNotLost, Entries
  <1>. QED
    BY <1>1, ApiInvariant, PTL

=============================================================================
