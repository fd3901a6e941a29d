------------------------------ MODULE Verifier ------------------------------
(***************************************************************************)
(* phone-auth-verifier: issuing authorization requests and deciding        *)
(* whether an answer grants them (verifier.rs, replay.rs), together with   *)
(* the store changes that can fall between the two (pairing.rs) and the    *)
(* phone that signs.                                                       *)
(*                                                                         *)
(* The verifier is modelled as the library it is: its caller may hold      *)
(* several PendingAuthorizations, keep a clone of one (the type derives    *)
(* Clone), present any frame on any session, and change the store between  *)
(* issue() and accept().  AgentService.tla models the one caller the       *)
(* repository has, which serialises all of that behind a mutex.            *)
(*                                                                         *)
(* A session binding is derived from the handshake transcript, so it names *)
(* one session: it is modelled by the session itself.  A signature is a    *)
(* pair of a key and the payload it signs; only the holder of the key      *)
(* makes one, so the valid signatures are exactly those in signatures.     *)
(* The wall clock now is SystemTime: it may step in either direction.      *)
(***************************************************************************)
EXTENDS PairingRecords, Integers, Sequences

CONSTANTS
    RequestIds,         \* random::request_id() never repeats: each is used once
    Sessions,
    Security,           \* Sessions -> TransportSecurity
    Stored,             \* device maps PairingStore::load may find on disk
    Enrolments,         \* <<device, credential>> pairs a phone may enrol
    Validities,         \* validity_ms values a caller asks for
    MAX_VALIDITY_MS,
    Times,              \* readings of the wall clock
    Capacity,           \* ReplayGuard capacity
    MaxJudged,          \* bound: answers judged in a behaviour
    MaxSignatures       \* bound: signatures the phones make

VARIABLES
    now,                \* the wall clock
    devices,            \* PairingStore.devices
    seen, order,        \* ReplayGuard
    pending,            \* PendingAuthorizations callers hold
    issued,             \* request ids generated so far
    signatures,         \* [key, payload] signed by the phones
    judged,             \* history: the answers accept() spent a request id on
    grants              \* history: the Grants returned, with the key that signed

vars == <<now, devices, seen, order, pending, issued, signatures, judged, grants>>

-----------------------------------------------------------------------------
Request ==
    [request_id : RequestIds, credential_id : CredentialIds, fields : Fields,
     issued_at : Int, expires_at : Int, session : Sessions]

Signature == [key : Keys, payload : Request]

NoSignature == [none |-> TRUE]

(* A decoded AuthResponse. mine: verifierId and protocolVersion are the    *)
(* request's.  A frame that does not decode is refused at the same place   *)
(* and with the same effect as one that is not mine.                       *)
Frame ==
    [request_id : RequestIds, credential_id : CredentialIds, mine : BOOLEAN,
     decision : {"Authorized", "Denied"}, signature : signatures \cup {NoSignature}]

Grant ==
    [request : Request, session : Sessions, device : DeviceIds, key : Keys,
     kind : KeyKind, at : Times]

ASSUME CapacityAssumption == Capacity \in Nat \ {0}   \* with_capacity: max(1)

ASSUME ClockAssumption ==
    /\ MAX_VALIDITY_MS \in Nat \ {0}
    /\ Times \subseteq Int
    /\ Validities \subseteq Int

ASSUME EnrolmentAssumption ==
    \A e \in Enrolments : /\ e[1] \in DeviceIds
                          /\ e[2] \in PairedCredential
                          /\ e[2].permissions = {}

(* The file was written by an earlier run, so its ids are unique too. *)
Unique(devs) ==
    \A d, o \in DeviceIds : \A c \in devs[d], e \in devs[o] :
        c.credential_id = e.credential_id => d = o /\ c = e

ASSUME StoredAssumption == \A devs \in Stored : devs \in DeviceMap /\ Unique(devs)

TypeOK ==
    /\ now \in Times
    /\ devices \in DeviceMap
    /\ seen \subseteq RequestIds
    /\ order \in Seq(RequestIds)
    /\ pending \subseteq Request
    /\ issued \subseteq RequestIds
    /\ signatures \subseteq Signature
    /\ judged \in Seq(RequestIds)
    /\ grants \subseteq Grant

Init ==
    /\ now \in Times
    /\ devices \in Stored
    /\ seen = {} /\ order = << >>
    /\ pending = {} /\ issued = {} /\ signatures = {}
    /\ judged = << >> /\ grants = {}

-----------------------------------------------------------------------------
(* replay.rs *)

(* Mutant of Consume: evicts when full rather than when overfull. *)
ConsumeEvictsEarly(id) ==
    LET longer == Append(order, id)
        full   == Len(longer) >= Capacity
    IN  /\ order' = IF full THEN Tail(longer) ELSE longer
        /\ seen' = IF full THEN (seen \cup {id}) \ {Head(longer)} ELSE seen \cup {id}

(* ReplayGuard::consume for an id that is not in seen: remember it, and    *)
(* forget the oldest one when that makes one too many.                     *)
Consume(id) ==
    LET longer == Append(order, id)
        full   == Len(longer) > Capacity
    IN  /\ order' = IF full THEN Tail(longer) ELSE longer
        /\ seen' = IF full THEN (seen \cup {id}) \ {Head(longer)} ELSE seen \cup {id}

-----------------------------------------------------------------------------
(* verifier.rs *)

suitable_for_authorization(s) == Security[s].confidential /\ Security[s].peer_authenticated

clamp(v) == IF v < 1 THEN 1 ELSE IF v > MAX_VALIDITY_MS THEN MAX_VALIDITY_MS ELSE v

is_expired_at(r, t) == t >= r.expires_at

(* The checks of issue() that need no user: a phone is never made to buzz  *)
(* for a request this machine would refuse.                                *)
Issuable(cid, fields, s) ==
    /\ suitable_for_authorization(s)
    /\ \E d \in DeviceIds : \E c \in devices[d] :
        /\ c.credential_id = cid
        /\ c.purpose = for_service(fields.service)
        /\ c.purpose = "DiskUnlock" =>
            allowed_at_boot(c.key_kind) /\ ~Security[s].is_development
        /\ permits(c.permissions, fields)

(* Verifier::issue.  A refusal changes nothing and has no step. *)
Issue(id, cid, fields, validity, s) ==
    /\ id \notin issued
    /\ Issuable(cid, fields, s)
    /\ issued' = issued \cup {id}
    /\ pending' = pending \cup
        {[request_id |-> id, credential_id |-> cid, fields |-> fields,
          issued_at |-> now, expires_at |-> now + clamp(validity), session |-> s]}
    /\ UNCHANGED <<now, devices, seen, order, signatures, judged, grants>>

(* The checks of accept() before the request id is spent: the channel, the *)
(* session binding, and a frame that answers this request.                 *)
Answers(r, f, s) ==
    /\ suitable_for_authorization(s)
    /\ s = r.session
    /\ f.mine
    /\ f.request_id = r.request_id
    /\ f.credential_id = r.credential_id

(* Mutants of verify_authorization: only the request id is covered by the  *)
(* signature; nothing is.                                                  *)
verify_request_id(key, r, f) ==
    \E x \in signatures :
        f.signature = x /\ x.key = key /\ x.payload.request_id = r.request_id

verify_nothing(key, r, f) == TRUE

(* signature::verify_authorization: the signature was made by this key     *)
(* over exactly this request.                                              *)
verify_authorization(key, r, f) == f.signature = [key |-> key, payload |-> r]

(* Mutant of Granting: the policy is not checked again. *)
GrantingByIssueTimePolicy(r, f, d, c) ==
    /\ ~is_expired_at(r, now)
    /\ f.decision = "Authorized"
    /\ HeldBy(devices, r.credential_id, d, c)
    /\ verify_authorization(c.public_key, r, f)

(* The checks of accept() after the request id is spent. *)
Granting(r, f, d, c) ==
    /\ ~is_expired_at(r, now)
    /\ f.decision = "Authorized"
    /\ HeldBy(devices, r.credential_id, d, c)
    /\ permits(c.permissions, r.fields)
    /\ verify_authorization(c.public_key, r, f)

(* What accept() does once it knows the frame answers the request: spend   *)
(* the id first, whatever the outcome, then decide.                        *)
Judge(r, f, s) ==
    /\ r.request_id \notin seen
    /\ Len(judged) < MaxJudged
    /\ Consume(r.request_id)
    /\ judged' = Append(judged, r.request_id)
    /\ \/ /\ ~ \E d \in DeviceIds : \E c \in devices[d] : Granting(r, f, d, c)
          /\ UNCHANGED grants
       \/ \E d \in DeviceIds : \E c \in devices[d] :
            /\ Granting(r, f, d, c)
            /\ grants' = grants \cup
                {[request |-> r, session |-> s, device |-> d,
                  key |-> c.public_key, kind |-> c.key_kind, at |-> now]}

(* Verifier::accept.  It consumes its PendingAuthorization; a caller that  *)
(* cloned it first still holds one.  An answer that is refused before the  *)
(* id is spent, or because it was spent before, only costs that value.     *)
Accept(r, f, s) ==
    /\ r \in pending
    /\ \/ /\ Answers(r, f, s)
          /\ Judge(r, f, s)
       \/ /\ ~Answers(r, f, s) \/ r.request_id \in seen
          /\ UNCHANGED <<seen, order, judged, grants>>
    /\ pending' \in {pending, pending \ {r}}
    /\ UNCHANGED <<now, devices, issued, signatures>>

-----------------------------------------------------------------------------
(* The store, changed through Verifier::store_mut. *)

(* Service::confirm_pairing -> PairingStore::insert; a conflict changes    *)
(* nothing.                                                                *)
Pair(d, c) ==
    /\ ~Conflicts(devices, d, {c})
    /\ devices' = Inserted(devices, d, {c})
    /\ UNCHANGED <<now, seen, order, pending, issued, signatures, judged, grants>>

(* Service::forget -> PairingStore::remove *)
Forget(d) ==
    /\ Paired(devices, d)
    /\ devices' = Removed(devices, d)
    /\ UNCHANGED <<now, seen, order, pending, issued, signatures, judged, grants>>

KnownCredential(d, cid) == \E c \in devices[d] : HeldBy(devices, cid, d, c)

(* Service::set_permissions: the device is cloned, one credential's        *)
(* permissions are replaced, and the clone is inserted.                    *)
SetPermissions(d, cid, perms) ==
    /\ KnownCredential(d, cid)
    /\ ~Conflicts(devices, d, Edited(devices[d], cid, perms))
    /\ devices' = Inserted(devices, d, Edited(devices[d], cid, perms))
    /\ UNCHANGED <<now, seen, order, pending, issued, signatures, judged, grants>>

-----------------------------------------------------------------------------
(* The phones and the clock. *)

(* A phone signs what it was shown after its user approved.  It may have   *)
(* been shown an issued request as it is, or one relayed to it over        *)
(* another session, or with other fields: its signature covers what it saw.*)
Sign(key, r) ==
    /\ Cardinality(signatures) < MaxSignatures
    /\ signatures' = signatures \cup {[key |-> key, payload |-> r]}
    /\ UNCHANGED <<now, devices, seen, order, pending, issued, judged, grants>>

Shown(r, s, f) == [r EXCEPT !.session = s, !.fields = f]

ClockMoves ==
    /\ now' \in Times
    /\ UNCHANGED <<devices, seen, order, pending, issued, signatures, judged, grants>>

-----------------------------------------------------------------------------
Next ==
    \/ \E id \in RequestIds, cid \in CredentialIds, f \in Fields,
          v \in Validities, s \in Sessions : Issue(id, cid, f, v, s)
    \/ \E r \in pending, f \in Frame, s \in Sessions : Accept(r, f, s)
    \/ \E e \in Enrolments : Pair(e[1], e[2])
    \/ \E d \in DeviceIds : Forget(d)
    \/ \E d \in DeviceIds, cid \in CredentialIds, perms \in SUBSET Permissions :
          SetPermissions(d, cid, perms)
    \/ \E key \in Keys, r \in pending, s \in Sessions, f \in Fields :
          Sign(key, Shown(r, s, f))
    \/ ClockMoves

Spec == Init /\ [][Next]_vars

-----------------------------------------------------------------------------
(* find_credential promises that "a request naming a credential identifies *)
(* exactly one phone" (pairing.rs): no sequence of pairings, edits and     *)
(* removals leaves an id on two devices, or twice on one.                  *)
UniqueCredentials == Unique(devices)

(* A request id is spent by the first answer judged for it, whatever that  *)
(* answer was (a denial, a bad signature, an expired request): judging the *)
(* same id again takes at least Capacity other answers in between, because *)
(* only eviction from the bounded ReplayGuard can forget it.               *)
SpentOnce ==
    \A i, j \in 1 .. Len(judged) :
        i < j /\ judged[i] = judged[j] => j - i > Capacity

(* Whatever frames arrive on whatever sessions, a grant exists only for a  *)
(* request that was issued on the very session the answer came over and    *)
(* that the credential's key signed exactly as issued: what another        *)
(* session carried, or a request with other fields, never grants.          *)
GrantIsTheUsersAnswer ==
    \A g \in grants :
        /\ g.request.request_id \in issued
        /\ g.session = g.request.session
        /\ suitable_for_authorization(g.session)
        /\ [key |-> g.key, payload |-> g.request] \in signatures

(* A grant made by this step. *)
NewGrants == grants' \ grants

(* A device unpaired, or a permission narrowed, while the phone was being  *)
(* tapped denies the answer that arrives afterwards, even though issue()   *)
(* had accepted the request: no step grants against a record that is not   *)
(* in the store at that moment (verifier.rs, accept).                      *)
RevocationHolds ==
    [][\A g \in NewGrants :
          \E c \in devices[g.device] :
             /\ c.credential_id = g.request.credential_id
             /\ c.public_key = g.key
             /\ permits(c.permissions, g.request.fields)]_vars
=============================================================================
