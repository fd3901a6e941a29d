--------------------------- MODULE PairingService ---------------------------
(***************************************************************************)
(* Pairing, forgetting and reaching phones: the service (service.rs) and   *)
(* its pairing store (pairing.rs) composed with the LAN transport.         *)
(*                                                                         *)
(* IPC clients call the service under one mutex, so its calls exclude each *)
(* other, but connection threads never take that mutex: they run between   *)
(* the steps of a call.  A call that touches the transport more than once  *)
(* is therefore several steps, and svc says which call is under way.       *)
(*                                                                         *)
(* Of a stored device only its session identity matters here (Verifier     *)
(* models the credentials).  persist() replaces the file by a rename, so   *)
(* the disk holds the previous contents or the new ones.                   *)
(***************************************************************************)
EXTENDS QrNetwork

CONSTANTS
    StoredDevices,      \* device -> identity, what load() may find
    MaxCodes,           \* bound: pair.begin calls
    MaxFaults           \* bound: failed writes and restarts

VARIABLES
    store,              \* PairingStore.devices: device -> identity
    disk,               \* the store file
    svc,                \* [op, device]: the call in progress, or Idle
    held,               \* held_proposal
    begun,              \* codes generated; the last one is on screen
    shown,              \* <<attempt, digits>> pairs pair.pending reported
    installed,          \* history: the pairings confirm_pairing stored
    promised,           \* device -> what the last answered call left of it
    faults

svcVars == <<store, disk, svc, held, begun, shown, installed, promised, faults>>
vars == <<netVars, svcVars>>

ASSUME PairingAssumption ==
    /\ StoredDevices \subseteq [Devices -> Identities \cup {NoIdentity}]
    /\ MaxCodes \in Nat /\ MaxFaults \in Nat /\ MaxAttempts \in Nat

Idle == [op |-> "idle"]
Unsure == "unsure"
NoAttempt == 0

Init ==
    /\ NetInit
    /\ store \in StoredDevices /\ disk = store
    /\ known_peers = store          \* Service::new publishes
    /\ svc = Idle /\ held = NoProposal
    /\ begun = 0 /\ shown = {} /\ installed = {}
    /\ promised = store /\ faults = 0

-----------------------------------------------------------------------------
(* pair.begin: the held proposal is dropped and the new code armed. *)
BeginPairing(purpose) ==
    /\ svc = Idle
    /\ begun < MaxCodes
    /\ begun' = begun + 1
    /\ held' = NoProposal
    /\ arm_pairing([id |-> begun + 1, purpose |-> purpose])
    /\ UNCHANGED <<known_peers, sessions, conn, attempts, expired, store, disk, svc,
                   shown, installed, promised, faults>>

(* pair.cancel *)
CancelPairing ==
    /\ svc = Idle
    /\ held' = NoProposal
    /\ cancel_pairing
    /\ UNCHANGED <<known_peers, sessions, conn, attempts, expired, store, disk, svc,
                   begun, shown, installed, promised, faults>>

(* pair.pending: asking is not consuming.  With a proposal already held it *)
(* answers the same again and changes nothing.                             *)
PendingPairing ==
    /\ svc = Idle
    /\ held = NoProposal /\ proposal # NoProposal
    /\ held' = proposal
    /\ proposal' = NoProposal
    /\ shown' = shown \cup {<<proposal.attempt, proposal.digits>>}
    /\ UNCHANGED <<known_peers, armed, sessions, conn, attempts, expired, store, disk, svc,
                   begun, installed, promised, faults>>

(* Mutant of Persisted: the write is forgotten. *)
NotPersisted(new) == UNCHANGED <<disk, faults>>

(* PairingStore::insert and ::remove change memory, then persist() it; a   *)
(* failed write leaves the change in memory.                               *)
Persisted(new) == disk' = new /\ UNCHANGED faults
WriteFails == faults < MaxFaults /\ faults' = faults + 1 /\ UNCHANGED disk

(* The tail of confirm_pairing: insert, then install_pairing's publish as  *)
(* a step of its own, or the error of a failed write, which skips it.      *)
Install(p, quoted) ==
    LET new == [store EXCEPT ![p.device] = p.identity] IN
    /\ store' = new
    /\ promised' = [promised EXCEPT ![p.device] = Unsure]
    /\ installed' = installed \cup
        {[attempt |-> p.attempt, digits |-> p.digits, quoted |-> quoted,
          device |-> p.device, identity |-> p.identity, purpose |-> p.purpose]}
    /\ \/ Persisted(new) /\ svc' = [op |-> "install", device |-> p.device]
       \/ WriteFails /\ UNCHANGED svc

(* Mutant of StaleAttempt: only the digits are compared. *)
NeverStale(quoted) == FALSE

(* A quoted attempt that has been replaced is refused and consumes         *)
(* nothing.                                                                *)
StaleAttempt(quoted) == quoted # NoAttempt /\ quoted # held.attempt

(* pair.confirm.  A wrong code, or a credential id another key holds (see  *)
(* Conflicts in PairingRecords), consumes the proposal and stores nothing. *)
ConfirmPairing(quoted, digits) ==
    /\ svc = Idle
    /\ held # NoProposal
    /\ ~StaleAttempt(quoted)
    /\ held' = NoProposal
    /\ \/ digits = held.digits /\ Install(held, quoted)
       \/ UNCHANGED <<store, disk, svc, installed, promised, faults>>
    /\ UNCHANGED <<netVars, begun, shown>>

(* publish_known_peers, and the reply. *)
InstallPublish ==
    /\ svc.op = "install"
    /\ set_known_peers(store)
    /\ svc' = Idle
    /\ promised' = [promised EXCEPT ![svc.device] = store[svc.device]]
    /\ UNCHANGED <<armed, proposal, sessions, conn, attempts, expired, store, disk,
                   held, begun, shown, installed, faults>>

-----------------------------------------------------------------------------
(* devices.forget: remove, publish, discard. *)
ForgetRemove(d) ==
    LET new == [store EXCEPT ![d] = NoIdentity] IN
    /\ svc = Idle
    /\ store[d] # NoIdentity
    /\ store' = new
    /\ promised' = [promised EXCEPT ![d] = Unsure]
    /\ \/ Persisted(new) /\ svc' = [op |-> "forget publish", device |-> d]
       \/ WriteFails /\ UNCHANGED svc
    /\ UNCHANGED <<netVars, held, begun, shown, installed>>

ForgetPublish ==
    /\ svc.op = "forget publish"
    /\ set_known_peers(store)
    /\ svc' = [svc EXCEPT !.op = "forget discard"]
    /\ UNCHANGED <<armed, proposal, sessions, conn, attempts, expired, store, disk,
                   held, begun, shown, installed, promised, faults>>

ForgetDiscard ==
    /\ svc.op = "forget discard"
    /\ discard_sessions(svc.device)
    /\ svc' = Idle
    /\ promised' = [promised EXCEPT ![svc.device] = NoIdentity]
    /\ UNCHANGED <<known_peers, armed, proposal, conn, attempts, expired, store, disk,
                   held, begun, shown, installed, faults>>

-----------------------------------------------------------------------------
(* connect(): a request for a stored device takes its parked session and   *)
(* keeps the mutex until it closes it.  A wait that ends empty leaves only *)
(* the sweep it made, which is a Reap.                                     *)
TakeSession(d, cid) ==
    LET pool == discard_stale(sessions) IN
    /\ svc = Idle
    /\ store[d] # NoIdentity
    /\ \E i \in Matching(pool, d, cid) :
        /\ sessions' = Kept(pool, DOMAIN pool \ {i})
        /\ svc' = [op |-> "request", device |-> d, credential |-> cid, session |-> pool[i]]
    /\ UNCHANGED <<known_peers, armed, proposal, conn, attempts, expired, store, disk,
                   held, begun, shown, installed, promised, faults>>

RequestEnds ==
    /\ svc.op = "request"
    /\ svc' = Idle
    /\ UNCHANGED <<netVars, store, disk, held, begun, shown, installed, promised, faults>>

(* The agent stops at any point and is started again: load(), and          *)
(* Service::new publishes what was loaded.                                 *)
Restart ==
    /\ faults < MaxFaults
    /\ faults' = faults + 1
    /\ store' = disk
    /\ set_known_peers(disk)
    /\ armed' = NoCode /\ proposal' = NoProposal /\ held' = NoProposal
    /\ sessions' = << >> /\ conn' = [c \in Conns |-> Closed]
    /\ svc' = Idle
    /\ UNCHANGED <<attempts, expired, disk, begun, shown, installed, promised>>

(* A phone dials: one that scanned the code on screen, or one that         *)
(* reconnects with the identity it stored.                                 *)
Dial(c, p) ==
    /\ \/ Accept(c, p, "resume", 0)
       \/ begun > 0 /\ Accept(c, p, "pair", begun)
    /\ UNCHANGED svcVars

CodeExpires ==
    /\ expired < begun
    /\ expired' = expired + 1
    /\ UNCHANGED <<known_peers, armed, proposal, sessions, conn, attempts, svcVars>>

Serve(c) == ConnStep(c) /\ UNCHANGED svcVars
Ages == \E i \in DOMAIN sessions : GrowIdle(i) /\ UNCHANGED svcVars
Reaper == Reap /\ UNCHANGED svcVars
Finishing == InstallPublish \/ ForgetPublish \/ ForgetDiscard \/ RequestEnds

Next ==
    \/ \E purpose \in Purposes : BeginPairing(purpose)
    \/ CancelPairing \/ PendingPairing
    \/ \E quoted \in 0 .. attempts, digits \in Digits : ConfirmPairing(quoted, digits)
    \/ \E d \in Devices : ForgetRemove(d)
    \/ Finishing
    \/ \E d \in Devices, cid \in Attachable : TakeSession(d, cid)
    \/ \E c \in Conns, p \in Peers : Dial(c, p)
    \/ \E c \in Conns : Serve(c)
    \/ \E i \in DOMAIN sessions : HangUp(i) /\ UNCHANGED svcVars
    \/ Ages \/ Reaper \/ CodeExpires \/ Restart

(* Threads go on (every read has a timeout, so some step of a connection   *)
(* is always possible), the reaper keeps waking up, sessions grow old, and *)
(* a service call that started finishes.  Nothing is assumed of phones and *)
(* users.                                                                  *)
Fairness ==
    /\ \A c \in Conns : WF_vars(Serve(c))
    /\ WF_vars(Ages) /\ WF_vars(Reaper) /\ WF_vars(Finishing)

Spec == Init /\ [][Next]_vars /\ Fairness
-----------------------------------------------------------------------------
Code == [id : 0 .. MaxCodes, purpose : Purposes \cup {"none"}]
Proposal == [attempt : 1 .. MaxAttempts, device : Devices, identity : Identities,
             purpose : Purposes, digits : Digits]
Session == [device : Devices, credential : Attachable \cup {AnyCredential},
            identity : Identities, up : BOOLEAN, idle : BOOLEAN]
Connection ==
    [pc : {"greeted"}, peer : Peers, mode : {"pair", "resume"},
     scanned : 0 .. MaxCodes, armed : Code]
    \cup [pc : {"enrolling", "peeking"}, peer : Peers, mode : {"pair", "resume"}, armed : Code]
    \cup [pc : {"attaching"}, peer : Peers]
    \cup {Closed}
DeviceTable == [Devices -> Identities \cup {NoIdentity}]

TypeOK ==
    /\ known_peers \in DeviceTable /\ store \in DeviceTable /\ disk \in DeviceTable
    /\ armed \in Code
    /\ proposal \in Proposal \cup {NoProposal} /\ held \in Proposal \cup {NoProposal}
    /\ sessions \in Seq(Session)
    /\ conn \in [Conns -> Connection]
    /\ promised \in [Devices -> Identities \cup {NoIdentity, Unsure}]
    /\ begun \in 0 .. MaxCodes /\ expired \in 0 .. begun
    /\ attempts \in 0 .. MaxAttempts /\ faults \in 0 .. MaxFaults

(* A peer can only ever occupy the places of its own device: the pool      *)
(* holds at most MAX_SESSIONS_PER_DEVICE sessions of a device and one per  *)
(* key, and parking one never costs another phone a session that is still  *)
(* good ("so a phone cannot crowd out another phone's",                    *)
(* enforce_session_cap), nor its own phone more than one.                  *)
CrowdsNobodyOut ==
    LET New  == ToSet(sessions') \ ToSet(sessions)
        Gone == {s \in ToSet(sessions) : Live(s)} \ ToSet(sessions')
    IN  conn' # conn /\ New # {} /\ sessions' # sessions =>
          /\ \A n \in New, g \in Gone : g.device = n.device
          /\ Cardinality(Gone) <= 1
          /\ \A d \in Devices : Cardinality(Of(sessions', d)) <= MAX_SESSIONS_PER_DEVICE
          /\ \A i, j \in DOMAIN sessions' :
               SameKey(sessions'[i], sessions'[j].device, sessions'[j].credential) => i = j

NoCrowdingOut == [][CrowdsNobodyOut]_vars

(* "A pairing session ... is never parked for authorization"               *)
(* (serve_connection): whoever has a session in the pool proved an         *)
(* identity that was stored when the agent started or that a user          *)
(* confirmed, whatever codes were armed while it connected.                *)
OnlyConfirmedPhonesPark ==
    \A s \in ToSet(sessions) :
        \/ \E devs \in StoredDevices : devs[s.device] = s.identity
        \/ \E x \in installed : x.device = s.device /\ x.identity = s.identity

(* A pairing is stored only for an attempt whose code was put on a screen  *)
(* and confirmed with the digits of that very handshake, and a client that *)
(* quoted an attempt got that one, even when another attempt that replaced *)
(* it ends in the same digits (confirm_pairing; invariant 10 of            *)
(* docs/pairing-reliability-plan.md).                                      *)
OnlyWhatWasConfirmed ==
    \A x \in installed :
        /\ <<x.attempt, x.digits>> \in shown
        /\ x.quoted \in {NoAttempt, x.attempt}

(* What an answered pair.confirm or devices.forget said about a device is  *)
(* what the disk holds, through failed writes of other calls and restarts. *)
AnsweredIsDurable ==
    \A d \in Devices : promised[d] # Unsure => disk[d] = promised[d]

(* A forgotten phone loses its way in: when a device stays forgotten, its  *)
(* sessions are gone for good, including one that a connection thread      *)
(* parked after forget() had discarded them, and whatever failed or        *)
(* restarted.  The exception is forget() failing to write the file: it     *)
(* returns before publish_known_peers, so the phone is out of the store in *)
(* memory and still among the known peers, until some other call publishes *)
(* the list.                                                               *)
ForgottenPhoneFades ==
    \A d \in Devices :
        <>[](store[d] = NoIdentity /\ (promised[d] = NoIdentity \/ known_peers[d] = NoIdentity))
            => <>[](Of(sessions, d) = {})

=============================================================================
