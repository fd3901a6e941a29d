----------------------------- MODULE QrNetwork -----------------------------
(***************************************************************************)
(* The LAN transport of the desktop agent (qr_network.rs): a listener that *)
(* runs one thread per inbound connection, the pairing code on screen, the *)
(* proposal a completed pairing leaves, the mirror of the paired devices,  *)
(* and the pool of parked sessions, all behind one State mutex that every  *)
(* thread takes and releases several times while a connection is served.   *)
(*                                                                         *)
(* A peer is whoever dials: it claims a device id and proves possession of *)
(* an identity key.  It either scanned a code ("pair") or reconnects with  *)
(* a stored identity ("resume"); a legacy peer does not say which.  What   *)
(* the peer checks of the server hello is ClientHandshake::respond.        *)
(* Reads that time out and peers that hang up end a connection with an     *)
(* error that is only recorded (accept_loop).                              *)
(***************************************************************************)
EXTENDS Integers, FiniteSets, Sequences, SequencesExt, Selection

CONSTANTS
    Peers,              \* [device, identity, legacy] of whoever may dial
    Conns,              \* threads serving inbound connections at one time
    Attachable,         \* credential ids a phone may name in its attach frame
    Purposes,           \* credential purposes a code may ask for
    Digits,             \* verification codes a handshake may end in
    MAX_SESSIONS_PER_DEVICE,
    MaxAttempts         \* bound: proposals published in a behaviour

VARIABLES
    known_peers,        \* device -> identity key, mirrored from the store
    armed,              \* armed_pairing: the code on the wire, or NoCode
    proposal,           \* a completed pairing nobody has collected yet
    sessions,           \* the pool, oldest parked_at first
    conn,               \* what each connection thread holds
    attempts,           \* attempt ids handed out (random::request_id)
    expired             \* codes numbered up to this are past expires_at_ms

netVars == <<known_peers, armed, proposal, sessions, conn, attempts, expired>>

Devices == {p.device : p \in Peers}
Identities == {p.identity : p \in Peers}
NoIdentity == "unknown"
AnyCredential == "any"          \* SessionKey's None: serves any credential
NoCode == [id |-> 0, purpose |-> "none"]
NoProposal == [attempt |-> 0]
Closed == [pc |-> "closed"]

ASSUME PeersAssumption ==
    /\ NoIdentity \notin Identities
    /\ MAX_SESSIONS_PER_DEVICE \in Nat \ {0}

NetInit ==
    /\ armed = NoCode /\ proposal = NoProposal
    /\ sessions = << >>
    /\ conn = [c \in Conns |-> Closed]
    /\ attempts = 0 /\ expired = 0

-----------------------------------------------------------------------------
(* The pool *)

(* answers() and the idle window: what a session needs to be kept. *)
Live(s) == s.up /\ ~s.idle

discard_stale(pool) == Kept(pool, {i \in DOMAIN pool : Live(pool[i])})

Of(pool, d) == {i \in DOMAIN pool : pool[i].device = d}

SameKey(s, d, cid) == s.device = d /\ s.credential = cid

Without(pool, d, cid) == Kept(pool, {i \in DOMAIN pool : ~SameKey(pool[i], d, cid)})

(* Mutant of enforce_session_cap: one cap for the whole pool. *)
enforce_pool_cap(pool, d) ==
    IF Len(pool) < MAX_SESSIONS_PER_DEVICE THEN pool ELSE Tail(pool)

(* The oldest session of that device goes when the pool holds as many of   *)
(* the device's as it may.  The loop runs once at most: the pool never     *)
(* holds more than the cap.                                                *)
enforce_session_cap(pool, d) ==
    IF Cardinality(Of(pool, d)) < MAX_SESSIONS_PER_DEVICE THEN pool
    ELSE LET oldest == CHOOSE i \in Of(pool, d) : \A j \in Of(pool, d) : i <= j
         IN  Kept(pool, DOMAIN pool \ {oldest})

(* The tail of serve_connection: a key already held is replaced and costs  *)
(* nothing, a new key makes room within the device's own sessions.         *)
Parked(pool, p, cid) ==
    LET fresh == discard_stale(pool)
        held  == \E i \in DOMAIN fresh : SameKey(fresh[i], p.device, cid)
        room  == IF held THEN Without(fresh, p.device, cid)
                         ELSE enforce_session_cap(fresh, p.device)
    IN  Append(room, [device |-> p.device, credential |-> cid, identity |-> p.identity,
                      up |-> TRUE, idle |-> FALSE])

(* take_matching: that credential's session, else a legacy phone's. *)
Matching(pool, d, cid) ==
    LET exact == {i \in DOMAIN pool : SameKey(pool[i], d, cid)}
        other == {i \in DOMAIN pool : SameKey(pool[i], d, AnyCredential)}
    IN  IF exact # {} THEN exact ELSE other

-----------------------------------------------------------------------------
(* Operations the service calls.  Each takes the State mutex once. *)

arm_pairing(code) == armed' = code /\ proposal' = NoProposal

cancel_pairing == armed' = NoCode /\ proposal' = NoProposal

set_known_peers(peers) == known_peers' = peers

discard_sessions(d) ==
    sessions' = Kept(sessions, {i \in DOMAIN sessions : sessions[i].device # d})

-----------------------------------------------------------------------------
(* serve_connection, one step per stretch between two blocking points. *)

Unexpired(code) == code.id > expired

(* Whether the peer goes on after reading the server hello: a scanned code *)
(* must be the one the hello carries, and a hello past its deadline is     *)
(* refused either way.  A hello that is not a code is made for this        *)
(* connection and outlives it.                                             *)
PeerAnswers(cn) ==
    /\ cn.mode = "pair" => cn.scanned = cn.armed.id
    /\ cn.armed # NoCode => Unexpired(cn.armed)

Close(c) == conn' = [conn EXCEPT ![c] = Closed]

(* accept_loop spawns a thread; armed_pairing is cloned and the hello      *)
(* built from the clone, or from a bootstrap of its own.                   *)
Accept(c, p, mode, scanned) ==
    /\ conn[c] = Closed
    /\ conn' = [conn EXCEPT ![c] =
            [pc |-> "greeted", peer |-> p, mode |-> mode, scanned |-> scanned,
             armed |-> armed]]
    /\ UNCHANGED <<known_peers, armed, proposal, sessions, attempts, expired>>

(* Mutant of NextPc: a stranger that says it resumes is believed. *)
NextPcByIntent(cn) ==
    IF cn.mode = "pair" /\ cn.armed # NoCode THEN "enrolling" ELSE "attaching"

(* The peer it is now serving, and how the handshake finishes for it. *)
NextPc(cn) ==
    LET known   == known_peers[cn.peer.device]
        pairing == cn.armed # NoCode
    IN  CASE known = cn.peer.identity /\ ~pairing -> "attaching"
          [] known = cn.peer.identity /\ pairing /\ cn.peer.legacy -> "peeking"
          [] known = cn.peer.identity /\ pairing /\ ~cn.peer.legacy ->
                IF cn.mode = "pair" THEN "enrolling" ELSE "attaching"
          [] known = NoIdentity /\ pairing -> "enrolling"
          [] OTHER -> "closed"

(* What the thread goes on with. *)
Going(cn, pc) ==
    CASE pc = "closed"    -> Closed
      [] pc = "attaching" -> [pc |-> pc, peer |-> cn.peer]
      [] OTHER            -> [pc |-> pc, peer |-> cn.peer, mode |-> cn.mode, armed |-> cn.armed]

(* The client hello arrives: look the claimed device up in known_peers and *)
(* finish() against the stored key, or as a pairing, or not at all.        *)
Finish(c) ==
    /\ conn[c].pc = "greeted"
    /\ PeerAnswers(conn[c])
    /\ conn' = [conn EXCEPT ![c] = Going(@, NextPc(@))]
    /\ UNCHANGED <<known_peers, armed, proposal, sessions, attempts, expired>>

(* The enrolment arrives: a credential for another purpose than the cloned *)
(* code's is refused; otherwise the code on the wire is taken down and the *)
(* proposal published.                                                     *)
Enrol(c, purpose, digits) ==
    LET cn == conn[c] IN
    /\ cn.pc \in {"enrolling", "peeking"}
    /\ cn.mode = "pair"
    /\ attempts < MaxAttempts
    /\ Close(c)
    /\ \/ /\ purpose = cn.armed.purpose
          /\ armed' = NoCode
          /\ attempts' = attempts + 1
          /\ proposal' = [attempt |-> attempts + 1, device |-> cn.peer.device,
                          identity |-> cn.peer.identity, purpose |-> purpose,
                          digits |-> digits]
       \/ /\ purpose # cn.armed.purpose
          /\ UNCHANGED <<armed, attempts, proposal>>
    /\ UNCHANGED <<known_peers, sessions, expired>>

(* peek_enrolment: nothing came within RE_ENROLMENT_WINDOW. *)
Silent(c) ==
    /\ conn[c].pc = "peeking"
    /\ conn' = [conn EXCEPT ![c] = Going(@, "attaching")]
    /\ UNCHANGED <<known_peers, armed, proposal, sessions, attempts, expired>>

(* read_attach, then the session is parked.  A phone that stays silent for *)
(* ATTACH_WINDOW, as a legacy one always does, is parked for any           *)
(* credential; a frame it sends after that makes answers() discard it,     *)
(* which is a HangUp.                                                      *)
Attach(c, cid) ==
    /\ conn[c].pc = "attaching"
    /\ conn[c].peer.legacy => cid = AnyCredential
    /\ sessions' = Parked(sessions, conn[c].peer, cid)
    /\ Close(c)
    /\ UNCHANGED <<known_peers, armed, proposal, attempts, expired>>

(* The peer refused the hello, hung up, timed out, or sent something other *)
(* than what the thread was waiting for.                                   *)
Fail(c) ==
    /\ conn[c] # Closed
    /\ Close(c)
    /\ UNCHANGED <<known_peers, armed, proposal, sessions, attempts, expired>>

-----------------------------------------------------------------------------
(* Parked sessions over time *)

HangUp(i) ==
    /\ sessions[i].up
    /\ sessions' = [sessions EXCEPT ![i].up = FALSE]
    /\ UNCHANGED <<known_peers, armed, proposal, conn, attempts, expired>>

(* The oldest session that is not past idle_timeout becomes so. *)
GrowIdle(i) ==
    /\ ~sessions[i].idle
    /\ \A j \in 1 .. i - 1 : sessions[j].idle
    /\ sessions' = [sessions EXCEPT ![i].idle = TRUE]
    /\ UNCHANGED <<known_peers, armed, proposal, conn, attempts, expired>>

(* Mutant of Reap: the window is consulted but not enforced. *)
ReapNothing == UNCHANGED netVars

(* reap_loop *)
Reap ==
    /\ sessions' = discard_stale(sessions)
    /\ UNCHANGED <<known_peers, armed, proposal, conn, attempts, expired>>

ConnStep(c) ==
    \/ Finish(c) \/ Silent(c) \/ Fail(c)
    \/ \E purpose \in Purposes, digits \in Digits : Enrol(c, purpose, digits)
    \/ \E cid \in Attachable \cup {AnyCredential} : Attach(c, cid)
=============================================================================
