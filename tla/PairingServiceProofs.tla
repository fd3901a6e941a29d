------------------------ MODULE PairingServiceProofs ------------------------
(***************************************************************************)
(* Machine-checked theorems about PairingService, for every set of phones, *)
(* codes, connection threads and faults: what is stored was confirmed, an  *)
(* answered call is on disk, and only confirmed phones are parked.         *)
(***************************************************************************)
EXTENDS PairingService, SequenceTheorems, FiniteSetTheorems, FunctionTheorems,
        WellFoundedInduction, TLAPS

(***************************************************************************)
(* What a selection keeps.                                                 *)
(***************************************************************************)

(* Positions have ranks of their own, so every rank is some position's.    *)
LEMMA RanksAreTaken ==
    ASSUME NEW n \in Nat, NEW keep \in SUBSET (1 .. n)
    PROVE  /\ IsFiniteSet(keep) /\ Cardinality(keep) \in Nat
           /\ \A k \in 1 .. Cardinality(keep) : \E i \in keep : Rank(keep, i) = k
           /\ \A i \in keep : Rank(keep, i) \in 1 .. Cardinality(keep)
           /\ \A i, j \in keep : Rank(keep, i) = Rank(keep, j) => i = j
  <1>1. IsFiniteSet(keep) /\ Cardinality(keep) \in Nat
    <2>1. IsFiniteSet(1 .. n)
      BY FS_Interval
    <2>. QED
      BY <2>1, FS_Subset, FS_CardinalityType
  <1>. DEFINE upTo(i) == {j \in keep : j <= i}
              m == Cardinality(keep)
  <1>2. ASSUME NEW i \in keep
        PROVE  /\ IsFiniteSet(upTo(i)) /\ Cardinality(upTo(i)) \in Nat
               /\ Cardinality(upTo(i)) <= m
               /\ Cardinality(upTo(i)) # 0
    <2>1. upTo(i) \in SUBSET keep
      OBVIOUS
    <2>2. IsFiniteSet(upTo(i)) /\ Cardinality(upTo(i)) <= m
      BY <1>1, <2>1, FS_Subset
    <2>3. Cardinality(upTo(i)) \in Nat
      BY <2>2, FS_CardinalityType
    <2>4. i \in upTo(i)
      OBVIOUS
    <2>. QED
      BY <2>2, <2>3, <2>4, FS_EmptySet
  <1>3. \A i \in keep : Rank(keep, i) \in 1 .. m
    BY <1>1, <1>2 DEF Rank
  <1>4. ASSUME NEW i \in keep, NEW j \in keep, i < j
        PROVE  Rank(keep, i) < Rank(keep, j)
    <2>1. upTo(i) \in SUBSET upTo(j)
      <3>1. \A k \in keep : k \in Int
        OBVIOUS
      <3>2. \A k \in keep : k <= i => k <= j
        BY <1>4, <3>1
      <3>. QED
        BY <3>2
    <2>2. j \in upTo(j) /\ j \notin upTo(i)
      BY <1>4
    <2>3. Cardinality(upTo(i)) <= Cardinality(upTo(j)) /\ Cardinality(upTo(i)) # Cardinality(upTo(j))
      BY <1>2, <2>1, <2>2, FS_Subset
    <2>. QED
      BY <1>2, <2>3 DEF Rank
  <1>. DEFINE f == [i \in keep |-> Rank(keep, i)]
  <1>5. \A i, j \in keep : Rank(keep, i) = Rank(keep, j) => i = j
    BY <1>3, <1>4
  <1>6. f \in Injection(keep, 1 .. m)
    BY <1>3, <1>5 DEF Injection, IsInjective
  <1>7. IsFiniteSet(1 .. m) /\ Cardinality(1 .. m) = m
    BY <1>1, FS_Interval
  <1>8. f \in Surjection(keep, 1 .. m)
    BY <1>6, <1>7, FS_Injection
  <1>. QED
    BY <1>1, <1>3, <1>8, <1>5 DEF Surjection

(* Each place of a selection is one of the positions that were kept, and   *)
(* each of those has its place.                                            *)
LEMMA KeptTakes ==
    ASSUME NEW S, NEW s \in Seq(S), NEW keep \in SUBSET (DOMAIN s), NEW new, new = Kept(s, keep)
    PROVE  /\ new \in Seq(S)
           /\ \E at \in [DOMAIN new -> keep] :
                /\ \A k \in DOMAIN new : new[k] = s[at[k]]
                /\ \A k, l \in DOMAIN new : at[k] = at[l] => k = l
                /\ \A i \in keep : \E k \in DOMAIN new : at[k] = i
  <1>1. Len(s) \in Nat /\ DOMAIN s = 1 .. Len(s) /\ \A i \in 1 .. Len(s) : s[i] \in S
    OBVIOUS
  <1>2. /\ Cardinality(keep) \in Nat
        /\ \A k \in 1 .. Cardinality(keep) : \E i \in keep : Rank(keep, i) = k
        /\ \A i \in keep : Rank(keep, i) \in 1 .. Cardinality(keep)
        /\ \A i, j \in keep : Rank(keep, i) = Rank(keep, j) => i = j
    BY <1>1, RanksAreTaken
  <1>. DEFINE pos(k) == CHOOSE i \in keep : Rank(keep, i) = k
  <1>3. \A k \in 1 .. Cardinality(keep) : pos(k) \in keep /\ Rank(keep, pos(k)) = k
    BY <1>2
  <1>4. new = [k \in 1 .. Cardinality(keep) |-> s[pos(k)]]
    BY DEF Kept
  <1>. HIDE DEF pos
  <1>5. new \in [1 .. Cardinality(keep) -> S]
    BY <1>1, <1>3, <1>4
  <1>6. new \in Seq(S) /\ DOMAIN new = 1 .. Cardinality(keep)
    BY <1>2, <1>5
  <1>. DEFINE at == [k \in DOMAIN new |-> pos(k)]
  <1>7. at \in [DOMAIN new -> keep] /\ \A k \in DOMAIN new : new[k] = s[at[k]]
    BY <1>3, <1>4, <1>6
  <1>8. \A k, l \in DOMAIN new : at[k] = at[l] => k = l
    BY <1>3, <1>6
  <1>9. \A i \in keep : \E k \in DOMAIN new : at[k] = i
    BY <1>2, <1>3, <1>6
  <1>. QED
    BY <1>6, <1>7, <1>8, <1>9

LEMMA KeptIsPart ==
    ASSUME NEW S, NEW s \in Seq(S), NEW keep \in SUBSET (DOMAIN s), NEW new, new = Kept(s, keep)
    PROVE  new \in Seq(S) /\ ToSet(new) \subseteq ToSet(s)
  <1>1. new \in Seq(S)
    BY KeptTakes
  <1>2. PICK at \in [DOMAIN new -> keep] : \A k \in DOMAIN new : new[k] = s[at[k]]
    BY KeptTakes
  <1>. QED
    BY <1>1, <1>2 DEF ToSet

(***************************************************************************)
(* Types, and the inductive invariant.                                     *)
(***************************************************************************)

Call ==
    {Idle} \cup [op : {"install", "forget publish", "forget discard"}, device : Devices]
      \cup [op : {"request"}, device : Devices, credential : Attachable, session : Session]

NetTyped ==
    /\ known_peers \in DeviceTable /\ armed \in Code
    /\ proposal \in Proposal \cup {NoProposal}
    /\ sessions \in Seq(Session)
    /\ conn \in [Conns -> Connection]
    /\ expired \in 0 .. begun /\ attempts \in 0 .. MaxAttempts

SvcTyped ==
    /\ store \in DeviceTable /\ disk \in DeviceTable
    /\ svc \in Call /\ held \in Proposal \cup {NoProposal}
    /\ promised \in [Devices -> Identities \cup {NoIdentity, Unsure}]
    /\ begun \in 0 .. MaxCodes /\ faults \in 0 .. MaxFaults

(* Between the steps of a call the disk holds what the store does.         *)
CallsAreStored ==
    /\ svc.op \in {"install", "forget publish", "forget discard"} => disk = store
    /\ svc.op \in {"forget publish", "forget discard"} => store[svc.device] = NoIdentity

(* What was promised is on disk and in memory.                             *)
PromisesAreKept ==
    \A d \in Devices : promised[d] # Unsure => store[d] = promised[d] /\ disk[d] = promised[d]

HeldWasShown == held # NoProposal => <<held.attempt, held.digits>> \in shown

Confirmed(d, i) ==
    \/ \E devs \in StoredDevices : devs[d] = i
    \/ \E x \in installed : x.device = d /\ x.identity = i

AllConfirmed(devs) == \A d \in Devices : devs[d] # NoIdentity => Confirmed(d, devs[d])

KnownAreConfirmed == AllConfirmed(store) /\ AllConfirmed(disk) /\ AllConfirmed(known_peers)

(* Whoever a thread took for known when it looked was confirmed.           *)
ThreadsConfirmed ==
    \A c \in Conns : conn[c].pc \in {"attaching", "peeking"} =>
        Confirmed(conn[c].peer.device, conn[c].peer.identity)

PairingInv ==
    /\ NetTyped /\ SvcTyped
    /\ CallsAreStored /\ PromisesAreKept
    /\ HeldWasShown /\ OnlyWhatWasConfirmed
    /\ KnownAreConfirmed /\ ThreadsConfirmed /\ OnlyConfirmedPhonesPark

(***************************************************************************)
(* Threads and the pool.                                                   *)
(***************************************************************************)

(* What a thread that is somewhere holds. *)
LEMMA ConnKinds ==
    ASSUME NEW x \in Connection
    PROVE  /\ x.pc = "greeted" =>
                x \in [pc : {"greeted"}, peer : Peers, mode : {"pair", "resume"},
                       scanned : 0 .. MaxCodes, armed : Code]
           /\ x.pc \in {"enrolling", "peeking"} =>
                x \in [pc : {"enrolling", "peeking"}, peer : Peers, mode : {"pair", "resume"},
                       armed : Code]
           /\ x.pc = "attaching" => x \in [pc : {"attaching"}, peer : Peers]
           /\ x.pc \notin {"greeted", "enrolling", "peeking", "attaching"} => x = Closed
  BY DEF Connection, Closed

LEMMA PeersAreTyped ==
    ASSUME NEW p \in Peers
    PROVE  p.device \in Devices /\ p.identity \in Identities /\ p.identity # NoIdentity
  BY PeersAssumption DEF Devices, Identities

(* Parking adds one session, of the peer, and keeps some of the others.    *)
LEMMA ParkedPool ==
    ASSUME sessions \in Seq(Session), NEW p \in Peers, NEW cid \in Attachable \cup {AnyCredential},
           NEW new, new = Parked(sessions, p, cid)
    PROVE  /\ new \in Seq(Session)
           /\ \A s \in ToSet(new) : \/ s \in ToSet(sessions)
                                    \/ s.device = p.device /\ s.identity = p.identity
  <1>1. PICK e \in Session : e = [device |-> p.device, credential |-> cid,
                                  identity |-> p.identity, up |-> TRUE, idle |-> FALSE]
    BY PeersAreTyped DEF Session
  <1>2. PICK fresh : fresh = discard_stale(sessions)
    OBVIOUS
  <1>3. fresh \in Seq(Session) /\ ToSet(fresh) \subseteq ToSet(sessions)
    BY <1>2, KeptIsPart DEF discard_stale
  <1>4. PICK room : /\ room \in {fresh, Without(fresh, p.device, cid),
                                 enforce_session_cap(fresh, p.device)}
                    /\ new = Append(room, e)
    BY <1>1, <1>2 DEF Parked
  <1>5. room \in Seq(Session) /\ ToSet(room) \subseteq ToSet(fresh)
    <2>1. CASE room = fresh
      BY <1>3, <2>1
    <2>2. CASE room = Without(fresh, p.device, cid)
      BY <1>3, <2>2, KeptIsPart DEF Without
    <2>3. CASE room = enforce_session_cap(fresh, p.device)
      <3>1. CASE Cardinality(Of(fresh, p.device)) < MAX_SESSIONS_PER_DEVICE
        BY <1>3, <2>3, <3>1 DEF enforce_session_cap
      <3>2. CASE ~(Cardinality(Of(fresh, p.device)) < MAX_SESSIONS_PER_DEVICE)
        <4>1. PICK oldest : room = Kept(fresh, DOMAIN fresh \ {oldest})
          BY <2>3, <3>2 DEF enforce_session_cap
        <4>. QED
          BY <1>3, <4>1, KeptIsPart
      <3>. QED
        BY <3>1, <3>2
    <2>. QED
      BY <1>4, <2>1, <2>2, <2>3
  <1>6. new \in Seq(Session) /\ ToSet(new) = ToSet(room) \cup {e}
    <2>1. /\ new \in Seq(Session) /\ Len(new) = Len(room) + 1
          /\ DOMAIN room = 1 .. Len(room) /\ DOMAIN new = 1 .. Len(room) + 1 /\ Len(room) \in Nat
      BY <1>1, <1>4, <1>5
    <2>2. (\A i \in 1 .. Len(room) : new[i] = room[i]) /\ new[Len(room) + 1] = e
      BY <1>1, <1>4, <1>5, AppendProperties
    <2>3. Len(room) + 1 \in DOMAIN new /\ \A i \in DOMAIN room : i \in DOMAIN new
      BY <2>1
    <2>4. \A i \in DOMAIN new : i \in DOMAIN room \/ i = Len(room) + 1
      BY <2>1
    <2>. QED
      BY <2>1, <2>2, <2>3, <2>4 DEF ToSet
  <1>. QED
    BY <1>1, <1>3, <1>5, <1>6

(***************************************************************************)
(* What steps of one side leave of the other.                              *)
(***************************************************************************)

LEMMA TypesTogether == PairingInv => TypeOK
  BY DEF PairingInv, NetTyped, SvcTyped, TypeOK

(* Nothing that was confirmed is ever taken back. *)
LEMMA ConfirmedForGood ==
    ASSUME installed \subseteq installed', NEW d, NEW i, Confirmed(d, i)
    PROVE  Confirmed(d, i)'
  BY DEF Confirmed

(* A step of the transport: the service's side is as it was. *)
LEMMA NetStep ==
    ASSUME PairingInv, UNCHANGED svcVars, known_peers' = known_peers,
           NetTyped', ThreadsConfirmed', OnlyConfirmedPhonesPark'
    PROVE  PairingInv'
  <1>. USE DEF svcVars
  <1>1. SvcTyped'
    BY DEF PairingInv, SvcTyped
  <1>2. CallsAreStored' /\ PromisesAreKept'
    BY DEF PairingInv, CallsAreStored, PromisesAreKept
  <1>3. HeldWasShown' /\ OnlyWhatWasConfirmed'
    BY DEF PairingInv, HeldWasShown, OnlyWhatWasConfirmed
  <1>4. KnownAreConfirmed'
    BY DEF PairingInv, KnownAreConfirmed, AllConfirmed, Confirmed
  <1>. QED
    BY <1>1, <1>2, <1>3, <1>4 DEF PairingInv

(* A step of the service: threads and the pool are as they were. *)
LEMMA SvcStep ==
    ASSUME PairingInv, installed \subseteq installed', UNCHANGED <<known_peers, sessions, conn>>
    PROVE  AllConfirmed(known_peers)' /\ ThreadsConfirmed' /\ OnlyConfirmedPhonesPark'
  <1>1. \A d, i : Confirmed(d, i) => Confirmed(d, i)'
    BY ConfirmedForGood
  <1>2. AllConfirmed(known_peers)'
    BY <1>1 DEF PairingInv, KnownAreConfirmed, AllConfirmed
  <1>3. ThreadsConfirmed'
    BY <1>1 DEF PairingInv, ThreadsConfirmed
  <1>4. OnlyConfirmedPhonesPark'
    BY <1>1 DEF PairingInv, OnlyConfirmedPhonesPark, Confirmed
  <1>. QED
    BY <1>2, <1>3, <1>4

(* The pool is what is left of it, or of what it was with changes that     *)
(* leave a session whose it is.                                            *)
LEMMA PoolStays ==
    ASSUME OnlyConfirmedPhonesPark, UNCHANGED installed,
           \A s \in ToSet(sessions') : \E t \in ToSet(sessions) :
              t.device = s.device /\ t.identity = s.identity
    PROVE  OnlyConfirmedPhonesPark'
  BY DEF OnlyConfirmedPhonesPark

-----------------------------------------------------------------------------
(***************************************************************************)
(* The steps of the transport.                                             *)
(***************************************************************************)

(* A thread that only moves on. *)
LEMMA ThreadMoves ==
    ASSUME PairingInv, NEW c \in Conns, NEW x \in Connection, conn' = [conn EXCEPT ![c] = x],
           x.pc \in {"attaching", "peeking"} => Confirmed(x.peer.device, x.peer.identity),
           UNCHANGED <<known_peers, sessions, expired>>, UNCHANGED svcVars,
           armed' \in Code, proposal' \in Proposal \cup {NoProposal}, attempts' \in 0 .. MaxAttempts
    PROVE  PairingInv'
  <1>1. NetTyped'
    BY DEF PairingInv, NetTyped, svcVars
  <1>2. ThreadsConfirmed'
    BY DEF PairingInv, ThreadsConfirmed, NetTyped, Confirmed, svcVars
  <1>3. OnlyConfirmedPhonesPark'
    BY DEF PairingInv, OnlyConfirmedPhonesPark, svcVars
  <1>. QED
    BY <1>1, <1>2, <1>3, NetStep

LEMMA DialStep ==
    ASSUME PairingInv, NEW c \in Conns, NEW p \in Peers, Dial(c, p)
    PROVE  PairingInv'
  <1>1. PICK mode \in {"pair", "resume"}, scanned \in 0 .. MaxCodes : Accept(c, p, mode, scanned)
    BY PairingAssumption DEF Dial, PairingInv, SvcTyped
  <1>2. PICK x \in Connection : x = [pc |-> "greeted", peer |-> p, mode |-> mode,
                                    scanned |-> scanned, armed |-> armed]
    BY DEF PairingInv, NetTyped, Connection
  <1>3. conn' = [conn EXCEPT ![c] = x]
    BY <1>1, <1>2 DEF Accept
  <1>4. UNCHANGED <<known_peers, armed, proposal, sessions, attempts, expired>> /\ UNCHANGED svcVars
    BY <1>1 DEF Accept, Dial
  <1>. QED
    BY <1>2, <1>3, <1>4, ThreadMoves DEF PairingInv, NetTyped

LEMMA ClosedIsTyped == Closed \in Connection /\ Closed.pc \notin {"attaching", "peeking"}
  BY DEF Connection, Closed

(* Only somebody known goes on to attach, and a known identity is one that *)
(* was confirmed.                                                          *)
LEMMA FinishStep ==
    ASSUME PairingInv, NEW c \in Conns, Finish(c), UNCHANGED svcVars
    PROVE  PairingInv'
  <1>1. PICK y : y = conn[c]
    OBVIOUS
  <1>2. y \in [pc : {"greeted"}, peer : Peers, mode : {"pair", "resume"},
               scanned : 0 .. MaxCodes, armed : Code]
    BY <1>1, ConnKinds DEF Finish, PairingInv, NetTyped
  <1>3. PICK x : x = Going(y, NextPc(y))
    OBVIOUS
  <1>4. conn' = [conn EXCEPT ![c] = x]
    BY <1>1, <1>3 DEF Finish, PairingInv, NetTyped
  <1>5. y.peer \in Peers /\ y.mode \in {"pair", "resume"} /\ y.armed \in Code
    BY <1>2
  <1>6. y.peer.device \in Devices /\ y.peer.identity # NoIdentity
    BY <1>5, PeersAreTyped
  <1>7. /\ NextPc(y) \in {"closed", "attaching", "peeking", "enrolling"}
        /\ NextPc(y) \in {"attaching", "peeking"} => known_peers[y.peer.device] = y.peer.identity
    BY <1>6 DEF NextPc
  <1>8. /\ x \in Connection
        /\ x.pc \in {"attaching", "peeking"} => x.peer = y.peer /\ x.pc = NextPc(y)
    BY <1>3, <1>5, <1>7 DEF Going, Connection, Closed
  <1>9. x.pc \in {"attaching", "peeking"} => Confirmed(x.peer.device, x.peer.identity)
    BY <1>6, <1>7, <1>8 DEF PairingInv, KnownAreConfirmed, AllConfirmed
  <1>. QED
    BY <1>4, <1>8, <1>9, ThreadMoves DEF Finish, PairingInv, NetTyped

LEMMA SilentStep ==
    ASSUME PairingInv, NEW c \in Conns, Silent(c), UNCHANGED svcVars
    PROVE  PairingInv'
  <1>1. PICK y : y = conn[c]
    OBVIOUS
  <1>2. y.pc = "peeking" /\ y.peer \in Peers
    BY <1>1, ConnKinds DEF Silent, PairingInv, NetTyped
  <1>3. PICK x \in Connection : x = [pc |-> "attaching", peer |-> y.peer]
    BY <1>2 DEF Connection
  <1>4. conn' = [conn EXCEPT ![c] = x]
    BY <1>1, <1>3 DEF Silent, Going, PairingInv, NetTyped
  <1>5. Confirmed(x.peer.device, x.peer.identity)
    BY <1>1, <1>2, <1>3 DEF PairingInv, ThreadsConfirmed
  <1>. QED
    BY <1>4, <1>5, ThreadMoves DEF Silent, PairingInv, NetTyped

LEMMA FailStep ==
    ASSUME PairingInv, NEW c \in Conns, Fail(c), UNCHANGED svcVars
    PROVE  PairingInv'
  BY ClosedIsTyped, ThreadMoves DEF Fail, Close, PairingInv, NetTyped

LEMMA EnrolStep ==
    ASSUME PairingInv, NEW c \in Conns, NEW purpose \in Purposes, NEW digits \in Digits,
           Enrol(c, purpose, digits), UNCHANGED svcVars
    PROVE  PairingInv'
  <1>1. PICK y : y = conn[c]
    OBVIOUS
  <1>2. y.peer \in Peers
    BY <1>1, ConnKinds DEF Enrol, PairingInv, NetTyped
  <1>3. y.peer.device \in Devices /\ y.peer.identity \in Identities
    BY <1>2, PeersAreTyped
  <1>4. attempts \in 0 .. MaxAttempts /\ attempts < MaxAttempts
        /\ armed \in Code /\ proposal \in Proposal \cup {NoProposal} /\ MaxAttempts \in Nat
    BY PairingAssumption DEF Enrol, PairingInv, NetTyped
  <1>5. PICK q \in Proposal : q = [attempt |-> attempts + 1, device |-> y.peer.device,
                                  identity |-> y.peer.identity, purpose |-> purpose,
                                  digits |-> digits]
    <2>1. attempts + 1 \in 1 .. MaxAttempts
      BY <1>4
    <2>. QED
      BY <1>3, <2>1 DEF Proposal
  <1>6. armed' \in Code /\ attempts' \in 0 .. MaxAttempts
    BY <1>4, PairingAssumption DEF Enrol, NoCode, Code
  <1>7. proposal' \in Proposal \cup {NoProposal}
    BY <1>1, <1>4, <1>5 DEF Enrol
  <1>8. conn' = [conn EXCEPT ![c] = Closed] /\ UNCHANGED <<known_peers, sessions, expired>>
    BY DEF Enrol, Close
  <1>. QED
    BY <1>6, <1>7, <1>8, ClosedIsTyped, ThreadMoves

(* "attaching" was reached by somebody known. *)
LEMMA AttachStep ==
    ASSUME PairingInv, NEW c \in Conns, NEW cid \in Attachable \cup {AnyCredential},
           Attach(c, cid), UNCHANGED svcVars
    PROVE  PairingInv'
  <1>1. PICK y : y = conn[c]
    OBVIOUS
  <1>2. y.pc = "attaching" /\ y.peer \in Peers
    BY <1>1, ConnKinds DEF Attach, PairingInv, NetTyped
  <1>3. Confirmed(y.peer.device, y.peer.identity)
    BY <1>1, <1>2 DEF PairingInv, ThreadsConfirmed
  <1>4. /\ sessions' \in Seq(Session)
        /\ \A s \in ToSet(sessions') : \/ s \in ToSet(sessions)
                                       \/ s.device = y.peer.device /\ s.identity = y.peer.identity
    BY <1>1, <1>2, ParkedPool DEF Attach, PairingInv, NetTyped
  <1>5. /\ conn' = [conn EXCEPT ![c] = Closed]
        /\ UNCHANGED <<known_peers, armed, proposal, attempts, expired>>
    BY DEF Attach, Close
  <1>6. NetTyped'
    BY <1>4, <1>5, ClosedIsTyped DEF PairingInv, NetTyped, svcVars
  <1>7. ThreadsConfirmed'
    BY <1>5, ClosedIsTyped DEF PairingInv, ThreadsConfirmed, NetTyped, Confirmed, svcVars
  <1>8. OnlyConfirmedPhonesPark'
    BY <1>3, <1>4 DEF PairingInv, OnlyConfirmedPhonesPark, Confirmed, svcVars
  <1>. QED
    BY <1>5, <1>6, <1>7, <1>8, NetStep

LEMMA ServeStep ==
    ASSUME PairingInv, NEW c \in Conns, Serve(c)
    PROVE  PairingInv'
  BY FinishStep, SilentStep, FailStep, EnrolStep, AttachStep DEF Serve, ConnStep

(* A session in the pool changes its state and not its owner. *)
LEMMA SessionChanges ==
    ASSUME PairingInv, NEW i \in DOMAIN sessions, NEW e \in Session,
           e.device = sessions[i].device, e.identity = sessions[i].identity,
           sessions' = [sessions EXCEPT ![i] = e],
           UNCHANGED <<known_peers, armed, proposal, conn, attempts, expired>>, UNCHANGED svcVars
    PROVE  PairingInv'
  <1>1. sessions \in Seq(Session)
    BY DEF PairingInv, NetTyped
  <1>2. /\ sessions' \in Seq(Session) /\ DOMAIN sessions' = DOMAIN sessions
        /\ \A j \in DOMAIN sessions : sessions'[j] = IF j = i THEN e ELSE sessions[j]
    BY <1>1
  <1>3. NetTyped'
    BY <1>2 DEF PairingInv, NetTyped, svcVars
  <1>4. ThreadsConfirmed'
    BY DEF PairingInv, ThreadsConfirmed, Confirmed, svcVars
  <1>5. \A s \in ToSet(sessions') : \E t \in ToSet(sessions) :
           t.device = s.device /\ t.identity = s.identity
    BY <1>2 DEF ToSet
  <1>6. OnlyConfirmedPhonesPark'
    BY <1>5, PoolStays DEF PairingInv, svcVars
  <1>. QED
    BY <1>3, <1>4, <1>6, NetStep

LEMMA HangUpStep ==
    ASSUME PairingInv, NEW i \in DOMAIN sessions, HangUp(i), UNCHANGED svcVars
    PROVE  PairingInv'
  <1>1. sessions \in Seq(Session) /\ sessions[i] \in Session
    BY DEF PairingInv, NetTyped
  <1>2. PICK e : e = [sessions[i] EXCEPT !.up = FALSE]
    OBVIOUS
  <1>3. e \in Session /\ e.device = sessions[i].device /\ e.identity = sessions[i].identity
    BY <1>1, <1>2 DEF Session
  <1>4. sessions' = [sessions EXCEPT ![i] = e]
    BY <1>1, <1>2 DEF HangUp
  <1>. QED
    BY <1>3, <1>4, SessionChanges DEF HangUp

LEMMA GrowIdleStep ==
    ASSUME PairingInv, NEW i \in DOMAIN sessions, GrowIdle(i), UNCHANGED svcVars
    PROVE  PairingInv'
  <1>1. sessions \in Seq(Session) /\ sessions[i] \in Session
    BY DEF PairingInv, NetTyped
  <1>2. PICK e : e = [sessions[i] EXCEPT !.idle = TRUE]
    OBVIOUS
  <1>3. e \in Session /\ e.device = sessions[i].device /\ e.identity = sessions[i].identity
    BY <1>1, <1>2 DEF Session
  <1>4. sessions' = [sessions EXCEPT ![i] = e]
    BY <1>1, <1>2 DEF GrowIdle
  <1>. QED
    BY <1>3, <1>4, SessionChanges DEF GrowIdle

(* Sessions leave the pool, and nothing else of the transport changes. *)
LEMMA PoolShrinks ==
    ASSUME PairingInv, NEW keep \in SUBSET (DOMAIN sessions), sessions' = Kept(sessions, keep)
    PROVE  sessions' \in Seq(Session) /\ ToSet(sessions') \subseteq ToSet(sessions)
  BY KeptIsPart DEF PairingInv, NetTyped

LEMMA ReapStep ==
    ASSUME PairingInv, Reap, UNCHANGED svcVars
    PROVE  PairingInv'
  <1>1. sessions' \in Seq(Session) /\ ToSet(sessions') \subseteq ToSet(sessions)
    BY PoolShrinks DEF Reap, discard_stale
  <1>2. NetTyped'
    BY <1>1 DEF Reap, PairingInv, NetTyped, svcVars
  <1>3. ThreadsConfirmed'
    BY DEF Reap, PairingInv, ThreadsConfirmed, Confirmed, svcVars
  <1>4. OnlyConfirmedPhonesPark'
    BY <1>1, PoolStays DEF PairingInv, svcVars
  <1>. QED
    BY <1>2, <1>3, <1>4, NetStep DEF Reap

LEMMA CodeExpiresStep ==
    ASSUME PairingInv, CodeExpires
    PROVE  PairingInv'
  <1>1. begun \in Nat
    BY PairingAssumption DEF PairingInv, SvcTyped
  <1>2. NetTyped'
    BY <1>1 DEF CodeExpires, PairingInv, NetTyped, svcVars
  <1>3. ThreadsConfirmed' /\ OnlyConfirmedPhonesPark'
    BY DEF CodeExpires, PairingInv, ThreadsConfirmed, OnlyConfirmedPhonesPark, Confirmed, svcVars
  <1>. QED
    BY <1>2, <1>3, NetStep DEF CodeExpires

-----------------------------------------------------------------------------
(***************************************************************************)
(* The steps of the service.                                               *)
(***************************************************************************)

LEMMA BeginStep ==
    ASSUME PairingInv, NEW purpose \in Purposes, BeginPairing(purpose)
    PROVE  PairingInv'
  <1>1. begun \in 0 .. MaxCodes /\ begun + 1 \in 1 .. MaxCodes /\ MaxCodes \in Nat
    BY PairingAssumption DEF BeginPairing, PairingInv, SvcTyped
  <1>2. armed' \in Code /\ proposal' = NoProposal
    BY <1>1 DEF BeginPairing, arm_pairing, Code
  <1>3. NetTyped'
    BY <1>1, <1>2 DEF BeginPairing, PairingInv, NetTyped
  <1>4. SvcTyped'
    BY <1>1 DEF BeginPairing, PairingInv, SvcTyped
  <1>5. CallsAreStored' /\ PromisesAreKept' /\ HeldWasShown' /\ OnlyWhatWasConfirmed'
    BY DEF BeginPairing, PairingInv, CallsAreStored, PromisesAreKept, HeldWasShown,
           OnlyWhatWasConfirmed
  <1>6. KnownAreConfirmed' /\ ThreadsConfirmed' /\ OnlyConfirmedPhonesPark'
    BY SvcStep DEF BeginPairing, PairingInv, KnownAreConfirmed, AllConfirmed, Confirmed
  <1>. QED
    BY <1>3, <1>4, <1>5, <1>6 DEF PairingInv

LEMMA CancelStep ==
    ASSUME PairingInv, CancelPairing
    PROVE  PairingInv'
  <1>1. armed' \in Code /\ proposal' = NoProposal
    BY PairingAssumption DEF CancelPairing, cancel_pairing, Code, NoCode
  <1>2. NetTyped' /\ SvcTyped'
    BY <1>1 DEF CancelPairing, PairingInv, NetTyped, SvcTyped
  <1>3. CallsAreStored' /\ PromisesAreKept' /\ HeldWasShown' /\ OnlyWhatWasConfirmed'
    BY DEF CancelPairing, PairingInv, CallsAreStored, PromisesAreKept, HeldWasShown,
           OnlyWhatWasConfirmed
  <1>4. KnownAreConfirmed' /\ ThreadsConfirmed' /\ OnlyConfirmedPhonesPark'
    BY SvcStep DEF CancelPairing, PairingInv, KnownAreConfirmed, AllConfirmed, Confirmed
  <1>. QED
    BY <1>2, <1>3, <1>4 DEF PairingInv

(* What is held is what was put on a screen. *)
LEMMA PendingStep ==
    ASSUME PairingInv, PendingPairing
    PROVE  PairingInv'
  <1>1. NetTyped' /\ SvcTyped'
    BY DEF PendingPairing, PairingInv, NetTyped, SvcTyped
  <1>2. CallsAreStored' /\ PromisesAreKept'
    BY DEF PendingPairing, PairingInv, CallsAreStored, PromisesAreKept
  <1>3. HeldWasShown' /\ OnlyWhatWasConfirmed'
    BY DEF PendingPairing, PairingInv, HeldWasShown, OnlyWhatWasConfirmed
  <1>4. KnownAreConfirmed' /\ ThreadsConfirmed' /\ OnlyConfirmedPhonesPark'
    BY SvcStep DEF PendingPairing, PairingInv, KnownAreConfirmed, AllConfirmed, Confirmed
  <1>. QED
    BY <1>1, <1>2, <1>3, <1>4 DEF PairingInv

LEMMA TakeStep ==
    ASSUME PairingInv, NEW d \in Devices, NEW cid \in Attachable, TakeSession(d, cid)
    PROVE  PairingInv'
  <1>1. PICK pool : pool = discard_stale(sessions)
    OBVIOUS
  <1>2. pool \in Seq(Session) /\ ToSet(pool) \subseteq ToSet(sessions)
    BY <1>1, KeptIsPart DEF PairingInv, NetTyped, discard_stale
  <1>3. PICK i \in DOMAIN pool :
           /\ sessions' = Kept(pool, DOMAIN pool \ {i})
           /\ svc' = [op |-> "request", device |-> d, credential |-> cid, session |-> pool[i]]
    BY <1>1 DEF TakeSession, Matching
  <1>4. sessions' \in Seq(Session) /\ ToSet(sessions') \subseteq ToSet(sessions)
    BY <1>2, <1>3, KeptIsPart
  <1>5. pool[i] \in Session
    BY <1>2
  <1>6. svc' \in Call /\ svc'.op = "request"
    BY <1>3, <1>5 DEF Call
  <1>7. NetTyped' /\ SvcTyped'
    BY <1>4, <1>6 DEF TakeSession, PairingInv, NetTyped, SvcTyped
  <1>8. CallsAreStored' /\ PromisesAreKept' /\ HeldWasShown' /\ OnlyWhatWasConfirmed'
    BY <1>6 DEF TakeSession, PairingInv, CallsAreStored, PromisesAreKept, HeldWasShown,
           OnlyWhatWasConfirmed
  <1>9. KnownAreConfirmed' /\ ThreadsConfirmed'
    BY DEF TakeSession, PairingInv, KnownAreConfirmed, ThreadsConfirmed, AllConfirmed, Confirmed
  <1>10. OnlyConfirmedPhonesPark'
    BY <1>4, PoolStays DEF TakeSession, PairingInv
  <1>. QED
    BY <1>7, <1>8, <1>9, <1>10 DEF PairingInv

LEMMA RequestEndsStep ==
    ASSUME PairingInv, RequestEnds
    PROVE  PairingInv'
  <1>. USE DEF RequestEnds, netVars
  <1>1. NetTyped' /\ SvcTyped'
    BY DEF PairingInv, NetTyped, SvcTyped, Call
  <1>2. CallsAreStored' /\ PromisesAreKept' /\ HeldWasShown' /\ OnlyWhatWasConfirmed'
    BY DEF PairingInv, CallsAreStored, PromisesAreKept, HeldWasShown, OnlyWhatWasConfirmed, Idle
  <1>3. KnownAreConfirmed' /\ ThreadsConfirmed' /\ OnlyConfirmedPhonesPark'
    BY SvcStep DEF PairingInv, KnownAreConfirmed, AllConfirmed, Confirmed
  <1>. QED
    BY <1>1, <1>2, <1>3 DEF PairingInv

(* A pairing is stored for the attempt that is held, which was shown, and  *)
(* the device it is stored for is nobody's promise until it is answered.   *)
LEMMA InstallStep ==
    ASSUME PairingInv, svc = Idle, held # NoProposal, NEW quoted, ~StaleAttempt(quoted),
           held' = NoProposal, Install(held, quoted), UNCHANGED <<netVars, begun, shown>>
    PROVE  PairingInv'
  <1>. USE DEF netVars
  <1>1. PICK p \in Proposal : p = held
    BY DEF PairingInv, SvcTyped
  <1>2. p.device \in Devices /\ p.identity \in Identities
    BY DEF Proposal
  <1>3. PICK x : x = [attempt |-> p.attempt, digits |-> p.digits, quoted |-> quoted,
                      device |-> p.device, identity |-> p.identity, purpose |-> p.purpose]
    OBVIOUS
  <1>4. /\ store' = [store EXCEPT ![p.device] = p.identity]
        /\ promised' = [promised EXCEPT ![p.device] = Unsure]
        /\ installed' = installed \cup {x}
    BY <1>1, <1>3 DEF Install
  <1>5. \/ disk' = store' /\ UNCHANGED faults /\ svc' = [op |-> "install", device |-> p.device]
        \/ UNCHANGED <<disk, svc>> /\ faults' \in 0 .. MaxFaults
    <2>1. faults \in 0 .. MaxFaults /\ MaxFaults \in Nat
      BY PairingAssumption DEF PairingInv, SvcTyped
    <2>. QED
      BY <1>1, <2>1 DEF Install, Persisted, WriteFails
  <1>6. store' \in DeviceTable /\ disk' \in DeviceTable /\ svc' \in Call
    <2>1. store \in DeviceTable /\ disk \in DeviceTable /\ svc \in Call
      BY DEF PairingInv, SvcTyped
    <2>2. store' \in DeviceTable
      BY <1>2, <1>4, <2>1 DEF DeviceTable
    <2>3. [op |-> "install", device |-> p.device] \in Call
      BY <1>2 DEF Call
    <2>. QED
      BY <1>5, <2>1, <2>2, <2>3
  <1>7. NetTyped'
    BY DEF PairingInv, NetTyped
  <1>8. SvcTyped'
    BY <1>4, <1>5, <1>6 DEF PairingInv, SvcTyped
  <1>9. CallsAreStored'
    <2>1. CASE disk' = store' /\ svc' = [op |-> "install", device |-> p.device]
      <3>1. svc'.op = "install"
        BY <2>1
      <3>. QED
        BY <2>1, <3>1 DEF CallsAreStored
    <2>2. CASE UNCHANGED svc
      <3>1. svc'.op = "idle"
        BY <2>2 DEF Idle
      <3>. QED
        BY <3>1 DEF CallsAreStored
    <2>. QED
      BY <1>5, <2>1, <2>2
  <1>10. PromisesAreKept'
    BY <1>2, <1>4, <1>5 DEF PairingInv, PromisesAreKept, SvcTyped, DeviceTable
  <1>11. HeldWasShown'
    BY DEF HeldWasShown
  <1>12. OnlyWhatWasConfirmed'
    <2>1. <<x.attempt, x.digits>> \in shown
      BY <1>1, <1>3 DEF PairingInv, HeldWasShown
    <2>2. x.quoted \in {NoAttempt, x.attempt}
      BY <1>1, <1>3 DEF StaleAttempt
    <2>. QED
      BY <1>4, <2>1, <2>2 DEF PairingInv, OnlyWhatWasConfirmed
  <1>13. AllConfirmed(store)' /\ AllConfirmed(disk)'
    <2>1. \A d, i : Confirmed(d, i) => Confirmed(d, i)'
      BY <1>4, ConfirmedForGood
    <2>2. Confirmed(p.device, p.identity)'
      BY <1>3, <1>4 DEF Confirmed
    <2>3. \A d \in Devices : store'[d] = IF d = p.device THEN p.identity ELSE store[d]
      BY <1>4 DEF PairingInv, SvcTyped, DeviceTable
    <2>4. AllConfirmed(store)'
      BY <2>1, <2>2, <2>3 DEF PairingInv, KnownAreConfirmed, AllConfirmed
    <2>. QED
      BY <1>5, <2>1, <2>4 DEF PairingInv, KnownAreConfirmed, AllConfirmed
  <1>14. AllConfirmed(known_peers)' /\ ThreadsConfirmed' /\ OnlyConfirmedPhonesPark'
    BY <1>4, SvcStep
  <1>. QED
    BY <1>7, <1>8, <1>9, <1>10, <1>11, <1>12, <1>13, <1>14 DEF PairingInv, KnownAreConfirmed

LEMMA ConfirmStep ==
    ASSUME PairingInv, NEW quoted, NEW digits, ConfirmPairing(quoted, digits)
    PROVE  PairingInv'
  <1>1. CASE Install(held, quoted)
    BY <1>1, InstallStep DEF ConfirmPairing
  <1>2. CASE UNCHANGED <<store, disk, svc, installed, promised, faults>>
    <2>. USE <1>2 DEF ConfirmPairing, netVars
    <2>1. NetTyped' /\ SvcTyped'
      BY DEF PairingInv, NetTyped, SvcTyped
    <2>2. CallsAreStored' /\ PromisesAreKept' /\ HeldWasShown' /\ OnlyWhatWasConfirmed'
      BY DEF PairingInv, CallsAreStored, PromisesAreKept, HeldWasShown, OnlyWhatWasConfirmed
    <2>3. KnownAreConfirmed' /\ ThreadsConfirmed' /\ OnlyConfirmedPhonesPark'
      BY SvcStep DEF PairingInv, KnownAreConfirmed, AllConfirmed, Confirmed
    <2>. QED
      BY <2>1, <2>2, <2>3 DEF PairingInv
  <1>. QED
    BY <1>1, <1>2 DEF ConfirmPairing

(* What a call in progress works on. *)
LEMMA CallKinds ==
    ASSUME PairingInv
    PROVE  /\ svc.op \in {"install", "forget publish", "forget discard"} =>
                svc \in [op : {"install", "forget publish", "forget discard"}, device : Devices]
           /\ svc = Idle => svc.op = "idle"
  <1>1. svc \in Call /\ (svc = Idle => svc.op = "idle")
    BY DEF PairingInv, SvcTyped, Idle
  <1>2. CASE svc = Idle
    BY <1>1, <1>2
  <1>3. CASE svc \in [op : {"install", "forget publish", "forget discard"}, device : Devices]
    BY <1>1, <1>3
  <1>4. CASE svc \in [op : {"request"}, device : Devices, credential : Attachable, session : Session]
    <2>1. svc.op = "request"
      BY <1>4
    <2>. QED
      BY <1>1, <2>1
  <1>. QED
    BY <1>1, <1>2, <1>3, <1>4 DEF Call

LEMMA InstallPublishStep ==
    ASSUME PairingInv, InstallPublish
    PROVE  PairingInv'
  <1>1. svc.device \in Devices
    BY CallKinds DEF InstallPublish
  <1>2. known_peers' = store /\ svc' = Idle /\ promised' = [promised EXCEPT ![svc.device] = store[svc.device]]
        /\ disk = store
    BY DEF InstallPublish, set_known_peers, PairingInv, CallsAreStored
  <1>3. UNCHANGED <<armed, proposal, sessions, conn, attempts, expired, store, disk,
                    held, begun, shown, installed, faults>>
    BY DEF InstallPublish
  <1>4. NetTyped'
    BY <1>2, <1>3 DEF PairingInv, NetTyped, SvcTyped
  <1>5. SvcTyped'
    BY <1>1, <1>2, <1>3 DEF PairingInv, SvcTyped, DeviceTable, Call
  <1>6. CallsAreStored'
    BY <1>2 DEF CallsAreStored, Idle
  <1>7. PromisesAreKept'
    BY <1>1, <1>2, <1>3 DEF PairingInv, PromisesAreKept, SvcTyped
  <1>8. HeldWasShown' /\ OnlyWhatWasConfirmed'
    BY <1>3 DEF PairingInv, HeldWasShown, OnlyWhatWasConfirmed
  <1>9. KnownAreConfirmed' /\ ThreadsConfirmed' /\ OnlyConfirmedPhonesPark'
    BY <1>2, <1>3 DEF PairingInv, KnownAreConfirmed, AllConfirmed, Confirmed, ThreadsConfirmed,
                      OnlyConfirmedPhonesPark
  <1>. QED
    BY <1>4, <1>5, <1>6, <1>7, <1>8, <1>9 DEF PairingInv

LEMMA ForgetRemoveStep ==
    ASSUME PairingInv, NEW d \in Devices, ForgetRemove(d)
    PROVE  PairingInv'
  <1>. USE DEF netVars
  <1>1. /\ store' = [store EXCEPT ![d] = NoIdentity]
        /\ promised' = [promised EXCEPT ![d] = Unsure] /\ svc = Idle
    BY DEF ForgetRemove
  <1>2. \/ disk' = store' /\ UNCHANGED faults /\ svc' = [op |-> "forget publish", device |-> d]
        \/ UNCHANGED <<disk, svc>> /\ faults' \in 0 .. MaxFaults
    <2>1. faults \in 0 .. MaxFaults /\ MaxFaults \in Nat
      BY PairingAssumption DEF PairingInv, SvcTyped
    <2>2. WriteFails => faults' \in 0 .. MaxFaults /\ UNCHANGED disk
      BY <2>1 DEF WriteFails
    <2>. QED
      BY <1>1, <2>2 DEF ForgetRemove, Persisted
  <1>3. UNCHANGED <<netVars, held, begun, shown, installed>>
    BY DEF ForgetRemove
  <1>4. store' \in DeviceTable /\ disk' \in DeviceTable /\ svc' \in Call
    <2>1. store \in DeviceTable /\ disk \in DeviceTable /\ svc \in Call
      BY DEF PairingInv, SvcTyped
    <2>2. store' \in DeviceTable
      BY <1>1, <2>1 DEF DeviceTable
    <2>3. [op |-> "forget publish", device |-> d] \in Call
      BY DEF Call
    <2>. QED
      BY <1>2, <2>1, <2>2, <2>3
  <1>5. NetTyped' /\ SvcTyped'
    BY <1>1, <1>2, <1>3, <1>4 DEF PairingInv, NetTyped, SvcTyped
  <1>6. \A e \in Devices : store'[e] = IF e = d THEN NoIdentity ELSE store[e]
    BY <1>1 DEF PairingInv, SvcTyped, DeviceTable
  <1>7. CallsAreStored'
    <2>1. CASE disk' = store' /\ svc' = [op |-> "forget publish", device |-> d]
      BY <1>6, <2>1 DEF CallsAreStored
    <2>2. CASE UNCHANGED svc
      <3>1. svc'.op = "idle"
        BY <1>1, <2>2 DEF Idle
      <3>. QED
        BY <3>1 DEF CallsAreStored
    <2>. QED
      BY <1>2, <2>1, <2>2
  <1>8. PromisesAreKept'
    BY <1>1, <1>2, <1>6 DEF PairingInv, PromisesAreKept, SvcTyped
  <1>9. HeldWasShown' /\ OnlyWhatWasConfirmed'
    BY <1>3 DEF PairingInv, HeldWasShown, OnlyWhatWasConfirmed
  <1>10. KnownAreConfirmed'
    <2>1. AllConfirmed(store)'
      BY <1>3, <1>6 DEF PairingInv, KnownAreConfirmed, AllConfirmed, Confirmed
    <2>2. AllConfirmed(known_peers)'
      BY <1>3 DEF PairingInv, KnownAreConfirmed, AllConfirmed, Confirmed
    <2>3. CASE disk' = store'
      BY <2>1, <2>2, <2>3 DEF KnownAreConfirmed, AllConfirmed
    <2>4. CASE UNCHANGED disk
      <3>1. AllConfirmed(disk)'
        BY <1>3, <2>4 DEF PairingInv, KnownAreConfirmed, AllConfirmed, Confirmed
      <3>. QED
        BY <2>1, <2>2, <3>1 DEF KnownAreConfirmed
    <2>. QED
      BY <1>2, <2>3, <2>4
  <1>11. ThreadsConfirmed' /\ OnlyConfirmedPhonesPark'
    BY <1>3, SvcStep
  <1>. QED
    BY <1>5, <1>7, <1>8, <1>9, <1>10, <1>11 DEF PairingInv

LEMMA ForgetPublishStep ==
    ASSUME PairingInv, ForgetPublish
    PROVE  PairingInv'
  <1>1. svc \in [op : {"install", "forget publish", "forget discard"}, device : Devices]
    BY CallKinds DEF ForgetPublish
  <1>2. /\ svc' = [svc EXCEPT !.op = "forget discard"] /\ svc.op = "forget publish"
        /\ known_peers' = store
        /\ UNCHANGED <<armed, proposal, sessions, conn, attempts, expired, store, disk,
                       held, begun, shown, installed, promised, faults>>
    BY DEF ForgetPublish, set_known_peers
  <1>3. /\ svc'.op = "forget discard" /\ svc'.device = svc.device
        /\ svc' \in [op : {"install", "forget publish", "forget discard"}, device : Devices]
    BY <1>1, <1>2
  <1>4. NetTyped' /\ SvcTyped'
    BY <1>2, <1>3 DEF PairingInv, NetTyped, SvcTyped, Call
  <1>5. CallsAreStored'
    BY <1>2, <1>3 DEF PairingInv, CallsAreStored
  <1>6. PromisesAreKept' /\ HeldWasShown' /\ OnlyWhatWasConfirmed'
    BY <1>2 DEF PairingInv, PromisesAreKept, HeldWasShown, OnlyWhatWasConfirmed
  <1>7. KnownAreConfirmed' /\ ThreadsConfirmed' /\ OnlyConfirmedPhonesPark'
    BY <1>2 DEF PairingInv, KnownAreConfirmed, AllConfirmed, Confirmed, ThreadsConfirmed,
                OnlyConfirmedPhonesPark
  <1>. QED
    BY <1>4, <1>5, <1>6, <1>7 DEF PairingInv

LEMMA ForgetDiscardStep ==
    ASSUME PairingInv, ForgetDiscard
    PROVE  PairingInv'
  <1>1. svc.device \in Devices
    BY CallKinds DEF ForgetDiscard
  <1>2. /\ svc' = Idle /\ promised' = [promised EXCEPT ![svc.device] = NoIdentity]
        /\ UNCHANGED <<known_peers, armed, proposal, conn, attempts, expired, store, disk,
                       held, begun, shown, installed, faults>>
    BY DEF ForgetDiscard
  <1>3. disk = store /\ store[svc.device] = NoIdentity
    BY DEF ForgetDiscard, PairingInv, CallsAreStored
  <1>4. sessions' \in Seq(Session) /\ ToSet(sessions') \subseteq ToSet(sessions)
    BY PoolShrinks DEF ForgetDiscard, discard_sessions
  <1>5. NetTyped'
    BY <1>2, <1>4 DEF PairingInv, NetTyped
  <1>6. SvcTyped'
    BY <1>1, <1>2 DEF PairingInv, SvcTyped, Call
  <1>7. CallsAreStored'
    BY <1>2 DEF CallsAreStored, Idle
  <1>8. PromisesAreKept'
    BY <1>1, <1>2, <1>3 DEF PairingInv, PromisesAreKept, SvcTyped
  <1>9. HeldWasShown' /\ OnlyWhatWasConfirmed'
    BY <1>2 DEF PairingInv, HeldWasShown, OnlyWhatWasConfirmed
  <1>10. KnownAreConfirmed' /\ ThreadsConfirmed'
    BY <1>2 DEF PairingInv, KnownAreConfirmed, AllConfirmed, Confirmed, ThreadsConfirmed
  <1>11. OnlyConfirmedPhonesPark'
    BY <1>2, <1>4, PoolStays DEF PairingInv
  <1>. QED
    BY <1>5, <1>6, <1>7, <1>8, <1>9, <1>10, <1>11 DEF PairingInv

(* What the disk holds is what was promised, so a crash forgets nothing. *)
LEMMA RestartStep ==
    ASSUME PairingInv, Restart
    PROVE  PairingInv'
  <1>1. /\ store' = disk /\ known_peers' = disk /\ armed' = NoCode
        /\ proposal' = NoProposal /\ held' = NoProposal /\ sessions' = << >>
        /\ conn' = [c \in Conns |-> Closed] /\ svc' = Idle
        /\ UNCHANGED <<attempts, expired, disk, begun, shown, installed, promised>>
    BY DEF Restart, set_known_peers
  <1>2. faults' \in 0 .. MaxFaults
    BY PairingAssumption DEF Restart, PairingInv, SvcTyped
  <1>3. armed' \in Code
    BY <1>1, PairingAssumption DEF Code, NoCode
  <1>4. NetTyped'
    BY <1>1, <1>3, ClosedIsTyped DEF PairingInv, NetTyped, SvcTyped
  <1>5. SvcTyped'
    BY <1>1, <1>2 DEF PairingInv, SvcTyped, Call
  <1>6. CallsAreStored' /\ PromisesAreKept'
    BY <1>1 DEF PairingInv, CallsAreStored, PromisesAreKept, Idle
  <1>7. HeldWasShown' /\ OnlyWhatWasConfirmed'
    BY <1>1 DEF PairingInv, HeldWasShown, OnlyWhatWasConfirmed
  <1>8. KnownAreConfirmed'
    BY <1>1 DEF PairingInv, KnownAreConfirmed, AllConfirmed, Confirmed
  <1>9. ThreadsConfirmed'
    BY <1>1, ClosedIsTyped DEF ThreadsConfirmed
  <1>10. OnlyConfirmedPhonesPark'
    BY <1>1 DEF OnlyConfirmedPhonesPark, ToSet
  <1>. QED
    BY <1>4, <1>5, <1>6, <1>7, <1>8, <1>9, <1>10 DEF PairingInv

-----------------------------------------------------------------------------
(***************************************************************************)
(* The pool and its cap.                                                   *)
(***************************************************************************)

OnePerKey(pool) ==
    \A i, j \in DOMAIN pool : SameKey(pool[i], pool[j].device, pool[j].credential) => i = j

WithinCap(pool) ==
    \A d \in Devices : Cardinality(Of(pool, d)) <= MAX_SESSIONS_PER_DEVICE

(* No key is parked twice, and no device has more than its places.         *)
PoolIsCapped == OnePerKey(sessions) /\ WithinCap(sessions)

LEMMA OfIsFinite ==
    ASSUME NEW pool \in Seq(Session), NEW d
    PROVE  IsFiniteSet(Of(pool, d)) /\ Cardinality(Of(pool, d)) \in Nat
  <1>1. Len(pool) \in Nat /\ DOMAIN pool = 1 .. Len(pool)
    OBVIOUS
  <1>2. IsFiniteSet(DOMAIN pool)
    BY <1>1, FS_Interval
  <1>3. Of(pool, d) \in SUBSET (DOMAIN pool)
    BY DEF Of
  <1>. QED
    BY <1>2, <1>3, FS_Subset, FS_CardinalityType

(* What is kept of a pool keeps its keys apart, and a device keeps no more *)
(* places than those of its that were kept.                                *)
LEMMA KeptPool ==
    ASSUME NEW pool \in Seq(Session), OnePerKey(pool),
           NEW keep \in SUBSET (DOMAIN pool), NEW new, new = Kept(pool, keep)
    PROVE  /\ OnePerKey(new)
           /\ \A d : Cardinality(Of(new, d)) <= Cardinality(Of(pool, d) \cap keep)
           /\ ToSet(new) = {pool[i] : i \in keep}
  <1>1. PICK at \in [DOMAIN new -> keep] :
           /\ \A k \in DOMAIN new : new[k] = pool[at[k]]
           /\ \A k, l \in DOMAIN new : at[k] = at[l] => k = l
           /\ \A i \in keep : \E k \in DOMAIN new : at[k] = i
    BY KeptTakes
  <1>2. OnePerKey(new)
    BY <1>1 DEF OnePerKey, SameKey
  <1>3. ASSUME NEW d
        PROVE  Cardinality(Of(new, d)) <= Cardinality(Of(pool, d) \cap keep)
    <2>. DEFINE f == [k \in Of(new, d) |-> at[k]]
    <2>1. IsFiniteSet(Of(pool, d) \cap keep)
      <3>1. Of(pool, d) \cap keep \in SUBSET Of(pool, d)
        OBVIOUS
      <3>. QED
        BY <3>1, OfIsFinite, FS_Subset
    <2>2. \A k \in Of(new, d) : at[k] \in Of(pool, d) \cap keep
      BY <1>1 DEF Of
    <2>3. \A k, l \in Of(new, d) : at[k] = at[l] => k = l
      BY <1>1 DEF Of
    <2>4. f \in Injection(Of(new, d), Of(pool, d) \cap keep)
      BY <2>2, <2>3 DEF Injection, IsInjective
    <2>. QED
      BY <2>1, <2>4, FS_Injection
  <1>4. ToSet(new) = {pool[i] : i \in keep}
    BY <1>1 DEF ToSet
  <1>. QED
    BY <1>2, <1>3, <1>4

LEMMA KeptIsCapped ==
    ASSUME NEW pool \in Seq(Session), OnePerKey(pool), WithinCap(pool),
           NEW keep \in SUBSET (DOMAIN pool), NEW new, new = Kept(pool, keep)
    PROVE  new \in Seq(Session) /\ OnePerKey(new) /\ WithinCap(new)
  <1>1. new \in Seq(Session) /\ OnePerKey(new)
    BY KeptTakes, KeptPool
  <1>2. ASSUME NEW d \in Devices
        PROVE  Cardinality(Of(new, d)) <= MAX_SESSIONS_PER_DEVICE
    <2>1. Of(pool, d) \cap keep \in SUBSET Of(pool, d)
      OBVIOUS
    <2>2. IsFiniteSet(Of(pool, d)) /\ Cardinality(Of(pool, d)) \in Nat
      BY OfIsFinite
    <2>3. /\ Cardinality(Of(pool, d) \cap keep) <= Cardinality(Of(pool, d))
          /\ Cardinality(Of(pool, d) \cap keep) \in Nat
      BY <2>1, <2>2, FS_Subset, FS_CardinalityType
    <2>4. Cardinality(Of(new, d)) <= Cardinality(Of(pool, d) \cap keep)
      BY KeptPool
    <2>5. Cardinality(Of(new, d)) \in Nat
      BY <1>1, OfIsFinite
    <2>6. Cardinality(Of(pool, d)) <= MAX_SESSIONS_PER_DEVICE
      BY DEF WithinCap
    <2>. QED
      BY <2>2, <2>3, <2>4, <2>5, <2>6, PeersAssumption
  <1>. QED
    BY <1>1, <1>2 DEF WithinCap

(* Positions have a least one. *)
LEMMA OldestIsOne ==
    ASSUME NEW pool \in Seq(Session), NEW d, Of(pool, d) # {}
    PROVE  \E i \in Of(pool, d) : \A j \in Of(pool, d) : i <= j
  <1>1. Of(pool, d) \subseteq Nat
    BY DEF Of
  <1>2. PICK i \in Of(pool, d) : \A j \in Of(pool, d) : ~(<<j, i>> \in OpToRel(<, Nat))
    BY <1>1, NatLessThanWellFounded, WFMin, Zenon
  <1>3. \A j \in Of(pool, d) : ~(j < i)
    BY <1>1, <1>2 DEF OpToRel
  <1>. QED
    BY <1>1, <1>3

(* At most one of these is gone, and it was d's. *)
OneLeaves(before, after, d) == \E g : \A s \in before \ after : s = g /\ s.device = d

(* The room that is made for a key of a device: no other device loses a    *)
(* session, and this one loses one at most.                                *)
LEMMA RoomIsMade ==
    ASSUME NEW pool \in Seq(Session), OnePerKey(pool), WithinCap(pool),
           NEW d \in Devices, NEW cid, NEW room,
           room = IF \E i \in DOMAIN pool : SameKey(pool[i], d, cid)
                  THEN Without(pool, d, cid) ELSE enforce_session_cap(pool, d)
    PROVE  /\ room \in Seq(Session) /\ OnePerKey(room) /\ WithinCap(room)
           /\ Cardinality(Of(room, d)) < MAX_SESSIONS_PER_DEVICE
           /\ \A k \in DOMAIN room : ~SameKey(room[k], d, cid)
           /\ ToSet(room) \subseteq ToSet(pool)
           /\ OneLeaves(ToSet(pool), ToSet(room), d)
  <1>0. Cardinality(Of(pool, d)) \in Nat /\ IsFiniteSet(Of(pool, d))
        /\ Cardinality(Of(pool, d)) <= MAX_SESSIONS_PER_DEVICE
        /\ MAX_SESSIONS_PER_DEVICE \in Nat \ {0}
    BY OfIsFinite, PeersAssumption DEF WithinCap
  (* One of the device's sessions goes, and the new key is in none.        *)
  <1>1. ASSUME NEW at \in Of(pool, d), room = Kept(pool, DOMAIN pool \ {at}),
               \A i \in DOMAIN pool : i # at => ~SameKey(pool[i], d, cid)
        PROVE  /\ room \in Seq(Session) /\ OnePerKey(room) /\ WithinCap(room)
               /\ Cardinality(Of(room, d)) < MAX_SESSIONS_PER_DEVICE
               /\ \A k \in DOMAIN room : ~SameKey(room[k], d, cid)
               /\ ToSet(room) \subseteq ToSet(pool)
               /\ OneLeaves(ToSet(pool), ToSet(room), d)
    <2>1. room \in Seq(Session) /\ OnePerKey(room) /\ WithinCap(room)
      BY <1>1, KeptIsCapped
    <2>2. Cardinality(Of(room, d)) < MAX_SESSIONS_PER_DEVICE
      <3>1. Of(pool, d) \cap (DOMAIN pool \ {at}) = Of(pool, d) \ {at}
        BY DEF Of
      <3>2. Cardinality(Of(pool, d) \ {at}) = Cardinality(Of(pool, d)) - 1
        BY <1>0, FS_RemoveElement
      <3>3. Cardinality(Of(room, d)) <= Cardinality(Of(pool, d)) - 1
        <4>1. Cardinality(Of(room, d)) <= Cardinality(Of(pool, d) \cap (DOMAIN pool \ {at}))
          BY <1>1, KeptPool
        <4>. QED
          BY <3>1, <3>2, <4>1
      <3>4. Cardinality(Of(room, d)) \in Nat
        BY <2>1, OfIsFinite
      <3>. QED
        BY <1>0, <3>3, <3>4
    <2>3. ToSet(room) = {pool[i] : i \in DOMAIN pool \ {at}}
      BY <1>1, KeptPool
    <2>4. \A k \in DOMAIN room : ~SameKey(room[k], d, cid)
      BY <1>1, <2>3 DEF ToSet
    <2>5. PICK g : g = pool[at]
      OBVIOUS
    <2>6. \A s \in ToSet(pool) \ ToSet(room) : s = g /\ s.device = d
      BY <2>3, <2>5 DEF ToSet, Of
    <2>7. OneLeaves(ToSet(pool), ToSet(room), d)
      BY <2>6 DEF OneLeaves
    <2>. QED
      BY <2>1, <2>2, <2>3, <2>4, <2>7 DEF ToSet
  <1>2. CASE \E i \in DOMAIN pool : SameKey(pool[i], d, cid)
    <2>1. PICK at \in DOMAIN pool : SameKey(pool[at], d, cid)
      BY <1>2
    <2>2. at \in Of(pool, d)
      BY <2>1 DEF Of, SameKey
    <2>3. \A i \in DOMAIN pool : SameKey(pool[i], d, cid) => i = at
      BY <2>1 DEF OnePerKey, SameKey
    <2>4. {i \in DOMAIN pool : ~SameKey(pool[i], d, cid)} = DOMAIN pool \ {at}
      BY <2>1, <2>3
    <2>5. room = Kept(pool, DOMAIN pool \ {at})
      BY <1>2, <2>4 DEF Without
    <2>. QED
      BY <1>1, <2>2, <2>3, <2>5
  <1>3. CASE ~(\E i \in DOMAIN pool : SameKey(pool[i], d, cid))
    <2>1. room = enforce_session_cap(pool, d)
      BY <1>3
    <2>2. CASE Cardinality(Of(pool, d)) < MAX_SESSIONS_PER_DEVICE
      <3>1. room = pool
        BY <2>1, <2>2 DEF enforce_session_cap
      <3>. QED
        BY <1>3, <2>2, <3>1 DEF OneLeaves
    <2>3. CASE ~(Cardinality(Of(pool, d)) < MAX_SESSIONS_PER_DEVICE)
      <3>1. Of(pool, d) # {}
        BY <1>0, <2>3, FS_EmptySet
      <3>2. PICK at : /\ at = CHOOSE i \in Of(pool, d) : \A j \in Of(pool, d) : i <= j
                      /\ room = Kept(pool, DOMAIN pool \ {at})
        BY <2>1, <2>3 DEF enforce_session_cap
      <3>3. at \in Of(pool, d)
        BY <3>1, <3>2, OldestIsOne
      <3>. QED
        BY <1>1, <1>3, <3>2, <3>3
    <2>. QED
      BY <2>2, <2>3
  <1>. QED
    BY <1>2, <1>3

(* Parking: within what the device may hold, at the cost of no other.      *)
LEMMA ParkedIsCapped ==
    ASSUME NEW pool \in Seq(Session), OnePerKey(pool), WithinCap(pool),
           NEW p \in Peers, NEW cid \in Attachable \cup {AnyCredential},
           NEW new, new = Parked(pool, p, cid)
    PROVE  /\ OnePerKey(new) /\ WithinCap(new)
           /\ \A s \in ToSet(new) \ ToSet(pool) : s.device = p.device
           /\ OneLeaves({t \in ToSet(pool) : Live(t)}, ToSet(new), p.device)
  <1>1. p.device \in Devices
    BY PeersAreTyped
  <1>2. PICK e \in Session : e = [device |-> p.device, credential |-> cid,
                                  identity |-> p.identity, up |-> TRUE, idle |-> FALSE]
    BY PeersAreTyped DEF Session
  <1>3. PICK fresh : fresh = discard_stale(pool)
    OBVIOUS
  <1>4. fresh \in Seq(Session) /\ OnePerKey(fresh) /\ WithinCap(fresh)
    BY <1>3, KeptIsCapped DEF discard_stale
  <1>5. ToSet(fresh) = {t \in ToSet(pool) : Live(t)}
    <2>1. ToSet(fresh) = {pool[i] : i \in {j \in DOMAIN pool : Live(pool[j])}}
      BY <1>3, KeptPool DEF discard_stale
    <2>. QED
      BY <2>1 DEF ToSet
  <1>6. PICK room :
           /\ room = IF \E i \in DOMAIN fresh : SameKey(fresh[i], p.device, cid)
                     THEN Without(fresh, p.device, cid)
                     ELSE enforce_session_cap(fresh, p.device)
           /\ new = Append(room, e)
    BY <1>2, <1>3 DEF Parked
  <1>7. /\ room \in Seq(Session) /\ OnePerKey(room) /\ WithinCap(room)
        /\ Cardinality(Of(room, p.device)) < MAX_SESSIONS_PER_DEVICE
        /\ \A k \in DOMAIN room : ~SameKey(room[k], p.device, cid)
        /\ ToSet(room) \subseteq ToSet(fresh)
        /\ OneLeaves(ToSet(fresh), ToSet(room), p.device)
    <2>1. PICK d \in Devices : d = p.device
      BY <1>1
    <2>2. room = IF \E i \in DOMAIN fresh : SameKey(fresh[i], d, cid)
                 THEN Without(fresh, d, cid) ELSE enforce_session_cap(fresh, d)
      BY <1>6, <2>1
    <2>3. /\ room \in Seq(Session) /\ OnePerKey(room) /\ WithinCap(room)
          /\ Cardinality(Of(room, d)) < MAX_SESSIONS_PER_DEVICE
          /\ \A k \in DOMAIN room : ~SameKey(room[k], d, cid)
          /\ ToSet(room) \subseteq ToSet(fresh)
          /\ OneLeaves(ToSet(fresh), ToSet(room), d)
      BY <1>4, <2>2, RoomIsMade
    <2>. QED
      BY <2>1, <2>3
  <1>. DEFINE last == Len(room) + 1
  <1>8. /\ DOMAIN room = 1 .. Len(room) /\ DOMAIN new = 1 .. last /\ Len(room) \in Nat
        /\ (\A i \in DOMAIN room : new[i] = room[i]) /\ new[last] = e
    BY <1>2, <1>6, <1>7, AppendProperties
  <1>9. /\ DOMAIN new = DOMAIN room \cup {last} /\ last \notin DOMAIN room
        /\ new[last] = e
        /\ \A i \in DOMAIN room : new[i] = room[i]
    BY <1>8
  <1>. HIDE DEF last
  <1>10. SameKey(e, p.device, cid)
    BY <1>2 DEF SameKey
  <1>11. ToSet(new) = ToSet(room) \cup {e}
    BY <1>9 DEF ToSet
  <1>12. OnePerKey(new)
    BY <1>7, <1>9, <1>10 DEF OnePerKey, SameKey
  <1>13. ASSUME NEW d \in Devices
         PROVE  Cardinality(Of(new, d)) <= MAX_SESSIONS_PER_DEVICE
    <2>1. IsFiniteSet(Of(room, d)) /\ Cardinality(Of(room, d)) \in Nat
      BY <1>7, OfIsFinite
    <2>2. Cardinality(Of(room, d)) <= MAX_SESSIONS_PER_DEVICE
      BY <1>7 DEF WithinCap
    <2>3. CASE d = p.device
      <3>1. Of(new, d) = Of(room, d) \cup {last}
        BY <1>9, <1>10, <2>3 DEF Of, SameKey
      <3>2. last \notin Of(room, d)
        BY <1>9 DEF Of
      <3>3. Cardinality(Of(new, d)) = Cardinality(Of(room, d)) + 1
        BY <2>1, <3>1, <3>2, FS_AddElement
      <3>. QED
        BY <1>7, <2>1, <2>3, <3>3, PeersAssumption
    <2>4. CASE d # p.device
      <3>1. Of(new, d) = Of(room, d)
        BY <1>9, <1>10, <2>4 DEF Of, SameKey
      <3>. QED
        BY <2>2, <3>1
    <2>. QED
      BY <2>3, <2>4
  <1>14. \A s \in ToSet(new) \ ToSet(pool) : s.device = p.device
    BY <1>2, <1>5, <1>7, <1>11
  <1>15. {t \in ToSet(pool) : Live(t)} \ ToSet(new) \subseteq ToSet(fresh) \ ToSet(room)
    BY <1>5, <1>11
  <1>16. PICK g : \A s \in ToSet(fresh) \ ToSet(room) : s = g /\ s.device = p.device
    BY <1>7 DEF OneLeaves
  <1>17. OneLeaves({t \in ToSet(pool) : Live(t)}, ToSet(new), p.device)
    BY <1>15, <1>16 DEF OneLeaves
  <1>18. WithinCap(new)
    BY <1>13 DEF WithinCap
  <1>. QED
    BY <1>12, <1>14, <1>17, <1>18

(* A session that hangs up or grows old keeps its key.                     *)
LEMMA SessionsAreRenewed ==
    ASSUME PoolIsCapped, DOMAIN sessions' = DOMAIN sessions,
           \A i \in DOMAIN sessions : /\ sessions'[i].device = sessions[i].device
                                      /\ sessions'[i].credential = sessions[i].credential
    PROVE  PoolIsCapped'
  <1>1. \A d : Of(sessions', d) = Of(sessions, d)
    BY DEF Of
  <1>2. \A d \in Devices : Cardinality(Of(sessions', d)) <= MAX_SESSIONS_PER_DEVICE
    BY <1>1 DEF PoolIsCapped, WithinCap
  <1>3. OnePerKey(sessions')
    BY DEF PoolIsCapped, OnePerKey, SameKey
  <1>. QED
    BY <1>2, <1>3 DEF PoolIsCapped, WithinCap, OnePerKey

LEMMA CapSteps ==
    ASSUME PairingInv, PoolIsCapped, [Next]_vars
    PROVE  PoolIsCapped'
  <1>1. sessions \in Seq(Session)
    BY DEF PairingInv, NetTyped
  <1>2. ASSUME UNCHANGED sessions
        PROVE  PoolIsCapped'
    BY <1>2 DEF PoolIsCapped, OnePerKey, WithinCap
  <1>3. ASSUME OnePerKey(sessions'), WithinCap(sessions')
        PROVE  PoolIsCapped'
    BY <1>3 DEF PoolIsCapped, OnePerKey, WithinCap
  <1>4. ASSUME NEW c \in Conns, Serve(c)
        PROVE  PoolIsCapped'
    <2>1. ASSUME NEW cid \in Attachable \cup {AnyCredential}, Attach(c, cid)
          PROVE  PoolIsCapped'
      <3>1. conn[c].peer \in Peers
        BY <2>1, ConnKinds DEF Attach, PairingInv, NetTyped
      <3>2. sessions' = Parked(sessions, conn[c].peer, cid)
        BY <2>1 DEF Attach
      <3>3. OnePerKey(sessions') /\ WithinCap(sessions')
        BY <1>1, <3>1, <3>2, ParkedIsCapped DEF PoolIsCapped
      <3>. QED
        BY <1>3, <3>3
    <2>. QED
      BY <1>2, <1>4, <2>1 DEF Serve, ConnStep, Finish, Silent, Fail, Enrol
  <1>5. ASSUME NEW keep \in SUBSET (DOMAIN sessions), sessions' = Kept(sessions, keep)
        PROVE  PoolIsCapped'
    BY <1>1, <1>3, <1>5, KeptIsCapped DEF PoolIsCapped
  <1>6. ASSUME NEW d \in Devices, NEW cid \in Attachable, TakeSession(d, cid)
        PROVE  PoolIsCapped'
    <2>1. PICK pool : pool = discard_stale(sessions)
      OBVIOUS
    <2>2. pool \in Seq(Session) /\ OnePerKey(pool) /\ WithinCap(pool)
      BY <1>1, <2>1, KeptIsCapped DEF discard_stale, PoolIsCapped
    <2>3. PICK i \in DOMAIN pool : sessions' = Kept(pool, DOMAIN pool \ {i})
      BY <1>6, <2>1 DEF TakeSession, Matching
    <2>. QED
      BY <1>3, <2>2, <2>3, KeptIsCapped
  <1>7. ASSUME NEW i \in DOMAIN sessions, HangUp(i) \/ GrowIdle(i)
        PROVE  PoolIsCapped'
    <2>1. sessions[i] \in Session
      BY <1>1
    <2>2. PICK e : /\ sessions' = [sessions EXCEPT ![i] = e]
                   /\ e.device = sessions[i].device /\ e.credential = sessions[i].credential
      BY <1>7, <2>1 DEF HangUp, GrowIdle, Session
    <2>. QED
      BY <1>1, <2>2, SessionsAreRenewed
  <1>8. CASE Restart
    <2>1. sessions' = << >> /\ << >> \in Seq(Session)
      BY <1>8 DEF Restart
    <2>2. \A d : Of(sessions', d) = {}
      BY <2>1 DEF Of
    <2>3. OnePerKey(sessions')
      BY <2>1 DEF OnePerKey
    <2>4. WithinCap(sessions')
      BY <2>2, FS_EmptySet, PeersAssumption DEF WithinCap
    <2>. QED
      BY <1>3, <2>3, <2>4
  <1>9. CASE Reaper
    BY <1>5, <1>9 DEF Reaper, Reap, discard_stale
  <1>10. CASE Finishing
    BY <1>2, <1>5, <1>10 DEF Finishing, InstallPublish, ForgetPublish, ForgetDiscard, RequestEnds,
                             discard_sessions, netVars
  <1>. QED
    BY <1>2, <1>4, <1>6, <1>7, <1>8, <1>9, <1>10
       DEF Next, BeginPairing, CancelPairing, PendingPairing, ConfirmPairing, ForgetRemove, Dial,
           Accept, Ages, CodeExpires, vars, netVars

(* Only an attach brings a new session while a thread moves.               *)
LEMMA NobodyIsCrowdedOut ==
    ASSUME PairingInv, PoolIsCapped, [Next]_vars
    PROVE  CrowdsNobodyOut
  <1>. DEFINE New  == ToSet(sessions') \ ToSet(sessions)
              Gone == {s \in ToSet(sessions) : Live(s)} \ ToSet(sessions')
  <1>1. SUFFICES ASSUME conn' # conn, New # {}, sessions' # sessions
                 PROVE  /\ \A n \in New, g \in Gone : g.device = n.device
                        /\ Cardinality(Gone) <= 1
    <2>1. PoolIsCapped'
      BY CapSteps
    <2>. QED
      BY <1>1, <2>1 DEF CrowdsNobodyOut, PoolIsCapped, OnePerKey, WithinCap
  <1>2. ~Restart
    <2>1. Restart => New = {}
      BY DEF Restart, ToSet
    <2>. QED
      BY <1>1, <2>1
  <1>3. PICK c \in Conns : Serve(c)
    BY <1>1, <1>2
       DEF Next, BeginPairing, CancelPairing, PendingPairing, ConfirmPairing, ForgetRemove,
           Finishing, InstallPublish, ForgetPublish, ForgetDiscard, RequestEnds, TakeSession,
           Dial, Accept, HangUp, Ages, GrowIdle, Reaper, Reap, CodeExpires, vars, netVars
  <1>4. PICK cid \in Attachable \cup {AnyCredential} : Attach(c, cid)
    BY <1>1, <1>3 DEF Serve, ConnStep, Finish, Silent, Fail, Enrol
  <1>5. PICK p \in Peers : p = conn[c].peer
    BY <1>4, ConnKinds DEF Attach, PairingInv, NetTyped
  <1>6. sessions \in Seq(Session) /\ sessions' = Parked(sessions, p, cid)
    BY <1>4, <1>5 DEF Attach, PairingInv, NetTyped
  <1>7. /\ \A s \in New : s.device = p.device
        /\ OneLeaves({t \in ToSet(sessions) : Live(t)}, ToSet(sessions'), p.device)
    BY <1>6, ParkedIsCapped DEF PoolIsCapped
  <1>8. PICK g : \A s \in Gone : s = g /\ s.device = p.device
    BY <1>7 DEF OneLeaves
  <1>9. Cardinality(Gone) <= 1
    <2>1. PICK lost \in SUBSET {g} : lost = Gone
      BY <1>8
    <2>2. IsFiniteSet({g}) /\ Cardinality({g}) = 1
      BY FS_Singleton
    <2>3. Cardinality(lost) <= Cardinality({g})
      BY <2>2, FS_Subset
    <2>. QED
      BY <2>1, <2>2, <2>3
  <1>. QED
    BY <1>7, <1>8, <1>9

-----------------------------------------------------------------------------
(***************************************************************************)
(* The theorems.                                                           *)
(***************************************************************************)

LEMMA PairingStart ==
    ASSUME Init
    PROVE  PairingInv
  <1>. USE DEF Init, NetInit
  <1>1. store \in StoredDevices /\ store \in DeviceTable /\ disk = store /\ known_peers = store
    BY PairingAssumption DEF DeviceTable
  <1>2. armed \in Code
    BY PairingAssumption DEF Code, NoCode
  <1>3. NetTyped
    BY <1>1, <1>2, ClosedIsTyped, PairingAssumption DEF NetTyped
  <1>4. svc = Idle /\ svc \in Call
    BY DEF Call
  <1>5. promised \in [Devices -> Identities \cup {NoIdentity, Unsure}]
    BY <1>1 DEF DeviceTable
  <1>6. SvcTyped
    BY <1>1, <1>4, <1>5, PairingAssumption DEF SvcTyped
  <1>7. CallsAreStored /\ PromisesAreKept /\ HeldWasShown /\ OnlyWhatWasConfirmed
    BY DEF CallsAreStored, PromisesAreKept, HeldWasShown, OnlyWhatWasConfirmed, Idle
  <1>8. KnownAreConfirmed
    BY <1>1 DEF KnownAreConfirmed, AllConfirmed, Confirmed
  <1>9. ThreadsConfirmed
    BY ClosedIsTyped DEF ThreadsConfirmed
  <1>10. OnlyConfirmedPhonesPark
    BY DEF OnlyConfirmedPhonesPark, ToSet
  <1>. QED
    BY <1>3, <1>6, <1>7, <1>8, <1>9, <1>10 DEF PairingInv

LEMMA PairingSteps ==
    ASSUME PairingInv, [Next]_vars
    PROVE  PairingInv'
  <1>1. ASSUME NEW purpose \in Purposes, BeginPairing(purpose)
        PROVE  PairingInv'
    BY <1>1, BeginStep
  <1>2. CASE CancelPairing
    BY <1>2, CancelStep
  <1>3. CASE PendingPairing
    BY <1>3, PendingStep
  <1>4. ASSUME NEW quoted \in 0 .. attempts, NEW digits \in Digits, ConfirmPairing(quoted, digits)
        PROVE  PairingInv'
    BY <1>4, ConfirmStep
  <1>5. ASSUME NEW d \in Devices, ForgetRemove(d)
        PROVE  PairingInv'
    BY <1>5, ForgetRemoveStep
  <1>6. CASE Finishing
    BY <1>6, InstallPublishStep, ForgetPublishStep, ForgetDiscardStep, RequestEndsStep DEF Finishing
  <1>7. ASSUME NEW d \in Devices, NEW cid \in Attachable, TakeSession(d, cid)
        PROVE  PairingInv'
    BY <1>7, TakeStep
  <1>8. ASSUME NEW c \in Conns, NEW p \in Peers, Dial(c, p)
        PROVE  PairingInv'
    BY <1>8, DialStep
  <1>9. ASSUME NEW c \in Conns, Serve(c)
        PROVE  PairingInv'
    BY <1>9, ServeStep
  <1>10. ASSUME NEW i \in DOMAIN sessions, HangUp(i), UNCHANGED svcVars
         PROVE  PairingInv'
    BY <1>10, HangUpStep
  <1>11. CASE Ages
    BY <1>11, GrowIdleStep DEF Ages
  <1>12. CASE Reaper
    BY <1>12, ReapStep DEF Reaper
  <1>13. CASE CodeExpires
    BY <1>13, CodeExpiresStep
  <1>14. CASE Restart
    BY <1>14, RestartStep
  <1>15. CASE UNCHANGED vars
    <2>. USE <1>15 DEF vars, netVars, svcVars
    <2>1. NetTyped'
      BY DEF PairingInv, NetTyped
    <2>2. ThreadsConfirmed' /\ OnlyConfirmedPhonesPark'
      BY DEF PairingInv, ThreadsConfirmed, OnlyConfirmedPhonesPark, Confirmed
    <2>. QED
      BY <2>1, <2>2, NetStep
  <1>. QED
    BY <1>1, <1>2, <1>3, <1>4, <1>5, <1>6, <1>7, <1>8, <1>9, <1>10, <1>11, <1>12, <1>13, <1>14,
       <1>15 DEF Next

(* PairingInv holds in every reachable state.                              *)
LEMMA PairingInvariant == Spec => []PairingInv
  <1>1. Init => PairingInv
    BY PairingStart
  <1>2. PairingInv /\ [Next]_vars => PairingInv'
    BY PairingSteps
  <1>. QED
    BY <1>1, <1>2, PTL DEF Spec

(* Every value the store, the transport and its threads hold is one the    *)
(* program could hold, and no counter passes its bound.                    *)
THEOREM PairingTypeCorrect == Spec => []TypeOK
  BY PairingInvariant, TypesTogether, PTL

(* Whoever has a session in the pool proved an identity that was stored    *)
(* when the agent started or that a user confirmed, whatever codes were    *)
(* armed and whatever calls ran while it connected (serve_connection).     *)
THEOREM ParkedPhonesAreConfirmed == Spec => []OnlyConfirmedPhonesPark
  <1>1. PairingInv => OnlyConfirmedPhonesPark
    BY DEF PairingInv
  <1>. QED
    BY <1>1, PairingInvariant, PTL

(* confirm_pairing stores a pairing only for an attempt that was shown     *)
(* with those very digits, and for the attempt the client quoted.          *)
THEOREM StoredPairingsWereConfirmed == Spec => []OnlyWhatWasConfirmed
  <1>1. PairingInv => OnlyWhatWasConfirmed
    BY DEF PairingInv
  <1>. QED
    BY <1>1, PairingInvariant, PTL

(* What pair.confirm and devices.forget answered is what the disk holds,   *)
(* through failed writes of other calls and through restarts.              *)
THEOREM AnswersAreOnDisk == Spec => []AnsweredIsDurable
  <1>1. PairingInv => AnsweredIsDurable
    BY DEF PairingInv, PromisesAreKept, AnsweredIsDurable
  <1>. QED
    BY <1>1, PairingInvariant, PTL

(* A peer only ever takes places of its own device, and parking costs no   *)
(* other phone a good session, nor its own more than one                   *)
(* (enforce_session_cap), in whatever order connections and calls come.    *)
THEOREM NobodyCrowdsOut == Spec => NoCrowdingOut
  <1>1. Init => PoolIsCapped
    <2>1. ASSUME Init
          PROVE  PoolIsCapped
      <3>1. sessions = << >>
        BY <2>1 DEF Init, NetInit
      <3>2. \A d : Of(sessions, d) = {}
        BY <3>1 DEF Of
      <3>. QED
        BY <3>1, <3>2, FS_EmptySet, PeersAssumption DEF PoolIsCapped, OnePerKey, WithinCap
    <2>. QED
      BY <2>1
  <1>2. PairingInv /\ PoolIsCapped /\ [Next]_vars => PoolIsCapped'
    BY CapSteps
  <1>3. PairingInv /\ PoolIsCapped /\ [Next]_vars => CrowdsNobodyOut
    BY NobodyIsCrowdedOut
  <1>. QED
    BY <1>1, <1>2, <1>3, PairingInvariant, PTL DEF Spec, NoCrowdingOut
=============================================================================
