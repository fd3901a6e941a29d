---------------------------- MODULE BleTransport ----------------------------
(***************************************************************************)
(* The Bluetooth transport of the agent (ble.rs): one GATT link at a time, *)
(* the handshake and the attach window on it, the sessions parked for the  *)
(* service, the reaper, and the phones at the other end of a link that     *)
(* loses, repeats and reorders chunks.  Connection c of a phone is link c  *)
(* of the desktop when the hub takes it.  One device, paired under one     *)
(* identity key at a time; the credential of a pairing is named by its key.*)
(***************************************************************************)
EXTENDS SecureChannel

CONSTANTS Conns,        \* connections of phones, in no order
          Keys,         \* identity keys the device has had
          KeyOf,        \* KeyOf[c]: the key the phone behind c signs with
          FirstKey,     \* the key of the pairing it starts with
          Names,        \* Names[c]: the phone is new enough to send an attach
          None,
          Idle,         \* SESSION_IDLE_TIMEOUT in sweep intervals
          MaxQueue,     \* frames waiting for one session's caller
          MaxRequests   \* requests over one session

ASSUME BleAssumption == /\ KeyOf \in [Conns -> Keys] /\ FirstKey \in Keys
                        /\ Names \in [Conns -> BOOLEAN]
                        /\ None \notin Conns \cup Keys
                        /\ Idle \in Nat \ {0}
                        /\ MaxQueue \in Nat /\ MaxRequests \in Nat

VARIABLES active,     \* LinkHub.active
          link,       \* link[c]: phase, decoder and the desktop's channel of link c
          phone,      \* phone[c]: the phone's end of connection c
          wire,       \* chunks written so far: the air delivers any of them in any
                      \* order, again and again, or never
          parked,     \* State.sessions, by the credential named, if any
          taken,      \* sessions in the hands of a caller
          incoming,   \* incoming[c]: frames the pump has passed on
          outgoing,   \* outgoing[c]: requests the pump has not notified
          known,      \* known_peers: the key the device is paired under
          unpaired,   \* unpaired[k]: intervals since k was that key
          sealed, opened

bleVars == <<active, link, phone, wire, parked, taken, incoming, outgoing,
             known, unpaired, sealed, opened>>

NoSession == [conn |-> None, age |-> 0]

Phases == {"off", "hello", "attach", "pump", "done"}

\* The attach frame, and the answer to a session's n-th request.
AttachMsg == 0
Messages == {AttachMsg} \cup (1 .. MaxRequests)

Hello(c) == [kind |-> "hello", conn |-> c]

NewLink == [phase |-> "off", partial |-> NoPartial, channel |-> NewChannel(None), waited |-> FALSE]

Init ==
    /\ active = None
    /\ link = [c \in Conns |-> NewLink]
    /\ phone = [c \in Conns |-> [st |-> "away", id |-> 0, channel |-> NewChannel(c), asked |-> 0]]
    /\ wire = {}
    /\ parked = [k \in Keys \cup {None} |-> NoSession]
    /\ taken = {}
    /\ incoming = [c \in Conns |-> <<>>]
    /\ outgoing = [c \in Conns |-> 0]
    /\ known = FirstKey
    /\ unpaired = [k \in Keys |-> IF k = known THEN 0 ELSE Idle + 2]
    /\ sealed = [c \in Conns |-> <<>>]
    /\ opened = [c \in Conns |-> <<>>]

-----------------------------------------------------------------------------
(* The phone's end.  No phone need ever take its next step: one that went  *)
(* out of range or was killed looks to the desktop like one that is silent. *)

\* LinkHub::begin.
BeginLink(c) ==
    /\ active = None
    /\ active' = c
    /\ link' = [link EXCEPT ![c].phase = "hello"]

\* The notification callback: the hub takes the link when none is active and
\* greets the phone with a fresh hello; otherwise the phone hears nothing,
\* though what it writes still reaches the active link.
Subscribe(c) ==
    /\ phone[c].st = "away"
    /\ \/ /\ BeginLink(c)
          /\ phone' = [phone EXCEPT ![c].st = "greeted"]
       \/ /\ active # None
          /\ phone' = [phone EXCEPT ![c].st = "ignored"]
          /\ UNCHANGED <<active, link>>
    /\ UNCHANGED <<wire, parked, taken, incoming, outgoing, known, unpaired, sealed, opened>>

\* ClientHandshake::respond: the phone echoes the link's bootstrap and signs.
Answer(c) ==
    /\ phone[c].st = "greeted"
    /\ phone' = [phone EXCEPT ![c].st = "in", ![c].id = 1]
    /\ wire' = wire \cup Chunks(Hello(c), 0, 2)
    /\ UNCHANGED <<active, link, parked, taken, incoming, outgoing, known, unpaired, sealed, opened>>

SealAndWrite(c, msg, total) ==
    /\ CanSeal(phone[c].channel)
    /\ phone' = [phone EXCEPT ![c].id = @ + 1, ![c].channel = Advance(@),
                              ![c].asked = IF msg = AttachMsg THEN @ ELSE @ - 1]
    /\ wire' = wire \cup Chunks(Record(phone[c].channel, msg), phone[c].id, total)
    /\ sealed' = [sealed EXCEPT ![c] = Append(@, msg)]
    /\ UNCHANGED <<active, link, parked, taken, incoming, outgoing, known, unpaired, opened>>

\* A phone new enough names its credential first of all.
Attach(c) ==
    /\ phone[c].st = "in" /\ Names[c] /\ sealed[c] = <<>>
    /\ SealAndWrite(c, AttachMsg, 1)

Answered(c) == Cardinality({i \in DOMAIN sealed[c] : sealed[c][i] # AttachMsg})

Respond(c) ==
    /\ phone[c].st = "in" /\ phone[c].asked > 0
    /\ Names[c] => sealed[c] # <<>>
    /\ SealAndWrite(c, Answered(c) + 1, 2)

-----------------------------------------------------------------------------
(* Serving the link.                                                       *)

\* serve_link returns and LinkHub::finish frees the hub.
EndLink(c) ==
    /\ active' = None
    /\ link' = [link EXCEPT ![c].phase = "done", ![c].partial = NoPartial, ![c].waited = FALSE]

\* A window that is inclusive at its end.
LiveInclusive(session) == session.conn # None /\ session.age <= Idle

\* discard_stale.
Live(session) == session.conn # None /\ session.age < Idle

DiscardStale(sessions) ==
    [k \in DOMAIN sessions |-> IF Live(sessions[k]) THEN sessions[k] ELSE NoSession]

\* The session is parked under the credential the phone named, replacing the
\* one that was there, and the link turns into a pump.
Park(c, k) ==
    /\ parked' = [DiscardStale(parked) EXCEPT ![k] = [conn |-> c, age |-> 0]]
    /\ link' = [link EXCEPT ![c].phase = "pump", ![c].waited = FALSE]
    /\ UNCHANGED active

\* The client hello: it must echo this link, come from a device that is
\* paired and be signed with the key it is paired under.
TakesHello(c, frame) ==
    /\ frame.kind = "hello"
    /\ frame.conn = c
    /\ KeyOf[frame.conn] = known

TakesAttach(c, frame) ==
    /\ Opens(link[c].channel, frame)
    /\ frame.msg = AttachMsg

\* Somebody still holds the other halves of the pump's channels.
Held(c) == c \in taken \/ \E k \in DOMAIN parked : parked[k].conn = c

\* What serve_link does with a frame in each of its phases; "decoder" is the
\* decoder once the frame has left it.
TakeFrame(c, frame, decoder) ==
    CASE link[c].phase = "hello" /\ TakesHello(c, frame) ->
             /\ link' = [link EXCEPT ![c].phase = "attach", ![c].channel = NewChannel(c),
                                     ![c].partial = decoder]
             /\ UNCHANGED <<active, parked, incoming, opened>>
      [] link[c].phase = "attach" /\ TakesAttach(c, frame) ->
             /\ parked' = [DiscardStale(parked) EXCEPT ![KeyOf[c]] = [conn |-> c, age |-> 0]]
             /\ link' = [link EXCEPT ![c].phase = "pump", ![c].waited = FALSE,
                                     ![c].channel = Advance(@), ![c].partial = decoder]
             /\ opened' = [opened EXCEPT ![c] = Append(@, frame.msg)]
             /\ UNCHANGED <<active, incoming>>
      [] link[c].phase = "pump" /\ Held(c) ->
             /\ incoming' = [incoming EXCEPT ![c] = Append(@, frame)]
             /\ link' = [link EXCEPT ![c].partial = decoder]
             /\ UNCHANGED <<active, parked, opened>>
      [] OTHER ->
             EndLink(c) /\ UNCHANGED <<parked, incoming, opened>>

\* LinkHub::write and the decoder: a chunk goes to the active link, whoever
\* wrote it; without one it is refused.  A chunk the decoder rejects ends the
\* link.
Arrive(chunk) ==
    /\ active # None
    /\ Len(incoming[active]) < MaxQueue
    /\ LET r == AddChunk(link[active].partial, chunk)
       IN  CASE r.frame = BadChunk -> EndLink(active) /\ UNCHANGED <<parked, incoming, opened>>
             [] r.frame = NoFrame ->
                    /\ link' = [link EXCEPT ![active].partial = r.partial]
                    /\ UNCHANGED <<active, parked, incoming, opened>>
             [] OTHER -> TakeFrame(active, r.frame, r.partial)
    /\ UNCHANGED <<phone, wire, taken, outgoing, known, unpaired, sealed>>

HandshakeTimeout(c) ==
    /\ active = c /\ link[c].phase = "hello"
    /\ EndLink(c)
    /\ UNCHANGED <<phone, wire, parked, taken, incoming, outgoing, known, unpaired, sealed, opened>>

\* No attach within its window: a phone too old to send one.
AttachTimeout(c) ==
    /\ active = c /\ link[c].phase = "attach"
    /\ Park(c, None)
    /\ UNCHANGED <<phone, wire, taken, incoming, outgoing, known, unpaired, sealed, opened>>

\* The session was dropped, by its caller or by the reaper: the loop breaks.
PumpEnds(c) ==
    /\ active = c /\ link[c].phase = "pump" /\ ~Held(c)
    /\ EndLink(c)
    /\ UNCHANGED <<phone, wire, parked, taken, incoming, outgoing, known, unpaired, sealed, opened>>

\* A request leaves as notifications; they fail when the phone is gone, and a
\* record over the frame limit is refused by the encoder: either ends the link.
Notify(c) ==
    /\ active = c /\ link[c].phase = "pump" /\ outgoing[c] > 0
    /\ outgoing' = [outgoing EXCEPT ![c] = @ - 1]
    /\ \/ /\ phone[c].st = "in"
          /\ phone' = [phone EXCEPT ![c].asked = @ + 1]
          /\ UNCHANGED <<active, link>>
       \/ EndLink(c) /\ UNCHANGED phone
    /\ UNCHANGED <<wire, parked, taken, incoming, known, unpaired, sealed, opened>>

-----------------------------------------------------------------------------
(* The sessions: the service's calls and the reaper.                       *)

\* take_session: the one parked for the credential, or else one whose phone
\* named none.
PickSession(fresh) == IF fresh[known] # NoSession THEN known ELSE None

\* connect(): stale sessions go first; with none to hand out within the wait
\* the caller gets an error and nothing else changes.
Take ==
    /\ known # None
    /\ LET fresh == DiscardStale(parked)
           k == PickSession(fresh)
       IN  /\ fresh[k] # NoSession
           /\ parked' = [fresh EXCEPT ![k] = NoSession]
           /\ taken' = taken \cup {fresh[k].conn}
    /\ UNCHANGED <<active, link, phone, wire, incoming, outgoing, known, unpaired, sealed, opened>>

\* BleSession::send: sealed and queued, or a broken pipe when the pump is gone.
Send(c) ==
    /\ c \in taken /\ link[c].phase = "pump" /\ outgoing[c] + phone[c].asked + Answered(c) < MaxRequests
    /\ outgoing' = [outgoing EXCEPT ![c] = @ + 1]
    /\ UNCHANGED <<active, link, phone, wire, parked, taken, incoming, known, unpaired, sealed, opened>>

\* BleSession::receive: the next frame the pump passed on, opened; one that
\* does not open is an error to the caller and moves no counter.  The session
\* owns its channel, so what the pump left behind still opens when it is gone.
Receive(c) ==
    /\ c \in taken /\ incoming[c] # <<>>
    /\ incoming' = [incoming EXCEPT ![c] = Tail(@)]
    /\ IF Opens(link[c].channel, Head(incoming[c]))
       THEN /\ opened' = [opened EXCEPT ![c] = Append(@, Head(incoming[c]).msg)]
            /\ link' = [link EXCEPT ![c].channel = Advance(@)]
       ELSE UNCHANGED <<opened, link>>
    /\ UNCHANGED <<active, phone, wire, parked, taken, outgoing, known, unpaired, sealed>>

\* close(), or the caller drops the session when its call is over.
Close(c) ==
    /\ c \in taken
    /\ taken' = taken \ {c}
    /\ incoming' = [incoming EXCEPT ![c] = <<>>]
    /\ UNCHANGED <<active, link, phone, wire, parked, outgoing, known, unpaired, sealed, opened>>

\* The defect reap_loop was written against: only take_session discards.
SweepOnlyOnTake == FALSE /\ UNCHANGED bleVars

\* reap_loop.
Sweep ==
    /\ DiscardStale(parked) # parked
    /\ parked' = DiscardStale(parked)
    /\ UNCHANGED <<active, link, phone, wire, taken, incoming, outgoing, known, unpaired, sealed, opened>>

\* One sweep interval passes.  The attach window is far shorter than one, so
\* at most one boundary falls into it.
Tick ==
    /\ \A c \in Conns : ~link[c].waited
    /\ link' = [c \in Conns |-> [link[c] EXCEPT !.waited = link[c].phase = "attach"]]
    /\ parked' = [k \in DOMAIN parked |->
                     IF parked[k] = NoSession \/ parked[k].age = Idle + 1 THEN parked[k]
                     ELSE [parked[k] EXCEPT !.age = @ + 1]]
    /\ unpaired' = [k \in Keys |-> IF k = known \/ unpaired[k] = Idle + 2 THEN unpaired[k]
                                   ELSE unpaired[k] + 1]
    /\ UNCHANGED <<active, phone, wire, taken, incoming, outgoing, known, sealed, opened>>

\* publish_known_peers after a pairing or a forget: the map is replaced, the
\* sessions are left alone.
SetKnownPeers(k) ==
    /\ k # known
    /\ k # None => unpaired[k] = Idle + 2   \* a bound: keys come back late
    /\ known' = k
    /\ unpaired' = IF k = None THEN unpaired ELSE [unpaired EXCEPT ![k] = 0]
    /\ UNCHANGED <<active, link, phone, wire, parked, taken, incoming, outgoing, sealed, opened>>

-----------------------------------------------------------------------------
LinkStep(c) ==
    \/ Subscribe(c) \/ Answer(c) \/ Attach(c) \/ Respond(c)
    \/ HandshakeTimeout(c) \/ AttachTimeout(c) \/ PumpEnds(c) \/ Notify(c)
    \/ Send(c) \/ Receive(c) \/ Close(c)

Next == \/ \E c \in Conns : LinkStep(c)
        \/ \E chunk \in wire : Arrive(chunk)
        \/ Take \/ Sweep \/ Tick
        \/ \E k \in Keys \cup {None} : SetKnownPeers(k)

\* The timers of serve_link, the pump, the reaper's thread and the clock run
\* by themselves, and every call of the service ends within its timeouts.
\* Nothing is assumed of a phone.
Fairness == /\ \A c \in Conns : /\ WF_bleVars(HandshakeTimeout(c)) /\ WF_bleVars(AttachTimeout(c))
                                /\ WF_bleVars(PumpEnds(c)) /\ WF_bleVars(Close(c))
            /\ WF_bleVars(Sweep) /\ WF_bleVars(Tick)

Spec == Init /\ [][Next]_bleVars
FairSpec == Spec /\ Fairness

-----------------------------------------------------------------------------
(* Properties.                                                             *)

\* The shape of the state; the hub points at a link that is being served, and
\* every session is of a link that completed the handshake.
TypeOK ==
    /\ active \in Conns \cup {None}
    /\ \A c \in Conns : /\ link[c].phase \in Phases
                        /\ link[c].phase \in {"hello", "attach", "pump"} <=> active = c
                        /\ Cardinality(PartialIds(link[c].partial)) <= MaxPartial
                        /\ Held(c) => link[c].phase \in {"pump", "done"}
                        /\ sealed[c] \in Seq(Messages) /\ opened[c] \in Seq(Messages)
    /\ \A k \in DOMAIN parked : parked[k].conn \in Conns \cup {None} /\ parked[k].age \in 0 .. Idle + 1
    /\ taken \subseteq Conns /\ known \in Keys \cup {None}

\* The record layer keeps its promise over this link (ble.rs BleSession and
\* channel.rs open): whatever the air loses, repeats, reorders or mixes in
\* from another phone's writes, a session's messages are handed over in the
\* order they were sealed, each once.
Ordered == INSTANCE OrderedChannel WITH Sessions <- Conns
KeepsOrder == Ordered!Spec

\* take_session never hands out a session that proved a key the device has
\* not been paired under for longer than the idle window: forget leaves parked
\* sessions alone here, so the window is all that bounds them.
HandsOutRecentKeys ==
    [][\A c \in taken' \ taken : unpaired[KeyOf[c]] <= Idle]_bleVars

\* Whatever a phone does or fails to do, a link it holds comes to an end and
\* the hub can take another phone.
HubIsFreed == \A c \in Conns : (active = c) ~> (active # c)
=============================================================================
