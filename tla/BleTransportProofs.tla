------------------------- MODULE BleTransportProofs -------------------------
(***************************************************************************)
(* Machine-checked theorems about BleTransport, for every set of phones    *)
(* and keys and every bound: a session hands over what was sealed in it,   *)
(* in order (the refinement of OrderedChannel), and no session is handed   *)
(* out long after its key was unpaired.                                    *)
(***************************************************************************)
EXTENDS BleTransport, SequenceTheorems, FiniteSetTheorems, TLAPS

-----------------------------------------------------------------------------
(* Types. *)

Channel == [conn : Conns \cup {None}, counter : Nat]
Frame == [kind : {"hello"}, conn : Conns]
           \cup [kind : {"record"}, conn : Conns, counter : Nat, msg : Messages]
Chunk == [id : Int, index : Nat, total : Nat, of : Frame]
Link == [phase : Phases, partial : SUBSET Chunk, channel : Channel, waited : BOOLEAN]
Phone == [st : {"away", "greeted", "ignored", "in"}, id : Nat, channel : Channel, asked : Nat]
ParkedSession == [conn : Conns \cup {None}, age : 0 .. Idle + 1]

BleTyped ==
    /\ active \in Conns \cup {None}
    /\ link \in [Conns -> Link] /\ phone \in [Conns -> Phone]
    /\ wire \subseteq Chunk
    /\ parked \in [Keys \cup {None} -> ParkedSession]
    /\ taken \subseteq Conns
    /\ outgoing \in [Conns -> Nat]
    /\ known \in Keys \cup {None} /\ unpaired \in [Keys -> 0 .. Idle + 2]
    /\ sealed \in [Conns -> Seq(Messages)] /\ opened \in [Conns -> Seq(Messages)]
    /\ DOMAIN incoming = Conns
    /\ \A c \in Conns : incoming[c] \in Seq(Frame \cup {Garbled})

(***************************************************************************)
(* The inductive invariant.                                                *)
(***************************************************************************)

(* What a decoder holds was written, and is parts of few frames.           *)
DecodersAreBounded ==
    \A c \in Conns :
        /\ link[c].partial \subseteq wire
        /\ IsFiniteSet(PartialIds(link[c].partial))
        /\ Cardinality(PartialIds(link[c].partial)) <= MaxPartial

(* The hub points at the one link that is being served, a link is new      *)
(* until its phone is greeted, and a session is of a link that got as far. *)
LinksAreServed ==
    \A c \in Conns :
        /\ link[c].phase \in {"hello", "attach", "pump"} <=> active = c
        /\ Held(c) => link[c].phase \in {"pump", "done"}
        /\ phone[c].st = "away" => link[c].phase = "off"
        /\ link[c].phase \in {"off", "hello"} => opened[c] = <<>>

(* Each end's counter is how far its session has come.                     *)
CountersCount ==
    \A c \in Conns :
        /\ phone[c].channel.conn = c /\ phone[c].channel.counter = Len(sealed[c])
        /\ link[c].channel.conn \in {c, None} /\ link[c].channel.counter = Len(opened[c])

(* A record holds the message its phone sealed under its counter.          *)
Genuine(frame) ==
    frame.kind = "record" =>
        /\ frame.conn \in Conns /\ frame.counter \in Nat
        /\ frame.counter < Len(sealed[frame.conn])
        /\ frame.msg = sealed[frame.conn][frame.counter + 1]

FramesAreGenuine ==
    /\ \A chunk \in wire : Genuine(chunk.of)
    /\ \A c \in Conns : \A i \in DOMAIN incoming[c] : Genuine(incoming[c][i])

(* A phone answers as often as it was asked.                               *)
AnswersAreAsked ==
    \A c \in Conns : outgoing[c] + phone[c].asked + Answered(c) <= MaxRequests

(* A session is at most as old as the time since its key was unpaired, but *)
(* for the interval a boundary of which may fall into its attach window.   *)
KeysAreRecent ==
    /\ known # None => unpaired[known] = 0
    /\ \A c \in Conns : link[c].phase = "attach" =>
         unpaired[KeyOf[c]] <= IF link[c].waited THEN 1 ELSE 0
    /\ \A k \in Keys \cup {None} : parked[k].conn # None =>
         unpaired[KeyOf[parked[k].conn]] <= parked[k].age + 1

BleInv ==
    /\ BleTyped /\ DecodersAreBounded /\ LinksAreServed
    /\ CountersCount /\ FramesAreGenuine /\ AnswersAreAsked /\ KeysAreRecent

-----------------------------------------------------------------------------
(***************************************************************************)
(* The framing.                                                            *)
(***************************************************************************)

LEMMA ChunksOfFrame ==
    ASSUME NEW frame \in Frame, NEW id \in Nat, NEW total \in Nat
    PROVE  /\ Chunks(frame, id, total) \subseteq Chunk
           /\ \A c \in Chunks(frame, id, total) : c.of = frame
  <1>1. id % IdModulus \in Int
    BY FramingAssumption
  <1>2. \A i \in 0 .. total - 1 : i \in Nat
    OBVIOUS
  <1>. QED
    BY <1>1, <1>2 DEF Chunks, Chunk

LEMMA FrameKinds ==
    /\ \A f \in Frame : f.kind \in {"hello", "record"} /\ f.conn \in Conns
    /\ BadChunk.kind = "bad chunk" /\ NoFrame.kind = "none" /\ Garbled.kind = "garbled"
    /\ \A f \in Frame : f.kind = "record" => f.counter \in Nat /\ f.msg \in Messages
  BY DEF Frame, BadChunk, NoFrame, Garbled

(* However chunks arrive, the decoder holds parts that were written, of    *)
(* few frames, and gives out a frame that was written, an error or bytes   *)
(* that are no frame.                                                      *)
LEMMA DecoderStep ==
    ASSUME NEW p, p \subseteq wire, IsFiniteSet(PartialIds(p)),
           Cardinality(PartialIds(p)) <= MaxPartial,
           NEW c \in wire, NEW r, r = AddChunk(p, c)
    PROVE  /\ r.partial \subseteq wire
           /\ IsFiniteSet(PartialIds(r.partial)) /\ Cardinality(PartialIds(r.partial)) <= MaxPartial
           /\ r.frame \in {BadChunk, NoFrame, Garbled} \cup {d.of : d \in wire}
  <1>. DEFINE mine == PartialOf(p, c.id)
              all == mine \cup {c}
  <1>1. mine \subseteq p /\ all \subseteq wire
    BY DEF PartialOf
  <1>2. ASSUME NEW q \in SUBSET p
        PROVE  IsFiniteSet(PartialIds(q)) /\ Cardinality(PartialIds(q)) <= MaxPartial
    <2>1. PartialIds(q) \in SUBSET PartialIds(p)
      BY DEF PartialIds
    <2>2. IsFiniteSet(PartialIds(q)) /\ Cardinality(PartialIds(q)) <= Cardinality(PartialIds(p))
      BY <2>1, FS_Subset
    <2>3. Cardinality(PartialIds(q)) \in Nat /\ Cardinality(PartialIds(p)) \in Nat
      BY <2>2, FS_CardinalityType
    <2>. QED
      BY <2>2, <2>3, FramingAssumption
  <1>3. PartialIds(p \cup all) = PartialIds(p) \cup {c.id}
    BY <1>1 DEF PartialIds
  <1>4. mine # {} => c.id \in PartialIds(p)
    BY DEF PartialOf, PartialIds
  <1>5. ~(mine = {} /\ Cardinality(PartialIds(p)) >= MaxPartial) =>
           IsFiniteSet(PartialIds(p \cup all)) /\ Cardinality(PartialIds(p \cup all)) <= MaxPartial
    <2>1. PICK ids : ids = PartialIds(p)
      OBVIOUS
    <2>2. IsFiniteSet(ids) /\ Cardinality(ids) \in Nat /\ Cardinality(ids) <= MaxPartial
      BY <2>1, FS_CardinalityType
    <2>3. /\ IsFiniteSet(ids \cup {c.id})
          /\ Cardinality(ids \cup {c.id}) = IF c.id \in ids THEN Cardinality(ids) ELSE Cardinality(ids) + 1
      BY <2>2, FS_AddElement
    <2>4. mine # {} => c.id \in ids
      BY <1>4, <2>1
    <2>5. ~(mine = {} /\ Cardinality(ids) >= MaxPartial) => Cardinality(ids \cup {c.id}) <= MaxPartial
      <3>. HIDE DEF mine
      <3>. QED
        BY <2>2, <2>3, <2>4, FramingAssumption
    <2>. QED
      BY <1>3, <2>1, <2>3, <2>5
  <1>6. Assembled(all) \in {Garbled} \cup {d.of : d \in wire}
    <2>1. Assembled(all) \in {Garbled} \cup {d.of : d \in all}
      BY DEF Assembled
    <2>. QED
      BY <1>1, <2>1
  <1>7. \/ r = [partial |-> p, frame |-> BadChunk]
        \/ r = [partial |-> p \ mine, frame |-> BadChunk]
        \/ /\ ~(mine = {} /\ Cardinality(PartialIds(p)) >= MaxPartial)
           /\ r = [partial |-> p \cup all, frame |-> NoFrame]
        \/ r = [partial |-> p \ mine, frame |-> Assembled(all)]
    BY DEF AddChunk
  <1>. HIDE DEF mine, all
  <1>8. CASE r = [partial |-> p, frame |-> BadChunk]
    BY <1>8
  <1>9. CASE r = [partial |-> p \ mine, frame |-> BadChunk]
    BY <1>2, <1>9
  <1>10. CASE /\ ~(mine = {} /\ Cardinality(PartialIds(p)) >= MaxPartial)
              /\ r = [partial |-> p \cup all, frame |-> NoFrame]
    BY <1>1, <1>5, <1>10
  <1>11. CASE r = [partial |-> p \ mine, frame |-> Assembled(all)]
    BY <1>2, <1>6, <1>11
  <1>. QED
    BY <1>7, <1>8, <1>9, <1>10, <1>11

-----------------------------------------------------------------------------
(***************************************************************************)
(* Sequences of messages.                                                  *)
(***************************************************************************)

LEMMA MessageAppended ==
    ASSUME NEW s \in Seq(Messages), NEW m \in Messages, NEW new, new = Append(s, m)
    PROVE  /\ new \in Seq(Messages) /\ Len(new) = Len(s) + 1 /\ Len(s) \in Nat
           /\ \A i \in 1 .. Len(s) : new[i] = s[i]
           /\ new[Len(s) + 1] = m
  BY AppendProperties

(* How many answers there are after one more message. *)
LEMMA AnswersCounted ==
    ASSUME NEW c \in Conns, sealed[c] \in Seq(Messages), NEW m \in Messages,
           sealed'[c] = Append(sealed[c], m)
    PROVE  /\ Answered(c) \in Nat
           /\ Answered(c)' = IF m = AttachMsg THEN Answered(c) ELSE Answered(c) + 1
  <1>1. PICK s \in Seq(Messages), t \in Seq(Messages) : s = sealed[c] /\ t = sealed'[c]
    BY MessageAppended
  <1>2. /\ Len(t) = Len(s) + 1 /\ Len(s) \in Nat /\ t[Len(s) + 1] = m
        /\ \A i \in 1 .. Len(s) : t[i] = s[i]
    BY <1>1, MessageAppended
  <1>3. DOMAIN s = 1 .. Len(s) /\ DOMAIN t = 1 .. Len(s) + 1
    BY <1>2
  <1>. DEFINE old == {i \in DOMAIN s : s[i] # AttachMsg}
              new == {i \in DOMAIN t : t[i] # AttachMsg}
  <1>4. IsFiniteSet(1 .. Len(s)) /\ old \in SUBSET (1 .. Len(s))
    BY <1>2, <1>3, FS_Interval
  <1>5. IsFiniteSet(old) /\ Cardinality(old) \in Nat
    BY <1>4, FS_Subset, FS_CardinalityType
  <1>6. new = IF m = AttachMsg THEN old ELSE old \cup {Len(s) + 1}
    BY <1>2, <1>3
  <1>7. Len(s) + 1 \notin old
    BY <1>2, <1>3
  <1>8. Cardinality(new) = IF m = AttachMsg THEN Cardinality(old) ELSE Cardinality(old) + 1
    BY <1>5, <1>6, <1>7, FS_AddElement
  <1>9. Answered(c) = Cardinality(old) /\ Answered(c)' = Cardinality(new)
    BY <1>1 DEF Answered
  <1>. QED
    BY <1>5, <1>8, <1>9

LEMMA AnsweredIsNat ==
    ASSUME NEW c \in Conns, sealed[c] \in Seq(Messages)
    PROVE  Answered(c) \in Nat
  <1>1. Len(sealed[c]) \in Nat /\ DOMAIN sealed[c] = 1 .. Len(sealed[c])
    OBVIOUS
  <1>. DEFINE some == {i \in DOMAIN sealed[c] : sealed[c][i] # AttachMsg}
  <1>2. some \in SUBSET (1 .. Len(sealed[c])) /\ IsFiniteSet(1 .. Len(sealed[c]))
    BY <1>1, FS_Interval
  <1>3. Cardinality(some) \in Nat
    BY <1>2, FS_Subset, FS_CardinalityType
  <1>. QED
    BY <1>3 DEF Answered

-----------------------------------------------------------------------------
(***************************************************************************)
(* Steps at the desktop's end of a link.                                   *)
(***************************************************************************)

LEMMA NothingPending == PartialIds(NoPartial) = {} /\ IsFiniteSet({}) /\ Cardinality({}) = 0
  BY FS_EmptySet DEF PartialIds, NoPartial

(* A link is left as it is, or goes on with x, which fits it. *)
LEMMA LinkGoesOn ==
    ASSUME BleInv, NEW c \in Conns, NEW x \in Link, link' = [link EXCEPT ![c] = x],
           x.partial \subseteq wire', wire \subseteq wire',
           IsFiniteSet(PartialIds(x.partial)), Cardinality(PartialIds(x.partial)) <= MaxPartial,
           x.channel.conn \in {c, None}, x.channel.counter = Len(opened'[c]),
           \A d \in Conns : d # c => opened'[d] = opened[d],
           UNCHANGED <<phone, sealed>>
    PROVE  link' \in [Conns -> Link] /\ DecodersAreBounded' /\ CountersCount'
  <1>1. link \in [Conns -> Link]
    BY DEF BleInv, BleTyped
  <1>2. link' \in [Conns -> Link] /\ \A d \in Conns : link'[d] = IF d = c THEN x ELSE link[d]
    BY <1>1
  <1>3. DecodersAreBounded'
    BY <1>2 DEF BleInv, DecodersAreBounded, PartialIds
  <1>4. CountersCount'
    BY <1>2 DEF BleInv, CountersCount
  <1>. QED
    BY <1>2, <1>3, <1>4

LEMMA LinkEnds ==
    ASSUME BleInv, NEW c \in Conns, active = c, link[c].phase # "off", EndLink(c),
           UNCHANGED <<wire, parked, taken, known, unpaired, sealed, opened>>,
           phone' = phone
    PROVE  /\ active' \in Conns \cup {None} /\ link' \in [Conns -> Link]
           /\ DecodersAreBounded' /\ LinksAreServed' /\ CountersCount' /\ KeysAreRecent'
  <1>1. link[c] \in Link /\ link \in [Conns -> Link]
    BY DEF BleInv, BleTyped
  <1>2. PICK x : x = [link[c] EXCEPT !.phase = "done", !.partial = NoPartial, !.waited = FALSE]
    OBVIOUS
  <1>3. x \in Link /\ x.phase = "done" /\ x.partial = {} /\ x.channel = link[c].channel
    BY <1>1, <1>2 DEF Link, Phases, NoPartial
  <1>4. link' = [link EXCEPT ![c] = x] /\ active' = None
    BY <1>1, <1>2 DEF EndLink
  <1>5. /\ x.channel.conn \in {c, None} /\ x.channel.counter = Len(opened'[c])
        /\ x.partial \subseteq wire'
        /\ IsFiniteSet(PartialIds(x.partial)) /\ Cardinality(PartialIds(x.partial)) <= MaxPartial
    <2>1. x.channel.conn \in {c, None} /\ x.channel.counter = Len(opened'[c])
      BY <1>3 DEF BleInv, CountersCount
    <2>2. PartialIds(x.partial) = {}
      BY <1>3, NothingPending DEF NoPartial
    <2>3. IsFiniteSet({}) /\ Cardinality({}) <= MaxPartial
      BY NothingPending, FramingAssumption
    <2>4. x.partial \subseteq wire'
      BY <1>3
    <2>. QED
      BY <2>1, <2>2, <2>3, <2>4
  <1>6. link' \in [Conns -> Link] /\ DecodersAreBounded' /\ CountersCount'
    BY <1>3, <1>4, <1>5, LinkGoesOn
  <1>7. \A d \in Conns : link'[d] = IF d = c THEN x ELSE link[d]
    BY <1>1, <1>4
  <1>8. \A d \in Conns : Held(d)' = Held(d)
    BY DEF Held
  <1>9. c # None
    BY BleAssumption
  <1>10. LinksAreServed'
    BY <1>3, <1>4, <1>7, <1>8, <1>9, BleAssumption DEF BleInv, LinksAreServed
  <1>11. KeysAreRecent'
    BY <1>3, <1>7 DEF BleInv, KeysAreRecent
  <1>. QED
    BY <1>4, <1>6, <1>10, <1>11

(* What a step that leaves messages alone needs to show. *)
LEMMA MessagesStay ==
    ASSUME BleInv, UNCHANGED <<wire, incoming, sealed>>
    PROVE  FramesAreGenuine'
  BY DEF BleInv, FramesAreGenuine, Genuine

LEMMA RequestsStay ==
    ASSUME BleInv, UNCHANGED <<outgoing, phone, sealed>>
    PROVE  AnswersAreAsked'
  BY DEF BleInv, AnswersAreAsked, Answered

LEMMA TimeoutStep ==
    ASSUME BleInv, NEW c \in Conns, HandshakeTimeout(c) \/ PumpEnds(c)
    PROVE  BleInv'
  <1>1. /\ active = c /\ link[c].phase # "off" /\ EndLink(c)
        /\ UNCHANGED <<phone, wire, parked, taken, incoming, outgoing, known, unpaired, sealed, opened>>
    BY DEF HandshakeTimeout, PumpEnds
  <1>2. /\ active' \in Conns \cup {None} /\ link' \in [Conns -> Link]
        /\ DecodersAreBounded' /\ LinksAreServed' /\ CountersCount' /\ KeysAreRecent'
    BY <1>1, LinkEnds
  <1>3. BleTyped'
    BY <1>1, <1>2 DEF BleInv, BleTyped
  <1>. QED
    BY <1>1, <1>2, <1>3, MessagesStay, RequestsStay DEF BleInv

LEMMA NotifyStep ==
    ASSUME BleInv, NEW c \in Conns, Notify(c)
    PROVE  BleInv'
  <1>1. /\ active = c /\ link[c].phase # "off"
        /\ outgoing[c] > 0 /\ outgoing' = [outgoing EXCEPT ![c] = @ - 1]
        /\ UNCHANGED <<wire, parked, taken, incoming, known, unpaired, sealed, opened>>
    BY DEF Notify
  <1>2. /\ outgoing \in [Conns -> Nat] /\ phone \in [Conns -> Phone]
        /\ outgoing' \in [Conns -> Nat]
        /\ \A d \in Conns : outgoing'[d] = IF d = c THEN outgoing[d] - 1 ELSE outgoing[d]
    BY <1>1 DEF BleInv, BleTyped
  <1>3. \A d \in Conns : phone[d].asked \in Nat /\ outgoing[d] \in Nat /\ Answered(d) \in Nat
    BY <1>2, AnsweredIsNat DEF BleInv, BleTyped, Phone
  <1>4. \A d \in Conns : Answered(d)' = Answered(d)
    BY <1>1 DEF Answered
  <1>5. CASE phone[c].st = "in" /\ phone' = [phone EXCEPT ![c].asked = @ + 1]
             /\ UNCHANGED <<active, link>>
    <2>1. PICK y : y = [phone[c] EXCEPT !.asked = @ + 1]
      OBVIOUS
    <2>2. /\ y \in Phone /\ y.st = "in" /\ y.channel = phone[c].channel
          /\ y.asked = phone[c].asked + 1
      BY <1>2, <1>3, <1>5, <2>1 DEF Phone
    <2>3. \A d \in Conns : phone'[d] = IF d = c THEN y ELSE phone[d]
      BY <1>2, <1>5, <2>1
    <2>4. phone' \in [Conns -> Phone]
      BY <1>2, <1>5, <2>1, <2>2
    <2>5. BleTyped'
      BY <1>1, <1>2, <1>5, <2>4 DEF BleInv, BleTyped
    <2>6. AnswersAreAsked'
      <3>1. ASSUME NEW d \in Conns
            PROVE  outgoing'[d] + phone'[d].asked = outgoing[d] + phone[d].asked
        BY <1>2, <1>3, <2>2, <2>3
      <3>. QED
        BY <1>4, <3>1 DEF BleInv, AnswersAreAsked
    <2>7. DecodersAreBounded' /\ KeysAreRecent'
      BY <1>1, <1>5 DEF BleInv, DecodersAreBounded, KeysAreRecent
    <2>8. LinksAreServed'
      BY <1>1, <1>5, <2>2, <2>3 DEF BleInv, LinksAreServed, Held
    <2>9. CountersCount'
      BY <1>1, <1>5, <2>2, <2>3 DEF BleInv, CountersCount
    <2>. QED
      BY <1>1, <2>5, <2>6, <2>7, <2>8, <2>9, MessagesStay DEF BleInv
  <1>6. CASE EndLink(c) /\ phone' = phone
    <2>1. /\ active' \in Conns \cup {None} /\ link' \in [Conns -> Link]
          /\ DecodersAreBounded' /\ LinksAreServed' /\ CountersCount' /\ KeysAreRecent'
      BY <1>1, <1>6, LinkEnds
    <2>2. BleTyped'
      BY <1>1, <1>2, <1>6, <2>1 DEF BleInv, BleTyped
    <2>3. AnswersAreAsked'
      <3>1. ASSUME NEW d \in Conns
            PROVE  outgoing'[d] <= outgoing[d] /\ outgoing'[d] \in Nat
        BY <1>2, <1>3
      <3>. QED
        BY <1>3, <1>4, <1>6, <3>1, BleAssumption DEF BleInv, AnswersAreAsked
    <2>. QED
      BY <1>1, <2>1, <2>2, <2>3, MessagesStay DEF BleInv
  <1>. QED
    BY <1>5, <1>6 DEF Notify

-----------------------------------------------------------------------------
(***************************************************************************)
(* Parking.                                                                *)
(***************************************************************************)

(* Of the sessions in the pool, those that are stale are dropped.          *)
LEMMA StaleOnesGo ==
    ASSUME parked \in [Keys \cup {None} -> ParkedSession], NEW fresh, fresh = DiscardStale(parked)
    PROVE  /\ fresh \in [Keys \cup {None} -> ParkedSession]
           /\ \A k \in Keys \cup {None} : fresh[k] = parked[k] \/ fresh[k] = NoSession
           /\ \A k \in Keys \cup {None} : fresh[k] # NoSession => parked[k].conn # None /\ parked[k].age < Idle
  <1>1. NoSession \in ParkedSession
    BY BleAssumption DEF NoSession, ParkedSession
  <1>2. DOMAIN parked = Keys \cup {None}
    OBVIOUS
  <1>3. \A k \in Keys \cup {None} : fresh[k] = IF Live(parked[k]) THEN parked[k] ELSE NoSession
    BY <1>2 DEF DiscardStale
  <1>4. fresh \in [Keys \cup {None} -> ParkedSession]
    BY <1>1, <1>2 DEF DiscardStale
  <1>. QED
    BY <1>3, <1>4 DEF Live

(* A link that is in its attach window becomes a pump: what follows parks  *)
(* its session, under the key the phone named or under none.               *)
LEMMA Parking ==
    ASSUME BleInv, NEW c \in Conns, NEW k \in Keys \cup {None}, NEW x \in Link,
           active = c, link[c].phase = "attach", active' = active,
           link' = [link EXCEPT ![c] = x], x.phase = "pump",
           parked' = [DiscardStale(parked) EXCEPT ![k] = [conn |-> c, age |-> 0]],
           \A d \in Conns : d # c => opened'[d] = opened[d],
           UNCHANGED <<phone, taken, known, unpaired>>
    PROVE  parked' \in [Keys \cup {None} -> ParkedSession] /\ LinksAreServed' /\ KeysAreRecent'
  <1>1. parked \in [Keys \cup {None} -> ParkedSession] /\ link \in [Conns -> Link] /\ taken \subseteq Conns
    BY DEF BleInv, BleTyped
  <1>2. PICK fresh : fresh = DiscardStale(parked)
    OBVIOUS
  <1>3. /\ fresh \in [Keys \cup {None} -> ParkedSession]
        /\ \A j \in Keys \cup {None} : fresh[j] = parked[j] \/ fresh[j] = NoSession
    BY <1>1, <1>2, StaleOnesGo
  <1>4. PICK s : s = [conn |-> c, age |-> 0]
    OBVIOUS
  <1>5. s \in ParkedSession /\ s.conn = c /\ s.age = 0
    BY <1>4, BleAssumption DEF ParkedSession
  <1>6. /\ parked' \in [Keys \cup {None} -> ParkedSession]
        /\ \A j \in Keys \cup {None} : parked'[j] = IF j = k THEN s ELSE fresh[j]
    BY <1>2, <1>3, <1>4, <1>5
  <1>7. \A d \in Conns : link'[d] = IF d = c THEN x ELSE link[d]
    BY <1>1
  <1>8. NoSession.conn = None /\ None \notin Conns
    BY BleAssumption DEF NoSession
  <1>9. \A d \in Conns : d # c /\ Held(d)' => Held(d)
    <2>1. DOMAIN parked = Keys \cup {None} /\ DOMAIN parked' = Keys \cup {None}
      BY <1>1, <1>6
    <2>. QED
      BY <1>3, <1>5, <1>6, <1>8, <2>1 DEF Held
  <1>10. LinksAreServed'
    BY <1>7, <1>9 DEF BleInv, LinksAreServed
  <1>11. unpaired[KeyOf[c]] <= 1
    <2>1. KeyOf[c] \in Keys /\ unpaired[KeyOf[c]] \in 0 .. Idle + 2
      BY BleAssumption DEF BleInv, BleTyped
    <2>. QED
      BY <2>1 DEF BleInv, KeysAreRecent
  <1>12. KeysAreRecent'
    <2>1. \A j \in Keys \cup {None} : parked'[j].conn # None =>
             unpaired[KeyOf[parked'[j].conn]] <= parked'[j].age + 1
      BY <1>3, <1>5, <1>6, <1>8, <1>11 DEF BleInv, KeysAreRecent
    <2>. QED
      BY <1>7, <2>1 DEF BleInv, KeysAreRecent
  <1>. QED
    BY <1>6, <1>10, <1>12

LEMMA AttachTimeoutStep ==
    ASSUME BleInv, NEW c \in Conns, AttachTimeout(c)
    PROVE  BleInv'
  <1>1. /\ active = c /\ link[c].phase = "attach" /\ UNCHANGED active
        /\ parked' = [DiscardStale(parked) EXCEPT ![None] = [conn |-> c, age |-> 0]]
        /\ UNCHANGED <<phone, wire, taken, incoming, outgoing, known, unpaired, sealed, opened>>
    BY DEF AttachTimeout, Park
  <1>2. link[c] \in Link
    BY DEF BleInv, BleTyped
  <1>3. PICK x : x = [link[c] EXCEPT !.phase = "pump", !.waited = FALSE]
    OBVIOUS
  <1>4. x \in Link /\ x.phase = "pump" /\ x.partial = link[c].partial /\ x.channel = link[c].channel
    BY <1>2, <1>3 DEF Link, Phases
  <1>5. link' = [link EXCEPT ![c] = x]
    BY <1>2, <1>3 DEF AttachTimeout, Park
  <1>6. parked' \in [Keys \cup {None} -> ParkedSession] /\ LinksAreServed' /\ KeysAreRecent'
    BY <1>1, <1>4, <1>5, Parking
  <1>7. /\ x.channel.conn \in {c, None} /\ x.channel.counter = Len(opened'[c])
        /\ x.partial \subseteq wire'
        /\ IsFiniteSet(PartialIds(x.partial)) /\ Cardinality(PartialIds(x.partial)) <= MaxPartial
    BY <1>1, <1>4 DEF BleInv, CountersCount, DecodersAreBounded
  <1>8. link' \in [Conns -> Link] /\ DecodersAreBounded' /\ CountersCount'
    BY <1>1, <1>4, <1>5, <1>7, LinkGoesOn
  <1>9. BleTyped'
    BY <1>1, <1>6, <1>8 DEF BleInv, BleTyped
  <1>. QED
    BY <1>1, <1>6, <1>8, <1>9, MessagesStay, RequestsStay DEF BleInv

-----------------------------------------------------------------------------
(***************************************************************************)
(* A chunk arrives at the active link.                                     *)
(***************************************************************************)

(* What the air leaves alone. *)
AirOnly == UNCHANGED <<phone, wire, taken, outgoing, known, unpaired, sealed>>

LEMMA ArrivingEnds ==
    ASSUME BleInv, NEW c \in Conns, active = c, EndLink(c),
           UNCHANGED <<parked, incoming, opened>>, AirOnly
    PROVE  BleInv'
  <1>. USE DEF AirOnly
  <1>1. link[c].phase # "off"
    BY DEF BleInv, LinksAreServed
  <1>2. /\ active' \in Conns \cup {None} /\ link' \in [Conns -> Link]
        /\ DecodersAreBounded' /\ LinksAreServed' /\ CountersCount' /\ KeysAreRecent'
    BY <1>1, LinkEnds
  <1>3. BleTyped'
    BY <1>2 DEF BleInv, BleTyped
  <1>. QED
    BY <1>2, <1>3, MessagesStay, RequestsStay DEF BleInv

(* Only the decoder changes, or with it what waits for the caller. *)
LEMMA DecoderGoesOn ==
    ASSUME BleInv, NEW c \in Conns, NEW p \in SUBSET wire, active = c,
           IsFiniteSet(PartialIds(p)), Cardinality(PartialIds(p)) <= MaxPartial,
           link' = [link EXCEPT ![c].partial = p],
           UNCHANGED <<active, parked, opened>>, AirOnly
    PROVE  /\ link' \in [Conns -> Link]
           /\ DecodersAreBounded' /\ LinksAreServed' /\ CountersCount' /\ KeysAreRecent'
           /\ AnswersAreAsked'
  <1>. USE DEF AirOnly
  <1>1. link \in [Conns -> Link] /\ link[c] \in Link /\ p \in SUBSET Chunk
    BY DEF BleInv, BleTyped
  <1>2. PICK x : x = [link[c] EXCEPT !.partial = p]
    OBVIOUS
  <1>3. /\ x \in Link /\ x.phase = link[c].phase /\ x.partial = p
        /\ x.channel = link[c].channel /\ x.waited = link[c].waited
    BY <1>1, <1>2 DEF Link
  <1>4. link' = [link EXCEPT ![c] = x]
    BY <1>1, <1>2
  <1>5. x.channel.conn \in {c, None} /\ x.channel.counter = Len(opened'[c])
    BY <1>3 DEF BleInv, CountersCount
  <1>6. link' \in [Conns -> Link] /\ DecodersAreBounded' /\ CountersCount'
    BY <1>3, <1>4, <1>5, LinkGoesOn
  <1>7. \A d \in Conns : link'[d] = IF d = c THEN x ELSE link[d]
    BY <1>1, <1>4
  <1>8. LinksAreServed'
    BY <1>3, <1>7 DEF BleInv, LinksAreServed, Held
  <1>9. KeysAreRecent'
    BY <1>3, <1>7 DEF BleInv, KeysAreRecent
  <1>. QED
    BY <1>6, <1>8, <1>9, RequestsStay

LEMMA HelloTaken ==
    ASSUME BleInv, NEW c \in Conns, NEW p \in SUBSET wire, NEW frame, active = c,
           IsFiniteSet(PartialIds(p)), Cardinality(PartialIds(p)) <= MaxPartial,
           link[c].phase = "hello", TakesHello(c, frame),
           link' = [link EXCEPT ![c].phase = "attach", ![c].channel = NewChannel(c),
                                ![c].partial = p],
           UNCHANGED <<active, parked, incoming, opened>>, AirOnly
    PROVE  BleInv'
  <1>. USE DEF AirOnly
  <1>1. link \in [Conns -> Link] /\ link[c] \in Link /\ p \in SUBSET Chunk
    BY DEF BleInv, BleTyped
  <1>2. PICK x : x = [link[c] EXCEPT !.phase = "attach", !.channel = NewChannel(c), !.partial = p]
    OBVIOUS
  <1>3. /\ x \in Link /\ x.phase = "attach" /\ x.partial = p
        /\ x.channel = NewChannel(c) /\ x.waited = link[c].waited
    BY <1>1, <1>2 DEF Link, NewChannel, Schedule, Channel, Phases
  <1>4. link' = [link EXCEPT ![c] = x]
    BY <1>1, <1>2
  <1>5. x.channel.conn \in {c, None} /\ x.channel.counter = Len(opened'[c])
    BY <1>3 DEF BleInv, LinksAreServed, NewChannel, Schedule
  <1>6. link' \in [Conns -> Link] /\ DecodersAreBounded' /\ CountersCount'
    BY <1>3, <1>4, <1>5, LinkGoesOn
  <1>7. \A d \in Conns : link'[d] = IF d = c THEN x ELSE link[d]
    BY <1>1, <1>4
  <1>8. LinksAreServed'
    BY <1>3, <1>7 DEF BleInv, LinksAreServed, Held
  <1>9. unpaired[KeyOf[c]] = 0
    BY BleAssumption DEF TakesHello, BleInv, KeysAreRecent
  <1>10. KeysAreRecent'
    <2>1. unpaired[KeyOf[c]] <= IF x.waited THEN 1 ELSE 0
      BY <1>9
    <2>2. ASSUME NEW d \in Conns, link'[d].phase = "attach"
          PROVE  unpaired[KeyOf[d]] <= IF link'[d].waited THEN 1 ELSE 0
      <3>1. CASE d = c
        BY <1>7, <2>1, <3>1
      <3>2. CASE d # c
        <4>1. link'[d] = link[d]
          BY <1>7, <3>2
        <4>. QED
          BY <2>2, <4>1 DEF BleInv, KeysAreRecent
      <3>. QED
        BY <3>1, <3>2
    <2>. QED
      BY <2>2 DEF BleInv, KeysAreRecent
  <1>11. BleTyped'
    BY <1>6 DEF BleInv, BleTyped
  <1>. QED
    BY <1>6, <1>8, <1>10, <1>11, MessagesStay, RequestsStay DEF BleInv

(* What a channel opens is what the other end sealed next. *)
LEMMA OpensNext ==
    ASSUME BleInv, NEW c \in Conns, NEW frame, Genuine(frame), Opens(link[c].channel, frame)
    PROVE  /\ Len(opened[c]) < Len(sealed[c])
           /\ frame.msg = sealed[c][Len(opened[c]) + 1] /\ frame.msg \in Messages
           /\ link[c].channel.conn = c
  <1>1. /\ frame.kind = "record" /\ frame.counter = Len(opened[c])
        /\ frame.conn = link[c].channel.conn /\ frame.conn \in {c, None}
    BY DEF Opens, BleInv, CountersCount
  <1>2. /\ frame.conn \in Conns /\ frame.counter < Len(sealed[frame.conn])
        /\ frame.msg = sealed[frame.conn][frame.counter + 1]
    BY <1>1 DEF Genuine
  <1>3. frame.conn = c
    BY <1>1, <1>2, BleAssumption
  <1>4. sealed[c] \in Seq(Messages) /\ opened[c] \in Seq(Messages)
    BY DEF BleInv, BleTyped
  <1>5. Len(opened[c]) + 1 \in 1 .. Len(sealed[c])
    BY <1>1, <1>2, <1>3, <1>4
  <1>. QED
    BY <1>1, <1>2, <1>3, <1>4, <1>5

(* The end that opened a message has come one further. *)
LEMMA OpenedOne ==
    ASSUME BleInv, NEW c \in Conns, NEW m \in Messages,
           opened' = [opened EXCEPT ![c] = Append(@, m)]
    PROVE  /\ opened' \in [Conns -> Seq(Messages)] /\ Len(opened'[c]) = Len(opened[c]) + 1
           /\ opened'[c] # <<>>
           /\ \A d \in Conns : d # c => opened'[d] = opened[d]
  <1>1. opened \in [Conns -> Seq(Messages)]
    BY DEF BleInv, BleTyped
  <1>2. PICK new : new = Append(opened[c], m)
    OBVIOUS
  <1>3. new \in Seq(Messages) /\ Len(new) = Len(opened[c]) + 1 /\ Len(opened[c]) \in Nat
    BY <1>1, <1>2, MessageAppended
  <1>4. new # <<>>
    BY <1>3
  <1>5. \A d \in Conns : opened'[d] = IF d = c THEN new ELSE opened[d]
    BY <1>1, <1>2
  <1>6. opened' \in [Conns -> Seq(Messages)]
    BY <1>1, <1>2, <1>3
  <1>. QED
    BY <1>3, <1>4, <1>5, <1>6

LEMMA AttachTaken ==
    ASSUME BleInv, NEW c \in Conns, NEW p \in SUBSET wire, NEW frame, active = c,
           IsFiniteSet(PartialIds(p)), Cardinality(PartialIds(p)) <= MaxPartial,
           Genuine(frame), link[c].phase = "attach", TakesAttach(c, frame),
           parked' = [DiscardStale(parked) EXCEPT ![KeyOf[c]] = [conn |-> c, age |-> 0]],
           link' = [link EXCEPT ![c].phase = "pump", ![c].waited = FALSE,
                                ![c].channel = Advance(@), ![c].partial = p],
           opened' = [opened EXCEPT ![c] = Append(@, frame.msg)],
           UNCHANGED <<active, incoming>>, AirOnly
    PROVE  BleInv'
  <1>. USE DEF AirOnly
  <1>1. link \in [Conns -> Link] /\ link[c] \in Link /\ p \in SUBSET Chunk
    BY DEF BleInv, BleTyped
  <1>2. frame.msg \in Messages /\ link[c].channel.conn = c
    BY OpensNext DEF TakesAttach
  <1>3. /\ opened' \in [Conns -> Seq(Messages)] /\ Len(opened'[c]) = Len(opened[c]) + 1
        /\ \A d \in Conns : d # c => opened'[d] = opened[d]
    BY <1>2, OpenedOne
  <1>4. PICK x : x = [link[c] EXCEPT !.phase = "pump", !.waited = FALSE,
                                     !.channel = Advance(@), !.partial = p]
    OBVIOUS
  <1>5. PICK ch : ch = link[c].channel
    OBVIOUS
  <1>6. ch \in Channel /\ ch.conn = c /\ ch.counter = Len(opened[c])
    BY <1>1, <1>2, <1>5 DEF Link, BleInv, CountersCount
  <1>7. Advance(ch) \in Channel /\ Advance(ch).conn = c /\ Advance(ch).counter = Len(opened[c]) + 1
    BY <1>6 DEF Advance, Channel
  <1>8. x \in Link /\ x.phase = "pump" /\ x.partial = p /\ x.channel = Advance(ch)
    BY <1>1, <1>4, <1>5, <1>7 DEF Link, Phases
  <1>9. link' = [link EXCEPT ![c] = x]
    BY <1>1, <1>4
  <1>10. x.channel.conn \in {c, None} /\ x.channel.counter = Len(opened'[c])
    BY <1>3, <1>7, <1>8
  <1>11. KeyOf[c] \in Keys \cup {None}
    BY BleAssumption
  <1>12. parked' \in [Keys \cup {None} -> ParkedSession] /\ LinksAreServed' /\ KeysAreRecent'
    BY <1>3, <1>8, <1>9, <1>11, Parking
  <1>13. link' \in [Conns -> Link] /\ DecodersAreBounded' /\ CountersCount'
    BY <1>3, <1>8, <1>9, <1>10, LinkGoesOn
  <1>14. BleTyped'
    BY <1>3, <1>12, <1>13 DEF BleInv, BleTyped
  <1>. QED
    BY <1>12, <1>13, <1>14, MessagesStay, RequestsStay DEF BleInv

(* A frame waits for the caller. *)
LEMMA FrameQueued ==
    ASSUME BleInv, NEW c \in Conns, NEW p \in SUBSET wire, NEW frame \in Frame \cup {Garbled},
           active = c, IsFiniteSet(PartialIds(p)), Cardinality(PartialIds(p)) <= MaxPartial,
           Genuine(frame), link' = [link EXCEPT ![c].partial = p],
           incoming' = [incoming EXCEPT ![c] = Append(@, frame)],
           UNCHANGED <<active, parked, opened>>, AirOnly
    PROVE  BleInv'
  <1>. USE DEF AirOnly
  <1>1. /\ link' \in [Conns -> Link] /\ DecodersAreBounded' /\ LinksAreServed'
        /\ CountersCount' /\ KeysAreRecent' /\ AnswersAreAsked'
    BY DecoderGoesOn
  <1>2. PICK q \in Seq(Frame \cup {Garbled}) : q = incoming[c]
    BY DEF BleInv, BleTyped
  <1>3. PICK new : new = Append(q, frame)
    OBVIOUS
  <1>4. /\ new \in Seq(Frame \cup {Garbled}) /\ Len(new) = Len(q) + 1
        /\ DOMAIN q = 1 .. Len(q) /\ DOMAIN new = 1 .. Len(q) + 1 /\ Len(q) \in Nat
    BY <1>2, <1>3
  <1>5. (\A i \in 1 .. Len(q) : new[i] = q[i]) /\ new[Len(q) + 1] = frame
    BY <1>2, <1>3, AppendProperties
  <1>6. DOMAIN incoming = Conns
    BY DEF BleInv, BleTyped
  <1>7. DOMAIN incoming' = Conns /\ \A d \in Conns : incoming'[d] = IF d = c THEN new ELSE incoming[d]
    BY <1>2, <1>3, <1>6
  <1>8. BleTyped'
    BY <1>1, <1>4, <1>7 DEF BleInv, BleTyped
  <1>9. \A f : Genuine(f)' <=> Genuine(f)
    BY DEF Genuine
  <1>10. \A i \in DOMAIN new : Genuine(new[i])
    <2>1. \A i \in 1 .. Len(q) : Genuine(q[i])
      BY <1>2, <1>4 DEF BleInv, FramesAreGenuine
    <2>. QED
      BY <1>4, <1>5, <2>1
  <1>11. FramesAreGenuine'
    BY <1>7, <1>9, <1>10 DEF BleInv, FramesAreGenuine
  <1>. QED
    BY <1>1, <1>8, <1>11 DEF BleInv

LEMMA ArriveStep ==
    ASSUME BleInv, NEW chunk \in wire, Arrive(chunk)
    PROVE  BleInv'
  <1>1. PICK c \in Conns : c = active
    BY DEF Arrive, BleInv, BleTyped
  <1>2. PICK r : r = AddChunk(link[c].partial, chunk)
    OBVIOUS
  <1>3. /\ link[c].partial \subseteq wire /\ IsFiniteSet(PartialIds(link[c].partial))
        /\ Cardinality(PartialIds(link[c].partial)) <= MaxPartial
    BY DEF BleInv, DecodersAreBounded
  <1>4. /\ r.partial \in SUBSET wire
        /\ IsFiniteSet(PartialIds(r.partial)) /\ Cardinality(PartialIds(r.partial)) <= MaxPartial
        /\ r.frame \in {BadChunk, NoFrame, Garbled} \cup {d.of : d \in wire}
    BY <1>2, <1>3, DecoderStep
  <1>5. AirOnly
    BY DEF Arrive, AirOnly
  <1>6. \/ r.frame = BadChunk /\ EndLink(c) /\ UNCHANGED <<parked, incoming, opened>>
        \/ /\ r.frame = NoFrame /\ link' = [link EXCEPT ![c].partial = r.partial]
           /\ UNCHANGED <<active, parked, incoming, opened>>
        \/ r.frame \notin {BadChunk, NoFrame} /\ TakeFrame(c, r.frame, r.partial)
    BY <1>1, <1>2 DEF Arrive
  <1>7. CASE EndLink(c) /\ UNCHANGED <<parked, incoming, opened>>
    BY <1>1, <1>5, <1>7, ArrivingEnds
  <1>8. CASE /\ link' = [link EXCEPT ![c].partial = r.partial]
             /\ UNCHANGED <<active, parked, incoming, opened>>
    <2>1. /\ link' \in [Conns -> Link] /\ DecodersAreBounded' /\ LinksAreServed'
          /\ CountersCount' /\ KeysAreRecent' /\ AnswersAreAsked'
      BY <1>1, <1>4, <1>5, <1>8, DecoderGoesOn
    <2>2. BleTyped' /\ FramesAreGenuine'
      BY <1>5, <1>8, <2>1, MessagesStay DEF BleInv, BleTyped, AirOnly
    <2>. QED
      BY <2>1, <2>2 DEF BleInv
  <1>9. CASE r.frame \notin {BadChunk, NoFrame} /\ TakeFrame(c, r.frame, r.partial)
    <2>1. PICK f : f = r.frame
      OBVIOUS
    <2>2. f \in Frame \cup {Garbled} /\ Genuine(f)
      <3>1. \A d \in wire : d.of \in Frame /\ Genuine(d.of)
        BY DEF BleInv, BleTyped, Chunk, FramesAreGenuine
      <3>2. Genuine(Garbled)
        BY DEF Genuine, Garbled
      <3>. QED
        BY <1>4, <1>9, <2>1, <3>1, <3>2
    <2>3. PICK p \in SUBSET wire : p = r.partial
      BY <1>4
    <2>4. TakeFrame(c, f, p)
      BY <1>9, <2>1, <2>3
    <2>5. CASE link[c].phase = "hello" /\ TakesHello(c, f)
      BY <1>1, <1>4, <1>5, <2>3, <2>4, <2>5, HelloTaken DEF TakeFrame
    <2>6. CASE link[c].phase = "attach" /\ TakesAttach(c, f)
      BY <1>1, <1>4, <1>5, <2>2, <2>3, <2>4, <2>6, AttachTaken DEF TakeFrame
    <2>7. CASE link[c].phase = "pump" /\ Held(c)
      BY <1>1, <1>4, <1>5, <2>2, <2>3, <2>4, <2>7, FrameQueued DEF TakeFrame
    <2>8. CASE /\ ~(link[c].phase = "hello" /\ TakesHello(c, f))
               /\ ~(link[c].phase = "attach" /\ TakesAttach(c, f))
               /\ ~(link[c].phase = "pump" /\ Held(c))
      BY <1>1, <1>5, <2>4, <2>8, ArrivingEnds DEF TakeFrame
    <2>. QED
      BY <2>5, <2>6, <2>7, <2>8
  <1>. QED
    BY <1>6, <1>7, <1>8, <1>9

-----------------------------------------------------------------------------
(***************************************************************************)
(* Steps of a phone.                                                       *)
(***************************************************************************)

LEMMA SubscribeStep ==
    ASSUME BleInv, NEW c \in Conns, Subscribe(c)
    PROVE  BleInv'
  <1>1. /\ phone[c].st = "away" /\ link[c].phase = "off"
        /\ UNCHANGED <<wire, parked, taken, incoming, outgoing, known, unpaired, sealed, opened>>
    BY DEF Subscribe, BleInv, LinksAreServed
  <1>2. /\ link \in [Conns -> Link] /\ phone \in [Conns -> Phone]
        /\ link[c] \in Link /\ phone[c] \in Phone
    BY DEF BleInv, BleTyped
  <1>3. PICK st \in {"greeted", "ignored"} : phone' = [phone EXCEPT ![c].st = st]
    BY DEF Subscribe
  <1>4. PICK y : y = [phone[c] EXCEPT !.st = st]
    OBVIOUS
  <1>5. y \in Phone /\ y.st # "away" /\ y.channel = phone[c].channel /\ y.asked = phone[c].asked
    BY <1>2, <1>4 DEF Phone
  <1>6. phone' \in [Conns -> Phone] /\ \A d \in Conns : phone'[d] = IF d = c THEN y ELSE phone[d]
    BY <1>2, <1>3, <1>4, <1>5
  <1>7. AnswersAreAsked'
    BY <1>1, <1>5, <1>6 DEF BleInv, AnswersAreAsked, Answered
  <1>8. CASE UNCHANGED <<active, link>>
    <2>1. BleTyped' /\ DecodersAreBounded' /\ KeysAreRecent'
      BY <1>1, <1>6, <1>8 DEF BleInv, BleTyped, DecodersAreBounded, KeysAreRecent
    <2>2. LinksAreServed'
      BY <1>1, <1>5, <1>6, <1>8 DEF BleInv, LinksAreServed, Held
    <2>3. CountersCount'
      BY <1>1, <1>5, <1>6, <1>8 DEF BleInv, CountersCount
    <2>. QED
      BY <1>1, <1>7, <2>1, <2>2, <2>3, MessagesStay DEF BleInv
  <1>9. CASE BeginLink(c)
    <2>1. PICK x : x = [link[c] EXCEPT !.phase = "hello"]
      OBVIOUS
    <2>2. /\ x \in Link /\ x.phase = "hello" /\ x.partial = link[c].partial
          /\ x.channel = link[c].channel
      BY <1>2, <2>1 DEF Link, Phases
    <2>3. active = None /\ active' = c /\ link' = [link EXCEPT ![c] = x]
      BY <1>2, <1>9, <2>1 DEF BeginLink
    <2>4. link' \in [Conns -> Link] /\ \A d \in Conns : link'[d] = IF d = c THEN x ELSE link[d]
      BY <1>2, <2>2, <2>3
    <2>5. BleTyped'
      BY <1>1, <1>6, <2>3, <2>4 DEF BleInv, BleTyped
    <2>6. DecodersAreBounded'
      BY <1>1, <2>2, <2>4 DEF BleInv, DecodersAreBounded
    <2>7. KeysAreRecent'
      BY <1>1, <2>2, <2>4 DEF BleInv, KeysAreRecent
    <2>8. CountersCount'
      BY <1>1, <1>5, <1>6, <2>2, <2>4 DEF BleInv, CountersCount
    <2>9. LinksAreServed'
      <3>1. ~Held(c) /\ opened[c] = <<>>
        BY <1>1 DEF BleInv, LinksAreServed
      <3>2. \A d \in Conns : Held(d)' = Held(d)
        BY <1>1 DEF Held
      <3>3. \A d \in Conns : d # c => link[d].phase \notin {"hello", "attach", "pump"}
        BY <2>3, BleAssumption DEF BleInv, LinksAreServed
      <3>. QED
        BY <1>1, <1>5, <1>6, <2>2, <2>3, <2>4, <3>1, <3>2, <3>3 DEF BleInv, LinksAreServed
    <2>. QED
      BY <1>1, <1>7, <2>5, <2>6, <2>7, <2>8, <2>9, MessagesStay DEF BleInv
  <1>. QED
    BY <1>8, <1>9 DEF Subscribe

(* More is written, all of it genuine. *)
LEMMA MoreIsWritten ==
    ASSUME BleInv, NEW more, more \subseteq Chunk, wire' = wire \cup more,
           \A chunk \in more : Genuine(chunk.of)',
           \A f : Genuine(f) => Genuine(f)', UNCHANGED <<link, incoming>>
    PROVE  wire' \subseteq Chunk /\ DecodersAreBounded' /\ FramesAreGenuine'
  <1>1. wire' \subseteq Chunk
    BY DEF BleInv, BleTyped
  <1>2. DecodersAreBounded'
    BY DEF BleInv, DecodersAreBounded
  <1>3. FramesAreGenuine'
    BY DEF BleInv, FramesAreGenuine
  <1>. QED
    BY <1>1, <1>2, <1>3

LEMMA AnswerStep ==
    ASSUME BleInv, NEW c \in Conns, Answer(c)
    PROVE  BleInv'
  <1>1. /\ UNCHANGED <<active, link, parked, taken, incoming, outgoing, known, unpaired, sealed, opened>>
        /\ wire' = wire \cup Chunks(Hello(c), 0, 2)
    BY DEF Answer
  <1>2. phone \in [Conns -> Phone] /\ phone[c] \in Phone
    BY DEF BleInv, BleTyped
  <1>3. PICK y : y = [phone[c] EXCEPT !.st = "in", !.id = 1]
    OBVIOUS
  <1>4. y \in Phone /\ y.st = "in" /\ y.channel = phone[c].channel /\ y.asked = phone[c].asked
    BY <1>2, <1>3 DEF Phone
  <1>5. phone' \in [Conns -> Phone] /\ \A d \in Conns : phone'[d] = IF d = c THEN y ELSE phone[d]
    <2>1. phone' = [phone EXCEPT ![c] = y]
      BY <1>2, <1>3 DEF Answer
    <2>. QED
      BY <1>2, <1>4, <2>1
  <1>6. Hello(c) \in Frame /\ Hello(c).kind = "hello"
    BY DEF Hello, Frame
  <1>7. /\ Chunks(Hello(c), 0, 2) \subseteq Chunk
        /\ \A d \in Chunks(Hello(c), 0, 2) : d.of = Hello(c)
    BY <1>6, ChunksOfFrame
  <1>8. Genuine(Hello(c))' /\ \A f : Genuine(f) => Genuine(f)'
    BY <1>1, <1>6 DEF Genuine
  <1>9. wire' \subseteq Chunk /\ DecodersAreBounded' /\ FramesAreGenuine'
    <2>1. PICK more : more = Chunks(Hello(c), 0, 2)
      OBVIOUS
    <2>2. \A d \in more : Genuine(d.of)'
      BY <1>7, <1>8, <2>1
    <2>. QED
      BY <1>1, <1>7, <1>8, <2>1, <2>2, MoreIsWritten
  <1>10. BleTyped'
    BY <1>1, <1>5, <1>9 DEF BleInv, BleTyped
  <1>11. KeysAreRecent' /\ AnswersAreAsked'
    BY <1>1, <1>4, <1>5 DEF BleInv, KeysAreRecent, AnswersAreAsked, Answered
  <1>12. LinksAreServed'
    BY <1>1, <1>4, <1>5 DEF BleInv, LinksAreServed, Held
  <1>13. CountersCount'
    BY <1>1, <1>4, <1>5 DEF BleInv, CountersCount
  <1>. QED
    BY <1>9, <1>10, <1>11, <1>12, <1>13 DEF BleInv

(* A phone seals a message: its counter, the record and what was sealed go *)
(* on together.                                                            *)
LEMMA SealStep ==
    ASSUME BleInv, NEW c \in Conns, NEW m \in Messages, NEW total \in Nat,
           SealAndWrite(c, m, total), phone[c].st = "in", m # AttachMsg => phone[c].asked > 0
    PROVE  BleInv'
  <1>1. /\ UNCHANGED <<active, link, parked, taken, incoming, outgoing, known, unpaired, opened>>
        /\ sealed' = [sealed EXCEPT ![c] = Append(@, m)]
        /\ wire' = wire \cup Chunks(Record(phone[c].channel, m), phone[c].id, total)
    BY DEF SealAndWrite
  <1>2. /\ phone \in [Conns -> Phone] /\ phone[c] \in Phone
        /\ sealed \in [Conns -> Seq(Messages)]
    BY DEF BleInv, BleTyped
  <1>3. PICK ch : ch = phone[c].channel
    OBVIOUS
  <1>4. ch \in Channel /\ ch.conn = c /\ ch.counter = Len(sealed[c]) /\ Len(sealed[c]) \in Nat
    BY <1>2, <1>3 DEF Phone, BleInv, CountersCount
  <1>5. Advance(ch) \in Channel /\ Advance(ch).conn = c /\ Advance(ch).counter = Len(sealed[c]) + 1
    BY <1>4 DEF Advance, Channel
  <1>6. PICK y : y = [phone[c] EXCEPT !.id = @ + 1, !.channel = Advance(@),
                                      !.asked = IF m = AttachMsg THEN @ ELSE @ - 1]
    OBVIOUS
  <1>7. /\ y \in Phone /\ y.st = "in" /\ y.channel = Advance(ch)
        /\ y.asked = IF m = AttachMsg THEN phone[c].asked ELSE phone[c].asked - 1
    <2>1. PICK n : n = IF m = AttachMsg THEN phone[c].asked ELSE phone[c].asked - 1
      OBVIOUS
    <2>2. n \in Nat /\ phone[c].id + 1 \in Nat
      BY <1>2, <2>1 DEF Phone
    <2>3. y = [phone[c] EXCEPT !.id = phone[c].id + 1, !.channel = Advance(ch), !.asked = n]
      BY <1>2, <1>3, <1>6, <2>1 DEF Phone
    <2>. QED
      BY <1>2, <1>5, <2>1, <2>2, <2>3 DEF Phone
  <1>8. phone' \in [Conns -> Phone] /\ \A d \in Conns : phone'[d] = IF d = c THEN y ELSE phone[d]
    <2>1. phone' = [phone EXCEPT ![c] = y]
      BY <1>2, <1>6 DEF SealAndWrite
    <2>. QED
      BY <1>2, <1>7, <2>1
  <1>9. PICK new : new = Append(sealed[c], m)
    OBVIOUS
  <1>10. /\ new \in Seq(Messages) /\ Len(new) = Len(sealed[c]) + 1
         /\ \A i \in 1 .. Len(sealed[c]) : new[i] = sealed[c][i]
         /\ new[Len(sealed[c]) + 1] = m
    BY <1>2, <1>9, MessageAppended
  <1>11. /\ sealed' \in [Conns -> Seq(Messages)]
         /\ \A d \in Conns : sealed'[d] = IF d = c THEN new ELSE sealed[d]
    BY <1>1, <1>2, <1>9, <1>10
  <1>12. ASSUME NEW f, Genuine(f)
         PROVE  Genuine(f)'
    <2>1. CASE f.kind # "record"
      BY <2>1 DEF Genuine
    <2>2. CASE f.kind = "record"
      <3>1. /\ f.conn \in Conns /\ f.counter \in Nat /\ f.counter < Len(sealed[f.conn])
            /\ f.msg = sealed[f.conn][f.counter + 1] /\ Len(sealed[f.conn]) \in Nat
        BY <1>2, <1>12, <2>2 DEF Genuine
      <3>2. f.counter + 1 \in 1 .. Len(sealed[f.conn])
        BY <3>1
      <3>3. f.counter < Len(sealed'[f.conn]) /\ sealed'[f.conn][f.counter + 1] = sealed[f.conn][f.counter + 1]
        <4>1. CASE f.conn = c
          <5>1. sealed'[f.conn] = new
            BY <1>11, <4>1
          <5>2. f.counter < Len(new) /\ new[f.counter + 1] = sealed[f.conn][f.counter + 1]
            BY <1>10, <3>1, <3>2, <4>1
          <5>. QED
            BY <5>1, <5>2
        <4>2. CASE f.conn # c
          <5>1. sealed'[f.conn] = sealed[f.conn]
            BY <1>11, <3>1, <4>2
          <5>. QED
            BY <3>1, <5>1
        <4>. QED
          BY <4>1, <4>2
      <3>. QED
        BY <3>1, <3>3 DEF Genuine
    <2>. QED
      BY <2>1, <2>2
  <1>13. PICK rec : rec = Record(ch, m)
    OBVIOUS
  <1>14. /\ rec \in Frame /\ rec.kind = "record" /\ rec.conn = c
         /\ rec.counter = Len(sealed[c]) /\ rec.msg = m
    BY <1>4, <1>13 DEF Record, Frame
  <1>15. Genuine(rec)'
    BY <1>4, <1>10, <1>11, <1>14 DEF Genuine
  <1>16. wire' \subseteq Chunk /\ DecodersAreBounded' /\ FramesAreGenuine'
    <2>1. PICK more : more = Chunks(rec, phone[c].id, total)
      OBVIOUS
    <2>2. phone[c].id \in Nat
      BY <1>2 DEF Phone
    <2>3. more \subseteq Chunk /\ \A d \in more : d.of = rec
      BY <1>14, <2>1, <2>2, ChunksOfFrame
    <2>4. \A d \in more : Genuine(d.of)'
      BY <1>15, <2>3
    <2>5. wire' = wire \cup more
      BY <1>1, <1>3, <1>13, <2>1
    <2>. QED
      BY <1>1, <1>12, <2>3, <2>4, <2>5, MoreIsWritten
  <1>17. BleTyped'
    BY <1>1, <1>8, <1>11, <1>16 DEF BleInv, BleTyped
  <1>18. LinksAreServed'
    BY <1>1, <1>7, <1>8 DEF BleInv, LinksAreServed, Held
  <1>19. KeysAreRecent'
    BY <1>1 DEF BleInv, KeysAreRecent
  <1>20. CountersCount'
    BY <1>1, <1>5, <1>7, <1>8, <1>10, <1>11 DEF BleInv, CountersCount
  <1>21. AnswersAreAsked'
    <2>1. Answered(c) \in Nat /\ Answered(c)' = IF m = AttachMsg THEN Answered(c) ELSE Answered(c) + 1
      BY <1>2, <1>9, <1>11, AnswersCounted
    <2>2. phone[c].asked \in Nat /\ outgoing[c] \in Nat
      BY <1>2 DEF Phone, BleInv, BleTyped
    <2>3. outgoing'[c] + phone'[c].asked + Answered(c)' <= MaxRequests
      <3>1. outgoing[c] + phone[c].asked + Answered(c) <= MaxRequests /\ MaxRequests \in Nat
        BY BleAssumption DEF BleInv, AnswersAreAsked
      <3>2. /\ outgoing'[c] = outgoing[c]
            /\ phone'[c].asked = IF m = AttachMsg THEN phone[c].asked ELSE phone[c].asked - 1
        BY <1>1, <1>7, <1>8
      <3>. QED
        BY <2>1, <2>2, <3>1, <3>2
    <2>4. \A d \in Conns : d # c => Answered(d)' = Answered(d)
      BY <1>11 DEF Answered
    <2>. QED
      BY <1>1, <1>8, <2>3, <2>4 DEF BleInv, AnswersAreAsked
  <1>. QED
    BY <1>16, <1>17, <1>18, <1>19, <1>20, <1>21 DEF BleInv

(* What the phone has to say. *)
LEMMA WhatIsSealed ==
    ASSUME BleInv, NEW c \in Conns, Attach(c) \/ Respond(c)
    PROVE  \E m \in Messages, total \in Nat :
              /\ SealAndWrite(c, m, total) /\ phone[c].st = "in"
              /\ m # AttachMsg => phone[c].asked > 0
  <1>1. CASE Attach(c)
    <2>1. AttachMsg \in Messages
      BY DEF Messages
    <2>. QED
      BY <1>1, <2>1 DEF Attach
  <1>2. CASE Respond(c)
    <2>1. Answered(c) \in Nat /\ outgoing[c] \in Nat /\ phone[c].asked \in Nat
      BY AnsweredIsNat DEF BleInv, BleTyped, Phone
    <2>2. Answered(c) + 1 \in 1 .. MaxRequests
      BY <1>2, <2>1, BleAssumption DEF Respond, BleInv, AnswersAreAsked
    <2>3. Answered(c) + 1 \in Messages
      BY <2>2 DEF Messages
    <2>. QED
      BY <1>2, <2>3 DEF Respond
  <1>. QED
    BY <1>1, <1>2

LEMMA SayStep ==
    ASSUME BleInv, NEW c \in Conns, Attach(c) \/ Respond(c)
    PROVE  BleInv'
  BY WhatIsSealed, SealStep

-----------------------------------------------------------------------------
(***************************************************************************)
(* Steps of the service, the reaper and the clock.                         *)
(***************************************************************************)

LEMMA SendStep ==
    ASSUME BleInv, NEW c \in Conns, Send(c)
    PROVE  BleInv'
  <1>1. /\ outgoing[c] + phone[c].asked + Answered(c) < MaxRequests
        /\ outgoing' = [outgoing EXCEPT ![c] = @ + 1]
        /\ UNCHANGED <<active, link, phone, wire, parked, taken, incoming, known, unpaired, sealed,
                       opened>>
    BY DEF Send
  <1>2. outgoing \in [Conns -> Nat] /\ phone \in [Conns -> Phone]
    BY DEF BleInv, BleTyped
  <1>3. \A d \in Conns : outgoing[d] \in Nat /\ phone[d].asked \in Nat /\ Answered(d) \in Nat
    BY <1>2, AnsweredIsNat DEF BleInv, BleTyped, Phone
  <1>4. /\ outgoing' \in [Conns -> Nat]
        /\ \A d \in Conns : outgoing'[d] = IF d = c THEN outgoing[d] + 1 ELSE outgoing[d]
    BY <1>1, <1>2
  <1>5. BleTyped'
    BY <1>1, <1>4 DEF BleInv, BleTyped
  <1>6. AnswersAreAsked'
    <2>1. \A d \in Conns : Answered(d)' = Answered(d)
      BY <1>1 DEF Answered
    <2>2. outgoing'[c] + phone[c].asked + Answered(c) <= MaxRequests
      BY <1>1, <1>3, <1>4, BleAssumption
    <2>. QED
      BY <1>1, <1>4, <2>1, <2>2 DEF BleInv, AnswersAreAsked
  <1>7. DecodersAreBounded' /\ LinksAreServed' /\ CountersCount' /\ KeysAreRecent'
    BY <1>1 DEF BleInv, DecodersAreBounded, LinksAreServed, CountersCount, KeysAreRecent, Held
  <1>. QED
    BY <1>1, <1>5, <1>6, <1>7, MessagesStay DEF BleInv

(* What waits for a session's caller only becomes less. *)
LEMMA QueueShrinks ==
    ASSUME BleInv, NEW c \in Conns, NEW new, incoming' = [incoming EXCEPT ![c] = new],
           new = <<>> \/ (incoming[c] # <<>> /\ new = Tail(incoming[c])),
           UNCHANGED <<wire, sealed>>
    PROVE  /\ DOMAIN incoming' = Conns /\ \A d \in Conns : incoming'[d] \in Seq(Frame \cup {Garbled})
           /\ FramesAreGenuine'
  <1>1. DOMAIN incoming = Conns /\ \A d \in Conns : incoming[d] \in Seq(Frame \cup {Garbled})
    BY DEF BleInv, BleTyped
  <1>2. DOMAIN incoming' = Conns /\ \A d \in Conns : incoming'[d] = IF d = c THEN new ELSE incoming[d]
    BY <1>1
  <1>3. PICK q \in Seq(Frame \cup {Garbled}) : q = incoming[c]
    BY <1>1
  <1>4. /\ new \in Seq(Frame \cup {Garbled})
        /\ \A i \in DOMAIN new : i + 1 \in DOMAIN q /\ new[i] = q[i + 1]
    <2>1. CASE new = <<>>
      BY <2>1
    <2>2. CASE q # <<>> /\ new = Tail(q)
      BY <1>3, <2>2, HeadTailProperties
    <2>. QED
      BY <1>3, <2>1, <2>2
  <1>5. \A f : Genuine(f)' <=> Genuine(f)
    BY DEF Genuine
  <1>6. FramesAreGenuine'
    BY <1>2, <1>3, <1>4, <1>5 DEF BleInv, FramesAreGenuine
  <1>. QED
    BY <1>1, <1>2, <1>4, <1>6

(* What a session hands over is what its phone sealed next. *)
LEMMA ReceiveStep ==
    ASSUME BleInv, NEW c \in Conns, Receive(c)
    PROVE  BleInv'
  <1>1. /\ c \in taken /\ incoming[c] # <<>>
        /\ incoming' = [incoming EXCEPT ![c] = Tail(incoming[c])]
        /\ UNCHANGED <<active, phone, wire, parked, taken, outgoing, known, unpaired, sealed>>
    BY DEF Receive, BleInv, BleTyped
  <1>2. /\ DOMAIN incoming' = Conns /\ \A d \in Conns : incoming'[d] \in Seq(Frame \cup {Garbled})
        /\ FramesAreGenuine'
    BY <1>1, QueueShrinks
  <1>3. AnswersAreAsked'
    BY <1>1, RequestsStay
  <1>4. link \in [Conns -> Link] /\ link[c] \in Link
    BY DEF BleInv, BleTyped
  <1>5. CASE UNCHANGED <<opened, link>>
    <2>1. BleTyped'
      BY <1>1, <1>2, <1>5 DEF BleInv, BleTyped
    <2>2. DecodersAreBounded' /\ LinksAreServed' /\ CountersCount' /\ KeysAreRecent'
      BY <1>1, <1>5 DEF BleInv, DecodersAreBounded, LinksAreServed, CountersCount, KeysAreRecent, Held
    <2>. QED
      BY <1>2, <1>3, <2>1, <2>2 DEF BleInv
  <1>6. CASE /\ Opens(link[c].channel, Head(incoming[c]))
             /\ opened' = [opened EXCEPT ![c] = Append(@, Head(incoming[c]).msg)]
             /\ link' = [link EXCEPT ![c].channel = Advance(@)]
    <2>1. PICK f : f = Head(incoming[c])
      OBVIOUS
    <2>2. Genuine(f)
      <3>1. incoming[c] \in Seq(Frame \cup {Garbled})
        BY DEF BleInv, BleTyped
      <3>2. f = incoming[c][1] /\ 1 \in DOMAIN incoming[c]
        BY <1>1, <2>1, <3>1
      <3>. QED
        BY <3>2 DEF BleInv, FramesAreGenuine
    <2>3. f.msg \in Messages /\ link[c].channel.conn = c
      BY <1>6, <2>1, <2>2, OpensNext
    <2>4. /\ opened' \in [Conns -> Seq(Messages)] /\ Len(opened'[c]) = Len(opened[c]) + 1
          /\ \A d \in Conns : d # c => opened'[d] = opened[d]
      BY <1>6, <2>1, <2>3, OpenedOne
    <2>5. PICK ch : ch = link[c].channel
      OBVIOUS
    <2>6. ch \in Channel /\ ch.conn = c /\ ch.counter = Len(opened[c])
      BY <1>4, <2>3, <2>5 DEF Link, BleInv, CountersCount
    <2>7. Advance(ch) \in Channel /\ Advance(ch).conn = c /\ Advance(ch).counter = Len(opened[c]) + 1
      BY <2>6 DEF Advance, Channel
    <2>8. PICK x : x = [link[c] EXCEPT !.channel = Advance(ch)]
      OBVIOUS
    <2>9. /\ x \in Link /\ x.phase = link[c].phase /\ x.partial = link[c].partial
          /\ x.waited = link[c].waited /\ x.channel = Advance(ch)
      BY <1>4, <2>7, <2>8 DEF Link
    <2>10. link' = [link EXCEPT ![c] = x]
      BY <1>4, <1>6, <2>5, <2>8
    <2>11. /\ x.partial \subseteq wire' /\ IsFiniteSet(PartialIds(x.partial))
           /\ Cardinality(PartialIds(x.partial)) <= MaxPartial
           /\ x.channel.conn \in {c, None} /\ x.channel.counter = Len(opened'[c])
      BY <1>1, <2>4, <2>7, <2>9 DEF BleInv, DecodersAreBounded
    <2>12. link' \in [Conns -> Link] /\ DecodersAreBounded' /\ CountersCount'
      BY <1>1, <2>4, <2>9, <2>10, <2>11, LinkGoesOn
    <2>13. \A d \in Conns : link'[d] = IF d = c THEN x ELSE link[d]
      BY <1>4, <2>10
    <2>14. link[c].phase \in {"pump", "done"}
      BY <1>1 DEF BleInv, LinksAreServed, Held
    <2>15. LinksAreServed'
      BY <1>1, <2>4, <2>9, <2>13, <2>14 DEF BleInv, LinksAreServed, Held
    <2>16. KeysAreRecent'
      BY <1>1, <2>9, <2>13 DEF BleInv, KeysAreRecent
    <2>17. BleTyped'
      BY <1>1, <1>2, <2>4, <2>12 DEF BleInv, BleTyped
    <2>. QED
      BY <1>2, <1>3, <2>12, <2>15, <2>16, <2>17 DEF BleInv
  <1>. QED
    BY <1>5, <1>6 DEF Receive

LEMMA CloseStep ==
    ASSUME BleInv, NEW c \in Conns, Close(c)
    PROVE  BleInv'
  <1>1. /\ taken' = taken \ {c} /\ incoming' = [incoming EXCEPT ![c] = <<>>]
        /\ UNCHANGED <<active, link, phone, wire, parked, outgoing, known, unpaired, sealed, opened>>
    BY DEF Close
  <1>2. /\ DOMAIN incoming' = Conns /\ \A d \in Conns : incoming'[d] \in Seq(Frame \cup {Garbled})
        /\ FramesAreGenuine'
    BY <1>1, QueueShrinks
  <1>3. BleTyped'
    BY <1>1, <1>2 DEF BleInv, BleTyped
  <1>4. LinksAreServed'
    BY <1>1 DEF BleInv, LinksAreServed, Held
  <1>5. DecodersAreBounded' /\ CountersCount' /\ KeysAreRecent'
    BY <1>1 DEF BleInv, DecodersAreBounded, CountersCount, KeysAreRecent
  <1>. QED
    BY <1>1, <1>2, <1>3, <1>4, <1>5, RequestsStay DEF BleInv

(* Sessions leave the pool, one of them perhaps for a caller. *)
LEMMA PoolStep ==
    ASSUME BleInv, parked' \in [Keys \cup {None} -> ParkedSession], taken' \subseteq Conns,
           \A k \in Keys \cup {None} : parked'[k] = parked[k] \/ parked'[k] = NoSession,
           \A c \in taken' : c \in taken \/ \E k \in Keys \cup {None} : parked[k].conn = c,
           UNCHANGED <<active, link, phone, wire, incoming, outgoing, known, unpaired, sealed, opened>>
    PROVE  BleInv'
  <1>1. BleTyped'
    BY DEF BleInv, BleTyped
  <1>2. NoSession.conn = None /\ None \notin Conns
    BY BleAssumption DEF NoSession
  <1>3. DOMAIN parked = Keys \cup {None} /\ DOMAIN parked' = Keys \cup {None}
    BY DEF BleInv, BleTyped
  <1>4. \A c \in Conns : Held(c)' => Held(c)
    BY <1>2, <1>3 DEF Held
  <1>5. LinksAreServed'
    BY <1>4 DEF BleInv, LinksAreServed
  <1>6. KeysAreRecent'
    BY <1>2 DEF BleInv, KeysAreRecent
  <1>7. DecodersAreBounded' /\ CountersCount'
    BY DEF BleInv, DecodersAreBounded, CountersCount
  <1>. QED
    BY <1>1, <1>5, <1>6, <1>7, MessagesStay, RequestsStay DEF BleInv

(* Whoever is handed out was parked, and not for long. *)
LEMMA Taking ==
    ASSUME BleInv, Take
    PROVE  \E k \in Keys \cup {None} :
              /\ parked[k].conn \in Conns /\ parked[k].age < Idle
              /\ taken' = taken \cup {parked[k].conn}
              /\ parked' \in [Keys \cup {None} -> ParkedSession]
              /\ \A j \in Keys \cup {None} : parked'[j] = parked[j] \/ parked'[j] = NoSession
  <1>1. PICK fresh : fresh = DiscardStale(parked)
    OBVIOUS
  <1>2. PICK k : k = PickSession(fresh)
    OBVIOUS
  <1>3. /\ known # None /\ fresh[k] # NoSession
        /\ parked' = [fresh EXCEPT ![k] = NoSession] /\ taken' = taken \cup {fresh[k].conn}
    BY <1>1, <1>2 DEF Take
  <1>4. known \in Keys /\ parked \in [Keys \cup {None} -> ParkedSession]
    BY <1>3 DEF BleInv, BleTyped
  <1>5. k \in Keys \cup {None}
    BY <1>2, <1>4 DEF PickSession
  <1>6. /\ fresh \in [Keys \cup {None} -> ParkedSession]
        /\ \A j \in Keys \cup {None} : fresh[j] = parked[j] \/ fresh[j] = NoSession
        /\ \A j \in Keys \cup {None} : fresh[j] # NoSession => parked[j].conn # None /\ parked[j].age < Idle
    BY <1>1, <1>4, StaleOnesGo
  <1>7. fresh[k] = parked[k] /\ parked[k].conn \in Conns /\ parked[k].age < Idle
    BY <1>3, <1>4, <1>5, <1>6 DEF ParkedSession
  <1>8. NoSession \in ParkedSession
    BY BleAssumption DEF NoSession, ParkedSession
  <1>9. /\ parked' \in [Keys \cup {None} -> ParkedSession]
        /\ \A j \in Keys \cup {None} : parked'[j] = parked[j] \/ parked'[j] = NoSession
    BY <1>3, <1>5, <1>6, <1>8
  <1>. QED
    BY <1>3, <1>5, <1>7, <1>9

LEMMA TakeStep ==
    ASSUME BleInv, Take
    PROVE  BleInv'
  <1>1. UNCHANGED <<active, link, phone, wire, incoming, outgoing, known, unpaired, sealed, opened>>
    BY DEF Take
  <1>2. PICK k \in Keys \cup {None} :
           /\ parked[k].conn \in Conns
           /\ taken' = taken \cup {parked[k].conn}
           /\ parked' \in [Keys \cup {None} -> ParkedSession]
           /\ \A j \in Keys \cup {None} : parked'[j] = parked[j] \/ parked'[j] = NoSession
    BY Taking
  <1>3. taken' \subseteq Conns
    BY <1>2 DEF BleInv, BleTyped
  <1>. QED
    BY <1>1, <1>2, <1>3, PoolStep

LEMMA SweepStep ==
    ASSUME BleInv, Sweep
    PROVE  BleInv'
  <1>1. /\ parked' = DiscardStale(parked) /\ UNCHANGED taken
        /\ UNCHANGED <<active, link, phone, wire, incoming, outgoing, known, unpaired, sealed, opened>>
    BY DEF Sweep
  <1>2. parked \in [Keys \cup {None} -> ParkedSession] /\ taken \subseteq Conns
    BY DEF BleInv, BleTyped
  <1>3. /\ parked' \in [Keys \cup {None} -> ParkedSession]
        /\ \A j \in Keys \cup {None} : parked'[j] = parked[j] \/ parked'[j] = NoSession
    BY <1>1, <1>2, StaleOnesGo
  <1>. QED
    BY <1>1, <1>2, <1>3, PoolStep

(* Sessions and the keys they proved grow old together. *)
LEMMA TickStep ==
    ASSUME BleInv, Tick
    PROVE  BleInv'
  <1>1. /\ UNCHANGED <<active, phone, wire, taken, incoming, outgoing, known, sealed, opened>>
        /\ \A c \in Conns : ~link[c].waited
    BY DEF Tick
  <1>2. /\ link \in [Conns -> Link] /\ parked \in [Keys \cup {None} -> ParkedSession]
        /\ unpaired \in [Keys -> 0 .. Idle + 2] /\ Idle \in Nat
    BY BleAssumption DEF BleInv, BleTyped
  <1>3. /\ link' \in [Conns -> Link]
        /\ \A c \in Conns : /\ link'[c].phase = link[c].phase /\ link'[c].partial = link[c].partial
                            /\ link'[c].channel = link[c].channel
                            /\ link'[c].waited = (link[c].phase = "attach")
    <2>1. \A c \in Conns : link'[c] = [link[c] EXCEPT !.waited = link[c].phase = "attach"]
      BY DEF Tick
    <2>2. ASSUME NEW c \in Conns
          PROVE  /\ link'[c] \in Link
                 /\ link'[c].phase = link[c].phase /\ link'[c].partial = link[c].partial
                 /\ link'[c].channel = link[c].channel
                 /\ link'[c].waited = (link[c].phase = "attach")
      BY <1>2, <2>1 DEF Link
    <2>3. link' = [c \in Conns |-> link'[c]]
      BY DEF Tick
    <2>. QED
      BY <2>2, <2>3
  <1>4. /\ parked' \in [Keys \cup {None} -> ParkedSession]
        /\ \A k \in Keys \cup {None} :
             /\ parked'[k].conn = parked[k].conn
             /\ parked[k].conn # None =>
                  parked'[k].age = IF parked[k].age = Idle + 1 THEN Idle + 1 ELSE parked[k].age + 1
    <2>1. parked' = [k \in Keys \cup {None} |->
                     IF parked[k] = NoSession \/ parked[k].age = Idle + 1 THEN parked[k]
                     ELSE [parked[k] EXCEPT !.age = @ + 1]]
      BY <1>2 DEF Tick
    <2>2. ASSUME NEW k \in Keys \cup {None}
          PROVE  /\ parked'[k] \in ParkedSession /\ parked'[k].conn = parked[k].conn
                 /\ parked[k].conn # None =>
                      parked'[k].age = IF parked[k].age = Idle + 1 THEN Idle + 1 ELSE parked[k].age + 1
      <3>1. parked[k] \in ParkedSession
        BY <1>2
      <3>2. CASE parked[k] = NoSession \/ parked[k].age = Idle + 1
        BY <2>1, <3>1, <3>2 DEF NoSession
      <3>3. CASE ~(parked[k] = NoSession \/ parked[k].age = Idle + 1)
        <4>1. parked'[k] = [parked[k] EXCEPT !.age = parked[k].age + 1]
          BY <2>1, <3>1, <3>3
        <4>2. parked[k].age + 1 \in 0 .. Idle + 1
          BY <1>2, <3>1, <3>3 DEF ParkedSession
        <4>. QED
          BY <3>1, <3>3, <4>1, <4>2 DEF ParkedSession
      <3>. QED
        BY <3>2, <3>3
    <2>. QED
      BY <2>1, <2>2
  <1>5. /\ unpaired' \in [Keys -> 0 .. Idle + 2]
        /\ \A k \in Keys : /\ k = known => unpaired'[k] = unpaired[k]
                           /\ unpaired'[k] <= unpaired[k] + 1
    <2>1. unpaired' = [k \in Keys |-> IF k = known \/ unpaired[k] = Idle + 2 THEN unpaired[k]
                                      ELSE unpaired[k] + 1]
      BY DEF Tick
    <2>2. ASSUME NEW k \in Keys
          PROVE  /\ unpaired'[k] \in 0 .. Idle + 2 /\ unpaired'[k] <= unpaired[k] + 1
                 /\ k = known => unpaired'[k] = unpaired[k]
      <3>1. unpaired[k] \in 0 .. Idle + 2
        BY <1>2
      <3>. QED
        BY <1>2, <2>1, <3>1
    <2>. QED
      BY <2>1, <2>2
  <1>6. BleTyped'
    BY <1>1, <1>3, <1>4, <1>5 DEF BleInv, BleTyped
  <1>7. DecodersAreBounded' /\ CountersCount'
    BY <1>1, <1>3 DEF BleInv, DecodersAreBounded, CountersCount
  <1>8. \A c \in Conns : Held(c)' <=> Held(c)
    BY <1>1, <1>2, <1>4 DEF Held
  <1>9. LinksAreServed'
    BY <1>1, <1>3, <1>8 DEF BleInv, LinksAreServed
  <1>10. known # None => unpaired'[known] = 0
    BY <1>1, <1>5 DEF BleInv, BleTyped, KeysAreRecent
  <1>11. ASSUME NEW c \in Conns, link'[c].phase = "attach"
         PROVE  unpaired'[KeyOf[c]] <= IF link'[c].waited THEN 1 ELSE 0
    <2>1. KeyOf[c] \in Keys /\ unpaired[KeyOf[c]] \in Nat /\ unpaired'[KeyOf[c]] \in Nat
      BY <1>2, <1>5, BleAssumption
    <2>2. unpaired[KeyOf[c]] <= 0 /\ link'[c].waited
      BY <1>1, <1>3, <1>11 DEF BleInv, KeysAreRecent
    <2>. QED
      BY <1>5, <2>1, <2>2
  <1>12. ASSUME NEW k \in Keys \cup {None}, parked'[k].conn # None
         PROVE  unpaired'[KeyOf[parked'[k].conn]] <= parked'[k].age + 1
    <2>1. PICK key \in Keys : key = KeyOf[parked[k].conn]
      BY <1>2, <1>4, <1>12, BleAssumption DEF ParkedSession
    <2>2. unpaired[key] <= parked[k].age + 1
      BY <1>4, <1>12, <2>1 DEF BleInv, KeysAreRecent
    <2>3. unpaired[key] \in Nat /\ unpaired'[key] \in 0 .. Idle + 2 /\ parked[k].age \in 0 .. Idle + 1
      BY <1>2, <1>5 DEF ParkedSession
    <2>4. parked'[k].age = IF parked[k].age = Idle + 1 THEN Idle + 1 ELSE parked[k].age + 1
      BY <1>4, <1>12
    <2>5. unpaired'[key] <= parked'[k].age + 1
      BY <1>2, <1>5, <2>2, <2>3, <2>4
    <2>. QED
      BY <1>4, <2>1, <2>5
  <1>13. KeysAreRecent'
    BY <1>1, <1>10, <1>11, <1>12 DEF KeysAreRecent
  <1>. QED
    BY <1>1, <1>6, <1>7, <1>9, <1>13, MessagesStay, RequestsStay DEF BleInv

LEMMA SetKnownPeersStep ==
    ASSUME BleInv, NEW k \in Keys \cup {None}, SetKnownPeers(k)
    PROVE  BleInv'
  <1>1. /\ known' = k
        /\ unpaired' = IF k = None THEN unpaired ELSE [unpaired EXCEPT ![k] = 0]
        /\ UNCHANGED <<active, link, phone, wire, parked, taken, incoming, outgoing, sealed, opened>>
    BY DEF SetKnownPeers
  <1>2. unpaired \in [Keys -> 0 .. Idle + 2] /\ Idle \in Nat /\ parked \in [Keys \cup {None} -> ParkedSession]
    BY BleAssumption DEF BleInv, BleTyped
  <1>3. /\ unpaired' \in [Keys -> 0 .. Idle + 2]
        /\ \A key \in Keys : unpaired'[key] <= unpaired[key]
        /\ k # None => unpaired'[k] = 0
    BY <1>1, <1>2
  <1>4. BleTyped'
    BY <1>1, <1>3 DEF BleInv, BleTyped
  <1>5. DecodersAreBounded' /\ LinksAreServed' /\ CountersCount'
    BY <1>1 DEF BleInv, DecodersAreBounded, LinksAreServed, CountersCount, Held
  <1>6. ASSUME NEW c \in Conns
        PROVE  /\ KeyOf[c] \in Keys /\ unpaired'[KeyOf[c]] <= unpaired[KeyOf[c]]
               /\ unpaired'[KeyOf[c]] \in Nat /\ unpaired[KeyOf[c]] \in Nat
    BY <1>2, <1>3, BleAssumption
  <1>7. ASSUME NEW c \in Conns, link[c].phase = "attach"
        PROVE  unpaired'[KeyOf[c]] <= IF link[c].waited THEN 1 ELSE 0
    BY <1>6, <1>7 DEF BleInv, KeysAreRecent
  <1>8. ASSUME NEW j \in Keys \cup {None}, parked[j].conn # None
        PROVE  unpaired'[KeyOf[parked[j].conn]] <= parked[j].age + 1
    <2>1. PICK c \in Conns : c = parked[j].conn
      BY <1>2, <1>8 DEF ParkedSession
    <2>2. unpaired[KeyOf[c]] <= parked[j].age + 1 /\ parked[j].age \in Nat
      BY <1>2, <1>8, <2>1 DEF BleInv, KeysAreRecent, ParkedSession
    <2>. QED
      BY <1>6, <2>1, <2>2
  <1>9. KeysAreRecent'
    BY <1>1, <1>3, <1>7, <1>8 DEF KeysAreRecent
  <1>. QED
    BY <1>1, <1>4, <1>5, <1>9, MessagesStay, RequestsStay DEF BleInv

-----------------------------------------------------------------------------
(***************************************************************************)
(* The theorems.                                                           *)
(***************************************************************************)

LEMMA BleStart ==
    ASSUME Init
    PROVE  BleInv
  <1>. USE DEF Init
  <1>1. NewLink \in Link
    BY BleAssumption DEF NewLink, Link, Phases, NoPartial, NewChannel, Schedule, Channel
  <1>2. NoSession \in ParkedSession /\ NoSession.conn = None
    BY BleAssumption DEF NoSession, ParkedSession
  <1>3. phone \in [Conns -> Phone]
    BY BleAssumption DEF Phone, NewChannel, Schedule, Channel
  <1>4. <<>> \in Seq(Messages) /\ <<>> \in Seq(Frame \cup {Garbled}) /\ Len(<<>>) = 0
    OBVIOUS
  <1>5. unpaired \in [Keys -> 0 .. Idle + 2]
    BY BleAssumption
  <1>6. BleTyped
    BY <1>1, <1>2, <1>3, <1>4, <1>5, BleAssumption DEF BleTyped
  <1>7. DecodersAreBounded
    <2>1. PartialIds(NoPartial) = {} /\ IsFiniteSet({}) /\ Cardinality({}) <= MaxPartial
      BY NothingPending, FramingAssumption
    <2>2. \A c \in Conns : link[c].partial = NoPartial
      BY DEF NewLink
    <2>. QED
      BY <2>1, <2>2 DEF DecodersAreBounded, NoPartial
  <1>8. \A c \in Conns : ~Held(c)
    BY <1>2, BleAssumption DEF Held
  <1>9. LinksAreServed
    BY <1>8, BleAssumption DEF LinksAreServed, NewLink
  <1>10. CountersCount
    BY <1>4 DEF CountersCount, NewLink, NewChannel, Schedule
  <1>11. FramesAreGenuine
    BY DEF FramesAreGenuine
  <1>12. AnswersAreAsked
    <2>1. \A c \in Conns : {i \in DOMAIN sealed[c] : sealed[c][i] # AttachMsg} = {}
      BY <1>4
    <2>2. \A c \in Conns : Answered(c) = 0
      BY <2>1, NothingPending DEF Answered
    <2>3. \A c \in Conns : outgoing[c] = 0 /\ phone[c].asked = 0
      OBVIOUS
    <2>. QED
      BY <2>2, <2>3, BleAssumption DEF AnswersAreAsked
  <1>13. KeysAreRecent
    BY <1>2, BleAssumption DEF KeysAreRecent, NewLink
  <1>. QED
    BY <1>6, <1>7, <1>9, <1>10, <1>11, <1>12, <1>13 DEF BleInv

LEMMA BleSteps ==
    ASSUME BleInv, [Next]_bleVars
    PROVE  BleInv'
  <1>1. ASSUME NEW c \in Conns, LinkStep(c)
        PROVE  BleInv'
    BY <1>1, SubscribeStep, AnswerStep, SayStep, TimeoutStep, AttachTimeoutStep, NotifyStep,
       SendStep, ReceiveStep, CloseStep DEF LinkStep
  <1>2. ASSUME NEW chunk \in wire, Arrive(chunk)
        PROVE  BleInv'
    BY <1>2, ArriveStep
  <1>3. CASE Take
    BY <1>3, TakeStep
  <1>4. CASE Sweep
    BY <1>4, SweepStep
  <1>5. CASE Tick
    BY <1>5, TickStep
  <1>6. ASSUME NEW k \in Keys \cup {None}, SetKnownPeers(k)
        PROVE  BleInv'
    BY <1>6, SetKnownPeersStep
  <1>7. CASE UNCHANGED bleVars
    <2>. USE <1>7 DEF bleVars
    <2>1. BleTyped' /\ DecodersAreBounded' /\ LinksAreServed' /\ CountersCount' /\ KeysAreRecent'
      BY DEF BleInv, BleTyped, DecodersAreBounded, LinksAreServed, CountersCount, KeysAreRecent, Held
    <2>. QED
      BY <2>1, MessagesStay, RequestsStay DEF BleInv
  <1>. QED
    BY <1>1, <1>2, <1>3, <1>4, <1>5, <1>6, <1>7 DEF Next

LEMMA BleInvariant == Spec => []BleInv
  <1>1. Init => BleInv
    BY BleStart
  <1>2. BleInv /\ [Next]_bleVars => BleInv'
    BY BleSteps
  <1>. QED
    BY <1>1, <1>2, PTL DEF Spec

LEMMA BleTypes ==
    ASSUME BleInv
    PROVE  TypeOK
  <1>1. \A k \in DOMAIN parked : parked[k].conn \in Conns \cup {None} /\ parked[k].age \in 0 .. Idle + 1
    BY DEF BleInv, BleTyped, ParkedSession
  <1>2. \A c \in Conns : link[c].phase \in Phases
    BY DEF BleInv, BleTyped, Link
  <1>3. \A c \in Conns : sealed[c] \in Seq(Messages) /\ opened[c] \in Seq(Messages)
    BY DEF BleInv, BleTyped
  <1>4. \A c \in Conns : /\ link[c].phase \in {"hello", "attach", "pump"} <=> active = c
                         /\ Held(c) => link[c].phase \in {"pump", "done"}
    BY DEF BleInv, LinksAreServed
  <1>5. \A c \in Conns : Cardinality(PartialIds(link[c].partial)) <= MaxPartial
    BY DEF BleInv, DecodersAreBounded
  <1>6. active \in Conns \cup {None} /\ taken \subseteq Conns /\ known \in Keys \cup {None}
    BY DEF BleInv, BleTyped
  <1>. QED
    BY <1>1, <1>2, <1>3, <1>4, <1>5, <1>6 DEF TypeOK

(* Every step seals one message, opens the next one, or does neither.      *)
LEMMA StepIsOrdered ==
    ASSUME BleInv, [Next]_bleVars
    PROVE  [Ordered!Next]_Ordered!chanVars
  <1>. USE DEF Ordered!chanVars
  <1>1. ASSUME NEW c \in Conns, Attach(c) \/ Respond(c)
        PROVE  Ordered!Next
    <2>1. PICK m \in Messages, total \in Nat : SealAndWrite(c, m, total)
      BY <1>1, WhatIsSealed
    <2>2. UNCHANGED opened
      BY <2>1 DEF SealAndWrite
    <2>3. Ordered!Seal(c, m)
      BY <2>1, <2>2 DEF SealAndWrite, Ordered!Seal
    <2>. QED
      BY <2>3 DEF Ordered!Next
  <1>2. ASSUME NEW c \in Conns, NEW frame, Genuine(frame), Opens(link[c].channel, frame),
               opened' = [opened EXCEPT ![c] = Append(@, frame.msg)], UNCHANGED sealed
        PROVE  Ordered!Next
    <2>1. Len(opened[c]) < Len(sealed[c]) /\ frame.msg = sealed[c][Len(opened[c]) + 1]
      BY <1>2, OpensNext
    <2>2. opened' = [opened EXCEPT ![c] = Append(@, sealed[c][Len(@) + 1])]
      BY <1>2, <2>1
    <2>3. Ordered!Open(c)
      BY <1>2, <2>1, <2>2 DEF Ordered!Open
    <2>. QED
      BY <2>3 DEF Ordered!Next
  <1>3. ASSUME NEW c \in Conns, Receive(c)
        PROVE  Ordered!Next \/ UNCHANGED <<sealed, opened>>
    <2>1. incoming[c] \in Seq(Frame \cup {Garbled}) /\ incoming[c] # <<>>
      BY <1>3 DEF BleInv, BleTyped, Receive
    <2>2. PICK f : f = Head(incoming[c])
      OBVIOUS
    <2>3. Genuine(f)
      <3>1. f = incoming[c][1] /\ 1 \in DOMAIN incoming[c]
        BY <2>1, <2>2
      <3>. QED
        BY <3>1 DEF BleInv, FramesAreGenuine
    <2>4. UNCHANGED sealed
      BY <1>3 DEF Receive
    <2>5. CASE Opens(link[c].channel, f) /\ opened' = [opened EXCEPT ![c] = Append(@, f.msg)]
      BY <1>2, <2>3, <2>4, <2>5
    <2>6. CASE UNCHANGED opened
      BY <2>4, <2>6
    <2>. QED
      BY <1>3, <2>2, <2>5, <2>6 DEF Receive
  <1>4. ASSUME NEW chunk \in wire, Arrive(chunk)
        PROVE  Ordered!Next \/ UNCHANGED <<sealed, opened>>
    <2>1. UNCHANGED sealed
      BY <1>4 DEF Arrive
    <2>2. PICK c \in Conns : c = active
      BY <1>4 DEF Arrive, BleInv, BleTyped
    <2>3. PICK r : r = AddChunk(link[c].partial, chunk)
      OBVIOUS
    <2>4. \/ UNCHANGED opened
          \/ r.frame \notin {BadChunk, NoFrame} /\ TakeFrame(c, r.frame, r.partial)
      BY <1>4, <2>2, <2>3 DEF Arrive
    <2>5. CASE r.frame \notin {BadChunk, NoFrame} /\ TakeFrame(c, r.frame, r.partial)
      <3>1. r.frame \in {BadChunk, NoFrame, Garbled} \cup {d.of : d \in wire}
        BY <2>3, DecoderStep DEF BleInv, DecodersAreBounded
      <3>2. PICK f : f = r.frame
        OBVIOUS
      <3>3. \A d \in wire : Genuine(d.of)
        BY DEF BleInv, FramesAreGenuine
      <3>4. Genuine(f)
        <4>1. Genuine(Garbled)
          BY DEF Genuine, Garbled
        <4>. QED
          BY <2>5, <3>1, <3>2, <3>3, <4>1
      <3>5. \/ UNCHANGED opened
            \/ TakesAttach(c, f) /\ opened' = [opened EXCEPT ![c] = Append(@, f.msg)]
        BY <2>5, <3>2 DEF TakeFrame
      <3>6. CASE TakesAttach(c, f) /\ opened' = [opened EXCEPT ![c] = Append(@, f.msg)]
        BY <1>2, <2>1, <3>4, <3>6 DEF TakesAttach
      <3>. QED
        BY <2>1, <3>5, <3>6
    <2>. QED
      BY <2>1, <2>4, <2>5
  <1>5. ASSUME NEW c \in Conns, LinkStep(c)
        PROVE  Ordered!Next \/ UNCHANGED <<sealed, opened>>
    <2>1. CASE Attach(c) \/ Respond(c)
      BY <1>1, <2>1
    <2>2. CASE Receive(c)
      BY <1>3, <2>2
    <2>3. CASE Subscribe(c) \/ Answer(c) \/ HandshakeTimeout(c) \/ AttachTimeout(c)
               \/ PumpEnds(c) \/ Notify(c) \/ Send(c) \/ Close(c)
      BY <2>3 DEF Subscribe, Answer, HandshakeTimeout, AttachTimeout, PumpEnds, Notify, Send, Close
    <2>. QED
      BY <1>5, <2>1, <2>2, <2>3 DEF LinkStep
  <1>6. CASE Take \/ Sweep \/ Tick \/ \E k \in Keys \cup {None} : SetKnownPeers(k)
    BY <1>6 DEF Take, Sweep, Tick, SetKnownPeers
  <1>7. CASE UNCHANGED bleVars
    BY <1>7 DEF bleVars
  <1>. QED
    BY <1>4, <1>5, <1>6, <1>7 DEF Next

(* What a step hands out was paired not longer ago than the idle window.   *)
HandsOutRecently == \A c \in taken' \ taken : unpaired[KeyOf[c]] <= Idle

LEMMA StepHandsOutRecently ==
    ASSUME BleInv, [Next]_bleVars
    PROVE  HandsOutRecently
  <1>1. CASE Take
    <2>1. PICK k \in Keys \cup {None} :
             /\ parked[k].conn \in Conns /\ parked[k].age < Idle
             /\ taken' = taken \cup {parked[k].conn}
      BY <1>1, Taking
    <2>2. parked[k].conn # None /\ parked[k].age \in Nat
      BY <2>1, BleAssumption DEF BleInv, BleTyped, ParkedSession
    <2>3. unpaired[KeyOf[parked[k].conn]] <= parked[k].age + 1
      BY <2>2 DEF BleInv, KeysAreRecent
    <2>4. unpaired[KeyOf[parked[k].conn]] \in Nat
      BY <2>1, BleAssumption DEF BleInv, BleTyped
    <2>5. unpaired[KeyOf[parked[k].conn]] <= Idle
      BY <2>1, <2>2, <2>3, <2>4, BleAssumption
    <2>. QED
      BY <2>1, <2>5 DEF HandsOutRecently
  <1>2. ASSUME NEW c \in Conns, LinkStep(c)
        PROVE  taken' \subseteq taken
    BY <1>2 DEF LinkStep, Subscribe, Answer, Attach, Respond, SealAndWrite, HandshakeTimeout,
       AttachTimeout, PumpEnds, Notify, Send, Receive, Close
  <1>3. CASE Sweep \/ Tick \/ (\E chunk \in wire : Arrive(chunk))
             \/ (\E k \in Keys \cup {None} : SetKnownPeers(k)) \/ UNCHANGED bleVars
    <2>1. taken' = taken
      BY <1>3 DEF Sweep, Tick, Arrive, SetKnownPeers, bleVars
    <2>. QED
      BY <2>1 DEF HandsOutRecently
  <1>. QED
    BY <1>1, <1>2, <1>3 DEF Next, HandsOutRecently

(* The hub serves at most one link, every session is of a link whose phone *)
(* got through the handshake, and decoders stay within their bound.        *)
THEOREM BleTypeCorrect == Spec => []TypeOK
  <1>1. BleInv => TypeOK
    BY BleTypes
  <1>. QED
    BY <1>1, BleInvariant, PTL

(* Whatever the air loses, repeats, reorders or mixes in, the Bluetooth    *)
(* session implements the ordered channel (BleSession, channel.rs open).   *)
THEOREM BleKeepsOrder == Spec => KeepsOrder
  <1>1. Init => Ordered!Init
    BY DEF Init, Ordered!Init
  <1>2. BleInv /\ [Next]_bleVars => [Ordered!Next]_Ordered!chanVars
    BY StepIsOrdered
  <1>. QED
    BY <1>1, <1>2, BleInvariant, PTL DEF Spec, KeepsOrder, Ordered!Spec

(* take_session hands out no session whose key the device has not been     *)
(* paired under for longer than the idle window.                           *)
THEOREM BleHandsOutRecentKeys == Spec => HandsOutRecentKeys
  <1>1. BleInv /\ [Next]_bleVars => [HandsOutRecently]_bleVars
    BY StepHandsOutRecently
  <1>2. Spec => [][HandsOutRecently]_bleVars
    BY <1>1, BleInvariant, PTL DEF Spec
  <1>. QED
    BY <1>2 DEF HandsOutRecentKeys, HandsOutRecently
=============================================================================
