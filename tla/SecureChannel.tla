---------------------------- MODULE SecureChannel ----------------------------
(***************************************************************************)
(* The record layer and the BLE framing under it, as operators on the      *)
(* state of one direction: phone-auth-session's channel.rs and keys.rs and *)
(* the agent's ble_framing.rs.  A frame is a record with a field "kind";   *)
(* keys and bindings are stood for by the connection whose handshake made  *)
(* them, so a record opens under exactly that connection's channel.        *)
(***************************************************************************)
EXTENDS Naturals, Sequences, FiniteSets

CONSTANTS IdModulus,     \* 2^16 in the code: frame ids wrap
          MaxPartial,    \* MAX_PARTIAL_FRAMES
          MaxCounter     \* the last record counter (u64::MAX)

ASSUME FramingAssumption == /\ IdModulus \in Nat \ {0}
                            /\ MaxPartial \in Nat \ {0}
                            /\ MaxCounter \in Nat

NoFrame == [kind |-> "none"]
BadChunk == [kind |-> "bad chunk"]
Garbled == [kind |-> "garbled"]

-----------------------------------------------------------------------------
(* Sealing and opening.                                                    *)

\* KeySchedule::derive and session_binding: both ends hash the transcript of
\* the one handshake, so the keys and the binding are its connection's own.
Schedule(conn) == conn

NewChannel(conn) == [conn |-> Schedule(conn), counter |-> 0]

Record(channel, msg) ==
    [kind |-> "record", conn |-> channel.conn, counter |-> channel.counter, msg |-> msg]

\* seal() refuses once the counter cannot be advanced past the one it uses.
CanSeal(channel) == channel.counter < MaxCounter

Advance(channel) == [channel EXCEPT !.counter = @ + 1]

\* A channel that takes any record of its own keys, whatever its counter.
OpensUnordered(channel, frame) ==
    /\ frame.kind = "record"
    /\ frame.conn = channel.conn

\* open(): a whole record, the next counter, and the keys and the binding it
\* was sealed under.
Opens(channel, frame) ==
    /\ frame.kind = "record"
    /\ frame.counter = channel.counter
    /\ frame.conn = channel.conn
    /\ channel.counter < MaxCounter

-----------------------------------------------------------------------------
(* BLE framing: frame id, chunk index and chunk count before every part.   *)

\* encode(): the chunks of one frame under the encoder's next id.
Chunks(frame, id, total) ==
    {[id |-> id % IdModulus, index |-> i, total |-> total, of |-> frame] : i \in 0 .. total - 1}

\* The frames a decoder holds parts of: at most one per id.
NoPartial == {}

PartialOf(partial, id) == {c \in partial : c.id = id}

PartialIds(partial) == {c.id : c \in partial}

\* What the parts put together make: the frame they were cut from, or bytes
\* that are no frame at all when they were cut from different ones.
Assembled(chunks) ==
    LET frames == {c.of : c \in chunks}
    IN  IF Cardinality(frames) = 1 THEN CHOOSE f \in frames : TRUE ELSE Garbled

\* add_chunk(): the decoder after it and what it returns.
AddChunk(partial, c) ==
    LET mine == PartialOf(partial, c.id)
        all == mine \cup {c}
    IN  IF mine = {} /\ Cardinality(PartialIds(partial)) >= MaxPartial THEN
            [partial |-> partial, frame |-> BadChunk]
        ELSE IF \E p \in mine : p.total # c.total \/ p.index = c.index THEN
            [partial |-> partial \ mine, frame |-> BadChunk]
        ELSE IF Cardinality(all) # c.total THEN
            [partial |-> partial \cup all, frame |-> NoFrame]
        ELSE
            [partial |-> partial \ mine, frame |-> Assembled(all)]
=============================================================================
