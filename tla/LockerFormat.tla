---------------------------- MODULE LockerFormat ----------------------------
(***************************************************************************)
(* A .balock container as data: the public core header, two wrapped copies *)
(* of the data key, the sealed metadata and the sealed chunks              *)
(* (phone-auth-locker format.rs, stream.rs, recovery.rs).                  *)
(*                                                                         *)
(* An AEAD opens what was sealed under the same key, nonce and additional  *)
(* data and nothing else.  Every seal of a container is bound to its core  *)
(* header, whose salt is fresh, so a core stands for the data key, the     *)
(* nonce prefix and the binding together; `sound' is false of bytes that   *)
(* nobody sealed.  A file is a sequence of blocks, the units in which the  *)
(* model counts its length.                                                *)
(***************************************************************************)
EXTENDS Naturals, SequencesExt

CONSTANTS ChunkSize,    \* blocks in a chunk
          KeyLength     \* bytes in a recovery key

ASSUME FormatAssumption == ChunkSize \in Nat \ {0} /\ KeyLength \in Nat \ {0}

(* CoreHeader.  An empty file still has one chunk. *)
Core(id, len) == [id |-> id, len |-> len]

ChunkCount(core) ==
    IF core.len = 0 THEN 1 ELSE (core.len + ChunkSize - 1) \div ChunkSize

(* How much of the plaintext chunk i holds. *)
Take(core, i) ==
    IF i * ChunkSize <= core.len THEN ChunkSize ELSE core.len - (i - 1) * ChunkSize

Part(core, i, content) ==
    SubSeq(content, (i - 1) * ChunkSize + 1, (i - 1) * ChunkSize + Take(core, i))

SealChunk(core, i, data) ==
    [sound |-> TRUE, core |-> core, index |-> i, last |-> i = ChunkCount(core), data |-> data]

(* Mutant of OpensAs: the nonce does not count the chunks. *)
OpensAnywhere(core, i, c) ==
    c.sound /\ c.core = core /\ Len(c.data) = Take(core, i)

OpensAs(core, i, c) ==
    /\ c.sound /\ c.core = core
    /\ c.index = i /\ c.last = (i = ChunkCount(core))
    /\ Len(c.data) = Take(core, i)

(* decrypt_chunks: every chunk of the header's count, and nothing after. *)
Decrypts(box) ==
    /\ Len(box.chunks) = ChunkCount(box.core)
    /\ \A i \in 1 .. Len(box.chunks) : OpensAs(box.core, i, box.chunks[i])

Content(box) ==
    [k \in 1 .. box.core.len |->
        box.chunks[((k - 1) \div ChunkSize) + 1].data[((k - 1) % ChunkSize) + 1]]

(* The sealed name and length. *)
Metadata(core, name) == [sound |-> TRUE, core |-> core, name |-> name, len |-> core.len]
OpensMetadata(box) == box.meta.sound /\ box.meta.core = box.core

(* A wrapper is bound to its container, its kind and its id; a recovery    *)
(* wrapper opens with the code it was made for.                            *)
Wrapper(core, id) == [sound |-> TRUE, core |-> core, id |-> id]
Unwraps(box, wrapper, id) == wrapper.sound /\ wrapper.core = box.core /\ wrapper.id = id

-----------------------------------------------------------------------------
(* A recovery key as the symbols a person writes down: five bits each, the *)
(* last one filled up with zeros.  `acc' is the low bits not yet written,  *)
(* `bits' how many they are.  Case, dashes and spaces, which parsing drops,*)
(* are left out.                                                           *)
NoKey == <<>>

FormatCode(key) ==
    LET push(x, byte) ==
            LET acc == x.acc * 256 + byte
                bits == x.bits + 8
                write == bits \div 5
                left == bits - 5 * write
            IN [acc |-> acc % 2^left, bits |-> left,
                out |-> x.out \o [i \in 1 .. write |-> (acc \div 2^(bits - 5 * i)) % 32]]
        end == FoldLeft(push, [acc |-> 0, bits |-> 0, out |-> <<>>], key)
    IN IF end.bits > 0 THEN Append(end.out, (end.acc * 2^(5 - end.bits)) % 32) ELSE end.out

Symbols == (8 * KeyLength + 4) \div 5

ReadSymbol(x, symbol) ==
    LET acc == x.acc * 32 + symbol
        bits == x.bits + 5
    IN IF bits < 8 THEN [x EXCEPT !.acc = acc, !.bits = bits]
       ELSE [acc |-> acc % 2^(bits - 8), bits |-> bits - 8,
             out |-> Append(x.out, acc \div 2^(bits - 8))]

(* parse_recovery_code: the right length, and nothing in the padding. *)
ParseCode(code) ==
    LET end == FoldLeft(ReadSymbol, [acc |-> 0, bits |-> 0, out |-> <<>>], code)
    IN IF Len(code) = Symbols /\ Len(end.out) = KeyLength /\ end.acc = 0 THEN end.out ELSE NoKey

-----------------------------------------------------------------------------
(* What a bad disk may hand back for a container: chunks missing at the    *)
(* end, repeated, in another order, or one section that no longer reads as *)
(* what was sealed.                                                        *)
Unsound(part) == [part EXCEPT !.sound = FALSE]

Jumbled(chunks) ==
    LET k == Len(chunks) IN
    IF k = 0 THEN {}
    ELSE {Front(chunks), [i \in 1 .. k + 1 |-> chunks[1]], Reverse(chunks),
          [chunks EXCEPT ![k] = Unsound(@)]}

Damaged(box) ==
    ({[box EXCEPT !.chunks = chunks] : chunks \in Jumbled(box.chunks)}
       \cup {[box EXCEPT !.phone = Unsound(@)], [box EXCEPT !.recovery = Unsound(@)],
             [box EXCEPT !.meta = Unsound(@)]}) \ {box}
=============================================================================
