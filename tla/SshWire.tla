------------------------------ MODULE SshWire ------------------------------
(***************************************************************************)
(* The encodings of phone-auth-protocol/src/ssh.rs an SSH login depends on: *)
(* the mpint rule for the two halves of a signature, with bytes reduced to *)
(* the digits 0 .. Base - 1, the upper half of which has "the high bit".   *)
(***************************************************************************)
EXTENDS Naturals, Sequences

CONSTANTS Base,       \* values of a byte (256)
          ScalarLen   \* bytes of one scalar (32)

ASSUME WireAssumption == Base \in Nat \ {0, 1} /\ ScalarLen \in Nat \ {0}

Bytes == 0 .. Base - 1
Scalars == [1 .. ScalarLen -> Bytes]

\* The bytes of value from the first that is not zero.
Trimmed(value) ==
    LET zeros == CHOOSE n \in 0 .. Len(value) :
                    /\ \A i \in 1 .. n : value[i] = 0
                    /\ n = Len(value) \/ value[n + 1] # 0
    IN  SubSeq(value, zeros + 1, Len(value))

\* The leading zero forgotten: half of all scalars read as negative.
MpintUnsigned(value) == Trimmed(value)

\* SshWriter::mpint.
Mpint(value) ==
    LET trimmed == Trimmed(value)
    IN  IF trimmed # <<>> /\ 2 * trimmed[1] >= Base THEN <<0>> \o trimmed ELSE trimmed

\* encode_signature and decode_signature: the two scalars, and back to their
\* fixed length; a scalar that is too long is refused.
EncodeSignature(raw) == [r |-> Mpint(raw.r), s |-> Mpint(raw.s)]
Padded(scalar) ==
    LET trimmed == Trimmed(scalar)
    IN  [i \in 1 .. ScalarLen - Len(trimmed) |-> 0] \o trimmed
Decodes(blob) == Len(Trimmed(blob.r)) <= ScalarLen /\ Len(Trimmed(blob.s)) <= ScalarLen
DecodeSignature(blob) == [r |-> Padded(blob.r), s |-> Padded(blob.s)]

\* What a server takes an mpint for: canonical, and never negative.
ReadsAsPositive(mpint) ==
    mpint = <<>> \/ (2 * mpint[1] < Base /\ (mpint[1] = 0 => Len(mpint) > 1 /\ 2 * mpint[2] >= Base))
=============================================================================
