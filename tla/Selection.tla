----------------------------- MODULE Selection -----------------------------
(***************************************************************************)
(* A part of a sequence, in order: what `retain' leaves of a collection.   *)
(* It is SelectSeq by positions, and not by a recursion over the sequence, *)
(* so that it can be reasoned about for sequences of any length.           *)
(***************************************************************************)
EXTENDS Integers, Sequences, FiniteSets

(* The how-manieth of the positions that are kept. *)
Rank(keep, i) == Cardinality({j \in keep : j <= i})

Kept(s, keep) ==
    [k \in 1 .. Cardinality(keep) |-> s[CHOOSE i \in keep : Rank(keep, i) = k]]
=============================================================================
