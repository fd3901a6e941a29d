--------------------------- MODULE OrderedChannel ---------------------------
(***************************************************************************)
(* What a secure session promises its user, whatever carries its bytes:    *)
(* the messages one end is handed are the ones the other end sealed in that *)
(* same session, in order, none twice and none left out before another.    *)
(* Messages may stop coming at any point; nothing is promised about that.  *)
(***************************************************************************)
EXTENDS Sequences, Naturals

CONSTANTS Sessions,   \* one per connection of a phone
          Messages    \* what a phone may say

VARIABLES sealed,     \* sealed[s]: what the phone's end sealed in session s
          opened      \* opened[s]: what the desktop's end was handed

chanVars == <<sealed, opened>>

Init == /\ sealed = [s \in Sessions |-> <<>>]
        /\ opened = [s \in Sessions |-> <<>>]

Seal(s, m) == /\ sealed' = [sealed EXCEPT ![s] = Append(@, m)]
              /\ UNCHANGED opened

Open(s) == /\ Len(opened[s]) < Len(sealed[s])
           /\ opened' = [opened EXCEPT ![s] = Append(@, sealed[s][Len(@) + 1])]
           /\ UNCHANGED sealed

Next == \E s \in Sessions : Open(s) \/ \E m \in Messages : Seal(s, m)

Spec == Init /\ [][Next]_chanVars
=============================================================================
