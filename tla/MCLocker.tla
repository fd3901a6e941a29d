------------------------------ MODULE MCLocker ------------------------------
(* Two documents of three and four blocks, both in the clear, or one of    *)
(* them in a container.                                                    *)
EXTENDS Locker, TLC

Text(d) == [i \in 1 .. (IF d = "taxes" THEN 3 ELSE 4) |-> <<0, i>>]

Holding(files) ==
    [x \in Paths |-> IF x \in DOMAIN files THEN files[x] ELSE Nothing]

Taxes == <<"taxes", "">> :> Plain("taxes", Text("taxes"))
Notes == <<"notes", "">> :> Plain("notes", Text("notes"))
BoxedNotes == <<"notes", "balock">> :> Boxed("notes", Text("notes"))
FirstCode == <<"code", "notes">> :> Code(0)

MCDirectories == {Holding(Taxes @@ Notes), Holding(Taxes @@ BoxedNotes @@ FirstCode)}
Batch(op, keep, new, targets) == [op |-> op, keep |-> keep, new |-> new, targets |-> targets]
To(name, out) == [name |-> name, out |-> out]

(* Locks of both documents, to two recovery files or to the same one;      *)
(* unlocks and rekeys of one document, the new code to either file.        *)
MCBatches ==
    {Batch("lock", FALSE, FALSE, <<To("taxes", "taxes"), To("notes", "notes")>>),
     Batch("lock", FALSE, FALSE, <<To("taxes", "notes"), To("notes", "notes")>>),
     Batch("lock", FALSE, FALSE, <<To("taxes", "notes")>>),
     Batch("lock", TRUE, FALSE, <<To("notes", "notes")>>),
     Batch("unlock", FALSE, FALSE, <<To("taxes", "taxes")>>),
     Batch("unlock", FALSE, FALSE, <<To("notes", "notes")>>),
     Batch("rekey", FALSE, FALSE, <<To("notes", "taxes")>>),
     Batch("rekey", FALSE, TRUE, <<To("notes", "taxes")>>)}

(* Two bytes take four symbols, with four bits left over, as thirty-two do *)
(* in fifty-two.                                                           *)
MCRecoveryKeys == (0 :> <<0, 255>>) @@ (1 :> <<0, 0>>) @@ (2 :> <<129, 254>>)

=============================================================================
