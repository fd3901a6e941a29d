-------------------------- MODULE MCPairingService --------------------------
(* Two phones, the second too old to declare intents or credentials, and a *)
(* third peer that claims the first phone's device id with another key.    *)
EXTENDS PairingService

CONSTANTS a, b          \* interchangeable connection threads
ConnSymmetry == Permutations(Conns)

Modern == [device |-> "d1", identity |-> "i1", legacy |-> FALSE]
Legacy == [device |-> "d2", identity |-> "i2", legacy |-> TRUE]
Rekeyed == [device |-> "d1", identity |-> "i3", legacy |-> FALSE]
RekeyedLegacy == [Rekeyed EXCEPT !.legacy = TRUE]

MCThreePeers == {Modern, Legacy, Rekeyed}
MCClaimants == {Modern, RekeyedLegacy}

MCNothingStored == {[d \in Devices |-> NoIdentity]}
MCPairedStore == {[d \in Devices |-> IF d = "d1" THEN "i1" ELSE "i2"]}
=============================================================================
