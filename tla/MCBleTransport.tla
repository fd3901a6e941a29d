--------------------------- MODULE MCBleTransport ---------------------------
(***************************************************************************)
(* Two connections: an old phone that names no credential and signs with   *)
(* the device's first key, and a new one that signs with its second.       *)
(***************************************************************************)
EXTENDS BleTransport

MCKeyOf == [c \in Conns |-> c]
MCNames == [c \in Conns |-> c = 2]
=============================================================================
