---------------------------- MODULE MCSshAgent ----------------------------
(***************************************************************************)
(* Two clients: one binds, to a host or as forwarded, once or again, and   *)
(* logs in; the other sends one message of another kind, or logs in with a *)
(* key that may not be advertised.  One signature has a scalar with the    *)
(* high bit, after zeros and not, the other a small one and a zero one.    *)
(***************************************************************************)
EXTENDS SshAgent

CONSTANTS k1, k2, h1, h2, d1, d2

MCAccountOf == [d \in Data |-> IF d = d1 THEN "alice" ELSE "root"]
MCSends == [c \in Clients |->
    IF c = 1 THEN {SessionBind(h1, FALSE), SessionBind(h2, TRUE), SignRequest(k1, d1)}
    ELSE {SignRequest(k1, d2), IdentitiesRequest, Unsupported, BadFrame}]
MCMaxMessages == [c \in Clients |-> IF c = 1 THEN 3 ELSE 1]
MCRawOf == [d \in Data |-> IF d = d1 THEN [r |-> <<2, 1>>, s |-> <<0, 3>>]
                                      ELSE [r |-> <<0, 1>>, s |-> <<0, 0>>]]
=============================================================================
