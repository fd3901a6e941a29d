----------------------------- MODULE MCVerifier -----------------------------
(* A small instance of Verifier: two phones, one credential id, two keys,  *)
(* two good sessions and one that is not authenticated, and a replay guard *)
(* that holds one id, so that two requests are enough to flood it.         *)
EXTENDS Verifier

Sudo(cmd) == [service |-> "sudo", action |-> cmd, resource |-> "host", user |-> "ana"]
MCFields == {Sudo("apt"), Sudo("rm")}
MCPermissions == {[service |-> "sudo", action |-> "apt", resource |-> "*", user |-> "ana"]}

Cred(key) == [credential_id |-> "c1", public_key |-> key, key_kind |-> "StrongBox",
              purpose |-> "Authorization", permissions |-> {}]
MCEnrolments == {<<"d1", Cred("k1")>>, <<"d2", Cred("k2")>>}

MCStored == {NoDevices}

MCSecurity == [s \in Sessions |->
    [confidential |-> TRUE, peer_authenticated |-> s # "open", is_development |-> FALSE]]
=============================================================================
