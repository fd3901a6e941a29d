--------------------------- MODULE MCAgentService ---------------------------
(* One boot credential that two phones may hold in turn, with hardware or  *)
(* software keys, and callers that authorize, narrow, forget and re-pair.  *)
EXTENDS AgentService

Luks == [service |-> "luks", action |-> "unlock", resource |-> "root", user |-> "root"]
LuksGrant == [service |-> "luks", action |-> "*", resource |-> "*", user |-> "*"]

Cred(key, kind) ==
    [credential_id |-> "c1", public_key |-> key, key_kind |-> kind,
     purpose |-> "DiskUnlock", permissions |-> {}]
MCEnrolments == {<<"d1", Cred("k2", "Software")>>, <<"d2", Cred("k2", "Hardware")>>}

MCStored == {[d \in DeviceIds |->
    IF d = "d1" THEN {[Cred("k1", "Hardware") EXCEPT !.permissions = {LuksGrant}]} ELSE {}]}

MCFields == {Luks}
MCPermissions == {LuksGrant}
MCSecurity == [s \in Sessions |->
    [confidential |-> TRUE, peer_authenticated |-> TRUE, is_development |-> s = "dev"]]
MCPeerOf == [s \in Sessions |-> IF s = "ble" THEN "d2" ELSE "d1"]

AuthorizeAny == [op |-> "authorize", credential_id |-> NoCredential, fields |-> Luks]
AuthorizeC1 == [op |-> "authorize", credential_id |-> "c1", fields |-> Luks]
Edit(d, perms) == [op |-> "set_permissions", device |-> d, credential_id |-> "c1",
                   permissions |-> perms]
MCCallsOf ==
    [login |-> {AuthorizeAny},
     tray  |-> {AuthorizeC1, [op |-> "forget", device |-> "d1"]},
     pairing |-> {[op |-> "confirm_pairing", device |-> e[1], credential |-> e[2]] :
                    e \in Enrolments},
     editor |-> {Edit("d1", {}), Edit("d1", {LuksGrant}), Edit("d2", {LuksGrant})}]
=============================================================================
