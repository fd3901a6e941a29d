--------------------------- MODULE PairingRecords ---------------------------
(***************************************************************************)
(* The records a verifier keeps about paired phones, and the pure          *)
(* functions over them: which purpose a service needs, whether a           *)
(* permission covers a request, who holds a credential, and what           *)
(* PairingStore::insert and ::remove do to the in-memory map.              *)
(*                                                                         *)
(* The map of paired devices is a total function from device ids to the    *)
(* set of credential records of that device; a device that is not paired   *)
(* holds the empty set (an enrolment always carries a credential, and      *)
(* remove() drops the whole device, so no paired device is ever empty).    *)
(* Display names and pairing times are left out: nothing decides on them.  *)
(***************************************************************************)
EXTENDS FiniteSets

CONSTANTS
    DeviceIds,          \* device_id of the phones that may pair
    CredentialIds,      \* credential_id values on the wire
    Keys,               \* credential public keys (algorithm included)
    Fields,             \* [service, action, resource, user] a request may carry
    Permissions         \* permission records a person may grant

-----------------------------------------------------------------------------
(* policy.rs *)

WILDCARD == "*"

(* Permission::allows_fields: a wildcard service matches nothing. *)
allows_fields(perm, fields) ==
    /\ perm.service # WILDCARD
    /\ perm.service = fields.service
    /\ perm.action \in {WILDCARD, fields.action}
    /\ perm.resource \in {WILDCARD, fields.resource}
    /\ perm.user \in {WILDCARD, fields.user}

(* policy::permits: default deny, any covering permission is enough. *)
permits(perms, fields) == \E perm \in perms : allows_fields(perm, fields)

-----------------------------------------------------------------------------
(* pairing.rs *)

KeyKind == {"StrongBox", "Hardware", "Software"}

allowed_at_boot(kind) == kind \in {"StrongBox", "Hardware"}

ReservedPurpose == [luks |-> "DiskUnlock", webauthn |-> "WebAuthn",
                    vault |-> "Vault", locker |-> "FileLocker", ssh |-> "Ssh"]

CredentialPurpose ==
    {"Authorization", "DiskUnlock", "WebAuthn", "Vault", "FileLocker", "Ssh"}

(* CredentialPurpose::for_service *)
for_service(service) ==
    IF service \in DOMAIN ReservedPurpose THEN ReservedPurpose[service]
                                          ELSE "Authorization"

PairedCredential ==
    [credential_id : CredentialIds, public_key : Keys, key_kind : KeyKind,
     purpose : CredentialPurpose, permissions : SUBSET Permissions]

(* The in-memory map of PairingStore. *)
DeviceMap == [DeviceIds -> SUBSET PairedCredential]

NoDevices == [d \in DeviceIds |-> {}]

Paired(devs, d) == devs[d] # {}

Ids(creds) == {c.credential_id : c \in creds}

(* PairingStore::find_credential: the device and the record for an id. *)
HeldBy(devs, cid, d, c) == c \in devs[d] /\ c.credential_id = cid

(* Mutant of Conflicts: looks only among the device's own credentials. *)
ConflictsOnOwnDevice(devs, d, creds) ==
    \E c \in creds : \E e \in devs[d] :
        e.credential_id = c.credential_id /\ e.public_key # c.public_key

(* The check insert() makes for each incoming credential: its id is bound  *)
(* to another device, or to another key.                                   *)
Conflicts(devs, d, creds) ==
    \E c \in creds, o \in DeviceIds : \E e \in devs[o] :
        /\ e.credential_id = c.credential_id
        /\ \/ o # d
           \/ e.public_key # c.public_key

(* What insert() leaves in memory: incoming credentials replace the ones   *)
(* with their ids, the device's other credentials are kept.                *)
Inserted(devs, d, creds) ==
    [devs EXCEPT ![d] = creds \cup {c \in @ : c.credential_id \notin Ids(creds)}]

(* A device's credentials with the permissions of one of them replaced.    *)
Edited(creds, cid, perms) ==
    {IF c.credential_id = cid THEN [c EXCEPT !.permissions = perms] ELSE c : c \in creds}

(* What remove() leaves in memory. *)
Removed(devs, d) == [devs EXCEPT ![d] = {}]
=============================================================================
