--------------------------- MODULE PermissionSync ---------------------------
(***************************************************************************)
(* Keeping one phone's permissions the same on both sides: the desktop's   *)
(* sync_permissions and set_permissions (service.rs, permissions.rs), the  *)
(* rule both ends share (phone-auth-protocol permissions.rs), and on the   *)
(* phone PermissionService, the store behind it and the screen that edits  *)
(* it (permission_service.dart, permission_store.dart,                     *)
(* permission_controller.dart).                                            *)
(*                                                                         *)
(* The desktop holds the service mutex for the whole exchange, so its own  *)
(* calls never overlap a sync.  On the phone, preferences are cached in    *)
(* memory: from reading the map to replacing it in the cache only          *)
(* microtasks run, so that much of a handler is one step, while the wait   *)
(* for the platform to save it lets other events in.  A permission is the  *)
(* service it names; the other fields change nothing here.  A request the  *)
(* desktop gave up on is not served later: the phone serves a frame when   *)
(* it reads it, or its session is gone.                                    *)
(***************************************************************************)
EXTENDS Integers, FiniteSets

CONSTANTS
    Credentials,        \* the phone's credentials for this desktop
    Services,           \* services a person may grant
    MAX_REVISION,       \* u64::MAX, and the bound of the model
    MaxEdits            \* bound: edits, pairings and revocations

VARIABLES
    desk,               \* credential -> [revision, permissions], the store
    paired,             \* credentials of the phone in the desktop's store
    call,               \* the sync in progress, or NoCall
    phone,              \* credential -> PermissionSet, the phone's store
    record,             \* credentials the phone keeps a pairing record for
    revoking,           \* "no", or what revokeDevice has done: "forgotten", "removed"
    screen,             \* what the open permissions screen loaded, or Shut
    saving,             \* <<credential, set>> of taps whose save is under way
    edits,              \* counts what people did
    granted,            \* history: credential -> sets a person chose and has not taken back
    revoked,            \* history: credentials revoked on the phone, not paired again
    readopted,          \* history: credentials whose set came back while they were revoked
    settled             \* history: credentials unchanged since a completed sync

history == <<granted, revoked, readopted>>
vars == <<desk, paired, call, phone, record, revoking, screen, saving, edits, history, settled>>

ASSUME RevisionAssumption == MAX_REVISION \in Nat \ {0}

Never == [revision |-> 0, permissions |-> {}]
NoCall == [stage |-> "none"]
Shut == << >>
PermissionSet == [revision : 0 .. MAX_REVISION, permissions : SUBSET Services]

(* A pairing from before permissions were synced: whatever the tray had    *)
(* granted, at revision 0, and nothing on the phone.                       *)
Init ==
    /\ desk \in [Credentials -> {p \in PermissionSet : p.revision = 0}] /\ paired = Credentials
    /\ call = NoCall
    /\ phone = [c \in Credentials |-> Never] /\ record = Credentials
    /\ screen = Shut /\ saving = {} /\ edits = 0
    /\ revoking = "no"
    /\ granted = [c \in Credentials |-> {{}, desk[c].permissions}]
    /\ revoked = {} /\ readopted = {}
    /\ settled = {}

-----------------------------------------------------------------------------
(* phone-auth-protocol permissions.rs, permission_payloads.dart *)

(* reconcile: whose set stands. *)
reconcile(mine, theirs, phone_wins_ties) ==
    CASE mine = 0 /\ theirs = 0 -> IF phone_wins_ties THEN "theirs" ELSE "mine"
      [] mine > theirs          -> "mine"
      [] theirs > mine          -> "theirs"
      [] OTHER                  -> IF phone_wins_ties THEN "mine" ELSE "theirs"

-----------------------------------------------------------------------------
(* The desktop *)

Free == call = NoCall

Edit == edits < MaxEdits /\ edits' = edits + 1

(* permissions_revision.saturating_add(1) *)
climb(revision) == IF revision = MAX_REVISION THEN revision ELSE revision + 1

(* set_permissions *)
SetPermissions(c, perms) ==
    /\ Free /\ c \in paired /\ Edit
    /\ desk' = [desk EXCEPT ![c] = [revision |-> climb(@.revision), permissions |-> perms]]
    /\ granted' = [granted EXCEPT ![c] = @ \cup {perms}]
    /\ settled' = settled \ {c}
    /\ UNCHANGED <<paired, call, phone, record, revoking, screen, saving, revoked, readopted>>

(* What still stands for c once the desktop has dropped its own copy: what *)
(* the phone's screen shows, unless the phone's user revoked this computer *)
(* ("to take `sudo` away").                                                *)
OnPhone(c) == IF c \in revoked THEN {{}} ELSE {{}, phone[c].permissions}

(* forget: the device and all its credentials leave the store. *)
Forget ==
    /\ Free /\ paired # {} /\ Edit
    /\ paired' = {}
    /\ desk' = [c \in Credentials |-> Never]
    /\ settled' = {}
    /\ granted' = [c \in Credentials |-> OnPhone(c)]
    /\ UNCHANGED <<call, phone, record, revoking, screen, saving, revoked, readopted>>

(* The phone scans a code and confirm_pairing stores the credential: at    *)
(* revision 0 with no permissions, replacing one of the same id.  The      *)
(* phone saves its record and leaves its permission store alone.           *)
Pair(c) ==
    /\ Free /\ screen = Shut /\ revoking = "no" /\ Edit
    /\ paired' = paired \cup {c} /\ record' = record \cup {c}
    /\ desk' = [desk EXCEPT ![c] = Never]
    /\ settled' = settled \ {c}
    /\ granted' = [granted EXCEPT ![c] = OnPhone(c)] /\ revoked' = revoked \ {c}
    /\ UNCHANGED <<call, phone, revoking, screen, saving, readopted>>

(* PairedSessionRunner: the phone keeps a session up for every record, and *)
(* goes on serving those of a computer it revokes until stopDevice.        *)
Serving == IF revoking = "removed" THEN Credentials ELSE record

(* sync_permissions: the request goes out with what the desktop has. *)
StartSync(c) ==
    /\ Free /\ c \in paired \cap Serving
    /\ call' = [stage |-> "asked", credential |-> c, offered |-> desk[c]]
    /\ UNCHANGED <<desk, paired, phone, record, revoking, screen, saving, edits, history,
                   settled>>

(* PhonePermissions::sync refuses a reply older than what was offered. *)
Adopted(offered, answer) == IF answer.revision < offered.revision THEN offered ELSE answer

(* The reply is stored whole. *)
FinishSync ==
    /\ call.stage = "answered"
    /\ desk' = [desk EXCEPT ![call.credential] = Adopted(call.offered, call.answer)]
    /\ settled' = IF call.clean THEN settled \cup {call.credential} ELSE settled
    /\ call' = NoCall
    /\ UNCHANGED <<paired, phone, record, revoking, screen, saving, edits, history>>

(* The session dropped or timed out before the reply was read, or the      *)
(* phone could not save what it adopted and answered "unavailable".        *)
LoseSync ==
    /\ call # NoCall
    /\ call' = NoCall
    /\ UNCHANGED <<desk, paired, phone, record, revoking, screen, saving, edits, history,
                   settled>>

-----------------------------------------------------------------------------
(* The phone *)

(* PermissionService.handle settles on its own set or the offered one. *)
Settled(mine, offered) ==
    IF reconcile(mine.revision, offered.revision, TRUE) = "mine" THEN mine ELSE offered

(* Mutant of PhoneAnswers: what was adopted is not kept. *)
PhoneAnswersWithoutWriting ==
    LET c == call.credential IN
    /\ call.stage = "asked" /\ c \in Serving
    /\ call' = [stage |-> "answered", credential |-> c, offered |-> call.offered,
                answer |-> Settled(phone[c], call.offered), clean |-> TRUE]
    /\ UNCHANGED <<desk, paired, phone, record, revoking, screen, saving, edits, history,
                   settled>>

(* PermissionService.handle: read this side's set, decide, keep what was   *)
(* adopted, and reply with the whole set that stands.                      *)
PhoneAnswers ==
    LET c == call.credential
        answer == Settled(phone[c], call.offered)
    IN
    /\ call.stage = "asked" /\ c \in Serving
    /\ phone' = [phone EXCEPT ![c] = answer]
    /\ readopted' = IF revoking # "no" /\ answer # phone[c] THEN readopted \cup {c}
                    ELSE readopted
    /\ call' = [stage |-> "answered", credential |-> c, offered |-> call.offered,
                answer |-> answer, clean |-> TRUE]
    /\ UNCHANGED <<desk, paired, record, revoking, screen, saving, edits, granted, revoked,
                   settled>>

(* A reply on its way no longer tells what the phone holds for these. *)
Overtaken(cs) ==
    IF call.stage = "answered" THEN [call EXCEPT !.clean = @ /\ call.credential \notin cs]
                               ELSE call

-----------------------------------------------------------------------------
(* The phone's user *)

(* PermissionController.load, once per screen; nothing reloads it when a   *)
(* sync changes the store.                                                 *)
OpenScreen ==
    /\ record # {} /\ screen = Shut
    /\ screen' = [c \in record |-> phone[c]]
    /\ UNCHANGED <<desk, paired, call, phone, record, revoking, saving, edits, history, settled>>

(* dispose: a save under way goes on but no longer updates a screen. *)
CloseScreen ==
    /\ screen # Shut
    /\ screen' = Shut /\ saving' = {}
    /\ UNCHANGED <<desk, paired, call, phone, record, revoking, edits, history, settled>>

(* PermissionSet.edited: the set the screen holds, with one service        *)
(* switched, one revision on.                                              *)
Toggled(set, service) ==
    [revision |-> set.revision + 1,
     permissions |-> IF service \in set.permissions THEN set.permissions \ {service}
                                                    ELSE set.permissions \cup {service}]

(* PermissionController.toggle writes the whole set it makes. *)
Toggle(c, service) ==
    /\ c \in DOMAIN screen /\ Edit
    /\ screen[c].revision < MAX_REVISION
    /\ LET next == Toggled(screen[c], service) IN
        /\ phone' = [phone EXCEPT ![c] = next]
        /\ saving' = saving \cup {<<c, next>>}
        /\ granted' = [granted EXCEPT ![c] = @ \cup {next.permissions}]
    /\ revoked' = revoked \ {c}
    /\ call' = Overtaken({c})
    /\ settled' = settled \ {c}
    /\ UNCHANGED <<desk, paired, record, revoking, screen, readopted>>

(* The save is done and the screen shows the set it wrote, or it failed    *)
(* and the screen says so.                                                 *)
Saved(x) ==
    /\ x \in saving
    /\ saving' = saving \ {x}
    /\ screen' \in {screen, [screen EXCEPT ![x[1]] = x[2]]}
    /\ UNCHANGED <<desk, paired, call, phone, record, revoking, edits, history, settled>>

(* Mutant of RevokeForgets: the permissions are left behind. *)
RevokeForgetsNothing ==
    /\ record # {} /\ revoking = "no" /\ screen = Shut /\ Edit
    /\ revoking' = "forgotten"
    /\ granted' = [c \in Credentials |-> granted[c] \cup {desk[c].permissions}]
    /\ revoked' = Credentials /\ readopted' = {}
    /\ UNCHANGED <<desk, paired, call, phone, record, screen, saving, settled>>

(* AppController.revokeDevice, one step per await.  The permissions go     *)
(* first, of every credential of that computer; from then on a person      *)
(* stands only by what the desktop still enforces or is about to adopt.    *)
RevokeForgets ==
    /\ record # {} /\ revoking = "no" /\ screen = Shut /\ Edit
    /\ revoking' = "forgotten"
    /\ phone' = [c \in Credentials |-> Never]
    /\ granted' = [c \in Credentials |->
          {{}, desk[c].permissions} \cup
             IF call.stage = "answered" /\ call.credential = c THEN {call.answer.permissions}
             ELSE {}]
    /\ revoked' = Credentials /\ readopted' = {}
    /\ call' = Overtaken(Credentials)
    /\ settled' = {}
    /\ UNCHANGED <<desk, paired, record, screen, saving>>

RevokeRemoves ==
    /\ revoking = "forgotten"
    /\ revoking' = "removed" /\ record' = {}
    /\ UNCHANGED <<desk, paired, call, phone, screen, saving, edits, history, settled>>

(* Removing the record failed: "the pairing is still real", and whatever   *)
(* it holds again was not taken away.                                      *)
RevokeFails ==
    /\ revoking = "forgotten"
    /\ revoking' = "no"
    /\ revoked' = {} /\ readopted' = {}
    /\ UNCHANGED <<desk, paired, call, phone, record, screen, saving, edits, granted, settled>>

(* stopDevice hangs up, as the end of the app does. *)
StopDevice ==
    /\ revoking = "removed"
    /\ revoking' = "no"
    /\ UNCHANGED <<desk, paired, call, phone, record, screen, saving, edits, history, settled>>

-----------------------------------------------------------------------------
Next ==
    \/ \E c \in Credentials :
         \/ Pair(c) \/ StartSync(c)
         \/ \E perms \in SUBSET Services : SetPermissions(c, perms)
         \/ \E service \in Services : Toggle(c, service)
    \/ Forget \/ FinishSync \/ LoseSync
    \/ PhoneAnswers \/ OpenScreen \/ CloseScreen
    \/ RevokeForgets \/ RevokeRemoves \/ RevokeFails \/ StopDevice
    \/ \E x \in saving : Saved(x)

Spec == Init /\ [][Next]_vars

-----------------------------------------------------------------------------
TypeOK ==
    /\ desk \in [Credentials -> PermissionSet] /\ phone \in [Credentials -> PermissionSet]
    /\ paired \subseteq Credentials /\ record \subseteq Credentials
    /\ screen \in UNION {[cs -> PermissionSet] : cs \in SUBSET Credentials}
    /\ revoking \in {"no", "forgotten", "removed"}
    /\ revoked \subseteq Credentials /\ readopted \subseteq Credentials
    /\ call.stage \in {"none", "asked", "answered"}
    /\ saving \subseteq Credentials \X PermissionSet
    /\ settled \subseteq Credentials

(* What the desktop enforces for a credential is always a whole set that a *)
(* person chose for it on one of the two screens and has not taken back,   *)
(* or nothing.  Settlements and lost replies never combine two sets or     *)
(* move one to another credential ("powers nobody granted",                *)
(* sync_permissions), and revoking a computer and pairing it again does    *)
(* not hand back what was revoked ("without ever being asked",             *)
(* AppController.revokeDevice).  The exception is a sync the phone served  *)
(* while it was revoking: between forgetting the sets and hanging up it    *)
(* adopts the desktop's set, which survives the revocation and wins after  *)
(* the next pairing.                                                       *)
NoInventedPowers ==
    \A c \in Credentials : c \in readopted \/ desk[c].permissions \in granted[c]

(* "both end the call agreeing" (permissions.rs): after a sync, and until  *)
(* somebody edits that credential again, the two sides hold one set.       *)
BothEndAgreeing == \A c \in settled : desk[c] = phone[c]

=============================================================================
