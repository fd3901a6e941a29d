----------------------------- MODULE SecretCopy -----------------------------
(***************************************************************************)
(* vault.copy and vault.generate-copy from the moment the secret is at     *)
(* hand: copy_secret, and the audit entry for how it went, appended under  *)
(* the service mutex while timers and the user go on (ipc.rs               *)
(* vault_generate_copy, service.rs vault_copy and record_vault).           *)
(***************************************************************************)
EXTENDS Clipboard, AuditLog

VARIABLE recorded       \* requests whose outcome was handed to the log

copyVars == <<clipboardVars, auditVars, recorded>>

ASSUME CopiesAreEntries == Copies \subseteq Entries

CopyInit == ClipboardInit /\ AuditInit /\ recorded = {}

(* record_generated_copy: after the copy, never around it, and for a       *)
(* request refused before it; an append that fails is printed and          *)
(* forgotten.                                                              *)
Record(c) ==
    /\ c \notin recorded
    /\ c \in Copies => copy[c] \in {"copied", "failed"}
    /\ AppendEntry(c) \/ AppendCutShort(c)
    /\ recorded' = recorded \cup {c}
    /\ UNCHANGED clipboardVars

CopyNext ==
    \/ ClipboardNext /\ UNCHANGED <<auditVars, recorded>>
    \/ \E c \in Entries : Record(c)

CopySpec == CopyInit /\ [][CopyNext]_copyVars /\ ClipboardFairness

CopyTypeOK ==
    /\ platform \in Platforms /\ board \in Copies \cup {"nothing", "user"}
    /\ seq \in Nat \ {0} /\ OURS \in 0 .. seq
    /\ copy \in [Copies -> {"new", "placed", "copied", "failed"}]
    /\ \A c \in Copies : timer[c].pc \in {"none", "sleeping", "clearing", "emptying", "emptied", "done"}
                         /\ timer[c].ours \in 0 .. seq /\ timer[c].tries \in 0 .. Attempts
    /\ log \in Seq([entry : Entries, form : {"whole"} \cup Unfinished])
    /\ recorded \subseteq Entries
=============================================================================
