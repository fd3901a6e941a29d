----------------------------- MODULE Clipboard -----------------------------
(***************************************************************************)
(* Copying a secret to the clipboard and taking it back (agent             *)
(* clipboard.rs).  Copies run side by side: vault.copy holds the service   *)
(* mutex, vault.generate-copy does not, and each leaves a timer thread.    *)
(*                                                                         *)
(* On Windows every change of the board moves a sequence number, OURS      *)
(* remembers the number of the last copy, and a clear is a check, an open, *)
(* an empty and a store, with the rest of the machine in between.  On Unix *)
(* there is no number, and a timer replaces the selection once.  Sequence  *)
(* numbers count openings that changed something, from 1.                  *)
(***************************************************************************)
EXTENDS Naturals

CONSTANTS
    Copies,             \* copies of a secret, each with a timer of its own
    Platforms,          \* the platforms a behaviour may run on
    Attempts,           \* CLEAR_ATTEMPTS
    MaxUserCopies,      \* bound: copies the user makes
    MaxBusy             \* bound: times another process holds the board open

ASSUME ClipboardAssumption ==
    /\ Platforms \subseteq {"windows", "unix"} /\ Attempts \in Nat \ {0}
    /\ MaxUserCopies \in Nat /\ MaxBusy \in Nat /\ Copies \cap {"nothing", "user"} = {}

VARIABLES
    platform,           \* the platform this agent runs on
    board,              \* what the clipboard holds: a copy, "user", "nothing"
    seq,                \* GetClipboardSequenceNumber
    OURS,               \* the number claimed last, 0 for none
    copy,               \* copy -> where copy_secret is
    timer,              \* copy -> its clearing thread
    userCopies, busy,   \* how often each happened
    exposed,            \* history: the user's content was copied inside a window
    orphaned            \* history: copies whose claim another clear wiped

clipboardVars == <<platform, board, seq, OURS, copy, timer, userCopies, busy, exposed, orphaned>>

NoTimer == [pc |-> "none", ours |-> 0, loaded |-> 0, tries |-> 0]

ClipboardInit ==
    /\ platform \in Platforms
    /\ board = "nothing" /\ seq = 1 /\ OURS = 0
    /\ copy = [c \in Copies |-> "new"]
    /\ timer = [c \in Copies |-> NoTimer]
    /\ userCopies = 0 /\ busy = 0 /\ exposed = FALSE /\ orphaned = {}

-----------------------------------------------------------------------------
Changed(content) == board' = content /\ seq' = seq + 1

(* open() gave up, or the helper could not be run. *)
Busy == busy < MaxBusy /\ busy' = busy + 1

(* set_text: the entry with its markers is live, or the board could not be *)
(* opened, or it was emptied and then refused the text.                    *)
SetText(c) ==
    /\ copy[c] = "new"
    /\ \/ /\ Changed(c)
          /\ copy' = [copy EXCEPT ![c] = "placed"]
          /\ exposed' = FALSE
          /\ UNCHANGED busy
       \/ /\ Busy
          /\ copy' = [copy EXCEPT ![c] = "failed"]
          /\ UNCHANGED <<board, seq, exposed>>
       \/ /\ platform = "windows" /\ Busy
          /\ Changed("nothing")
          /\ copy' = [copy EXCEPT ![c] = "failed"]
          /\ exposed' = FALSE
    /\ UNCHANGED <<platform, OURS, timer, userCopies, orphaned>>

(* claim() reads the number once the board is closed again, and the timer  *)
(* starts with that number.                                                *)
Claim(c) ==
    LET ours == IF platform = "windows" THEN seq ELSE 0 IN
    /\ copy[c] = "placed"
    /\ OURS' = IF platform = "windows" THEN ours ELSE OURS
    /\ timer' = [timer EXCEPT ![c] = [NoTimer EXCEPT !.pc = "sleeping", !.ours = ours]]
    /\ copy' = [copy EXCEPT ![c] = "copied"]
    /\ UNCHANGED <<platform, board, seq, userCopies, busy, exposed, orphaned>>

-----------------------------------------------------------------------------
TimerGoes(c, pc) == timer' = [timer EXCEPT ![c].pc = pc]

(* The thread wakes, after its time or a retry's: on Windows only the      *)
(* number it was started with lets it go on.                               *)
Wake(c) ==
    /\ timer[c].pc = "sleeping"
    /\ TimerGoes(c, IF platform = "unix" THEN "emptying"
                    ELSE IF seq = timer[c].ours THEN "clearing" ELSE "done")
    /\ UNCHANGED <<platform, board, seq, OURS, copy, userCopies, busy, exposed, orphaned>>

(* Mutant of CheckOurs: the number of the board is not asked for again. *)
CheckOursOnce(c) ==
    /\ timer[c].pc = "clearing"
    /\ timer' = [timer EXCEPT ![c].loaded = OURS, ![c].pc = IF OURS # 0 THEN "emptying" ELSE "done"]
    /\ UNCHANGED <<platform, board, seq, OURS, copy, userCopies, busy, exposed, orphaned>>

(* clear() asks again, of OURS. *)
CheckOurs(c) ==
    /\ timer[c].pc = "clearing"
    /\ timer' = [timer EXCEPT ![c].loaded = OURS,
                              ![c].pc = IF OURS # 0 /\ OURS = seq THEN "emptying" ELSE "done"]
    /\ UNCHANGED <<platform, board, seq, OURS, copy, userCopies, busy, exposed, orphaned>>

(* Mutant of FailClear: a failed clear is not tried again. *)
FailClearForGood(c) ==
    /\ timer[c].pc = "emptying" /\ Busy
    /\ timer' = [timer EXCEPT ![c].tries = @ + 1, ![c].pc = "done"]
    /\ UNCHANGED <<platform, board, seq, OURS, copy, userCopies, exposed, orphaned>>

(* The board stays closed: Windows sleeps and tries again, Unix does not. *)
FailClear(c) ==
    /\ timer[c].pc = "emptying" /\ Busy
    /\ timer' = [timer EXCEPT ![c].tries = @ + 1,
                   ![c].pc = IF platform = "windows" /\ timer[c].tries + 1 < Attempts
                             THEN "sleeping" ELSE "done"]
    /\ UNCHANGED <<platform, board, seq, OURS, copy, userCopies, exposed, orphaned>>

Empty(c) ==
    /\ timer[c].pc = "emptying"
    /\ Changed("nothing")
    /\ TimerGoes(c, IF platform = "windows" THEN "emptied" ELSE "done")
    /\ exposed' = FALSE
    /\ UNCHANGED <<platform, OURS, copy, userCopies, busy, orphaned>>

(* OURS is stored after the board is closed, whatever it has become. *)
Reset(c) ==
    /\ timer[c].pc = "emptied"
    /\ OURS' = 0
    /\ orphaned' = orphaned \cup
         {d \in Copies : OURS # timer[c].loaded /\ timer[d].pc # "none" /\ timer[d].ours = OURS}
    /\ TimerGoes(c, "done")
    /\ UNCHANGED <<platform, board, seq, copy, userCopies, busy, exposed>>

(* The user copies something.  It is exposed inside two windows: between   *)
(* set_text and claim, and between a clear's checks and its empty.         *)
UserCopies ==
    /\ userCopies < MaxUserCopies
    /\ Changed("user")
    /\ userCopies' = userCopies + 1
    /\ exposed' = \/ \E c \in Copies : copy[c] = "placed"
                  \/ \E c \in Copies : timer[c].pc = "emptying"
    /\ UNCHANGED <<platform, OURS, copy, timer, busy, orphaned>>

ClipboardNext ==
    \/ \E c \in Copies :
          \/ SetText(c) \/ Claim(c)
          \/ Wake(c) \/ CheckOurs(c) \/ FailClear(c) \/ Empty(c) \/ Reset(c)
    \/ UserCopies

(* Threads run; nobody has to copy anything. *)
ClipboardFairness ==
    \A c \in Copies :
        WF_clipboardVars(Claim(c) \/ Wake(c) \/ CheckOurs(c) \/ FailClear(c) \/ Empty(c) \/ Reset(c))

-----------------------------------------------------------------------------
(* "the removal only fires if the clipboard still holds our entry": on     *)
(* Windows a clear destroys something the user copied only when the user   *)
(* copied it inside one of the two windows the code leaves open.           *)
DestroysOnlyWhatRaced ==
    [][platform = "windows" /\ board = "user" /\ board' = "nothing"
          /\ (\E c \in Copies : timer[c].pc = "emptying" /\ timer'[c].pc # "emptying")
       => exposed]_clipboardVars

(* "the entry is removed on a timer rather than left until something else  *)
(* replaces it": a secret leaves the clipboard, whatever the interleaving  *)
(* of copies, clears and the user, unless every attempt met a board held   *)
(* open, or another clear finishing late wiped the claim.                  *)
SecretLeaves ==
    \A c \in Copies :
        board = c ~> \/ board # c \/ c \in orphaned
                     \/ timer[c].tries = (IF platform = "windows" THEN Attempts ELSE 1)
=============================================================================
