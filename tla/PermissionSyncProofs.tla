------------------------ MODULE PermissionSyncProofs ------------------------
(***************************************************************************)
(* Machine-checked theorems about PermissionSync, for every number of      *)
(* credentials, services, revisions and edits: the desktop never enforces  *)
(* a set nobody chose or one that was revoked, unless the phone adopted it *)
(* again while revoking, and a completed sync leaves both ends agreeing.   *)
(***************************************************************************)
EXTENDS PermissionSync, TLAPS

(***************************************************************************)
(* The inductive invariant.                                                *)
(***************************************************************************)

(* What is on the wire, at each stage of a sync. *)
Calls ==
    {NoCall}
      \cup [stage : {"asked"}, credential : Credentials, offered : PermissionSet]
      \cup [stage : {"answered"}, credential : Credentials, offered : PermissionSet,
            answer : PermissionSet, clean : BOOLEAN]

(* Credentials of which nothing is claimed: the phone adopted their set    *)
(* again while it revoked the computer.  Until the record is gone the      *)
(* revocation may still fail, and then nothing may be left out.            *)
Excepted == IF revoking = "forgotten" THEN {} ELSE readopted

(* Both stores hold only whole sets that stand for that credential; what   *)
(* the phone keeps for a credential the desktop does not know counts when  *)
(* it pairs.                                                               *)
OnlyGranted ==
    /\ granted \in [Credentials -> SUBSET SUBSET Services]
    /\ \A c \in Credentials :
         /\ {} \in granted[c]
         /\ c \in Excepted \/ desk[c].permissions \in granted[c]
         /\ c \in paired => c \in Excepted \/ phone[c].permissions \in granted[c]

(* A revoked credential has nothing on the phone but what came back during *)
(* the revocation, and no session.                                         *)
RevokedIsEmpty ==
    /\ \A c \in revoked : phone[c] = Never \/ c \in readopted
    /\ revoking = "no" => revoked \cap record = {}
    /\ revoking = "removed" => record = {}

(* The service mutex keeps the desktop's set as it was offered, and until  *)
(* the phone's set is edited the reply says what the phone holds.          *)
CallIsConsistent ==
    /\ call \in Calls
    /\ call # NoCall => call.offered = desk[call.credential] /\ call.credential \in paired
    /\ call.stage = "answered" =>
         /\ call.answer.revision >= call.offered.revision
         /\ call.credential \in Excepted \/ call.answer.permissions \in granted[call.credential]
         /\ call.clean => phone[call.credential] = call.answer
         /\ call.credential \in settled => call.clean

SyncInv == TypeOK /\ OnlyGranted /\ RevokedIsEmpty /\ CallIsConsistent /\ BothEndAgreeing

(***************************************************************************)
(* Lemmas about the rule and the records.                                  *)
(***************************************************************************)

LEMMA SetsAreRecords ==
    ASSUME NEW p \in PermissionSet
    PROVE  /\ p.revision \in 0 .. MAX_REVISION /\ p.permissions \in SUBSET Services
           /\ p.revision \in Int
  BY RevisionAssumption DEF PermissionSet

LEMMA MadeSets ==
    ASSUME NEW r \in 0 .. MAX_REVISION, NEW perms \in SUBSET Services
    PROVE  [revision |-> r, permissions |-> perms] \in PermissionSet
  BY DEF PermissionSet

LEMMA NeverIsASet == Never \in PermissionSet
  BY RevisionAssumption DEF Never, PermissionSet

LEMMA NeverGrantsNothing == Never.permissions = {}
  BY DEF Never

(* What a phone answers is its own set or the one it was offered, is never *)
(* older than what it was offered, and is that one if the two were equal.  *)
LEMMA AnswerIsNoOlder ==
    ASSUME NEW mine \in PermissionSet, NEW theirs \in PermissionSet
    PROVE  /\ Settled(mine, theirs) \in {mine, theirs}
           /\ Settled(mine, theirs).revision >= theirs.revision
  BY SetsAreRecords DEF reconcile, Settled

(***************************************************************************)
(* Each step preserves the invariant.                                      *)
(***************************************************************************)

LEMMA SyncInitInv == Init => SyncInv
  <1>. SUFFICES ASSUME Init PROVE SyncInv
    OBVIOUS
  <1>1. desk \in [Credentials -> PermissionSet] /\ phone \in [Credentials -> PermissionSet]
    BY NeverIsASet DEF Init
  <1>2. TypeOK
    <2>1. screen \in [{} -> PermissionSet]
      BY DEF Init, Shut
    <2>. QED
      BY <1>1, <2>1 DEF Init, TypeOK, NoCall
  <1>3. OnlyGranted
    BY <1>1, SetsAreRecords DEF Init, OnlyGranted, Never
  <1>4. CallIsConsistent /\ BothEndAgreeing /\ RevokedIsEmpty
    BY DEF Init, CallIsConsistent, BothEndAgreeing, RevokedIsEmpty, Calls, NoCall
  <1>. QED
    BY <1>2, <1>3, <1>4 DEF SyncInv

(* The desktop's edits: nobody is syncing, so no call can be out of step.  *)
LEMMA DeskEdits ==
    ASSUME SyncInv, NEW c \in Credentials,
           \/ \E perms \in SUBSET Services : SetPermissions(c, perms)
           \/ Forget
           \/ Pair(c)
    PROVE  SyncInv'
  <1>1. /\ call = NoCall /\ call' = NoCall
        /\ UNCHANGED <<phone, saving, screen, revoking, readopted>>
        /\ paired' \subseteq Credentials /\ record' \subseteq Credentials
        /\ revoked' \subseteq revoked /\ settled' \subseteq settled
    BY DEF SyncInv, TypeOK, SetPermissions, Forget, Pair, Free
  <1>2. desk' \in [Credentials -> PermissionSet]
    <2>1. ASSUME NEW perms \in SUBSET Services, SetPermissions(c, perms)
          PROVE  [revision |-> climb(desk[c].revision), permissions |-> perms] \in PermissionSet
      <3>1. climb(desk[c].revision) \in 0 .. MAX_REVISION
        <4>1. desk[c].revision \in 0 .. MAX_REVISION
          BY SetsAreRecords DEF SyncInv, TypeOK
        <4>. QED
          BY <4>1, RevisionAssumption DEF climb
      <3>. QED
        BY <3>1, MadeSets
    <2>. QED
      BY <2>1, NeverIsASet DEF SyncInv, TypeOK, SetPermissions, Forget, Pair
  <1>a. Excepted' = Excepted
    BY <1>1 DEF Excepted
  <1>b. \A d \in Credentials : /\ OnPhone(d) \in SUBSET SUBSET Services /\ {} \in OnPhone(d)
                               /\ d \notin revoked => phone[d].permissions \in OnPhone(d)
    BY SetsAreRecords DEF OnPhone, SyncInv, TypeOK
  <1>3. OnlyGranted'
    <2>1. ASSUME NEW perms \in SUBSET Services, SetPermissions(c, perms)
          PROVE  OnlyGranted'
      <3>1. /\ granted' = [granted EXCEPT ![c] = @ \cup {perms}]
            /\ desk'[c].permissions = perms /\ \A d \in Credentials : d # c => desk'[d] = desk[d]
            /\ paired' = paired
        BY <2>1 DEF SetPermissions, SyncInv, TypeOK
      <3>2. granted' \in [Credentials -> SUBSET SUBSET Services]
        BY <3>1 DEF SyncInv, OnlyGranted
      <3>3. \A d \in Credentials : granted[d] \subseteq granted'[d]
        BY <3>1 DEF SyncInv, OnlyGranted
      <3>4. perms \in granted'[c]
        BY <3>1 DEF SyncInv, OnlyGranted
      <3>. QED
        BY <1>1, <1>a, <3>1, <3>2, <3>3, <3>4 DEF SyncInv, OnlyGranted
    <2>2. CASE Forget
      <3>1. /\ granted' = [d \in Credentials |-> OnPhone(d)] /\ paired' = {}
            /\ \A d \in Credentials : desk'[d].permissions = {}
        BY <2>2 DEF Forget, Never
      <3>. QED
        BY <1>b, <3>1 DEF OnlyGranted
    <2>3. CASE Pair(c)
      <3>1. /\ granted' = [granted EXCEPT ![c] = OnPhone(c)] /\ paired' = paired \cup {c}
            /\ desk'[c].permissions = {} /\ \A d \in Credentials : d # c => desk'[d] = desk[d]
            /\ revoking = "no"
        BY <2>3 DEF Pair, Never, SyncInv, TypeOK
      <3>2. granted' \in [Credentials -> SUBSET SUBSET Services]
            /\ granted'[c] = OnPhone(c) /\ \A d \in Credentials : d # c => granted'[d] = granted[d]
        BY <1>b, <3>1 DEF SyncInv, OnlyGranted
      <3>3. c \in Excepted \/ phone[c].permissions \in OnPhone(c)
        <4>1. CASE c \notin revoked
          BY <4>1, <1>b
        <4>2. CASE c \in revoked
          <5>1. phone[c] = Never \/ c \in Excepted
            BY <3>1, <4>2 DEF SyncInv, RevokedIsEmpty, Excepted
          <5>. QED
            BY <1>b, <5>1, NeverGrantsNothing
        <4>. QED
          BY <4>1, <4>2
      <3>. QED
        BY <1>1, <1>a, <1>b, <3>1, <3>2, <3>3 DEF SyncInv, OnlyGranted
    <2>. QED
      BY <2>1, <2>2, <2>3
  <1>4. BothEndAgreeing'
    <2>1. ASSUME NEW d \in settled' PROVE desk'[d] = desk[d]
      BY <1>1, <2>1 DEF SetPermissions, Forget, Pair, SyncInv, TypeOK
    <2>. QED
      BY <1>1, <2>1 DEF SyncInv, BothEndAgreeing
  <1>5. RevokedIsEmpty'
    BY <1>1 DEF SyncInv, RevokedIsEmpty, SetPermissions, Forget, Pair
  <1>. QED
    BY <1>1, <1>2, <1>3, <1>4, <1>5 DEF SyncInv, TypeOK, CallIsConsistent, NoCall, Calls

LEMMA SyncStarts ==
    ASSUME SyncInv, NEW c \in Credentials, StartSync(c)
    PROVE  SyncInv'
  <1>1. PICK k : k = [stage |-> "asked", credential |-> c, offered |-> desk[c]]
    OBVIOUS
  <1>2. /\ call' = k /\ k.stage = "asked" /\ k.credential = c /\ k.offered = desk[c]
        /\ k \in Calls /\ c \in paired
    BY <1>1 DEF StartSync, SyncInv, TypeOK, Calls
  <1>3. UNCHANGED <<desk, paired, phone, record, revoking, screen, saving, granted, revoked,
                    readopted, settled>>
    BY DEF StartSync, history
  <1>. QED
    BY <1>2, <1>3 DEF SyncInv, TypeOK, OnlyGranted, Excepted, RevokedIsEmpty, CallIsConsistent,
                      BothEndAgreeing

LEMMA AnsweredCall ==
    ASSUME NEW k \in Calls, k.stage = "answered"
    PROVE  /\ k.credential \in Credentials /\ k.offered \in PermissionSet
           /\ k.answer \in PermissionSet /\ k.clean \in BOOLEAN /\ k # NoCall
  BY DEF Calls, NoCall

LEMMA AskedCall ==
    ASSUME NEW k \in Calls, k.stage = "asked"
    PROVE  k.credential \in Credentials /\ k.offered \in PermissionSet /\ k # NoCall
  BY DEF Calls, NoCall

LEMMA SyncFinishes ==
    ASSUME SyncInv, FinishSync
    PROVE  SyncInv'
  <1>. DEFINE c == call.credential
  <1>1. /\ call.stage = "answered" /\ call # NoCall /\ c \in Credentials
        /\ call.offered \in PermissionSet /\ call.answer \in PermissionSet
    BY AnsweredCall DEF FinishSync, SyncInv, CallIsConsistent
  <1>2. Adopted(call.offered, call.answer) = call.answer
    <2>1. call.answer.revision >= call.offered.revision
      BY <1>1 DEF SyncInv, CallIsConsistent
    <2>. QED
      BY <1>1, <2>1, SetsAreRecords DEF Adopted
  <1>3. /\ desk' = [desk EXCEPT ![c] = call.answer]
        /\ settled' = IF call.clean THEN settled \cup {c} ELSE settled
        /\ call' = NoCall
        /\ UNCHANGED <<paired, phone, record, revoking, screen, saving, granted, revoked, readopted>>
    BY <1>2 DEF FinishSync, history
  <1>4. TypeOK'
    BY <1>1, <1>3 DEF SyncInv, TypeOK, NoCall
  <1>5. OnlyGranted'
    BY <1>1, <1>3 DEF SyncInv, TypeOK, OnlyGranted, Excepted, CallIsConsistent
  <1>6. BothEndAgreeing'
    <2>. SUFFICES ASSUME NEW d \in settled' PROVE desk'[d] = phone[d]
      BY <1>3 DEF BothEndAgreeing
    <2>1. CASE d = c
      BY <1>1, <1>3, <2>1 DEF SyncInv, TypeOK, CallIsConsistent
    <2>2. CASE d # c
      BY <1>3, <2>2 DEF SyncInv, TypeOK, BothEndAgreeing
    <2>. QED
      BY <2>1, <2>2
  <1>7. RevokedIsEmpty'
    BY <1>3 DEF SyncInv, RevokedIsEmpty
  <1>. QED
    BY <1>3, <1>4, <1>5, <1>6, <1>7 DEF SyncInv, CallIsConsistent, Calls, NoCall

(* A reply that is lost leaves each side with what it had. *)
LEMMA SyncIsLost ==
    ASSUME SyncInv, LoseSync
    PROVE  SyncInv'
  BY DEF LoseSync, SyncInv, TypeOK, OnlyGranted, Excepted, RevokedIsEmpty, CallIsConsistent,
         BothEndAgreeing, Calls, NoCall, history

LEMMA PhoneKeepsItsAnswer ==
    ASSUME SyncInv, PhoneAnswers
    PROVE  SyncInv'
  <1>. DEFINE c == call.credential
              a == Settled(phone[c], call.offered)
  <1>1. /\ call.stage = "asked" /\ call # NoCall /\ c \in Credentials /\ c \in paired
        /\ call.offered \in PermissionSet /\ call.offered = desk[c]
        /\ c \in Serving
    BY AskedCall DEF PhoneAnswers, SyncInv, CallIsConsistent
  <1>2. phone[c] \in PermissionSet
    BY <1>1 DEF SyncInv, TypeOK
  <1>3. PICK k : k = [stage |-> "answered", credential |-> c, offered |-> call.offered,
                      answer |-> a, clean |-> TRUE]
    OBVIOUS
  <1>4. /\ phone' = [phone EXCEPT ![c] = a] /\ call' = k
        /\ readopted' = IF revoking # "no" /\ a # phone[c] THEN readopted \cup {c} ELSE readopted
        /\ UNCHANGED <<desk, paired, record, revoking, screen, saving, granted, revoked, settled>>
    BY <1>3 DEF PhoneAnswers
  <1>5. a \in {phone[c], call.offered} /\ a.revision >= call.offered.revision /\ a \in PermissionSet
    BY <1>1, <1>2, AnswerIsNoOlder
  <1>a. c \in Excepted' \/ a.permissions \in granted[c]
    <2>1. c \in Excepted \/ a.permissions \in granted[c]
      BY <1>1, <1>5 DEF SyncInv, OnlyGranted
    <2>. QED
      BY <1>4, <2>1 DEF Excepted
  <1>b. Excepted \subseteq Excepted'
    BY <1>4 DEF Excepted
  <1>6. TypeOK'
    BY <1>1, <1>3, <1>4, <1>5 DEF SyncInv, TypeOK
  <1>7. OnlyGranted'
    <2>1. phone'[c] = a /\ \A d \in Credentials : d # c => phone'[d] = phone[d]
      BY <1>1, <1>4 DEF SyncInv, TypeOK
    <2>. QED
      BY <1>1, <1>4, <1>a, <1>b, <2>1 DEF SyncInv, OnlyGranted
  <1>c. RevokedIsEmpty'
    <2>1. ASSUME NEW d \in revoked PROVE phone'[d] = Never \/ d \in readopted'
      <3>1. CASE d # c
        BY <1>1, <1>4, <3>1 DEF SyncInv, TypeOK, RevokedIsEmpty
      <3>2. CASE d = c
        <4>1. revoking # "no"
          BY <1>1, <2>1, <3>2 DEF SyncInv, RevokedIsEmpty, Serving
        <4>2. phone'[c] = a
          BY <1>1, <1>4 DEF SyncInv, TypeOK
        <4>. QED
          BY <1>4, <2>1, <3>2, <4>1, <4>2 DEF SyncInv, RevokedIsEmpty
      <3>. QED
        BY <3>1, <3>2
    <2>. QED
      BY <1>4, <2>1 DEF SyncInv, RevokedIsEmpty
  <1>8. CallIsConsistent'
    <2>1. k \in Calls /\ k.clean /\ k.stage = "answered" /\ k.credential = c
          /\ k.offered = call.offered /\ k.answer = a
      BY <1>1, <1>3, <1>5 DEF Calls
    <2>2. phone'[c] = a
      BY <1>1, <1>4 DEF SyncInv, TypeOK
    <2>. QED
      BY <1>1, <1>4, <1>5, <1>a, <2>1, <2>2 DEF CallIsConsistent
  <1>9. BothEndAgreeing'
    <2>1. ASSUME NEW d \in settled PROVE phone'[d] = phone[d]
      BY <1>1, <1>4, <1>5 DEF SyncInv, TypeOK, BothEndAgreeing
    <2>. QED
      BY <1>4, <2>1 DEF SyncInv, BothEndAgreeing
  <1>. QED
    BY <1>6, <1>7, <1>8, <1>9, <1>c DEF SyncInv

(* A reply that an edit has overtaken only loses its claim to be current.  *)
LEMMA OvertakenCall ==
    ASSUME NEW k \in Calls, call = k, NEW cs \in SUBSET Credentials
    PROVE  /\ Overtaken(cs) \in Calls /\ Overtaken(cs).stage = k.stage
           /\ k = NoCall <=> Overtaken(cs) = NoCall
           /\ k # NoCall => /\ Overtaken(cs).credential = k.credential
                            /\ Overtaken(cs).offered = k.offered
           /\ k.stage = "answered" =>
                /\ Overtaken(cs).answer = k.answer
                /\ Overtaken(cs).clean <=> k.clean /\ k.credential \notin cs
  <1>1. CASE k.stage = "answered"
    <2>1. PICK s, c, o, a, b : k = [stage |-> s, credential |-> c, offered |-> o,
                                    answer |-> a, clean |-> b]
            /\ s = "answered" /\ c \in Credentials /\ o \in PermissionSet
            /\ a \in PermissionSet /\ b \in BOOLEAN
      BY <1>1 DEF Calls, NoCall
    <2>2. CASE c \in cs
      <3>1. Overtaken(cs) = [stage |-> s, credential |-> c, offered |-> o,
                             answer |-> a, clean |-> FALSE]
        BY <1>1, <2>1, <2>2 DEF Overtaken
      <3>. QED
        BY <2>1, <2>2, <3>1 DEF Calls, NoCall
    <2>3. CASE c \notin cs
      <3>1. Overtaken(cs) = k
        BY <1>1, <2>1, <2>3 DEF Overtaken
      <3>. QED
        BY <2>1, <2>3, <3>1 DEF Calls, NoCall
    <2>. QED
      BY <2>2, <2>3
  <1>2. CASE k.stage # "answered"
    BY <1>2 DEF Overtaken
  <1>. QED
    BY <1>1, <1>2

(* The phone's edits: a set somebody made there, or none; what the desktop *)
(* has, and what is on its way to it, still stands.                        *)
LEMMA PhoneEdits ==
    ASSUME SyncInv, NEW cs \in SUBSET Credentials, call' = Overtaken(cs),
           phone' \in [Credentials -> PermissionSet],
           granted' \in [Credentials -> SUBSET SUBSET Services],
           \A c \in Credentials :
             /\ {} \in granted'[c]
             /\ c \in Excepted' \/ desk[c].permissions \in granted'[c]
             /\ c \in paired => c \in Excepted' \/ phone'[c].permissions \in granted'[c]
             /\ call.stage = "answered" /\ call.credential = c =>
                  c \in Excepted' \/ call.answer.permissions \in granted'[c]
             /\ c \notin cs => phone'[c] = phone[c],
           settled' = settled \ cs, UNCHANGED <<desk, paired>>
    PROVE  OnlyGranted' /\ CallIsConsistent' /\ BothEndAgreeing'
  <1>1. OnlyGranted'
    BY DEF SyncInv, OnlyGranted
  <1>2. BothEndAgreeing'
    BY DEF SyncInv, BothEndAgreeing, TypeOK
  <1>3. CallIsConsistent'
    <2>1. call \in Calls
      BY DEF SyncInv, CallIsConsistent
    <2>2. /\ call' \in Calls /\ call'.stage = call.stage
          /\ call = NoCall <=> call' = NoCall
          /\ call # NoCall => call'.credential = call.credential
                              /\ call'.offered = call.offered
          /\ call.stage = "answered" =>
               /\ call'.answer = call.answer
               /\ call'.clean <=> call.clean /\ call.credential \notin cs
      BY <2>1, OvertakenCall
    <2>3. ASSUME call.stage = "answered" PROVE call.credential \in Credentials /\ call # NoCall
      BY <2>1, <2>3, AnsweredCall
    <2>. QED
      BY <2>2, <2>3 DEF SyncInv, CallIsConsistent
  <1>. QED
    BY <1>1, <1>2, <1>3

LEMMA ScreenShows ==
    ASSUME TypeOK, NEW c \in DOMAIN screen
    PROVE  c \in Credentials /\ screen[c] \in PermissionSet
  <1>1. PICK cs \in SUBSET Credentials : screen \in [cs -> PermissionSet]
    BY DEF TypeOK
  <1>. QED
    BY <1>1

LEMMA UserToggles ==
    ASSUME SyncInv, NEW c \in Credentials, NEW service \in Services, Toggle(c, service)
    PROVE  SyncInv'
  <1>. DEFINE next == Toggled(screen[c], service)
  <1>1. screen[c] \in PermissionSet /\ c \in DOMAIN screen
    BY ScreenShows DEF Toggle, SyncInv
  <1>2. next \in PermissionSet /\ next.permissions \in SUBSET Services
    <2>1. screen[c].revision + 1 \in 0 .. MAX_REVISION
      BY <1>1, SetsAreRecords, RevisionAssumption DEF Toggle
    <2>2. screen[c].permissions \in SUBSET Services
      BY <1>1, SetsAreRecords
    <2>. QED
      BY <2>1, <2>2 DEF Toggled, PermissionSet
  <1>3. /\ phone' = [phone EXCEPT ![c] = next]
        /\ saving' = saving \cup {<<c, next>>}
        /\ granted' = [granted EXCEPT ![c] = @ \cup {next.permissions}]
        /\ revoked' = revoked \ {c}
        /\ call' = Overtaken({c}) /\ settled' = settled \ {c}
        /\ UNCHANGED <<desk, paired, record, revoking, screen, readopted>>
    BY DEF Toggle
  <1>4. phone' \in [Credentials -> PermissionSet]
    BY <1>2, <1>3 DEF SyncInv, TypeOK
  <1>5. granted' \in [Credentials -> SUBSET SUBSET Services]
    BY <1>2, <1>3 DEF SyncInv, OnlyGranted
  <1>a. Excepted' = Excepted
    BY <1>3 DEF Excepted
  <1>b. /\ \A d \in Credentials : granted[d] \subseteq granted'[d]
        /\ next.permissions \in granted'[c]
        /\ phone'[c] = next /\ \A d \in Credentials : d # c => phone'[d] = phone[d]
    BY <1>3 DEF SyncInv, TypeOK, OnlyGranted
  <1>6. \A d \in Credentials :
             /\ {} \in granted'[d]
             /\ d \in Excepted' \/ desk[d].permissions \in granted'[d]
             /\ d \in paired => d \in Excepted' \/ phone'[d].permissions \in granted'[d]
             /\ call.stage = "answered" /\ call.credential = d =>
                  d \in Excepted' \/ call.answer.permissions \in granted'[d]
             /\ d \notin {c} => phone'[d] = phone[d]
    BY <1>a, <1>b DEF SyncInv, OnlyGranted, CallIsConsistent
  <1>7. OnlyGranted' /\ CallIsConsistent' /\ BothEndAgreeing'
    BY <1>3, <1>4, <1>5, <1>6, PhoneEdits, {c} \in SUBSET Credentials
  <1>8. call'.stage = call.stage
    BY <1>3, OvertakenCall, {c} \in SUBSET Credentials DEF SyncInv, CallIsConsistent
  <1>9. saving' \subseteq Credentials \X PermissionSet
    BY <1>2, <1>3 DEF SyncInv, TypeOK
  <1>10. RevokedIsEmpty'
    BY <1>3, <1>b DEF SyncInv, TypeOK, RevokedIsEmpty
  <1>. QED
    BY <1>3, <1>4, <1>7, <1>8, <1>9, <1>10 DEF SyncInv, TypeOK

(* From here on only what the desktop has, or is about to adopt, stands.   *)
LEMMA PermissionsAreForgotten ==
    ASSUME SyncInv, RevokeForgets
    PROVE  SyncInv'
  <1>1. /\ phone' = [c \in Credentials |-> Never] /\ call' = Overtaken(Credentials)
        /\ settled' = {} /\ revoking' = "forgotten" /\ revoked' = Credentials /\ readopted' = {}
        /\ revoking = "no"
        /\ UNCHANGED <<desk, paired, record, screen, saving>>
    BY DEF RevokeForgets
  <1>2. phone' \in [Credentials -> PermissionSet] /\ \A d \in Credentials : phone'[d] = Never
    BY <1>1, NeverIsASet
  <1>3. ASSUME NEW d \in Credentials
        PROVE  /\ granted'[d] \in SUBSET SUBSET Services
               /\ {} \in granted'[d] /\ desk[d].permissions \in granted'[d]
               /\ call.stage = "answered" /\ call.credential = d =>
                    call.answer.permissions \in granted'[d]
    <2>1. granted'[d] = {{}, desk[d].permissions} \cup
             IF call.stage = "answered" /\ call.credential = d THEN {call.answer.permissions}
             ELSE {}
      BY DEF RevokeForgets
    <2>2. desk[d].permissions \in SUBSET Services
      BY SetsAreRecords DEF SyncInv, TypeOK
    <2>3. call.stage = "answered" => call.answer.permissions \in SUBSET Services
      BY AnsweredCall, SetsAreRecords DEF SyncInv, CallIsConsistent
    <2>. QED
      BY <2>1, <2>2, <2>3
  <1>4. granted' \in [Credentials -> SUBSET SUBSET Services]
    <2>1. granted' = [d \in Credentials |-> granted'[d]]
      BY DEF RevokeForgets
    <2>. QED
      BY <1>3, <2>1
  <1>5. settled' = settled \ Credentials
    BY <1>1 DEF SyncInv, TypeOK
  <1>6. OnlyGranted' /\ CallIsConsistent' /\ BothEndAgreeing'
    <2>1. \A d \in Credentials : phone'[d].permissions \in granted'[d]
      BY <1>2, <1>3, NeverGrantsNothing
    <2>. QED
      BY <1>1, <1>2, <1>3, <1>4, <1>5, <2>1, PhoneEdits
  <1>7. call'.stage = call.stage
    BY <1>1, OvertakenCall DEF SyncInv, CallIsConsistent
  <1>8. RevokedIsEmpty'
    BY <1>1, <1>2 DEF RevokedIsEmpty
  <1>. QED
    BY <1>1, <1>2, <1>6, <1>7, <1>8 DEF SyncInv, TypeOK

(* The rest of a revocation: what was left out is left out only once it    *)
(* can no longer fail.                                                     *)
LEMMA RevocationGoesOn ==
    ASSUME SyncInv, RevokeRemoves \/ RevokeFails \/ StopDevice
    PROVE  SyncInv'
  <1>1. /\ UNCHANGED <<desk, paired, call, phone, screen, saving, granted, settled>>
        /\ record' \subseteq record /\ revoked' \subseteq revoked /\ readopted' \subseteq readopted
        /\ revoking' \in {"no", "removed"}
    BY DEF RevokeRemoves, RevokeFails, StopDevice, history
  <1>2. Excepted \subseteq Excepted'
    BY DEF RevokeRemoves, RevokeFails, StopDevice, Excepted, history
  <1>3. RevokedIsEmpty'
    BY DEF RevokeRemoves, RevokeFails, StopDevice, RevokedIsEmpty, SyncInv, history
  <1>4. OnlyGranted' /\ CallIsConsistent'
    BY <1>1, <1>2, AnsweredCall DEF SyncInv, OnlyGranted, CallIsConsistent
  <1>. QED
    BY <1>1, <1>3, <1>4 DEF SyncInv, TypeOK, BothEndAgreeing

(* Only the screen and the saves it waits for change. *)
LEMMA ScreenMoves ==
    ASSUME SyncInv, OpenScreen \/ CloseScreen \/ (\E x \in saving : Saved(x))
    PROVE  SyncInv'
  <1>1. /\ UNCHANGED <<desk, paired, call, phone, record, revoking, granted, revoked, readopted,
                       settled>>
        /\ saving' \subseteq saving
    BY DEF OpenScreen, CloseScreen, Saved, history
  <1>2. screen' \in UNION {[cs -> PermissionSet] : cs \in SUBSET Credentials}
    <2>1. CASE OpenScreen
      <3>1. screen' \in [record -> PermissionSet]
        BY <2>1 DEF OpenScreen, SyncInv, TypeOK
      <3>. QED
        BY <3>1 DEF SyncInv, TypeOK
    <2>2. CASE CloseScreen
      <3>1. screen' \in [{} -> PermissionSet]
        BY <2>2 DEF CloseScreen, Shut
      <3>. QED
        BY <3>1
    <2>3. ASSUME NEW x \in saving, Saved(x)
          PROVE  screen' \in UNION {[cs -> PermissionSet] : cs \in SUBSET Credentials}
      <3>1. PICK cs \in SUBSET Credentials : screen \in [cs -> PermissionSet]
        BY DEF SyncInv, TypeOK
      <3>2. x[2] \in PermissionSet
        BY DEF SyncInv, TypeOK
      <3>3. screen' \in [cs -> PermissionSet]
        BY <2>3, <3>1, <3>2 DEF Saved
      <3>. QED
        BY <3>3
    <2>. QED
      BY <2>1, <2>2, <2>3
  <1>. QED
    BY <1>1, <1>2 DEF SyncInv, TypeOK, OnlyGranted, Excepted, RevokedIsEmpty, CallIsConsistent,
                      BothEndAgreeing

LEMMA SyncNextInv == SyncInv /\ [Next]_vars => SyncInv'
  <1>. SUFFICES ASSUME SyncInv, [Next]_vars PROVE SyncInv'
    OBVIOUS
  <1>1. ASSUME NEW c \in Credentials,
               Pair(c) \/ Forget \/ \E perms \in SUBSET Services : SetPermissions(c, perms)
        PROVE  SyncInv'
    BY <1>1, DeskEdits
  <1>2. CASE Forget
    <2>1. PICK c \in Credentials : TRUE
      BY <1>2 DEF Forget, SyncInv, TypeOK
    <2>. QED
      BY <1>1, <1>2, <2>1
  <1>3. ASSUME NEW c \in Credentials, StartSync(c) PROVE SyncInv'
    BY <1>3, SyncStarts
  <1>4. CASE FinishSync \/ LoseSync \/ PhoneAnswers
    BY <1>4, SyncFinishes, SyncIsLost, PhoneKeepsItsAnswer
  <1>5. ASSUME NEW c \in Credentials, NEW service \in Services, Toggle(c, service)
        PROVE  SyncInv'
    BY <1>5, UserToggles
  <1>6. CASE \/ RevokeForgets \/ RevokeRemoves \/ RevokeFails \/ StopDevice
             \/ OpenScreen \/ CloseScreen \/ (\E x \in saving : Saved(x))
    BY <1>6, PermissionsAreForgotten, RevocationGoesOn, ScreenMoves
  <1>7. CASE UNCHANGED vars
    BY <1>7 DEF vars, history, SyncInv, TypeOK, OnlyGranted, Excepted, RevokedIsEmpty,
                CallIsConsistent, BothEndAgreeing
  <1>. QED
    BY <1>1, <1>2, <1>3, <1>4, <1>5, <1>6, <1>7 DEF Next

LEMMA SyncInvariant == Spec => []SyncInv
  BY SyncInitInv, SyncNextInv, PTL DEF Spec

(***************************************************************************)
(* The theorems.                                                           *)
(***************************************************************************)

(* Every state of the two stores, the call and the screen is well typed.   *)
THEOREM SyncTypeCorrect == Spec => []TypeOK
  <1>1. SyncInv => TypeOK
    BY DEF SyncInv
  <1>. QED
    BY <1>1, SyncInvariant, PTL

(* What the desktop enforces is always a whole set that stands for that    *)
(* credential, or nothing: the phone holds only such sets too, a sync      *)
(* moves one of the two across whole, and a revocation that completes      *)
(* leaves nothing on the phone to win after the next pairing, unless a     *)
(* sync was served in the middle of it.                                    *)
THEOREM PowersAreGranted == Spec => []NoInventedPowers
  <1>1. SyncInv => NoInventedPowers
    BY DEF SyncInv, OnlyGranted, Excepted, NoInventedPowers
  <1>. QED
    BY <1>1, SyncInvariant, PTL

(* After a completed sync the two sides hold one set until somebody edits  *)
(* that credential: an answer is never older than what was offered, so the *)
(* desktop always adopts it, and an edit that overtakes it is noticed.     *)
THEOREM SyncsEndAgreeing == Spec => []BothEndAgreeing
  <1>1. SyncInv => BothEndAgreeing
    BY DEF SyncInv
  <1>. QED
    BY <1>1, SyncInvariant, PTL
=============================================================================
