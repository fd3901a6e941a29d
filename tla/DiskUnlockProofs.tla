-------------------------- MODULE DiskUnlockProofs --------------------------
(***************************************************************************)
(* Machine-checked theorems about DiskUnlock, for every number of volumes, *)
(* command lines, commands, days, kills and reboots: what an image prints  *)
(* opens the disk, no live key is left in a file, the drill log names the  *)
(* phone's slots, and its check is honest.                                 *)
(***************************************************************************)
EXTENDS DiskUnlock, SequenceTheorems, TLAPS

(***************************************************************************)
(* Types.                                                                  *)
(***************************************************************************)

Ids == UNION {{c.id : c \in s} : s \in Stores}
Wrapper == {Nothing, Torn} \cup [kind : {"wrapper"}, key : Nat, credential : Ids]
KeyFile == {Nothing, Claimed} \cup [kind : {"key"}, key : Nat]

RecordTable ==
    UNION {[vs -> [slot : Nat, key : Nat, day : Int, drilled : Nat]] : vs \in SUBSET Volumes}
LogFile == {Nothing, Torn} \cup [kind : {"log"}, records : RecordTable]

Agent ==
    {Idle} \cup [pc : {"asking", "wrapped", "written"}, volume : Volumes, n : Nat,
                 credential : Ids]

Called == [pc : {"waiting", "dumping"}, volume : Volumes, n : Nat]
Adding == [pc : {"adding"}, volume : Volumes, n : Nat, before : SUBSET Nat]
Added == [pc : {"shredding", "counting", "removing"}, volume : Volumes, n : Nat,
          before : SUBSET Nat, added : BOOLEAN]
Recording == [pc : {"recording"}, volume : Volumes, n : Nat, slot : Nat]
Typing == [pc : {"typing"}, volume : Volumes, seen : LogFile]
Truncating == [pc : {"truncating"}, volume : Volumes, seen : LogFile, records : RecordTable]
Writing == [pc : {"writing"}, records : RecordTable, stale : BOOLEAN]

Shell == {Idle} \cup Called \cup Adding \cup Added \cup Recording \cup Typing
           \cup Truncating \cup Writing

Boot ==
    [pc : {"off"}, key : Nat]
      \cup [pc : {"starting", "accepting", "shaking", "asked"}, file : Wrapper,
            asked : {NoCredential, "c1"}]

FilesOK ==
    /\ store \in Stores
    /\ slots \in [Volumes -> Seq(Nat)]
    /\ keyFile \in KeyFile
    /\ wrapper \in [Volumes -> Wrapper]
    /\ log \in LogFile

RestOK ==
    /\ agent \in Agent /\ boot \in Boot
    /\ cli \in [Shells -> Shell]
    /\ inbox \subseteq [volume : Volumes, n : Nat, asked : {NoCredential, "c1"}]
    /\ clock \in Int /\ calls \in Nat
    /\ typed \in [Volumes -> SUBSET Int]
    /\ logged \subseteq Volumes /\ loose \subseteq Volumes /\ exposed \in BOOLEAN

DiskTypeOK == FilesOK /\ RestOK

(***************************************************************************)
(* The inductive invariant.                                                *)
(***************************************************************************)

HasKey(p) == cli[p].pc \in {"dumping", "adding", "shredding"}

(* The key file belongs to one enrolment at a time: the agent's, or that   *)
(* of the command line it answered, which is then alone.                   *)
KeyFileIsOwned ==
    /\ agent.pc \in {"asking", "wrapped"} => keyFile = Claimed
    /\ agent.pc = "written" => keyFile = Key(agent.n)
    /\ \A p \in Shells : HasKey(p) => keyFile = Key(cli[p].n) /\ agent = Idle
    /\ \A p, q \in Shells : HasKey(p) /\ HasKey(q) => p = q

(* A command's number is its own, and says which volume it is about.       *)
NumbersAreFresh ==
    /\ \A c \in inbox : c.n \in 1 .. calls
    /\ \A c, d \in inbox : c.n = d.n => c = d
    /\ agent # Idle => agent.n \in 1 .. calls /\ \A c \in inbox : c.n # agent.n
    /\ keyFile.kind = "key" =>
         keyFile.key \in 1 .. calls /\ \A c \in inbox : c.n # keyFile.key
    /\ \A p, q \in Shells :
         cli[p].pc = "waiting" /\ cli[q].pc = "waiting" /\ cli[p].n = cli[q].n => p = q
    /\ \A p \in Shells : cli[p].pc = "waiting" =>
         /\ cli[p].n \in 1 .. calls
         /\ agent # Idle /\ agent.n = cli[p].n => agent.volume = cli[p].volume
         /\ \A c \in inbox : c.n = cli[p].n => c.volume = cli[p].volume

(* A key that is still to be written is in no slot, and the passphrase is  *)
(* in every volume's.                                                      *)
SlotsAreOlder ==
    \A v \in Volumes :
        /\ Passphrase \in Range(slots[v])
        /\ \A k \in Range(slots[v]) :
             /\ k \in 0 .. calls
             /\ \A c \in inbox : c.n # k
             /\ agent # Idle => agent.n # k

(* A wrapper's key is in a slot, unless its enrolment is under way or was  *)
(* cut short.                                                              *)
WrappersOpen ==
    /\ \A v \in Volumes : wrapper[v].kind = "wrapper" =>
         wrapper[v].key \in Range(slots[v]) \/ Hasty(v)
    /\ \A p \in Shells :
         HasKey(p) /\ wrapper[cli[p].volume].kind = "wrapper" =>
             wrapper[cli[p].volume].key = cli[p].n

BootFileOpens ==
    /\ boot.pc \in {"accepting", "shaking", "asked"} => boot.file.kind = "wrapper"
    /\ boot.pc # "off" /\ boot.file.kind = "wrapper" => boot.file.key \in Range(slots[Root])
    /\ BootOpens

(* The slot that was added is among those that were not there before.      *)
SlotsAreCounted ==
    \A p \in Shells :
        /\ cli[p].pc = "adding" => cli[p].before \subseteq DOMAIN slots[cli[p].volume]
        /\ cli[p].pc = "counting" => cli[p].added
        /\ cli[p].pc \in {"shredding", "counting"} /\ cli[p].added =>
             \E s \in DOMAIN slots[cli[p].volume] \ cli[p].before :
                 slots[cli[p].volume][s] = cli[p].n

GoodSlot(v, s, k) == s # Unnamed => s \in DOMAIN slots[v] /\ slots[v][s] = k

(* A record names the slot of its key, and a day a passphrase was typed.   *)
GoodRecords(records) ==
    \A v \in DOMAIN records :
        GoodSlot(v, records[v].slot, records[v].key) /\ records[v].day \in typed[v]

GoodLog(file) == file.kind = "log" => GoodRecords(file.records)

(* What a command line carries agrees with the slots, and so it will write. *)
GoodShell(x) ==
    /\ x.pc = "recording" => GoodSlot(x.volume, x.slot, x.n)
    /\ x.pc \in {"counting", "recording"} \/ (x.pc = "shredding" /\ x.added) =>
         clock \in typed[x.volume]
    /\ x.pc = "typing" => GoodLog(x.seen)
    /\ x.pc \in {"truncating", "writing"} => GoodRecords(x.records)

RecordsAreGood == GoodLog(log) /\ \A p \in Shells : GoodShell(cli[p])

(* A log covers every volume that is not lost, and so does what a process  *)
(* is about to write over a log that nobody changed since it was read.     *)
LogCovers(file) ==
    /\ file.kind = "nothing" => logged = {}
    /\ file.kind = "log" => logged \ lost \subseteq DOMAIN file.records

LogsCover ==
    /\ LogCovers(log)
    /\ \A p \in Shells :
         /\ cli[p].pc = "truncating" =>
              /\ cli[p].seen.kind # "torn"
              /\ cli[p].seen.kind = "log" => DOMAIN cli[p].seen.records \subseteq DOMAIN cli[p].records
         /\ cli[p].pc = "writing" /\ ~cli[p].stale => logged \ lost \subseteq DOMAIN cli[p].records

DiskInv ==
    /\ DiskTypeOK
    /\ KeyFileIsOwned /\ NumbersAreFresh /\ SlotsAreOlder
    /\ NoLiveKeyLeftBehind
    /\ WrappersOpen /\ BootFileOpens
    /\ SlotsAreCounted /\ RecordsAreGood /\ LogsCover

(***************************************************************************)
(* Lemmas about the operators.                                             *)
(***************************************************************************)

(* What a shell that is somewhere carries. *)
LEMMA ShellKinds ==
    ASSUME NEW x \in Shell
    PROVE  /\ x.pc \in {"waiting", "dumping"} => x \in Called
           /\ x.pc = "adding" => x \in Adding
           /\ x.pc \in {"shredding", "counting", "removing"} => x \in Added
           /\ x.pc = "recording" => x \in Recording
           /\ x.pc = "typing" => x \in Typing
           /\ x.pc = "truncating" => x \in Truncating
           /\ x.pc = "writing" => x \in Writing
           /\ x.pc = "idle" => x = Idle
  BY DEF Shell, Called, Adding, Added, Recording, Typing, Truncating, Writing, Idle

LEMMA NoRecordsType == NoRecords \in RecordTable
  <1>1. NoRecords \in [{} -> [slot : Nat, key : Nat, day : Int, drilled : Nat]]
    BY DEF NoRecords
  <1>. QED
    BY <1>1 DEF RecordTable

LEMMA TableFields ==
    ASSUME NEW records \in RecordTable
    PROVE  /\ DOMAIN records \subseteq Volumes
           /\ \A v \in DOMAIN records :
                records[v] \in [slot : Nat, key : Nat, day : Int, drilled : Nat]
  BY DEF RecordTable

LEMMA InsertedType ==
    ASSUME NEW records \in RecordTable, NEW v \in Volumes,
           NEW slot \in Nat, NEW key \in Nat, NEW day \in Int, NEW drilled \in Nat,
           NEW new, new = Inserted(records, v, DrillRecord(slot, key, day, drilled))
    PROVE  new \in RecordTable
  <1>. DEFINE r == DrillRecord(slot, key, day, drilled)
  <1>1. PICK vs \in SUBSET Volumes :
          records \in [vs -> [slot : Nat, key : Nat, day : Int, drilled : Nat]]
    BY DEF RecordTable
  <1>2. r \in [slot : Nat, key : Nat, day : Int, drilled : Nat]
    BY DEF DrillRecord
  <1>3. new \in [vs \cup {v} -> [slot : Nat, key : Nat, day : Int, drilled : Nat]]
    BY <1>1, <1>2 DEF Inserted
  <1>. QED
    BY <1>1, <1>3 DEF RecordTable

LEMMA ReadRecords ==
    ASSUME NEW file \in LogFile, NEW records \in Records(file)
    PROVE  /\ records \in RecordTable
           /\ \/ file.kind = "nothing" /\ records = NoRecords
              \/ file.kind = "log" /\ records = file.records
  BY NoRecordsType DEF Records, LogFile, Nothing, Torn

(* What the agent sends to the command line that waits. *)
LEMMA RepliedShells ==
    ASSUME DiskTypeOK, NEW n, NEW pc \in {"idle", "dumping"}
    PROVE  /\ Replied(n, pc) \in [Shells -> Shell]
           /\ \A p \in Shells :
                IF cli[p].pc = "waiting" /\ cli[p].n = n
                THEN /\ Replied(n, pc)[p].pc = pc
                     /\ pc = "dumping" => /\ Replied(n, pc)[p].n = cli[p].n
                                          /\ Replied(n, pc)[p].volume = cli[p].volume
                     /\ pc = "idle" => Replied(n, pc)[p] = Idle
                ELSE Replied(n, pc)[p] = cli[p]
  <1>1. ASSUME NEW p \in Shells, cli[p].pc = "waiting"
        PROVE  /\ [cli[p] EXCEPT !.pc = "dumping"] \in Called
               /\ [cli[p] EXCEPT !.pc = "dumping"].pc = "dumping"
               /\ [cli[p] EXCEPT !.pc = "dumping"].n = cli[p].n
               /\ [cli[p] EXCEPT !.pc = "dumping"].volume = cli[p].volume
    <2>1. cli[p] \in Called
      BY <1>1, ShellKinds DEF DiskTypeOK, RestOK
    <2>. QED
      BY <2>1 DEF Called
  <1>2. Idle \in Shell /\ Idle.pc = "idle" /\ Called \subseteq Shell
    BY DEF Shell, Idle
  <1>. QED
    BY <1>1, <1>2 DEF Replied, DiskTypeOK, RestOK

LEMMA OvertakenShells ==
    ASSUME DiskTypeOK, NEW p \in Shells, NEW next \in Shell, cli' = Overtaken(p, next)
    PROVE  /\ cli' \in [Shells -> Shell]
           /\ cli'[p] = next
           /\ \A q \in Shells : q # p =>
                /\ cli'[q].pc = cli[q].pc
                /\ cli[q].pc # "writing" => cli'[q] = cli[q]
                /\ cli[q].pc = "writing" =>
                     /\ cli'[q].stale = TRUE
                     /\ cli'[q].records = cli[q].records
  <1>1. ASSUME NEW q \in Shells, cli[q].pc = "writing"
        PROVE  /\ [cli[q] EXCEPT !.stale = TRUE] \in Writing
               /\ [cli[q] EXCEPT !.stale = TRUE].pc = "writing"
               /\ [cli[q] EXCEPT !.stale = TRUE].stale = TRUE
               /\ [cli[q] EXCEPT !.stale = TRUE].records = cli[q].records
    <2>1. cli[q] \in Writing
      BY <1>1, ShellKinds DEF DiskTypeOK, RestOK
    <2>. QED
      BY <2>1 DEF Writing
  <1>2. Writing \subseteq Shell
    BY DEF Shell
  <1>3. \A q \in Shells :
          cli'[q] = IF q = p THEN next
                    ELSE IF cli[q].pc = "writing" THEN [cli[q] EXCEPT !.stale = TRUE]
                    ELSE cli[q]
    BY DEF Overtaken
  <1>4. cli' \in [Shells -> Shell]
    BY <1>1, <1>2 DEF Overtaken, DiskTypeOK, RestOK
  <1>. QED
    BY <1>1, <1>3, <1>4

SlotsGrow ==
    \A v \in Volumes : \A s \in DOMAIN slots[v] :
        s \in DOMAIN slots'[v] /\ slots'[v][s] = slots[v][s]

(* What was good stays good while slots and days are only added, and the   *)
(* clock stands still for who is about to read it.                         *)
LEMMA GoodStaysAsSlotsGrow ==
    ASSUME SlotsGrow, \A v \in Volumes : typed[v] \subseteq typed'[v]
    PROVE  /\ \A records \in RecordTable : GoodRecords(records) => GoodRecords(records)'
           /\ \A file \in LogFile : GoodLog(file) => GoodLog(file)'
           /\ \A x \in Shell :
                /\ GoodShell(x)
                /\ UNCHANGED clock \/ x.pc \notin {"shredding", "counting", "recording"}
                => GoodShell(x)'
  <1>. USE DEF SlotsGrow
  <1>1. ASSUME NEW records \in RecordTable, GoodRecords(records) PROVE GoodRecords(records)'
    BY <1>1, TableFields DEF GoodRecords, GoodSlot
  <1>2. ASSUME NEW file \in LogFile, GoodLog(file) PROVE GoodLog(file)'
    <2>1. file.kind = "log" => file.records \in RecordTable
      BY DEF LogFile, Nothing, Torn
    <2>. QED
      BY <1>1, <1>2, <2>1 DEF GoodLog
  <1>3. ASSUME NEW x \in Shell, GoodShell(x),
               UNCHANGED clock \/ x.pc \notin {"shredding", "counting", "recording"}
        PROVE  GoodShell(x)'
    <2>1. x.pc \in {"counting", "recording", "shredding"} => x.volume \in Volumes
      BY ShellKinds DEF Recording, Added
    <2>2. x.pc = "typing" => x.seen \in LogFile
      BY ShellKinds DEF Typing
    <2>3. x.pc \in {"truncating", "writing"} => x.records \in RecordTable
      BY ShellKinds DEF Truncating, Writing
    <2>4. x.pc = "typing" => GoodLog(x.seen)'
      BY <1>2, <1>3, <2>2 DEF GoodShell
    <2>5. x.pc \in {"truncating", "writing"} => GoodRecords(x.records)'
      BY <1>1, <1>3, <2>3 DEF GoodShell
    <2>. QED
      BY <1>3, <2>1, <2>4, <2>5 DEF GoodShell, GoodSlot
  <1>. QED
    BY <1>1, <1>2, <1>3

LEMMA GoodStays ==
    ASSUME UNCHANGED slots, UNCHANGED clock,
           \A v \in Volumes : typed[v] \subseteq typed'[v]
    PROVE  /\ \A records \in RecordTable : GoodRecords(records) => GoodRecords(records)'
           /\ \A file \in LogFile : GoodLog(file) => GoodLog(file)'
           /\ \A x \in Shell : GoodShell(x) => GoodShell(x)'
  <1>. SlotsGrow
    BY DEF SlotsGrow
  <1>. QED
    BY GoodStaysAsSlotsGrow

(***************************************************************************)
(* The steps of a command line that change none of the files.              *)
(***************************************************************************)

Holding == {"dumping", "adding", "shredding"}

(* Nothing is taken back, and of the rest only one command line moves. *)
OnlyTheShell ==
    /\ UNCHANGED <<files, agent, inbox, boot, clock, logged, lost>>
    /\ calls' \in Nat /\ calls' >= calls
    /\ typed' \in [Volumes -> SUBSET Int] /\ \A v \in Volumes : typed[v] \subseteq typed'[v]
    /\ loose \subseteq loose' /\ loose' \subseteq Volumes
    /\ exposed' \in BOOLEAN /\ (exposed => exposed')

(* It takes no key with it that it has not, and does not leave one, or a   *)
(* wrapper without a slot, that nobody knows of.                           *)
MayBecome(p, x) ==
    /\ x.pc \notin {"waiting", "shredding", "counting", "writing"}
    /\ x.pc \in Holding => HasKey(p) /\ x.n = cli[p].n /\ x.volume = cli[p].volume
    /\ cli[p].pc = "shredding" => exposed'
    /\ Unfinished(p) => \/ cli[p].volume \in loose'
                        \/ /\ x.pc \in {"dumping", "adding", "removing"}
                           /\ x.volume = cli[p].volume
    /\ x.pc = "adding" => x.before \subseteq DOMAIN slots[x.volume]
    /\ x.pc = "truncating" =>
         /\ x.seen.kind # "torn"
         /\ x.seen.kind = "log" => DOMAIN x.seen.records \subseteq DOMAIN x.records

LEMMA ShellMoves ==
    ASSUME DiskInv, NEW p \in Shells, NEW x \in Shell, cli' = [cli EXCEPT ![p] = x],
           OnlyTheShell, MayBecome(p, x), GoodShell(x)'
    PROVE  DiskInv'
  <1>. USE DEF OnlyTheShell, MayBecome
  <1>1. /\ cli' \in [Shells -> Shell] /\ cli'[p] = x
        /\ \A q \in Shells : q # p => cli'[q] = cli[q]
    BY DEF DiskInv, DiskTypeOK, RestOK
  <1>2. UNCHANGED <<store, slots, keyFile, wrapper, log>>
    BY DEF files
  <1>3. DiskTypeOK'
    BY <1>1, <1>2 DEF DiskInv, DiskTypeOK, FilesOK, RestOK
  <1>4. KeyFileIsOwned'
    BY <1>1, <1>2 DEF DiskInv, KeyFileIsOwned, HasKey, Holding
  <1>5. NumbersAreFresh'
    BY <1>1, <1>2 DEF DiskInv, NumbersAreFresh, DiskTypeOK, RestOK
  <1>6. SlotsAreOlder'
    BY <1>1, <1>2 DEF DiskInv, SlotsAreOlder, DiskTypeOK, RestOK
  <1>7. NoLiveKeyLeftBehind'
    BY <1>1, <1>2 DEF DiskInv, NoLiveKeyLeftBehind
  <1>8. WrappersOpen'
    <2>1. ASSUME NEW v \in Volumes, Hasty(v) PROVE Hasty(v)'
      <3>1. CASE v \in loose
        BY <3>1 DEF Hasty
      <3>2. ASSUME NEW q \in Shells, Unfinished(q), cli[q].volume = v PROVE Hasty(v)'
        <4>1. CASE q = p
          BY <1>1, <3>2, <4>1 DEF Hasty, Unfinished
        <4>2. CASE q # p
          BY <1>1, <3>2, <4>2 DEF Hasty, Unfinished
        <4>. QED
          BY <4>1, <4>2
      <3>. QED
        BY <2>1, <3>1, <3>2 DEF Hasty
    <2>2. \A v \in Volumes : wrapper'[v].kind = "wrapper" =>
             wrapper'[v].key \in Range(slots'[v]) \/ Hasty(v)'
      BY <1>2, <2>1 DEF DiskInv, WrappersOpen
    <2>3. ASSUME NEW q \in Shells, HasKey(q)', wrapper'[cli'[q].volume].kind = "wrapper"
          PROVE  wrapper'[cli'[q].volume].key = cli'[q].n
      <3>1. HasKey(q) /\ cli'[q].n = cli[q].n /\ cli'[q].volume = cli[q].volume
        BY <1>1, <2>3 DEF HasKey, Holding
      <3>. QED
        BY <1>2, <2>3, <3>1 DEF DiskInv, WrappersOpen
    <2>. QED
      BY <2>2, <2>3 DEF WrappersOpen
  <1>9. BootFileOpens'
    BY <1>2 DEF DiskInv, BootFileOpens, BootOpens
  <1>10. SlotsAreCounted'
    BY <1>1, <1>2 DEF DiskInv, SlotsAreCounted
  <1>11. RecordsAreGood'
    <2>1. GoodLog(log)'
      BY <1>2, GoodStays DEF DiskInv, DiskTypeOK, FilesOK, RecordsAreGood, GoodLog
    <2>2. ASSUME NEW q \in Shells PROVE GoodShell(cli[q])'
      <3>1. PICK y \in Shell : y = cli'[q] /\ GoodShell(y)'
        BY <1>1, <1>2, GoodStays DEF DiskInv, DiskTypeOK, RestOK, RecordsAreGood
      <3>. QED
        BY <3>1 DEF GoodShell
    <2>. QED
      BY <2>1, <2>2 DEF RecordsAreGood
  <1>12. LogsCover'
    <2>1. LogCovers(log)'
      BY <1>2 DEF DiskInv, LogsCover, LogCovers
    <2>. QED
      BY <1>1, <2>1 DEF DiskInv, LogsCover
  <1>. QED
    BY <1>3, <1>4, <1>5, <1>6, <1>7, <1>8, <1>9, <1>10, <1>11, <1>12 DEF DiskInv

LEMMA GiveUpStep ==
    ASSUME DiskInv, NEW p \in Shells, GiveUp(p)
    PROVE  DiskInv'
  <1>1. Idle \in Shell /\ Idle.pc = "idle"
    BY DEF Shell, Idle
  <1>2. GoodShell(Idle)'
    BY DEF GoodShell, Idle
  <1>3. OnlyTheShell /\ MayBecome(p, Idle) /\ cli' = [cli EXCEPT ![p] = Idle]
    BY <1>1 DEF OnlyTheShell, MayBecome, GiveUp, At, Exits, bounds, history, DiskInv, DiskTypeOK, RestOK,
                Holding, Unfinished
  <1>. QED
    BY <1>1, <1>2, <1>3, ShellMoves

LEMMA DumpBeforeStep ==
    ASSUME DiskInv, NEW p \in Shells, DumpBefore(p)
    PROVE  DiskInv'
  <1>1. cli[p] \in Called
    BY ShellKinds DEF DumpBefore, At, DiskInv, DiskTypeOK, RestOK
  <1>2. PICK before \in Census(cli[p].volume) :
          cli' = [cli EXCEPT ![p] = [pc |-> "adding", volume |-> cli[p].volume, n |-> cli[p].n,
                                     before |-> before]]
    BY DEF DumpBefore, DiskInv, DiskTypeOK, RestOK
  <1>3. before \subseteq DOMAIN slots[cli[p].volume] /\ before \in SUBSET Nat
    BY <1>1, <1>2 DEF Census, Called, DiskInv, DiskTypeOK, FilesOK
  <1>4. PICK x \in Shell :
          x = [pc |-> "adding", volume |-> cli[p].volume, n |-> cli[p].n, before |-> before]
    BY <1>1, <1>3 DEF Shell, Adding, Called
  <1>5. /\ x.pc = "adding" /\ x.n = cli[p].n /\ x.volume = cli[p].volume
        /\ x.before \subseteq DOMAIN slots[x.volume]
    BY <1>3, <1>4
  <1>6. GoodShell(x)'
    BY <1>5 DEF GoodShell
  <1>7. OnlyTheShell
    BY DEF OnlyTheShell, DumpBefore, bounds, history, DiskInv, DiskTypeOK, RestOK
  <1>8. MayBecome(p, x)
    BY <1>5 DEF MayBecome, DumpBefore, At, Holding, Unfinished, HasKey
  <1>9. cli' = [cli EXCEPT ![p] = x]
    BY <1>2, <1>4
  <1>. QED
    BY <1>4, <1>6, <1>7, <1>8, <1>9, ShellMoves

(* Exactly one slot is new, so it is the one that was added. *)
LEMMA PhoneSlotIsTheNewOne ==
    ASSUME NEW before \in SUBSET Nat, NEW after \in SUBSET Nat, NEW s \in after \ before
    PROVE  /\ PhoneSlot(before, after) \in Nat
           /\ PhoneSlot(before, after) # Unnamed => PhoneSlot(before, after) = s
  BY DEF PhoneSlot, Unnamed

LEMMA CountStep ==
    ASSUME DiskInv, NEW p \in Shells, Count(p)
    PROVE  DiskInv'
  <1>1. cli[p] \in Added /\ cli[p].pc = "counting"
    BY ShellKinds DEF Count, At, DiskInv, DiskTypeOK, RestOK
  <1>2. PICK after \in Census(cli[p].volume) :
          cli' = [cli EXCEPT ![p] = [pc |-> "recording", volume |-> cli[p].volume, n |-> cli[p].n,
                                     slot |-> PhoneSlot(cli[p].before, after)]]
    BY DEF Count, DiskInv, DiskTypeOK, RestOK
  <1>3. PICK s \in DOMAIN slots[cli[p].volume] \ cli[p].before :
          slots[cli[p].volume][s] = cli[p].n
    BY <1>1 DEF DiskInv, SlotsAreCounted
  <1>4. cli[p].before \in SUBSET Nat /\ DOMAIN slots[cli[p].volume] \in SUBSET Nat
    BY <1>1 DEF Added, DiskInv, DiskTypeOK, FilesOK
  <1>5. /\ PhoneSlot(cli[p].before, after) \in Nat
        /\ GoodSlot(cli[p].volume, PhoneSlot(cli[p].before, after), cli[p].n)
    <2>1. CASE after = {}
      BY <2>1 DEF PhoneSlot, GoodSlot, Unnamed
    <2>2. CASE after = DOMAIN slots[cli[p].volume]
      BY <1>3, <1>4, <2>2, PhoneSlotIsTheNewOne DEF GoodSlot
    <2>. QED
      BY <1>2, <2>1, <2>2 DEF Census
  <1>6. PICK x \in Shell :
          x = [pc |-> "recording", volume |-> cli[p].volume, n |-> cli[p].n,
               slot |-> PhoneSlot(cli[p].before, after)]
    BY <1>1, <1>5 DEF Shell, Recording, Added
  <1>7. /\ x.pc = "recording" /\ GoodSlot(x.volume, x.slot, x.n)
        /\ x.volume = cli[p].volume
    BY <1>5, <1>6
  <1>8. clock \in typed[cli[p].volume] /\ cli[p].volume \in Volumes
    BY <1>1 DEF DiskInv, RecordsAreGood, GoodShell, Added
  <1>9. UNCHANGED <<slots, clock, typed>>
    BY DEF Count, files, bounds, history
  <1>10. GoodShell(x)'
    BY <1>7, <1>8, <1>9 DEF GoodShell, GoodSlot
  <1>11. OnlyTheShell
    BY DEF OnlyTheShell, Count, bounds, history, DiskInv, DiskTypeOK, RestOK
  <1>12. MayBecome(p, x)
    BY <1>1, <1>7 DEF MayBecome, Holding, Unfinished
  <1>13. cli' = [cli EXCEPT ![p] = x]
    BY <1>2, <1>6
  <1>. QED
    BY <1>6, <1>10, <1>11, <1>12, <1>13, ShellMoves

LEMMA KillStep ==
    ASSUME DiskInv, NEW p \in Shells, Kill(p)
    PROVE  DiskInv'
  <1>1. Idle \in Shell /\ Idle.pc = "idle"
    BY DEF Shell, Idle
  <1>2. GoodShell(Idle)'
    BY DEF GoodShell, Idle
  <1>3. Unfinished(p) => cli[p].volume \in Volumes
    BY ShellKinds DEF Unfinished, Called, Adding, Added, DiskInv, DiskTypeOK, RestOK
  <1>4. loose' \subseteq Volumes /\ loose \subseteq loose'
        /\ (Unfinished(p) => cli[p].volume \in loose')
    BY <1>3 DEF Kill, DiskInv, DiskTypeOK, RestOK
  <1>5. exposed' \in BOOLEAN /\ (exposed => exposed') /\ (cli[p].pc = "shredding" => exposed')
    BY DEF Kill, DiskInv, DiskTypeOK, RestOK
  <1>6. OnlyTheShell /\ MayBecome(p, Idle) /\ cli' = [cli EXCEPT ![p] = Idle]
    BY <1>1, <1>4, <1>5 DEF OnlyTheShell, MayBecome, Kill, Exits, DiskInv, DiskTypeOK, RestOK, Holding
  <1>. QED
    BY <1>1, <1>2, <1>6, ShellMoves

(* A good record put among good ones. *)
LEMMA InsertedIsGood ==
    ASSUME UNCHANGED slots,
           \A w \in Volumes : typed[w] \subseteq typed'[w],
           NEW records \in RecordTable, GoodRecords(records),
           NEW v \in Volumes, NEW slot \in Nat, NEW key \in Nat, NEW day \in Int, NEW drilled \in Nat,
           GoodSlot(v, slot, key), day \in typed'[v],
           NEW new, new = Inserted(records, v, DrillRecord(slot, key, day, drilled))
    PROVE  GoodRecords(new)'
  <1>1. /\ DOMAIN new = DOMAIN records \cup {v}
        /\ new[v] = DrillRecord(slot, key, day, drilled)
        /\ \A w \in DOMAIN records : w # v => new[w] = records[w]
    BY DEF Inserted
  <1>2. new[v].slot = slot /\ new[v].key = key /\ new[v].day = day
    BY <1>1 DEF DrillRecord
  <1>3. DOMAIN records \subseteq Volumes
    BY TableFields
  <1>4. \A w \in DOMAIN new : (w \in DOMAIN records /\ w # v) \/ w = v
    BY <1>1
  <1>5. ASSUME NEW w \in DOMAIN records, w # v
        PROVE  GoodSlot(w, new[w].slot, new[w].key)' /\ new[w].day \in typed'[w]
    BY <1>1, <1>3, <1>5 DEF GoodRecords, GoodSlot
  <1>6. GoodSlot(v, new[v].slot, new[v].key)' /\ new[v].day \in typed'[v]
    BY <1>2 DEF GoodSlot
  <1>. QED
    BY <1>4, <1>5, <1>6 DEF GoodRecords

LEMMA EmptyLogIsGood == GoodRecords(NoRecords) /\ DOMAIN NoRecords = {}
  BY DEF GoodRecords, NoRecords

LEMMA ReadForEnrolmentStep ==
    ASSUME DiskInv, NEW p \in Shells, ReadForEnrolment(p)
    PROVE  DiskInv'
  <1>1. cli[p] \in Recording /\ cli[p].pc = "recording"
    BY ShellKinds DEF ReadForEnrolment, At, DiskInv, DiskTypeOK, RestOK
  <1>2. OnlyTheShell
    BY DEF OnlyTheShell, ReadForEnrolment, bounds, history, DiskInv, DiskTypeOK, RestOK
  <1>3. CASE Exits(p)
    <2>1. Idle \in Shell /\ Idle.pc = "idle"
      BY DEF Shell, Idle
    <2>2. GoodShell(Idle)'
      BY DEF GoodShell, Idle
    <2>3. MayBecome(p, Idle) /\ cli' = [cli EXCEPT ![p] = Idle]
      BY <1>1, <1>3, <2>1 DEF MayBecome, Exits, Holding, Unfinished
    <2>. QED
      BY <1>2, <2>1, <2>2, <2>3, ShellMoves
  <1>4. ASSUME NEW records \in Records(log),
               Writes(p, cli[p].volume, log,
                      Inserted(records, cli[p].volume,
                               DrillRecord(cli[p].slot, cli[p].n, clock, Unnamed)))
        PROVE  DiskInv'
    <2>1. PICK v, slot, key, day : /\ v = cli[p].volume /\ slot = cli[p].slot
                                   /\ key = cli[p].n /\ day = clock
      OBVIOUS
    <2>2. v \in Volumes /\ slot \in Nat /\ key \in Nat /\ day \in Int
      BY <1>1, <2>1 DEF Recording, DiskInv, DiskTypeOK, RestOK
    <2>3. PICK new : new = Inserted(records, v, DrillRecord(slot, key, day, Unnamed))
      OBVIOUS
    <2>4. /\ records \in RecordTable /\ GoodRecords(records)
          /\ log.kind # "torn"
          /\ log.kind = "log" => log.records = records
      BY ReadRecords, EmptyLogIsGood
         DEF DiskInv, DiskTypeOK, FilesOK, RecordsAreGood, GoodLog, Nothing
    <2>5. GoodSlot(v, slot, key) /\ day \in typed'[v]
      BY <1>1, <1>2, <2>1, <2>2 DEF DiskInv, RecordsAreGood, GoodShell, OnlyTheShell
    <2>6. GoodRecords(new)'
      <3>1. Unnamed \in Nat /\ UNCHANGED slots /\ \A w \in Volumes : typed[w] \subseteq typed'[w]
        BY <1>2 DEF OnlyTheShell, Unnamed, files
      <3>. QED
        BY <2>2, <2>3, <2>4, <2>5, <3>1, InsertedIsGood
    <2>7. new \in RecordTable /\ DOMAIN new = DOMAIN records \cup {v}
      <3>1. Unnamed \in Nat
        BY DEF Unnamed
      <3>2. new \in RecordTable
        BY <2>2, <2>3, <2>4, <3>1, InsertedType
      <3>. QED
        BY <2>3, <3>2 DEF Inserted
    <2>8. PICK x \in Shell : x = [pc |-> "truncating", volume |-> v, seen |-> log, records |-> new]
      BY <2>2, <2>7 DEF Shell, Truncating, DiskInv, DiskTypeOK, FilesOK
    <2>9. x.pc = "truncating" /\ x.seen = log /\ x.records = new
      BY <2>8
    <2>10. GoodShell(x)'
      BY <2>6, <2>9 DEF GoodShell
    <2>11. MayBecome(p, x)
      BY <1>1, <2>4, <2>7, <2>9 DEF MayBecome, Holding, Unfinished
    <2>12. cli' = [cli EXCEPT ![p] = x]
      BY <1>4, <2>1, <2>3, <2>8 DEF Writes
    <2>. QED
      BY <1>2, <2>8, <2>10, <2>11, <2>12, ShellMoves
  <1>. QED
    BY <1>3, <1>4 DEF ReadForEnrolment

LEMMA DrillStep ==
    ASSUME DiskInv, NEW p \in Shells, NEW v \in Volumes, Drill(p, v)
    PROVE  DiskInv'
  <1>1. OnlyTheShell
    BY DEF OnlyTheShell, Drill, history, DiskInv, DiskTypeOK, RestOK
  <1>2. PICK x \in Shell : x = [pc |-> "typing", volume |-> v, seen |-> log]
    BY DEF Shell, Typing, DiskInv, DiskTypeOK, FilesOK
  <1>3. x.pc = "typing" /\ x.seen = log
    BY <1>2
  <1>4. GoodShell(x)'
    <2>1. x.seen \in LogFile /\ GoodLog(x.seen)
      BY <1>3 DEF DiskInv, DiskTypeOK, FilesOK, RecordsAreGood, GoodLog
    <2>2. GoodLog(x.seen)'
      BY <1>1, <2>1, GoodStays DEF OnlyTheShell, files
    <2>. QED
      BY <1>3, <2>2 DEF GoodShell
  <1>5. MayBecome(p, x)
    BY <1>3 DEF MayBecome, Holding, Unfinished, Drill, At
  <1>6. cli' = [cli EXCEPT ![p] = x]
    BY <1>2 DEF Drill
  <1>. QED
    BY <1>1, <1>2, <1>4, <1>5, <1>6, ShellMoves

LEMMA TypeStep ==
    ASSUME DiskInv, NEW p \in Shells, Type(p)
    PROVE  DiskInv'
  <1>1. cli[p] \in Typing /\ cli[p].pc = "typing"
    BY ShellKinds DEF Type, At, DiskInv, DiskTypeOK, RestOK
  <1>2. /\ cli[p].volume \in Volumes
        /\ cli[p].seen \in LogFile /\ GoodLog(cli[p].seen)
    BY <1>1 DEF DiskInv, RecordsAreGood, GoodShell, Typing
  <1>3. CASE Exits(p) /\ UNCHANGED typed
    <2>1. Idle \in Shell /\ Idle.pc = "idle"
      BY DEF Shell, Idle
    <2>2. GoodShell(Idle)'
      BY DEF GoodShell, Idle
    <2>3. OnlyTheShell
      BY <1>3 DEF OnlyTheShell, Type, bounds, DiskInv, DiskTypeOK, RestOK
    <2>4. MayBecome(p, Idle) /\ cli' = [cli EXCEPT ![p] = Idle]
      BY <1>1, <1>3, <2>1 DEF MayBecome, Exits, Holding, Unfinished
    <2>. QED
      BY <2>1, <2>2, <2>3, <2>4, ShellMoves
  <1>4. ASSUME NEW records \in Records(cli[p].seen),
               NEW s \in DOMAIN slots[cli[p].volume] \cup {Unnamed},
               NEW old,
               old = IF cli[p].volume \in DOMAIN records THEN records[cli[p].volume]
                     ELSE DrillRecord(Unnamed, Passphrase, clock, Unnamed),
               Writes(p, cli[p].volume, cli[p].seen,
                      Inserted(records, cli[p].volume, DrillRecord(old.slot, old.key, clock, s))),
               typed' = [typed EXCEPT ![cli[p].volume] = @ \cup {clock}]
        PROVE  DiskInv'
    <2>1. PICK v, seen, slot, key, day : /\ v = cli[p].volume /\ seen = cli[p].seen
                                         /\ slot = old.slot /\ key = old.key /\ day = clock
      OBVIOUS
    <2>2. /\ records \in RecordTable /\ GoodRecords(records)
          /\ seen \in LogFile /\ seen.kind # "torn"
          /\ seen.kind = "log" => seen.records = records
      BY <1>2, <1>4, <2>1, ReadRecords, EmptyLogIsGood DEF GoodLog, Nothing
    <2>3. v \in Volumes /\ day \in Int /\ s \in Nat
      BY <1>2, <1>4, <2>1 DEF Unnamed, DiskInv, DiskTypeOK, FilesOK, RestOK
    <2>4. slot \in Nat /\ key \in Nat /\ GoodSlot(v, slot, key)
      <3>1. CASE v \in DOMAIN records
        BY <1>4, <2>1, <2>2, <3>1, TableFields DEF GoodRecords
      <3>2. CASE v \notin DOMAIN records
        BY <1>4, <2>1, <3>2 DEF DrillRecord, GoodSlot, Unnamed, Passphrase
      <3>. QED
        BY <3>1, <3>2
    <2>5. /\ typed' \in [Volumes -> SUBSET Int] /\ day \in typed'[v]
          /\ \A w \in Volumes : typed[w] \subseteq typed'[w]
      BY <1>4, <2>1, <2>3 DEF DiskInv, DiskTypeOK, RestOK
    <2>6. OnlyTheShell
      BY <2>5 DEF OnlyTheShell, Type, bounds, DiskInv, DiskTypeOK, RestOK
    <2>7. PICK new : new = Inserted(records, v, DrillRecord(slot, key, day, s))
      OBVIOUS
    <2>8. GoodRecords(new)'
      <3>1. UNCHANGED slots
        BY <2>6 DEF OnlyTheShell, files
      <3>. QED
        BY <2>2, <2>3, <2>4, <2>5, <2>7, <3>1, InsertedIsGood
    <2>9. new \in RecordTable /\ DOMAIN new = DOMAIN records \cup {v}
      <3>1. new \in RecordTable
        BY <2>2, <2>3, <2>4, <2>7, InsertedType
      <3>. QED
        BY <2>7, <3>1 DEF Inserted
    <2>10. PICK x \in Shell :
             x = [pc |-> "truncating", volume |-> v, seen |-> seen, records |-> new]
      BY <2>2, <2>3, <2>9 DEF Shell, Truncating
    <2>11. x.pc = "truncating" /\ x.seen = seen /\ x.records = new
      BY <2>10
    <2>12. GoodShell(x)'
      BY <2>8, <2>11 DEF GoodShell
    <2>13. MayBecome(p, x)
      BY <1>1, <2>2, <2>9, <2>11 DEF MayBecome, Holding, Unfinished
    <2>14. cli' = [cli EXCEPT ![p] = x]
      BY <1>4, <2>1, <2>7, <2>10 DEF Writes
    <2>. QED
      BY <2>6, <2>10, <2>12, <2>13, <2>14, ShellMoves
  <1>. QED
    BY <1>3, <1>4 DEF Type

(***************************************************************************)
(* The agent's steps.                                                      *)
(***************************************************************************)

(* The log and the slots know nothing of a command line that waits, is     *)
(* about to look at the slots, or is done.                                 *)
LEMMA QuietShells ==
    ASSUME DiskInv,
           \A p \in Shells : cli'[p] = cli[p] \/ cli'[p].pc \in {"idle", "waiting", "dumping"},
           UNCHANGED <<slots, log, clock, typed, logged, lost>>
    PROVE  SlotsAreCounted' /\ RecordsAreGood' /\ LogsCover'
  <1>1. SlotsAreCounted'
    BY DEF DiskInv, SlotsAreCounted
  <1>2. RecordsAreGood'
    <2>1. GoodLog(log)'
      BY GoodStays DEF DiskInv, DiskTypeOK, FilesOK, RecordsAreGood, GoodLog
    <2>2. ASSUME NEW p \in Shells PROVE GoodShell(cli[p])'
      <3>1. CASE cli'[p] = cli[p]
        <4>1. PICK y \in Shell : y = cli[p] /\ GoodShell(y)'
          BY GoodStays DEF DiskInv, DiskTypeOK, RestOK, RecordsAreGood
        <4>. QED
          BY <3>1, <4>1 DEF GoodShell, GoodLog, GoodRecords, GoodSlot
      <3>2. CASE cli'[p].pc \in {"idle", "waiting", "dumping"}
        BY <3>2 DEF GoodShell
      <3>. QED
        BY <3>1, <3>2
    <2>. QED
      BY <2>1, <2>2 DEF RecordsAreGood
  <1>3. LogsCover'
    <2>1. LogCovers(log)'
      BY DEF DiskInv, LogsCover, LogCovers
    <2>. QED
      BY <2>1 DEF DiskInv, LogsCover
  <1>. QED
    BY <1>1, <1>2, <1>3

LEMMA BootStays ==
    ASSUME DiskInv, UNCHANGED <<slots, boot>>
    PROVE  BootFileOpens'
  BY DEF DiskInv, BootFileOpens, BootOpens

LEMMA SlotsStayOlder ==
    ASSUME DiskInv, UNCHANGED slots, calls' \in Nat, calls' >= calls, inbox' \subseteq inbox,
           agent' # Idle => \/ agent # Idle /\ agent'.n = agent.n
                            \/ \E c \in inbox : agent'.n = c.n
    PROVE  SlotsAreOlder'
  <1>1. ASSUME NEW v \in Volumes, NEW k \in Range(slots[v])
        PROVE  /\ k \in 0 .. calls'
               /\ \A c \in inbox' : c.n # k
               /\ agent' # Idle => agent'.n # k
    BY <1>1 DEF DiskInv, DiskTypeOK, RestOK, SlotsAreOlder
  <1>. QED
    BY <1>1 DEF DiskInv, SlotsAreOlder

LEMMA BeginEnrolStep ==
    ASSUME DiskInv, NEW c \in inbox, BeginEnrol(c)
    PROVE  DiskInv'
  <1>1. c \in [volume : Volumes, n : Nat, asked : {NoCredential, "c1"}]
    BY DEF DiskInv, DiskTypeOK, RestOK
  <1>2. PICK id \in SelectedForDisk(c.asked) :
          agent' = [pc |-> "asking", volume |-> c.volume, n |-> c.n, credential |-> id]
    BY DEF BeginEnrol
  <1>3. id \in Ids
    <2>1. PICK d \in store : id = d.id
      BY <1>2 DEF SelectedForDisk
    <2>2. store \in Stores
      BY DEF DiskInv, DiskTypeOK, FilesOK
    <2>. QED
      BY <2>1, <2>2 DEF Ids
  <1>4. agent' \in Agent /\ agent' # Idle
    BY <1>1, <1>2, <1>3 DEF Agent, Idle
  <1>5. agent'.pc = "asking" /\ agent'.n = c.n /\ agent'.volume = c.volume
    BY <1>2
  <1>6. /\ agent = Idle /\ keyFile = Nothing /\ keyFile' = Claimed
        /\ inbox' = inbox \ {c}
        /\ UNCHANGED <<store, slots, wrapper, log, cli, boot, clock, calls, typed, logged, lost,
                       loose, exposed>>
    BY DEF BeginEnrol, bounds, history
  <1>7. DiskTypeOK'
    BY <1>4, <1>6 DEF DiskInv, DiskTypeOK, FilesOK, RestOK, KeyFile
  <1>8. \A p \in Shells : ~HasKey(p)
    BY <1>6 DEF DiskInv, KeyFileIsOwned, Key, Nothing
  <1>9. KeyFileIsOwned'
    BY <1>5, <1>6, <1>8 DEF KeyFileIsOwned, HasKey
  <1>10. NumbersAreFresh'
    BY <1>4, <1>5, <1>6 DEF DiskInv, NumbersAreFresh, Claimed
  <1>11. SlotsAreOlder'
    BY <1>5, <1>6, SlotsStayOlder DEF DiskInv, DiskTypeOK, RestOK
  <1>12. NoLiveKeyLeftBehind'
    BY <1>6 DEF NoLiveKeyLeftBehind, Claimed
  <1>13. WrappersOpen'
    BY <1>6, <1>8 DEF DiskInv, WrappersOpen, HasKey, Hasty, Unfinished
  <1>. QED
    BY <1>6, <1>7, <1>9, <1>10, <1>11, <1>12, <1>13, QuietShells, BootStays DEF DiskInv

LEMMA EnrolledStep ==
    ASSUME DiskInv, Enrolled
    PROVE  DiskInv'
  <1>1. /\ agent \in [pc : {"asking", "wrapped", "written"}, volume : Volumes, n : Nat,
                      credential : Ids]
        /\ agent # Idle /\ agent.pc = "asking"
    BY DEF Enrolled, Agent, Idle, DiskInv, DiskTypeOK, RestOK
  <1>2. /\ agent' \in Agent /\ agent' # Idle
        /\ agent'.pc = "wrapped" /\ agent'.n = agent.n /\ agent'.volume = agent.volume
    BY <1>1 DEF Enrolled, Agent, Idle
  <1>3. UNCHANGED <<store, slots, keyFile, wrapper, log, inbox, cli, boot, clock, calls, typed,
                    logged, lost, loose, exposed>>
    BY DEF Enrolled, files, bounds, history
  <1>4. DiskTypeOK'
    BY <1>2, <1>3 DEF DiskInv, DiskTypeOK, FilesOK, RestOK
  <1>5. KeyFileIsOwned'
    BY <1>1, <1>2, <1>3 DEF DiskInv, KeyFileIsOwned, HasKey
  <1>6. NumbersAreFresh'
    BY <1>1, <1>2, <1>3 DEF DiskInv, NumbersAreFresh
  <1>7. SlotsAreOlder'
    BY <1>1, <1>2, <1>3, SlotsStayOlder DEF DiskInv, DiskTypeOK, RestOK
  <1>8. NoLiveKeyLeftBehind' /\ WrappersOpen'
    BY <1>3 DEF DiskInv, NoLiveKeyLeftBehind, WrappersOpen, HasKey, Hasty, Unfinished
  <1>. QED
    BY <1>3, <1>4, <1>5, <1>6, <1>7, <1>8, QuietShells, BootStays DEF DiskInv

(* The command line is told, and nothing else changes.                     *)
LEMMA RefuseEnrolStep ==
    ASSUME DiskInv, NEW c \in inbox, RefuseEnrol(c)
    PROVE  DiskInv'
  <1>1. /\ agent = Idle /\ agent' = Idle /\ inbox' = inbox \ {c}
        /\ cli' = Replied(c.n, "idle")
        /\ UNCHANGED <<store, slots, keyFile, wrapper, log, boot, clock, calls, typed, logged, lost,
                       loose, exposed>>
    BY DEF RefuseEnrol, Fails, files, bounds, history
  <1>2. /\ cli' \in [Shells -> Shell]
        /\ \A p \in Shells : \/ cli'[p] = cli[p]
                             \/ cli[p].pc = "waiting" /\ cli'[p] = Idle
    BY <1>1, RepliedShells DEF DiskInv
  <1>3. Idle.pc = "idle"
    BY DEF Idle
  <1>4. DiskTypeOK'
    BY <1>1, <1>2 DEF DiskInv, DiskTypeOK, FilesOK, RestOK
  <1>5. KeyFileIsOwned'
    BY <1>1, <1>2, <1>3 DEF DiskInv, KeyFileIsOwned, HasKey
  <1>6. NumbersAreFresh'
    BY <1>1, <1>2, <1>3 DEF DiskInv, NumbersAreFresh
  <1>7. SlotsAreOlder'
    BY <1>1, SlotsStayOlder DEF DiskInv, DiskTypeOK, RestOK
  <1>8. NoLiveKeyLeftBehind'
    BY <1>1, <1>2 DEF DiskInv, NoLiveKeyLeftBehind
  <1>9. WrappersOpen'
    BY <1>1, <1>2, <1>3 DEF DiskInv, WrappersOpen, HasKey, Hasty, Unfinished
  <1>. QED
    BY <1>1, <1>2, <1>3, <1>4, <1>5, <1>6, <1>7, <1>8, <1>9, QuietShells, BootStays DEF DiskInv

(* The agent lets go of an enrolment, with or without its key in the file. *)
LEMMA AgentLetsGo ==
    ASSUME DiskInv, agent # Idle, agent' = Idle,
           cli' = Replied(agent.n, "idle"),
           keyFile' \in {keyFile, Nothing}, wrapper' \in [Volumes -> Wrapper],
           \A v \in Volumes : wrapper'[v] = wrapper[v] \/ wrapper'[v] = Torn,
           UNCHANGED <<store, slots, log, inbox, boot, clock, calls, typed, logged, lost, loose,
                       exposed>>
    PROVE  DiskInv'
  <1>1. /\ cli' \in [Shells -> Shell]
        /\ \A p \in Shells : \/ cli'[p] = cli[p]
                             \/ cli[p].pc = "waiting" /\ cli'[p] = Idle
    BY RepliedShells DEF DiskInv
  <1>2. Idle.pc = "idle" /\ Idle \in Agent /\ Nothing.kind = "nothing" /\ Torn.kind = "torn"
    BY DEF Idle, Agent, Nothing, Torn
  <1>3. \A p \in Shells : ~HasKey(p) /\ ~HasKey(p)'
    BY <1>1, <1>2 DEF DiskInv, KeyFileIsOwned, HasKey
  <1>4. DiskTypeOK'
    BY <1>1, <1>2 DEF DiskInv, DiskTypeOK, FilesOK, RestOK, KeyFile
  <1>5. KeyFileIsOwned'
    BY <1>2, <1>3 DEF KeyFileIsOwned
  <1>6. NumbersAreFresh'
    BY <1>1, <1>2 DEF DiskInv, NumbersAreFresh
  <1>7. SlotsAreOlder'
    BY SlotsStayOlder DEF DiskInv, DiskTypeOK, RestOK
  <1>8. NoLiveKeyLeftBehind'
    BY <1>1, <1>2 DEF DiskInv, NoLiveKeyLeftBehind
  <1>9. WrappersOpen'
    BY <1>1, <1>2, <1>3 DEF DiskInv, WrappersOpen, Hasty, Unfinished
  <1>. QED
    BY <1>1, <1>2, <1>4, <1>5, <1>6, <1>7, <1>8, <1>9, QuietShells, BootStays DEF DiskInv

LEMMA NotEnrolledStep ==
    ASSUME DiskInv, NotEnrolled
    PROVE  DiskInv'
  <1>1. agent # Idle
    BY DEF NotEnrolled, Idle
  <1>. QED
    BY <1>1, AgentLetsGo
       DEF NotEnrolled, Fails, bounds, history, DiskInv, DiskTypeOK, FilesOK

(* The key that is written is in no slot yet. *)
LEMMA WriteKeyStep ==
    ASSUME DiskInv, WriteKey
    PROVE  DiskInv'
  <1>1. agent # Idle
    BY DEF WriteKey, Idle
  <1>2. CASE keyFile' = Nothing /\ Fails(agent.n)
    BY <1>1, <1>2, AgentLetsGo DEF WriteKey, Fails, bounds, history, DiskInv, DiskTypeOK, FilesOK
  <1>3. ASSUME keyFile' = Key(agent.n), agent' = [agent EXCEPT !.pc = "written"], UNCHANGED cli
        PROVE  DiskInv'
    <2>1. agent \in [pc : {"asking", "wrapped", "written"}, volume : Volumes, n : Nat,
                     credential : Ids]
      BY <1>1 DEF Agent, DiskInv, DiskTypeOK, RestOK
    <2>2. /\ agent' \in Agent /\ agent' # Idle
          /\ agent'.pc = "written" /\ agent'.n = agent.n /\ agent'.volume = agent.volume
      BY <1>3, <2>1 DEF Agent, Idle
    <2>3. keyFile' = Key(agent'.n) /\ keyFile'.kind = "key" /\ keyFile'.key = agent.n
          /\ keyFile' \in KeyFile
      BY <1>3, <2>1, <2>2 DEF Key, KeyFile
    <2>4. UNCHANGED <<store, slots, wrapper, log, inbox, cli, boot, clock, calls, typed, logged,
                      lost, loose, exposed>>
      BY <1>3 DEF WriteKey, bounds, history
    <2>5. \A p \in Shells : ~HasKey(p) /\ ~HasKey(p)'
      BY <1>1, <2>4 DEF DiskInv, KeyFileIsOwned, HasKey
    <2>6. DiskTypeOK'
      BY <2>2, <2>3, <2>4 DEF DiskInv, DiskTypeOK, FilesOK, RestOK
    <2>7. KeyFileIsOwned'
      BY <2>2, <2>3, <2>5 DEF KeyFileIsOwned
    <2>8. NumbersAreFresh'
      BY <1>1, <2>2, <2>3, <2>4 DEF DiskInv, NumbersAreFresh
    <2>9. SlotsAreOlder'
      BY <1>1, <2>2, <2>4, SlotsStayOlder DEF DiskInv, DiskTypeOK, RestOK
    <2>10. NoLiveKeyLeftBehind'
      BY <1>1, <2>3, <2>4 DEF DiskInv, SlotsAreOlder, NoLiveKeyLeftBehind
    <2>11. WrappersOpen'
      BY <2>4, <2>5 DEF DiskInv, WrappersOpen, Hasty, Unfinished
    <2>. QED
      BY <2>4, <2>6, <2>7, <2>8, <2>9, <2>10, <2>11, QuietShells, BootStays DEF DiskInv
  <1>. QED
    BY <1>2, <1>3 DEF WriteKey

(* The command line that waits now has the key and the wrapper, or the     *)
(* wrapper is loose.                                                       *)
LEMMA WrapperWritten ==
    ASSUME DiskInv, NEW v, v = agent.volume, agent.pc = "written", agent' = Idle,
           wrapper' = [wrapper EXCEPT ![v] = WrappedVolumeKey(agent.n, agent.credential)],
           cli' = Replied(agent.n, "dumping"),
           loose' = IF Waiting(agent.n) THEN loose \ {v} ELSE loose \cup {v},
           UNCHANGED <<store, slots, keyFile, log, inbox, boot, clock, calls, typed, logged, lost,
                       exposed>>
    PROVE  DiskInv'
  <1>1. /\ agent \in [pc : {"asking", "wrapped", "written"}, volume : Volumes, n : Nat,
                      credential : Ids]
        /\ agent # Idle /\ Idle.pc = "idle" /\ Idle \in Agent
    BY DEF Agent, Idle, DiskInv, DiskTypeOK, RestOK
  <1>2. keyFile = Key(agent.n) /\ \A p \in Shells : ~HasKey(p)
    BY <1>1 DEF DiskInv, KeyFileIsOwned
  <1>3. /\ cli' \in [Shells -> Shell]
        /\ \A p \in Shells : IF cli[p].pc = "waiting" /\ cli[p].n = agent.n
                             THEN /\ cli'[p].pc = "dumping" /\ cli'[p].n = agent.n
                                  /\ cli'[p].volume = v
                             ELSE cli'[p] = cli[p]
    BY <1>1, RepliedShells DEF DiskInv, NumbersAreFresh
  <1>4. ASSUME NEW p \in Shells, HasKey(p)'
        PROVE  /\ cli[p].pc = "waiting" /\ cli[p].n = agent.n
               /\ cli'[p].pc = "dumping" /\ cli'[p].n = agent.n /\ cli'[p].volume = v
    BY <1>2, <1>3, <1>4 DEF HasKey
  <1>5. PICK file \in Wrapper : file = WrappedVolumeKey(agent.n, agent.credential)
    BY <1>1 DEF WrappedVolumeKey, Wrapper
  <1>6. file.kind = "wrapper" /\ file.key = agent.n
    BY <1>5 DEF WrappedVolumeKey
  <1>7. /\ wrapper' \in [Volumes -> Wrapper] /\ wrapper'[v] = file
        /\ \A w \in Volumes : w # v => wrapper'[w] = wrapper[w]
    BY <1>1, <1>5 DEF DiskInv, DiskTypeOK, FilesOK
  <1>8. DiskTypeOK'
    BY <1>1, <1>3, <1>7 DEF DiskInv, DiskTypeOK, FilesOK, RestOK
  <1>9. KeyFileIsOwned'
    <2>1. \A p \in Shells : HasKey(p)' => keyFile' = Key(cli'[p].n) /\ agent' = Idle
      BY <1>2, <1>4
    <2>2. \A p, q \in Shells : HasKey(p)' /\ HasKey(q)' => p = q
      BY <1>4 DEF DiskInv, NumbersAreFresh
    <2>. QED
      BY <1>1, <2>1, <2>2 DEF KeyFileIsOwned
  <1>10. NumbersAreFresh'
    BY <1>1, <1>3 DEF DiskInv, NumbersAreFresh
  <1>11. SlotsAreOlder'
    BY <1>1, SlotsStayOlder DEF DiskInv, DiskTypeOK, RestOK
  <1>12. NoLiveKeyLeftBehind'
    BY <1>1, <1>3 DEF DiskInv, NoLiveKeyLeftBehind
  <1>13. WrappersOpen'
    <2>1. Hasty(v)'
      <3>1. CASE Waiting(agent.n)
        BY <1>3, <3>1 DEF Waiting, Hasty, Unfinished
      <3>2. CASE ~Waiting(agent.n)
        BY <3>2 DEF Hasty
      <3>. QED
        BY <3>1, <3>2
    <2>2. ASSUME NEW w \in Volumes, w # v, Hasty(w) PROVE Hasty(w)'
      BY <1>3, <2>2 DEF Hasty, Unfinished
    <2>3. \A w \in Volumes : wrapper'[w].kind = "wrapper" =>
            wrapper'[w].key \in Range(slots'[w]) \/ Hasty(w)'
      BY <1>7, <2>1, <2>2 DEF DiskInv, WrappersOpen
    <2>4. \A p \in Shells : HasKey(p)' => wrapper'[cli'[p].volume].key = cli'[p].n
      BY <1>4, <1>6, <1>7
    <2>. QED
      BY <2>3, <2>4 DEF WrappersOpen
  <1>. QED
    BY <1>3, <1>8, <1>9, <1>10, <1>11, <1>12, <1>13, QuietShells, BootStays DEF DiskInv

LEMMA WriteWrapperStep ==
    ASSUME DiskInv, WriteWrapper
    PROVE  DiskInv'
  <1>1. /\ agent.pc = "written" /\ agent # Idle /\ agent' = Idle
        /\ UNCHANGED <<store, slots, keyFile, log, inbox, boot, clock, calls, typed, logged, lost,
                       exposed>>
    BY DEF WriteWrapper, Idle, bounds
  <1>2. CASE /\ wrapper' \in {wrapper, [wrapper EXCEPT ![agent.volume] = Torn]}
             /\ cli' = Replied(agent.n, "idle") /\ UNCHANGED loose
    <2>1. /\ wrapper' \in [Volumes -> Wrapper]
          /\ \A v \in Volumes : wrapper'[v] = wrapper[v] \/ wrapper'[v] = Torn
      BY <1>2 DEF Wrapper, DiskInv, DiskTypeOK, FilesOK
    <2>. QED
      BY <1>1, <1>2, <2>1, AgentLetsGo
  <1>3. CASE /\ wrapper' = [wrapper EXCEPT ![agent.volume] =
                              WrappedVolumeKey(agent.n, agent.credential)]
             /\ cli' = Replied(agent.n, "dumping")
             /\ loose' = IF Waiting(agent.n) THEN loose \ {agent.volume}
                         ELSE loose \cup {agent.volume}
    <2>1. PICK v : v = agent.volume
      OBVIOUS
    <2>. QED
      BY <1>1, <1>3, <2>1, WrapperWritten
  <1>. QED
    BY <1>2, <1>3 DEF WriteWrapper

LEMMA EnrolStep ==
    ASSUME DiskInv, NEW p \in Shells, NEW v \in Volumes, NEW asked \in {NoCredential, "c1"},
           Enrol(p, v, asked)
    PROVE  DiskInv'
  <1>1. PICK n \in Nat : n = calls + 1
    BY DEF DiskInv, DiskTypeOK, RestOK
  <1>2. PICK x \in Shell : x = [pc |-> "waiting", volume |-> v, n |-> n]
    BY DEF Shell, Called
  <1>3. PICK c \in [volume : Volumes, n : Nat, asked : {NoCredential, "c1"}] :
          c = [volume |-> v, n |-> n, asked |-> asked]
    OBVIOUS
  <1>4. /\ x.pc = "waiting" /\ x.volume = v /\ x.n = n
        /\ c.volume = v /\ c.n = n
    BY <1>2, <1>3
  <1>5. /\ cli[p].pc = "idle"
        /\ calls' = n /\ inbox' = inbox \cup {c} /\ cli' = [cli EXCEPT ![p] = x]
        /\ UNCHANGED <<store, slots, keyFile, wrapper, log, agent, boot, clock, typed, logged, lost,
                       loose, exposed>>
    BY <1>1, <1>2, <1>3 DEF Enrol, At, files, history
  <1>6. /\ cli' \in [Shells -> Shell] /\ cli'[p] = x
        /\ \A q \in Shells : q # p => cli'[q] = cli[q]
    BY <1>5 DEF DiskInv, DiskTypeOK, RestOK
  <1>7. DiskTypeOK'
    BY <1>3, <1>5, <1>6 DEF DiskInv, DiskTypeOK, FilesOK, RestOK
  <1>8. \A k \in 0 .. calls : k \in 0 .. n /\ k # n
    BY <1>1 DEF DiskInv, DiskTypeOK, RestOK
  <1>9. \A k \in 1 .. calls : k \in 1 .. n /\ k # n
    BY <1>1 DEF DiskInv, DiskTypeOK, RestOK
  <1>10. n \in 1 .. n
    BY <1>1 DEF DiskInv, DiskTypeOK, RestOK
  <1>11. KeyFileIsOwned'
    BY <1>4, <1>5, <1>6 DEF DiskInv, KeyFileIsOwned, HasKey
  <1>12. NumbersAreFresh'
    BY <1>4, <1>5, <1>6, <1>9, <1>10 DEF DiskInv, NumbersAreFresh
  <1>13. SlotsAreOlder'
    BY <1>4, <1>5, <1>8 DEF DiskInv, SlotsAreOlder
  <1>14. NoLiveKeyLeftBehind'
    BY <1>5, <1>6 DEF DiskInv, NoLiveKeyLeftBehind
  <1>15. WrappersOpen'
    BY <1>4, <1>5, <1>6 DEF DiskInv, WrappersOpen, HasKey, Hasty, Unfinished
  <1>. QED
    BY <1>4, <1>5, <1>6, <1>7, <1>11, <1>12, <1>13, <1>14, <1>15, QuietShells, BootStays
       DEF DiskInv

(***************************************************************************)
(* The steps of a command line that change a file.                         *)
(***************************************************************************)

(* Who adds a keyslot holds the key file, and the wrapper is of its key.   *)
LEMMA AddKeyslotStep ==
    ASSUME DiskInv, NEW p \in Shells, AddKeyslot(p)
    PROVE  DiskInv'
  <1>1. cli[p] \in Adding /\ cli[p].pc = "adding"
    BY ShellKinds DEF AddKeyslot, At, DiskInv, DiskTypeOK, RestOK
  <1>2. PICK v \in Volumes, n \in Nat, before \in SUBSET Nat :
          v = cli[p].volume /\ n = cli[p].n /\ before = cli[p].before
    BY <1>1 DEF Adding
  <1>3. HasKey(p) /\ keyFile = Key(n) /\ agent = Idle
    BY <1>1, <1>2 DEF DiskInv, KeyFileIsOwned, HasKey
  <1>4. keyFile.kind = "key" /\ keyFile.key = n
    BY <1>3 DEF Key
  <1>5. UNCHANGED <<store, keyFile, wrapper, log, agent, inbox, boot, clock, calls, logged, lost,
                    loose, exposed>>
    BY DEF AddKeyslot, bounds
  <1>6. PICK added \in BOOLEAN :
          /\ cli' = [cli EXCEPT ![p] = [pc |-> "shredding", volume |-> v, n |-> n,
                                        before |-> before, added |-> added]]
          /\ IF added
             THEN /\ slots' = [slots EXCEPT ![v] = Append(@, n)]
                  /\ typed' = [typed EXCEPT ![v] = @ \cup {clock}]
             ELSE UNCHANGED <<slots, typed>>
    <2>1. DOMAIN cli = Shells
      BY DEF DiskInv, DiskTypeOK, RestOK
    <2>. QED
      BY <1>2, <1>4, <2>1 DEF AddKeyslot
  <1>24. PICK keys \in Seq(Nat) : keys = slots[v]
    BY DEF DiskInv, DiskTypeOK, FilesOK
  <1>25. PICK new : new = Append(keys, n)
    OBVIOUS
  <1>26. /\ new \in Seq(Nat)
         /\ Range(new) = Range(keys) \cup {n}
         /\ \A s \in DOMAIN keys : s \in DOMAIN new /\ new[s] = keys[s]
         /\ \E s \in DOMAIN new \ DOMAIN keys : new[s] = n
    <2>1. /\ new \in Seq(Nat) /\ Len(new) = Len(keys) + 1
          /\ DOMAIN keys = 1 .. Len(keys) /\ DOMAIN new = 1 .. Len(keys) + 1
          /\ Len(keys) \in Nat
      BY <1>25
    <2>2. /\ \A s \in 1 .. Len(keys) : new[s] = keys[s]
          /\ new[Len(keys) + 1] = n
      BY <1>25, AppendProperties
    <2>3. Len(keys) + 1 \in DOMAIN new \ DOMAIN keys
      BY <2>1
    <2>4. \A s \in DOMAIN keys : s \in DOMAIN new /\ new[s] = keys[s]
      BY <2>1, <2>2
    <2>5. \A s \in DOMAIN new : s \in DOMAIN keys \/ s = Len(keys) + 1
      BY <2>1
    <2>6. Range(new) = Range(keys) \cup {n}
      BY <2>2, <2>3, <2>4, <2>5 DEF Range
    <2>. QED
      BY <2>1, <2>2, <2>3, <2>4, <2>6
  <1>7. PICK x \in Shell : x = [pc |-> "shredding", volume |-> v, n |-> n, before |-> before,
                                added |-> added]
    BY DEF Shell, Added
  <1>8. /\ x.pc = "shredding" /\ x.volume = v /\ x.n = n /\ x.before = before /\ x.added = added
    BY <1>7
  <1>9. /\ cli' \in [Shells -> Shell] /\ cli'[p] = x
        /\ \A q \in Shells : q # p => cli'[q] = cli[q]
    BY <1>6, <1>7 DEF DiskInv, DiskTypeOK, RestOK
  <1>10. /\ slots' \in [Volumes -> Seq(Nat)]
         /\ \A w \in Volumes : slots'[w] = IF w = v /\ added THEN new ELSE slots[w]
    <2>1. CASE added
      <3>1. slots' = [slots EXCEPT ![v] = new] /\ new \in Seq(Nat)
        BY <1>6, <1>24, <1>25, <1>26, <2>1
      <3>. QED
        BY <2>1, <3>1 DEF DiskInv, DiskTypeOK, FilesOK
    <2>2. CASE ~added
      BY <1>6, <2>2 DEF DiskInv, DiskTypeOK, FilesOK
    <2>. QED
      BY <2>1, <2>2
  <1>11. /\ typed' \in [Volumes -> SUBSET Int]
         /\ \A w \in Volumes : typed[w] \subseteq typed'[w]
         /\ added => clock \in typed'[v]
    <2>1. CASE added
      BY <1>6, <2>1 DEF DiskInv, DiskTypeOK, RestOK
    <2>2. CASE ~added
      BY <1>6, <2>2 DEF DiskInv, DiskTypeOK, RestOK
    <2>. QED
      BY <2>1, <2>2
  <1>12. SlotsGrow
    BY <1>10, <1>24, <1>26 DEF SlotsGrow
  <1>13. /\ \A w \in Volumes : Range(slots[w]) \subseteq Range(slots'[w])
         /\ \A w \in Volumes : \A k \in Range(slots'[w]) : k \in Range(slots[w]) \/ k = n
         /\ added => n \in Range(slots'[v])
    <2>1. \A w \in Volumes : \/ slots'[w] = slots[w]
                            \/ Range(slots'[w]) = Range(slots[w]) \cup {n}
      BY <1>10, <1>24, <1>26
    <2>2. added => Range(slots'[v]) = Range(slots[v]) \cup {n}
      BY <1>10, <1>24, <1>26
    <2>. QED
      BY <2>1, <2>2
  <1>14. DiskTypeOK'
    BY <1>5, <1>9, <1>10, <1>11 DEF DiskInv, DiskTypeOK, FilesOK, RestOK
  <1>15. KeyFileIsOwned'
    BY <1>2, <1>3, <1>5, <1>8, <1>9 DEF DiskInv, KeyFileIsOwned, HasKey
  <1>16. NumbersAreFresh'
    BY <1>1, <1>5, <1>8, <1>9 DEF DiskInv, NumbersAreFresh
  <1>17. SlotsAreOlder'
    <2>1. n \in 0 .. calls /\ \A c \in inbox : c.n # n
      BY <1>4 DEF DiskInv, NumbersAreFresh, DiskTypeOK, RestOK
    <2>. QED
      BY <1>3, <1>5, <1>13, <2>1 DEF DiskInv, SlotsAreOlder
  <1>18. NoLiveKeyLeftBehind'
    BY <1>8, <1>9 DEF NoLiveKeyLeftBehind
  <1>19. WrappersOpen'
    <2>1. ASSUME NEW w \in Volumes, Hasty(w) PROVE Hasty(w)' \/ (w = v /\ added)
      <3>1. CASE w \in loose
        BY <1>5, <3>1 DEF Hasty
      <3>2. ASSUME NEW q \in Shells, q # p, Unfinished(q), cli[q].volume = w PROVE Hasty(w)'
        BY <1>9, <3>2 DEF Hasty, Unfinished
      <3>3. CASE w = v
        BY <1>8, <1>9, <3>3 DEF Hasty, Unfinished
      <3>. QED
        BY <1>2, <2>1, <3>1, <3>2, <3>3 DEF Hasty
    <2>2. wrapper[v].kind = "wrapper" => wrapper[v].key = n
      BY <1>2, <1>3 DEF DiskInv, WrappersOpen
    <2>3. \A w \in Volumes : wrapper'[w].kind = "wrapper" =>
             wrapper'[w].key \in Range(slots'[w]) \/ Hasty(w)'
      BY <1>5, <1>13, <2>1, <2>2 DEF DiskInv, WrappersOpen
    <2>4. ASSUME NEW q \in Shells, HasKey(q)', wrapper'[cli'[q].volume].kind = "wrapper"
          PROVE  wrapper'[cli'[q].volume].key = cli'[q].n
      <3>1. HasKey(q) /\ cli'[q].n = cli[q].n /\ cli'[q].volume = cli[q].volume
        BY <1>2, <1>3, <1>8, <1>9, <2>4 DEF HasKey
      <3>. QED
        BY <1>5, <2>4, <3>1 DEF DiskInv, WrappersOpen
    <2>. QED
      BY <2>3, <2>4 DEF WrappersOpen
  <1>20. BootFileOpens'
    <2>1. Range(slots[Root]) \subseteq Range(slots'[Root])
      BY <1>13, DiskAssumption
    <2>. QED
      BY <1>5, <2>1 DEF DiskInv, BootFileOpens, BootOpens
  <1>21. SlotsAreCounted'
    <2>1. ASSUME NEW q \in Shells, q # p, cli[q].pc \in {"adding", "shredding", "counting"}
          PROVE  cli[q].volume \in Volumes
      <3>1. cli[q] \in Shell
        BY DEF DiskInv, DiskTypeOK, RestOK
      <3>. QED
        BY <2>1, <3>1, ShellKinds DEF Adding, Added
    <2>2. added => \E s \in DOMAIN slots'[v] \ before : slots'[v][s] = n
      BY <1>1, <1>2, <1>10, <1>24, <1>26 DEF DiskInv, SlotsAreCounted
    <2>3. ASSUME NEW q \in Shells, q # p
          PROVE  /\ cli'[q].pc = "adding" => cli'[q].before \subseteq DOMAIN slots'[cli'[q].volume]
                 /\ cli'[q].pc = "counting" => cli'[q].added
                 /\ cli'[q].pc \in {"shredding", "counting"} /\ cli'[q].added =>
                      \E s \in DOMAIN slots'[cli'[q].volume] \ cli'[q].before :
                          slots'[cli'[q].volume][s] = cli'[q].n
      BY <1>9, <1>12, <2>1, <2>3 DEF DiskInv, SlotsAreCounted, SlotsGrow
    <2>. QED
      BY <1>8, <1>9, <2>2, <2>3 DEF SlotsAreCounted
  <1>22. RecordsAreGood'
    <2>1. GoodLog(log)'
      BY <1>5, <1>11, <1>12, GoodStaysAsSlotsGrow
         DEF DiskInv, DiskTypeOK, FilesOK, RecordsAreGood, GoodLog
    <2>2. GoodShell(cli[p])'
      BY <1>5, <1>8, <1>9, <1>11 DEF GoodShell
    <2>3. ASSUME NEW q \in Shells, q # p PROVE GoodShell(cli[q])'
      <3>1. PICK y \in Shell : y = cli[q] /\ GoodShell(y)'
        BY <1>5, <1>11, <1>12, GoodStaysAsSlotsGrow
           DEF DiskInv, DiskTypeOK, RestOK, RecordsAreGood
      <3>2. y = cli'[q]
        BY <1>9, <2>3, <3>1
      <3>. QED
        BY <3>1, <3>2 DEF GoodShell, GoodLog, GoodRecords, GoodSlot
    <2>. QED
      BY <2>1, <2>2, <2>3 DEF RecordsAreGood
  <1>23. LogsCover'
    <2>1. LogCovers(log)'
      BY <1>5 DEF DiskInv, LogsCover, LogCovers
    <2>. QED
      BY <1>5, <1>8, <1>9, <2>1 DEF DiskInv, LogsCover
  <1>. QED
    BY <1>14, <1>15, <1>16, <1>17, <1>18, <1>19, <1>20, <1>21, <1>22, <1>23 DEF DiskInv

LEMMA ShredStep ==
    ASSUME DiskInv, NEW p \in Shells, Shred(p)
    PROVE  DiskInv'
  <1>1. cli[p] \in Added /\ cli[p].pc = "shredding"
    BY ShellKinds DEF Shred, At, DiskInv, DiskTypeOK, RestOK
  <1>2. PICK x \in Shell :
          /\ cli' = [cli EXCEPT ![p] = x]
          /\ x.pc = (IF cli[p].added THEN "counting" ELSE "removing")
          /\ x.volume = cli[p].volume /\ x.n = cli[p].n
          /\ x.before = cli[p].before /\ x.added = cli[p].added
    <2>1. PICK x : x = [cli[p] EXCEPT !.pc = IF cli[p].added THEN "counting" ELSE "removing"]
      OBVIOUS
    <2>2. x \in Added /\ x.pc = (IF cli[p].added THEN "counting" ELSE "removing")
          /\ x.volume = cli[p].volume /\ x.n = cli[p].n
          /\ x.before = cli[p].before /\ x.added = cli[p].added
      BY <1>1, <2>1 DEF Added
    <2>3. cli' = [cli EXCEPT ![p] = x]
      BY <2>1 DEF Shred, Goes, DiskInv, DiskTypeOK, RestOK
    <2>. QED
      BY <2>2, <2>3 DEF Shell
  <1>3. /\ keyFile' = Nothing
        /\ UNCHANGED <<store, slots, wrapper, log, agent, inbox, boot, clock, calls, typed, logged,
                       lost, loose, exposed>>
    BY DEF Shred, bounds, history
  <1>4. /\ cli' \in [Shells -> Shell] /\ cli'[p] = x
        /\ \A q \in Shells : q # p => cli'[q] = cli[q]
    BY <1>2 DEF DiskInv, DiskTypeOK, RestOK
  <1>5. HasKey(p) /\ agent = Idle /\ Idle.pc = "idle" /\ Nothing.kind = "nothing"
    BY <1>1 DEF DiskInv, KeyFileIsOwned, HasKey, Idle, Nothing
  <1>6. \A q \in Shells : ~HasKey(q)'
    <2>1. \A q \in Shells : q # p => ~HasKey(q)
      BY <1>5 DEF DiskInv, KeyFileIsOwned
    <2>. QED
      BY <1>2, <1>4, <2>1 DEF HasKey
  <1>7. DiskTypeOK'
    BY <1>3, <1>4 DEF DiskInv, DiskTypeOK, FilesOK, RestOK, KeyFile
  <1>8. KeyFileIsOwned'
    BY <1>3, <1>5, <1>6 DEF KeyFileIsOwned
  <1>9. NumbersAreFresh'
    BY <1>2, <1>3, <1>4, <1>5 DEF DiskInv, NumbersAreFresh
  <1>10. SlotsAreOlder'
    BY <1>3 DEF DiskInv, SlotsAreOlder
  <1>11. NoLiveKeyLeftBehind'
    BY <1>3, <1>5 DEF NoLiveKeyLeftBehind
  <1>12. WrappersOpen'
    <2>1. ASSUME NEW w \in Volumes, Hasty(w) PROVE Hasty(w)'
      <3>1. CASE w \in loose
        BY <1>3, <3>1 DEF Hasty
      <3>2. ASSUME NEW q \in Shells, Unfinished(q), cli[q].volume = w PROVE Hasty(w)'
        <4>1. CASE q = p
          BY <1>1, <1>2, <1>4, <3>2, <4>1 DEF Hasty, Unfinished
        <4>2. CASE q # p
          BY <1>4, <3>2, <4>2 DEF Hasty, Unfinished
        <4>. QED
          BY <4>1, <4>2
      <3>. QED
        BY <2>1, <3>1, <3>2 DEF Hasty
    <2>. QED
      BY <1>3, <1>6, <2>1 DEF DiskInv, WrappersOpen
  <1>13. SlotsAreCounted'
    BY <1>1, <1>2, <1>3, <1>4 DEF DiskInv, SlotsAreCounted
  <1>14. RecordsAreGood'
    <2>1. GoodLog(log)'
      BY <1>3, GoodStays DEF DiskInv, DiskTypeOK, FilesOK, RecordsAreGood, GoodLog
    <2>2. GoodShell(cli[p])'
      BY <1>1, <1>2, <1>3, <1>4 DEF GoodShell, DiskInv, RecordsAreGood
    <2>3. ASSUME NEW q \in Shells, q # p PROVE GoodShell(cli[q])'
      <3>1. PICK y \in Shell : y = cli[q] /\ GoodShell(y)'
        BY <1>3, GoodStays DEF DiskInv, DiskTypeOK, RestOK, RecordsAreGood
      <3>2. y = cli'[q]
        BY <1>4, <2>3, <3>1
      <3>. QED
        BY <3>1, <3>2 DEF GoodShell, GoodLog, GoodRecords, GoodSlot
    <2>. QED
      BY <2>1, <2>2, <2>3 DEF RecordsAreGood
  <1>15. LogsCover'
    <2>1. LogCovers(log)'
      BY <1>3 DEF DiskInv, LogsCover, LogCovers
    <2>. QED
      BY <1>2, <1>3, <1>4, <2>1 DEF DiskInv, LogsCover
  <1>. QED
    BY <1>3, <1>7, <1>8, <1>9, <1>10, <1>11, <1>12, <1>13, <1>14, <1>15, BootStays DEF DiskInv

LEMMA RemoveWrapperStep ==
    ASSUME DiskInv, NEW p \in Shells, RemoveWrapper(p)
    PROVE  DiskInv'
  <1>1. cli[p] \in Added /\ cli[p].pc = "removing"
    BY ShellKinds DEF RemoveWrapper, At, DiskInv, DiskTypeOK, RestOK
  <1>2. PICK v \in Volumes : v = cli[p].volume
    BY <1>1 DEF Added
  <1>3. /\ wrapper' = [wrapper EXCEPT ![v] = Nothing] /\ cli' = [cli EXCEPT ![p] = Idle]
        /\ UNCHANGED <<store, slots, keyFile, log, agent, inbox, boot, clock, calls, typed, logged,
                       lost, loose, exposed>>
    BY <1>2 DEF RemoveWrapper, Exits, bounds, history
  <1>4. Idle \in Shell /\ Idle.pc = "idle" /\ Nothing \in Wrapper /\ Nothing.kind = "nothing"
    BY DEF Shell, Idle, Wrapper, Nothing
  <1>5. /\ cli' \in [Shells -> Shell] /\ cli'[p] = Idle
        /\ \A q \in Shells : q # p => cli'[q] = cli[q]
    BY <1>3, <1>4 DEF DiskInv, DiskTypeOK, RestOK
  <1>6. /\ wrapper' \in [Volumes -> Wrapper] /\ wrapper'[v] = Nothing
        /\ \A w \in Volumes : w # v => wrapper'[w] = wrapper[w]
    BY <1>3, <1>4 DEF DiskInv, DiskTypeOK, FilesOK
  <1>7. DiskTypeOK'
    BY <1>3, <1>5, <1>6 DEF DiskInv, DiskTypeOK, FilesOK, RestOK
  <1>8. KeyFileIsOwned' /\ NumbersAreFresh'
    BY <1>3, <1>4, <1>5 DEF DiskInv, KeyFileIsOwned, NumbersAreFresh, HasKey
  <1>9. SlotsAreOlder'
    BY <1>3 DEF DiskInv, SlotsAreOlder
  <1>10. NoLiveKeyLeftBehind'
    BY <1>1, <1>3, <1>5 DEF DiskInv, NoLiveKeyLeftBehind
  <1>11. WrappersOpen'
    <2>1. ASSUME NEW w \in Volumes, w # v, Hasty(w) PROVE Hasty(w)'
      BY <1>2, <1>3, <1>5, <2>1 DEF Hasty, Unfinished
    <2>2. \A w \in Volumes : wrapper'[w].kind = "wrapper" =>
             wrapper'[w].key \in Range(slots'[w]) \/ Hasty(w)'
      BY <1>3, <1>4, <1>6, <2>1 DEF DiskInv, WrappersOpen
    <2>3. ASSUME NEW q \in Shells, HasKey(q)', wrapper'[cli'[q].volume].kind = "wrapper"
          PROVE  wrapper'[cli'[q].volume].key = cli'[q].n
      <3>1. HasKey(q) /\ cli'[q] = cli[q] /\ q # p
        BY <1>4, <1>5, <2>3 DEF HasKey
      <3>2. cli[q].volume \in Volumes
        BY <3>1, ShellKinds DEF HasKey, Called, Adding, Added, DiskInv, DiskTypeOK, RestOK
      <3>3. wrapper'[cli[q].volume] = wrapper[cli[q].volume]
        BY <1>4, <1>6, <2>3, <3>1, <3>2
      <3>. QED
        BY <2>3, <3>1, <3>3 DEF DiskInv, WrappersOpen
    <2>. QED
      BY <2>2, <2>3 DEF WrappersOpen
  <1>. QED
    BY <1>3, <1>4, <1>5, <1>7, <1>8, <1>9, <1>10, <1>11, QuietShells, BootStays DEF DiskInv

(* A process that empties or fills the log overtakes the others that write. *)
LEMMA OvertakingKeeps ==
    ASSUME DiskInv, NEW p \in Shells, cli[p].pc \in {"truncating", "writing"},
           NEW next \in Shell, next.pc \in {"writing", "idle"},
           cli' = Overtaken(p, next), GoodShell(next)',
           log' \in LogFile, GoodLog(log)', logged' \subseteq Volumes, LogsCover',
           UNCHANGED <<store, slots, keyFile, wrapper, agent, inbox, boot, clock, calls, typed,
                       loose, exposed>>
    PROVE  DiskInv'
  <1>1. /\ cli' \in [Shells -> Shell] /\ cli'[p] = next
        /\ \A q \in Shells : q # p =>
             /\ cli'[q].pc = cli[q].pc
             /\ cli[q].pc # "writing" => cli'[q] = cli[q]
             /\ cli[q].pc = "writing" => cli'[q].records = cli[q].records
    BY OvertakenShells DEF DiskInv
  <1>2. \A q \in Shells : \/ cli'[q] = cli[q]
                          \/ /\ cli[q].pc \in {"truncating", "writing"}
                             /\ cli'[q].pc \in {"writing", "idle"}
    BY <1>1
  <1>3. DiskTypeOK'
    BY <1>1 DEF DiskInv, DiskTypeOK, FilesOK, RestOK
  <1>4. KeyFileIsOwned' /\ NumbersAreFresh'
    BY <1>2 DEF DiskInv, KeyFileIsOwned, NumbersAreFresh, HasKey
  <1>5. SlotsAreOlder'
    BY DEF DiskInv, SlotsAreOlder
  <1>6. NoLiveKeyLeftBehind'
    BY <1>2 DEF DiskInv, NoLiveKeyLeftBehind
  <1>7. WrappersOpen'
    BY <1>2 DEF DiskInv, WrappersOpen, HasKey, Hasty, Unfinished
  <1>8. SlotsAreCounted'
    BY <1>2 DEF DiskInv, SlotsAreCounted
  <1>9. RecordsAreGood'
    <2>1. GoodShell(cli[p])'
      BY <1>1 DEF GoodShell, GoodLog, GoodRecords, GoodSlot
    <2>2. ASSUME NEW q \in Shells, q # p PROVE GoodShell(cli[q])'
      <3>1. PICK y \in Shell : y = cli[q] /\ GoodShell(y)'
        BY GoodStays DEF DiskInv, DiskTypeOK, RestOK, RecordsAreGood
      <3>2. CASE cli[q].pc # "writing"
        <4>1. y = cli'[q]
          BY <1>1, <2>2, <3>1, <3>2
        <4>. QED
          BY <3>1, <4>1 DEF GoodShell, GoodLog, GoodRecords, GoodSlot
      <3>3. CASE cli[q].pc = "writing"
        <4>1. y.pc = "writing" /\ cli'[q].pc = "writing" /\ cli'[q].records = y.records
          BY <1>1, <2>2, <3>1, <3>3
        <4>. QED
          BY <3>1, <4>1 DEF GoodShell, GoodLog, GoodRecords, GoodSlot
      <3>. QED
        BY <3>2, <3>3
    <2>. QED
      BY <2>1, <2>2 DEF RecordsAreGood
  <1>. QED
    BY <1>3, <1>4, <1>5, <1>6, <1>7, <1>8, <1>9, BootStays DEF DiskInv

LEMMA TruncateStep ==
    ASSUME DiskInv, NEW p \in Shells, Truncate(p)
    PROVE  DiskInv'
  <1>1. cli[p] \in Truncating /\ cli[p].pc = "truncating"
    BY ShellKinds DEF Truncate, At, DiskInv, DiskTypeOK, RestOK
  <1>2. PICK stale \in BOOLEAN : stale = (log # cli[p].seen)
    OBVIOUS
  <1>3. PICK next \in Shell : next = [pc |-> "writing", records |-> cli[p].records, stale |-> stale]
    BY <1>1 DEF Shell, Writing, Truncating
  <1>4. next.pc = "writing" /\ next.records = cli[p].records /\ next.stale = stale
    BY <1>3
  <1>5. /\ log' = Torn /\ cli' = Overtaken(p, next)
        /\ UNCHANGED <<store, slots, keyFile, wrapper, agent, inbox, boot, clock, calls, typed,
                       logged, lost, loose, exposed>>
    BY <1>2, <1>3 DEF Truncate, bounds, history
  <1>6. Torn \in LogFile /\ Torn.kind = "torn"
    BY DEF LogFile, Torn
  <1>7. GoodLog(log)'
    BY <1>5, <1>6 DEF GoodLog
  <1>8. GoodShell(next)'
    <2>1. PICK y \in Shell : y = cli[p] /\ GoodShell(y)'
      BY <1>5, GoodStays DEF DiskInv, DiskTypeOK, RestOK, RecordsAreGood
    <2>2. y.pc = "truncating" /\ y.records = next.records
      BY <1>1, <1>4, <2>1
    <2>. QED
      BY <1>4, <2>1, <2>2 DEF GoodShell, GoodRecords, GoodSlot
  <1>9. LogsCover'
    <2>1. /\ cli'[p] = next
          /\ \A q \in Shells : q # p =>
               /\ cli'[q].pc = cli[q].pc
               /\ cli[q].pc # "writing" => cli'[q] = cli[q]
               /\ cli[q].pc = "writing" => cli'[q].stale = TRUE
      BY <1>5, OvertakenShells DEF DiskInv
    <2>2. ~stale => logged \ lost \subseteq DOMAIN next.records
      <3>1. /\ cli[p].seen.kind # "torn"
            /\ cli[p].seen.kind = "log" => DOMAIN cli[p].seen.records \subseteq DOMAIN cli[p].records
        BY <1>1 DEF DiskInv, LogsCover
      <3>2. log.kind \in {"nothing", "torn", "log"}
        BY DEF DiskInv, DiskTypeOK, FilesOK, LogFile, Nothing, Torn
      <3>. QED
        BY <1>2, <1>4, <3>1, <3>2 DEF DiskInv, LogsCover, LogCovers
    <2>3. LogCovers(log)'
      BY <1>5, <1>6 DEF LogCovers
    <2>. QED
      BY <1>4, <1>5, <2>1, <2>2, <2>3 DEF DiskInv, LogsCover
  <1>. QED
    BY <1>1, <1>4, <1>5, <1>6, <1>7, <1>8, <1>9, OvertakingKeeps DEF DiskInv, DiskTypeOK, RestOK

LEMMA WriteLogStep ==
    ASSUME DiskInv, NEW p \in Shells, WriteLog(p)
    PROVE  DiskInv'
  <1>1. cli[p] \in Writing /\ cli[p].pc = "writing"
    BY ShellKinds DEF WriteLog, At, DiskInv, DiskTypeOK, RestOK
  <1>2. PICK records \in RecordTable : records = cli[p].records
    BY <1>1 DEF Writing
  <1>3. DOMAIN records \subseteq Volumes
    BY TableFields
  <1>4. Idle \in Shell /\ Idle.pc = "idle" /\ Torn \in LogFile /\ Torn.kind = "torn"
    BY DEF Shell, Idle, LogFile, Torn
  <1>5. PICK file \in LogFile : file = DrillLog(records)
    BY DEF LogFile, DrillLog
  <1>6. file.kind = "log" /\ file.records = records
    BY <1>5 DEF DrillLog
  <1>7. /\ log' \in {file, Torn} /\ cli' = Overtaken(p, Idle)
        /\ logged' = logged \cup DOMAIN records
        /\ IF cli[p].stale THEN lost' = lost \cup (logged \ DOMAIN records) ELSE lost' = lost
        /\ UNCHANGED <<store, slots, keyFile, wrapper, agent, inbox, boot, clock, calls, typed,
                       loose, exposed>>
    BY <1>2, <1>5 DEF WriteLog, bounds
  <1>8. GoodLog(log)'
    <2>1. PICK y \in Shell : y = cli[p] /\ GoodShell(y)'
      BY <1>7, GoodStays DEF DiskInv, DiskTypeOK, RestOK, RecordsAreGood
    <2>2. y.pc = "writing" /\ y.records = records
      BY <1>1, <1>2, <2>1
    <2>3. GoodRecords(records)'
      BY <2>1, <2>2 DEF GoodShell, GoodRecords, GoodSlot
    <2>4. GoodLog(file)' /\ GoodLog(Torn)'
      BY <1>4, <1>6, <2>3 DEF GoodLog, GoodRecords, GoodSlot
    <2>. QED
      BY <1>7, <2>4 DEF GoodLog, GoodRecords, GoodSlot
  <1>9. GoodShell(Idle)'
    BY DEF GoodShell, Idle
  <1>10. LogsCover'
    <2>1. /\ cli'[p] = Idle
          /\ \A q \in Shells : q # p =>
               /\ cli'[q].pc = cli[q].pc
               /\ cli[q].pc # "writing" => cli'[q] = cli[q]
               /\ cli[q].pc = "writing" => cli'[q].stale = TRUE
      BY <1>4, <1>7, OvertakenShells DEF DiskInv
    <2>2. logged' \ lost' \subseteq DOMAIN records
      BY <1>1, <1>2, <1>7 DEF DiskInv, LogsCover
    <2>3. LogCovers(log)'
      BY <1>4, <1>6, <1>7, <2>2 DEF LogCovers
    <2>. QED
      BY <1>4, <2>1, <2>3 DEF DiskInv, LogsCover
  <1>11. log' \in LogFile /\ logged' \subseteq Volumes
    BY <1>3, <1>4, <1>7 DEF DiskInv, DiskTypeOK, RestOK
  <1>. QED
    BY <1>1, <1>4, <1>7, <1>8, <1>9, <1>10, <1>11, OvertakingKeeps

(***************************************************************************)
(* Boot, and the clock.                                                    *)
(***************************************************************************)

(* Nobody is in an enrolment of Root, so its wrapper has its slot.         *)
LEMMA RebootStep ==
    ASSUME DiskInv, NEW asked \in {NoCredential, "c1"}, Reboot(asked)
    PROVE  DiskInv'
  <1>1. Idle \in Shell /\ Idle \in Agent /\ Idle.pc = "idle" /\ Nothing.kind = "nothing"
    BY DEF Shell, Agent, Idle, Nothing
  <1>2. /\ agent' = Idle /\ inbox' = {} /\ cli' = [p \in Shells |-> Idle] /\ keyFile' = Nothing
        /\ UNCHANGED <<store, slots, wrapper, log, clock, calls, typed, logged, lost, exposed>>
        /\ loose' = loose \cup {cli[p].volume : p \in {p \in Shells : Unfinished(p)}}
    BY DEF Reboot
  <1>3. PICK x \in Boot : x = [pc |-> "starting", file |-> wrapper[Root], asked |-> asked]
    BY DiskAssumption DEF Boot, DiskInv, DiskTypeOK, FilesOK
  <1>4. boot' = x /\ x.pc = "starting" /\ x.file = wrapper[Root]
    BY <1>3 DEF Reboot
  <1>5. cli' \in [Shells -> Shell] /\ \A p \in Shells : cli'[p] = Idle
    BY <1>1, <1>2
  <1>6. loose' \subseteq Volumes
    <2>1. ASSUME NEW p \in Shells, Unfinished(p) PROVE cli[p].volume \in Volumes
      BY <2>1, ShellKinds DEF Unfinished, Called, Adding, Added, DiskInv, DiskTypeOK, RestOK
    <2>. QED
      BY <1>2, <2>1 DEF DiskInv, DiskTypeOK, RestOK
  <1>7. DiskTypeOK'
    BY <1>1, <1>2, <1>4, <1>5, <1>6 DEF DiskInv, DiskTypeOK, FilesOK, RestOK, KeyFile
  <1>8. KeyFileIsOwned' /\ NumbersAreFresh' /\ NoLiveKeyLeftBehind'
    BY <1>1, <1>2, <1>5 DEF KeyFileIsOwned, NumbersAreFresh, NoLiveKeyLeftBehind, HasKey
  <1>9. SlotsAreOlder'
    BY <1>2 DEF DiskInv, SlotsAreOlder
  <1>10. WrappersOpen'
    <2>1. \A v \in Volumes : Hasty(v) => v \in loose'
      BY <1>2 DEF Hasty
    <2>2. \A v \in Volumes : wrapper'[v].kind = "wrapper" =>
             wrapper'[v].key \in Range(slots'[v]) \/ Hasty(v)'
      BY <1>2, <2>1 DEF DiskInv, WrappersOpen, Hasty
    <2>3. \A p \in Shells : ~HasKey(p)'
      BY <1>1, <1>5 DEF HasKey
    <2>. QED
      BY <2>2, <2>3 DEF WrappersOpen
  <1>11. BootFileOpens'
    <2>1. ~Hasty(Root)
      BY DEF Reboot
    <2>2. wrapper[Root].kind = "wrapper" => wrapper[Root].key \in Range(slots[Root])
      BY <2>1, DiskAssumption DEF DiskInv, WrappersOpen
    <2>. QED
      BY <1>2, <1>4, <2>2 DEF BootFileOpens, BootOpens
  <1>. QED
    BY <1>1, <1>2, <1>5, <1>7, <1>8, <1>9, <1>10, <1>11, QuietShells DEF DiskInv

LEMMA OnlyBootMoves ==
    ASSUME DiskInv, boot' \in Boot, BootFileOpens',
           UNCHANGED <<files, agent, inbox, cli, bounds, history>>
    PROVE  DiskInv'
  <1>1. UNCHANGED <<store, slots, keyFile, wrapper, log, agent, inbox, cli, clock, calls, typed,
                    logged, lost, loose, exposed>>
    BY DEF files, bounds, history
  <1>2. DiskTypeOK'
    BY <1>1 DEF DiskInv, DiskTypeOK, FilesOK, RestOK
  <1>3. KeyFileIsOwned' /\ NumbersAreFresh' /\ NoLiveKeyLeftBehind'
    BY <1>1 DEF DiskInv, KeyFileIsOwned, NumbersAreFresh, NoLiveKeyLeftBehind, HasKey
  <1>4. SlotsAreOlder' /\ WrappersOpen'
    BY <1>1 DEF DiskInv, SlotsAreOlder, WrappersOpen, HasKey, Hasty, Unfinished
  <1>. QED
    BY <1>1, <1>2, <1>3, <1>4, QuietShells DEF DiskInv

(* A passphrase always opens.                                              *)
LEMMA BootGivesUp ==
    ASSUME DiskInv, boot' = Off(Passphrase), UNCHANGED slots
    PROVE  boot' \in Boot /\ BootFileOpens'
  <1>1. boot'.pc = "off" /\ boot'.key = Passphrase /\ boot' \in Boot
    BY DEF Off, Passphrase, Boot
  <1>2. Passphrase \in Range(slots[Root])
    BY DiskAssumption DEF DiskInv, SlotsAreOlder
  <1>. QED
    BY <1>1, <1>2 DEF BootFileOpens, BootOpens

LEMMA BootStep ==
    ASSUME DiskInv, StartBoot \/ AcceptPeer \/ FinishHandshake \/ AnswerBoot \/ Deadline
    PROVE  DiskInv'
  <1>1. UNCHANGED <<files, agent, inbox, cli, bounds, history>>
    BY DEF StartBoot, AcceptPeer, FinishHandshake, AnswerBoot, Deadline, Booting
  <1>2. UNCHANGED slots
    BY <1>1 DEF files
  <1>3. CASE Ends
    BY <1>1, <1>2, <1>3, BootGivesUp, OnlyBootMoves DEF Ends
  <1>4. ASSUME NEW pc \in {"accepting", "shaking", "asked"},
               boot.pc \in {"starting", "accepting", "shaking"},
               boot.file.kind = "wrapper",
               boot' = [boot EXCEPT !.pc = pc]
        PROVE  DiskInv'
    <2>1. boot \in [pc : {"starting", "accepting", "shaking", "asked"}, file : Wrapper,
                    asked : {NoCredential, "c1"}]
      BY <1>4 DEF Boot, DiskInv, DiskTypeOK, RestOK
    <2>2. boot' \in Boot /\ boot'.pc = pc /\ boot'.file = boot.file
      BY <1>4, <2>1 DEF Boot
    <2>3. BootFileOpens'
      BY <1>2, <1>4, <2>2 DEF DiskInv, BootFileOpens, BootOpens
    <2>. QED
      BY <1>1, <2>2, <2>3, OnlyBootMoves
  <1>5. ASSUME boot.pc = "asked", boot' = Off(boot.file.key) PROVE DiskInv'
    <2>1. boot \in [pc : {"starting", "accepting", "shaking", "asked"}, file : Wrapper,
                    asked : {NoCredential, "c1"}]
      BY <1>5 DEF Boot, DiskInv, DiskTypeOK, RestOK
    <2>2. boot.file.kind = "wrapper" /\ boot.file.key \in Range(slots[Root])
      BY <1>5 DEF DiskInv, BootFileOpens
    <2>3. boot.file.key \in Nat
      BY <2>1, <2>2 DEF Wrapper, Nothing, Torn
    <2>4. boot'.pc = "off" /\ boot'.key = boot.file.key /\ boot' \in Boot
      BY <1>5, <2>3 DEF Off, Boot
    <2>5. BootFileOpens'
      BY <1>2, <2>2, <2>4 DEF BootFileOpens, BootOpens
    <2>. QED
      BY <1>1, <2>4, <2>5, OnlyBootMoves
  <1>6. CASE StartBoot
    BY <1>3, <1>4, <1>6 DEF StartBoot, Booting
  <1>7. CASE AcceptPeer \/ FinishHandshake
    <2>1. boot.pc \in {"accepting", "shaking"}
      BY <1>7 DEF AcceptPeer, FinishHandshake, Booting
    <2>2. boot.file.kind = "wrapper"
      BY <2>1 DEF DiskInv, BootFileOpens
    <2>. QED
      BY <1>3, <1>4, <1>7, <2>1, <2>2 DEF AcceptPeer, FinishHandshake
  <1>8. CASE AnswerBoot
    BY <1>3, <1>5, <1>8 DEF AnswerBoot, Booting
  <1>9. CASE Deadline
    BY <1>3, <1>9 DEF Deadline
  <1>. QED
    BY <1>6, <1>7, <1>8, <1>9

(* No one is between a passphrase and its date, so the date may change.    *)
LEMMA ClockStep ==
    ASSUME DiskInv, Tick \/ SetBack
    PROVE  DiskInv'
  <1>1. /\ SameDay
        /\ UNCHANGED <<store, slots, keyFile, wrapper, log, agent, inbox, cli, boot, calls, typed,
                       logged, lost, loose, exposed>>
    BY DEF Tick, SetBack, files, history
  <1>2. clock' \in Int
    BY DEF Tick, SetBack, DiskInv, DiskTypeOK, RestOK
  <1>3. DiskTypeOK'
    BY <1>1, <1>2 DEF DiskInv, DiskTypeOK, FilesOK, RestOK
  <1>4. KeyFileIsOwned' /\ NumbersAreFresh' /\ NoLiveKeyLeftBehind'
    BY <1>1 DEF DiskInv, KeyFileIsOwned, NumbersAreFresh, NoLiveKeyLeftBehind, HasKey
  <1>5. SlotsAreOlder' /\ WrappersOpen'
    BY <1>1 DEF DiskInv, SlotsAreOlder, WrappersOpen, HasKey, Hasty, Unfinished
  <1>6. SlotsAreCounted' /\ LogsCover'
    BY <1>1 DEF DiskInv, SlotsAreCounted, LogsCover, LogCovers
  <1>7. RecordsAreGood'
    <2>1. SlotsGrow
      BY <1>1 DEF SlotsGrow
    <2>2. GoodLog(log)'
      BY <1>1, <2>1, GoodStaysAsSlotsGrow
         DEF DiskInv, DiskTypeOK, FilesOK, RecordsAreGood, GoodLog
    <2>3. ASSUME NEW q \in Shells PROVE GoodShell(cli[q])'
      <3>1. PICK y \in Shell : y = cli[q] /\ GoodShell(y)'
        BY <1>1, <2>1, GoodStaysAsSlotsGrow
           DEF DiskInv, DiskTypeOK, RestOK, RecordsAreGood, SameDay
      <3>. QED
        BY <1>1, <3>1 DEF GoodShell, GoodLog, GoodRecords, GoodSlot
    <2>. QED
      BY <2>2, <2>3 DEF RecordsAreGood
  <1>. QED
    BY <1>1, <1>3, <1>4, <1>5, <1>6, <1>7, BootStays DEF DiskInv

(***************************************************************************)
(* The invariant.                                                          *)
(***************************************************************************)

LEMMA DiskInitInv == Init => DiskInv
  <1>. SUFFICES ASSUME Init PROVE DiskInv
    OBVIOUS
  <1>1. /\ Idle.pc = "idle" /\ Idle \in Shell /\ Idle \in Agent
        /\ Nothing.kind = "nothing" /\ Nothing \in LogFile /\ Nothing \in Wrapper
        /\ Nothing \in KeyFile
    BY DEF Idle, Shell, Agent, Nothing, LogFile, Wrapper, KeyFile
  <1>2. /\ Off(Passphrase) \in Boot /\ Off(Passphrase).pc = "off"
        /\ Off(Passphrase).key = Passphrase
    BY DEF Off, Passphrase, Boot
  <1>3. /\ <<Passphrase>> \in Seq(Nat) /\ Range(<<Passphrase>>) = {Passphrase}
        /\ Passphrase \in 0 .. 0
    BY DEF Passphrase, Range
  <1>4. \A p \in Shells : cli[p] = Idle
    BY DEF Init
  <1>5. DiskTypeOK
    <2>1. FilesOK
      <3>1. PICK one \in Seq(Nat) : one = <<Passphrase>>
        BY <1>3
      <3>2. slots = [v \in Volumes |-> one]
        BY <3>1 DEF Init
      <3>3. slots \in [Volumes -> Seq(Nat)]
        BY <3>2
      <3>. QED
        BY <1>1, <3>3 DEF Init, FilesOK
    <2>2. RestOK
      <3>1. agent \in Agent /\ boot \in Boot /\ cli \in [Shells -> Shell]
        BY <1>1, <1>2 DEF Init
      <3>2. clock \in Int /\ calls \in Nat /\ typed \in [Volumes -> SUBSET Int]
        BY DEF Init
      <3>3. exposed \in BOOLEAN
        BY DEF Init
      <3>. QED
        BY <3>1, <3>2, <3>3 DEF Init, RestOK
    <2>. QED
      BY <2>1, <2>2 DEF DiskTypeOK
  <1>6. KeyFileIsOwned /\ NumbersAreFresh /\ NoLiveKeyLeftBehind
    BY <1>1, <1>4 DEF Init, KeyFileIsOwned, NumbersAreFresh, NoLiveKeyLeftBehind, HasKey
  <1>7. SlotsAreOlder
    BY <1>1, <1>3 DEF Init, SlotsAreOlder
  <1>8. WrappersOpen
    BY <1>1, <1>4 DEF Init, WrappersOpen, HasKey
  <1>9. BootFileOpens
    <2>1. slots[Root] = <<Passphrase>>
      BY DiskAssumption DEF Init
    <2>. QED
      BY <1>2, <1>3, <2>1 DEF Init, BootFileOpens, BootOpens
  <1>10. SlotsAreCounted
    BY <1>1, <1>4 DEF SlotsAreCounted
  <1>11. RecordsAreGood
    BY <1>1, <1>4 DEF Init, RecordsAreGood, GoodLog, GoodShell
  <1>12. LogsCover
    BY <1>1, <1>4 DEF Init, LogsCover, LogCovers
  <1>. QED
    BY <1>5, <1>6, <1>7, <1>8, <1>9, <1>10, <1>11, <1>12 DEF DiskInv

LEMMA DiskStutters ==
    ASSUME DiskInv, UNCHANGED vars
    PROVE  DiskInv'
  <1>1. UNCHANGED <<files, agent, inbox, cli, bounds, history>> /\ UNCHANGED <<slots, boot>>
    BY DEF vars, files
  <1>2. boot' \in Boot
    BY <1>1 DEF DiskInv, DiskTypeOK, RestOK
  <1>. QED
    BY <1>1, <1>2, BootStays, OnlyBootMoves

LEMMA DiskNextInv == DiskInv /\ [Next]_vars => DiskInv'
  <1>. SUFFICES ASSUME DiskInv, [Next]_vars PROVE DiskInv'
    OBVIOUS
  <1>1. ASSUME NEW p \in Shells, NEW v \in Volumes, NEW asked \in {NoCredential, "c1"},
               Enrol(p, v, asked)
        PROVE  DiskInv'
    BY <1>1, EnrolStep
  <1>2. ASSUME NEW c \in inbox, BeginEnrol(c) \/ RefuseEnrol(c) PROVE DiskInv'
    BY <1>2, BeginEnrolStep, RefuseEnrolStep
  <1>3. CASE Enrolled \/ NotEnrolled \/ WriteKey \/ WriteWrapper
    BY <1>3, EnrolledStep, NotEnrolledStep, WriteKeyStep, WriteWrapperStep
  <1>4. ASSUME NEW p \in Shells,
               \/ GiveUp(p) \/ DumpBefore(p) \/ Count(p) \/ ReadForEnrolment(p) \/ Type(p)
               \/ Kill(p) \/ \E v \in Volumes : Drill(p, v)
        PROVE  DiskInv'
    BY <1>4, GiveUpStep, DumpBeforeStep, CountStep, ReadForEnrolmentStep, TypeStep, KillStep,
       DrillStep
  <1>5. ASSUME NEW p \in Shells,
               AddKeyslot(p) \/ Shred(p) \/ RemoveWrapper(p) \/ Truncate(p) \/ WriteLog(p)
        PROVE  DiskInv'
    BY <1>5, AddKeyslotStep, ShredStep, RemoveWrapperStep, TruncateStep, WriteLogStep
  <1>6. ASSUME NEW asked \in {NoCredential, "c1"}, Reboot(asked) PROVE DiskInv'
    BY <1>6, RebootStep
  <1>7. CASE StartBoot \/ AcceptPeer \/ FinishHandshake \/ AnswerBoot \/ Deadline
    BY <1>7, BootStep
  <1>8. CASE Tick \/ SetBack
    BY <1>8, ClockStep
  <1>9. CASE UNCHANGED vars
    BY <1>9, DiskStutters
  <1>. QED
    BY <1>1, <1>2, <1>3, <1>4, <1>5, <1>6, <1>7, <1>8, <1>9 DEF Next

LEMMA DiskInvariant == Spec => []DiskInv
  BY DiskInitInv, DiskNextInv, PTL DEF Spec

(***************************************************************************)
(* The theorems.                                                           *)
(***************************************************************************)

(* The files, the agent, each command line and the initrd program are      *)
(* always well typed.                                                      *)
THEOREM DiskTypeCorrect == Spec => []DiskTypeOK
  <1>1. DiskInv => DiskTypeOK
    BY DEF DiskInv
  <1>. QED
    BY <1>1, DiskInvariant, PTL

(* What the initrd prints opens the volume: the wrapper in an image that   *)
(* was built outside every enrolment is of a key that has a slot, however  *)
(* many enrolments failed, were killed or crossed before it.               *)
THEOREM ImagesOpenTheDisk == Spec => []BootOpens
  <1>1. DiskInv => BootOpens
    BY DEF DiskInv, BootFileOpens
  <1>. QED
    BY <1>1, DiskInvariant, PTL

(* A key that opens a volume is in the key file only while a command line  *)
(* that is about to remove it runs, or after one was killed there: only    *)
(* the holder of the file adds a slot, and only its own key.               *)
THEOREM LiveKeysAreRemoved == Spec => []NoLiveKeyLeftBehind
  <1>1. DiskInv => NoLiveKeyLeftBehind
    BY DEF DiskInv
  <1>. QED
    BY <1>1, DiskInvariant, PTL

(* The slot in a record carries the key of the enrolment it records,       *)
(* though it was told from two counts of the slots, and other enrolments   *)
(* add theirs: of exactly one new slot, that of the enrolment is the one.  *)
THEOREM RecordsNameThePhonesSlot == Spec => []PhoneSlotIsThePhones
  <1>1. DiskInv => PhoneSlotIsThePhones
    BY DEF DiskInv, RecordsAreGood, GoodLog, GoodRecords, GoodSlot, PhoneSlotIsThePhones
  <1>. QED
    BY <1>1, DiskInvariant, PTL

(* `drill --check' is content only when a passphrase opened every volume   *)
(* that is known to the log within MaxAge days: days in the log are days   *)
(* somebody typed, and nothing but an overwriting older copy takes a       *)
(* volume out of it.                                                       *)
THEOREM DrillCheckIsHonest == Spec => []CheckIsHonest
  <1>1. DiskInv => CheckIsHonest
    <2>. SUFFICES ASSUME DiskInv, CheckGrants, NEW v \in logged \ lost
                  PROVE  \E day \in typed[v] : clock - day \in 0 .. MaxAge
      BY DEF CheckIsHonest
    <2>1. PICK records \in Records(log) : Overdue(records) = {}
      BY DEF CheckGrants
    <2>2. /\ records \in RecordTable
          /\ \/ log.kind = "nothing"
             \/ log.kind = "log" /\ records = log.records
      BY ReadRecords DEF DiskInv, DiskTypeOK, FilesOK
    <2>3. v \in DOMAIN records /\ GoodRecords(records)
      BY <2>2 DEF DiskInv, LogsCover, LogCovers, RecordsAreGood, GoodLog
    <2>4. PICK day \in Int : day = records[v].day /\ day \in typed[v]
      BY <2>2, <2>3, TableFields DEF GoodRecords
    <2>5. ~(clock - day > MaxAge) /\ ~(clock - day < 0)
      BY <2>1, <2>3, <2>4 DEF Overdue
    <2>6. clock - day \in 0 .. MaxAge
      BY <2>5, DiskAssumption DEF DiskInv, DiskTypeOK, RestOK
    <2>. QED
      BY <2>4, <2>6
  <1>. QED
    BY <1>1, DiskInvariant, PTL
=============================================================================
