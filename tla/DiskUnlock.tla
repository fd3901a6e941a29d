----------------------------- MODULE DiskUnlock -----------------------------
(***************************************************************************)
(* Unlocking a disk at boot with a phone: `phone-auth luks enroll' and     *)
(* `luks drill' (phone-auth-cli main.rs, drill.rs), the agent's part of an *)
(* enrolment (service.rs luks_enroll, luks.rs), and the initrd program     *)
(* that asks the phone (phone-auth-initrd main.rs, network.rs).            *)
(*                                                                         *)
(* Command lines are processes of their own, each step of one a file or a  *)
(* cryptsetup call; the agent serves one enrolment at a time.  Command n   *)
(* enrols volume key n.  The key file is the default one, in memory: a     *)
(* reboot empties it.  Only Root is unlocked at boot, with the wrapper and *)
(* the pairing store that were in place when the image was built.          *)
(***************************************************************************)
EXTENDS Integers, Sequences, FiniteSets, Functions

CONSTANTS
    Volumes, Root,
    Stores,             \* what the pairing store may hold: sets of credentials
    Shells,             \* command lines
    MaxAge,             \* --max-age, in days
    MaxCalls,           \* bound: commands
    MaxDay,             \* bound: days the clock shows
    MaxStops            \* bound: kills, reboots and clocks set back

ASSUME DiskAssumption == Root \in Volumes /\ MaxAge \in Nat

VARIABLES
    store,              \* paired credentials: [id, disk, hardware]
    slots,              \* volume -> the keys of its keyslots, by number
    keyFile,            \* the file a volume key is handed over in
    wrapper,            \* volume -> its wrapper file
    log,                \* luks-drill.json
    agent,              \* the enrolment the agent is in
    inbox,              \* calls the agent has not begun
    cli,                \* shell -> what it is doing
    boot,               \* the initrd program, and the wrapper in its image
    clock, calls, stops,
    typed,              \* history: volume -> days a passphrase opened it
    logged,             \* history: volumes that were put in the log
    lost,               \* history: those a stale copy of the log overwrote
    loose,              \* history: volumes whose wrapper was left without a slot
    exposed             \* history: a command line was killed holding the key file

files == <<store, slots, keyFile, wrapper, log>>
history == <<typed, logged, lost, loose, exposed>>
bounds == <<clock, calls, stops>>
vars == <<files, agent, inbox, cli, boot, bounds, history>>

Idle == [pc |-> "idle"]
Nothing == [kind |-> "nothing"]
Claimed == [kind |-> "claimed"]
Torn == [kind |-> "torn"]                   \* does not decode
Key(n) == [kind |-> "key", key |-> n]
WrappedVolumeKey(n, id) == [kind |-> "wrapper", key |-> n, credential |-> id]
DrillLog(records) == [kind |-> "log", records |-> records]
NoRecords == [v \in {} |-> 0]

Passphrase == 0                             \* the key somebody types
Unnamed == 0                                \* slots are numbered from 1 here
NoCredential == "none"

Off(key) == [pc |-> "off", key |-> key]      \* the volume was opened with this

Init ==
    /\ store \in Stores
    /\ slots = [v \in Volumes |-> <<Passphrase>>]
    /\ keyFile = Nothing /\ wrapper = [v \in Volumes |-> Nothing]
    /\ log = Nothing
    /\ agent = Idle /\ inbox = {} /\ cli = [p \in Shells |-> Idle]
    /\ boot = Off(Passphrase)
    /\ clock = 0 /\ calls = 0 /\ stops = 0
    /\ typed = [v \in Volumes |-> {}] /\ logged = {} /\ lost = {} /\ loose = {}
    /\ exposed = FALSE

Up == boot.pc = "off"
At(p, pc) == Up /\ cli[p].pc = pc
Goes(p, pc) == cli' = [cli EXCEPT ![p].pc = pc]
Exits(p) == cli' = [cli EXCEPT ![p] = Idle]

-----------------------------------------------------------------------------
(* The agent. *)

(* select_boot_credential: the one asked for, or the only one for disks;   *)
(* and it has to be hardware-backed.                                       *)
SelectedForDisk(asked) ==
    LET disk == {c \in store : c.disk /\ (asked = NoCredential \/ c.id = asked)}
    IN {c.id : c \in {c \in disk : Cardinality(disk) = 1 /\ c.hardware}}

(* A reply reaches the command line that still waits for it. *)
Waiting(n) == \E p \in Shells : cli[p].pc = "waiting" /\ cli[p].n = n
Replied(n, pc) ==
    [p \in Shells |->
        IF cli[p].pc = "waiting" /\ cli[p].n = n
        THEN IF pc = "idle" THEN Idle ELSE [cli[p] EXCEPT !.pc = pc]
        ELSE cli[p]]
Fails(n) == agent' = Idle /\ cli' = Replied(n, "idle")

(* The key file is claimed before the phone is asked. *)
BeginEnrol(c) ==
    /\ Up /\ agent = Idle /\ inbox' = inbox \ {c}
    /\ keyFile = Nothing /\ keyFile' = Claimed
    /\ \E id \in SelectedForDisk(c.asked) :
         agent' = [pc |-> "asking", volume |-> c.volume, n |-> c.n, credential |-> id]
    /\ UNCHANGED <<store, slots, wrapper, log, cli, boot, bounds, history>>

RefuseEnrol(c) ==
    /\ Up /\ agent = Idle /\ inbox' = inbox \ {c}
    /\ Fails(c.n)
    /\ UNCHANGED <<files, boot, bounds, history>>

(* luks::enroll: the phone wraps the key with the credential it was asked  *)
(* for; or it declines, is late, or answers with another credential, and   *)
(* the claimed file is dropped.                                            *)
Enrolled ==
    /\ Up /\ agent.pc = "asking"
    /\ agent' = [agent EXCEPT !.pc = "wrapped"]
    /\ UNCHANGED <<files, inbox, cli, boot, bounds, history>>

NotEnrolled ==
    /\ Up /\ agent.pc = "asking"
    /\ keyFile' = Nothing
    /\ Fails(agent.n)
    /\ UNCHANGED <<store, slots, wrapper, log, inbox, boot, bounds, history>>

(* RecoverySlot::write_bytes. *)
WriteKey ==
    /\ Up /\ agent.pc = "wrapped"
    /\ \/ keyFile' = Key(agent.n) /\ agent' = [agent EXCEPT !.pc = "written"] /\ UNCHANGED cli
       \/ keyFile' = Nothing /\ Fails(agent.n)
    /\ UNCHANGED <<store, slots, wrapper, log, inbox, boot, bounds, history>>

(* The wrapper is written over whatever is there; a write that fails may   *)
(* leave half of it, and leaves the key file.                              *)
WriteWrapper ==
    LET v == agent.volume IN
    /\ Up /\ agent.pc = "written" /\ agent' = Idle
    /\ \/ /\ wrapper' = [wrapper EXCEPT ![v] = WrappedVolumeKey(agent.n, agent.credential)]
          /\ cli' = Replied(agent.n, "dumping")
          /\ loose' = IF Waiting(agent.n) THEN loose \ {v} ELSE loose \cup {v}
       \/ /\ wrapper' \in {wrapper, [wrapper EXCEPT ![v] = Torn]}
          /\ cli' = Replied(agent.n, "idle")
          /\ UNCHANGED loose
    /\ UNCHANGED <<store, slots, keyFile, log, inbox, boot, bounds,
                   typed, logged, lost, exposed>>

-----------------------------------------------------------------------------
(* luks enroll. *)
Enrol(p, v, asked) ==
    /\ At(p, "idle") /\ calls < MaxCalls
    /\ calls' = calls + 1
    /\ cli' = [cli EXCEPT ![p] = [pc |-> "waiting", volume |-> v, n |-> calls']]
    /\ inbox' = inbox \cup {[volume |-> v, n |-> calls', asked |-> asked]}
    /\ UNCHANGED <<files, agent, boot, clock, stops, history>>

(* READ_TIMEOUT: the agent goes on. *)
GiveUp(p) ==
    /\ At(p, "waiting") /\ Exits(p)
    /\ UNCHANGED <<files, agent, inbox, boot, bounds, history>>

(* enabled_keyslots, which fails if luksDump does. *)
Census(v) == {DOMAIN slots[v], {}}

DumpBefore(p) ==
    /\ At(p, "dumping")
    /\ \E before \in Census(cli[p].volume) :
         cli' = [cli EXCEPT ![p] =
            [pc |-> "adding", volume |-> @.volume, n |-> @.n, before |-> before]]
    /\ UNCHANGED <<files, agent, inbox, boot, bounds, history>>

(* luksAddKey asks for a passphrase and adds what is in the key file. *)
AddKeyslot(p) ==
    LET v == cli[p].volume
        exits(added) ==
            cli' = [cli EXCEPT ![p] = [pc |-> "shredding", volume |-> v, n |-> @.n,
                                       before |-> @.before, added |-> added]]
    IN
    /\ At(p, "adding")
    /\ \/ /\ keyFile.kind = "key"
          /\ slots' = [slots EXCEPT ![v] = Append(@, keyFile.key)]
          /\ typed' = [typed EXCEPT ![v] = @ \cup {clock}]
          /\ exits(TRUE)
       \/ UNCHANGED <<slots, typed>> /\ exits(FALSE)
    /\ UNCHANGED <<store, keyFile, wrapper, log, agent, inbox, boot, bounds,
                   logged, lost, loose, exposed>>

(* Mutant of Shred: the key file goes only when no slot was added. *)
ShredOnFailure(p) ==
    /\ At(p, "shredding")
    /\ keyFile' = IF cli[p].added THEN keyFile ELSE Nothing
    /\ Goes(p, IF cli[p].added THEN "counting" ELSE "removing")
    /\ UNCHANGED <<store, slots, wrapper, log, agent, inbox, boot, bounds, history>>

Shred(p) ==
    /\ At(p, "shredding")
    /\ keyFile' = Nothing
    /\ Goes(p, IF cli[p].added THEN "counting" ELSE "removing")
    /\ UNCHANGED <<store, slots, wrapper, log, agent, inbox, boot, bounds, history>>

(* Mutant of RemoveWrapper: it stays. *)
KeepWrapper(p) ==
    /\ At(p, "removing") /\ Exits(p)
    /\ UNCHANGED <<files, agent, inbox, boot, bounds, history>>

(* "It would send every boot to the phone for a key no slot carries." *)
RemoveWrapper(p) ==
    /\ At(p, "removing") /\ Exits(p)
    /\ wrapper' = [wrapper EXCEPT ![cli[p].volume] = Nothing]
    /\ UNCHANGED <<store, slots, keyFile, log, agent, inbox, boot, bounds, history>>

(* Mutant of PhoneSlot: the last of the new slots. *)
LastSlot(before, after) ==
    IF before = {} \/ after \ before = {} THEN Unnamed
    ELSE CHOOSE s \in after \ before : \A t \in after \ before : t <= s

(* The phone's slot is known only when exactly one appeared. *)
PhoneSlot(before, after) ==
    IF before # {} /\ \E s \in after : after \ before = {s}
    THEN CHOOSE s \in after : after \ before = {s} ELSE Unnamed

Count(p) ==
    /\ At(p, "counting")
    /\ \E after \in Census(cli[p].volume) :
         cli' = [cli EXCEPT ![p] = [pc |-> "recording", volume |-> @.volume, n |-> @.n,
                                    slot |-> PhoneSlot(@.before, after)]]
    /\ UNCHANGED <<files, agent, inbox, boot, bounds, history>>

-----------------------------------------------------------------------------
(* luks-drill.json. *)

(* drill::read: no file is an empty log, and one that does not parse is an *)
(* error.                                                                  *)
Records(file) ==
    CASE file.kind = "nothing" -> {NoRecords}
      [] file.kind = "log"     -> {file.records}
      [] OTHER                 -> {}

DrillRecord(slot, key, day, drilled) ==
    [slot |-> slot, key |-> key, day |-> day, drilled |-> drilled]

(* Mutant of Inserted: the other volumes' records are not carried over. *)
InsertedAlone(records, v, record) == [d \in {v} |-> record]

Inserted(records, v, record) ==
    [d \in DOMAIN records \cup {v} |-> IF d = v THEN record ELSE records[d]]

Writes(p, v, seen, records) ==
    cli' = [cli EXCEPT ![p] = [pc |-> "truncating", volume |-> v, seen |-> seen,
                               records |-> records]]

(* record_enrolment: luksAddKey just asked for a passphrase and got it. *)
ReadForEnrolment(p) ==
    LET x == cli[p] IN
    /\ At(p, "recording")
    /\ \/ \E records \in Records(log) :
            Writes(p, x.volume, log,
                   Inserted(records, x.volume, DrillRecord(x.slot, x.n, clock, Unnamed)))
       \/ Records(log) = {} /\ Exits(p)
    /\ UNCHANGED <<files, agent, inbox, boot, bounds, history>>

(* luks_drill reads the log, and then waits for somebody to type. *)
Drill(p, v) ==
    /\ At(p, "idle") /\ calls < MaxCalls
    /\ calls' = calls + 1
    /\ Records(log) # {}
    /\ cli' = [cli EXCEPT ![p] = [pc |-> "typing", volume |-> v, seen |-> log]]
    /\ UNCHANGED <<files, agent, inbox, boot, clock, stops, history>>

(* What was typed opens a slot, which cryptsetup names or not; the phone's *)
(* own proves nothing.  Or it opens none.                                  *)
Type(p) ==
    LET x == cli[p] IN
    /\ At(p, "typing")
    /\ \/ Exits(p) /\ UNCHANGED typed
       \/ \E records \in Records(x.seen), s \in DOMAIN slots[x.volume] \cup {Unnamed} :
            LET old == IF x.volume \in DOMAIN records THEN records[x.volume]
                       ELSE DrillRecord(Unnamed, Passphrase, clock, Unnamed)
            IN
            /\ s = Unnamed \/ s # old.slot
            /\ Writes(p, x.volume, x.seen,
                      Inserted(records, x.volume, DrillRecord(old.slot, old.key, clock, s)))
            /\ typed' = [typed EXCEPT ![x.volume] = @ \cup {clock}]
    /\ UNCHANGED <<files, agent, inbox, boot, bounds, logged, lost, loose, exposed>>

(* drill::write: the file is emptied, and then filled.  Two writers at     *)
(* once may leave what neither of them wrote.                              *)
Overtaken(p, next) ==
    [q \in Shells |-> IF q = p THEN next
                      ELSE IF cli[q].pc = "writing" THEN [cli[q] EXCEPT !.stale = TRUE]
                      ELSE cli[q]]

Truncate(p) ==
    /\ At(p, "truncating")
    /\ log' = Torn
    /\ cli' = Overtaken(p, [pc |-> "writing", records |-> cli[p].records,
                            stale |-> log # cli[p].seen])
    /\ UNCHANGED <<store, slots, keyFile, wrapper, agent, inbox, boot, bounds, history>>

WriteLog(p) ==
    LET x == cli[p] IN
    /\ At(p, "writing") /\ cli' = Overtaken(p, Idle)
    /\ \/ log' = DrillLog(x.records)
       \/ log # Torn /\ log' = Torn
    /\ logged' = logged \cup DOMAIN x.records
    /\ lost' = IF x.stale THEN lost \cup (logged \ DOMAIN x.records) ELSE lost
    /\ UNCHANGED <<store, slots, keyFile, wrapper, agent, inbox, boot, bounds,
                   typed, loose, exposed>>

(* drill::overdue and drill_check: a date in the future is not fresh. *)
Overdue(records) ==
    {v \in DOMAIN records : clock - records[v].day > MaxAge \/ clock - records[v].day < 0}

CheckGrants == \E records \in Records(log) : Overdue(records) = {}

-----------------------------------------------------------------------------
(* Boot. *)

(* select_credential: hardware-backed ones only, and never a guess. *)
SelectedAtBoot(asked) ==
    LET usable == {c \in store : c.disk /\ c.hardware /\ (asked = NoCredential \/ c.id = asked)}
    IN {c.id : c \in {c \in usable : Cardinality(usable) = 1}}

(* The wrapper of an enrolment that is not finished, or never will be. *)
Unfinished(p) ==
    cli[p].pc \in {"dumping", "adding", "removing"} \/ (cli[p].pc = "shredding" /\ ~cli[p].added)
Hasty(v) == v \in loose \/ \E p \in Shells : Unfinished(p) /\ cli[p].volume = v

(* The image is built again, with the wrapper that is there and no         *)
(* enrolment of the volume in progress, and booted.  An older image boots  *)
(* no worse: slots are only added.  The key file was in memory.            *)
Reboot(asked) ==
    /\ Up /\ stops < MaxStops /\ stops' = stops + 1
    /\ ~Hasty(Root)
    /\ agent' = Idle /\ inbox' = {} /\ cli' = [p \in Shells |-> Idle]
    /\ keyFile' = Nothing
    /\ loose' = loose \cup {cli[p].volume : p \in {p \in Shells : Unfinished(p)}}
    /\ boot' = [pc |-> "starting", file |-> wrapper[Root], asked |-> asked]
    /\ UNCHANGED <<store, slots, wrapper, log, clock, calls,
                   typed, logged, lost, exposed>>

Ends == boot' = Off(Passphrase)
Booting(pc) ==
    /\ boot.pc = pc
    /\ UNCHANGED <<files, agent, inbox, cli, bounds, history>>

(* run: a credential, its wrapper, and a listener. *)
StartBoot ==
    /\ Booting("starting")
    /\ \/ /\ boot.file.kind = "wrapper" /\ boot.file.credential \in SelectedAtBoot(boot.asked)
          /\ boot' = [boot EXCEPT !.pc = "accepting"]
       \/ Ends

(* WiredListener::accept takes the first connection, whoever it is, and    *)
(* only the paired phone completes the handshake.                          *)
AcceptPeer == Booting("accepting") /\ boot' = [boot EXCEPT !.pc = "shaking"]

FinishHandshake ==
    /\ Booting("shaking")
    /\ boot' = [boot EXCEPT !.pc = "asked"] \/ Ends

(* request_disk_key: the phone opens the wrapper it is sent, or refuses. *)
AnswerBoot ==
    /\ Booting("asked")
    /\ Ends \/ boot' = Off(boot.file.key)

(* Mutant of Deadline: it bounds the wait for a connection, no more. *)
DeadlineToAccept ==
    /\ Booting("accepting")
    /\ Ends

(* One deadline for all of it. *)
Deadline ==
    /\ \E pc \in {"accepting", "shaking", "asked"} : Booting(pc)
    /\ Ends

-----------------------------------------------------------------------------
Kill(p) ==
    /\ Up /\ cli[p] # Idle /\ Exits(p)
    /\ stops < MaxStops /\ stops' = stops + 1
    /\ loose' = IF Unfinished(p) THEN loose \cup {cli[p].volume} ELSE loose
    /\ exposed' = (exposed \/ cli[p].pc = "shredding")
    /\ UNCHANGED <<files, agent, inbox, boot, clock, calls, typed, logged, lost>>

(* No day passes between a passphrase that was typed and the date read for *)
(* it.                                                                     *)
SameDay == \A p \in Shells : cli[p].pc \notin {"shredding", "counting", "recording"}

Tick ==
    /\ Up /\ SameDay /\ clock < MaxDay /\ clock' = clock + 1
    /\ UNCHANGED <<files, agent, inbox, cli, boot, calls, stops, history>>

(* A clock that had run ahead is put right. *)
SetBack ==
    /\ Up /\ SameDay /\ stops < MaxStops /\ stops' = stops + 1
    /\ clock > 0 /\ clock' \in 0 .. clock - 1
    /\ UNCHANGED <<files, agent, inbox, cli, boot, calls, history>>

Next ==
    \/ \E p \in Shells, v \in Volumes, asked \in {NoCredential, "c1"} : Enrol(p, v, asked)
    \/ \E c \in inbox : BeginEnrol(c) \/ RefuseEnrol(c)
    \/ Enrolled \/ NotEnrolled \/ WriteKey \/ WriteWrapper
    \/ \E p \in Shells :
         \/ GiveUp(p) \/ DumpBefore(p) \/ AddKeyslot(p) \/ Shred(p) \/ RemoveWrapper(p) \/ Count(p)
         \/ ReadForEnrolment(p) \/ Type(p) \/ Truncate(p) \/ WriteLog(p) \/ Kill(p)
         \/ \E v \in Volumes : Drill(p, v)
    \/ \E asked \in {NoCredential, "c1"} : Reboot(asked)
    \/ StartBoot \/ AcceptPeer \/ FinishHandshake \/ AnswerBoot \/ Deadline
    \/ Tick \/ SetBack

(* The initrd program runs, and its deadline passes; nothing is assumed of *)
(* the phone.                                                              *)
Spec == Init /\ [][Next]_vars /\ WF_vars(StartBoot) /\ WF_vars(Deadline)

-----------------------------------------------------------------------------
(* "If the keyslot cannot be added the wrapper is thrown away rather than  *)
(* left pointing at a key no slot carries" (luks): what the initrd prints  *)
(* opens the volume, whatever enrolments failed or crossed each other      *)
(* before its image was built, unless the image was built in the middle of *)
(* one, or of one that was cut short there.                                *)
BootOpens ==
    boot.pc = "off" => boot.key \in Range(slots[Root])

(* "Recovery is mandatory": boot always gets on to the passphrase prompt,  *)
(* whoever connects and whatever a peer leaves undone (accept, "under one  *)
(* end-to-end timeout").                                                   *)
BootEnds == boot.pc # "off" ~> boot.pc = "off"

(* "This deletes it as soon as cryptsetup is done" (luks): a key that      *)
(* opens a volume is in no file unless a command line is about to remove   *)
(* it or was killed there.                                                 *)
NoLiveKeyLeftBehind ==
    keyFile.kind = "key" /\ (\E v \in Volumes : keyFile.key \in Range(slots[v])) =>
        exposed \/ \E p \in Shells : cli[p].pc = "shredding"

(* "Guessing which is the phone's would be worse than admitting it is      *)
(* unknown" (luks): the slot a record names carries the key of the         *)
(* enrolment it records, though slots are counted before and after and     *)
(* another enrolment may come in between.                                  *)
PhoneSlotIsThePhones ==
    log.kind = "log" => \A v \in DOMAIN log.records :
        LET r == log.records[v] IN r.slot # Unnamed => slots[v][r.slot] = r.key

(* "A silent reset here would answer `no volume is overdue' forever"       *)
(* (drill.rs): when `drill --check' is content, a passphrase opened every  *)
(* volume it was told of in the days the clock says, through kills in the  *)
(* middle of a write, and clocks put right.  The exception is a volume     *)
(* that another process's older copy of the log overwrote.                 *)
CheckIsHonest ==
    CheckGrants => \A v \in logged \ lost :
        \E day \in typed[v] : clock - day \in 0 .. MaxAge
=============================================================================
