------------------------------- MODULE Locker -------------------------------
(***************************************************************************)
(* The file locker: lock_file, unlock_file and rekey_file of the engine    *)
(* (phone-auth-locker engine.rs), what the agent adds around them          *)
(* (service.rs locker_lock, locker_unlock, locker_rekey) and its exchanges *)
(* with the phone (agent locker.rs), the command line's batches (main.rs   *)
(* locker_batch) and its unlock with a recovery code (locker_recover).     *)
(*                                                                         *)
(* One step per change of the directory, per chunk read and per exchange   *)
(* with a phone: a process may be killed, or meet an error, between any    *)
(* two.  The agent's calls exclude each other behind its mutex; a recovery *)
(* is a process of its own, and so is whoever edits a document.  A         *)
(* temporary file has a random name nobody else uses, so it is part of its *)
(* process and the directory holds published files only.                   *)
(***************************************************************************)
EXTENDS LockerFormat, FiniteSets

CONSTANTS
    Names,              \* paths of documents
    CodeFiles,          \* paths of recovery-code files
    Batches,            \* what the command line may be asked: [op, keep, new, targets]
    Recoveries,         \* containers the command line may be asked to recover
    Edited,             \* documents somebody saves now and then
    Directories,        \* what the directory may hold at first: Paths -> file
    RecoveryKeys,       \* the recovery key of call n: 0 .. MaxCalls -> bytes
    MaxCalls,           \* bound: calls and recoveries in a behaviour
    MaxSaves,           \* bound: saves by an editor
    MaxFaults           \* bound: files the disk damages

VARIABLES
    fs,                 \* path -> the file there, or Nothing
    proc,               \* "agent", "cli" -> the locker operation it is in
    inbox,              \* calls the agent has not begun
    cli,                \* the command line's batch
    calls,              \* calls asked; also makes data keys and codes distinct
    saved,              \* history: document -> what was saved in it, in order
    saves,              \* saves by an editor so far
    raced,              \* history: documents saved while they were being locked
    overtaken,          \* history: documents two operations published over each other
    faults,             \* history: <<document, when>> the disk damaged
    unsaved,            \* history: new codes of rekeys that are in no file yet
    done                \* history: calls that succeeded

vars == <<fs, proc, inbox, cli, calls, saved, saves, raced, overtaken, faults, unsaved, done>>
history == <<saved, saves, raced, overtaken, faults>>

Procs == {"agent", "cli"}
Paths == Names \X {"", "balock", "rekey-new", "rekey-old"} \cup {"code"} \X CodeFiles

Nothing == [kind |-> "nothing"]
Claimed == [kind |-> "claimed"]             \* an empty recovery-code file
Code(n) == [kind |-> "code", code |-> n]

(* `doc' says which document a file stands for, whatever its name. *)
Plain(d, content) == [kind |-> "plain", doc |-> d, content |-> content]

(* A container with its two wrappers, the phone's and the recovery code's. *)
Container(d, core, name, phone, n, chunks) ==
    [kind |-> "container", doc |-> d, core |-> core, meta |-> Metadata(core, name),
     phone |-> phone, recovery |-> Wrapper(core, n), chunks |-> chunks]

Credential == 0                             \* the phone's locker credential

Idle == [pc |-> "idle"]

(* A block is the save that wrote it, 0 before all saves, and its place.   *)
Blocks == Nat \X Nat

(* What a lock of long ago left of document d, with code 0.                *)
Boxed(d, content) ==
    LET core == Core(0, Len(content)) IN
    Container(d, core, d, Wrapper(core, Credential), 0,
        [i \in 1 .. ChunkCount(core) |-> SealChunk(core, i, Part(core, i, content))])

FirstContent(dir, d) ==
    IF dir[<<d, "">>].kind = "plain" THEN dir[<<d, "">>].content ELSE Content(dir[<<d, "balock">>])

(* At first a document is in the clear, in an intact container that nobody *)
(* renamed and whose code is in a file, or both; what a rekey may have     *)
(* left behind is the same container.                                      *)
ASSUME LockerAssumption ==
    /\ RecoveryKeys \in [0 .. MaxCalls -> [1 .. KeyLength -> 0 .. 255]]
    /\ "code" \notin Names /\ Recoveries \cup Edited \subseteq Names
    /\ {MaxCalls, MaxSaves, MaxFaults} \subseteq Nat
    /\ \A b \in Batches :
         /\ b.op \in {"lock", "unlock", "rekey"} /\ {b.keep, b.new} \subseteq BOOLEAN
         /\ b.targets \in Seq([name : Names, out : CodeFiles])
    /\ \A dir \in Directories :
         /\ dir = [x \in Paths |-> dir[x]]
         /\ \A f \in CodeFiles : dir[<<"code", f>>] \in {Nothing, Code(0)}
         /\ \A d \in Names :
              LET content == FirstContent(dir, d) IN
              /\ content \in Seq(Blocks)
              /\ dir[<<d, "">>] \in {Nothing, Plain(d, content)}
              /\ \A suffix \in {"balock", "rekey-new", "rekey-old"} :
                   dir[<<d, suffix>>] \in {Nothing, Boxed(d, content)}
              /\ dir[<<d, "">>] = Nothing =>
                   dir[<<d, "balock">>] # Nothing /\ \E f \in CodeFiles : dir[<<"code", f>>] = Code(0)

Readable(file) == CASE file.kind = "plain" -> TRUE
                    [] file.kind = "container" -> Decrypts(file) /\ OpensMetadata(file)
                    [] OTHER -> FALSE
Reads(file) == IF file.kind = "plain" THEN file.content ELSE Content(file)

Init ==
    /\ fs \in Directories
    /\ proc = [p \in Procs |-> Idle]
    /\ inbox = {} /\ cli = Idle /\ calls = 0
    /\ saved = [d \in Names |-> <<FirstContent(fs, d)>>]
    /\ saves = 0 /\ raced = {} /\ overtaken = {} /\ faults = {} /\ unsaved = {} /\ done = {}

-----------------------------------------------------------------------------
At(p, pc) == proc[p].pc = pc
Goes(p, pc) == proc' = [proc EXCEPT ![p].pc = pc]
Free(path) == fs[path] = Nothing            \* ~occupied(path)

Input(c) == IF c.op = "lock" THEN <<c.name, "">> ELSE <<c.name, "balock">>

(* Where an operation publishes. *)
Output(x) ==
    CASE x.call.op = "lock"  -> <<x.call.name, "balock">>
      [] x.call.op = "rekey" -> <<x.call.name, "rekey-new">>
      [] OTHER               -> <<x.input.meta.name, "">>

NeedsSlot(c) == c.op = "lock" \/ (c.op = "rekey" /\ c.new)
Slot(c) == <<"code", c.out>>

-----------------------------------------------------------------------------
(* The command line: one or more targets, one call to the agent for each.  *)

(* locker_batch_plan: every file is there, and no two locks would write    *)
(* their codes to the same file.                                           *)
BatchPlan(b) ==
    Len(b.targets) > 1 =>
        /\ \A i \in 1 .. Len(b.targets) : ~Free(Input([op |-> b.op, name |-> b.targets[i].name]))
        /\ b.op = "lock" => \A i, j \in 1 .. Len(b.targets) :
                               b.targets[i].out = b.targets[j].out => i = j

Start(b) ==
    /\ cli.pc = "idle" /\ calls < MaxCalls
    /\ BatchPlan(b)
    /\ cli' = [pc |-> "next", batch |-> b, at |-> 1, failed |-> 0, id |-> 0, ids |-> {},
               exit |-> "none", up |-> TRUE, conn |-> calls]
    /\ UNCHANGED <<fs, proc, inbox, calls, history, unsaved, done>>

(* locker_one: the call for the next target is written to the agent. *)
Ask ==
    LET b == cli.batch
        id == calls + 1
        target == b.targets[cli.at]
    IN
    /\ cli.pc = "next" /\ cli.at <= Len(b.targets)
    /\ cli.up /\ calls < MaxCalls
    /\ calls' = id
    /\ inbox' = inbox \cup {[op |-> b.op, keep |-> b.keep, new |-> b.new, id |-> id,
                             conn |-> cli.conn, name |-> target.name, out |-> target.out]}
    /\ cli' = [cli EXCEPT !.pc = "waiting", !.id = id, !.ids = @ \cup {id}]
    /\ UNCHANGED <<fs, proc, history, unsaved, done>>

(* A failure is about one file, and the batch goes on; a refusal ends it. *)
Failed(c) == [c EXCEPT !.pc = "next", !.at = @ + 1, !.failed = @ + 1]

(* Mutant of Heard: a failure is not counted. *)
HeardUncounted(exit) ==
    IF exit = "denied" THEN [cli EXCEPT !.pc = "reported", !.exit = "denied"]
    ELSE [cli EXCEPT !.pc = "next", !.at = @ + 1]

Heard(exit) ==
    CASE exit = "granted" -> [cli EXCEPT !.pc = "next", !.at = @ + 1]
      [] exit = "denied"  -> [cli EXCEPT !.pc = "reported", !.exit = "denied"]
      [] OTHER            -> Failed(cli)

(* A reply is heard while the command line waits for it: read_reply skips  *)
(* the reply to any other call.                                            *)
Replied(id, exit) == IF cli.pc = "waiting" /\ cli.id = id THEN Heard(exit) ELSE cli

(* READ_TIMEOUT passes, or there is no connection left to ask on.  The     *)
(* agent goes on with what it was asked.                                   *)
GiveUp ==
    /\ cli.pc = "waiting" \/ (cli.pc = "next" /\ ~cli.up /\ cli.at <= Len(cli.batch.targets))
    /\ cli' = Failed(cli)
    /\ UNCHANGED <<fs, proc, inbox, calls, history, unsaved, done>>

Report ==
    /\ cli.pc = "next" /\ cli.at > Len(cli.batch.targets)
    /\ cli' = [cli EXCEPT !.pc = "reported",
                          !.exit = IF cli.failed = 0 THEN "granted" ELSE "unavailable"]
    /\ UNCHANGED <<fs, proc, inbox, calls, history, unsaved, done>>

Leave ==
    /\ cli.pc = "reported"
    /\ cli' = Idle
    /\ UNCHANGED <<fs, proc, inbox, calls, history, unsaved, done>>

-----------------------------------------------------------------------------
(* An operation begins. *)

(* Mutant of Claims: a recovery file that is there is taken over. *)
ClaimsAnyway(c, dir) ==
    fs' = IF NeedsSlot(c) THEN [dir EXCEPT ![Slot(c)] = Claimed] ELSE dir

(* claim_private_file: created exclusively, before the phone is asked. *)
Claims(c, dir) ==
    /\ NeedsSlot(c) => dir[Slot(c)] = Nothing
    /\ fs' = IF NeedsSlot(c) THEN [dir EXCEPT ![Slot(c)] = Claimed] ELSE dir

(* The input is a file of its own; a container is opened and its head read. *)
(* A lock takes the length of its source here, for the header.             *)
Opened(p, c, n, pc) ==
    LET input == fs[Input(c)] IN
    /\ At(p, "idle")
    /\ input.kind = IF c.op = "lock" THEN "plain" ELSE "container"
    /\ proc' = [proc EXCEPT ![p] =
         [pc |-> pc, call |-> c, n |-> n,
          input |-> IF c.op = "lock" THEN Nothing ELSE input,
          phone |-> Wrapper(Core(0, 0), Credential),
          core |-> IF c.op = "lock" THEN Core(n, Len(input.content)) ELSE input.core]]

(* The calls of one connection are served in order, those of two in any.   *)
NextCall(c) == \A o \in inbox : o.conn = c.conn => c.id <= o.id

Begin(c) ==
    /\ NextCall(c) /\ inbox' = inbox \ {c}
    /\ Claims(c, fs)
    /\ Opened("agent", c, c.id, "asking")
    /\ UNCHANGED <<cli, calls, history, unsaved, done>>

(* Nothing is begun: a file that is not fit, a recovery file that is there *)
(* already, no transport; or no credential for the locker.                 *)
Refuse(c) ==
    /\ At("agent", "idle") /\ NextCall(c) /\ inbox' = inbox \ {c}
    /\ \E exit \in {"unavailable", "denied"} : cli' = Replied(c.id, exit)
    /\ UNCHANGED <<fs, proc, calls, history, unsaved, done>>

(* locker_recover, in a process of its own: the code in some file parses   *)
(* and opens the container's recovery wrapper.                             *)
Parses == [n \in DOMAIN RecoveryKeys |-> ParseCode(FormatCode(RecoveryKeys[n])) # NoKey]

Recover(name, keep) ==
    LET input == fs[<<name, "balock">>] IN
    /\ calls < MaxCalls
    /\ Opened("cli", [op |-> "recover", name |-> name, keep |-> keep, new |-> FALSE],
              calls + 1, "keyed")
    /\ \E f \in CodeFiles :
         LET code == fs[<<"code", f>>] IN
         code.kind = "code" /\ Parses[code.code] /\ Unwraps(input, input.recovery, code.code)
    /\ calls' = calls + 1
    /\ UNCHANGED <<fs, inbox, cli, history, unsaved, done>>

-----------------------------------------------------------------------------
(* The key, and then the output. *)

(* An operation ends.  What the agent did is answered. *)
Return(p, exit) ==
    /\ proc' = [proc EXCEPT ![p] = Idle]
    /\ cli' = IF p = "agent" THEN Replied(proc[p].n, exit) ELSE cli
    /\ done' = IF exit = "granted" THEN done \cup {proc[p].n} ELSE done

(* A recovery file that was claimed and not written goes with its call. *)
Dropped(p) ==
    LET c == proc[p].call IN
    IF NeedsSlot(c) /\ fs[Slot(c)] = Claimed THEN [fs EXCEPT ![Slot(c)] = Nothing] ELSE fs

(* What is put to the phone, and what it answers: a wrapper of the key for *)
(* this container, or the key of a wrapper that is its own and belongs to  *)
(* this container.                                                         *)
WrapRequest(x) == [operation |-> "locker.create", core |-> x.core]
WrapResponse(r) == Wrapper(r.core, Credential)

UnwrapRequest(x) ==
    [operation |-> IF x.call.op = "rekey" THEN "locker.rekey" ELSE "locker.unlock",
     core |-> x.core, wrapper |-> x.input.phone]
UnwrapResponse(r) == Unwraps(r, r.wrapper, Credential)

(* PhoneCustodian: one session, one request, one answer.  A lock has its   *)
(* new key wrapped and an unlock its key unwrapped; a rekey does both, and *)
(* dials again in between.                                                 *)
Exchange(p) ==
    LET x == proc[p] IN
    /\ \/ /\ x.pc = "asking" /\ x.call.op # "lock"
          /\ UnwrapResponse(UnwrapRequest(x))
          /\ Goes(p, IF x.call.op = "rekey" THEN "unwrapped" ELSE "keyed")
       \/ /\ x.pc = "unwrapped" \/ (x.pc = "asking" /\ x.call.op = "lock")
          /\ proc' = [proc EXCEPT ![p].pc = "keyed", ![p].phone = WrapResponse(WrapRequest(x))]
    /\ UNCHANGED <<fs, inbox, cli, calls, history, unsaved, done>>

(* The phone declines, does not answer in time or answers something else,  *)
(* or cannot be dialled the second time.                                   *)
Decline(p) ==
    /\ proc[p].pc \in {"asking", "unwrapped"}
    /\ fs' = Dropped(p)
    /\ Return(p, "denied")
    /\ UNCHANGED <<inbox, calls, history, unsaved>>

(* AtomicFile::create finds the destination free.  An unlock decrypts the  *)
(* whole container and a rekey copies it under new wrappers; a lock opens  *)
(* its source only now.                                                    *)
Write(p) ==
    LET x == proc[p]
        written(temp) == proc' = [proc EXCEPT ![p] =
            [pc |-> "checking", call |-> x.call, n |-> x.n, temp |-> temp, output |-> Output(x)]]
    IN
    /\ At(p, "keyed")
    /\ \/ /\ x.call.op = "lock" /\ Free(Output(x)) /\ ~Free(Input(x.call))
          /\ proc' = [proc EXCEPT ![p] =
               [pc |-> "reading", call |-> x.call, n |-> x.n, phone |-> x.phone, core |-> x.core,
                chunks |-> <<>>, source |-> fs[Input(x.call)]]]
       \/ /\ x.call.op = "rekey" /\ Free(Output(x))
          /\ written(
                [x.input EXCEPT !.phone = x.phone,
                                !.recovery = IF x.call.new THEN Wrapper(x.core, x.n) ELSE @])
       \/ /\ x.call.op \in {"unlock", "recover"}
          /\ OpensMetadata(x.input) /\ x.input.meta.len = x.core.len /\ Decrypts(x.input)
          /\ Free(Output(x))
          /\ written(Plain(x.input.doc, Content(x.input)))
    /\ UNCHANGED <<fs, inbox, cli, calls, history, unsaved, done>>

(* Mutant of FitsHeader: growth goes unnoticed. *)
StartsAsHeader(core, source) == Len(source) >= core.len

(* encrypt_chunks, at the end: the source is as long as the header says. *)
FitsHeader(core, source) == Len(source) = core.len

(* encrypt_chunks, one chunk. *)
ReadChunk(p) ==
    LET x == proc[p]
        i == Len(x.chunks) + 1
        chunks == Append(x.chunks, SealChunk(x.core, i, Part(x.core, i, x.source.content)))
    IN
    /\ At(p, "reading")
    /\ Len(x.source.content) >= (i - 1) * ChunkSize + Take(x.core, i)
    /\ \/ /\ i < ChunkCount(x.core)
          /\ proc' = [proc EXCEPT ![p].chunks = chunks]
       \/ /\ i = ChunkCount(x.core) /\ FitsHeader(x.core, x.source.content)
          /\ proc' = [proc EXCEPT ![p] =
               [pc |-> "checking", call |-> x.call, n |-> x.n, output |-> Output(x),
                temp |-> Container(x.source.doc, x.core, x.call.name, x.phone, x.n, chunks)]]
    /\ UNCHANGED <<fs, inbox, cli, calls, history, unsaved, done>>

(* AtomicFile::commit looks again, and then renames. *)
Check(p) ==
    /\ At(p, "checking")
    /\ Free(proc[p].output)
    /\ Goes(p, "renaming")
    /\ UNCHANGED <<fs, inbox, cli, calls, history, unsaved, done>>

MayFail(doc, when) == Cardinality(faults) < MaxFaults /\ <<doc, when>> \notin faults

(* An unlock replaces what appeared since it looked, or a container is     *)
(* published while a recovery of an earlier one under its name goes on,    *)
(* which will then remove the later one.                                   *)
Overtakes(x) ==
    CASE x.call.op \in {"unlock", "recover"} -> ~Free(x.output)
      [] x.call.op = "lock" -> ~At("cli", "idle") /\ proc["cli"].call.name = x.call.name
      [] OTHER -> FALSE

(* What a failing disk makes of a file: of a document, a part of it. *)
Spoilt(file) ==
    IF file.kind = "container" THEN Damaged(file)
    ELSE {Plain(file.doc, SubSeq(file.content, 1, len)) : len \in 0 .. Len(file.content) - 1}

(* The rename.  What lock and rekey published is read back, as the disk    *)
(* has it; an unlock's output is not, and a bad write of it goes unseen.   *)
Publish(p) ==
    LET x == proc[p]
        readBack == x.call.op \in {"lock", "rekey"}
        when == IF readBack THEN "writing" ELSE "restoring"
    IN
    /\ At(p, "renaming")
    /\ Goes(p, IF readBack THEN "verifying" ELSE "verified")
    /\ overtaken' = IF Overtakes(x) THEN overtaken \cup {x.temp.doc} ELSE overtaken
    /\ \/ fs' = [fs EXCEPT ![x.output] = x.temp] /\ UNCHANGED faults
       \/ /\ MayFail(x.temp.doc, when)
          /\ faults' = faults \cup {<<x.temp.doc, when>>}
          /\ \E bad \in Spoilt(x.temp) : fs' = [fs EXCEPT ![x.output] = bad]
    /\ UNCHANGED <<inbox, cli, calls, saved, saves, raced, unsaved, done>>

(* verify: the metadata and every chunk; no wrapper. *)
Verified(file) == file.kind = "container" /\ OpensMetadata(file) /\ Decrypts(file)

Verify(p) ==
    /\ At(p, "verifying")
    /\ Verified(fs[proc[p].output])
    /\ Goes(p, "verified")
    /\ UNCHANGED <<fs, inbox, cli, calls, history, unsaved, done>>

-----------------------------------------------------------------------------
(* What happens once the output is good. *)

(* locker_lock: RecoverySlot::write. *)
SaveCode(p) ==
    LET x == proc[p] IN
    /\ At(p, "verified") /\ x.call.op = "lock"
    /\ fs' = [fs EXCEPT ![Slot(x.call)] = Code(x.n)]
    /\ Goes(p, "saved")
    /\ UNCHANGED <<inbox, cli, calls, history, unsaved, done>>

(* locker_lock: the original goes last, by name, unless it is kept. *)
RemoveOriginal(p) ==
    LET x == proc[p] IN
    /\ At(p, "saved")
    /\ \/ x.call.keep /\ UNCHANGED fs
       \/ ~x.call.keep /\ ~Free(Input(x.call)) /\ fs' = [fs EXCEPT ![Input(x.call)] = Nothing]
    /\ Return(p, "granted")
    /\ UNCHANGED <<inbox, calls, history, unsaved>>

(* unlock_file: the container goes, by name, unless it is kept. *)
RemoveContainer(p) ==
    LET x == proc[p] IN
    /\ At(p, "verified") /\ x.call.op \in {"unlock", "recover"}
    /\ \/ x.call.keep /\ UNCHANGED fs
       \/ ~x.call.keep /\ ~Free(Input(x.call)) /\ fs' = [fs EXCEPT ![Input(x.call)] = Nothing]
    /\ Return(p, "granted")
    /\ UNCHANGED <<inbox, calls, history, unsaved>>

(* rekey_file: two renames, and the superseded container removed if that   *)
(* works; then locker_rekey writes the new code if one was asked for.      *)
SetAside(p) ==
    LET n == proc[p].call.name IN
    /\ At(p, "verified") /\ proc[p].call.op = "rekey"
    /\ ~Free(<<n, "balock">>)
    /\ fs' = [fs EXCEPT ![<<n, "rekey-old">>] = fs[<<n, "balock">>], ![<<n, "balock">>] = Nothing]
    /\ Goes(p, "aside")
    /\ UNCHANGED <<inbox, cli, calls, history, unsaved, done>>

PutInPlace(p) ==
    LET n == proc[p].call.name IN
    /\ At(p, "aside")
    /\ ~Free(<<n, "rekey-new">>)
    /\ fs' = [fs EXCEPT ![<<n, "balock">>] = fs[<<n, "rekey-new">>], ![<<n, "rekey-new">>] = Nothing]
    /\ Goes(p, "placed")
    /\ unsaved' = IF proc[p].call.new THEN unsaved \cup {proc[p].n} ELSE unsaved
    /\ UNCHANGED <<inbox, cli, calls, history, done>>

RemoveSuperseded(p) ==
    LET x == proc[p] IN
    /\ At(p, "placed")
    /\ fs' \in {fs, [fs EXCEPT ![<<x.call.name, "rekey-old">>] = Nothing]}
    /\ \/ x.call.new /\ Goes(p, "rekeyed") /\ UNCHANGED <<cli, done>>
       \/ ~x.call.new /\ Return(p, "granted")
    /\ UNCHANGED <<inbox, calls, history, unsaved>>

SaveNewCode(p) ==
    LET x == proc[p] IN
    /\ At(p, "rekeyed")
    /\ fs' = [fs EXCEPT ![Slot(x.call)] = Code(x.n)]
    /\ unsaved' = unsaved \ {x.n}
    /\ Return(p, "granted")
    /\ UNCHANGED <<inbox, calls, history>>

-----------------------------------------------------------------------------
(* An error at any step, among them an occupied destination, a source that *)
(* changed and a failed verification: the temporary and an unwritten       *)
(* recovery file are dropped.                                              *)
Abort(p) ==
    /\ ~At(p, "idle")
    /\ fs' = Dropped(p)
    /\ Return(p, "unavailable")
    /\ UNCHANGED <<inbox, calls, history, unsaved>>

(* Killed: nothing is dropped, and the agent's connections go with it. *)
Kill(p) ==
    /\ ~At(p, "idle")
    /\ proc' = [proc EXCEPT ![p] = Idle]
    /\ \/ p = "cli" /\ UNCHANGED <<inbox, cli>>
       \/ /\ p = "agent" /\ inbox' = {}
          /\ cli' = CASE cli.pc = "waiting" -> [Failed(cli) EXCEPT !.up = FALSE]
                      [] cli.pc = "next"    -> [cli EXCEPT !.up = FALSE]
                      [] OTHER              -> cli
    /\ UNCHANGED <<fs, calls, history, unsaved, done>>

-----------------------------------------------------------------------------
(* Somebody saves a document, in place or as a new file under its name, as *)
(* long as before or not.  The save races a lock that has begun to read:   *)
(* unless the lock still has to find out that the length changed.          *)
Save(n) ==
    LET old == fs[<<n, "">>]
        x == proc["agent"]
        locking == x.pc # "idle" /\ x.call.op = "lock" /\ x.call.name = n
        length == Len(old.content)
    IN
    /\ old.kind = "plain" /\ saves < MaxSaves
    /\ saves' = saves + 1
    /\ \E len \in (IF length = 0 THEN 0 ELSE length - 1) .. length + 1, inPlace \in BOOLEAN :
         LET content == [i \in 1 .. len |-> <<saves', i>>]
             seen == inPlace /\ locking /\ x.pc = "reading" /\ x.source = old
         IN
         /\ fs' = [fs EXCEPT ![<<n, "">>] = Plain(old.doc, content)]
         /\ saved' = [saved EXCEPT ![old.doc] = Append(@, content)]
         /\ proc' = IF seen THEN [proc EXCEPT !["agent"].source.content = content] ELSE proc
         /\ raced' = IF locking /\ x.pc \notin {"asking", "keyed"} /\ ~(seen /\ len # x.core.len)
                     THEN raced \cup {old.doc} ELSE raced
    /\ UNCHANGED <<inbox, cli, calls, overtaken, faults, unsaved, done>>

(* A container at rest is damaged: between operations, each of which reads *)
(* its container in one go.                                                *)
Wear(x) ==
    /\ \A p \in Procs : At(p, "idle")
    /\ fs[x].kind = "container" /\ MayFail(fs[x].doc, "resting")
    /\ \E bad \in Damaged(fs[x]) : fs' = [fs EXCEPT ![x] = bad]
    /\ faults' = faults \cup {<<fs[x].doc, "resting">>}
    /\ UNCHANGED <<proc, inbox, cli, calls, saved, saves, raced, overtaken, unsaved, done>>

Next ==
    \/ \E b \in Batches : Start(b)
    \/ Ask \/ GiveUp \/ Report \/ Leave
    \/ \E c \in inbox : Begin(c) \/ Refuse(c)
    \/ \E name \in Recoveries, keep \in BOOLEAN : Recover(name, keep)
    \/ \E p \in Procs :
         \/ Exchange(p) \/ Decline(p) \/ Write(p) \/ ReadChunk(p)
         \/ Check(p) \/ Publish(p) \/ Verify(p)
         \/ SaveCode(p) \/ RemoveOriginal(p) \/ RemoveContainer(p)
         \/ SetAside(p) \/ PutInPlace(p) \/ RemoveSuperseded(p) \/ SaveNewCode(p)
         \/ Abort(p) \/ Kill(p)
    \/ \E n \in Edited : Save(n)
    \/ \E x \in Paths : Wear(x)

Spec == Init /\ [][Next]_vars

-----------------------------------------------------------------------------
TypeOK ==
    /\ DOMAIN fs = Paths
    /\ \A x \in Paths : fs[x].kind \in
         {"nothing"} \cup
         (IF x[1] = "code" THEN {"claimed", "code"}
          ELSE IF x[2] = "" THEN {"plain"} ELSE {"container"})
    /\ \A p \in Procs : proc[p].pc \in
         {"idle", "asking", "unwrapped", "keyed", "reading", "checking", "renaming",
          "verifying", "verified", "saved", "aside", "placed", "rekeyed"}
    /\ calls \in 0 .. MaxCalls /\ {c.id : c \in inbox} \cup done \cup unsaved \subseteq 1 .. calls
    /\ raced \subseteq Names /\ Cardinality(faults) <= MaxFaults

(* A code that is in a recovery file opens this container. *)
CodeOnFile(box) ==
    \E f \in CodeFiles :
        fs[<<"code", f>>].kind = "code" /\ Unwraps(box, box.recovery, fs[<<"code", f>>].code)

(* "A crash, a full disk, or a kill at any step leaves either the original *)
(* or a complete replacement" (docs/locker-format.md), and of a rekey "at  *)
(* every instant at least one complete container exists" (rekey_file):     *)
(* through any calls, errors, kills and bad writes every document is still *)
(* there as it was last saved, in the clear or in a container that its     *)
(* phone or a code on file opens.  Not so of an unlock's output: the       *)
(* document has it verified before the container is removed (steps 4 and   *)
(* 5), unlock_file does not read it back, and a bad write of it loses the  *)
(* document ("restoring").  And verify reads no wrapper back, so a bad     *)
(* write of one matters while a rekey's new code is in no file.  Three     *)
(* things are beyond the code: damage at rest; a save that a lock in the   *)
(* middle of reading cannot see, of which some version is left; and an     *)
(* unlock and a recovery of the same document, of which commit's look      *)
(* before its rename does not keep one from replacing, or removing, what   *)
(* came of the other.                                                      *)
NothingLost ==
    \A d \in Names :
        \/ <<d, "resting">> \in faults \/ <<d, "restoring">> \in faults \/ d \in overtaken
        \/ <<d, "writing">> \in faults /\ unsaved # {}
        \/ \E x \in Paths :
             /\ Readable(fs[x]) /\ fs[x].doc = d
             /\ fs[x].kind = "container" =>
                  Unwraps(fs[x], fs[x].phone, Credential) \/ CodeOnFile(fs[x])
             /\ d \in raced \/ Reads(fs[x]) = Last(saved[d])

(* "Losing a phone must not be the same event as losing the files"         *)
(* (recovery.rs): a document that is no longer in the clear is in a        *)
(* container whose code is in a recovery file, whatever was interrupted,   *)
(* and no other lock's code ever replaces that one.  Only a rekey with a   *)
(* new code leaves a moment, or for ever if it is cut there, in which the  *)
(* container's code is nowhere.  Of a document the disk damaged nothing is *)
(* said.                                                                   *)
RecoversWithoutPhone ==
    \A d \in Names \ overtaken :
        (\A when \in {"resting", "writing", "restoring"} : <<d, when>> \notin faults) =>
        \E x \in Paths :
            /\ Readable(fs[x]) /\ fs[x].doc = d
            /\ fs[x].kind = "container" => CodeOnFile(fs[x]) \/ fs[x].recovery.id \in unsaved

(* "No change anywhere in a container can make it open and produce a       *)
(* different file" (docs/locker-format.md): what is in the clear is what   *)
(* somebody saved, unless a lock read it while it was being saved, or the  *)
(* disk did not keep what an unlock wrote.                                 *)
NeverADifferentFile ==
    \A x \in Paths :
      fs[x].kind = "plain" /\ fs[x].doc \notin raced /\ <<fs[x].doc, "restoring">> \notin faults =>
        \E i \in 1 .. Len(saved[fs[x].doc]) : saved[fs[x].doc][i] = fs[x].content

(* locker_batch says that all went well only when every target was done,   *)
(* also when an answer came too late and its call ran on, or when the      *)
(* agent went away half-way.                                               *)
BatchTellsTheTruth ==
    cli.pc = "reported" /\ cli.exit = "granted" =>
        cli.ids \subseteq done /\ Cardinality(cli.ids) = Len(cli.batch.targets)

=============================================================================
