# BioAuth: a TLA+ verification project

BioAuth lets a desktop ask a paired phone to approve things: `sudo`, a disk
unlock, a stored password, an SSH login, a locked file. A desktop agent (Rust)
serves local clients over IPC and talks to phones over the LAN or Bluetooth; the
phone app (Dart and Kotlin) holds biometric keys that sign what its user
approves.

This directory models the parts of it whose correctness depends on the *order*
in which things happen: concurrent clients and connection threads, a person who
takes a minute to answer, replies that never arrive, a store edited while a
request is in flight, processes killed between two renames, a board that
somebody else opens. Every definition is translated from the code;
`PROJECT.json` (`map`) names the lines.

Check a model with `tlc -config MCVerifier.cfg MCVerifier`, and the proofs of a
component with `tlapm LockerProofs.tla`; there is such a module for
`AgentService` (with the verifier and the local endpoint), `PairingService`,
`PermissionSync`, `DiskUnlock`, `Vault` (with the clipboard and the audit log),
`BleTransport` and `SshAgent` too.

## The system

| Component | State it keeps | Operations | Modelled in |
|---|---|---|---|
| verifier (`phone-auth-verifier`) | pairing store, replay guard | `issue`, `accept`; store edits through `store_mut` | `PairingRecords`, `Verifier` |
| authorization service (`service.rs`) | service mutex, events, audit log | `authorize`, `permissions.set`, `devices.forget`, `pair.confirm` | `AgentService`, `AuthorizationContract` |
| local endpoint, WebAuthn relay (`ipc.rs`, `perform_webauthn`) | a thread per connection, subscriptions, cancelled requests | first call, dispatch, subscribe, cancel, relay | `LocalApi` |
| LAN transport (`qr_network.rs`, session handshake) | armed code, proposal, known peers, parked sessions, a thread per connection | accept, handshake, enrol, attach, park, reap, hand out | `QrNetwork` |
| Bluetooth transport (`ble.rs`) | one link, its thread, parked sessions | connect, handshake, attach, park, sweep, hand out, pump | `BleTransport` |
| secure channel and framing (`phone-auth-session`, `ble_framing.rs`) | a key and a counter per direction, a partial message | seal, open, split, reassemble | `SecureChannel`, `OrderedChannel` |
| pairing and the pairing store (`service.rs`, `pairing.rs`) | held proposal, devices in memory and on disk | `pair.begin/cancel/pending/confirm`, `devices.forget`, persist, load | `PairingService` |
| permission sync (`permissions.rs` on the desktop, `permission_*.dart` on the phone) | a set and a revision on each side, an open screen | set, sync, toggle, revoke, re-pair | `PermissionSync` |
| vault (`vault.rs`, `service.rs`; `vault_*.dart`, `VaultStore.kt`) | items with revisions, a listing snapshot, sheets | list, fill, copy, create, update, delete | `Vault` |
| clipboard hand-off (`clipboard.rs`) | the board, its sequence number, the last copy | place, claim, wake, check, empty | `Clipboard`, `SecretCopy` |
| audit log (`audit.rs`) | a file of lines | append, read back, trim | `AuditLog`, `SecretCopy` |
| file locker (`phone-auth-locker`, `service.rs`, CLI) | files of a directory, containers | lock, unlock, recover, rekey, batches | `LockerFormat`, `Locker` |
| SSH agent (`phone-auth-ssh-agent`, `ssh_client.rs`) | one session, its binding, its calls | identities, bind, sign, everything else | `SshWire`, `SshAgent` |
| disk unlock (`luks enroll`, `luks drill`, `phone-auth-initrd`) | key file, wrappers, slots, drill log, boot | enrol, drill, check, boot | `DiskUnlock` |
| command line | none of its own | locker batches and recovery, luks | `Locker`, `DiskUnlock` |
| phone session runner, Android key stores, desktop UI, NixOS and Windows glue | | | not modelled, see the end |

How they interact. Each IPC client has a thread; each call takes the one
`Mutex<Service>` and keeps it until its reply is decided, so `authorize` holds
it while a person looks at a phone. The service owns the verifier and its
store, and mirrors the store's identities into the transports
(`publish_known_peers`). Connection threads of the transports never take the
service mutex: they share only the transport's own state, which they take and
release several times per connection. The service takes a parked session out of
a pool, runs one exchange on it and closes it; a vault listing, a fill or a
rekey of a locked file takes several sessions, one after the other. What is
cancelled is written beside the mutex, into a small table that the relay polls.
The SSH agent, the command line and the browser host are clients like any
other. The clipboard's timers and the phone's screens run on their own. The
initrd program talks to the phone itself, with a wrapper and a pairing store
copied into its image.

What is hard here: the answer is decided long after the request was checked;
connection threads act on what they read several blocking reads ago; `forget`
changes three pieces of state one after the other; both ends of a permission
sync can be edited at any time and the reply can be lost; a listing takes
several sessions while its vault changes; a clear of the clipboard is several
calls between which anyone may copy; a chunk may be lost, repeated or
reordered; the locker must not lose a file to a kill between any two system
calls; an enrolment changes a key file, a slot and a wrapper, and any of them
may be the last thing it did. The list, with lines, is `hazards` in
`PROJECT.json`.

## The modules

**PairingRecords** holds the pure part of the store: the policy
(`allows_fields`, `permits`), credential purposes, and what
`PairingStore::insert` and `remove` do to the map (`Conflicts`, `Inserted`,
`Removed`). A device map is a function from device ids to sets of credential
records; an unpaired device has the empty set.

**Verifier** is the library under *any* caller. `Issue` and `Accept` are
`Verifier::issue` and `Verifier::accept`, whole, including the order of the
checks: what is refused before the request id is spent (`Answers`), the replay
guard with its eviction (`Consume`), and what is decided afterwards
(`Granting`). Callers may keep clones of a pending request (the type is
`Clone`), present any frame on any session, and edit the store in between. The
phones sign what they were *shown*, which may be another session's or another
request's fields (`Sign`, `Shown`). The wall clock steps both ways. A
signature is the pair of its key and its payload, a session binding is the
session; encodings are reduced to the fields that are compared. `judged` and
`grants` are histories.

**AuthorizationContract** is the abstract promise: requests are put to a phone
one at a time, settled exactly once, granted only if approved, and always
settled. **AgentService** extends `Verifier` with the threads, the mutex, the
pool's promise (a session of that phone, handed out once), the events and the
audit log. Code between two blocking points is one step; the blocking points of
`authorize` (`Connect`, the wait for the phone) separate its steps. An append to
the audit log may fail, before or after its line is written, and the call goes
on (`unlogged`). The state maps to the contract's through the events.

**LocalApi** is the endpoint around that mutex: a thread per connection, its
first-call window, the token, the calls that hold the mutex and the ones that
do not, a pump thread per subscription, and `webauthn.cancel`, whose bounded
table `perform_webauthn` looks into between short waits. A client may read its
answers or not (`ReplyRead`; a write has no deadline), and may feed a line that
never becomes a call (`Feed`), which re-arms the window (`WindowRuns`). A method
is reduced to whether it takes the mutex, raises an event or asks a phone.

**QrNetwork** has one action per stretch of `serve_connection` between two
blocking points: `Accept` (the armed code is cloned), `Finish` (the device is
looked up in the mirror, `NextPc` is the match on who is known and what is
armed), `Enrol`, `Silent`, `Attach` (which parks), `Fail`. The pool is a
sequence, oldest first, and **Selection** is what `retain` leaves of one: the
positions that are kept, in order, and not a recursion over the sequence, so
that it can be reasoned about for any length; the table of cancelled requests,
the vault's pages and the lines of the audit log use it too. `Parked`, `discard_stale`, `enforce_session_cap` and
`Matching` are the pool's functions. The handshake's cryptography is reduced to
which identity key a peer proves and which code it scanned.
**PairingService** composes it with the service: a call that touches the
transport more than once is several steps, and connection threads run between
them. `disk` is the store file; `persist` writes a temporary and renames, so it
holds the old contents or the new. A failed write leaves memory changed and the
call refused, as the code does. `confirm_pairing` may also be refused by a
credential conflict; since this module does not track credentials, that is a
choice.

**OrderedChannel** is the abstract promise of a session: messages of that
session, in order, none twice, none skipped. **SecureChannel** is the record
layer and the framing under it: a counter for each direction that stops at its
end, records that open under one connection's keys at one counter only, chunks
with an id, an index and a total. **BleTransport** puts them on a link: the
hub's single connection, its handshake and attach windows, the parked sessions
with their sweep, and an air that loses, repeats and reorders chunks and may
carry another phone's. Its sessions implement `OrderedChannel` (`KeepsOrder`).

**PermissionSync** has both ends of one phone's permissions: the desktop's
`set_permissions` and `sync_permissions`, the rule `reconcile`, the phone's
`PermissionService`, and the screen that edits the set it loaded when it
opened. On the phone, shared preferences are cached in memory, so reading the
map and replacing it in the cache has no other event in between; the wait for
the platform to save does (`saving`). Revoking a computer on the phone is three
awaited steps (`RevokeForgets`, `RevokeRemoves`, `StopDevice`) of which one may
fail, and the phone goes on serving that computer until the last of them, without
looking at its record. `granted` is the history of the sets a person chose and has
not taken back: it shrinks when a computer is revoked, and so it says when an old
set comes back. `revoked`, `readopted` and `settled` are histories too.

**Vault** has the computers' calls and the phone's service for them. A walk
asks for one page per session and stops at a page that makes no progress; a
fill takes the one item stored for its site, a copy names a row and compares
the revision it gets; an update or a delete expects a revision, and a write
drops the snapshot. The store lists what was changed last first (`newest`), so
an edit between two pages moves rows across the boundary; the phone's clock is
taken to go forward. On the phone every `await` (the store's read,
the user's sheet, the store's write) ends a step, so two computers' requests
and the user's own edits interleave there. Secrets are the revisions they
belong to.

**Clipboard** has the copy (`SetText`, `Claim`) and the timer (`Wake`,
`CheckOurs`, `Empty`, `Reset`) as the separate system calls they are, with the
user and other programs between them, for Windows (sequence numbers, a board
that may be held open) and for Unix (one replacement). **AuditLog** is the file
as a sequence of pieces, which a full disk may leave without a newline, cut, or
torn inside a character; append, the newest-first reading and the trim.
**SecretCopy** composes the two as `vault.copy` and `vault.generate-copy` do
(`CopySpec`).

**LockerFormat** is the container as data: a core that stands for the data key
and everything bound to it, two wrapped keys, sealed metadata and sealed
chunks, and what opens what. **Locker** is the program around it: a step per
change of the directory, per chunk read and per exchange with the phone
(`Exchange`, `Decline`). A lock is `Begin`, `Write`, `ReadChunk`, `Check`,
`Publish`, `Verify`, `SaveCode`, `RemoveOriginal`; an unlock and a recovery
write what opened and remove the container; a rekey ends in `SetAside`,
`PutInPlace`, `RemoveSuperseded`, `SaveNewCode`. Any step may
fail (which drops the temporary and an unwritten recovery file) or be the last.
Beside the agent's one call at a time run a recovery and somebody who saves the
document. What the disk writes may not read back: a lock and a rekey read it
back (`Verify`), an unlock and a recovery do not, and then remove the container
all the same. At first a document is in the
clear, in an intact container whose code is on file, or both, and a rekey may
have left copies of that container behind (`LockerAssumption`); what it holds is
a sequence of blocks, the unit of its length. `overtaken` is a history of the
documents that two operations published over each other. The command line's batch
waits for the answers with a timeout of its own.

**SshWire** is the mpint rule over digits. **SshAgent** is the listener that
serves one connection after another, framing, `session-bind`, the policy's
decision, and the two calls `handle` makes of the local API for a signature
(the identities, then the signature itself), whose thread asks the phone while it holds the service.
Late replies stay behind and the pairings may change in between. A binding
replaces the one before it.

**DiskUnlock** has the command lines as processes with a step per file or
`cryptsetup` call: `luks enroll` (key file claimed, phone asked, key file and wrapper written,
slots counted, slot added, key file shredded, slots counted again or wrapper
thrown away, enrolment recorded),
`luks drill` and its log, kills, reboots and failing writes; and the program
that asks the phone at boot, under one deadline, with the wrapper and pairing
store that were in place when its image was built.

`MCVerifier`, `MCAgentService`, `MCPairingService`, `MCPermissionSync`,
`MCLocker`, `MCVault`, `MCSecretCopy`, `MCBleTransport`, `MCLocalApi`,
`MCSshAgent` and `MCDiskUnlock` give the constants their values. A module's
`TypeOK` states the shape of its state; the runs spend their time on the other
properties, and the proof modules prove the ones of their components.

## The runs

Deadlock is not checked in any of them: each model has a bound on what people
and phones do, after which it may stop, and so may the program.

| Run | What it asks | Bounds and why they are enough |
|---|---|---|
| `verifier` | `UniqueCredentials`: no sequence of pairings and edits leaves an id on two phones; `SpentOnce`: an id is judged again only after more than `Capacity` judgements; `GrantIsTheUsersAnswer`: a grant was signed, exactly as issued, for that session; `RevocationHolds`: no step grants against what is no longer stored | two phones that both want one credential id, two keys, two requests, two good sessions and one unauthenticated, a guard of one id (two requests flood it), three judgements (the third may judge an evicted id again), one signature, a clock of two readings (expired or not) |
| `agent` | the same verifier behind the mutex with four clients: `GrantStillIssuable` (purpose, key kind and transport, which `accept` does not re-check, still hold), `PromptsAreAccounted` (every `RequestStarted` gets its one `RequestFinished`, with the decision, and its one audit entry unless that append failed), `EveryCallIsAnswered` (liveness), `KeepsContract` (refinement, with its liveness) | two authorizing calls, a forget, an edit and a re-pairing with another key or key kind: the smallest set in which a credential id changes hands between issue and accept |
| `pairing` | `OnlyConfirmedPhonesPark`; `OnlyWhatWasConfirmed`, even when two attempts end in the same digits; `AnsweredIsDurable`: what an answered confirm or forget said is on disk | two connections at once (interchangeable: symmetry), a phone and a peer that claims its device id with another key and does not declare its intent, two codes, two attempts, one set of digits, so a collision is the only case; one failed write or restart at any point |
| `session_pool` | `NoCrowdingOut`, and under fairness `ForgottenPhoneFades` | two stored phones, one of them legacy, and an impostor; two credentials and room for two sessions per phone, so replacing, evicting and falling back to "any credential" all happen; one failed write or restart, so that a forget may fail half-way |
| `permission_sync` | `NoInventedPowers`: what is enforced is always a whole set a person chose for that credential and has not taken back; `BothEndAgreeing` | two credentials (sets must not cross) and two services (a union of two sets is a third), interchangeable each; revisions saturating at 2, three edits, pairings or revocations: revoke, pair again, and one edit before or after |
| `vault` | `PagesAgree`: a walk that no other computer and no expiry disturbed returns one state of the vault; `SnapshotFollowsWrites`: no snapshot outlives a computer's write; `CopiedIsWhatWasClicked` | two items, one per page, and a third that may be created, where a listing carries two at most; one computer lists, fills and copies, the other creates, updates and deletes; one edit on the phone, which reorders the pages, one expiry: a page boundary with every kind of change on it |
| `secret_copy` | `NewestSurvives`: an entry appended without error to a log that could be read to its end is the newest one read back; `DestroysOnlyWhatRaced`: a clear destroys the user's text only inside the two windows the code leaves; `SecretLeaves` (liveness) | two copies, a refused one, one copy by the user, two attempts at a board that is busy twice; a log trimmed to 2 of 4, one full disk |
| `ble_link` | `KeepsOrder` (refinement of `OrderedChannel`); `HandsOutRecentKeys`: a handed-out session proved a key that is stored or was within the idle window; `HubIsFreed` (liveness) | two connections under two keys of one re-paired phone; ids modulo 2, so they wrap; one partial message, counters that end at 3 |
| `local_api` | `CancelNotLost`: only as many newer cancels as the table holds drop one; `ServiceIsReleased` and `NeglectedIsReleased` (liveness) | a browser host, a second one that cancels and a tray, each of which may stop reading, send blank lines or go away; two requests and a table of one, so it overflows |
| `locker` | `NothingLost`; `RecoversWithoutPhone`; `NeverADifferentFile`; `BatchTellsTheTruth` | two documents of three and four blocks in chunks of two (a last chunk that is full and one that is not), two calls, one save, one fault: an error, a kill or damage at any step; an unlock and a recovery of one document, which may overtake each other |
| `ssh` | `SignedAsShown`, by the connection's last binding, forwarded or not, after any earlier ones; `SignedWithTheKeyAsked`; `SignatureReadsBack`; `AnsweredInTurn` (liveness) | two clients, one of which binds up to twice before it asks for a signature, two keys, two hosts, numbers of two digits in base 4 (high bit, leading zeros and zero all occur), one change of pairing |
| `disk` | `BootOpens`: what the initrd prints opens the volume; `BootEnds` (liveness); `NoLiveKeyLeftBehind`; `PhoneSlotIsThePhones`; `CheckIsHonest`: a content check means every volume was drilled in time | two command lines, two volumes, two commands (enrolments that cross, an enrolment and a drill), two stops (kills or reboots), a clock of three days with an age of one |

Fairness. Nothing is assumed of phones, users, clients or the wall clock, with
the one exception named under `SshAgent`.

- `AgentFairness` is weak fairness of each client's thread. Every wait in
  `authorize` has a timeout (the pool's wait, the answer's validity plus
  `ANSWER_TRAVEL_MARGIN`), which the models have as an alternative that is
  always enabled (`Leave` in `Connect`, `Unanswered`), so a thread that holds
  the mutex can always go on. A thread that waits for the mutex is enabled only
  while it is free; each client makes one call, so the mutex is free again and
  again until the last of them has been served.
- `PairingService`: each connection's steps (every read has a deadline,
  `Fail`), the reaper, sessions growing old, a service call that has begun.
- `BleTransport`: the two windows of the hub's thread, its pump's end, its
  close, the sweep and the passing of time. A phone may keep silent for ever.
- `LocalApi`: each connection's thread while it is not waiting for its client,
  its first-call window while nothing arrives, and the end of each pump. A read
  after the token was shown and every write have no deadline (`write_line`), so
  nothing is assumed of them: they end with the client or not at all.
- `Clipboard`: each copy's own thread and timer. Another program lets the board
  go after at most `MaxBusy` openings.
- `SshAgent`: the session that is being served, the agent's threads, the
  phone's timeout; and a client that has all its answers hangs up. That last
  one is an assumption on clients: the listener serves one connection at a time
  and reads with no deadline, so an idle one keeps everyone else waiting.
- `DiskUnlock`: the boot begins, and its deadline passes.

## Known divergences

Met while modelling. The properties above are stated so that they hold with
them, and their comments name the exception where it is one of theirs.

Pairing, transport and permissions:

- A connection looks its phone up in the mirror, waits for its attach frame and
  parks without looking again (`qr_network.rs:748`), so a `devices.forget` in
  that wait leaves a session of a forgotten phone in the pool. It cannot grant
  anything (`RevocationHolds`) and it fades (`ForgottenPhoneFades`). Over
  Bluetooth, `forget` does not purge the parked sessions at all; the idle
  window bounds them (`HandsOutRecentKeys`).
- Nothing takes `armed_pairing` down when its code expires
  (`qr_network.rs:128`), so after an abandoned `pair.begin` phones that merely
  reconnect are greeted with an expired hello.
- A connection that cloned a code publishes its proposal after the code was
  cancelled or replaced, and two connections may use one code; a person still
  has to confirm (`OnlyWhatWasConfirmed`).
- A phone revoking a computer goes on serving it until `stopDevice`. A sync served
  after `permissionStore.forget` adopts the desktop's set again, at its revision;
  the set outlives the revocation and wins after the next pairing, which is what
  `revokeDevice` means to rule out ("would have handed it back by pairing again,
  without ever being asked", `app_controller.dart:309-318`). It is the exception
  of `NoInventedPowers` (`readopted`).
- A phone forgotten and paired again starts at revision 0 on the desktop
  (`service.rs:420`); the phone kept its set with a higher revision, and the
  first sync restores the old grants.
- The phone's permission screen edits the set it loaded
  (`permission_controller.dart:94`), so after a sync a tap writes a revision
  that does not exceed the stored one.
- A narrowing of permissions asked for while a request is in flight waits for
  the mutex, so that request is decided without it (`set_permissions` says it
  takes effect at once).
- A `forget` whose write fails leaves memory and disk disagreeing until a
  restart. It also returns before `publish_known_peers` (`service.rs:267-276`):
  the phone is out of the store in memory but still in the listener's copy, and
  the retry is refused as `unknown-device`, so the listener "keeps accepting the
  phone that was just forgotten" (the comment's words) until something else
  publishes. The exception of `ForgottenPhoneFades`.
- `authorize` prints the error of a failing `audit.append` and goes on
  (`service.rs:696-698`, `730-732`), so on a full disk a prompt may have no entry
  in the log. Its client and its event still say what was decided
  (`PromptsAreAccounted`).

Local endpoint, SSH agent, audit log:

- The window for a client's first call is a timeout of each read
  (`ipc.rs:241`), and a blank line is read over (`ipc.rs:265`): a client that
  sends one in every window keeps its thread without the token, which
  `ipc.rs:108-121` says it must not. A client with the token that does not read
  its answers keeps its thread too. Both are the exceptions of
  `NeglectedIsReleased`; neither holds the mutex (`ServiceIsReleased`).
- A `session-bind` replaces the one before it (`ssh_session.rs:64`), and the
  policy sees the last one only: a connection bound as forwarded and then bound
  again as not is asked for and signed, though "agent forwarding is refused
  unless it has been allowed for that specific host"
  (`phone-auth-ssh-agent.rs:66`; `ssh_policy.rs:21-24`). `SignedAsShown` says
  what holds, of the last binding.
- `sign` ignores the key blob of the request: it is checked against the
  identities of one call and signed with whatever pairing the next call finds
  (the exception of `SignedWithTheKeyAsked`).
- A write of the audit log that is cut short leaves half a line, to which the
  next entry is glued; one torn inside a character hides everything after it
  from the reader and from the next trim (the exceptions of `NewestSurvives`).
  `read_all` means to skip a corrupt line ("a truncated write from a previous
  crash must not make the history unreadable", `audit.rs:147`), but its
  `map_while(Result::ok)` two lines above stops at one that is not UTF-8.
  A trim that fails makes an append that succeeded return an error.

Locker:

- `AtomicFile::commit` checks that the destination is free and then renames
  (`engine.rs:681`); on Unix a rename replaces. "Either way the loser of that
  race gets an error, not a lost file" (`engine.rs:679`) holds only when the
  first rename comes before the second check. The agent's mutex keeps its own
  calls apart, but the command line's recovery is another process: an unlock and
  a recovery of one document may both find its name free, the first removes the
  container, somebody saves the document, and the second rename replaces what
  was saved. A lock that publishes a new container while a recovery of the old
  one is at work loses it the same way, for the recovery removes by name.
  `NothingLost` and `RecoversWithoutPhone` except the documents this happened to
  (`overtaken`); without the exception TLC finds a behaviour of thirteen steps.
- A save of the same length, or made while the file is being read, goes with
  the original when the lock removes it by name.
- `verify` reads back the header and the chunks, not the wrappers' tags, though
  `lock_file` says that every tag is checked.
- What an unlock wrote is not read back before the container is removed
  (`engine.rs:247-252`), though steps 4 and 5 of `docs/locker-format.md` say "only
  then remove the input". A write the disk spoils there loses the document: the
  exception of `NothingLost` and `RecoversWithoutPhone` (faults that are
  `"restoring"`).
- A rekey with a new recovery code replaces the container before the code is
  written; a kill leaves `rekey-old` behind and the next rekey replaces it. Its
  two exchanges may take 240 s, while the command line waits 150 s; it then
  reports a failure for a call that runs on (`BatchTellsTheTruth` allows that
  direction only). A refused second connection counts as declined and stops a
  batch.

Disk unlock:

- A failing enrolment deletes the wrapper a previous one left, and may delete
  one that another command line has just written. A command line that gives up
  or is killed half-way may leave a wrapper without a slot (the exception of
  `BootOpens`) or a key file, which stops the next enrolment.
- The drill log is replaced whole and not atomically: a stale copy overwrites
  another volume's record (the exception of `CheckIsHonest`).

## What is proved

Eight modules of proofs, one for a component. Their theorems hold for every
value of the constants under the assumptions named below: any number of
clients, phones, computers, volumes, connections and messages, no bound on time
or on how long the program runs beyond the bounds that are constants
themselves. Each proof has the same shape: an inductive invariant made of named
parts, a lemma for the initial states, one for each action (or group of actions
that touch the same state) that says what it does to each part it can disturb,
and the theorems as its consequences. The invariants were model-checked on the
runs' instances first.

| Module | Theorems | Properties of the runs they state | Assumptions |
|---|---|---|---|
| `AgentServiceProofs` (`Verifier`) | `TypeCorrect`, `CredentialsAreUnique`, `RequestsAreSpentOnce`, `GrantsAreTheUsersAnswers`, `RevocationAlwaysHolds` | `UniqueCredentials`, `SpentOnce`, `GrantIsTheUsersAnswer`, `RevocationHolds` | those of `Verifier`: a guard of at least one id (`with_capacity` takes the maximum with 1), integer times, enrolments without permissions, a loaded store with unique ids |
| `AgentServiceProofs` (`AgentService`) | `AgentTypeCorrect`, `GrantsAreOverOwnSessions`, `GrantsAreStillIssuable`, `EveryPromptIsAccounted`, `KeepsContractSafely` | `GrantStillIssuable`, `PromptsAreAccounted`, and the safety part of `KeepsContract` | `CallsAssumption`: a session has one peer, a call carries arguments of its types |
| `AgentServiceProofs` (`LocalApi`) | `ApiTypeCorrect`, `CancellationsAreKept` | `CancelNotLost` | `LocalAssumption`: "none" is no connection, request or number, the table has room for one, clients make calls of their types |
| `PairingServiceProofs` | `PairingTypeCorrect`, `ParkedPhonesAreConfirmed`, `StoredPairingsWereConfirmed`, `AnswersAreOnDisk`, `NobodyCrowdsOut` | `OnlyConfirmedPhonesPark`, `OnlyWhatWasConfirmed`, `AnsweredIsDurable`, `NoCrowdingOut` | `PairingAssumption`, `PeersAssumption`: the pool holds at least one session a phone |
| `PermissionSyncProofs` | `SyncTypeCorrect`, `PowersAreGranted`, `SyncsEndAgreeing` | `NoInventedPowers`, `BothEndAgreeing` | `RevisionAssumption`: a revision can exceed 0 |
| `DiskUnlockProofs` | `DiskTypeCorrect`, `ImagesOpenTheDisk`, `LiveKeysAreRemoved`, `RecordsNameThePhonesSlot`, `DrillCheckIsHonest` | `BootOpens`, `NoLiveKeyLeftBehind`, `PhoneSlotIsThePhones`, `CheckIsHonest` | `DiskAssumption`: the root is a volume |
| `VaultProofs` | `VaultTypeCorrect`, `SnapshotsFollowWrites`, `WalksAgree`, `CopiesAreWhatWasClicked` | `SnapshotFollowsWrites`, `PagesAgree`, `CopiedIsWhatWasClicked` | `VaultAssumption`: page sizes are positive, "absent" is no site |
| `VaultProofs` (`SecretCopy`) | `CopyTypeCorrect`, `NewestEntrySurvives`, `OnlyTheRacedIsDestroyed` | `NewestSurvives`, `DestroysOnlyWhatRaced` | `CopiesAreEntries`, `AuditAssumption`, `ClipboardAssumption`: a copy is recorded as an entry, an entry has at least two bytes, at least one entry is retained and one attempt made, no copy is the user's |
| `BleTransportProofs` | `BleTypeCorrect`, `BleKeepsOrder`, `BleHandsOutRecentKeys` | `KeepsOrder`, `HandsOutRecentKeys` | `BleAssumption`, `FramingAssumption`: a connection is made with one key; sizes and windows are positive |
| `SshAgentProofs` | `SshTypeCorrect`, `SignaturesAreAsShown`, `SignaturesAreByTheKeyAsked`, `SignaturesReadBack` | `SignedAsShown`, `SignedWithTheKeyAsked`, `SignatureReadsBack` | `SshAssumption`, `WireAssumption`: finitely many keys, digits in a base of at least 2, scalars of at least one digit |
| `LockerProofs` | `LockerTypeCorrect`, `BatchesTellTheTruth`, `OnlySavedFiles`, `DocumentsAreKept`, `CodesAreKept` | `BatchTellsTheTruth`, `NeverADifferentFile`, `NothingLost`, `RecoversWithoutPhone` | `FormatAssumption`, `LockerAssumption`: a chunk has at least one block, what the directory may hold at first (above), batches and recovery keys of their types |

### The verifier

- `TypeCorrect`: `TypeOK` is inductive; one step per action, with lemmas for
  what `Inserted`, `Removed`, `Edited` and `Consume` return.
- `CredentialsAreUnique`: inductive with `TypeOK`. `insert` refuses what
  `Conflicts`, and keeps of the old record only what the new one does not name
  (`InsertedUnique`); an edit keeps the ids.
- `RequestsAreSpentOnce`: `SpentOnce` alone is not inductive, because it says
  nothing of the guard. The strengthening `GuardIsRecentHistory` says that
  `order` is exactly the last `Len(order)` entries of the history `judged`,
  that it is the whole history until it holds `Capacity` of them, and that
  `seen` is the set of its entries. `ConsumeKeepsWindow` shows that appending
  and evicting keep it; `ConsumeSpendsOnce` that an id outside `seen` is
  therefore more than `Capacity` judgements old.
- `GrantsAreTheUsersAnswers`: strengthened by `PendingWasIssued` (a pending
  request only comes from `issue`). `NewGrantsAreJudged` shows that whatever a
  step adds to `grants` went through `Answers` and `Granting`, and
  `VerifiedWasSigned` that a frame that verifies carries a signature a phone
  made.
- `RevocationAlwaysHolds`: an action property, from `NewGrantsAreJudged`.

### The authorization service

The argument is the mutex. `MutexIsHeld` says that a thread is inside
`authorize` exactly while it holds the mutex, `JobIsConsistent` that what it
picked (a phone that holds the credential, a session of that phone) is still
so, and `PendingIsTheJob` that the one pending request is its own, issued under
checks that still hold. None of the run's properties is inductive without
these. `StepsOfTheVerifier` shows that each step of the agent is a step of
`Verifier` or only drops a pending request, so what is proved of
the library's steps is used and not proved again. `GrantsAreStillIssuable`
covers what `accept` does not re-check. `GrantsAreOverOwnSessions` covers what
it does not compare: the session's phone against the phone whose key signed;
`UniqueCredentials` closes that gap. `Story` relates events, audit log and
grants (an entry that is missing is of an append that failed); from it follow `EveryPromptIsAccounted` and, one contract step for each
agent step, `KeepsContractSafely` (`AuthorizationContract!Safety`). The
contract's fairness stays with the `agent` run.

### The local endpoint

`TableTyped` says that the table of cancelled requests names none twice;
`Remembered` that a request is followed by no more entries than cancel calls
came after its own, until as many came as the table has room for. Each
operation on the table is a selection (`Without` of what is taken or expired,
the newest of what is left, the new one appended), and the lemma `KeptMovesUp`
about `Selection` is what they share: a kept entry never moves away from the
end. `ThreadsHold` says that the service is held by exactly the thread inside
it. `CancellationsAreKept` follows for a table of any size.

### Pairing

`PromisesAreKept` says that what an answered call promised is in memory and on
disk, `CallsAreStored` that the two agree between the steps of a call, which is
where a restart is harmless. `KnownAreConfirmed` (store, disk and mirror hold
only identities that were stored at the start or confirmed), with
`ThreadsConfirmed` for what a connection thread read before its wait, carries
confirmation to the pool; `HeldWasShown` carries an attempt and its digits from
the screen to `confirm_pairing`. The pool's functions keep a part of it
(`KeptIsPart`, about `Selection`), so whoever is in it was parked.

`NobodyCrowdsOut` is an action property with an invariant of its own:
`PoolIsCapped` says that no key is parked twice and no device has more than its
places. `RoomIsMade` shows that replacing a key and evicting the oldest session
each take one session of that device and leave it a place; from that the one
turn of `enforce_session_cap`'s loop is enough.

### Permission sync

`OnlyGranted` says that *both* stores hold only sets a person chose for that
credential and has not taken back, for what the desktop enforces comes from the
phone and the other way round; `RevokedIsEmpty` that a phone holds no set for a
computer it revoked, unless it re-adopted one in between (`Excepted`: only once
the record is gone, for until then the revocation may still fail). `CallIsConsistent` is what the desktop's mutex gives (its set is the
one it offered) and what it does not give: the phone may be edited before its
reply arrives, and only a reply that is not older than the offer and that no
edit overtook is what both ends hold. The lemma `AnswerIsNoOlder` is about
`reconcile`: what the phone answers is one of the two sets, and never older
than what it was offered, so the desktop always adopts it.

### Disk unlock

Files, slots and processes are tied together by the numbers of the keys.
`KeyFileIsOwned`: the key in the file is that of the one command line that may
add it. `NumbersAreFresh` and `SlotsAreOlder`: a key that is still to be
written is in no slot. `WrappersOpen`: the key of a wrapper is in a slot unless
its enrolment runs or was cut short, and `BootFileOpens` carries that into an
image. `SlotsAreCounted`: of the slots that were not there at the first count,
one is the enrolment's, so if exactly one is new, that is it, whoever else added
one. `RecordsAreGood` and `LogsCover` are about the drill log and what each
process is about to write over it: its days are days a passphrase was typed,
and it covers every volume but those an older copy overwrote.

### Vault

`VaultTyped` says where rows may be (snapshot, reads, sheets, walks, trays) and
that every one of them is in `Seen`: it is the item as stored, an older
revision, or of an item since deleted. `MoreIsSeen` and `StoreKeepsSeen` show
that no step of the store makes a seen row untrue; this is what lets a copy
compare revisions and nothing else. `ReadsAreOfTheirEra` says that a read
captured in the present era has seen every write, so the snapshot that is kept
of it (`KeptRead`) has too. `WalksFollow` says that an undisturbed
walk past its first page holds the snapshot up to its cursor, and `PageContinues`
that the next page goes on from there, so at the end it holds all of it, for
any page size.

### Clipboard and audit log

`UsersAreExposed`: what the user copied is on a board that the program takes
for its own, is about to claim or is about to empty only when it was copied
inside one of the two windows between two system calls. With `TimerInv` (a
number claimed is no newer than the board's, a timer that goes on has an attempt
left) it is inductive, and what a clear destroys follows (`ClearIsOfTheRaced`).

The log is read by positions: `TheLastIsRead` says that a file which is read to
its end, and whose last piece is a whole line, reads back with that piece last;
`TheNewestIsRetained` that a trim keeps the newest entry whatever the sizes are;
`WholeFilesEndWithTheirLast` that a trimmed file is one of those that are read
to the end. `AppendsAreRead` puts them together for an append that was cut short,
trimmed or neither.

### Bluetooth

`FramesAreGenuine` says that every record in the air or reassembled holds what
its phone sealed under that counter, whatever was lost, repeated or mixed in;
`CountersCount` that each end's counter is the length of what it sealed or
opened. So what opens next is the next message, and each step of
`BleTransport` is a step of `OrderedChannel` or a stutter (`StepIsOrdered`).
That parts of different frames never make something that opens is not proved: it
is the promise of the record's seal, which the model takes as ideal
(`Assembled`). `KeysAreRecent` bounds
the age of a session by the time its key has been unpaired, counting the one
interval whose boundary may fall into the attach window.

### Locker

The invariant has three layers, each inductive given the ones below it.

`Typed` gives every file, operation, call and batch its shape: which documents
may be at a path, what an operation holds at each of its steps, that its call's
number is nobody else's. Its part `BatchCounts` relates the calls a batch has
made, its failures and `done`; `BatchesTellTheTruth` is its consequence.

`Kept` says that a *ledger* exists: a function from documents and call numbers
to contents, such that every container in the directory or in an operation's
hands (`Holding`) has, of its sound chunks, only chunks of the content its core
has in the ledger (`SealedFrom`), in whatever order or number. The ledger is
not a variable: it is quantified over, and a lock that ends its reading adds the
content it has read under its own number, which sealed nothing before
(`Unused`). `ContentIsTheLedgers` is the theorem about the format: a container
whose count of chunks, indexes, last mark and lengths are all as its header says
opens to exactly that content. It rests on the lemmas about blocks and chunks
(`ChunksCoverTheLength`, `WholeOfTheParts`), for any size of chunk. With
`HonestPlain` (what is in the clear was saved) `OnlySavedFiles` follows.

`Claiming` and `AllSecure` say where a document is. `Current`: in the clear as
last saved; else in its container, which reads back, holds the last save and
whose code is known (on file, or a rekey's still to be written); else in what a
rekey set aside. None of this is inductive alone: a container in place is only
as good as what the operation that put it there had in hand. `LockSecure`,
`UnlockSecure` and `RekeySecure` say for each step what the operation may rely
on: the original is there until its code is on file, an opened container is
still the current one or the document is in the clear, and the rekey's new
container is of the same core as the one it replaces. `Late` is about a recovery
and a lock of one document at once. Each action is shown to keep it for the
document it works on, and what it does to others is nothing (`OnlyOf`); codes on
file are never replaced (`CodesStay`). Damage at rest, a spoilt output of an
unlock or a recovery, and `overtaken` documents are excepted (`Safe`), saves that raced a lock are so in `IsLatest`.
`DocumentsAreKept` and `CodesAreKept` follow with `Wrapped` (one wrapper of a
container is intact, both unless a write failed), for any number of documents,
recovery files, calls, saves and faults. The encoding of the code
(`FormatCode`, `ParseCode`) only decides whether a recovery may begin.

### SSH agent

`SessionInv` is a trail from a reply back to what was typed: the reply the
session waits for is to the call at its head (`AwaitedCallIsTheHeads`, though
late replies to older calls stay behind: `IdsAreOlder`), a prompt is a call
(`PromptIsACall`), and a binding is the last one of the connection that sent it
(`BindIsOwn`). `SignaturesReadBack` is about the encoding alone: `Trimmed`
finds the first digit that is not zero, `Mpint` puts a zero before a high one,
reading takes both away and pads back to the width, for every base and width.

### Model-checked only

- Liveness: `EveryCallIsAnswered`, `ForgottenPhoneFades`, `BootEnds`,
  `SecretLeaves`, `HubIsFreed`, `ServiceIsReleased`, `NeglectedIsReleased`,
  `AnsweredInTurn`, and the fairness in `KeepsContract`. They rest on `ENABLED`,
  which is out of the prover's reach.
- That a recovery code reads back as the key it was made from: `FormatCode` and
  `ParseCode` fold over bytes and symbols, and what a fold computes for every
  input needs an induction over data. The `locker` run evaluates it for three
  keys and lets a recovery begin with those that parse (`Parses`); no theorem
  depends on it.

Every invariant the runs check is proved, and so are the action properties and
the safety part of the refinements.

## What is not modelled

- Cryptography (the handshake, the key schedule, AEADs, signatures, key
  wrapping), wire encodings and container formats: reduced to who can produce
  and open what. The one encoding that is modelled digit by digit is the mpint.
- The phone's session runner (reconnection, keep-alive, dispatch): the desktop
  sees phones that connect, answer, decline, hang up or stay silent, and the
  models let them do so in any order. The Android key stores and the credential
  provider are platform I/O around keys that sign.
- The desktop UI, the NixOS module and the Windows plugin: a shell around the
  local API and packaging, with no state the agent depends on.
- The GATT service and advertising, and the browser extension's service worker:
  platform glue below `BleTransport` and in front of `LocalApi`.
- The token file, line and size limits of the local endpoint, the calls that
  only read, and the command line's parsing and printing.
- In the locker: links and hard links, which are refused before the first step;
  the limits of a batch in files and bytes; how a recovery code may be typed;
  power loss that keeps a later write and drops an earlier one.
- In the vault: import, export and the phone's own vault screen, except as the
  user's edits.

## What could come next

1. The lemmas about `Selection`, of which `PairingServiceProofs`, `VaultProofs`
   and `AgentServiceProofs` each state the ones they need, in a module of their
   own.
2. The phone's session runner, approving one request at a time, and the UI's
   supervision of the agent.
3. The commit of `AtomicFile` as a link instead of a rename, should the code
   take that way: `overtaken` would then be empty, and `NothingLost` lose that
   exception.
