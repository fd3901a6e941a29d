------------------------------- MODULE Vault -------------------------------
(***************************************************************************)
(* The personal vault between computers and one phone: the agent's walk of *)
(* a listing, its fill and its copy (agent vault.rs; service.rs walk_vault,*)
(* vault_list, vault_fill, vault_copy, vault_create), and the phone's      *)
(* service, listing snapshot and store (mobile vault_service.dart,         *)
(* vault_listing.dart; VaultStore.kt).                                     *)
(*                                                                         *)
(* An item is its id, its revision and the site of its address; a secret   *)
(* is the revision it belongs to.  A computer makes one call at a time     *)
(* (the service mutex) and a session carries one request, so a listing is  *)
(* as many sessions as it has pages.  The phone serves the computers side  *)
(* by side: a read of the store, a sheet and a write are awaited, and what *)
(* follows runs later.  The phone handles vault.update and vault.delete    *)
(* too, which the agent of this repository never sends.                    *)
(***************************************************************************)
EXTENDS Naturals, Sequences, SequencesExt, FiniteSets, FiniteSetsExt, Selection

CONSTANTS
    Order,              \* every item that may exist, the one stored last first
    Sites,              \* sites an address or a page may name
    Initially,          \* item -> the site it is stored for, or "absent"
    Computers,          \* paired computers
    Calls,              \* bound: computer -> the calls it makes
    Honest,             \* BOOLEAN choices: does the phone follow its code?
    PageSize,           \* MAX_PAGE_ITEMS
    MAX_ITEMS,          \* items one listing may carry
    MaxCalls,           \* bound: computer -> calls it makes
    MaxEdits,           \* bound: changes made on the phone's own screen
    MaxForgets          \* bound: snapshots that expire

Items == Range(Order)

(* The calls of all computers: a number, since the computers are finitely  *)
(* many.                                                                   *)
AllCalls == MapThenSumSet(LAMBDA d : MaxCalls[d], Computers)

ASSUME VaultAssumption ==
    /\ Order \in Seq(Items) /\ AllCalls \in Nat
    /\ Initially \in [Items -> Sites \cup {"absent"}] /\ "absent" \notin Sites
    /\ Calls \in [Computers -> SUBSET {"list", "fill", "copy", "create", "update", "delete"}]
    /\ Honest \subseteq BOOLEAN
    /\ {PageSize, MAX_ITEMS} \subseteq Nat \ {0} /\ {MaxEdits, MaxForgets} \subseteq Nat /\ MaxCalls \in [Computers -> Nat]

VARIABLES
    honest,             \* whether the phone follows its code
    store,              \* item -> [rev, site]; revision 0 is no item
    newest,             \* the items by updatedAtMs, the one changed last first
    listing,            \* VaultListing: [items, era]; items is one Read or NoRead
    reads,              \* era -> the read of the store under way in it
    request,            \* computer -> the request the phone is serving
    call,               \* computer -> the call its agent is making
    rows,               \* computer -> the rows its tray shows, from an earlier listing at first
    result,             \* computer -> the outcome of its last call
    made, edits, forgets,
    writes,             \* history: writes computers have finished
    disturbed           \* history: computers whose walk others interfered with

vars == <<honest, store, newest, listing, reads, request, call, rows, result, made, edits, forgets,
          writes, disturbed>>
phoneVars == <<store, newest, listing, reads, request, forgets, writes>>
counters == <<made, edits, forgets, writes>>

None == "none"
Absent == [rev |-> 0, site |-> "absent"]
Row(i) == [id |-> i, rev |-> store[i].rev, site |-> store[i].site]
(* ordered: what is there, newest first.  A change puts its item at the    *)
(* front: the phone's clock does not go back, and is fine enough to tell   *)
(* two changes apart.                                                      *)
Present == Kept(newest, {k \in DOMAIN newest : store[newest[k]].rev > 0})
Renewed(i) == newest' = <<i>> \o Kept(newest, {k \in DOMAIN newest : newest[k] # i})
(* listAll, and how many writes it has seen. *)
Read == [state |-> "read", rows |-> [k \in 1 .. Len(Present) |-> Row(Present[k])], writes |-> writes]

NoRead == [state |-> "none"]
Begun == [state |-> "begun"]

Idle == [pc |-> "idle"]
Eras == 0 .. MaxForgets + AllCalls

Init ==
    /\ honest \in Honest
    /\ store = [i \in Items |-> IF Initially[i] = "absent" THEN Absent
                                ELSE [rev |-> 1, site |-> Initially[i]]]
    /\ newest = Order
    /\ writes = 0
    /\ listing = [items |-> NoRead, era |-> 0]
    /\ reads = [e \in Eras |-> NoRead]
    /\ request = [d \in Computers |-> Idle]
    /\ call = [d \in Computers |-> Idle]
    /\ rows = [d \in Computers |-> Read.rows]
    /\ result = [d \in Computers |-> [code |-> None]]
    /\ made = [d \in Computers |-> 0] /\ edits = 0 /\ forgets = 0
    /\ disturbed = {}

-----------------------------------------------------------------------------
(* The payloads, and what their decoders refuse. *)

ListRequest(cursor) == [op |-> "list", cursor |-> cursor]       \* 0 starts a walk
FetchRequest(id) == [op |-> "fetch", id |-> id]
CreateRequest == [op |-> "create", id |-> None]
UpdateRequest(row) == [op |-> "update", id |-> row.id, expected |-> row.rev]
DeleteRequest(row) == [op |-> "delete", id |-> row.id, expected |-> row.rev]

ListResponse(items, next) == [items |-> items, next |-> next]   \* 0 ends it
FetchResponse(i) == Row(i)

(* ListResponse::validate: the number of items, and every revision. *)
ValidPage(page) ==
    /\ Len(page.items) <= PageSize
    /\ \A k \in 1 .. Len(page.items) : page.items[k].rev > 0

-----------------------------------------------------------------------------
(* The computer's side. *)

(* A request goes out over a session of its own. *)
Send(d, payload) ==
    /\ request[d] = Idle
    /\ request' = [request EXCEPT ![d] = [pc |-> "arrived", asks |-> payload, expired |-> FALSE]]

Finish(d, outcome) ==
    /\ result' = [result EXCEPT ![d] = outcome]
    /\ call' = [call EXCEPT ![d] = Idle]

Failed(d, code) == Finish(d, [code |-> code, op |-> call[d].op])

(* vault.list, and vault.fill for a page of a site, begin with a walk; a   *)
(* copy names a row the tray shows; a write names the revision it replaces.*)
BeginWalk(d, op, site) ==
    /\ op \in Calls[d]
    /\ call[d] = Idle /\ made[d] < MaxCalls[d]
    /\ call' = [call EXCEPT ![d] =
         [pc |-> "walking", op |-> op, site |-> site, items |-> <<>>, cursor |-> 0, seen |-> {}]]
    /\ made' = [made EXCEPT ![d] = @ + 1]
    /\ disturbed' = disturbed \ {d}
    /\ UNCHANGED <<honest, store, newest, listing, reads, request, rows, result, edits, forgets, writes>>

AskPage(d) ==
    /\ call[d].pc = "walking"
    /\ Send(d, ListRequest(call[d].cursor))
    /\ call' = [call EXCEPT ![d].pc = "paging"]
    /\ UNCHANGED <<honest, store, newest, listing, reads, rows, result, made, edits, forgets, writes, disturbed>>

BeginCopy(d) ==
    /\ "copy" \in Calls[d]
    /\ call[d] = Idle /\ made[d] < MaxCalls[d]
    /\ \E k \in 1 .. Len(rows[d]) :
         /\ Send(d, FetchRequest(rows[d][k].id))
         /\ call' = [call EXCEPT ![d] = [pc |-> "fetching", op |-> "copy", row |-> rows[d][k]]]
    /\ made' = [made EXCEPT ![d] = @ + 1]
    /\ UNCHANGED <<honest, store, newest, listing, reads, rows, result, edits, forgets, writes, disturbed>>

BeginWrite(d, op) ==
    /\ call[d] = Idle /\ made[d] < MaxCalls[d]
    /\ op \in Calls[d]
    /\ \/ op = "create" /\ Send(d, CreateRequest)
       \/ \E k \in 1 .. Len(rows[d]) :
            \/ op = "update" /\ Send(d, UpdateRequest(rows[d][k]))
            \/ op = "delete" /\ Send(d, DeleteRequest(rows[d][k]))
    /\ call' = [call EXCEPT ![d] = [pc |-> "writing", op |-> op]]
    /\ made' = [made EXCEPT ![d] = @ + 1]
    /\ UNCHANGED <<honest, store, newest, listing, reads, rows, result, edits, forgets, writes, disturbed>>

(* list_all goes on only with a cursor it has not seen, after a page that  *)
(* carried something, below the ceiling.                                   *)
MakesProgress(c, page) ==
    /\ page.next \notin c.seen
    /\ page.items # <<>>
    /\ Len(c.items \o page.items) <= MAX_ITEMS

(* list_all, for one page. *)
TakePage(d, page) ==
    LET c == call[d] IN
    CASE ~ValidPage(page) -> [c EXCEPT !.pc = "refused"]
      [] ValidPage(page) /\ page.next = 0 -> [c EXCEPT !.pc = "walked", !.items = @ \o page.items]
      [] ValidPage(page) /\ page.next # 0 /\ ~MakesProgress(c, page) -> [c EXCEPT !.pc = "refused"]
      [] OTHER -> [c EXCEPT !.pc = "walking", !.items = @ \o page.items, !.cursor = page.next,
                            !.seen = @ \cup {page.next}]

(* vault_fill: the one login stored for exactly this host. *)
Matches(d) == Kept(call[d].items, {k \in DOMAIN call[d].items : call[d].items[k].site = call[d].site})

(* The walk is over: the rows go to the tray, or a fill asks for the one   *)
(* item, over a session of its own.                                        *)
EndWalk(d) ==
    /\ \/ /\ call[d].pc = "refused"
          /\ Failed(d, "protocol-error")
          /\ UNCHANGED <<rows, request>>
       \/ /\ call[d].pc = "walked" /\ call[d].op = "list"
          /\ rows' = [rows EXCEPT ![d] = call[d].items]
          /\ Finish(d, [code |-> "ok", op |-> "list"])
          /\ UNCHANGED request
       \/ /\ call[d].pc = "walked" /\ call[d].op = "fill" /\ Len(Matches(d)) # 1
          /\ Failed(d, IF Matches(d) = <<>> THEN "not-found" ELSE "ambiguous")
          /\ UNCHANGED <<rows, request>>
       \/ /\ call[d].pc = "walked" /\ call[d].op = "fill" /\ Len(Matches(d)) = 1
          /\ Send(d, FetchRequest(Matches(d)[1].id))
          /\ call' = [call EXCEPT ![d] = [pc |-> "fetching", op |-> "fill", row |-> Matches(d)[1]]]
          /\ UNCHANGED <<rows, result>>
    /\ UNCHANGED <<honest, store, newest, listing, reads, made, edits, forgets, writes, disturbed>>

(* Mutant of TakeSecret: whatever came back is used. *)
TakeSecretUnchecked(d, secret) ==
    Finish(d, [code |-> "ok", op |-> call[d].op, row |-> call[d].row, secret |-> secret])

(* A copy compares the revision with the row that was clicked; a fill does *)
(* not.                                                                    *)
TakeSecret(d, secret) ==
    IF call[d].op = "copy" /\ secret.rev # call[d].row.rev
    THEN Failed(d, "revision-conflict")
    ELSE Finish(d, [code |-> "ok", op |-> call[d].op, row |-> call[d].row, secret |-> secret])

Waiting(d) == call[d].pc \in {"paging", "fetching", "writing"}

(* The session is lost or the answer does not come in time: the phone goes *)
(* on with what it was asked.                                              *)
GiveUp(d) ==
    /\ Waiting(d)
    /\ Failed(d, "vault-unavailable")
    /\ \/ request[d] # Idle /\ request' = [request EXCEPT ![d].expired = TRUE]
       \/ UNCHANGED request
    /\ UNCHANGED <<honest, store, newest, listing, reads, rows, counters, disturbed>>

-----------------------------------------------------------------------------
(* The phone's side.  An answer reaches the call that waits for it.        *)

Reply(d) == request' = [request EXCEPT ![d] = Idle]

Declines(d) ==
    /\ Reply(d)
    /\ IF Waiting(d) THEN Failed(d, "declined") ELSE UNCHANGED <<call, result>>

(* _list on the rows at hand. *)
Page(all, offset) == SubSeq(all, offset + 1, Min({offset + PageSize, Len(all)}))
NextCursor(all, offset) ==
    IF offset + PageSize < Len(all) THEN offset + PageSize ELSE 0

(* What becomes of a computer's request, its call and its result when the  *)
(* rows are at hand: a list is answered, with an error if the cursor is    *)
(* past the end; the others show a sheet that names the row, if there is   *)
(* one (_describe).                                                        *)
Served(d, all) ==
    LET r == request[d].asks IN
    IF r.op # "list"
    THEN [request |-> [pc |-> "sheet", asks |-> r, expired |-> request[d].expired,
                       named |-> Kept(all, {k \in DOMAIN all : all[k].id = r.id})],
          call |-> call[d], result |-> result[d]]
    ELSE [request |-> Idle,
          call |-> CASE call[d].pc # "paging" -> call[d]
                     [] call[d].pc = "paging" /\ r.cursor > Len(all) -> Idle
                     [] OTHER -> TakePage(d, ListResponse(Page(all, r.cursor), NextCursor(all, r.cursor))),
          result |-> IF call[d].pc = "paging" /\ r.cursor > Len(all)
                     THEN [code |-> "vault-unavailable", op |-> call[d].op] ELSE result[d]]

Deliver(ds, all) ==
    /\ request' = [d \in Computers |-> IF d \in ds THEN Served(d, all).request ELSE request[d]]
    /\ call' = [d \in Computers |-> IF d \in ds THEN Served(d, all).call ELSE call[d]]
    /\ result' = [d \in Computers |-> IF d \in ds THEN Served(d, all).result ELSE result[d]]

(* Mutant of Snapshot: every page is read afresh. *)
SnapshotNever(d) == NoRead

(* VaultListing.items: a page after the first, and a sheet, use the        *)
(* snapshot that is held.                                                  *)
Snapshot(d) ==
    IF request[d].asks.op = "list" /\ request[d].asks.cursor = 0 THEN NoRead ELSE listing.items

(* Others the phone serves meanwhile disturb a walk. *)
Disturbs(d) == disturbed' = disturbed \cup (Computers \ {d})

(* A request arrives: a create shows its sheet at once, the others need    *)
(* the listing, and wait for the read that is under way or begin one.      *)
Arrive(d) ==
    LET e == listing.era IN
    /\ honest /\ request[d].pc = "arrived"
    /\ \/ /\ request[d].asks.op = "create"
          /\ Deliver({d}, <<>>)
          /\ UNCHANGED <<listing, reads>>
       \/ /\ request[d].asks.op # "create" /\ Snapshot(d) # NoRead
          /\ Deliver({d}, Snapshot(d).rows)
          /\ UNCHANGED <<listing, reads>>
       \/ /\ request[d].asks.op # "create" /\ Snapshot(d) = NoRead
          /\ reads' = IF reads[e] = NoRead THEN [reads EXCEPT ![e] = Begun] ELSE reads
          /\ request' = [request EXCEPT ![d] = [pc |-> "reading", asks |-> @.asks,
                                                expired |-> @.expired, era |-> e]]
          /\ UNCHANGED <<listing, call, result>>
    /\ Disturbs(d)
    /\ UNCHANGED <<honest, store, newest, rows, counters>>

(* The store is read behind the channel... *)
Capture(e) ==
    /\ reads[e] = Begun
    /\ reads' = [reads EXCEPT ![e] = Read]
    /\ UNCHANGED <<honest, store, newest, listing, request, call, rows, result, counters, disturbed>>

(* Mutant of KeptRead: whatever was read becomes the snapshot. *)
KeptRegardless(e) == [listing EXCEPT !.items = reads[e]]

(* ...and becomes the snapshot if nothing forgot it meanwhile. *)
KeptRead(e) == IF e = listing.era THEN [listing EXCEPT !.items = reads[e]] ELSE listing

Waiters(e) == {d \in Computers : request[d].pc = "reading" /\ request[d].era = e}

(* The read returns to everyone who waits for it. *)
Return(e) ==
    /\ reads[e].state = "read"
    /\ listing' = KeptRead(e)
    /\ reads' = [reads EXCEPT ![e] = NoRead]
    /\ Deliver(Waiters(e), reads[e].rows)
    /\ UNCHANGED <<honest, store, newest, rows, counters, disturbed>>

(* The biometric prompt of the read is dismissed. *)
ReadRefused(e) ==
    /\ reads[e] = Begun
    /\ reads' = [reads EXCEPT ![e] = NoRead]
    /\ request' = [d \in Computers |-> IF d \in Waiters(e) THEN Idle ELSE request[d]]
    /\ call' = [d \in Computers |-> IF d \in Waiters(e) /\ Waiting(d) THEN Idle ELSE call[d]]
    /\ result' = [d \in Computers |-> IF d \in Waiters(e) /\ Waiting(d)
                     THEN [code |-> "declined", op |-> call[d].op] ELSE result[d]]
    /\ UNCHANGED <<honest, store, newest, listing, rows, counters, disturbed>>

Stale(d) ==
    LET r == request[d].asks IN
    \/ r.op # "create" /\ store[r.id].rev = 0
    \/ r.op \in {"update", "delete"} /\ store[r.id].rev # r.expected

(* The sheet is refused, answered too late, or approved for something that *)
(* is not there any more: one answer for all three.                        *)
Refuse(d) ==
    /\ request[d].pc = "sheet"
    /\ Declines(d)
    /\ UNCHANGED <<honest, store, newest, listing, reads, rows, counters, disturbed>>

ReleaseSecret(d) ==
    /\ request[d].pc = "sheet" /\ request[d].asks.op = "fetch" /\ ~request[d].expired /\ ~Stale(d)
    /\ Reply(d)
    /\ IF call[d].pc = "fetching" THEN TakeSecret(d, FetchResponse(request[d].asks.id))
                                  ELSE UNCHANGED <<call, result>>
    /\ UNCHANGED <<honest, store, newest, listing, reads, rows, counters, disturbed>>

Unused == {i \in Items : store[i] = Absent}

(* _create, _update, _delete: the store changes... *)
StoreWrite(d) ==
    LET r == request[d].asks IN
    /\ request[d].pc = "sheet" /\ r.op # "fetch" /\ ~request[d].expired /\ ~Stale(d)
    /\ \/ r.op = "create" /\ \E i \in Unused, s \in Sites :
            store' = [store EXCEPT ![i] = [rev |-> 1, site |-> s]] /\ Renewed(i)
       \/ r.op = "update" /\ \E s \in Sites :
            store' = [store EXCEPT ![r.id] = [rev |-> @.rev + 1, site |-> s]] /\ Renewed(r.id)
       \/ r.op = "delete" /\ store' = [store EXCEPT ![r.id] = [rev |-> 0, site |-> "gone"]] /\ UNCHANGED newest
    /\ request' = [request EXCEPT ![d].pc = "stored"]
    /\ UNCHANGED <<honest, listing, reads, call, rows, result, counters, disturbed>>

Forgotten == [items |-> NoRead, era |-> listing.era + 1]

(* ...and once that is known here the snapshot is forgotten. *)
FinishWrite(d) ==
    /\ request[d].pc = "stored"
    /\ listing' = Forgotten
    /\ writes' = writes + 1
    /\ Reply(d)
    /\ IF call[d].pc = "writing" THEN Finish(d, [code |-> "ok", op |-> call[d].op])
                                 ELSE UNCHANGED <<call, result>>
    /\ Disturbs(d)
    /\ UNCHANGED <<honest, store, newest, reads, rows, made, edits, forgets>>

(* Thirty seconds without a page. *)
Expire ==
    /\ forgets < MaxForgets /\ listing.items # NoRead
    /\ forgets' = forgets + 1
    /\ listing' = Forgotten
    /\ disturbed' = Computers
    /\ UNCHANGED <<honest, store, newest, reads, request, call, rows, result, made, edits, writes>>

(* The user edits or removes an item on the phone's own screen, which does *)
(* not touch the listing of the served frames.                             *)
ScreenEdit(i) ==
    /\ edits < MaxEdits /\ store[i].rev > 0
    /\ edits' = edits + 1
    /\ \/ store' = [store EXCEPT ![i] = [rev |-> 0, site |-> "gone"]] /\ UNCHANGED newest
       \/ \E s \in Sites : store' = [store EXCEPT ![i] = [rev |-> @.rev + 1, site |-> s]] /\ Renewed(i)
    /\ UNCHANGED <<honest, listing, reads, request, call, rows, result, made, forgets, writes, disturbed>>

(* A phone that does not follow its code: any page, any cursor. *)
AnyPage(d) ==
    /\ ~honest /\ request[d].pc = "arrived" /\ request[d].asks.op = "list"
    /\ \E n \in 0 .. PageSize + 1, i \in Items, next \in 0 .. MAX_ITEMS + 2 :
         call' = [call EXCEPT ![d] =
            IF @.pc = "paging" THEN TakePage(d, ListResponse([k \in 1 .. n |-> Row(i)], next)) ELSE @]
    /\ Reply(d)
    /\ UNCHANGED <<honest, store, newest, listing, reads, rows, result, counters, disturbed>>

Next ==
    \/ \E d \in Computers :
          \/ BeginWalk(d, "list", None) \/ \E s \in Sites : BeginWalk(d, "fill", s)
          \/ AskPage(d) \/ EndWalk(d) \/ GiveUp(d) \/ BeginCopy(d)
          \/ \E op \in {"create", "update", "delete"} : BeginWrite(d, op)
          \/ Arrive(d) \/ Refuse(d) \/ ReleaseSecret(d)
          \/ StoreWrite(d) \/ FinishWrite(d) \/ AnyPage(d)
    \/ \E e \in Eras : Capture(e) \/ Return(e) \/ ReadRefused(e)
    \/ \E i \in Items : ScreenEdit(i)
    \/ Expire

Spec == Init /\ [][Next]_vars

-----------------------------------------------------------------------------
TypeOK ==
    /\ store \in [Items -> [rev : Nat, site : Sites \cup {"absent", "gone"}]]
    /\ newest \in Seq(Items)
    /\ listing.era \in Nat
    /\ listing.items # NoRead => listing.items.rows \in Seq([id : Items, rev : Nat \ {0}, site : Sites \cup {"absent", "gone"}])
    /\ \A d \in Computers :
         /\ call[d].pc \in {"idle", "walking", "paging", "walked", "refused", "fetching", "writing"}
         /\ request[d].pc \in {"idle", "arrived", "reading", "sheet", "stored"}
         /\ rows[d] \in Seq([id : Items, rev : Nat \ {0}, site : Sites \cup {"absent", "gone"}])

(* "the pages of one walk agree with each other across the several         *)
(* sessions it takes to fetch them" (list_all): a walk that no other       *)
(* computer and no expiry came between returns one state of the vault,     *)
(* whatever the user changes on the phone's own screen meanwhile.          *)
PagesAgree ==
    \A d \in Computers :
        honest /\ call[d].pc = "walked" /\ d \notin disturbed
            => listing.items # NoRead /\ call[d].items = listing.items.rows

(* "a write this service made has to invalidate it: otherwise the next     *)
(* request for this item would name it whatever it was called before"      *)
(* (vault_service.dart): no snapshot outlives a computer's write, also not *)
(* one whose read was begun before it and returns after.                   *)
SnapshotFollowsWrites == listing.items # NoRead => listing.items.writes = writes

(* "the value it is about to put on the clipboard belongs to the row the   *)
(* user clicked, and not to a version edited on another device in between" *)
(* (FetchResponse).                                                        *)
CopiedIsWhatWasClicked ==
    \A d \in Computers :
        result[d].code = "ok" /\ result[d].op = "copy" => result[d].secret = result[d].row
=============================================================================
