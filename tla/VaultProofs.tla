---------------------------- MODULE VaultProofs ----------------------------
(***************************************************************************)
(* Machine-checked theorems about Vault, for every set of computers, every *)
(* set of items and page size, and a phone that follows its code or not:   *)
(* a snapshot does not outlive a write, the pages of an undisturbed walk   *)
(* are one state of the vault, and a copy is the row that was clicked.     *)
(* And about what becomes of a secret that is copied (SecretCopy), for     *)
(* every number of copies, lengths of entries and limits of the log: a     *)
(* clear destroys only what raced with it, and the audit log keeps its     *)
(* newest entry.                                                           *)
(***************************************************************************)
EXTENDS Vault, SecretCopy, SequenceTheorems, FiniteSetTheorems, FunctionTheorems,
        WellFoundedInduction, TLAPS

(***************************************************************************)
(* What a selection keeps.                                                 *)
(***************************************************************************)

(* Positions have ranks of their own, so every rank is some position's.    *)
LEMMA RanksAreTaken ==
    ASSUME NEW n \in Nat, NEW keep \in SUBSET (1 .. n)
    PROVE  /\ IsFiniteSet(keep) /\ Cardinality(keep) \in Nat
           /\ \A k \in 1 .. Cardinality(keep) : \E i \in keep : Rank(keep, i) = k
           /\ \A i, j \in keep : Rank(keep, i) = Rank(keep, j) => i = j
  <1>1. IsFiniteSet(keep) /\ Cardinality(keep) \in Nat
    <2>1. IsFiniteSet(1 .. n)
      BY FS_Interval
    <2>. QED
      BY <2>1, FS_Subset, FS_CardinalityType
  <1>. DEFINE upTo(i) == {j \in keep : j <= i}
              m == Cardinality(keep)
  <1>2. ASSUME NEW i \in keep
        PROVE  /\ IsFiniteSet(upTo(i)) /\ Cardinality(upTo(i)) \in Nat
               /\ Cardinality(upTo(i)) <= m
               /\ Cardinality(upTo(i)) # 0
    <2>1. upTo(i) \in SUBSET keep
      OBVIOUS
    <2>2. IsFiniteSet(upTo(i)) /\ Cardinality(upTo(i)) <= m
      BY <1>1, <2>1, FS_Subset
    <2>3. Cardinality(upTo(i)) \in Nat
      BY <2>2, FS_CardinalityType
    <2>4. i \in upTo(i)
      OBVIOUS
    <2>. QED
      BY <2>2, <2>3, <2>4, FS_EmptySet
  <1>3. \A i \in keep : Rank(keep, i) \in 1 .. m
    BY <1>1, <1>2 DEF Rank
  <1>4. ASSUME NEW i \in keep, NEW j \in keep, i < j
        PROVE  Rank(keep, i) < Rank(keep, j)
    <2>1. upTo(i) \in SUBSET upTo(j)
      <3>1. \A k \in keep : k \in Int
        OBVIOUS
      <3>2. \A k \in keep : k <= i => k <= j
        BY <1>4, <3>1
      <3>. QED
        BY <3>2
    <2>2. j \in upTo(j) /\ j \notin upTo(i)
      BY <1>4
    <2>3. Cardinality(upTo(i)) <= Cardinality(upTo(j)) /\ Cardinality(upTo(i)) # Cardinality(upTo(j))
      BY <1>2, <2>1, <2>2, FS_Subset
    <2>. QED
      BY <1>2, <2>3 DEF Rank
  <1>. DEFINE f == [i \in keep |-> Rank(keep, i)]
  <1>0. \A i, j \in keep : Rank(keep, i) = Rank(keep, j) => i = j
    BY <1>3, <1>4
  <1>5. f \in Injection(keep, 1 .. m)
    BY <1>0, <1>3 DEF Injection, IsInjective
  <1>6. IsFiniteSet(1 .. m) /\ Cardinality(1 .. m) = m
    BY <1>1, FS_Interval
  <1>7. f \in Surjection(keep, 1 .. m)
    BY <1>5, <1>6, FS_Injection
  <1>. QED
    BY <1>0, <1>1, <1>7 DEF Surjection

LEMMA KeptIsPart ==
    ASSUME NEW S, NEW s \in Seq(S), NEW keep \in SUBSET (DOMAIN s), NEW new, new = Kept(s, keep)
    PROVE  new \in Seq(S) /\ ToSet(new) \subseteq ToSet(s)
  <1>1. Len(s) \in Nat /\ DOMAIN s = 1 .. Len(s) /\ \A i \in 1 .. Len(s) : s[i] \in S
    OBVIOUS
  <1>2. /\ Cardinality(keep) \in Nat
        /\ \A k \in 1 .. Cardinality(keep) : \E i \in keep : Rank(keep, i) = k
    BY <1>1, RanksAreTaken
  <1>. DEFINE at(k) == CHOOSE i \in keep : Rank(keep, i) = k
  <1>3. \A k \in 1 .. Cardinality(keep) : at(k) \in keep
    BY <1>2
  <1>4. new = [k \in 1 .. Cardinality(keep) |-> s[at(k)]]
    BY DEF Kept
  <1>. HIDE DEF at
  <1>5. new \in [1 .. Cardinality(keep) -> S]
    BY <1>1, <1>3, <1>4
  <1>6. new \in Seq(S)
    BY <1>2, <1>5
  <1>7. ToSet(new) \subseteq ToSet(s)
    BY <1>3, <1>4 DEF ToSet
  <1>. QED
    BY <1>6, <1>7

(***************************************************************************)
(* The inductive invariant.                                                *)
(***************************************************************************)

AnySite == Sites \cup {"absent", "gone"}
Stored == [rev : Nat, site : AnySite]
ARow == [id : Items, rev : Nat \ {0}, site : AnySite]

Gone == [rev |-> 0, site |-> "gone"]

(* A row that was read from the store tells the truth about its revision:  *)
(* it is the item as it is now, an older one, or one of an item deleted.   *)
OnceTrue(r) ==
    \/ store[r.id] = Gone
    \/ r.rev < store[r.id].rev
    \/ r.rev = store[r.id].rev /\ r.site = store[r.id].site

Seen == {r \in ARow : OnceTrue(r)}

AWalk(S) ==
    [pc : {"walking", "paging", "walked", "refused"}, op : {"list", "fill"},
     site : Sites \cup {None}, items : Seq(S), cursor : Nat, seen : SUBSET Nat]
AFetch(S) == [pc : {"fetching"}, op : {"copy", "fill"}, row : S]
AWrite == [pc : {"writing"}, op : {"create", "update", "delete"}]
ACall(S) == {Idle} \cup AWalk(S) \cup AFetch(S) \cup AWrite

AList == [op : {"list"}, cursor : Nat]
AChange == [op : {"create"}, id : {None}] \cup [op : {"update", "delete"}, id : Items, expected : Nat]
APayload == AList \cup [op : {"fetch"}, id : Items] \cup AChange
ARequest(S) ==
    {Idle} \cup [pc : {"arrived"}, asks : APayload, expired : BOOLEAN]
      \cup [pc : {"reading"}, asks : APayload, expired : BOOLEAN, era : Nat]
      \cup [pc : {"sheet"}, asks : APayload \ AList, expired : BOOLEAN, named : Seq(S)]
      \cup [pc : {"stored"}, asks : AChange, expired : BOOLEAN, named : Seq(S)]

ARead(S) == [state : {"read"}, rows : Seq(S), writes : Nat]

VaultTyped ==
    /\ honest \in BOOLEAN
    /\ store \in [Items -> Stored]
    /\ newest \in Seq(Items)
    /\ listing \in [items : {NoRead} \cup ARead(Seen), era : Nat]
    /\ reads \in [Eras -> {NoRead, Begun} \cup ARead(Seen)]
    /\ request \in [Computers -> ARequest(Seen)]
    /\ call \in [Computers -> ACall(Seen)]
    /\ rows \in [Computers -> Seq(Seen)]
    /\ DOMAIN result = Computers
    /\ writes \in Nat /\ disturbed \subseteq Computers

(* A call that waits for a page or an item is what its request asks for.   *)
AwaitsItsAnswer(d) ==
    /\ call[d].pc = "paging" => request[d] # Idle /\ request[d].asks = ListRequest(call[d].cursor)
    /\ call[d].pc = "fetching" => request[d] # Idle /\ request[d].asks = FetchRequest(call[d].row.id)

(* No read belongs to an era that has not begun, and one that was captured *)
(* in the present era has seen every write.                                *)
ReadsAreOfTheirEra ==
    \A e \in Eras :
        /\ e > listing.era => reads[e] = NoRead
        /\ e = listing.era /\ reads[e].state = "read" => reads[e].writes = writes

NothingIsRead == \A e \in Eras : e = listing.era => reads[e] = NoRead

UpTo(all, n) == SubSeq(all, 1, n)
Continues(all, offset, page, end) == UpTo(all, offset) \o page = UpTo(all, end)

(* A walk past its first page has read the snapshot up to its cursor.      *)
WalkFollows(d) ==
    LET c == call[d]
        all == listing.items.rows
        held == listing.items # NoRead /\ NothingIsRead
    IN  /\ c.pc \in {"walking", "paging"} /\ c.cursor = 0 => c.items = <<>>
        /\ c.pc \in {"walking", "paging"} /\ c.cursor # 0
              => held /\ c.cursor < Len(all) /\ c.items = UpTo(all, c.cursor)
        /\ c.pc = "walking" /\ c.cursor # 0 => request[d] = Idle
        /\ c.pc = "paging" /\ request[d].pc = "reading"
              => c.cursor = 0 /\ request[d].era = listing.era
        /\ c.pc = "walked" => held /\ c.items = all /\ request[d] = Idle

WalksFollow == \A d \in Computers \ disturbed : honest => WalkFollows(d)

VaultInv ==
    /\ VaultTyped
    /\ \A d \in Computers : AwaitsItsAnswer(d)
    /\ ReadsAreOfTheirEra /\ SnapshotFollowsWrites
    /\ WalksFollow
    /\ CopiedIsWhatWasClicked
(***************************************************************************)
(* Rows, pages and what is served.                                         *)
(***************************************************************************)

(* What may be shown grows with what was seen.                             *)
LEMMA MoreIsSeen ==
    ASSUME NEW S, NEW T, S \subseteq T
    PROVE  /\ Seq(S) \subseteq Seq(T) /\ ARead(S) \subseteq ARead(T)
           /\ ACall(S) \subseteq ACall(T) /\ ARequest(S) \subseteq ARequest(T)
  <1>1. Seq(S) \subseteq Seq(T)
    OBVIOUS
  <1>2. ARead(S) \subseteq ARead(T)
    BY <1>1 DEF ARead
  <1>3. ACall(S) \subseteq ACall(T)
    BY <1>1 DEF ACall, AWalk, AFetch
  <1>4. ARequest(S) \subseteq ARequest(T)
    BY <1>1 DEF ARequest
  <1>. QED
    BY <1>1, <1>2, <1>3, <1>4

(* The row of a stored item is a row that is true.                         *)
LEMMA StoredRowIsSeen ==
    ASSUME store \in [Items -> Stored], NEW i \in Items, store[i].rev # 0
    PROVE  Row(i) \in Seen
  <1>1. store[i] \in Stored
    OBVIOUS
  <1>2. /\ Row(i).id = i /\ Row(i).rev = store[i].rev /\ Row(i).site = store[i].site
        /\ Row(i) \in [id : Items, rev : Nat \ {0}, site : AnySite]
    BY <1>1 DEF Row, Stored
  <1>. QED
    BY <1>2 DEF Seen, OnceTrue, ARow

(* A read of the store is a sequence of such rows.                         *)
LEMMA ReadIsSeen ==
    ASSUME store \in [Items -> Stored], newest \in Seq(Items), writes \in Nat, NEW new, new = Read
    PROVE  new \in ARead(Seen) /\ new.state = "read" /\ new.writes = writes
  <1>. DEFINE kept == {k \in DOMAIN newest : store[newest[k]].rev > 0}
              there == {i \in Items : store[i].rev # 0}
              all == [k \in 1 .. Len(Present) |-> Row(Present[k])]
  <1>1. /\ newest \in Seq(Items) /\ DOMAIN newest = 1 .. Len(newest) /\ Len(newest) \in Nat
        /\ \A k \in DOMAIN newest : newest[k] \in Items
    OBVIOUS
  <1>2. /\ Cardinality(kept) \in Nat
        /\ \A k \in 1 .. Cardinality(kept) : \E i \in kept : Rank(kept, i) = k
    BY <1>1, RanksAreTaken
  <1>3. \A i \in kept : newest[i] \in there
    BY <1>1 DEF Stored
  <1>. DEFINE at(k) == CHOOSE i \in kept : Rank(kept, i) = k
  <1>4. \A k \in 1 .. Cardinality(kept) : at(k) \in kept
    BY <1>2
  <1>5. Present = [k \in 1 .. Cardinality(kept) |-> newest[at(k)]]
    BY DEF Present, Kept
  <1>. HIDE DEF at, kept, there
  <1>6. Len(Present) = Cardinality(kept) /\ \A k \in 1 .. Cardinality(kept) : Present[k] \in there
    BY <1>2, <1>3, <1>4, <1>5
  <1>7. \A k \in 1 .. Cardinality(kept) : Row(Present[k]) \in Seen
    BY <1>6, StoredRowIsSeen DEF there
  <1>8. all \in Seq(Seen)
    <2>1. all \in [1 .. Cardinality(kept) -> Seen]
      BY <1>6, <1>7
    <2>. QED
      BY <1>2, <2>1
  <1>. HIDE DEF all
  <1>9. new = [state |-> "read", rows |-> all, writes |-> writes]
    BY DEF Read, all
  <1>. QED
    BY <1>8, <1>9 DEF ARead

(* A page is a part of the rows, and continues what came before it.        *)
LEMMA PageContinues ==
    ASSUME NEW S, NEW all \in Seq(S), NEW offset \in Nat, offset <= Len(all),
           NEW page, page = Page(all, offset), NEW next, next = NextCursor(all, offset)
    PROVE  /\ page \in Seq(S) /\ next \in Nat
           /\ next = 0 => Continues(all, offset, page, Len(all))
           /\ next # 0 => next < Len(all) /\ Continues(all, offset, page, next)
  <1>. DEFINE n == Len(all)
              end == IF offset + PageSize < n THEN offset + PageSize ELSE n
  <1>1. PageSize \in Nat /\ PageSize # 0 /\ n \in Nat
    BY VaultAssumption
  <1>2. end \in offset .. n
    BY <1>1
  <1>3. Min({offset + PageSize, n}) = end
    BY <1>1 DEF Min
  <1>. HIDE DEF n, end
  <1>4. page = SubSeq(all, offset + 1, end)
    BY <1>3 DEF Page, n
  <1>5. page \in Seq(S)
    <2>1. offset + 1 \in Int /\ end \in Int /\ \A i \in (offset + 1) .. end : all[i] \in S
      BY <1>1, <1>2, ElementOfSeq DEF n
    <2>. QED
      BY <1>4, <2>1, SubSeqProperties
  <1>6. Continues(all, offset, page, end)
    <2>1. 1 \in 1 .. n + 1 /\ offset \in 1 - 1 .. n
      BY <1>1 DEF n
    <2>. QED
      BY <1>2, <1>4, <2>1, ConcatAdjacentSubSeq DEF n, Continues, UpTo
  <1>7. next \in Nat /\ (next = 0 => end = n) /\ (next # 0 => next < n /\ end = next)
    BY <1>1 DEF NextCursor, end, n
  <1>. QED
    BY <1>5, <1>6, <1>7 DEF n

(* A call and a request are of the kind their state says.                  *)
LEMMA CallKinds ==
    ASSUME NEW S, NEW c \in ACall(S)
    PROVE  /\ c.pc = "idle" <=> c = Idle
           /\ c.pc \in {"walking", "paging", "walked", "refused"} => c \in AWalk(S)
           /\ c.pc = "fetching" => c \in AFetch(S)
           /\ c.pc = "writing" => c \in AWrite
           /\ c.pc \in {"idle", "walking", "paging", "walked", "refused", "fetching", "writing"}
  BY DEF ACall, AWalk, AFetch, AWrite, Idle

LEMMA RequestKinds ==
    ASSUME NEW S, NEW r \in ARequest(S)
    PROVE  /\ r.pc = "idle" <=> r = Idle
           /\ r.pc # "idle" => r.asks \in APayload /\ r.expired \in BOOLEAN
           /\ r.pc = "arrived" => r \in [pc : {"arrived"}, asks : APayload, expired : BOOLEAN]
           /\ r.pc = "reading" => r \in [pc : {"reading"}, asks : APayload, expired : BOOLEAN, era : Nat]
           /\ r.pc = "sheet" =>
                r \in [pc : {"sheet"}, asks : APayload \ AList, expired : BOOLEAN, named : Seq(S)]
           /\ r.pc = "stored" =>
                r \in [pc : {"stored"}, asks : AChange, expired : BOOLEAN, named : Seq(S)]
           /\ r.pc \in {"idle", "arrived", "reading", "sheet", "stored"}
  BY DEF ARequest, APayload, Idle

LEMMA PayloadKinds ==
    ASSUME NEW a \in APayload
    PROVE  /\ a.op = "list" <=> a \in AList
           /\ a.op = "list" => a.cursor \in Nat /\ a = ListRequest(a.cursor)
           /\ a.op = "fetch" => a.id \in Items /\ a = FetchRequest(a.id)
           /\ a.op = "create" => a = CreateRequest
           /\ a.op \in {"update", "delete"} => a.id \in Items /\ a.expected \in Nat
           /\ a.op \in {"create", "update", "delete"} <=> a \in AChange
           /\ a.op \in {"list", "fetch", "create", "update", "delete"}
  BY DEF APayload, AList, AChange, ListRequest, FetchRequest, CreateRequest

(* What list_all makes of one page.                                        *)
LEMMA PageIsTaken ==
    ASSUME NEW S, NEW d \in Computers, call[d] \in AWalk(S), NEW page, page.next \in Nat,
           ValidPage(page) => page.items \in Seq(S), NEW new, new = TakePage(d, page)
    PROVE  /\ new \in AWalk(S) /\ new.pc \in {"walking", "walked", "refused"}
           /\ new.pc = "walked" => page.next = 0 /\ new.items = call[d].items \o page.items
           /\ new.pc = "walking" => /\ page.next # 0 /\ new.cursor = page.next
                                    /\ new.items = call[d].items \o page.items
  <1>. DEFINE c == call[d]
              onward == MakesProgress(c, page)
              more == c.items \o page.items
  <1>1. ValidPage(page) => more \in Seq(S)
    BY ConcatProperties DEF AWalk
  <1>2. c.seen \cup {page.next} \in SUBSET Nat
    BY DEF AWalk
  <1>3. \/ new = [c EXCEPT !.pc = "refused"]
        \/ ValidPage(page) /\ page.next = 0 /\ new = [c EXCEPT !.pc = "walked", !.items = more]
        \/ /\ ValidPage(page) /\ page.next # 0
           /\ new = [c EXCEPT !.pc = "walking", !.items = more, !.cursor = page.next,
                              !.seen = c.seen \cup {page.next}]
    BY DEF TakePage
  <1>. HIDE DEF more, onward
  <1>. QED
    BY <1>1, <1>2, <1>3 DEF AWalk, more

(* What becomes of a request when the rows are at hand.                    *)
LEMMA ServedIs ==
    ASSUME NEW S, NEW d \in Computers, call[d] \in ACall(S), request[d] \in ARequest(S),
           request[d] # Idle, NEW all \in Seq(S), NEW new, new = Served(d, all),
           NEW at, at = request[d].asks.cursor,
           NEW page, page = ListResponse(Page(all, at), NextCursor(all, at))
    PROVE  /\ new.request \in ARequest(S) /\ new.call \in ACall(S)
           /\ new.result = result[d] \/ new.result.code = "vault-unavailable"
           /\ request[d].asks.op # "list" =>
                /\ new.request # Idle /\ new.request.asks = request[d].asks
                /\ new.request.pc = "sheet" /\ new.call = call[d]
           /\ request[d].asks.op = "list" =>
                /\ new.request = Idle
                /\ \/ call[d].pc # "paging" /\ new.call = call[d]
                   \/ call[d].pc = "paging" /\ new.call = Idle
                   \/ /\ call[d].pc = "paging" /\ at <= Len(all)
                      /\ new.call = TakePage(d, page)
  <1>1. /\ request[d].asks \in APayload /\ request[d].expired \in BOOLEAN
    BY RequestKinds
  <1>2. CASE request[d].asks.op # "list"
    <2>. DEFINE keep == {k \in DOMAIN all : all[k].id = request[d].asks.id}
    <2>1. PICK named : named = Kept(all, keep)
      OBVIOUS
    <2>2. named \in Seq(S)
      <3>1. keep \in SUBSET (DOMAIN all)
        OBVIOUS
      <3>. HIDE DEF keep
      <3>. QED
        BY <2>1, <3>1, KeptIsPart
    <2>3. new = [request |-> [pc |-> "sheet", asks |-> request[d].asks,
                              expired |-> request[d].expired, named |-> named],
                 call |-> call[d], result |-> result[d]]
      BY <1>2, <2>1 DEF Served
    <2>4. request[d].asks \in APayload \ AList
      BY <1>1, <1>2, PayloadKinds
    <2>. HIDE DEF keep
    <2>. QED
      BY <1>1, <1>2, <2>2, <2>3, <2>4 DEF ARequest, Idle
  <1>3. CASE request[d].asks.op = "list"
    <2>1. at \in Nat
      BY <1>1, <1>3, PayloadKinds
    <2>2. new.request = Idle
      BY <1>3 DEF Served
    <2>3. /\ call[d].pc # "paging" => new.call = call[d]
          /\ call[d].pc = "paging" /\ at > Len(all) => new.call = Idle
          /\ call[d].pc = "paging" /\ ~(at > Len(all)) => new.call = TakePage(d, page)
      BY <1>3 DEF Served
    <2>4. new.result = result[d] \/ new.result.code = "vault-unavailable"
      BY <1>3 DEF Served
    <2>5. ASSUME call[d].pc = "paging", at <= Len(all), new.call = TakePage(d, page)
          PROVE  new.call \in ACall(S)
      <3>1. call[d] \in AWalk(S)
        BY <2>5, CallKinds
      <3>2. page.items \in Seq(S) /\ page.next \in Nat
        BY <2>1, <2>5, PageContinues DEF ListResponse
      <3>. QED
        <4>1. TakePage(d, page) \in AWalk(S)
          BY <3>1, <3>2, PageIsTaken
        <4>. QED
          BY <2>5, <4>1 DEF ACall
    <2>6. Idle \in ACall(S) /\ Idle \in ARequest(S)
      BY DEF ACall, ARequest
    <2>7. Len(all) \in Nat
      OBVIOUS
    <2>. QED
      BY <1>3, <2>1, <2>2, <2>3, <2>4, <2>5, <2>6, <2>7
  <1>. QED
    BY <1>2, <1>3

(* No step of the store makes what was seen untrue.                        *)
LEMMA StoreKeepsSeen ==
    ASSUME VaultTyped, store' \in [Items -> Stored],
           \A i \in Items :
              \/ store'[i] = store[i]
              \/ store[i] = Absent /\ store'[i].rev = 1
              \/ store[i].rev # 0 /\ (store'[i] = Gone \/ store'[i].rev = store[i].rev + 1)
    PROVE  Seen \subseteq Seen'
  <1>. SUFFICES ASSUME NEW r \in Seen PROVE r \in Seen'
    OBVIOUS
  <1>1. r \in ARow /\ r.id \in Items /\ r.rev \in Nat /\ r.rev # 0
    BY DEF Seen, ARow
  <1>2. store[r.id] \in Stored /\ store'[r.id] \in Stored
    BY <1>1 DEF VaultTyped
  <1>3. OnceTrue(r)
    BY DEF Seen
  <1>4. store[r.id].rev \in Nat /\ store'[r.id].rev \in Nat
    BY <1>2 DEF Stored
  <1>5. Gone # Absent /\ Gone.rev = 0 /\ Absent.rev = 0
    BY DEF Gone, Absent
  <1>6. OnceTrue(r)'
    <2>1. CASE store[r.id] = Gone
      BY <1>1, <1>5, <2>1 DEF OnceTrue
    <2>2. CASE r.rev < store[r.id].rev
      BY <1>1, <1>4, <1>5, <2>2 DEF OnceTrue
    <2>3. CASE r.rev = store[r.id].rev /\ r.site = store[r.id].site
      BY <1>1, <1>4, <1>5, <2>3 DEF OnceTrue
    <2>. QED
      BY <1>3, <2>1, <2>2, <2>3 DEF OnceTrue
  <1>. QED
    BY <1>1, <1>6 DEF Seen
(***************************************************************************)
(* Types are kept.                                                         *)
(***************************************************************************)

(* The part of the types that a step which leaves the store alone moves.   *)
LEMMA TypesWithoutTheStore ==
    ASSUME VaultTyped, honest' = honest, store' = store, newest' = newest,
           listing' \in [items : {NoRead} \cup ARead(Seen), era : Nat],
           reads' \in [Eras -> {NoRead, Begun} \cup ARead(Seen)],
           request' \in [Computers -> ARequest(Seen)],
           call' \in [Computers -> ACall(Seen)],
           rows' \in [Computers -> Seq(Seen)],
           DOMAIN result' = Computers, writes' \in Nat, disturbed' \subseteq Computers
    PROVE  VaultTyped'
  <1>1. Seen' = Seen
    BY DEF Seen, OnceTrue
  <1>. QED
    BY <1>1 DEF VaultTyped

LEMMA DeliveriesAreTyped ==
    ASSUME VaultTyped, NEW ds \in SUBSET Computers, \A d \in ds : request[d] # Idle,
           NEW all \in Seq(Seen), Deliver(ds, all)
    PROVE  /\ request' \in [Computers -> ARequest(Seen)]
           /\ call' \in [Computers -> ACall(Seen)]
           /\ DOMAIN result' = Computers
  <1>1. \A d \in Computers : call[d] \in ACall(Seen) /\ request[d] \in ARequest(Seen)
    BY DEF VaultTyped
  <1>2. \A d \in ds : Served(d, all).request \in ARequest(Seen) /\ Served(d, all).call \in ACall(Seen)
    BY <1>1, ServedIs
  <1>. QED
    BY <1>1, <1>2 DEF Deliver

(* A computer that sends a request, or fails, or finishes.                 *)
LEMMA SendsAreTyped ==
    ASSUME VaultTyped, NEW d \in Computers, NEW payload \in APayload, Send(d, payload)
    PROVE  request' \in [Computers -> ARequest(Seen)]
  <1>1. [pc |-> "arrived", asks |-> payload, expired |-> FALSE] \in ARequest(Seen)
    BY DEF ARequest
  <1>. QED
    BY <1>1 DEF Send, VaultTyped

LEMMA FinishesAreTyped ==
    ASSUME VaultTyped, NEW d \in Computers, NEW outcome, Finish(d, outcome)
    PROVE  call' \in [Computers -> ACall(Seen)] /\ DOMAIN result' = Computers
  <1>1. Idle \in ACall(Seen)
    BY DEF ACall
  <1>. QED
    BY <1>1 DEF Finish, VaultTyped

LEMMA RepliesAreTyped ==
    ASSUME VaultTyped, NEW d \in Computers, Reply(d)
    PROVE  request' \in [Computers -> ARequest(Seen)]
  <1>1. Idle \in ARequest(Seen)
    BY DEF ARequest
  <1>. QED
    BY <1>1 DEF Reply, VaultTyped

LEMMA RequestsOfRows ==
    ASSUME NEW row \in Seen
    PROVE  {FetchRequest(row.id), UpdateRequest(row), DeleteRequest(row)} \subseteq APayload
  BY DEF Seen, ARow, APayload, AChange, FetchRequest, UpdateRequest, DeleteRequest

LEMMA ComputerTypes ==
    ASSUME VaultTyped, NEW d \in Computers,
           \/ BeginWalk(d, "list", None)
           \/ \E s \in Sites : BeginWalk(d, "fill", s)
           \/ AskPage(d) \/ EndWalk(d) \/ GiveUp(d) \/ BeginCopy(d)
           \/ \E op \in {"create", "update", "delete"} : BeginWrite(d, op)
    PROVE  VaultTyped'
  <1>1. ASSUME NEW op \in {"list", "fill"}, NEW site \in Sites \cup {None}, BeginWalk(d, op, site)
        PROVE  VaultTyped'
    <2>1. [pc |-> "walking", op |-> op, site |-> site, items |-> <<>>, cursor |-> 0, seen |-> {}]
             \in ACall(Seen)
      BY DEF ACall, AWalk
    <2>2. call' \in [Computers -> ACall(Seen)]
      BY <1>1, <2>1 DEF BeginWalk, VaultTyped
    <2>. QED
      BY <1>1, <2>2, TypesWithoutTheStore DEF BeginWalk, VaultTyped
  <1>2. CASE AskPage(d)
    <2>1. call[d] \in AWalk(Seen)
      BY <1>2, CallKinds DEF AskPage, VaultTyped
    <2>2. [call[d] EXCEPT !.pc = "paging"] \in ACall(Seen) /\ ListRequest(call[d].cursor) \in APayload
      BY <2>1 DEF ACall, AWalk, APayload, AList, ListRequest
    <2>3. request' \in [Computers -> ARequest(Seen)]
      BY <1>2, <2>2, SendsAreTyped DEF AskPage
    <2>4. call' \in [Computers -> ACall(Seen)]
      BY <1>2, <2>2 DEF AskPage, VaultTyped
    <2>. QED
      BY <1>2, <2>3, <2>4, TypesWithoutTheStore DEF AskPage, VaultTyped
  <1>3. CASE EndWalk(d)
    <2>1. CASE call[d].pc = "refused" /\ Failed(d, "protocol-error") /\ UNCHANGED <<rows, request>>
      BY <1>3, <2>1, FinishesAreTyped, TypesWithoutTheStore DEF EndWalk, Failed, VaultTyped
    <2>2. CASE /\ call[d].pc = "walked" /\ rows' = [rows EXCEPT ![d] = call[d].items]
               /\ Finish(d, [code |-> "ok", op |-> "list"]) /\ UNCHANGED request
      <3>1. call[d].items \in Seq(Seen)
        BY <2>2, CallKinds DEF AWalk, VaultTyped
      <3>2. rows' \in [Computers -> Seq(Seen)]
        BY <2>2, <3>1 DEF VaultTyped
      <3>. QED
        BY <1>3, <2>2, <3>2, FinishesAreTyped, TypesWithoutTheStore DEF EndWalk, VaultTyped
    <2>3. CASE /\ Failed(d, IF Matches(d) = <<>> THEN "not-found" ELSE "ambiguous")
               /\ UNCHANGED <<rows, request>>
      BY <1>3, <2>3, FinishesAreTyped, TypesWithoutTheStore DEF EndWalk, Failed, VaultTyped
    <2>4. CASE /\ call[d].pc = "walked" /\ Len(Matches(d)) = 1
               /\ Send(d, FetchRequest(Matches(d)[1].id))
               /\ call' = [call EXCEPT ![d] = [pc |-> "fetching", op |-> "fill", row |-> Matches(d)[1]]]
               /\ UNCHANGED <<rows, result>>
      <3>1. call[d].items \in Seq(Seen)
        BY <2>4, CallKinds DEF AWalk, VaultTyped
      <3>2. Matches(d) \in Seq(Seen)
        BY <3>1, KeptIsPart DEF Matches
      <3>3. PICK row : row = Matches(d)[1]
        OBVIOUS
      <3>4. row \in Seen
        <4>1. PICK found \in Seq(Seen) : found = Matches(d)
          BY <3>2
        <4>2. Len(found) = 1 /\ found[1] = row
          BY <2>4, <3>3, <4>1, Zenon
        <4>3. found[1] \in Seen
          <5>1. 1 \in 1 .. Len(found)
            BY <4>2
          <5>. QED
            BY <5>1, ElementOfSeq
        <4>. QED
          BY <4>2, <4>3, Zenon
      <3>5. [pc |-> "fetching", op |-> "fill", row |-> row] \in ACall(Seen)
        BY <3>4 DEF ACall, AFetch
      <3>6. call' \in [Computers -> ACall(Seen)]
        BY <2>4, <3>3, <3>5 DEF VaultTyped
      <3>7. request' \in [Computers -> ARequest(Seen)]
        BY <2>4, <3>3, <3>4, SendsAreTyped, RequestsOfRows
      <3>. QED
        BY <1>3, <2>4, <3>6, <3>7, TypesWithoutTheStore DEF EndWalk, VaultTyped
    <2>. QED
      BY <1>3, <2>1, <2>2, <2>3, <2>4 DEF EndWalk
  <1>4. CASE GiveUp(d)
    <2>1. request' \in [Computers -> ARequest(Seen)]
      <3>1. request[d] \in ARequest(Seen)
        BY DEF VaultTyped
      <3>2. request[d] # Idle => [request[d] EXCEPT !.expired = TRUE] \in ARequest(Seen)
        BY <3>1 DEF ARequest
      <3>. QED
        BY <1>4, <3>2 DEF GiveUp, VaultTyped
    <2>. QED
      BY <1>4, <2>1, FinishesAreTyped, TypesWithoutTheStore DEF GiveUp, Failed, counters, VaultTyped
  <1>5. CASE BeginCopy(d)
    <2>1. PICK row \in Seen :
             /\ Send(d, FetchRequest(row.id))
             /\ call' = [call EXCEPT ![d] = [pc |-> "fetching", op |-> "copy", row |-> row]]
      <3>1. PICK shown \in Seq(Seen) : shown = rows[d]
        BY DEF VaultTyped
      <3>2. \A k \in 1 .. Len(shown) : shown[k] \in Seen
        OBVIOUS
      <3>3. PICK k \in 1 .. Len(shown) :
               /\ Send(d, FetchRequest(shown[k].id))
               /\ call' = [call EXCEPT ![d] = [pc |-> "fetching", op |-> "copy", row |-> shown[k]]]
        BY <1>5, <3>1 DEF BeginCopy
      <3>4. PICK row \in Seen : row = shown[k]
        BY <3>2
      <3>. QED
        BY <3>3, <3>4
    <2>2. [pc |-> "fetching", op |-> "copy", row |-> row] \in ACall(Seen)
      BY DEF ACall, AFetch
    <2>3. call' \in [Computers -> ACall(Seen)]
      BY <2>1, <2>2 DEF VaultTyped
    <2>. QED
      BY <1>5, <2>1, <2>3, SendsAreTyped, RequestsOfRows, TypesWithoutTheStore DEF BeginCopy, VaultTyped
  <1>6. ASSUME NEW op \in {"create", "update", "delete"}, BeginWrite(d, op)
        PROVE  VaultTyped'
    <2>1. rows[d] \in Seq(Seen) /\ CreateRequest \in APayload
      BY DEF VaultTyped, CreateRequest, APayload, AChange
    <2>2. \E payload \in APayload : Send(d, payload)
      <3>1. ASSUME NEW k \in 1 .. Len(rows[d])
            PROVE  {UpdateRequest(rows[d][k]), DeleteRequest(rows[d][k])} \subseteq APayload
        BY <2>1, <3>1, RequestsOfRows
      <3>. QED
        BY <1>6, <2>1, <3>1 DEF BeginWrite
    <2>3. request' \in [Computers -> ARequest(Seen)]
      BY <2>2, SendsAreTyped
    <2>4. [pc |-> "writing", op |-> op] \in ACall(Seen)
      BY DEF ACall, AWrite
    <2>5. call' \in [Computers -> ACall(Seen)]
      BY <1>6, <2>4 DEF BeginWrite, VaultTyped
    <2>. QED
      BY <1>6, <2>3, <2>5, TypesWithoutTheStore DEF BeginWrite, VaultTyped
  <1>. QED
    BY <1>1, <1>2, <1>3, <1>4, <1>5, <1>6
LEMMA PhoneTypes ==
    ASSUME VaultTyped, NEW d \in Computers, Arrive(d) \/ Refuse(d) \/ ReleaseSecret(d) \/ AnyPage(d)
    PROVE  VaultTyped'
  <1>. USE DEF counters
  <1>0. call[d] \in ACall(Seen) /\ request[d] \in ARequest(Seen)
    BY DEF VaultTyped
  <1>1. CASE Arrive(d)
    <2>0. request[d] # Idle
      BY <1>1, <1>0, RequestKinds DEF Arrive
    <2>1. disturbed' \subseteq Computers
      BY <1>1 DEF Arrive, Disturbs, VaultTyped
    <2>2. ASSUME NEW all \in Seq(Seen), Deliver({d}, all), UNCHANGED <<listing, reads>>
          PROVE  VaultTyped'
      <3>1. /\ request' \in [Computers -> ARequest(Seen)] /\ call' \in [Computers -> ACall(Seen)]
            /\ DOMAIN result' = Computers
        BY <2>0, <2>2, DeliveriesAreTyped
      <3>. QED
        BY <1>1, <2>1, <2>2, <3>1, TypesWithoutTheStore DEF Arrive, VaultTyped
    <2>3. ASSUME Snapshot(d) # NoRead
          PROVE  Snapshot(d).rows \in Seq(Seen)
      BY <2>3 DEF Snapshot, VaultTyped, ARead
    <2>4. CASE /\ reads' = IF reads[listing.era] = NoRead
                           THEN [reads EXCEPT ![listing.era] = Begun] ELSE reads
               /\ request' = [request EXCEPT ![d] =
                     [pc |-> "reading", asks |-> request[d].asks, expired |-> request[d].expired,
                      era |-> listing.era]]
               /\ UNCHANGED <<listing, call, result>>
      <3>1. reads' \in [Eras -> {NoRead, Begun} \cup ARead(Seen)]
        BY <2>4 DEF VaultTyped
      <3>2. request[d].asks \in APayload /\ request[d].expired \in BOOLEAN /\ listing.era \in Nat
        BY <1>0, <1>1, RequestKinds DEF Arrive, VaultTyped
      <3>3. [pc |-> "reading", asks |-> request[d].asks, expired |-> request[d].expired,
             era |-> listing.era] \in ARequest(Seen)
        BY <3>2 DEF ARequest
      <3>4. request' \in [Computers -> ARequest(Seen)]
        BY <2>4, <3>3 DEF VaultTyped
      <3>. QED
        BY <1>1, <2>1, <2>4, <3>1, <3>4, TypesWithoutTheStore DEF Arrive, VaultTyped
    <2>5. <<>> \in Seq(Seen)
      OBVIOUS
    <2>. QED
      BY <1>1, <2>2, <2>3, <2>4, <2>5 DEF Arrive
  <1>2. CASE Refuse(d)
    <2>1. request' \in [Computers -> ARequest(Seen)]
      BY <1>2, RepliesAreTyped DEF Refuse, Declines
    <2>2. call' \in [Computers -> ACall(Seen)] /\ DOMAIN result' = Computers
      BY <1>2, FinishesAreTyped DEF Refuse, Declines, Failed, VaultTyped
    <2>. QED
      BY <1>2, <2>1, <2>2, TypesWithoutTheStore DEF Refuse, VaultTyped
  <1>3. CASE ReleaseSecret(d)
    <2>1. request' \in [Computers -> ARequest(Seen)]
      BY <1>3, RepliesAreTyped DEF ReleaseSecret
    <2>2. call' \in [Computers -> ACall(Seen)] /\ DOMAIN result' = Computers
      BY <1>3, FinishesAreTyped DEF ReleaseSecret, TakeSecret, Failed, VaultTyped
    <2>. QED
      BY <1>3, <2>1, <2>2, TypesWithoutTheStore DEF ReleaseSecret, VaultTyped
  <1>4. CASE AnyPage(d)
    <2>1. PICK n \in 0 .. PageSize + 1, i \in Items, next \in 0 .. MAX_ITEMS + 2 :
             call' = [call EXCEPT ![d] =
                IF call[d].pc = "paging"
                THEN TakePage(d, ListResponse([k \in 1 .. n |-> Row(i)], next)) ELSE call[d]]
      BY <1>4 DEF AnyPage
    <2>2. PICK page : page = ListResponse([k \in 1 .. n |-> Row(i)], next)
      OBVIOUS
    <2>3. page.next \in Nat /\ page.items = [k \in 1 .. n |-> Row(i)]
      BY <2>2, VaultAssumption DEF ListResponse
    <2>4. ASSUME ValidPage(page)
          PROVE  page.items \in Seq(Seen)
      <3>1. PICK row : row = Row(i)
        OBVIOUS
      <3>2. n \in Nat /\ page.items = [k \in 1 .. n |-> row]
        BY <2>3, <3>1, VaultAssumption
      <3>3. CASE n = 0
        BY <3>2, <3>3
      <3>4. CASE n # 0
        <4>1. row.rev > 0
          BY <2>4, <3>2, <3>4 DEF ValidPage
        <4>2. store[i].rev # 0
          BY <3>1, <4>1 DEF Row
        <4>3. row \in Seen
          BY <3>1, <4>2, StoredRowIsSeen DEF VaultTyped
        <4>. QED
          BY <3>2, <4>3
      <3>. QED
        BY <3>3, <3>4
    <2>5. call[d].pc = "paging" => TakePage(d, page) \in ACall(Seen)
      BY <1>0, <2>3, <2>4, CallKinds, PageIsTaken DEF ACall
    <2>6. call' \in [Computers -> ACall(Seen)]
      BY <2>1, <2>2, <2>5 DEF VaultTyped
    <2>7. request' \in [Computers -> ARequest(Seen)]
      BY <1>4, RepliesAreTyped DEF AnyPage
    <2>. QED
      BY <1>4, <2>6, <2>7, TypesWithoutTheStore DEF AnyPage, VaultTyped
  <1>. QED
    BY <1>1, <1>2, <1>3, <1>4

LEMMA ReadTypes ==
    ASSUME VaultTyped, NEW e \in Eras, Capture(e) \/ Return(e) \/ ReadRefused(e)
    PROVE  VaultTyped'
  <1>. USE DEF counters
  <1>1. CASE Capture(e)
    <2>1. reads' \in [Eras -> {NoRead, Begun} \cup ARead(Seen)]
      BY <1>1, ReadIsSeen DEF Capture, VaultTyped
    <2>. QED
      BY <1>1, <2>1, TypesWithoutTheStore DEF Capture, VaultTyped
  <1>2. \A d \in Waiters(e) : d \in Computers /\ request[d] # Idle
    BY RequestKinds DEF Waiters, VaultTyped
  <1>3. CASE Return(e)
    <2>1. reads[e] \in ARead(Seen) /\ reads[e].rows \in Seq(Seen)
      BY <1>3 DEF Return, VaultTyped, ARead, NoRead, Begun
    <2>2. reads' \in [Eras -> {NoRead, Begun} \cup ARead(Seen)]
      BY <1>3 DEF Return, VaultTyped
    <2>3. listing' \in [items : {NoRead} \cup ARead(Seen), era : Nat]
      BY <1>3, <2>1 DEF Return, KeptRead, VaultTyped
    <2>4. /\ request' \in [Computers -> ARequest(Seen)] /\ call' \in [Computers -> ACall(Seen)]
          /\ DOMAIN result' = Computers
      BY <1>2, <1>3, <2>1, DeliveriesAreTyped DEF Return
    <2>. QED
      BY <1>3, <2>2, <2>3, <2>4, TypesWithoutTheStore DEF Return, VaultTyped
  <1>4. CASE ReadRefused(e)
    <2>1. reads' \in [Eras -> {NoRead, Begun} \cup ARead(Seen)]
      BY <1>4 DEF ReadRefused, VaultTyped
    <2>2. Idle \in ARequest(Seen) /\ Idle \in ACall(Seen)
      BY DEF ARequest, ACall
    <2>3. request' \in [Computers -> ARequest(Seen)] /\ call' \in [Computers -> ACall(Seen)]
      BY <1>4, <2>2 DEF ReadRefused, VaultTyped
    <2>4. DOMAIN result' = Computers
      BY <1>4 DEF ReadRefused
    <2>. QED
      BY <1>4, <2>1, <2>3, <2>4, TypesWithoutTheStore DEF ReadRefused, VaultTyped
  <1>. QED
    BY <1>1, <1>3, <1>4

(* A change puts its item at the front and loses no other.                 *)
LEMMA RenewedIsTyped ==
    ASSUME VaultTyped, NEW i \in Items, Renewed(i)
    PROVE  newest' \in Seq(Items)
  <1>. DEFINE others == {k \in DOMAIN newest : newest[k] # i}
  <1>1. newest \in Seq(Items) /\ others \in SUBSET (DOMAIN newest)
    BY DEF VaultTyped
  <1>2. PICK rest : rest = Kept(newest, others)
    OBVIOUS
  <1>3. rest \in Seq(Items)
    BY <1>1, <1>2, KeptIsPart
  <1>4. newest' = <<i>> \o rest
    BY <1>2 DEF Renewed
  <1>. QED
    BY <1>3, <1>4

(* The steps that change the store, or forget the snapshot.                *)
LEMMA StoreTypes ==
    ASSUME VaultTyped,
           \/ \E d \in Computers : StoreWrite(d) \/ FinishWrite(d)
           \/ Expire
           \/ \E i \in Items : ScreenEdit(i)
    PROVE  VaultTyped'
  <1>. USE DEF counters
  <1>1. ASSUME store' \in [Items -> Stored], newest' \in Seq(Items), Seen \subseteq Seen', UNCHANGED <<honest, listing, reads, call, rows, result, writes, disturbed>>,
               request' \in [Computers -> ARequest(Seen)]
        PROVE  VaultTyped'
    <2>1. /\ Seq(Seen) \subseteq Seq(Seen') /\ ARead(Seen) \subseteq ARead(Seen')
          /\ ACall(Seen) \subseteq ACall(Seen') /\ ARequest(Seen) \subseteq ARequest(Seen')
      BY <1>1, MoreIsSeen
    <2>2. listing' \in [items : {NoRead} \cup ARead(Seen'), era : Nat]
      BY <1>1, <2>1 DEF VaultTyped
    <2>3. /\ reads' \in [Eras -> {NoRead, Begun} \cup ARead(Seen')]
          /\ rows' \in [Computers -> Seq(Seen')]
      BY <1>1, <2>1 DEF VaultTyped
    <2>4. /\ request' \in [Computers -> ARequest(Seen')]
          /\ call' \in [Computers -> ACall(Seen')]
      BY <1>1, <2>1 DEF VaultTyped
    <2>. QED
      BY <1>1, <2>2, <2>3, <2>4 DEF VaultTyped
  <1>2. ASSUME NEW i \in Items, NEW new \in Stored, store' = [store EXCEPT ![i] = new],
               \/ store[i] = Absent /\ new.rev = 1
               \/ store[i].rev # 0 /\ (new = Gone \/ new.rev = store[i].rev + 1)
        PROVE  store' \in [Items -> Stored] /\ Seen \subseteq Seen'
    BY <1>2, StoreKeepsSeen DEF VaultTyped
  <1>3. Gone \in Stored /\ \A s \in Sites : [rev |-> 1, site |-> s] \in Stored
    BY DEF Gone, Stored, AnySite
  <1>4. ASSUME NEW i \in Items, NEW s \in Sites
        PROVE  [rev |-> store[i].rev + 1, site |-> s] \in Stored
    BY DEF VaultTyped, Stored, AnySite
  <1>5. ASSUME NEW d \in Computers, StoreWrite(d)
        PROVE  VaultTyped'
    <2>0. request[d] \in ARequest(Seen)
      BY DEF VaultTyped
    <2>1. [request[d] EXCEPT !.pc = "stored"] \in ARequest(Seen)
      <3>1. request[d] \in [pc : {"sheet"}, asks : APayload \ AList, expired : BOOLEAN, named : Seq(Seen)]
        BY <1>5, <2>0, RequestKinds DEF StoreWrite
      <3>2. request[d].asks \in APayload /\ request[d].asks \notin AList /\ request[d].asks.op # "fetch"
        BY <1>5, <3>1 DEF StoreWrite
      <3>3. request[d].asks \in AChange
        BY <3>2, PayloadKinds
      <3>. QED
        BY <3>1, <3>3 DEF ARequest
    <2>2. request' \in [Computers -> ARequest(Seen)]
      BY <1>5, <2>1 DEF StoreWrite, VaultTyped
    <2>3. request[d].asks \in APayload
      BY <1>5, <2>0, RequestKinds DEF StoreWrite, Idle
    <2>4. store' \in [Items -> Stored] /\ Seen \subseteq Seen'
      <3>1. CASE \E i \in Unused, s \in Sites : store' = [store EXCEPT ![i] = [rev |-> 1, site |-> s]]
        BY <1>2, <1>3, <3>1 DEF Unused
      <3>2. ASSUME request[d].asks.op \in {"update", "delete"}
            PROVE  request[d].asks.id \in Items /\ store[request[d].asks.id].rev # 0
        BY <1>5, <2>3, <3>2, PayloadKinds DEF StoreWrite, Stale
      <3>3. CASE /\ request[d].asks.op = "update"
                 /\ \E s \in Sites : store' = [store EXCEPT ![request[d].asks.id] =
                       [rev |-> store[request[d].asks.id].rev + 1, site |-> s]]
        BY <1>2, <1>4, <3>2, <3>3
      <3>4. CASE /\ request[d].asks.op = "delete"
                 /\ store' = [store EXCEPT ![request[d].asks.id] = [rev |-> 0, site |-> "gone"]]
        BY <1>2, <1>3, <3>2, <3>4 DEF Gone
      <3>. QED
        BY <1>5, <3>1, <3>3, <3>4 DEF StoreWrite
    <2>5. newest' \in Seq(Items)
      <3>1. request[d].asks.op = "update" => request[d].asks.id \in Items
        BY <2>3, PayloadKinds
      <3>2. (\E i \in Items : Renewed(i)) \/ newest' = newest
        BY <1>5, <3>1 DEF StoreWrite, Unused
      <3>. QED
        BY <3>2, RenewedIsTyped DEF VaultTyped
    <2>. QED
      BY <1>1, <1>5, <2>2, <2>4, <2>5 DEF StoreWrite
  <1>6. ASSUME NEW i \in Items, ScreenEdit(i)
        PROVE  VaultTyped'
    <2>1. \/ store' = [store EXCEPT ![i] = Gone]
          \/ \E s \in Sites : store' = [store EXCEPT ![i] = [rev |-> store[i].rev + 1, site |-> s]]
      BY <1>6 DEF ScreenEdit, Gone
    <2>2. store[i].rev # 0
      BY <1>6 DEF ScreenEdit, VaultTyped, Stored
    <2>3. store' \in [Items -> Stored] /\ Seen \subseteq Seen'
      BY <1>2, <1>3, <1>4, <2>1, <2>2
    <2>4. newest' \in Seq(Items)
      BY <1>6, RenewedIsTyped DEF ScreenEdit, VaultTyped
    <2>. QED
      BY <1>1, <1>6, <2>3, <2>4 DEF ScreenEdit, VaultTyped
  <1>7. Forgotten \in [items : {NoRead} \cup ARead(Seen), era : Nat]
    BY DEF Forgotten, VaultTyped
  <1>8. ASSUME NEW d \in Computers, FinishWrite(d)
        PROVE  VaultTyped'
    <2>1. request' \in [Computers -> ARequest(Seen)]
      BY <1>8, RepliesAreTyped DEF FinishWrite
    <2>2. call' \in [Computers -> ACall(Seen)] /\ DOMAIN result' = Computers
      BY <1>8, FinishesAreTyped DEF FinishWrite, VaultTyped
    <2>. QED
      BY <1>7, <1>8, <2>1, <2>2, TypesWithoutTheStore DEF FinishWrite, Disturbs, VaultTyped
  <1>9. CASE Expire
    BY <1>7, <1>9, TypesWithoutTheStore DEF Expire, VaultTyped
  <1>. QED
    BY <1>5, <1>6, <1>8, <1>9
LEMMA TypesAreKept ==
    ASSUME VaultTyped, [Next]_vars
    PROVE  VaultTyped'
  <1>1. CASE UNCHANGED vars
    BY <1>1, TypesWithoutTheStore DEF vars, VaultTyped
  <1>2. CASE Next
    BY <1>2, ComputerTypes, PhoneTypes, ReadTypes, StoreTypes DEF Next
  <1>. QED
    BY <1>1, <1>2

(***************************************************************************)
(* Snapshots follow writes.                                                *)
(***************************************************************************)

LEMMA ErasAreNumbers == Eras \subseteq Nat
  BY VaultAssumption DEF Eras

LEMMA SnapshotsFollow ==
    ASSUME VaultTyped, ReadsAreOfTheirEra, SnapshotFollowsWrites, [Next]_vars
    PROVE  ReadsAreOfTheirEra' /\ SnapshotFollowsWrites'
  <1>. USE DEF counters
  <1>0. /\ listing.era \in Nat /\ writes \in Nat /\ reads \in [Eras -> {NoRead, Begun} \cup ARead(Seen)]
        /\ listing \in [items : {NoRead} \cup ARead(Seen), era : Nat]
    BY DEF VaultTyped
  <1>1. ASSUME UNCHANGED <<listing, reads, writes>>
        PROVE  ReadsAreOfTheirEra' /\ SnapshotFollowsWrites'
    BY <1>1 DEF ReadsAreOfTheirEra, SnapshotFollowsWrites
  <1>2. ASSUME NEW e \in Eras, listing' = listing, writes' = writes, NEW new,
               reads' = [reads EXCEPT ![e] = new],
               new = NoRead \/ e <= listing.era,
               new.state = "read" => new.writes = writes
        PROVE  ReadsAreOfTheirEra' /\ SnapshotFollowsWrites'
    BY <1>0, <1>2, ErasAreNumbers DEF ReadsAreOfTheirEra, SnapshotFollowsWrites
  <1>3. ASSUME NEW d \in Computers, Arrive(d)
        PROVE  ReadsAreOfTheirEra' /\ SnapshotFollowsWrites'
    <2>1. \/ reads' = reads
          \/ listing.era \in Eras /\ reads' = [reads EXCEPT ![listing.era] = Begun]
          \/ listing.era \notin Eras /\ reads' = [reads EXCEPT ![listing.era] = Begun]
      BY <1>3 DEF Arrive
    <2>2. CASE listing.era \notin Eras /\ reads' = [reads EXCEPT ![listing.era] = Begun]
      BY <1>0, <1>1, <1>3, <2>2 DEF Arrive
    <2>. QED
      BY <1>0, <1>1, <1>2, <1>3, <2>1, <2>2 DEF Arrive, Begun
  <1>4. ASSUME NEW e \in Eras, Capture(e)
        PROVE  ReadsAreOfTheirEra' /\ SnapshotFollowsWrites'
    <2>1. PICK new : new = Read
      OBVIOUS
    <2>2. e <= listing.era
      BY <1>0, <1>4, ErasAreNumbers DEF Capture, ReadsAreOfTheirEra, NoRead, Begun
    <2>. QED
      BY <1>2, <1>4, <2>1, <2>2, ReadIsSeen DEF Capture, VaultTyped
  <1>5. ASSUME NEW e \in Eras, ReadRefused(e)
        PROVE  ReadsAreOfTheirEra' /\ SnapshotFollowsWrites'
    BY <1>2, <1>5 DEF ReadRefused, NoRead
  <1>6. ASSUME NEW e \in Eras, Return(e)
        PROVE  ReadsAreOfTheirEra' /\ SnapshotFollowsWrites'
    <2>1. /\ reads' = [reads EXCEPT ![e] = NoRead] /\ writes' = writes
          /\ \/ listing' = listing
             \/ e = listing.era /\ listing' = [listing EXCEPT !.items = reads[e]]
      BY <1>6 DEF Return, KeptRead
    <2>2. reads[e].state = "read"
      BY <1>6 DEF Return
    <2>3. CASE listing' = listing
      BY <1>2, <2>1, <2>3 DEF NoRead
    <2>4. CASE e = listing.era /\ listing' = [listing EXCEPT !.items = reads[e]]
      BY <1>0, <2>1, <2>2, <2>4, ErasAreNumbers DEF ReadsAreOfTheirEra, SnapshotFollowsWrites, NoRead
    <2>. QED
      BY <2>1, <2>3, <2>4
  <1>7. ASSUME listing' = Forgotten, reads' = reads
        PROVE  ReadsAreOfTheirEra' /\ SnapshotFollowsWrites'
    BY <1>0, <1>7, ErasAreNumbers DEF Forgotten, ReadsAreOfTheirEra, SnapshotFollowsWrites, NoRead
  <1>8. CASE \E d \in Computers :
                \/ BeginWalk(d, "list", None) \/ \E s \in Sites : BeginWalk(d, "fill", s)
                \/ AskPage(d) \/ EndWalk(d) \/ GiveUp(d) \/ BeginCopy(d)
                \/ \E op \in {"create", "update", "delete"} : BeginWrite(d, op)
    BY <1>1, <1>8 DEF BeginWalk, AskPage, EndWalk, GiveUp, BeginCopy, BeginWrite
  <1>9. CASE \E d \in Computers : Refuse(d) \/ ReleaseSecret(d) \/ StoreWrite(d) \/ AnyPage(d)
    BY <1>1, <1>9 DEF Refuse, ReleaseSecret, StoreWrite, AnyPage
  <1>10. CASE \E d \in Computers : FinishWrite(d)
    BY <1>7, <1>10 DEF FinishWrite
  <1>11. CASE Expire
    BY <1>7, <1>11 DEF Expire
  <1>12. CASE \E i \in Items : ScreenEdit(i)
    BY <1>1, <1>12 DEF ScreenEdit
  <1>13. CASE UNCHANGED vars
    BY <1>1, <1>13 DEF vars
  <1>. QED
    BY <1>3, <1>4, <1>5, <1>6, <1>8, <1>9, <1>10, <1>11, <1>12, <1>13 DEF Next

(***************************************************************************)
(* Answers are to what was asked, and copies are what was clicked.         *)
(***************************************************************************)

(* A step in which the calls and requests stay, go, or go together.        *)
LEMMA AwaitingIsKept ==
    ASSUME NEW x \in Computers, AwaitsItsAnswer(x),
           \/ call'[x] = call[x] /\ (call[x].pc \in {"paging", "fetching"} =>
                                       request'[x] # Idle /\ request'[x].asks = request[x].asks)
           \/ call'[x].pc \notin {"paging", "fetching"}
    PROVE  AwaitsItsAnswer(x)'
  BY DEF AwaitsItsAnswer

LEMMA DeliveriesKeepAwaiting ==
    ASSUME VaultTyped, NEW x \in Computers, AwaitsItsAnswer(x), NEW ds \in SUBSET Computers,
           \A d \in ds : request[d] # Idle, NEW all \in Seq(Seen), Deliver(ds, all)
    PROVE  AwaitsItsAnswer(x)'
  <1>0. call[x] \in ACall(Seen) /\ request[x] \in ARequest(Seen)
    BY DEF VaultTyped
  <1>1. CASE x \notin ds
    <2>1. call'[x] = call[x] /\ request'[x] = request[x]
      BY <1>1 DEF Deliver
    <2>. QED
      BY <2>1 DEF AwaitsItsAnswer
  <1>2. CASE x \in ds
    <2>1. PICK new : new = Served(x, all)
      OBVIOUS
    <2>2. call'[x] = new.call /\ request'[x] = new.request
      BY <1>2, <2>1 DEF Deliver
    <2>3. CASE request[x].asks.op # "list"
      BY <1>0, <1>2, <2>1, <2>2, <2>3, ServedIs, AwaitingIsKept
    <2>4. CASE request[x].asks.op = "list" /\ call[x].pc # "paging"
      <3>1. call'[x] = call[x]
        BY <1>0, <1>2, <2>1, <2>2, <2>4, ServedIs
      <3>2. call[x].pc # "fetching"
        BY <2>4 DEF AwaitsItsAnswer, FetchRequest
      <3>. QED
        BY <2>4, <3>1, <3>2, AwaitingIsKept
    <2>5. CASE request[x].asks.op = "list" /\ call[x].pc = "paging"
      <3>1. PICK at : at = request[x].asks.cursor
        OBVIOUS
      <3>2. PICK page : page = ListResponse(Page(all, at), NextCursor(all, at))
        OBVIOUS
      <3>3. new.call = Idle \/ (at <= Len(all) /\ new.call = TakePage(x, page))
        BY <1>0, <1>2, <2>1, <2>5, <3>1, <3>2, ServedIs
      <3>4. CASE new.call = Idle
        BY <2>2, <3>4, AwaitingIsKept DEF Idle
      <3>5. CASE at <= Len(all) /\ new.call = TakePage(x, page)
        <4>1. at \in Nat
          BY <1>0, <1>2, <2>5, <3>1, RequestKinds, PayloadKinds
        <4>2. page.items \in Seq(Seen) /\ page.next \in Nat
          BY <3>2, <3>5, <4>1, PageContinues DEF ListResponse
        <4>3. call[x] \in AWalk(Seen)
          BY <1>0, <2>5, CallKinds
        <4>4. new.call.pc \in {"walking", "walked", "refused"}
          <5>1. PICK taken : taken = TakePage(x, page)
            OBVIOUS
          <5>2. taken.pc \in {"walking", "walked", "refused"}
            BY <4>2, <4>3, <5>1, PageIsTaken
          <5>. QED
            BY <3>5, <5>1, <5>2
        <4>. QED
          BY <2>2, <4>4, AwaitingIsKept
      <3>. QED
        BY <3>3, <3>4, <3>5
    <2>. QED
      BY <2>3, <2>4, <2>5
  <1>. QED
    BY <1>1, <1>2
(* A step of one computer's leaves the others' calls and requests alone.   *)
LEMMA OthersAreLeftAlone ==
    ASSUME VaultTyped, NEW d \in Computers, NEW x \in Computers, x # d,
           \/ BeginWalk(d, "list", None) \/ \E s \in Sites : BeginWalk(d, "fill", s)
           \/ AskPage(d) \/ EndWalk(d) \/ GiveUp(d) \/ BeginCopy(d)
           \/ \E op \in {"create", "update", "delete"} : BeginWrite(d, op)
           \/ Refuse(d) \/ ReleaseSecret(d) \/ StoreWrite(d) \/ FinishWrite(d) \/ AnyPage(d)
    PROVE  call'[x] = call[x] /\ request'[x] = request[x]
  <1>. DEFINE P == call'[x] = call[x] /\ request'[x] = request[x]
  <1>1. ASSUME NEW c, call' = [call EXCEPT ![d] = c]
        PROVE  call'[x] = call[x]
    BY <1>1 DEF VaultTyped
  <1>2. ASSUME NEW r, request' = [request EXCEPT ![d] = r]
        PROVE  request'[x] = request[x]
    BY <1>2 DEF VaultTyped
  <1>3. ASSUME NEW payload, Send(d, payload)
        PROVE  request'[x] = request[x]
    BY <1>2, <1>3 DEF Send
  <1>4. Reply(d) => request'[x] = request[x]
    BY <1>2 DEF Reply
  <1>5. ASSUME NEW outcome, Finish(d, outcome)
        PROVE  call'[x] = call[x]
    BY <1>1, <1>5 DEF Finish
  <1>6. ASSUME NEW code, Failed(d, code)
        PROVE  call'[x] = call[x]
    BY <1>5, <1>6 DEF Failed
  <1>7. ASSUME NEW op, NEW site, BeginWalk(d, op, site)
        PROVE  P
    BY <1>1, <1>7 DEF BeginWalk
  <1>8. AskPage(d) => P
    <2>1. AskPage(d) => request'[x] = request[x]
      BY <1>3 DEF AskPage
    <2>2. AskPage(d) => call'[x] = call[x]
      BY DEF AskPage, VaultTyped
    <2>. QED
      BY <2>1, <2>2
  <1>9. EndWalk(d) => P
    <2>1. EndWalk(d) => request' = request \/ Send(d, FetchRequest(Matches(d)[1].id))
      BY DEF EndWalk
    <2>2. EndWalk(d) => \/ \E outcome : Finish(d, outcome)
                        \/ call' = [call EXCEPT ![d] = [pc |-> "fetching", op |-> "fill", row |-> Matches(d)[1]]]
      BY DEF EndWalk, Failed
    <2>. QED
      BY <1>1, <1>3, <1>5, <2>1, <2>2
  <1>10. GiveUp(d) => P
    <2>1. GiveUp(d) => request'[x] = request[x]
      BY DEF GiveUp, VaultTyped
    <2>2. GiveUp(d) => Failed(d, "vault-unavailable")
      BY DEF GiveUp
    <2>. QED
      BY <1>6, <2>1, <2>2
  <1>11. BeginCopy(d) => P
    <2>1. ASSUME BeginCopy(d)
          PROVE  \E k : /\ Send(d, FetchRequest(rows[d][k].id))
                        /\ call' = [call EXCEPT ![d] = [pc |-> "fetching", op |-> "copy", row |-> rows[d][k]]]
      BY <2>1 DEF BeginCopy
    <2>. QED
      BY <1>1, <1>3, <2>1
  <1>12. ASSUME NEW op, BeginWrite(d, op)
         PROVE  P
    <2>1. \E payload : Send(d, payload)
      BY <1>12 DEF BeginWrite
    <2>2. call' = [call EXCEPT ![d] = [pc |-> "writing", op |-> op]]
      BY <1>12 DEF BeginWrite
    <2>. QED
      BY <1>1, <1>3, <2>1, <2>2
  <1>13. Refuse(d) => P
    BY <1>4, <1>6 DEF Refuse, Declines
  <1>14. ReleaseSecret(d) => P
    BY <1>4, <1>5, <1>6 DEF ReleaseSecret, TakeSecret
  <1>15. StoreWrite(d) => P
    BY DEF StoreWrite, VaultTyped
  <1>16. FinishWrite(d) => P
    BY <1>4, <1>5 DEF FinishWrite
  <1>17. AnyPage(d) => P
    <2>1. AnyPage(d) => \E c : call' = [call EXCEPT ![d] = c]
      BY DEF AnyPage
    <2>2. AnyPage(d) => Reply(d)
      BY DEF AnyPage
    <2>. QED
      BY <1>1, <1>4, <2>1, <2>2
  <1>. HIDE DEF P
  <1>18. P
    BY <1>7, <1>8, <1>9, <1>10, <1>11, <1>12, <1>13, <1>14, <1>15, <1>16, <1>17
  <1>. QED
    BY <1>18 DEF P

LEMMA AnswersAreAwaited ==
    ASSUME VaultTyped, NEW x \in Computers, AwaitsItsAnswer(x), [Next]_vars
    PROVE  AwaitsItsAnswer(x)'
  <1>0. call[x] \in ACall(Seen) /\ request[x] \in ARequest(Seen)
    BY DEF VaultTyped
  <1>1. ASSUME call'[x] = call[x], request'[x] = request[x]
        PROVE  AwaitsItsAnswer(x)'
    BY <1>1 DEF AwaitsItsAnswer
  <1>2. ASSUME NEW d \in Computers,
               \/ BeginWalk(d, "list", None) \/ \E s \in Sites : BeginWalk(d, "fill", s)
               \/ AskPage(d) \/ EndWalk(d) \/ GiveUp(d) \/ BeginCopy(d)
               \/ \E op \in {"create", "update", "delete"} : BeginWrite(d, op)
        PROVE  AwaitsItsAnswer(x)'
    <2>1. CASE d # x
      BY <1>1, <1>2, <2>1, OthersAreLeftAlone
    <2>2. CASE d = x
      <3>1. ASSUME NEW payload, NEW c, Send(x, payload), call' = [call EXCEPT ![x] = c],
                   \/ c.pc = "paging" /\ payload = ListRequest(c.cursor)
                   \/ c.pc = "fetching" /\ payload = FetchRequest(c.row.id)
                   \/ c.pc = "writing"
            PROVE  AwaitsItsAnswer(x)'
        <4>1. /\ call'[x] = c
              /\ request'[x] = [pc |-> "arrived", asks |-> payload, expired |-> FALSE]
          BY <3>1 DEF Send, VaultTyped
        <4>2. request'[x] # Idle /\ request'[x].asks = payload
          BY <4>1 DEF Idle
        <4>. QED
          BY <3>1, <4>1, <4>2 DEF AwaitsItsAnswer
      <3>2. ASSUME NEW c, call' = [call EXCEPT ![x] = c], c.pc \notin {"paging", "fetching"}
            PROVE  AwaitsItsAnswer(x)'
        BY <3>2, AwaitingIsKept DEF VaultTyped
      <3>3. ASSUME NEW outcome, Finish(x, outcome)
            PROVE  AwaitsItsAnswer(x)'
        BY <3>2, <3>3 DEF Finish, Idle
      <3>4. CASE BeginWalk(x, "list", None) \/ \E s \in Sites : BeginWalk(x, "fill", s)
        <4>1. ASSUME NEW op, NEW site, BeginWalk(x, op, site)
              PROVE  AwaitsItsAnswer(x)'
          <5>1. PICK c : c = [pc |-> "walking", op |-> op, site |-> site, items |-> <<>>,
                              cursor |-> 0, seen |-> {}]
            OBVIOUS
          <5>2. call' = [call EXCEPT ![x] = c] /\ c.pc = "walking"
            BY <4>1, <5>1 DEF BeginWalk
          <5>. QED
            BY <3>2, <5>2
        <4>. QED
          BY <3>4, <4>1
      <3>5. CASE AskPage(x)
        <4>1. PICK c : c = [call[x] EXCEPT !.pc = "paging"]
          OBVIOUS
        <4>2. call[x] \in AWalk(Seen)
          BY <1>0, <3>5, CallKinds DEF AskPage
        <4>3. c.pc = "paging" /\ c.cursor = call[x].cursor
          BY <4>1, <4>2 DEF AWalk
        <4>. QED
          BY <3>1, <3>5, <4>1, <4>3 DEF AskPage
      <3>6. CASE EndWalk(x)
        <4>1. CASE \E outcome : Finish(x, outcome)
          BY <3>3, <4>1
        <4>2. CASE /\ Send(x, FetchRequest(Matches(x)[1].id))
                   /\ call' = [call EXCEPT ![x] = [pc |-> "fetching", op |-> "fill", row |-> Matches(x)[1]]]
          <5>1. PICK row : row = Matches(x)[1]
            OBVIOUS
          <5>. QED
            BY <3>1, <4>2, <5>1
        <4>. QED
          BY <3>6, <4>1, <4>2 DEF EndWalk, Failed
      <3>7. CASE GiveUp(x)
        BY <3>3, <3>7 DEF GiveUp, Failed
      <3>8. CASE BeginCopy(x)
        <4>1. PICK row :
                 /\ Send(x, FetchRequest(row.id))
                 /\ call' = [call EXCEPT ![x] = [pc |-> "fetching", op |-> "copy", row |-> row]]
          BY <3>8 DEF BeginCopy
        <4>. QED
          BY <3>1, <4>1
      <3>9. ASSUME NEW op \in {"create", "update", "delete"}, BeginWrite(x, op)
            PROVE  AwaitsItsAnswer(x)'
        BY <3>1, <3>9 DEF BeginWrite
      <3>. QED
        BY <1>2, <2>2, <3>4, <3>5, <3>6, <3>7, <3>8, <3>9
    <2>. QED
      BY <2>1, <2>2
  <1>3. ASSUME NEW d \in Computers, Arrive(d)
        PROVE  AwaitsItsAnswer(x)'
    <2>0. request[d] # Idle
      BY <1>3, RequestKinds DEF Arrive, VaultTyped
    <2>1. ASSUME Snapshot(d) # NoRead
          PROVE  Snapshot(d).rows \in Seq(Seen)
      BY <2>1 DEF Snapshot, VaultTyped, ARead
    <2>2. <<>> \in Seq(Seen)
      OBVIOUS
    <2>3. ASSUME NEW all \in Seq(Seen), Deliver({d}, all)
          PROVE  AwaitsItsAnswer(x)'
      BY <2>0, <2>3, DeliveriesKeepAwaiting
    <2>4. CASE /\ request' = [request EXCEPT ![d] =
                     [pc |-> "reading", asks |-> request[d].asks, expired |-> request[d].expired,
                      era |-> listing.era]]
               /\ call' = call
      <3>1. request'[x] = request[x] \/ (request'[x] # Idle /\ request'[x].asks = request[x].asks)
        BY <2>4 DEF VaultTyped, Idle
      <3>. QED
        BY <2>4, <3>1, AwaitingIsKept DEF AwaitsItsAnswer
    <2>. QED
      BY <1>3, <2>1, <2>2, <2>3, <2>4 DEF Arrive
  <1>4. ASSUME NEW e \in Eras, Return(e)
        PROVE  AwaitsItsAnswer(x)'
    <2>1. \A d \in Waiters(e) : request[d] # Idle
      BY RequestKinds DEF Waiters, VaultTyped
    <2>2. reads[e].rows \in Seq(Seen) /\ Waiters(e) \in SUBSET Computers
      <3>1. reads[e] \in {NoRead, Begun} \cup ARead(Seen) /\ reads[e].state = "read"
        BY <1>4 DEF Return, VaultTyped
      <3>2. reads[e].rows \in Seq(Seen)
        BY <3>1 DEF ARead, NoRead, Begun
      <3>3. Waiters(e) \in SUBSET Computers
        BY DEF Waiters
      <3>. QED
        BY <3>2, <3>3
    <2>. QED
      BY <1>4, <2>1, <2>2, DeliveriesKeepAwaiting DEF Return
  <1>5. ASSUME NEW e \in Eras, Capture(e) \/ ReadRefused(e)
        PROVE  AwaitsItsAnswer(x)'
    <2>1. CASE Capture(e)
      BY <2>1, AwaitingIsKept DEF Capture, AwaitsItsAnswer
    <2>2. CASE ReadRefused(e)
      <3>1. CASE x \in Waiters(e) /\ Waiting(x)
        BY <2>2, <3>1, AwaitingIsKept DEF ReadRefused, Idle
      <3>2. CASE x \in Waiters(e) /\ ~Waiting(x)
        BY <2>2, <3>2, AwaitingIsKept DEF ReadRefused, Waiting
      <3>3. CASE x \notin Waiters(e)
        BY <2>2, <3>3, AwaitingIsKept DEF ReadRefused, AwaitsItsAnswer
      <3>. QED
        BY <3>1, <3>2, <3>3
    <2>. QED
      BY <1>5, <2>1, <2>2
  <1>6. ASSUME NEW d \in Computers, Refuse(d) \/ ReleaseSecret(d) \/ FinishWrite(d) \/ AnyPage(d)
        PROVE  AwaitsItsAnswer(x)'
    <2>1. CASE d # x
      BY <1>1, <1>6, <2>1, OthersAreLeftAlone
    <2>2. ASSUME Finish(x, result'[x])
          PROVE  AwaitsItsAnswer(x)'
      <3>1. call'[x] = Idle
        BY <2>2 DEF Finish, VaultTyped
      <3>. QED
        BY <3>1, AwaitingIsKept DEF Idle
    <2>3. ASSUME call' = call, call[x].pc \notin {"paging", "fetching"}
          PROVE  AwaitsItsAnswer(x)'
      BY <2>3, AwaitingIsKept
    <2>4. ASSUME NEW outcome, Finish(x, outcome)
          PROVE  AwaitsItsAnswer(x)'
      <3>1. call'[x] = Idle
        BY <2>4 DEF Finish, VaultTyped
      <3>. QED
        BY <3>1, AwaitingIsKept DEF Idle
    <2>5. CASE d = x /\ Refuse(d)
      BY <2>3, <2>4, <2>5 DEF Refuse, Declines, Failed, Waiting
    <2>6. CASE d = x /\ ReleaseSecret(d)
      <3>1. call[x].pc # "paging"
        BY <2>6 DEF AwaitsItsAnswer, ReleaseSecret, ListRequest
      <3>. QED
        BY <2>3, <2>4, <2>6, <3>1 DEF ReleaseSecret, TakeSecret, Failed
    <2>7. CASE d = x /\ FinishWrite(d)
      <3>1. CASE call[x].pc = "writing"
        BY <2>4, <2>7, <3>1 DEF FinishWrite
      <3>2. CASE call[x].pc # "writing"
        <4>1. request[x].asks \in AChange
          BY <1>0, <2>7, RequestKinds DEF FinishWrite
        <4>2. call[x].pc \notin {"paging", "fetching"}
          BY <4>1 DEF AwaitsItsAnswer, AChange, ListRequest, FetchRequest
        <4>. QED
          BY <2>3, <2>7, <3>2, <4>2 DEF FinishWrite
      <3>. QED
        BY <3>1, <3>2
    <2>8. CASE d = x /\ AnyPage(d)
      <3>1. CASE call[x].pc # "paging"
        <4>1. call[x].pc # "fetching"
          BY <2>8 DEF AnyPage, AwaitsItsAnswer, FetchRequest
        <4>2. call'[x] = call[x]
          BY <2>8, <3>1 DEF AnyPage
        <4>. QED
          BY <3>1, <4>1, <4>2, AwaitingIsKept
      <3>2. CASE call[x].pc = "paging"
        <4>1. ASSUME NEW n, NEW i, NEW next,
                     call' = [call EXCEPT ![x] =
                        IF call[x].pc = "paging"
                        THEN TakePage(x, ListResponse([k \in 1 .. n |-> Row(i)], next)) ELSE call[x]]
              PROVE  \E new, page : new = TakePage(x, page) /\ call'[x] = new
          <5>1. PICK new : new = TakePage(x, ListResponse([k \in 1 .. n |-> Row(i)], next))
            OBVIOUS
          <5>2. call' = [call EXCEPT ![x] = new]
            BY <3>2, <4>1, <5>1
          <5>3. call'[x] = new
            BY <5>2 DEF VaultTyped
          <5>. QED
            BY <5>1, <5>3
        <4>2. PICK new, page : new = TakePage(x, page) /\ call'[x] = new
          BY <2>8, <4>1 DEF AnyPage
        <4>3. new.pc \in {"walking", "walked", "refused"}
          BY <1>0, <3>2, <4>2, CallKinds DEF TakePage, AWalk
        <4>. QED
          BY <4>2, <4>3, AwaitingIsKept
      <3>. QED
        BY <3>1, <3>2
    <2>. QED
      BY <1>6, <2>1, <2>5, <2>6, <2>7, <2>8
  <1>7. ASSUME NEW d \in Computers, StoreWrite(d)
        PROVE  AwaitsItsAnswer(x)'
    <2>1. /\ call' = call /\ request' = [request EXCEPT ![d].pc = "stored"]
          /\ request[d].pc = "sheet"
      BY <1>7 DEF StoreWrite
    <2>2. CASE d # x
      BY <1>1, <2>1, <2>2
    <2>3. CASE d = x
      <3>1. request[x] \in [pc : {"sheet"}, asks : APayload \ AList, expired : BOOLEAN, named : Seq(Seen)]
        BY <1>0, <2>1, <2>3, RequestKinds
      <3>2. request'[x] # Idle /\ request'[x].asks = request[x].asks
        BY <2>1, <2>3, <3>1 DEF Idle, VaultTyped
      <3>. QED
        BY <2>1, <3>2, AwaitingIsKept
    <2>. QED
      BY <2>2, <2>3
  <1>8. CASE Expire \/ (\E i \in Items : ScreenEdit(i)) \/ UNCHANGED vars
    BY <1>8 DEF Expire, ScreenEdit, vars, AwaitsItsAnswer
  <1>. QED
    BY <1>2, <1>3, <1>4, <1>5, <1>6, <1>7, <1>8 DEF Next
LEMMA CopiesAreClicked ==
    ASSUME VaultTyped, \A d \in Computers : AwaitsItsAnswer(d), CopiedIsWhatWasClicked, [Next]_vars
    PROVE  CopiedIsWhatWasClicked'
  <1>. DEFINE Fine(r) == r.code = "ok" /\ r.op = "copy" => r.secret = r.row
  <1>1. ASSUME \A x \in Computers : result'[x] = result[x] \/ result'[x].code # "ok"
        PROVE  CopiedIsWhatWasClicked'
    BY <1>1 DEF CopiedIsWhatWasClicked
  <1>2. ASSUME NEW d \in Computers, NEW outcome, Finish(d, outcome), Fine(outcome)
        PROVE  CopiedIsWhatWasClicked'
    <2>1. \A x \in Computers : result'[x] = IF x = d THEN outcome ELSE result[x]
      BY <1>2 DEF Finish, VaultTyped
    <2>. QED
      BY <1>2, <2>1 DEF CopiedIsWhatWasClicked
  <1>3. ASSUME NEW d \in Computers, NEW code, Failed(d, code), code # "ok"
        PROVE  CopiedIsWhatWasClicked'
    BY <1>2, <1>3 DEF Failed
  <1>4. ASSUME NEW ds \in SUBSET Computers, \A d \in ds : request[d] # Idle,
               NEW all \in Seq(Seen), Deliver(ds, all)
        PROVE  CopiedIsWhatWasClicked'
    <2>1. ASSUME NEW x \in ds
          PROVE  Served(x, all).result = result[x] \/ Served(x, all).result.code # "ok"
      <3>1. x \in Computers /\ request[x] # Idle
        BY <1>4
      <3>2. call[x] \in ACall(Seen) /\ request[x] \in ARequest(Seen)
        BY <3>1 DEF VaultTyped
      <3>3. PICK new : new = Served(x, all)
        OBVIOUS
      <3>4. new.result = result[x] \/ new.result.code = "vault-unavailable"
        BY <3>1, <3>2, <3>3, ServedIs
      <3>. QED
        BY <3>3, <3>4
    <2>. QED
      BY <1>1, <1>4, <2>1 DEF Deliver
  <1>5. ASSUME NEW d \in Computers,
               \/ BeginWalk(d, "list", None) \/ \E s \in Sites : BeginWalk(d, "fill", s)
               \/ AskPage(d) \/ BeginCopy(d) \/ StoreWrite(d) \/ AnyPage(d)
               \/ \E op \in {"create", "update", "delete"} : BeginWrite(d, op)
        PROVE  CopiedIsWhatWasClicked'
    BY <1>1, <1>5 DEF BeginWalk, AskPage, BeginCopy, StoreWrite, AnyPage, BeginWrite
  <1>6. ASSUME NEW d \in Computers, EndWalk(d)
        PROVE  CopiedIsWhatWasClicked'
    <2>1. \/ Failed(d, "protocol-error")
          \/ Finish(d, [code |-> "ok", op |-> "list"])
          \/ Failed(d, IF Matches(d) = <<>> THEN "not-found" ELSE "ambiguous")
          \/ result' = result
      BY <1>6 DEF EndWalk
    <2>. QED
      BY <1>1, <1>2, <1>3, <2>1
  <1>7. ASSUME NEW d \in Computers, GiveUp(d) \/ Refuse(d)
        PROVE  CopiedIsWhatWasClicked'
    BY <1>1, <1>3, <1>7 DEF GiveUp, Refuse, Declines
  <1>8. ASSUME NEW d \in Computers, ReleaseSecret(d)
        PROVE  CopiedIsWhatWasClicked'
    <2>1. CASE call[d].pc # "fetching"
      BY <1>1, <1>8, <2>1 DEF ReleaseSecret
    <2>2. CASE call[d].pc = "fetching"
      <3>1. PICK row, secret : row = call[d].row /\ secret = FetchResponse(request[d].asks.id)
        OBVIOUS
      <3>2. TakeSecret(d, secret)
        BY <1>8, <2>2, <3>1 DEF ReleaseSecret
      <3>3. row \in Seen /\ call[d].op \in {"copy", "fill"}
        BY <2>2, <3>1, CallKinds DEF VaultTyped, AFetch
      <3>4. CASE call[d].op = "copy" /\ secret.rev # row.rev
        BY <1>3, <3>1, <3>2, <3>4 DEF TakeSecret
      <3>5. CASE call[d].op = "copy" /\ secret.rev = row.rev
        <4>1. request[d].asks.id = row.id
          <5>1. AwaitsItsAnswer(d)
            OBVIOUS
          <5>2. request[d].asks = FetchRequest(row.id)
            BY <2>2, <3>1, <5>1 DEF AwaitsItsAnswer
          <5>. QED
            BY <5>2 DEF FetchRequest
        <4>2. row \in ARow /\ OnceTrue(row)
          BY <3>3 DEF Seen
        <4>3. store[row.id] \in Stored
          BY <4>2 DEF VaultTyped, ARow
        <4>4. /\ secret = [id |-> row.id, rev |-> store[row.id].rev, site |-> store[row.id].site]
              /\ store[row.id].rev = row.rev
          BY <3>1, <3>5, <4>1 DEF FetchResponse, Row
        <4>5. row.site = store[row.id].site
          BY <4>2, <4>3, <4>4 DEF OnceTrue, Gone, ARow, Stored
        <4>6. secret = row
          BY <4>2, <4>4, <4>5 DEF ARow
        <4>7. Finish(d, [code |-> "ok", op |-> call[d].op, row |-> row, secret |-> secret])
          BY <3>1, <3>2, <3>5 DEF TakeSecret
        <4>. QED
          BY <1>2, <4>6, <4>7
      <3>6. CASE call[d].op = "fill"
        BY <1>2, <3>1, <3>2, <3>6 DEF TakeSecret
      <3>. QED
        BY <3>3, <3>4, <3>5, <3>6
    <2>. QED
      BY <2>1, <2>2
  <1>9. ASSUME NEW d \in Computers, FinishWrite(d)
        PROVE  CopiedIsWhatWasClicked'
    <2>1. CASE call[d].pc # "writing"
      BY <1>1, <1>9, <2>1 DEF FinishWrite
    <2>2. CASE call[d].pc = "writing"
      <3>1. call[d].op # "copy"
        BY <2>2, CallKinds DEF VaultTyped, AWrite
      <3>. QED
        BY <1>2, <1>9, <2>2, <3>1 DEF FinishWrite
    <2>. QED
      BY <2>1, <2>2
  <1>10. ASSUME NEW d \in Computers, Arrive(d)
         PROVE  CopiedIsWhatWasClicked'
    <2>0. request[d] # Idle
      BY <1>10, RequestKinds DEF Arrive, VaultTyped
    <2>1. Snapshot(d) # NoRead => Snapshot(d).rows \in Seq(Seen)
      BY DEF Snapshot, VaultTyped, ARead
    <2>2. <<>> \in Seq(Seen)
      OBVIOUS
    <2>3. ASSUME NEW all \in Seq(Seen), Deliver({d}, all)
          PROVE  CopiedIsWhatWasClicked'
      BY <1>4, <2>0, <2>3
    <2>. QED
      BY <1>1, <1>10, <2>1, <2>2, <2>3 DEF Arrive
  <1>11. ASSUME NEW e \in Eras, Return(e)
         PROVE  CopiedIsWhatWasClicked'
    <2>1. \A d \in Waiters(e) : request[d] # Idle
      BY RequestKinds DEF Waiters, VaultTyped
    <2>2. reads[e].rows \in Seq(Seen) /\ Waiters(e) \in SUBSET Computers
      <3>1. reads[e] \in {NoRead, Begun} \cup ARead(Seen) /\ reads[e].state = "read"
        BY <1>11 DEF Return, VaultTyped
      <3>2. reads[e].rows \in Seq(Seen)
        BY <3>1 DEF ARead, NoRead, Begun
      <3>3. Waiters(e) \in SUBSET Computers
        BY DEF Waiters
      <3>. QED
        BY <3>2, <3>3
    <2>. QED
      BY <1>4, <1>11, <2>1, <2>2 DEF Return
  <1>12. ASSUME NEW e \in Eras, Capture(e) \/ ReadRefused(e)
         PROVE  CopiedIsWhatWasClicked'
    BY <1>1, <1>12 DEF Capture, ReadRefused
  <1>13. CASE Expire \/ (\E i \in Items : ScreenEdit(i)) \/ UNCHANGED vars
    BY <1>1, <1>13 DEF Expire, ScreenEdit, vars
  <1>. QED
    BY <1>5, <1>6, <1>7, <1>8, <1>9, <1>10, <1>11, <1>12, <1>13 DEF Next

(***************************************************************************)
(* A walk follows one snapshot.                                            *)
(***************************************************************************)

(* The next page of an undisturbed walk, or its last.                      *)
LEMMA PagesFollow ==
    ASSUME VaultTyped, NEW x \in Computers, call[x].pc = "paging",
           NEW all \in Seq(Seen), NEW offset \in Nat, offset <= Len(all),
           call[x].items = UpTo(all, offset),
           NEW page, page = ListResponse(Page(all, offset), NextCursor(all, offset)),
           NEW new, new = TakePage(x, page)
    PROVE  /\ new.pc \in {"walking", "walked", "refused"}
           /\ new.pc = "walked" => new.items = all
           /\ new.pc = "walking" => new.cursor # 0 /\ new.cursor < Len(all)
                                    /\ new.items = UpTo(all, new.cursor)
  <1>1. call[x] \in AWalk(Seen)
    BY CallKinds DEF VaultTyped
  <1>2. PICK items, next : items = Page(all, offset) /\ next = NextCursor(all, offset)
    OBVIOUS
  <1>3. page.items = items /\ page.next = next
    BY <1>2 DEF ListResponse
  <1>4. /\ items \in Seq(Seen) /\ next \in Nat
        /\ next = 0 => call[x].items \o items = all
        /\ next # 0 => next < Len(all) /\ call[x].items \o items = UpTo(all, next)
    <2>1. /\ items \in Seq(Seen) /\ next \in Nat
          /\ next = 0 => Continues(all, offset, items, Len(all))
          /\ next # 0 => next < Len(all) /\ Continues(all, offset, items, next)
      BY <1>2, PageContinues
    <2>2. UpTo(all, Len(all)) = all
      BY SubSeqFull DEF UpTo
    <2>. QED
      BY <2>1, <2>2, Zenon DEF Continues
  <1>5. /\ new.pc \in {"walking", "walked", "refused"}
        /\ new.pc = "walked" => next = 0 /\ new.items = call[x].items \o items
        /\ new.pc = "walking" => next # 0 /\ new.cursor = next /\ new.items = call[x].items \o items
    BY <1>1, <1>3, <1>4, PageIsTaken
  <1>. QED
    BY <1>4, <1>5
(* Nothing the walk reads has changed.                                     *)
LEMMA WalkGoesOn ==
    ASSUME NEW x \in Computers, WalkFollows(x), call'[x] = call[x],
           request'[x] = request[x] \/ request'[x] = Idle,
           \/ listing' = listing /\ (NothingIsRead => NothingIsRead')
           \/ ~NothingIsRead /\ listing'.era = listing.era
    PROVE  WalkFollows(x)'
  <1>1. Idle.pc # "reading"
    BY DEF Idle
  <1>. QED
    BY <1>1 DEF WalkFollows

(* Only a walk's first request is served while it has not asked for a page.*)
LEMMA WalkHasNotBegun ==
    ASSUME NEW x \in Computers, WalkFollows(x), call'[x] = call[x],
           request[x] # Idle, call[x].pc # "paging"
    PROVE  WalkFollows(x)'
  BY DEF WalkFollows

LEMMA WalkIsOver ==
    ASSUME NEW x \in Computers, call'[x].pc \notin {"walking", "paging", "walked"}
    PROVE  WalkFollows(x)'
  BY DEF WalkFollows

(* Its own computer's steps, and those of the others.                      *)
LEMMA WalksGoOnHere ==
    ASSUME VaultTyped, NEW x \in Computers, NEW d \in Computers, d # x => WalkFollows(x),
           \/ BeginWalk(d, "list", None) \/ \E s \in Sites : BeginWalk(d, "fill", s)
           \/ /\ WalkFollows(x)
              /\ \/ AskPage(d) \/ EndWalk(d) \/ GiveUp(d) \/ BeginCopy(d)
                 \/ \E op \in {"create", "update", "delete"} : BeginWrite(d, op)
    PROVE  WalkFollows(x)'
  <1>1. CASE d # x
    <2>1. call'[x] = call[x] /\ request'[x] = request[x]
      BY <1>1, OthersAreLeftAlone
    <2>2. listing' = listing /\ reads' = reads
      BY DEF BeginWalk, AskPage, EndWalk, GiveUp, BeginCopy, BeginWrite
    <2>. QED
      BY <1>1, <2>1, <2>2, WalkGoesOn DEF NothingIsRead
  <1>2. ASSUME NEW op, NEW site, BeginWalk(x, op, site)
        PROVE  WalkFollows(x)'
    <2>1. call'[x] = [pc |-> "walking", op |-> op, site |-> site, items |-> <<>>, cursor |-> 0,
                      seen |-> {}]
      BY <1>2 DEF BeginWalk, VaultTyped
    <2>. QED
      BY <2>1 DEF WalkFollows
  <1>3. CASE WalkFollows(x) /\ AskPage(x)
    <2>1. call[x] \in AWalk(Seen) /\ call[x].pc = "walking"
      BY <1>3, CallKinds DEF AskPage, VaultTyped
    <2>2. PICK c : c = [call[x] EXCEPT !.pc = "paging"]
      OBVIOUS
    <2>3. c.pc = "paging" /\ c.items = call[x].items /\ c.cursor = call[x].cursor
      BY <2>1, <2>2 DEF AWalk
    <2>4. call'[x] = c
      BY <1>3, <2>2 DEF AskPage, VaultTyped
    <2>5. request'[x].pc = "arrived"
      BY <1>3 DEF AskPage, Send, VaultTyped
    <2>6. listing' = listing /\ reads' = reads
      BY <1>3 DEF AskPage
    <2>. QED
      BY <1>3, <2>1, <2>3, <2>4, <2>5, <2>6 DEF WalkFollows, NothingIsRead
  <1>4. ASSUME NEW outcome, Finish(x, outcome)
        PROVE  WalkFollows(x)'
    BY <1>4, WalkIsOver DEF Finish, VaultTyped, Idle
  <1>5. CASE EndWalk(x)
    <2>1. ASSUME NEW row, call' = [call EXCEPT ![x] = [pc |-> "fetching", op |-> "fill", row |-> row]]
          PROVE  WalkFollows(x)'
      BY <2>1, WalkIsOver DEF VaultTyped
    <2>. QED
      BY <1>4, <1>5, <2>1 DEF EndWalk, Failed
  <1>6. CASE GiveUp(x)
    BY <1>4, <1>6 DEF GiveUp, Failed
  <1>7. CASE BeginCopy(x)
    <2>1. ASSUME NEW row, call' = [call EXCEPT ![x] = [pc |-> "fetching", op |-> "copy", row |-> row]]
          PROVE  WalkFollows(x)'
      BY <2>1, WalkIsOver DEF VaultTyped
    <2>. QED
      BY <1>7, <2>1 DEF BeginCopy
  <1>8. ASSUME NEW op, BeginWrite(x, op)
        PROVE  WalkFollows(x)'
    BY <1>8, WalkIsOver DEF BeginWrite, VaultTyped
  <1>. QED
    BY <1>1, <1>2, <1>3, <1>5, <1>6, <1>7, <1>8

(* The rows at hand are served to the computer of the walk.                *)
LEMMA ServedWalksFollow ==
    ASSUME VaultTyped, NEW x \in Computers, AwaitsItsAnswer(x), WalkFollows(x), request[x] # Idle,
           NEW all \in Seq(Seen), NEW ds \in SUBSET Computers, x \in ds, Deliver(ds, all),
           call[x].pc = "paging" =>
               /\ listing'.items # NoRead /\ listing'.items.rows = all /\ NothingIsRead'
               /\ call[x].items = UpTo(all, call[x].cursor) /\ call[x].cursor <= Len(all)
    PROVE  WalkFollows(x)'
  <1>0. call[x] \in ACall(Seen) /\ request[x] \in ARequest(Seen)
    BY DEF VaultTyped
  <1>1. PICK new : new = Served(x, all)
    OBVIOUS
  <1>2. call'[x] = new.call /\ request'[x] = new.request
    BY <1>1 DEF Deliver
  <1>3. CASE call[x].pc # "paging"
    <2>1. new.call = call[x]
      BY <1>0, <1>1, <1>3, ServedIs
    <2>. QED
      BY <1>2, <1>3, <2>1, WalkHasNotBegun
  <1>4. CASE call[x].pc = "paging"
    <2>1. PICK at : at = call[x].cursor
      OBVIOUS
    <2>2. PICK page : page = ListResponse(Page(all, at), NextCursor(all, at))
      OBVIOUS
    <2>3. request[x].asks.op = "list" /\ request[x].asks.cursor = at
      BY <1>4, <2>1 DEF AwaitsItsAnswer, ListRequest
    <2>4. request'[x] = Idle /\ (new.call = Idle \/ new.call = TakePage(x, page))
      BY <1>0, <1>1, <1>2, <1>4, <2>2, <2>3, ServedIs
    <2>5. at \in Nat
      BY <1>0, <1>4, <2>1, CallKinds DEF AWalk
    <2>6. CASE new.call = Idle
      BY <1>2, <2>6, WalkIsOver DEF Idle
    <2>7. CASE new.call = TakePage(x, page)
      <3>1. PICK c : c = new.call
        OBVIOUS
      <3>2. /\ c.pc \in {"walking", "walked", "refused"}
            /\ c.pc = "walked" => c.items = all
            /\ c.pc = "walking" => c.cursor # 0 /\ c.cursor < Len(all) /\ c.items = UpTo(all, c.cursor)
        BY <1>4, <2>1, <2>2, <2>5, <2>7, <3>1, PagesFollow
      <3>. QED
        BY <1>2, <1>4, <2>4, <3>1, <3>2 DEF WalkFollows
    <2>. QED
      BY <2>4, <2>6, <2>7
  <1>. QED
    BY <1>3, <1>4
LEMMA WalksGoOn ==
    ASSUME VaultTyped, NEW x \in Computers \ disturbed', AwaitsItsAnswer(x), WalksFollow, honest',
           [Next]_vars
    PROVE  WalkFollows(x)'
  <1>. USE DEF counters
  <1>0. call[x] \in ACall(Seen) /\ request[x] \in ARequest(Seen)
    BY DEF VaultTyped
  <1>1. ASSUME honest' = honest, x \notin disturbed
        PROVE  honest /\ WalkFollows(x)
    BY <1>1 DEF WalksFollow
  <1>2. ASSUME NEW d \in Computers,
               \/ BeginWalk(d, "list", None) \/ \E s \in Sites : BeginWalk(d, "fill", s)
        PROVE  WalkFollows(x)'
    <2>1. honest' = honest /\ disturbed' = disturbed \ {d}
      BY <1>2 DEF BeginWalk
    <2>2. d # x => WalkFollows(x)
      BY <1>1, <2>1
    <2>. QED
      BY <1>2, <2>2, WalksGoOnHere
  <1>3. ASSUME NEW d \in Computers,
               \/ AskPage(d) \/ EndWalk(d) \/ GiveUp(d) \/ BeginCopy(d)
               \/ \E op \in {"create", "update", "delete"} : BeginWrite(d, op)
        PROVE  WalkFollows(x)'
    <2>1. honest' = honest /\ disturbed' = disturbed
      BY <1>3 DEF AskPage, EndWalk, GiveUp, BeginCopy, BeginWrite
    <2>. QED
      BY <1>1, <1>3, <2>1, WalksGoOnHere
  <1>4. ASSUME NEW d \in Computers, Arrive(d)
        PROVE  WalkFollows(x)'
    <2>1. d = x /\ WalkFollows(x)
      BY <1>1, <1>4 DEF Arrive, Disturbs
    <2>2. request[x] # Idle /\ request[x].pc = "arrived" /\ request[x].asks \in APayload
      BY <1>0, <1>4, <2>1, RequestKinds DEF Arrive
    <2>3. CASE call[x].pc # "paging"
      <3>1. CASE \E all \in Seq(Seen) : Deliver({x}, all)
        BY <2>1, <2>2, <2>3, <3>1, ServedWalksFollow
      <3>2. CASE call' = call
        BY <2>1, <2>2, <2>3, <3>2, WalkHasNotBegun
      <3>3. Snapshot(x) # NoRead => Snapshot(x).rows \in Seq(Seen)
        BY DEF Snapshot, VaultTyped, ARead
      <3>4. <<>> \in Seq(Seen)
        OBVIOUS
      <3>. QED
        BY <1>4, <2>1, <3>1, <3>2, <3>3, <3>4 DEF Arrive
    <2>4. CASE call[x].pc = "paging"
      <3>1. request[x].asks.op = "list" /\ request[x].asks.cursor = call[x].cursor
        BY <2>4 DEF AwaitsItsAnswer, ListRequest
      <3>2. CASE Snapshot(x) # NoRead
        <4>1. call[x].cursor # 0 /\ Snapshot(x) = listing.items
          BY <3>1, <3>2 DEF Snapshot
        <4>2. /\ listing.items # NoRead /\ NothingIsRead
              /\ call[x].cursor < Len(listing.items.rows)
              /\ call[x].items = UpTo(listing.items.rows, call[x].cursor)
          BY <2>1, <2>4, <4>1 DEF WalkFollows
        <4>3. Deliver({x}, listing.items.rows) /\ listing' = listing /\ reads' = reads
          BY <1>4, <2>1, <3>1, <3>2, <4>1 DEF Arrive
        <4>4. PICK all \in Seq(Seen) : all = listing.items.rows
          BY <4>2 DEF VaultTyped, ARead
        <4>5. call[x].cursor \in Nat
          BY <1>0, <2>4, CallKinds DEF AWalk
        <4>6. NothingIsRead'
          BY <4>2, <4>3 DEF NothingIsRead
        <4>7. call[x].cursor <= Len(all)
          BY <4>2, <4>4, <4>5
        <4>. QED
          BY <2>1, <2>2, <4>2, <4>3, <4>4, <4>6, <4>7, ServedWalksFollow
      <3>3. CASE Snapshot(x) = NoRead
        <4>1. /\ request'[x].pc = "reading" /\ request'[x].era = listing.era
              /\ listing' = listing /\ call' = call
          BY <1>4, <2>1, <3>1, <3>3 DEF Arrive, VaultTyped
        <4>2. call[x].cursor = 0
          BY <2>1, <2>4, <3>1, <3>3 DEF Snapshot, WalkFollows
        <4>. QED
          BY <2>1, <2>4, <4>1, <4>2 DEF WalkFollows
      <3>. QED
        BY <3>2, <3>3
    <2>. QED
      BY <2>3, <2>4
  <1>5. ASSUME NEW e \in Eras, Capture(e)
        PROVE  WalkFollows(x)'
    <2>1. WalkFollows(x) /\ call' = call /\ request' = request /\ listing' = listing
      BY <1>1, <1>5 DEF Capture
    <2>2. NothingIsRead => NothingIsRead'
      BY <1>5 DEF Capture, NothingIsRead, NoRead, Begun, VaultTyped
    <2>. QED
      BY <2>1, <2>2, WalkGoesOn
  <1>6. ASSUME NEW e \in Eras, ReadRefused(e)
        PROVE  WalkFollows(x)'
    <2>1. WalkFollows(x) /\ listing' = listing
      BY <1>1, <1>6 DEF ReadRefused
    <2>2. CASE x \notin Waiters(e)
      <3>1. call'[x] = call[x] /\ request'[x] = request[x]
        BY <1>6, <2>2 DEF ReadRefused
      <3>2. NothingIsRead => NothingIsRead'
        BY <1>6, <2>1 DEF ReadRefused, NothingIsRead, VaultTyped
      <3>. QED
        BY <2>1, <3>1, <3>2, WalkGoesOn
    <2>3. CASE x \in Waiters(e) /\ Waiting(x)
      <3>1. call'[x] = Idle
        BY <1>6, <2>3 DEF ReadRefused
      <3>. QED
        BY <3>1, WalkIsOver DEF Idle
    <2>4. CASE x \in Waiters(e) /\ ~Waiting(x)
      <3>1. call'[x] = call[x]
        BY <1>6, <2>4 DEF ReadRefused
      <3>2. request[x] # Idle /\ call[x].pc # "paging"
        BY <1>0, <2>4, RequestKinds DEF Waiters, Waiting
      <3>. QED
        BY <2>1, <3>1, <3>2, WalkHasNotBegun
    <2>. QED
      BY <2>2, <2>3, <2>4
  <1>7. ASSUME NEW e \in Eras, Return(e)
        PROVE  WalkFollows(x)'
    <2>1. WalkFollows(x)
      BY <1>1, <1>7 DEF Return
    <2>2. PICK read \in ARead(Seen) : read = reads[e]
      <3>1. reads[e] \in ARead(Seen)
        BY <1>7 DEF Return, VaultTyped, ARead, NoRead, Begun
      <3>. QED
        BY <3>1
    <2>3. /\ Deliver(Waiters(e), read.rows) /\ read.rows \in Seq(Seen) /\ read # NoRead
          /\ reads' = [reads EXCEPT ![e] = NoRead]
      BY <1>7, <2>2 DEF Return, ARead, NoRead
    <2>4. /\ e = listing.era => listing'.items = read /\ listing'.era = listing.era /\ NothingIsRead'
          /\ e # listing.era => listing' = listing
      BY <1>7, <2>2, <2>3 DEF Return, KeptRead, VaultTyped, NothingIsRead
    <2>5. CASE x \notin Waiters(e)
      <3>1. call'[x] = call[x] /\ request'[x] = request[x]
        BY <2>3, <2>5 DEF Deliver
      <3>2. CASE e = listing.era
        <4>1. ~NothingIsRead
          BY <2>2, <2>3, <3>2 DEF NothingIsRead
        <4>. QED
          BY <2>1, <2>4, <3>1, <3>2, <4>1, WalkGoesOn
      <3>3. CASE e # listing.era
        <4>1. NothingIsRead => NothingIsRead'
          BY <2>3, <2>4, <3>3 DEF NothingIsRead, VaultTyped
        <4>. QED
          BY <2>1, <2>4, <3>1, <3>3, <4>1, WalkGoesOn
      <3>. QED
        BY <3>2, <3>3
    <2>6. CASE x \in Waiters(e)
      <3>1. request[x] # Idle /\ request[x].pc = "reading" /\ request[x].era = e
        BY <1>0, <2>6, RequestKinds DEF Waiters
      <3>2. ASSUME call[x].pc = "paging"
            PROVE  /\ listing'.items # NoRead /\ listing'.items.rows = read.rows /\ NothingIsRead'
                   /\ call[x].items = UpTo(read.rows, call[x].cursor)
                   /\ call[x].cursor <= Len(read.rows)
        <4>1. call[x].cursor = 0 /\ e = listing.era /\ call[x].items = <<>>
          BY <2>1, <3>1, <3>2 DEF WalkFollows
        <4>2. PICK all \in Seq(Seen) : all = read.rows
          BY <2>3
        <4>3. UpTo(all, 0) = <<>> /\ 0 <= Len(all)
          BY SubSeqEmpty DEF UpTo
        <4>. QED
          BY <2>3, <2>4, <4>1, <4>2, <4>3
      <3>3. Waiters(e) \in SUBSET Computers
        BY DEF Waiters
      <3>4. PICK all \in Seq(Seen) : all = read.rows
        BY <2>3
      <3>. QED
        BY <2>1, <2>3, <2>6, <3>1, <3>2, <3>3, <3>4, ServedWalksFollow
    <2>. QED
      BY <2>5, <2>6
  <1>8. ASSUME NEW d \in Computers, Refuse(d) \/ ReleaseSecret(d)
        PROVE  WalkFollows(x)'
    <2>1. /\ WalkFollows(x) /\ listing' = listing /\ reads' = reads
      BY <1>1, <1>8 DEF Refuse, ReleaseSecret
    <2>2. request'[x] = request[x] \/ request'[x] = Idle
      BY <1>8, OthersAreLeftAlone DEF Refuse, Declines, ReleaseSecret, Reply, VaultTyped
    <2>3. call'[x] = call[x] \/ call'[x] = Idle
      BY <1>8, OthersAreLeftAlone
         DEF Refuse, Declines, ReleaseSecret, TakeSecret, Failed, Finish, VaultTyped
    <2>4. CASE call'[x] = call[x]
      BY <2>1, <2>2, <2>4, WalkGoesOn DEF NothingIsRead
    <2>5. CASE call'[x] = Idle
      BY <2>5, WalkIsOver DEF Idle
    <2>. QED
      BY <2>3, <2>4, <2>5
  <1>9. ASSUME NEW d \in Computers, StoreWrite(d)
        PROVE  WalkFollows(x)'
    <2>1. WalkFollows(x) /\ listing' = listing /\ reads' = reads /\ call' = call
      BY <1>1, <1>9 DEF StoreWrite
    <2>2. CASE d # x
      <3>1. request'[x] = request[x]
        BY <1>9, <2>2, OthersAreLeftAlone
      <3>. QED
        BY <2>1, <3>1, WalkGoesOn DEF NothingIsRead
    <2>3. CASE d = x
      <3>1. request[x] # Idle /\ request[x].asks \notin AList
        BY <1>0, <1>9, <2>3, RequestKinds DEF StoreWrite
      <3>2. call[x].pc # "paging"
        BY <1>0, <3>1, RequestKinds, PayloadKinds DEF AwaitsItsAnswer, ListRequest
      <3>. QED
        BY <2>1, <3>1, <3>2, WalkHasNotBegun
    <2>. QED
      BY <2>2, <2>3
  <1>10. ASSUME NEW d \in Computers, FinishWrite(d)
         PROVE  WalkFollows(x)'
    <2>1. d = x /\ WalkFollows(x)
      BY <1>1, <1>10 DEF FinishWrite, Disturbs
    <2>2. request[x] # Idle /\ request[x].asks \in AChange
      BY <1>0, <1>10, <2>1, RequestKinds DEF FinishWrite
    <2>3. call[x].pc # "paging"
      BY <2>2 DEF AwaitsItsAnswer, ListRequest, AChange
    <2>4. CASE call' = call
      BY <2>1, <2>2, <2>3, <2>4, WalkHasNotBegun
    <2>5. CASE call'[x] = Idle
      BY <2>5, WalkIsOver DEF Idle
    <2>. QED
      BY <1>10, <2>1, <2>4, <2>5 DEF FinishWrite, Finish, VaultTyped
  <1>11. ASSUME NEW d \in Computers, AnyPage(d)
         PROVE  FALSE
    BY <1>11 DEF AnyPage
  <1>12. CASE Expire
    BY <1>12 DEF Expire
  <1>13. CASE (\E i \in Items : ScreenEdit(i)) \/ UNCHANGED vars
    <2>1. /\ WalkFollows(x) /\ UNCHANGED <<listing, reads, request, call>>
      BY <1>1, <1>13 DEF ScreenEdit, vars
    <2>. QED
      BY <2>1, WalkGoesOn DEF NothingIsRead
  <1>. QED
    BY <1>2, <1>3, <1>4, <1>5, <1>6, <1>7, <1>8, <1>9, <1>10, <1>11, <1>12, <1>13 DEF Next

(***************************************************************************)
(* The theorems.                                                           *)
(***************************************************************************)

LEMMA VaultInitially == Init => VaultInv
  <1>. SUFFICES ASSUME Init PROVE VaultInv
    OBVIOUS
  <1>1. honest \in BOOLEAN /\ store \in [Items -> Stored] /\ newest \in Seq(Items)
    BY VaultAssumption DEF Init, Stored, AnySite, Absent
  <1>2. writes = 0 /\ listing = [items |-> NoRead, era |-> 0] /\ \A e \in Eras : reads[e] = NoRead
    BY DEF Init
  <1>3. rows \in [Computers -> Seq(Seen)]
    <2>1. PICK new : new = Read
      OBVIOUS
    <2>2. new.rows \in Seq(Seen)
      BY <1>1, <1>2, <2>1, ReadIsSeen DEF ARead
    <2>3. rows = [d \in Computers |-> new.rows]
      BY <2>1 DEF Init
    <2>. QED
      BY <2>2, <2>3
  <1>4. VaultTyped
    <2>1. Idle \in ARequest(Seen) /\ Idle \in ACall(Seen)
      BY DEF ARequest, ACall
    <2>2. request \in [Computers -> ARequest(Seen)] /\ call \in [Computers -> ACall(Seen)]
      BY <2>1 DEF Init
    <2>3. reads \in [Eras -> {NoRead, Begun} \cup ARead(Seen)]
      BY DEF Init
    <2>4. listing \in [items : {NoRead} \cup ARead(Seen), era : Nat]
      BY <1>2
    <2>5. DOMAIN result = Computers /\ writes \in Nat /\ disturbed \subseteq Computers
      BY DEF Init
    <2>. QED
      BY <1>1, <1>3, <2>2, <2>3, <2>4, <2>5 DEF VaultTyped
  <1>5. \A d \in Computers : call[d].pc = "idle" /\ result[d].code = "none"
    BY DEF Init, Idle, None
  <1>6. (\A d \in Computers : AwaitsItsAnswer(d) /\ WalkFollows(d)) /\ CopiedIsWhatWasClicked
    BY <1>5 DEF AwaitsItsAnswer, WalkFollows, CopiedIsWhatWasClicked
  <1>7. ReadsAreOfTheirEra /\ SnapshotFollowsWrites
    BY <1>2 DEF ReadsAreOfTheirEra, SnapshotFollowsWrites, NoRead
  <1>. QED
    BY <1>4, <1>6, <1>7 DEF VaultInv, WalksFollow

LEMMA VaultInvariant == Spec => []VaultInv
  <1>1. Init => VaultInv
    BY VaultInitially
  <1>2. VaultInv /\ [Next]_vars => VaultInv'
    <2>. SUFFICES ASSUME VaultInv, [Next]_vars PROVE VaultInv'
      OBVIOUS
    <2>1. VaultTyped'
      BY TypesAreKept DEF VaultInv
    <2>2. ReadsAreOfTheirEra' /\ SnapshotFollowsWrites'
      BY SnapshotsFollow DEF VaultInv
    <2>3. \A d \in Computers : AwaitsItsAnswer(d)'
      BY AnswersAreAwaited DEF VaultInv
    <2>4. CopiedIsWhatWasClicked'
      BY CopiesAreClicked DEF VaultInv
    <2>5. WalksFollow'
      BY WalksGoOn DEF VaultInv, WalksFollow
    <2>. QED
      BY <2>1, <2>2, <2>3, <2>4, <2>5 DEF VaultInv
  <1>. QED
    BY <1>1, <1>2, PTL DEF Spec

(* Every variable of the vault holds what its type says: rows shown in a   *)
(* tray are of items that may exist, with a revision that was stored.      *)
THEOREM VaultTypeCorrect == Spec => []TypeOK
  <1>1. VaultInv => TypeOK
    <2>. SUFFICES ASSUME VaultInv PROVE TypeOK
      OBVIOUS
    <2>1. Seen \subseteq [id : Items, rev : Nat \ {0}, site : Sites \cup {"absent", "gone"}]
      BY DEF Seen, ARow, AnySite
    <2>2. Seq(Seen) \subseteq Seq([id : Items, rev : Nat \ {0}, site : Sites \cup {"absent", "gone"}])
      BY <2>1, MoreIsSeen
    <2>3. ASSUME NEW d \in Computers
          PROVE  /\ call[d].pc \in {"idle", "walking", "paging", "walked", "refused", "fetching", "writing"}
                 /\ request[d].pc \in {"idle", "arrived", "reading", "sheet", "stored"}
                 /\ rows[d] \in Seq(Seen)
      BY CallKinds, RequestKinds DEF VaultInv, VaultTyped
    <2>4. listing.items # NoRead => listing.items.rows \in Seq(Seen)
      BY DEF VaultInv, VaultTyped, ARead
    <2>5. /\ store \in [Items -> [rev : Nat, site : Sites \cup {"absent", "gone"}]] /\ listing.era \in Nat
          /\ newest \in Seq(Items)
      BY DEF VaultInv, VaultTyped, Stored, AnySite
    <2>. QED
      BY <2>2, <2>3, <2>4, <2>5 DEF TypeOK
  <1>. QED
    BY <1>1, VaultInvariant, PTL

(* No snapshot of the listing outlives a write of a computer, also not one *)
(* read before the write and returned after it (forget, invalidate).       *)
THEOREM SnapshotsFollowWrites == Spec => []SnapshotFollowsWrites
  <1>1. VaultInv => SnapshotFollowsWrites
    BY DEF VaultInv
  <1>. QED
    BY <1>1, VaultInvariant, PTL

(* The pages of an undisturbed walk are one state of the vault, over as    *)
(* many sessions as it takes (list_all).                                   *)
THEOREM WalksAgree == Spec => []PagesAgree
  <1>1. VaultInv => PagesAgree
    BY DEF VaultInv, WalksFollow, WalkFollows, PagesAgree
  <1>. QED
    BY <1>1, VaultInvariant, PTL

(* What a copy puts on the clipboard is the row that was clicked, whatever *)
(* was edited, deleted or created in between (FetchResponse).              *)
THEOREM CopiesAreWhatWasClicked == Spec => []CopiedIsWhatWasClicked
  <1>1. VaultInv => CopiedIsWhatWasClicked
    BY DEF VaultInv
  <1>. QED
    BY <1>1, VaultInvariant, PTL

(***************************************************************************)
(* The hand-off of a secret: the clipboard.                                *)
(***************************************************************************)

ATimer ==
    [pc : {"none", "sleeping", "clearing", "emptying", "emptied", "done"},
     ours : Nat, loaded : Nat, tries : 0 .. Attempts]

(* A thread that may still meet a board held open has an attempt left.     *)
TimerInv(c) ==
    /\ timer[c].ours <= seq
    /\ timer[c].pc \in {"sleeping", "clearing", "emptying"} => timer[c].tries < Attempts

ClipboardTyped ==
    /\ platform \in {"windows", "unix"} /\ board \in Copies \cup {"nothing", "user"}
    /\ platform \in Platforms
    /\ seq \in Nat \ {0} /\ OURS \in Nat /\ OURS <= seq
    /\ copy \in [Copies -> {"new", "placed", "copied", "failed"}]
    /\ timer \in [Copies -> ATimer]
    /\ \A c \in Copies : TimerInv(c)

(* What the user copied is ours by its number, or about to be claimed, or  *)
(* about to be emptied, only when it was copied inside a window.           *)
UsersAreExposed ==
    board = "user" =>
        /\ platform = "windows" /\ OURS # 0 /\ OURS = seq => exposed
        /\ (\E c \in Copies : copy[c] = "placed") => exposed
        /\ platform = "windows" /\ (\E c \in Copies : timer[c].pc = "emptying") => exposed

ClipboardInv == ClipboardTyped /\ UsersAreExposed

LEMMA NoCopyIsTheUsers == "user" \notin Copies /\ "nothing" \notin Copies
  BY ClipboardAssumption

LEMMA ClipboardStep ==
    ASSUME ClipboardInv, ClipboardNext
    PROVE  ClipboardInv'
  <1>. USE ClipboardAssumption DEF ClipboardInv
  <1>1. ASSUME NEW c \in Copies, SetText(c) PROVE ClipboardInv'
    <2>1. /\ UNCHANGED <<platform, OURS, timer>>
          /\ \/ board' = c /\ seq' = seq + 1 /\ copy' = [copy EXCEPT ![c] = "placed"]
             \/ UNCHANGED <<board, seq, exposed>> /\ copy' = [copy EXCEPT ![c] = "failed"]
             \/ board' = "nothing" /\ seq' = seq + 1 /\ copy' = [copy EXCEPT ![c] = "failed"]
      BY <1>1 DEF SetText, Changed, Busy
    <2>2. seq' \in Nat \ {0} /\ seq <= seq'
      BY <2>1 DEF ClipboardTyped
    <2>3. /\ board' \in Copies \cup {"nothing", "user"}
          /\ copy' \in [Copies -> {"new", "placed", "copied", "failed"}]
      BY <2>1 DEF ClipboardTyped
    <2>4. \A d \in Copies : TimerInv(d)'
      BY <2>1, <2>2 DEF ClipboardTyped, TimerInv, ATimer
    <2>5. ClipboardTyped'
      BY <2>1, <2>2, <2>3, <2>4 DEF ClipboardTyped
    <2>6. UsersAreExposed'
      BY <2>1, NoCopyIsTheUsers DEF ClipboardTyped, UsersAreExposed
    <2>. QED
      BY <2>5, <2>6
  <1>2. ASSUME NEW c \in Copies, Claim(c) PROVE ClipboardInv'
    <2>1. NoTimer \in ATimer
      BY DEF NoTimer, ATimer
    <2>0. PICK n \in {0, seq} : timer' = [timer EXCEPT ![c] = [NoTimer EXCEPT !.pc = "sleeping", !.ours = n]]
      BY <1>2 DEF Claim
    <2>2. ClipboardTyped'
      <3>1. n \in Nat /\ n <= seq /\ seq' = seq
        BY <1>2 DEF Claim, ClipboardTyped
      <3>2. [NoTimer EXCEPT !.pc = "sleeping", !.ours = n] =
              [pc |-> "sleeping", ours |-> n, loaded |-> 0, tries |-> 0]
        <4>1. [NoTimer EXCEPT !.pc = "sleeping"] =
                [pc |-> "sleeping", ours |-> 0, loaded |-> 0, tries |-> 0]
          BY DEF NoTimer
        <4>. DEFINE asleep == [NoTimer EXCEPT !.pc = "sleeping"]
        <4>2. asleep = [pc |-> "sleeping", ours |-> 0, loaded |-> 0, tries |-> 0]
          BY <4>1
        <4>. HIDE DEF asleep
        <4>3. [asleep EXCEPT !.ours = n] = [pc |-> "sleeping", ours |-> n, loaded |-> 0, tries |-> 0]
          BY <4>2
        <4>. QED
          BY <4>3 DEF asleep
      <3>3. [pc |-> "sleeping", ours |-> n, loaded |-> 0, tries |-> 0] \in ATimer
        BY <3>1 DEF ATimer
      <3>4. timer' = [timer EXCEPT ![c] = [pc |-> "sleeping", ours |-> n, loaded |-> 0, tries |-> 0]]
        BY <2>0, <3>2
      <3>5. timer' \in [Copies -> ATimer]
        BY <3>3, <3>4 DEF ClipboardTyped
      <3>6. \A d \in Copies : TimerInv(d)'
        BY <3>1, <3>4 DEF ClipboardTyped, TimerInv
      <3>7. /\ UNCHANGED <<platform, board, seq>> /\ OURS' \in {OURS, seq}
            /\ copy' = [copy EXCEPT ![c] = "copied"]
        BY <1>2 DEF Claim
      <3>. QED
        BY <3>5, <3>6, <3>7 DEF ClipboardTyped
    <2>3. UsersAreExposed'
      BY <1>2, <2>1 DEF Claim, ClipboardTyped, UsersAreExposed, NoTimer, ATimer
    <2>. QED
      BY <2>2, <2>3
  <1>3. ASSUME NEW c \in Copies, Wake(c) PROVE ClipboardInv'
    BY <1>3 DEF Wake, TimerGoes, ClipboardTyped, UsersAreExposed, TimerInv, ATimer
  <1>4. ASSUME NEW c \in Copies, CheckOurs(c) PROVE ClipboardInv'
    BY <1>4 DEF CheckOurs, ClipboardTyped, UsersAreExposed, TimerInv, ATimer
  <1>5. ASSUME NEW c \in Copies, FailClear(c) PROVE ClipboardInv'
    BY <1>5 DEF FailClear, Busy, ClipboardTyped, UsersAreExposed, TimerInv, ATimer
  <1>6. ASSUME NEW c \in Copies, Empty(c) PROVE ClipboardInv'
    BY <1>6 DEF Empty, Changed, TimerGoes, ClipboardTyped, UsersAreExposed, TimerInv, ATimer
  <1>7. ASSUME NEW c \in Copies, Reset(c) PROVE ClipboardInv'
    BY <1>7 DEF Reset, TimerGoes, ClipboardTyped, UsersAreExposed, TimerInv, ATimer
  <1>8. ASSUME UserCopies PROVE ClipboardInv'
    <2>1. /\ UNCHANGED <<platform, OURS, copy, timer>> /\ board' = "user" /\ seq' = seq + 1
          /\ exposed' = \/ \E c \in Copies : copy[c] = "placed"
                        \/ \E c \in Copies : timer[c].pc = "emptying"
      BY <1>8 DEF UserCopies, Changed
    <2>2. seq' \in Nat \ {0} /\ seq < seq'
      BY <2>1 DEF ClipboardTyped
    <2>3. \A d \in Copies : TimerInv(d)'
      BY <2>1, <2>2 DEF ClipboardTyped, TimerInv, ATimer
    <2>4. ClipboardTyped'
      BY <2>1, <2>2, <2>3 DEF ClipboardTyped
    <2>5. OURS' # seq'
      BY <2>1, <2>2 DEF ClipboardTyped
    <2>6. UsersAreExposed'
      BY <2>1, <2>5 DEF UsersAreExposed
    <2>. QED
      BY <2>4, <2>6
  <1>. QED
    BY <1>1, <1>2, <1>3, <1>4, <1>5, <1>6, <1>7, <1>8 DEF ClipboardNext

(* A board that a clear empties held what raced with it.                   *)
LEMMA ClearIsOfTheRaced ==
    ASSUME ClipboardInv, ClipboardNext, platform = "windows", board = "user", board' = "nothing",
           NEW d \in Copies, timer[d].pc = "emptying", timer'[d].pc # "emptying"
    PROVE  exposed
  BY DEF ClipboardInv, UsersAreExposed

-----------------------------------------------------------------------------
(***************************************************************************)
(* The audit log.                                                          *)
(***************************************************************************)

APiece == [entry : Entries, form : {"whole"} \cup Unfinished]

(* What keeps the last of a sequence ends with it. *)
LEMMA TheLastIsKept ==
    ASSUME NEW n \in Nat \ {0}, NEW s, DOMAIN s = 1 .. n, NEW keep \in SUBSET (1 .. n), n \in keep,
           NEW m, m = Cardinality(keep)
    PROVE  m \in Nat \ {0} /\ Kept(s, keep)[m] = s[n]
  <1>1. /\ IsFiniteSet(keep) /\ m \in Nat
        /\ \A k \in 1 .. m : \E i \in keep : Rank(keep, i) = k
        /\ \A i, j \in keep : Rank(keep, i) = Rank(keep, j) => i = j
    BY RanksAreTaken
  <1>2. m # 0
    BY <1>1, FS_EmptySet
  <1>3. {j \in keep : j <= n} = keep
    <2>1. \A j \in keep : j \in 1 .. n
      OBVIOUS
    <2>2. \A j \in keep : j <= n
      BY <2>1
    <2>. QED
      BY <2>2
  <1>4. Rank(keep, n) = m
    BY <1>3 DEF Rank
  <1>5. (CHOOSE i \in keep : Rank(keep, i) = m) = n
    BY <1>1, <1>4
  <1>6. m \in 1 .. m
    BY <1>1, <1>2
  <1>7. Kept(s, keep)[m] = s[CHOOSE i \in keep : Rank(keep, i) = m]
    BY <1>6 DEF Kept
  <1>. QED
    BY <1>1, <1>2, <1>5, <1>7

(* The entries of a file are entries, and of the pieces that parse.        *)
LEMMA ReadIsOfEntries ==
    ASSUME NEW file \in Seq(APiece), NEW keep \in SUBSET (1 .. Len(file))
    PROVE  Kept([i \in 1 .. Len(file) |-> file[i].entry], keep) \in Seq(Entries)
  <1>. DEFINE all == [i \in 1 .. Len(file) |-> file[i].entry]
  <1>0. \A i \in 1 .. Len(file) : file[i] \in APiece
    OBVIOUS
  <1>1. \A i \in 1 .. Len(file) : file[i].entry \in Entries
    BY <1>0 DEF APiece
  <1>2. all \in [1 .. Len(file) -> Entries] /\ Len(file) \in Nat
    BY <1>1
  <1>3. all \in Seq(Entries) /\ DOMAIN all = 1 .. Len(file)
    BY <1>2
  <1>4. keep \in SUBSET (DOMAIN all)
    BY <1>3
  <1>. HIDE DEF all
  <1>5. Kept(all, keep) \in Seq(Entries)
    BY <1>3, <1>4, KeptIsPart
  <1>. QED
    BY <1>5 DEF all

(* A file is read to its last piece when nothing in it is torn, and that   *)
(* piece is whole and a line of its own.                                   *)
EndsWith(file, e) ==
    /\ Len(file) # 0
    /\ \A i \in 1 .. Len(file) : file[i].form # "torn"
    /\ BeginsLine(file, Len(file)) /\ file[Len(file)] = Whole(e)

LEMMA TheLastIsRead ==
    ASSUME NEW file \in Seq(APiece), NEW e \in Entries, EndsWith(file, e)
    PROVE  /\ ReadAll(file) \in Seq(Entries) /\ Len(ReadAll(file)) # 0
           /\ ReadAll(file)[Len(ReadAll(file))] = e
  <1>. DEFINE n == Len(file)
              all == [i \in 1 .. n |-> file[i].entry]
              keep == {i \in 1 .. n : Parses(file, i)}
              m == Cardinality(keep)
  <1>1. n \in Nat \ {0}
    BY DEF EndsWith
  <1>2. keep = {i \in 1 .. n : Parses(file, i) /\ \A j \in 1 .. i : file[j].form # "torn"}
    BY <1>1 DEF EndsWith
  <1>3. ReadAll(file) = Kept(all, keep)
    BY <1>2 DEF ReadAll
  <1>4. n \in keep /\ all[n] = e
    BY <1>1 DEF EndsWith, Parses, Whole, Piece
  <1>5. m \in Nat \ {0} /\ Kept(all, keep)[m] = all[n]
    <2>1. DOMAIN all = 1 .. n /\ keep \in SUBSET (1 .. n)
      OBVIOUS
    <2>. HIDE DEF all, keep, n
    <2>. QED
      BY <1>1, <1>4, <2>1, TheLastIsKept DEF m
  <1>6. Kept(all, keep) \in Seq(Entries)
    BY ReadIsOfEntries
  <1>7. Len(Kept(all, keep)) = m
    <2>. HIDE DEF all, keep
    <2>. QED
      BY <1>5 DEF Kept
  <1>. HIDE DEF all, keep, m, n
  <1>. QED
    BY <1>3, <1>4, <1>5, <1>6, <1>7

LEMMA TheLastIsNewest ==
    ASSUME NEW file \in Seq(APiece), NEW e \in Entries, EndsWith(file, e)
    PROVE  Newest(file) = {e}
  <1>. DEFINE read == ReadAll(file)
  <1>1. read \in Seq(Entries) /\ Len(read) # 0 /\ read[Len(read)] = e
    BY TheLastIsRead
  <1>2. Newest(file) = {Reverse(read)[1]}
    BY <1>1 DEF Newest, Recent
  <1>. HIDE DEF read
  <1>3. Reverse(read)[1] = read[Len(read)]
    BY <1>1 DEF Reverse
  <1>. QED
    BY <1>1, <1>2, <1>3

(* Of nothing, nothing is kept. *)
LEMMA NothingIsRetained ==
    ASSUME NEW entries, entries = << >>
    PROVE  Retained(entries) = << >>
  <1>. DEFINE freshest(n) == SubSeq(entries, Len(entries) - n + 1, Len(entries))
              fits(n) == n <= Retain /\ (n <= 1 \/ 2 * FileSize([i \in 1 .. n |-> Whole(freshest(n)[i])]) <= TrimThreshold)
              T == {k \in 0 .. Len(entries) : \A j \in 0 .. k : fits(j)}
  <1>1. Retained(entries) = freshest(Max(T))
    BY DEF Retained
  <1>2. Len(entries) = 0
    OBVIOUS
  <1>3. fits(0)
    BY AuditAssumption
  <1>. HIDE DEF fits
  <1>4. T = {0}
    BY <1>2, <1>3
  <1>. HIDE DEF T
  <1>5. Max(T) = 0
    BY <1>4 DEF Max
  <1>6. SubSeq(entries, 1, 0) = << >>
    BY SubSeqEmpty
  <1>. QED
    BY <1>1, <1>2, <1>5, <1>6

(* Some of the newest entries are kept, and the very newest of them.       *)
LEMMA TheNewestIsRetained ==
    ASSUME NEW entries \in Seq(Entries), Len(entries) # 0, NEW kept, kept = Retained(entries)
    PROVE  /\ kept \in Seq(Entries) /\ Len(kept) # 0
           /\ kept[Len(kept)] = entries[Len(entries)]
  <1>. DEFINE L == Len(entries)
              freshest(n) == SubSeq(entries, L - n + 1, L)
              fits(n) == n <= Retain /\ (n <= 1 \/ 2 * FileSize([i \in 1 .. n |-> Whole(freshest(n)[i])]) <= TrimThreshold)
              T == {k \in 0 .. L : \A j \in 0 .. k : fits(j)}
  <1>1. L \in Nat \ {0}
    OBVIOUS
  <1>2. kept = freshest(Max(T))
    BY DEF Retained
  <1>3. 1 \in T
    <2>1. fits(0) /\ fits(1)
      BY AuditAssumption
    <2>2. \A j \in 0 .. 1 : j = 0 \/ j = 1
      OBVIOUS
    <2>. HIDE DEF fits
    <2>. QED
      BY <1>1, <2>1, <2>2
  <1>. HIDE DEF fits
  <1>4. \A k \in T : k \in Nat /\ k <= L
    OBVIOUS
  <1>. HIDE DEF T
  <1>5. PICK k \in T : \A j \in T : k >= j
    <2>. DEFINE D == {L - k : k \in T}
    <2>1. D \subseteq Nat /\ D # {}
      BY <1>1, <1>3, <1>4
    <2>. HIDE DEF D
    <2>2. PICK d \in D : \A x \in D : ~(<<x, d>> \in OpToRel(<, Nat))
      BY <2>1, NatLessThanWellFounded, WFMin, Zenon
    <2>3. \A x \in D : ~(x < d)
      BY <2>1, <2>2 DEF OpToRel
    <2>4. PICK k \in T : d = L - k
      BY DEF D
    <2>5. ASSUME NEW j \in T PROVE k >= j
      <3>1. L - j \in D
        BY DEF D
      <3>2. ~(L - j < L - k)
        BY <2>3, <2>4, <3>1
      <3>. QED
        BY <1>1, <1>4, <3>2
    <2>. QED
      BY <2>5
  <1>6. Max(T) \in T /\ \A j \in T : Max(T) >= j
    BY <1>5 DEF Max
  <1>7. Max(T) \in 1 .. L
    BY <1>1, <1>3, <1>4, <1>6
  <1>. DEFINE n == Max(T)
  <1>. HIDE DEF n
  <1>8. n \in 1 .. L /\ kept = SubSeq(entries, L - n + 1, L)
    BY <1>2, <1>7 DEF n
  <1>9. /\ kept \in Seq(Entries) /\ Len(kept) = n
        /\ kept[n] = entries[(L - n + 1) + n - 1]
    <2>1. L - n + 1 \in 1 .. L /\ L - (L - n + 1) + 1 = n /\ L - n + 1 \in Int
      BY <1>1, <1>8
    <2>2. SubSeq(entries, L - n + 1, L) \in Seq(Entries) /\ Len(SubSeq(entries, L - n + 1, L)) = n
      BY <1>1, <2>1, SubSeqProperties
    <2>3. SubSeq(entries, L - n + 1, L)[n] = entries[(L - n + 1) + n - 1]
      <3>. DEFINE from == L - n + 1
      <3>1. from \in Int /\ L \in Int /\ \A i \in from .. L : entries[i] \in Entries
        BY <1>1, <2>1
      <3>2. n \in 1 .. L - from + 1
        BY <1>1, <1>8
      <3>. HIDE DEF from
      <3>3. \A i \in 1 .. L - from + 1 : SubSeq(entries, from, L)[i] = entries[from + i - 1]
        BY <3>1, SubSeqProperties
      <3>4. SubSeq(entries, from, L)[n] = entries[from + n - 1]
        BY <3>2, <3>3
      <3>. QED
        BY <3>4 DEF from
    <2>. QED
      BY <1>8, <2>2, <2>3
  <1>. QED
    BY <1>1, <1>8, <1>9

(* A file of whole entries is read to the end of it.                       *)
LEMMA WholeFilesEndWithTheirLast ==
    ASSUME NEW kept \in Seq(Entries), Len(kept) # 0, NEW file,
           file = [i \in 1 .. Len(kept) |-> Whole(kept[i])]
    PROVE  file \in Seq(APiece) /\ EndsWith(file, kept[Len(kept)])
  <1>1. Len(kept) \in Nat \ {0} /\ \A i \in 1 .. Len(kept) : kept[i] \in Entries
    OBVIOUS
  <1>2. file \in [1 .. Len(kept) -> APiece]
    BY <1>1 DEF Whole, Piece, APiece
  <1>3. file \in Seq(APiece) /\ Len(file) = Len(kept)
    BY <1>1, <1>2
  <1>4. \A i \in 1 .. Len(kept) : file[i] = Whole(kept[i]) /\ file[i].form = "whole"
    BY DEF Whole, Piece
  <1>5. BeginsLine(file, Len(file))
    <2>1. CASE Len(kept) = 1
      BY <1>3, <2>1 DEF BeginsLine
    <2>2. CASE Len(kept) # 1
      <3>1. Len(file) - 1 \in 1 .. Len(kept)
        BY <1>1, <1>3, <2>2
      <3>. QED
        BY <1>4, <3>1 DEF BeginsLine
    <2>. QED
      BY <2>1, <2>2
  <1>. QED
    BY <1>1, <1>3, <1>4, <1>5 DEF EndsWith

(* An entry written at the end of a file that reads to its end.            *)
LEMMA WrittenEndsWithTheEntry ==
    ASSUME NEW file \in Seq(APiece), ReadsToTheEnd(file), NEW e \in Entries, NEW written,
           written = Append(file, Whole(e))
    PROVE  EndsWith(written, e)
  <1>1. Len(file) \in Nat /\ Len(written) = Len(file) + 1
    OBVIOUS
  <1>2. written[Len(written)] = Whole(e) /\ \A i \in 1 .. Len(file) : written[i] = file[i]
    OBVIOUS
  <1>3. \A i \in 1 .. Len(written) : written[i].form # "torn"
    <2>1. \A i \in 1 .. Len(written) : i = Len(written) \/ i \in 1 .. Len(file)
      BY <1>1
    <2>. QED
      BY <1>2, <2>1 DEF ReadsToTheEnd, Whole, Piece
  <1>4. BeginsLine(written, Len(written))
    <2>1. CASE file = << >>
      BY <1>1, <2>1 DEF BeginsLine
    <2>2. CASE file # << >>
      <3>1. Len(file) \in 1 .. Len(file) /\ Len(written) - 1 = Len(file)
        BY <1>1, <2>2, EmptySeq
      <3>. QED
        BY <1>2, <2>2, <3>1 DEF BeginsLine, ReadsToTheEnd, Last
    <2>. QED
      BY <2>1, <2>2
  <1>. QED
    BY <1>1, <1>2, <1>3, <1>4 DEF EndsWith

(* Whatever is written, the file holds pieces, and an append that returned *)
(* Ok on a file that read to its end left its entry the newest one.        *)
LEMMA AppendsAreRead ==
    ASSUME log \in Seq(APiece), NEW e \in Entries, AppendEntry(e) \/ AppendCutShort(e)
    PROVE  log' \in Seq(APiece) /\ NewestSurvives'
  <1>. DEFINE written == Append(log, Whole(e))
              entries == ReadAll(written)
              kept == Retained(entries)
              trimmed == [i \in 1 .. Len(kept) |-> Whole(kept[i])]
  <1>1. written \in Seq(APiece)
    BY DEF APiece, Whole, Piece
  <1>2. \A form \in Unfinished : Append(log, Piece(e, form)) \in Seq(APiece)
    BY DEF APiece, Piece
  <1>3. entries \in Seq(Entries)
    <2>. DEFINE keep == {i \in 1 .. Len(written) : Parses(written, i) /\ \A j \in 1 .. i : written[j].form # "torn"}
    <2>1. keep \in SUBSET (1 .. Len(written))
      OBVIOUS
    <2>2. entries = Kept([i \in 1 .. Len(written) |-> written[i].entry], keep)
      BY DEF ReadAll
    <2>. HIDE DEF keep, entries, written
    <2>. QED
      BY <1>1, <2>1, <2>2, ReadIsOfEntries
  <1>4. \/ log' = written /\ Returns(e, TRUE)
        \/ Len(kept) < Len(entries) /\ log' = trimmed /\ Returns(e, TRUE)
        \/ log' = written /\ Returns(e, FALSE)
        \/ (\E form \in Unfinished : log' = Append(log, Piece(e, form))) /\ Returns(e, FALSE)
    BY DEF AppendEntry, AppendCutShort
  <1>5. ReadsToTheEnd(log) => EndsWith(written, e)
    BY WrittenEndsWithTheEntry
  <1>6. ASSUME Len(kept) < Len(entries)
        PROVE  trimmed \in Seq(APiece) /\ (ReadsToTheEnd(log) => EndsWith(trimmed, e))
    <2>1. kept \in Seq(Entries) /\ Len(kept) # 0 /\ kept[Len(kept)] = entries[Len(entries)]
      <3>1. Len(entries) # 0
        <4>1. CASE Len(entries) = 0
          <5>1. entries = << >>
            BY <1>3, <4>1, EmptySeq
          <5>2. kept = << >>
            BY <5>1, NothingIsRetained
          <5>. QED
            BY <1>6, <4>1, <5>2
        <4>. QED
          BY <4>1
      <3>. HIDE DEF entries, kept
      <3>. QED
        BY <1>3, <3>1, TheNewestIsRetained DEF kept
    <2>2. trimmed \in Seq(APiece) /\ EndsWith(trimmed, kept[Len(kept)])
      <3>. HIDE DEF kept
      <3>. QED
        BY <2>1, WholeFilesEndWithTheirLast
    <2>3. ReadsToTheEnd(log) => entries[Len(entries)] = e
      BY <1>1, <1>5, TheLastIsRead
    <2>. QED
      BY <2>1, <2>2, <2>3
  <1>. HIDE DEF written, trimmed, kept, entries
  <1>7. log' \in Seq(APiece)
    BY <1>1, <1>2, <1>4, <1>6
  <1>8. appended'.ok /\ appended'.clean => EndsWith(log', e)
    BY <1>4, <1>5, <1>6 DEF Returns
  <1>9. appended'.entry = e
    BY <1>4 DEF Returns
  <1>10. EndsWith(log', e) => Newest(log') = {e}
    BY <1>7, TheLastIsNewest
  <1>. QED
    BY <1>7, <1>8, <1>9, <1>10 DEF NewestSurvives, Acked, Newest, Recent

-----------------------------------------------------------------------------
(***************************************************************************)
(* The hand-off as a whole.                                                *)
(***************************************************************************)

CopyInv == ClipboardInv /\ log \in Seq(APiece) /\ recorded \subseteq Entries /\ NewestSurvives

LEMMA CopyInvariant == CopySpec => []CopyInv
  <1>1. CopyInit => CopyInv
    <2>. SUFFICES ASSUME CopyInit PROVE CopyInv
      OBVIOUS
    <2>0. NoTimer \in ATimer
      BY ClipboardAssumption DEF NoTimer, ATimer
    <2>1. ClipboardInv
      BY <2>0, ClipboardAssumption
      DEF CopyInit, ClipboardInit, ClipboardInv, ClipboardTyped, UsersAreExposed, TimerInv, NoTimer
    <2>2. log \in Seq(APiece) /\ recorded \subseteq Entries /\ NewestSurvives
      BY DEF CopyInit, AuditInit, NewestSurvives, Acked
    <2>. QED
      BY <2>1, <2>2 DEF CopyInv
  <1>2. CopyInv /\ [CopyNext]_copyVars => CopyInv'
    <2>. SUFFICES ASSUME CopyInv, [CopyNext]_copyVars PROVE CopyInv'
      OBVIOUS
    <2>1. ASSUME UNCHANGED clipboardVars PROVE ClipboardInv'
      BY <2>1 DEF clipboardVars, CopyInv, ClipboardInv, ClipboardTyped, UsersAreExposed, TimerInv
    <2>2. ASSUME UNCHANGED <<auditVars, recorded>>
          PROVE  log' \in Seq(APiece) /\ recorded' \subseteq Entries /\ NewestSurvives'
      BY <2>2 DEF auditVars, CopyInv, NewestSurvives, Acked, Newest, Recent
    <2>3. CASE ClipboardNext /\ UNCHANGED <<auditVars, recorded>>
      BY <2>2, <2>3, ClipboardStep DEF CopyInv
    <2>4. ASSUME NEW e \in Entries, Record(e) PROVE CopyInv'
      BY <2>1, <2>4, AppendsAreRead DEF CopyInv, Record
    <2>5. CASE UNCHANGED copyVars
      BY <2>1, <2>2, <2>5 DEF CopyInv, copyVars
    <2>. QED
      BY <2>3, <2>4, <2>5 DEF CopyNext
  <1>. QED
    BY <1>1, <1>2, PTL DEF CopySpec

(* Every variable of the hand-off holds what its type says: a timer's      *)
(* attempts and the number it claimed stay within bounds (copy_secret).    *)
THEOREM CopyTypeCorrect == CopySpec => []CopyTypeOK
  <1>1. CopyInv => CopyTypeOK
    BY DEF CopyInv, ClipboardInv, ClipboardTyped, TimerInv, ATimer, APiece, CopyTypeOK
  <1>. QED
    BY <1>1, CopyInvariant, PTL

(* When an append onto a log that could be read to its end returns Ok, its *)
(* entry is the newest one read back, through trims and writes cut short   *)
(* before (AuditLog::append, trim_if_needed).                              *)
THEOREM NewestEntrySurvives == CopySpec => []NewestSurvives
  <1>1. CopyInv => NewestSurvives
    BY DEF CopyInv
  <1>. QED
    BY <1>1, CopyInvariant, PTL

(* On Windows a clear destroys something the user copied only when it was  *)
(* copied inside one of the two windows the code leaves open (clear).      *)
THEOREM OnlyTheRacedIsDestroyed == CopySpec => DestroysOnlyWhatRaced
  <1>1. /\ CopyInv /\ [CopyNext]_copyVars /\ platform = "windows" /\ board = "user" /\ board' = "nothing"
        /\ \E c \in Copies : timer[c].pc = "emptying" /\ timer'[c].pc # "emptying"
        => exposed
    BY DEF CopyInv, ClipboardInv, UsersAreExposed
  <1>. QED
    BY <1>1, CopyInvariant, PTL DEF CopySpec, DestroysOnlyWhatRaced
====
