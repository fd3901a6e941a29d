---------------------------- MODULE LockerProofs ----------------------------
(***************************************************************************)
(* Machine-checked theorems about Locker.                                  *)
(***************************************************************************)
EXTENDS Locker, SequenceTheorems, FiniteSetTheorems, TLAPS

(***************************************************************************)
(* Blocks and chunks.                                                      *)
(***************************************************************************)

LEMMA Division ==
    ASSUME NEW a \in Nat, NEW c \in Nat \ {0}
    PROVE  a \div c \in Nat /\ a % c \in Nat /\ (a % c) < c /\ a = (c * (a \div c)) + (a % c)
  OBVIOUS

LEMMA Products ==
    ASSUME NEW c \in Nat \ {0}, NEW a \in Nat, NEW b \in Nat
    PROVE  /\ c * a \in Nat /\ (a <= b <=> c * a <= c * b) /\ (a < b <=> c * a < c * b)
           /\ c * (a + 1) = c * a + c
           /\ a * c = c * a
  OBVIOUS

(* How the count of the chunks and the length agree.                       *)
LEMMA ChunksCoverTheLength ==
    ASSUME NEW core, core.len \in Nat
    PROVE  /\ ChunkCount(core) \in Nat \ {0}
           /\ core.len <= ChunkSize * ChunkCount(core)
           /\ core.len # 0 => ChunkSize * ChunkCount(core) < core.len + ChunkSize
           /\ core.len = 0 => ChunkCount(core) = 1
  <1>. USE FormatAssumption
  <1>. DEFINE m == ChunkCount(core)
  <1>1. CASE core.len = 0
    <2>1. m = 1
      BY <1>1 DEF ChunkCount
    <2>. QED
      BY <1>1, <2>1, Products
  <1>2. CASE core.len # 0
    <2>. DEFINE a == core.len + ChunkSize - 1
    <2>1. a \in Nat /\ m = a \div ChunkSize
      BY <1>2 DEF ChunkCount
    <2>2. m \in Nat /\ (a % ChunkSize) \in Nat /\ (a % ChunkSize) < ChunkSize
          /\ a = (ChunkSize * m) + (a % ChunkSize)
      BY <2>1, Division
    <2>. HIDE DEF m
    <2>3. ChunkSize * m \in Nat
      BY <2>2
    <2>4. core.len <= ChunkSize * m /\ ChunkSize * m < core.len + ChunkSize
      BY <2>2, <2>3
    <2>5. m # 0
      BY <1>2, <2>2, <2>4
    <2>. QED
      BY <1>2, <2>2, <2>4, <2>5 DEF m
  <1>. QED
    BY <1>1, <1>2

(* Chunk i begins where those before it end, and holds some of the rest.   *)
LEMMA ChunkLies ==
    ASSUME NEW core, core.len \in Nat, NEW i \in 1 .. ChunkCount(core)
    PROVE  /\ ChunkSize * (i - 1) \in Nat /\ (i - 1) * ChunkSize = ChunkSize * (i - 1)
           /\ Take(core, i) \in Nat /\ Take(core, i) <= ChunkSize
           /\ ChunkSize * (i - 1) + Take(core, i) <= core.len
           /\ i = ChunkCount(core) => ChunkSize * (i - 1) + Take(core, i) = core.len
           /\ i # ChunkCount(core) => Take(core, i) = ChunkSize
  <1>. USE FormatAssumption
  <1>. DEFINE m == ChunkCount(core)
              p == ChunkSize * (i - 1)
  <1>1. m \in Nat \ {0} /\ core.len <= ChunkSize * m
        /\ (core.len # 0 => ChunkSize * m < core.len + ChunkSize) /\ (core.len = 0 => m = 1)
    BY ChunksCoverTheLength
  <1>. HIDE DEF m
  <1>2. i \in Nat /\ i - 1 \in Nat /\ i <= m
    BY <1>1 DEF m
  <1>3. p \in Nat /\ (i - 1) * ChunkSize = p /\ i * ChunkSize = p + ChunkSize
    <2>1. ChunkSize * ((i - 1) + 1) = ChunkSize * (i - 1) + ChunkSize
      BY <1>2, Products
    <2>2. ChunkSize * (i - 1) \in Nat /\ (i - 1) * ChunkSize = ChunkSize * (i - 1)
      BY <1>2, Products
    <2>3. i * ChunkSize = ChunkSize * i
      BY <1>2, Products
    <2>4. (i - 1) + 1 = i
      BY <1>2
    <2>. QED
      BY <2>1, <2>2, <2>3, <2>4
  <1>4. p + ChunkSize <= ChunkSize * m /\ (i = m => p + ChunkSize = ChunkSize * m)
        /\ (i # m => p + ChunkSize + ChunkSize <= ChunkSize * m)
    <2>1. ChunkSize * i = p + ChunkSize
      BY <1>2, <1>3, Products
    <2>2. ChunkSize * i <= ChunkSize * m
      BY <1>1, <1>2, Products
    <2>3. ASSUME i # m PROVE p + ChunkSize + ChunkSize <= ChunkSize * m
      <3>1. i + 1 <= m /\ i + 1 \in Nat
        BY <1>1, <1>2, <2>3
      <3>2. ChunkSize * (i + 1) <= ChunkSize * m
        BY <1>1, <3>1, Products
      <3>3. ChunkSize * (i + 1) = ChunkSize * i + ChunkSize
        BY <1>2, Products
      <3>. QED
        BY <2>1, <3>2, <3>3
    <2>. QED
      BY <2>1, <2>2, <2>3
  <1>5. ChunkSize * m \in Nat
    BY <1>1, Products
  <1>. HIDE DEF p
  <1>6. Take(core, i) = IF p + ChunkSize <= core.len THEN ChunkSize ELSE core.len - p
    BY <1>3 DEF Take
  <1>7. p <= core.len
    <2>1. CASE core.len = 0
      BY <1>1, <1>2, <1>4, <2>1, <1>3, <1>5
    <2>2. CASE core.len # 0
      BY <1>1, <1>3, <1>4, <1>5, <2>2
    <2>. QED
      BY <2>1, <2>2
  <1>8. (i = m => p + Take(core, i) = core.len) /\ (i # m => Take(core, i) = ChunkSize)
    BY <1>1, <1>3, <1>4, <1>5, <1>6, <1>7
  <1>. QED
    BY <1>3, <1>6, <1>7, <1>8 DEF p, m

(* Where a block of the content lies among the chunks.                     *)
LEMMA BlockLies ==
    ASSUME NEW core, core.len \in Nat, NEW k \in 1 .. core.len, NEW q, NEW r,
           q = (k - 1) \div ChunkSize, r = (k - 1) % ChunkSize
    PROVE  /\ q + 1 \in 1 .. ChunkCount(core) /\ r + 1 \in 1 .. Take(core, q + 1)
           /\ ChunkSize * q + (r + 1) = k
  <1>. USE FormatAssumption
  <1>0. k - 1 \in Nat
    OBVIOUS
  <1>1. q \in Nat /\ r \in Nat /\ r < ChunkSize /\ k - 1 = (ChunkSize * q) + r
    BY <1>0, Division
  <1>2. ChunkCount(core) \in Nat \ {0} /\ core.len <= ChunkSize * ChunkCount(core)
    BY ChunksCoverTheLength
  <1>3. q < ChunkCount(core)
    <2>1. ChunkSize * q \in Nat /\ ChunkSize * ChunkCount(core) \in Nat
      BY <1>1, <1>2, Products
    <2>2. ChunkSize * q < ChunkSize * ChunkCount(core)
      BY <1>1, <1>2, <2>1
    <2>. QED
      BY <1>1, <1>2, <2>2, Products
  <1>4. q + 1 \in 1 .. ChunkCount(core) /\ (q + 1) - 1 = q
    BY <1>1, <1>2, <1>3
  <1>5. /\ ChunkSize * q \in Nat /\ Take(core, q + 1) \in Nat
        /\ (q + 1 = ChunkCount(core) => ChunkSize * q + Take(core, q + 1) = core.len)
        /\ (q + 1 # ChunkCount(core) => Take(core, q + 1) = ChunkSize)
    BY <1>4, ChunkLies
  <1>6. r < Take(core, q + 1)
    BY <1>1, <1>5
  <1>. QED
    BY <1>1, <1>4, <1>5, <1>6

LEMMA BlockIsThere ==
    ASSUME NEW core, core.len \in Nat, NEW i \in 1 .. ChunkCount(core), NEW r \in 1 .. Take(core, i),
           NEW k, k = ChunkSize * (i - 1) + r
    PROVE  /\ k \in 1 .. core.len
           /\ ((k - 1) \div ChunkSize) + 1 = i /\ ((k - 1) % ChunkSize) + 1 = r
  <1>. USE FormatAssumption
  <1>1. /\ ChunkSize * (i - 1) \in Nat /\ Take(core, i) \in Nat /\ Take(core, i) <= ChunkSize
        /\ ChunkSize * (i - 1) + Take(core, i) <= core.len
    BY ChunkLies
  <1>2. i - 1 \in Nat
    BY ChunksCoverTheLength
  <1>3. k \in 1 .. core.len
    BY <1>1
  <1>. DEFINE q == (k - 1) \div ChunkSize
              s == (k - 1) % ChunkSize
  <1>4. q \in Nat /\ s \in Nat /\ s < ChunkSize /\ k - 1 = (ChunkSize * q) + s
    BY <1>3, Division
  <1>. HIDE DEF q, s
  <1>5. ChunkSize * q \in Nat
    BY <1>4, Products
  <1>6. q = i - 1
    <2>1. ~(q < i - 1)
      <3>1. SUFFICES ASSUME q < i - 1 PROVE FALSE
        OBVIOUS
      <3>2. ChunkSize * (q + 1) <= ChunkSize * (i - 1) /\ ChunkSize * (q + 1) = ChunkSize * q + ChunkSize
        <4>1. q + 1 \in Nat /\ q + 1 <= i - 1
          BY <1>2, <1>4, <3>1
        <4>. QED
          BY <1>2, <1>4, <4>1, Products
      <3>. QED
        BY <1>1, <1>4, <1>5, <3>2
    <2>2. ~(i - 1 < q)
      <3>1. SUFFICES ASSUME i - 1 < q PROVE FALSE
        OBVIOUS
      <3>2. ChunkSize * ((i - 1) + 1) <= ChunkSize * q /\ ChunkSize * ((i - 1) + 1) = ChunkSize * (i - 1) + ChunkSize
        <4>1. (i - 1) + 1 \in Nat /\ (i - 1) + 1 <= q
          BY <1>2, <1>4, <3>1
        <4>. QED
          BY <1>2, <1>4, <4>1, Products
      <3>. QED
        BY <1>1, <1>4, <1>5, <3>2
    <2>. QED
      BY <1>2, <1>4, <2>1, <2>2
  <1>7. s = r - 1
    BY <1>1, <1>4, <1>5, <1>6
  <1>. QED
    BY <1>2, <1>3, <1>6, <1>7 DEF q, s

LEMMA PartLies ==
    ASSUME NEW core, core.len \in Nat, NEW i \in 1 .. ChunkCount(core),
           NEW s \in Seq(Blocks), Len(s) >= (i - 1) * ChunkSize + Take(core, i)
    PROVE  /\ Part(core, i, s) \in Seq(Blocks) /\ Len(Part(core, i, s)) = Take(core, i)
           /\ \A r \in 1 .. Take(core, i) : Part(core, i, s)[r] = s[ChunkSize * (i - 1) + r]
  <1>. USE FormatAssumption
  <1>. DEFINE p == ChunkSize * (i - 1)
              t == Take(core, i)
  <1>1. p \in Nat /\ (i - 1) * ChunkSize = p /\ t \in Nat
    BY ChunkLies
  <1>. HIDE DEF p, t
  <1>2. Part(core, i, s) = SubSeq(s, p + 1, p + t)
    BY <1>1 DEF Part, t
  <1>3. \A k \in p + 1 .. p + t : s[k] \in Blocks
    <2>1. Len(s) >= p + t
      BY <1>1 DEF t
    <2>. QED
      BY <1>1, <2>1, ElementOfSeq
  <1>4. /\ SubSeq(s, p + 1, p + t) \in Seq(Blocks)
        /\ Len(SubSeq(s, p + 1, p + t)) = IF p + 1 <= p + t THEN (p + t) - (p + 1) + 1 ELSE 0
        /\ \A r \in 1 .. (p + t) - (p + 1) + 1 : SubSeq(s, p + 1, p + t)[r] = s[(p + 1) + r - 1]
    BY <1>1, <1>3, SubSeqProperties
  <1>5. (p + t) - (p + 1) + 1 = t /\ \A r \in 1 .. t : (p + 1) + r - 1 = p + r
    BY <1>1
  <1>6. Len(SubSeq(s, p + 1, p + t)) = t
    BY <1>1, <1>4
  <1>. QED
    BY <1>2, <1>4, <1>5, <1>6 DEF p, t

(* Chunks of the sizes the header calls for.                               *)
Joins(box) ==
    /\ Len(box.chunks) = ChunkCount(box.core)
    /\ \A i \in 1 .. ChunkCount(box.core) :
         box.chunks[i].data \in Seq(Blocks) /\ Len(box.chunks[i].data) = Take(box.core, i)

LEMMA PartsOfTheWhole ==
    ASSUME NEW box, box.core.len \in Nat, Joins(box)
    PROVE  /\ Content(box) \in Seq(Blocks) /\ Len(Content(box)) = box.core.len
           /\ \A i \in 1 .. ChunkCount(box.core) :
                Part(box.core, i, Content(box)) = box.chunks[i].data
  <1>. USE FormatAssumption
  <1>. DEFINE core == box.core
              q(k) == (k - 1) \div ChunkSize
              r(k) == (k - 1) % ChunkSize
              at(k) == box.chunks[q(k) + 1].data[r(k) + 1]
  <1>1. ASSUME NEW k \in 1 .. core.len PROVE at(k) \in Blocks
    <2>1. q(k) + 1 \in 1 .. ChunkCount(core) /\ r(k) + 1 \in 1 .. Take(core, q(k) + 1)
      BY BlockLies
    <2>. HIDE DEF q, r
    <2>2. /\ box.chunks[q(k) + 1].data \in Seq(Blocks)
          /\ Len(box.chunks[q(k) + 1].data) = Take(core, q(k) + 1)
      BY <2>1 DEF Joins
    <2>. QED
      BY <2>1, <2>2, ElementOfSeq
  <1>2. Content(box) = [k \in 1 .. core.len |-> at(k)]
    BY DEF Content
  <1>. HIDE DEF at
  <1>3. Content(box) \in Seq(Blocks) /\ Len(Content(box)) = core.len
    BY <1>1, <1>2
  <1>4. ASSUME NEW i \in 1 .. ChunkCount(core)
        PROVE  Part(core, i, Content(box)) = box.chunks[i].data
    <2>1. /\ ChunkSize * (i - 1) \in Nat /\ (i - 1) * ChunkSize = ChunkSize * (i - 1)
          /\ Take(core, i) \in Nat /\ ChunkSize * (i - 1) + Take(core, i) <= core.len
      BY ChunkLies
    <2>2. /\ Part(core, i, Content(box)) \in Seq(Blocks)
          /\ Len(Part(core, i, Content(box))) = Take(core, i)
          /\ \A s \in 1 .. Take(core, i) :
               Part(core, i, Content(box))[s] = Content(box)[ChunkSize * (i - 1) + s]
      BY <1>3, <2>1, PartLies
    <2>3. box.chunks[i].data \in Seq(Blocks) /\ Len(box.chunks[i].data) = Take(core, i)
      BY DEF Joins
    <2>4. ASSUME NEW s \in 1 .. Take(core, i)
          PROVE  Part(core, i, Content(box))[s] = box.chunks[i].data[s]
      <3>. DEFINE k == ChunkSize * (i - 1) + s
      <3>1. k \in 1 .. core.len /\ q(k) + 1 = i /\ r(k) + 1 = s
        BY BlockIsThere
      <3>. HIDE DEF q, r, k
      <3>2. Content(box)[k] = at(k)
        BY <1>2, <3>1
      <3>3. at(k) = box.chunks[i].data[s]
        BY <3>1 DEF at
      <3>4. Part(core, i, Content(box))[s] = Content(box)[k]
        BY <2>2 DEF k
      <3>. QED
        BY <3>2, <3>3, <3>4
    <2>. HIDE DEF core
    <2>. QED
      BY <2>1, <2>2, <2>3, <2>4, SeqEqual
  <1>. QED
    BY <1>3, <1>4

LEMMA WholeOfTheParts ==
    ASSUME NEW box, box.core.len \in Nat, Joins(box),
           NEW s \in Seq(Blocks), Len(s) = box.core.len,
           \A i \in 1 .. ChunkCount(box.core) : box.chunks[i].data = Part(box.core, i, s)
    PROVE  Content(box) = s
  <1>. USE FormatAssumption
  <1>. DEFINE core == box.core
              q(k) == (k - 1) \div ChunkSize
              r(k) == (k - 1) % ChunkSize
              at(k) == box.chunks[q(k) + 1].data[r(k) + 1]
  <1>1. Content(box) = [k \in 1 .. core.len |-> at(k)]
    BY DEF Content
  <1>2. ASSUME NEW k \in 1 .. core.len PROVE at(k) = s[k]
    <2>1. /\ q(k) + 1 \in 1 .. ChunkCount(core) /\ r(k) + 1 \in 1 .. Take(core, q(k) + 1)
          /\ ChunkSize * q(k) + (r(k) + 1) = k
      <3>. DEFINE a == q(k)
                  b == r(k)
      <3>1. core.len \in Nat /\ a = (k - 1) \div ChunkSize /\ b = (k - 1) % ChunkSize
        OBVIOUS
      <3>. HIDE DEF a, b, core
      <3>2. /\ a + 1 \in 1 .. ChunkCount(core) /\ b + 1 \in 1 .. Take(core, a + 1)
            /\ ChunkSize * a + (b + 1) = k
        BY ONLY <3>1, k \in 1 .. core.len, BlockLies
      <3>. QED
        BY ONLY <3>2 DEF a, b, core
    <2>. DEFINE i == q(k) + 1
                t == r(k) + 1
    <2>. HIDE DEF q, r
    <2>2. q(k) = i - 1
      <3>1. q(k) \in Int
        BY Division DEF q
      <3>. QED
        BY <3>1
    <2>3. i \in 1 .. ChunkCount(core) /\ t \in 1 .. Take(core, i) /\ ChunkSize * (i - 1) + t = k
      BY <2>1, <2>2
    <2>4. at(k) = box.chunks[i].data[t]
      OBVIOUS
    <2>. HIDE DEF i, t
    <2>5. (i - 1) * ChunkSize + Take(core, i) <= Len(s)
      BY <2>3, ChunkLies
    <2>6. Part(core, i, s)[t] = s[ChunkSize * (i - 1) + t]
      <3>1. (i - 1) * ChunkSize + Take(core, i) \in Nat /\ Len(s) \in Nat
        BY <2>3, ChunkLies
      <3>2. Len(s) >= (i - 1) * ChunkSize + Take(core, i)
        BY <2>5, <3>1
      <3>. QED
        BY <2>3, <3>2, PartLies
    <2>. QED
      BY <2>3, <2>4, <2>6
  <1>. HIDE DEF at
  <1>3. s = [k \in 1 .. core.len |-> s[k]]
    BY LenProperties
  <1>. QED
    BY <1>1, <1>2, <1>3

(***************************************************************************)
(* What files, calls and operations look like.                             *)
(***************************************************************************)

Cores == [id : Nat, len : Nat]
Wrappers == [sound : BOOLEAN, core : Cores, id : Nat]
Metas == [sound : BOOLEAN, core : Cores, name : Names, len : Nat]
Chunks == [sound : BOOLEAN, core : Cores, index : Nat, last : BOOLEAN, data : Seq(Blocks)]
Boxes == [kind : {"container"}, doc : Names, core : Cores, meta : Metas,
          phone : Wrappers, recovery : Wrappers, chunks : Seq(Chunks)]
Plains == [kind : {"plain"}, doc : Names, content : Seq(Blocks)]

(* Every part of a container is of that container.                         *)
Matches(b) ==
    /\ b.meta.core = b.core /\ b.meta.name = b.doc /\ b.meta.len = b.core.len
    /\ b.phone.core = b.core /\ b.phone.id = Credential
    /\ b.recovery.core = b.core

PlainsOf(n) == {f \in Plains : f.doc = n}
BoxesOf(n) == {b \in Boxes : b.doc = n /\ Matches(b)}

(* What the directory may hold at a path.                                  *)
CodesOnFile == {Code(m) : m \in Nat}
Fits(x) ==
    IF x[1] = "code" THEN {Nothing, Claimed} \cup CodesOnFile
    ELSE {Nothing} \cup (IF x[2] = "" THEN PlainsOf(x[1]) ELSE BoxesOf(x[1]))

FilesFit(files) ==
    files = [x \in Paths |-> files[x]] /\ \A x \in Paths : files[x] \in Fits(x)

AgentCalls == [op : {"lock", "unlock", "rekey"}, keep : BOOLEAN, new : BOOLEAN, id : Nat,
               conn : Nat, name : Names, out : CodeFiles]
CliCalls == [op : {"recover"}, name : Names, keep : BOOLEAN, new : {FALSE}]
CallsOf(p) == IF p = "agent" THEN AgentCalls ELSE CliCalls

Target(c) ==
    CASE c.op = "lock"  -> <<c.name, "balock">>
      [] c.op = "rekey" -> <<c.name, "rekey-new">>
      [] OTHER          -> <<c.name, "">>

(* An operation that has opened its input.                                 *)
Opens(p, x) ==
    /\ x \in [pc : {"asking", "unwrapped", "keyed"}, call : CallsOf(p), n : Nat,
              input : {Nothing} \cup Boxes, phone : Wrappers, core : Cores]
    /\ x.call.op = "lock" => x.core.id = x.n /\ x.pc # "unwrapped"
    /\ x.call.op # "lock" => x.input \in BoxesOf(x.call.name) /\ x.core = x.input.core
    /\ x.pc = "unwrapped" => x.call.op = "rekey"
    /\ x.call.op = "recover" => x.pc = "keyed"
    /\ x.pc = "keyed" /\ x.call.op \in {"lock", "rekey"} => x.phone = Wrapper(x.core, Credential)

(* A lock that reads its source.                                           *)
ReadsSource(p, x) ==
    /\ x \in [pc : {"reading"}, call : CallsOf(p), n : Nat, phone : Wrappers, core : Cores,
              chunks : Seq(Chunks), source : Plains]
    /\ x.call.op = "lock" /\ x.core.id = x.n /\ x.phone = Wrapper(x.core, Credential)
    /\ x.source.doc = x.call.name
    /\ Len(x.chunks) < ChunkCount(x.core)
    /\ \A i \in 1 .. Len(x.chunks) :
         /\ x.chunks[i] = SealChunk(x.core, i, x.chunks[i].data)
         /\ Len(x.chunks[i].data) = Take(x.core, i)

Placing == {"aside", "placed", "rekeyed"}
Writing == {"checking", "renaming", "verifying", "verified", "saved"} \cup Placing

(* An operation with its output.                                           *)
HasWritten(p, x) ==
    /\ x \in [pc : Writing, call : CallsOf(p), n : Nat, temp : Boxes \cup Plains, output : Paths]
    /\ x.output = Target(x.call)
    /\ x.call.op \in {"lock", "rekey"} =>
         /\ x.temp \in BoxesOf(x.call.name)
         /\ x.temp.phone = Wrapper(x.temp.core, Credential)
         /\ x.call.op = "lock" \/ x.call.new => x.temp.recovery = Wrapper(x.temp.core, x.n)
    /\ x.call.op = "lock" => x.temp.core.id = x.n /\ Verified(x.temp)
    /\ x.call.op \in {"unlock", "recover"} => x.temp \in PlainsOf(x.call.name)
    /\ x.pc = "verifying" => x.call.op \in {"lock", "rekey"}
    /\ x.pc = "saved" => x.call.op = "lock"
    /\ x.pc \in Placing => x.call.op = "rekey"
    /\ x.pc = "rekeyed" => x.call.new

Runs(p, x) == x = Idle \/ Opens(p, x) \/ ReadsSource(p, x) \/ HasWritten(p, x)

OpsRun == proc = [p \in Procs |-> proc[p]] /\ \A p \in Procs : Runs(p, proc[p])

(* The ids of calls are different, in the inbox and at work.               *)
CallsAreNumbered ==
    /\ calls \in Nat /\ calls <= MaxCalls
    /\ \A c \in inbox : c \in AgentCalls /\ c.id \in 1 .. calls
    /\ \A c, o \in inbox : c.id = o.id => c = o
    /\ \A p \in Procs : proc[p] # Idle => proc[p].n \in 1 .. calls
    /\ proc["agent"] # Idle =>
         proc["agent"].call.id = proc["agent"].n /\ \A c \in inbox : c.id # proc["agent"].n

HistoryIsTyped ==
    /\ saved \in [Names -> Seq(Seq(Blocks))] /\ \A n \in Names : saved[n] # <<>>
    /\ saves \in Nat
    /\ raced \subseteq Names /\ overtaken \subseteq Names
    /\ faults \subseteq Names \X {"writing", "resting", "restoring"}
    /\ IsFiniteSet(faults) /\ Cardinality(faults) <= MaxFaults
    /\ unsaved \subseteq 1 .. calls /\ done \subseteq 1 .. calls

(* What has been heard of, and what of it was done.                        *)
Asked(b) == IF b.pc = "waiting" THEN b.at ELSE b.at - 1
BatchCounts(b) ==
    /\ b \in [pc : {"next", "waiting", "reported"}, batch : Batches, at : Nat \ {0}, failed : Nat,
              id : Nat, ids : SUBSET (1 .. calls), exit : {"none", "granted", "denied", "unavailable"},
              up : BOOLEAN, conn : Nat]
    /\ IsFiniteSet(b.ids)
    /\ b.at <= Len(b.batch.targets) + 1
    /\ b.pc = "waiting" => b.at <= Len(b.batch.targets) /\ b.id \in b.ids
    /\ b.pc # "reported" => b.exit = "none"
    /\ b.failed = 0 /\ b.exit # "denied" =>
         /\ Cardinality(b.ids) = Asked(b)
         /\ \A id \in b.ids : id \in done \/ (b.pc = "waiting" /\ id = b.id)
    /\ b.pc = "reported" /\ b.exit = "granted" => b.failed = 0 /\ b.at = Len(b.batch.targets) + 1

BatchIsTyped == cli = Idle \/ BatchCounts(cli)

Typed == FilesFit(fs) /\ OpsRun /\ CallsAreNumbered /\ HistoryIsTyped /\ BatchIsTyped

LEMMA Parameters ==
    /\ "code" \notin Names /\ Recoveries \subseteq Names /\ Edited \subseteq Names
    /\ MaxCalls \in Nat /\ MaxSaves \in Nat /\ MaxFaults \in Nat
    /\ \A b \in Batches : /\ b.op \in {"lock", "unlock", "rekey"}
                          /\ b.keep \in BOOLEAN /\ b.new \in BOOLEAN
                          /\ b.targets \in Seq([name : Names, out : CodeFiles])
  BY LockerAssumption

LEMMA KindsOfPaths ==
    /\ \A x \in Paths : \/ x[1] \in Names /\ x[1] # "code" /\ x = <<x[1], x[2]>>
                           /\ x[2] \in {"", "balock", "rekey-new", "rekey-old"}
                        \/ x[1] = "code" /\ x[2] \in CodeFiles /\ x = <<"code", x[2]>>
    /\ \A n \in Names : n # "code" /\ <<n, "">> \in Paths /\ <<n, "balock">> \in Paths
                        /\ <<n, "rekey-new">> \in Paths /\ <<n, "rekey-old">> \in Paths
    /\ \A f \in CodeFiles : <<"code", f>> \in Paths
  <1>1. "code" \notin Names
    BY Parameters
  <1>2. \A x \in Paths : \/ x[1] \in Names /\ x = <<x[1], x[2]>>
                            /\ x[2] \in {"", "balock", "rekey-new", "rekey-old"}
                         \/ x[1] = "code" /\ x[2] \in CodeFiles /\ x = <<"code", x[2]>>
    <2>1. SUFFICES ASSUME NEW x \in Paths
                   PROVE  \/ x[1] \in Names /\ x = <<x[1], x[2]>>
                             /\ x[2] \in {"", "balock", "rekey-new", "rekey-old"}
                          \/ x[1] = "code" /\ x[2] \in CodeFiles /\ x = <<"code", x[2]>>
      OBVIOUS
    <2>2. CASE x \in Names \X {"", "balock", "rekey-new", "rekey-old"}
      <3>. DEFINE suffixes == {"", "balock", "rekey-new", "rekey-old"}
      <3>. HIDE DEF suffixes
      <3>1. x \in Names \X suffixes
        BY <2>2, Zenon DEF suffixes
      <3>2. x[1] \in Names /\ x[2] \in suffixes /\ x = <<x[1], x[2]>>
        BY <3>1
      <3>. QED
        BY <3>2 DEF suffixes
    <2>3. CASE x \in {"code"} \X CodeFiles
      <3>1. PICK f \in CodeFiles : x = <<"code", f>>
        BY <2>3
      <3>. QED
        BY <3>1
    <2>. QED
      BY <2>1, <2>2, <2>3 DEF Paths
  <1>. QED
    BY <1>1, <1>2 DEF Paths

LEMMA WhatFits ==
    /\ \A n \in Names : /\ Fits(<<n, "">>) = {Nothing} \cup PlainsOf(n)
                        /\ \A suffix \in {"balock", "rekey-new", "rekey-old"} :
                             Fits(<<n, suffix>>) = {Nothing} \cup BoxesOf(n)
    /\ \A f \in CodeFiles : Fits(<<"code", f>>) = {Nothing, Claimed} \cup CodesOnFile
  BY KindsOfPaths DEF Fits

LEMMA SealedChunk ==
    ASSUME NEW core \in Cores, NEW i \in Nat, NEW data \in Seq(Blocks)
    PROVE  /\ SealChunk(core, i, data) \in Chunks
           /\ OpensAs(core, i, SealChunk(core, i, data)) <=> Len(data) = Take(core, i)
  BY DEF SealChunk, Chunks, OpensAs

LEMMA ContainerIsTyped ==
    ASSUME NEW n \in Names, NEW core \in Cores, NEW phone \in Wrappers, NEW id \in Nat,
           NEW chunks \in Seq(Chunks), phone.core = core, phone.id = Credential
    PROVE  Container(n, core, n, phone, id, chunks) \in BoxesOf(n)
  <1>1. Wrapper(core, id) \in Wrappers /\ Metadata(core, n) \in Metas
    BY DEF Wrapper, Metadata, Wrappers, Metas, Cores
  <1>2. Container(n, core, n, phone, id, chunks) \in Boxes
    BY <1>1 DEF Container, Boxes
  <1>. QED
    BY <1>2 DEF BoxesOf, Matches, Container, Wrapper, Metadata

LEMMA WrapperIsTyped ==
    ASSUME NEW core \in Cores, NEW id \in Nat
    PROVE  /\ Wrapper(core, id) \in Wrappers /\ Wrapper(core, id).core = core
           /\ Wrapper(core, id).id = id /\ Wrapper(core, id).sound
  BY DEF Wrapper, Wrappers

LEMMA BoxedIsTyped ==
    ASSUME NEW n \in Names, NEW content \in Seq(Blocks)
    PROVE  Boxed(n, content) \in BoxesOf(n) /\ Decrypts(Boxed(n, content))
           /\ Content(Boxed(n, content)) = content
           /\ Boxed(n, content).recovery = Wrapper(Boxed(n, content).core, 0)
           /\ Boxed(n, content).phone = Wrapper(Boxed(n, content).core, Credential)
           /\ Boxed(n, content).core = Core(0, Len(content))
           /\ OpensMetadata(Boxed(n, content))
           /\ \A i \in 1 .. Len(Boxed(n, content).chunks) :
                Boxed(n, content).chunks[i] =
                  SealChunk(Boxed(n, content).core, i, Part(Boxed(n, content).core, i, content))
  <1>. DEFINE core == Core(0, Len(content))
              sealed(i) == SealChunk(core, i, Part(core, i, content))
              chunks == [i \in 1 .. ChunkCount(core) |-> sealed(i)]
              box == Boxed(n, content)
  <1>1. core \in Cores /\ core.len = Len(content) /\ core.len \in Nat
    BY DEF Core, Cores
  <1>2. ChunkCount(core) \in Nat
    BY <1>1, ChunksCoverTheLength
  <1>3. ASSUME NEW i \in 1 .. ChunkCount(core)
        PROVE  /\ Part(core, i, content) \in Seq(Blocks)
               /\ Len(Part(core, i, content)) = Take(core, i)
    <2>1. /\ ChunkSize * (i - 1) \in Nat /\ (i - 1) * ChunkSize = ChunkSize * (i - 1)
          /\ Take(core, i) \in Nat /\ ChunkSize * (i - 1) + Take(core, i) <= core.len
      BY <1>1, ChunkLies
    <2>2. Len(content) >= (i - 1) * ChunkSize + Take(core, i)
      BY <1>1, <2>1
    <2>. QED
      BY <1>1, <2>2, PartLies
  <1>4. box = Container(n, core, n, Wrapper(core, Credential), 0, chunks)
    BY DEF Boxed
  <1>. HIDE DEF core
  <1>5. ASSUME NEW i \in 1 .. ChunkCount(core) PROVE sealed(i) \in Chunks /\ OpensAs(core, i, sealed(i))
    BY <1>1, <1>3, SealedChunk
  <1>. HIDE DEF sealed
  <1>6. chunks \in Seq(Chunks) /\ Len(chunks) = ChunkCount(core)
    BY <1>2, <1>5
  <1>. HIDE DEF chunks
  <1>7. Credential \in Nat /\ 0 \in Nat
    BY DEF Credential
  <1>8. /\ Wrapper(core, Credential) \in Wrappers /\ Wrapper(core, Credential).core = core
        /\ Wrapper(core, Credential).id = Credential
    BY <1>1, <1>7, WrapperIsTyped
  <1>9. box \in BoxesOf(n)
    BY <1>1, <1>4, <1>6, <1>7, <1>8, ContainerIsTyped
  <1>10. /\ box.core = core /\ box.chunks = chunks /\ box.recovery = Wrapper(core, 0)
         /\ box.phone = Wrapper(core, Credential) /\ box.meta = Metadata(core, n)
    BY <1>4 DEF Container
  <1>11. \A i \in 1 .. Len(box.chunks) : box.chunks[i] = sealed(i)
    BY <1>6, <1>10 DEF chunks
  <1>12. Decrypts(box)
    BY <1>5, <1>6, <1>10, <1>11 DEF Decrypts
  <1>13. Joins(box) /\ \A i \in 1 .. ChunkCount(core) : box.chunks[i].data = Part(core, i, content)
    <2>1. \A i \in 1 .. ChunkCount(core) : sealed(i).data = Part(core, i, content)
      BY DEF sealed, SealChunk
    <2>. QED
      BY <1>3, <1>6, <1>10, <1>11, <2>1 DEF Joins
  <1>14. Content(box) = content
    BY <1>1, <1>10, <1>13, WholeOfTheParts
  <1>15. OpensMetadata(box)
    BY <1>10 DEF OpensMetadata, Metadata
  <1>. QED
    BY <1>9, <1>10, <1>11, <1>12, <1>14, <1>15 DEF core, sealed

LEMMA PlainIsTyped ==
    ASSUME NEW n \in Names, NEW content \in Seq(Blocks)
    PROVE  /\ Plain(n, content) \in PlainsOf(n) /\ Plain(n, content).content = content
           /\ Plain(n, content).kind = "plain" /\ Plain(n, content).doc = n
  BY DEF Plain, PlainsOf, Plains

(* The directories a behaviour starts from.                                *)
LEMMA FirstFiles ==
    ASSUME NEW dir \in Directories
    PROVE  /\ dir = [x \in Paths |-> dir[x]]
           /\ \A f \in CodeFiles : dir[<<"code", f>>] \in {Nothing, Code(0)}
           /\ \A d \in Names :
                /\ FirstContent(dir, d) \in Seq(Blocks)
                /\ dir[<<d, "">>] \in {Nothing, Plain(d, FirstContent(dir, d))}
                /\ \A suffix \in {"balock", "rekey-new", "rekey-old"} :
                     dir[<<d, suffix>>] \in {Nothing, Boxed(d, FirstContent(dir, d))}
                /\ dir[<<d, "">>] = Nothing =>
                     dir[<<d, "balock">>] # Nothing /\ \E f \in CodeFiles : dir[<<"code", f>>] = Code(0)
  BY LockerAssumption, Zenon

LEMMA FirstFilesFit ==
    ASSUME NEW dir \in Directories
    PROVE  FilesFit(dir)
  <1>1. ASSUME NEW x \in Paths PROVE dir[x] \in Fits(x)
    <2>1. CASE x[1] = "code"
      <3>1. x[2] \in CodeFiles /\ x = <<"code", x[2]>>
        BY <2>1, KindsOfPaths
      <3>2. dir[x] \in {Nothing, Code(0)}
        BY <3>1, FirstFiles
      <3>3. Code(0) \in CodesOnFile
        BY DEF CodesOnFile
      <3>. QED
        BY <3>1, <3>2, <3>3, WhatFits
    <2>2. CASE x[1] # "code"
      <3>. DEFINE n == x[1]
      <3>1. n \in Names /\ x = <<n, x[2]>> /\ x[2] \in {"", "balock", "rekey-new", "rekey-old"}
        BY <2>2, KindsOfPaths
      <3>2. FirstContent(dir, n) \in Seq(Blocks)
        BY <3>1, FirstFiles
      <3>3. /\ Plain(n, FirstContent(dir, n)) \in PlainsOf(n)
            /\ Boxed(n, FirstContent(dir, n)) \in BoxesOf(n)
        BY <3>1, <3>2, PlainIsTyped, BoxedIsTyped
      <3>4. CASE x[2] = ""
        <4>1. dir[<<n, "">>] \in {Nothing, Plain(n, FirstContent(dir, n))}
          BY <3>1, FirstFiles
        <4>2. Fits(<<n, "">>) = {Nothing} \cup PlainsOf(n)
          BY <3>1, WhatFits
        <4>. QED
          BY <3>1, <3>3, <3>4, <4>1, <4>2
      <3>5. CASE x[2] # ""
        <4>1. x[2] \in {"balock", "rekey-new", "rekey-old"}
          BY <3>1, <3>5
        <4>2. dir[<<n, x[2]>>] \in {Nothing, Boxed(n, FirstContent(dir, n))}
          BY <3>1, <4>1, FirstFiles
        <4>3. Fits(<<n, x[2]>>) = {Nothing} \cup BoxesOf(n)
          BY <3>1, <4>1, WhatFits
        <4>. QED
          BY <3>1, <3>3, <4>2, <4>3
      <3>. QED
        BY <3>4, <3>5
    <2>. QED
      BY <2>1, <2>2
  <1>2. dir = [x \in Paths |-> dir[x]]
    BY FirstFiles
  <1>. QED
    BY <1>1, <1>2 DEF FilesFit

LEMMA TypedInitially == Init => Typed
  <1>1. SUFFICES ASSUME Init PROVE Typed
    OBVIOUS
  <1>. USE <1>1
  <1>2. FilesFit(fs)
    BY FirstFilesFit DEF Init
  <1>3. OpsRun
    BY DEF Init, OpsRun, Runs
  <1>4. CallsAreNumbered
    BY Parameters DEF Init, CallsAreNumbered, Procs
  <1>5. HistoryIsTyped
    <2>1. \A n \in Names : FirstContent(fs, n) \in Seq(Blocks)
      BY FirstFiles DEF Init
    <2>2. saved \in [Names -> Seq(Seq(Blocks))] /\ \A n \in Names : saved[n] # <<>>
      <3>1. \A n \in Names : <<FirstContent(fs, n)>> \in Seq(Seq(Blocks)) /\ <<FirstContent(fs, n)>> # <<>>
        BY <2>1
      <3>. QED
        BY <3>1 DEF Init
    <2>3. IsFiniteSet(faults) /\ Cardinality(faults) <= MaxFaults
      BY FS_EmptySet, Parameters DEF Init
    <2>. QED
      BY <2>2, <2>3 DEF Init, HistoryIsTyped
  <1>6. BatchIsTyped
    BY DEF Init, BatchIsTyped
  <1>. QED
    BY <1>2, <1>3, <1>4, <1>5, <1>6 DEF Typed

(***************************************************************************)
(* Steps keep the types.                                                   *)
(***************************************************************************)

LEMMA FileStep ==
    ASSUME NEW files, FilesFit(files), NEW x \in Paths, NEW f \in Fits(x)
    PROVE  /\ FilesFit([files EXCEPT ![x] = f])
           /\ [files EXCEPT ![x] = f][x] = f
           /\ \A y \in Paths : y # x => [files EXCEPT ![x] = f][y] = files[y]
  BY DEF FilesFit

LEMMA OpStep ==
    ASSUME OpsRun, NEW p \in Procs, NEW x, proc' = [proc EXCEPT ![p] = x]
    PROVE  /\ proc'[p] = x
           /\ \A q \in Procs : q # p => proc'[q] = proc[q]
           /\ Runs(p, x) => OpsRun'
  BY DEF OpsRun

LEMMA WhatRuns ==
    ASSUME OpsRun, NEW p \in Procs
    PROVE  /\ proc[p].pc = "idle" <=> proc[p] = Idle
           /\ proc[p].pc \in {"asking", "unwrapped", "keyed"} => Opens(p, proc[p])
           /\ proc[p].pc = "reading" => ReadsSource(p, proc[p])
           /\ proc[p].pc \in Writing => HasWritten(p, proc[p])
           /\ proc[p] # Idle => proc[p].call \in CallsOf(p) /\ proc[p].n \in Nat
  <1>1. Runs(p, proc[p])
    BY DEF OpsRun
  <1>2. CASE proc[p] = Idle
    BY <1>2 DEF Idle, Writing, Placing
  <1>3. CASE Opens(p, proc[p])
    BY <1>3 DEF Opens, Idle, Writing, Placing
  <1>4. CASE ReadsSource(p, proc[p])
    BY <1>4 DEF ReadsSource, Idle, Writing, Placing
  <1>5. CASE HasWritten(p, proc[p])
    <2>1. proc[p].pc \in Writing /\ proc[p].call \in CallsOf(p) /\ proc[p].n \in Nat
      BY <1>5 DEF HasWritten
    <2>. QED
      BY <1>5, <2>1 DEF Idle, Writing, Placing
  <1>. QED
    BY <1>1, <1>2, <1>3, <1>4, <1>5 DEF Runs

LEMMA WhatIsCalled ==
    ASSUME NEW p \in Procs, NEW c \in CallsOf(p)
    PROVE  /\ c.name \in Names /\ c.keep \in BOOLEAN /\ c.new \in BOOLEAN
           /\ c.op \in {"lock", "unlock", "rekey", "recover"}
           /\ p = "agent" <=> c.op # "recover"
           /\ p = "cli" <=> c.op = "recover"
           /\ c.op = "recover" => ~NeedsSlot(c)
           /\ p = "agent" => c.out \in CodeFiles /\ c.id \in Nat
           /\ NeedsSlot(c) => p = "agent" /\ Slot(c) \in Paths /\ Slot(c) = <<"code", c.out>>
  <1>1. p \in {"agent", "cli"}
    BY DEF Procs
  <1>2. CASE p = "agent"
    BY <1>2, KindsOfPaths DEF CallsOf, AgentCalls, NeedsSlot, Slot
  <1>3. CASE p = "cli"
    BY <1>3 DEF CallsOf, CliCalls, NeedsSlot
  <1>. QED
    BY <1>1, <1>2, <1>3

LEMMA DroppedFits ==
    ASSUME FilesFit(fs), OpsRun, NEW p \in Procs, proc[p] # Idle
    PROVE  /\ FilesFit(Dropped(p))
           /\ \A x \in Paths : Dropped(p)[x] = fs[x] \/ (fs[x] = Claimed /\ Dropped(p)[x] = Nothing)
           /\ NeedsSlot(proc[p].call) =>
                \A x \in Paths : x # Slot(proc[p].call) => Dropped(p)[x] = fs[x]
  <1>. DEFINE c == proc[p].call
  <1>1. c \in CallsOf(p)
    BY WhatRuns
  <1>2. CASE NeedsSlot(c) /\ fs[Slot(c)] = Claimed
    <2>1. Slot(c) \in Paths /\ Slot(c) = <<"code", c.out>> /\ c.out \in CodeFiles
      BY <1>1, <1>2, WhatIsCalled
    <2>2. Nothing \in Fits(Slot(c))
      BY <2>1, WhatFits
    <2>. QED
      BY <1>2, <2>1, <2>2, FileStep DEF Dropped
  <1>3. CASE ~(NeedsSlot(c) /\ fs[Slot(c)] = Claimed)
    BY <1>3 DEF Dropped
  <1>. QED
    BY <1>2, <1>3

LEMMA GoesIs ==
    ASSUME OpsRun, NEW p \in Procs, NEW pc, Goes(p, pc)
    PROVE  proc' = [proc EXCEPT ![p] = [proc[p] EXCEPT !.pc = pc]]
  BY DEF Goes, OpsRun

(* What an operation with an output carries stays as it is.                *)
LEMMA WritingGoesOn ==
    ASSUME NEW p, NEW x, HasWritten(p, x), NEW pc \in Writing,
           pc = "verifying" => x.call.op \in {"lock", "rekey"},
           pc = "saved" => x.call.op = "lock",
           pc \in Placing => x.call.op = "rekey",
           pc = "rekeyed" => x.call.new
    PROVE  /\ HasWritten(p, [x EXCEPT !.pc = pc])
           /\ [x EXCEPT !.pc = pc].pc = pc /\ [x EXCEPT !.pc = pc].call = x.call
           /\ [x EXCEPT !.pc = pc].temp = x.temp /\ [x EXCEPT !.pc = pc].n = x.n
           /\ [x EXCEPT !.pc = pc].output = x.output
  <1>. DEFINE y == [x EXCEPT !.pc = pc]
  <1>1. y \in [pc : Writing, call : CallsOf(p), n : Nat, temp : Boxes \cup Plains, output : Paths]
    BY DEF HasWritten
  <1>2. /\ y.pc = pc /\ y.call = x.call /\ y.temp = x.temp /\ y.n = x.n /\ y.output = x.output
    BY DEF HasWritten
  <1>. HIDE DEF y
  <1>3. HasWritten(p, y)
    BY <1>1, <1>2 DEF HasWritten
  <1>. QED
    BY <1>2, <1>3 DEF y

LEMMA FileKinds ==
    /\ Nothing.kind = "nothing" /\ Claimed.kind = "claimed"
    /\ \A m : Code(m).kind = "code" /\ Code(m).code = m
    /\ \A n : \A f \in PlainsOf(n) : /\ f.kind = "plain" /\ f.doc = n /\ f # Nothing
                                     /\ f \in Plains /\ f.content \in Seq(Blocks)
    /\ \A n : \A b \in BoxesOf(n) : /\ b.kind = "container" /\ b.doc = n /\ b # Nothing
                                    /\ b \in Boxes /\ Matches(b) /\ b.core \in Cores
  <1>1. /\ \A n : \A f \in PlainsOf(n) : /\ f.kind = "plain" /\ f.doc = n
                                     /\ f \in Plains /\ f.content \in Seq(Blocks)
        /\ \A n : \A b \in BoxesOf(n) : /\ b.kind = "container" /\ b.doc = n
                                        /\ b \in Boxes /\ Matches(b) /\ b.core \in Cores
    BY DEF PlainsOf, Plains, BoxesOf, Boxes
  <1>2. Nothing.kind = "nothing" /\ Claimed.kind = "claimed"
        /\ \A m : Code(m).kind = "code" /\ Code(m).code = m
    BY DEF Nothing, Claimed, Code
  <1>. QED
    BY <1>1, <1>2

LEMMA InputFits ==
    ASSUME FilesFit(fs), NEW n \in Names
    PROVE  /\ fs[<<n, "">>] \in {Nothing} \cup PlainsOf(n)
           /\ \A suffix \in {"balock", "rekey-new", "rekey-old"} :
                fs[<<n, suffix>>] \in {Nothing} \cup BoxesOf(n)
           /\ fs[<<n, "">>].kind \in {"nothing", "plain"}
           /\ fs[<<n, "balock">>].kind \in {"nothing", "container"}
           /\ fs[<<n, "">>].kind = "plain" <=> ~Free(<<n, "">>)
           /\ fs[<<n, "balock">>].kind = "container" <=> ~Free(<<n, "balock">>)
  <1>1. /\ fs[<<n, "">>] \in {Nothing} \cup PlainsOf(n)
        /\ fs[<<n, "balock">>] \in {Nothing} \cup BoxesOf(n)
        /\ fs[<<n, "rekey-new">>] \in {Nothing} \cup BoxesOf(n)
        /\ fs[<<n, "rekey-old">>] \in {Nothing} \cup BoxesOf(n)
    BY KindsOfPaths, WhatFits DEF FilesFit
  <1>2. \A suffix \in {"balock", "rekey-new", "rekey-old"} :
          fs[<<n, suffix>>] \in {Nothing} \cup BoxesOf(n)
    BY <1>1
  <1>3. /\ fs[<<n, "">>].kind \in {"nothing", "plain"}
        /\ fs[<<n, "">>].kind = "plain" <=> fs[<<n, "">>] # Nothing
    <2>. DEFINE f == fs[<<n, "">>]
    <2>1. f = Nothing \/ f \in PlainsOf(n)
      BY <1>1
    <2>. HIDE DEF f
    <2>2. f.kind \in {"nothing", "plain"} /\ (f.kind = "plain" <=> f # Nothing)
      BY <2>1, FileKinds
    <2>. QED
      BY <2>2 DEF f
  <1>4. /\ fs[<<n, "balock">>].kind \in {"nothing", "container"}
        /\ fs[<<n, "balock">>].kind = "container" <=> fs[<<n, "balock">>] # Nothing
    <2>. DEFINE f == fs[<<n, "balock">>]
    <2>1. f = Nothing \/ f \in BoxesOf(n)
      BY <1>1
    <2>. HIDE DEF f
    <2>2. CASE f = Nothing
      BY <2>2, FileKinds DEF f
    <2>3. CASE f \in BoxesOf(n)
      BY <2>3, FileKinds DEF f
    <2>. QED
      BY <2>1, <2>2, <2>3
  <1>. QED
    BY <1>1, <1>2, <1>3, <1>4 DEF Free

(* An operation has opened its input.                                      *)
OpenedAs(p, c, n, pc) ==
    /\ OpsRun' /\ Opens(p, proc'[p]) /\ proc'[p].pc = pc
    /\ proc'[p].call = c /\ proc'[p].n = n /\ proc[p] = Idle
    /\ \A q \in Procs : q # p => proc'[q] = proc[q]
    /\ c.op = "lock" => /\ fs[<<c.name, "">>] \in PlainsOf(c.name)
                        /\ proc'[p].core = Core(n, Len(fs[<<c.name, "">>].content))
                        /\ proc'[p].input = Nothing
    /\ c.op # "lock" => /\ fs[<<c.name, "balock">>] \in BoxesOf(c.name)
                        /\ proc'[p].input = fs[<<c.name, "balock">>]
                        /\ proc'[p].core = fs[<<c.name, "balock">>].core

LEMMA OpenedRuns ==
    ASSUME FilesFit(fs), OpsRun, NEW p \in Procs, NEW c \in CallsOf(p), NEW n \in Nat, NEW pc,
           pc = IF p = "agent" THEN "asking" ELSE "keyed", Opened(p, c, n, pc)
    PROVE  OpenedAs(p, c, n, pc)
  <1>. DEFINE input == fs[Input(c)]
              x == [pc |-> pc, call |-> c, n |-> n,
                    input |-> IF c.op = "lock" THEN Nothing ELSE input,
                    phone |-> Wrapper(Core(0, 0), Credential),
                    core |-> IF c.op = "lock" THEN Core(n, Len(input.content)) ELSE input.core]
  <1>1. c.name \in Names /\ (p = "agent" <=> c.op # "recover")
    BY WhatIsCalled
  <1>2. proc' = [proc EXCEPT ![p] = x] /\ proc[p] = Idle
        /\ input.kind = IF c.op = "lock" THEN "plain" ELSE "container"
    <2>1. At(p, "idle")
      BY DEF Opened
    <2>. QED
      BY <2>1, WhatRuns DEF Opened, At
  <1>3. Wrapper(Core(0, 0), Credential) \in Wrappers
    <2>1. Core(0, 0) \in Cores /\ Credential \in Nat
      BY DEF Core, Cores, Credential
    <2>. QED
      BY <2>1, WrapperIsTyped
  <1>4. CASE c.op = "lock"
    <2>1. input = fs[<<c.name, "">>] /\ input \in PlainsOf(c.name)
      <3>1. input = fs[<<c.name, "">>] /\ input.kind = "plain"
        BY <1>2, <1>4 DEF Input
      <3>. HIDE DEF input
      <3>. QED
        BY <1>1, <3>1, InputFits, FileKinds
    <2>2. Core(n, Len(input.content)) \in Cores /\ Core(n, Len(input.content)).id = n
      <3>1. input.content \in Seq(Blocks)
        BY <2>1 DEF PlainsOf, Plains
      <3>. QED
        BY <3>1 DEF Core, Cores
    <2>. HIDE DEF input
    <2>3. /\ x \in [pc : {"asking", "unwrapped", "keyed"}, call : CallsOf(p), n : Nat,
                    input : {Nothing} \cup Boxes, phone : Wrappers, core : Cores]
          /\ x.pc = pc /\ x.call = c /\ x.n = n /\ x.input = Nothing
          /\ x.core = Core(n, Len(input.content))
      BY <1>3, <1>4, <2>2
    <2>. HIDE DEF x
    <2>4. p = "agent" /\ pc = "asking"
      BY <1>1, <1>4
    <2>5. Opens(p, x)
      BY <1>4, <2>2, <2>3, <2>4 DEF Opens
    <2>6. Runs(p, x)
      BY <2>5 DEF Runs
    <2>. QED
      BY <1>2, <1>4, <2>1, <2>3, <2>5, <2>6, OpStep DEF OpenedAs
  <1>5. CASE c.op # "lock"
    <2>1. input = fs[<<c.name, "balock">>] /\ input \in BoxesOf(c.name)
      <3>1. input = fs[<<c.name, "balock">>] /\ input.kind = "container"
        BY <1>2, <1>5 DEF Input
      <3>. HIDE DEF input
      <3>. QED
        BY <1>1, <3>1, InputFits, FileKinds
    <2>2. input.core \in Cores /\ input \in Boxes
      BY <2>1 DEF BoxesOf, Boxes
    <2>. HIDE DEF input
    <2>3. /\ x \in [pc : {"asking", "unwrapped", "keyed"}, call : CallsOf(p), n : Nat,
                    input : {Nothing} \cup Boxes, phone : Wrappers, core : Cores]
          /\ x.pc = pc /\ x.call = c /\ x.n = n /\ x.input = input /\ x.core = input.core
      BY <1>3, <1>5, <2>2
    <2>. HIDE DEF x
    <2>4. Opens(p, x)
      BY <1>1, <1>5, <2>1, <2>3, WhatIsCalled DEF Opens
    <2>6. Runs(p, x)
      BY <2>4 DEF Runs
    <2>. QED
      BY <1>2, <1>5, <2>1, <2>3, <2>4, <2>6, OpStep DEF OpenedAs
  <1>. QED
    BY <1>4, <1>5

LEMMA EndedRuns ==
    ASSUME OpsRun, NEW p \in Procs, proc' = [proc EXCEPT ![p] = Idle]
    PROVE  OpsRun' /\ proc'[p] = Idle /\ \A q \in Procs : q # p => proc'[q] = proc[q]
  <1>1. Runs(p, Idle)
    BY DEF Runs
  <1>. QED
    BY <1>1, OpStep

LEMMA ExchangeRuns ==
    ASSUME OpsRun, NEW p \in Procs, Exchange(p)
    PROVE  /\ OpsRun' /\ Opens(p, proc[p]) /\ Opens(p, proc'[p])
           /\ \A q \in Procs : q # p => proc'[q] = proc[q]
           /\ proc'[p].call = proc[p].call /\ proc'[p].n = proc[p].n
           /\ proc'[p].input = proc[p].input /\ proc'[p].core = proc[p].core
           /\ proc[p].pc # "keyed"
  <1>. DEFINE x == proc[p]
              typed(y) == y \in [pc : {"asking", "unwrapped", "keyed"}, call : CallsOf(p), n : Nat,
                                 input : {Nothing} \cup Boxes, phone : Wrappers, core : Cores]
  <1>1. x.pc \in {"asking", "unwrapped"}
    BY DEF Exchange
  <1>2. Opens(p, x) /\ typed(x)
    BY <1>1, WhatRuns DEF Opens
  <1>3. x.call \in CallsOf(p) /\ x.call.op \in {"lock", "unlock", "rekey", "recover"}
    BY <1>2, WhatIsCalled DEF Opens
  <1>4. CASE /\ x.pc = "asking" /\ x.call.op # "lock"
             /\ Goes(p, IF x.call.op = "rekey" THEN "unwrapped" ELSE "keyed")
    <2>. DEFINE pc == IF x.call.op = "rekey" THEN "unwrapped" ELSE "keyed"
                y == [x EXCEPT !.pc = pc]
    <2>1. proc' = [proc EXCEPT ![p] = y]
      BY <1>4, GoesIs
    <2>2. /\ typed(y) /\ y.pc = pc /\ y.call = x.call /\ y.n = x.n
          /\ y.input = x.input /\ y.core = x.core
      BY <1>2
    <2>. HIDE DEF y, typed
    <2>3. Opens(p, y)
      BY <1>2, <1>3, <1>4, <2>2 DEF Opens, typed
    <2>4. Runs(p, y)
      BY <2>3 DEF Runs
    <2>. QED
      BY <1>1, <1>2, <2>1, <2>2, <2>3, <2>4, OpStep
  <1>5. CASE /\ x.pc = "unwrapped" \/ (x.pc = "asking" /\ x.call.op = "lock")
             /\ proc' = [proc EXCEPT ![p].pc = "keyed", ![p].phone = WrapResponse(WrapRequest(x))]
    <2>. DEFINE phone == Wrapper(x.core, Credential)
                y == [[x EXCEPT !.pc = "keyed"] EXCEPT !.phone = phone]
    <2>1. WrapResponse(WrapRequest(x)) = phone
      BY DEF WrapResponse, WrapRequest
    <2>2. proc' = [proc EXCEPT ![p] = y]
      BY <1>5, <2>1 DEF OpsRun
    <2>3. phone \in Wrappers
      <3>1. x.core \in Cores /\ Credential \in Nat
        BY <1>2 DEF Credential
      <3>. QED
        BY <3>1, WrapperIsTyped
    <2>. HIDE DEF phone
    <2>4. /\ typed(y) /\ y.pc = "keyed" /\ y.call = x.call /\ y.n = x.n
          /\ y.input = x.input /\ y.core = x.core /\ y.phone = phone
      BY <1>2, <2>3
    <2>. HIDE DEF y, typed
    <2>5. Opens(p, y)
      BY <1>2, <1>3, <1>5, <2>4 DEF Opens, typed, phone
    <2>6. Runs(p, y)
      BY <2>5 DEF Runs
    <2>. QED
      BY <1>1, <1>2, <2>2, <2>4, <2>5, <2>6, OpStep
  <1>. QED
    BY <1>4, <1>5 DEF Exchange

(* A rekey's container, under new wrappers.                                *)
Rewrapped(x) ==
    [x.input EXCEPT !.phone = x.phone, !.recovery = IF x.call.new THEN Wrapper(x.core, x.n) ELSE @]

LEMMA RewrappedIsTyped ==
    ASSUME NEW p \in Procs, NEW x, Opens(p, x), x.pc = "keyed", x.call.op = "rekey"
    PROVE  /\ Rewrapped(x) \in BoxesOf(x.call.name)
           /\ Rewrapped(x).core = x.input.core /\ Rewrapped(x).doc = x.input.doc
           /\ Rewrapped(x).chunks = x.input.chunks /\ Rewrapped(x).meta = x.input.meta
           /\ Rewrapped(x).phone = Wrapper(x.core, Credential)
           /\ Rewrapped(x).recovery = IF x.call.new THEN Wrapper(x.core, x.n) ELSE x.input.recovery
  <1>. DEFINE b == x.input
              recovery == IF x.call.new THEN Wrapper(x.core, x.n) ELSE b.recovery
              y == [[b EXCEPT !.phone = x.phone] EXCEPT !.recovery = recovery]
  <1>1. b \in BoxesOf(x.call.name) /\ x.core = b.core /\ x.phone = Wrapper(x.core, Credential)
    BY DEF Opens
  <1>2. b \in Boxes /\ b.doc = x.call.name /\ Matches(b) /\ b.core \in Cores /\ b.recovery \in Wrappers
    BY <1>1, FileKinds DEF Boxes
  <1>3. x.n \in Nat /\ Credential \in Nat
    BY DEF Opens, Credential
  <1>4. x.phone \in Wrappers /\ x.phone.core = b.core /\ x.phone.id = Credential
    BY <1>1, <1>2, <1>3, WrapperIsTyped
  <1>5. recovery \in Wrappers /\ recovery.core = b.core
    <2>1. Wrapper(x.core, x.n) \in Wrappers /\ Wrapper(x.core, x.n).core = x.core
      BY <1>1, <1>2, <1>3, WrapperIsTyped
    <2>. QED
      BY <1>1, <1>2, <2>1 DEF Matches
  <1>6. Rewrapped(x) = y
    BY <1>2 DEF Rewrapped, Boxes
  <1>. HIDE DEF b, recovery
  <1>7. /\ y \in Boxes /\ y.doc = b.doc /\ y.core = b.core /\ y.meta = b.meta /\ y.chunks = b.chunks
        /\ y.phone = x.phone /\ y.recovery = recovery
    BY <1>2, <1>4, <1>5 DEF Boxes
  <1>. HIDE DEF y
  <1>8. y \in BoxesOf(x.call.name)
    BY <1>2, <1>4, <1>5, <1>7 DEF BoxesOf, Matches
  <1>. QED
    BY <1>1, <1>6, <1>7, <1>8 DEF b, recovery

LEMMA DecryptedIsTyped ==
    ASSUME NEW b \in Boxes, Decrypts(b)
    PROVE  /\ Joins(b) /\ Content(b) \in Seq(Blocks) /\ Len(Content(b)) = b.core.len
           /\ Len(b.chunks) = ChunkCount(b.core)
           /\ \A i \in 1 .. ChunkCount(b.core) :
                /\ b.chunks[i].sound /\ b.chunks[i] \in Chunks
                /\ Part(b.core, i, Content(b)) = b.chunks[i].data
  <1>1. b.core \in Cores /\ b.chunks \in Seq(Chunks) /\ Len(b.chunks) = ChunkCount(b.core)
    BY DEF Boxes, Decrypts
  <1>2. b.core.len \in Nat
    BY <1>1 DEF Cores
  <1>3. \A i \in 1 .. ChunkCount(b.core) : b.chunks[i] \in Chunks /\ OpensAs(b.core, i, b.chunks[i])
    BY <1>1 DEF Decrypts
  <1>4. Joins(b)
    BY <1>1, <1>3 DEF Joins, OpensAs, Chunks
  <1>5. \A i \in 1 .. ChunkCount(b.core) : b.chunks[i].sound
    BY <1>3 DEF OpensAs
  <1>. QED
    BY <1>1, <1>2, <1>3, <1>4, <1>5, PartsOfTheWhole

LEMMA OutputIsTheTarget ==
    ASSUME NEW p \in Procs, NEW x, Opens(p, x)
    PROVE  Output(x) = Target(x.call) /\ Target(x.call) \in Paths
  <1>1. x.call \in CallsOf(p)
    BY DEF Opens
  <1>2. x.call.name \in Names /\ x.call.op \in {"lock", "unlock", "rekey", "recover"}
    BY <1>1, WhatIsCalled
  <1>3. x.call.op \in {"unlock", "recover"} => x.input.meta.name = x.call.name
    BY FileKinds DEF Opens, Matches
  <1>. QED
    BY <1>2, <1>3, KindsOfPaths DEF Output, Target

LEMMA WriteRuns ==
    ASSUME FilesFit(fs), OpsRun, NEW p \in Procs, Write(p)
    PROVE  /\ OpsRun' /\ Opens(p, proc[p]) /\ proc[p].pc = "keyed"
           /\ \A q \in Procs : q # p => proc'[q] = proc[q]
           /\ proc'[p].call = proc[p].call /\ proc'[p].n = proc[p].n
           /\ Free(Target(proc[p].call))
           /\ \/ /\ proc[p].call.op = "lock" /\ ReadsSource(p, proc'[p])
                 /\ proc'[p].pc = "reading" /\ proc'[p].core = proc[p].core /\ proc'[p].chunks = <<>>
                 /\ proc'[p].source = fs[<<proc[p].call.name, "">>]
              \/ /\ proc[p].call.op = "rekey" /\ HasWritten(p, proc'[p])
                 /\ proc'[p].pc = "checking" /\ proc'[p].temp = Rewrapped(proc[p])
              \/ /\ proc[p].call.op \in {"unlock", "recover"} /\ HasWritten(p, proc'[p])
                 /\ proc'[p].pc = "checking" /\ Decrypts(proc[p].input) /\ OpensMetadata(proc[p].input)
                 /\ proc'[p].temp = Plain(proc[p].call.name, Content(proc[p].input))
  <1>. DEFINE x == proc[p]
  <1>1. x.pc = "keyed" /\ Opens(p, x)
    BY WhatRuns DEF Write, At
  <1>2. /\ x.call \in CallsOf(p) /\ x.n \in Nat /\ x.phone \in Wrappers /\ x.core \in Cores
        /\ x.call.name \in Names /\ x.call.op \in {"lock", "unlock", "rekey", "recover"}
    BY <1>1, WhatIsCalled DEF Opens
  <1>3. Output(x) = Target(x.call) /\ Target(x.call) \in Paths
    BY <1>1, OutputIsTheTarget
  <1>. DEFINE written(temp) ==
                [pc |-> "checking", call |-> x.call, n |-> x.n, temp |-> temp, output |-> Output(x)]
  <1>4. ASSUME NEW temp \in Boxes \cup Plains
        PROVE  /\ written(temp) \in [pc : Writing, call : CallsOf(p), n : Nat,
                                     temp : Boxes \cup Plains, output : Paths]
               /\ written(temp).pc = "checking" /\ written(temp).call = x.call
               /\ written(temp).n = x.n /\ written(temp).temp = temp
               /\ written(temp).output = Target(x.call)
    BY <1>2, <1>3 DEF Writing
  <1>5. CASE /\ x.call.op = "lock" /\ Free(Output(x)) /\ ~Free(Input(x.call))
             /\ proc' = [proc EXCEPT ![p] =
                  [pc |-> "reading", call |-> x.call, n |-> x.n, phone |-> x.phone, core |-> x.core,
                   chunks |-> <<>>, source |-> fs[Input(x.call)]]]
    <2>. DEFINE source == fs[<<x.call.name, "">>]
                y == [pc |-> "reading", call |-> x.call, n |-> x.n, phone |-> x.phone, core |-> x.core,
                      chunks |-> <<>>, source |-> source]
    <2>1. Input(x.call) = <<x.call.name, "">>
      BY <1>5 DEF Input
    <2>2. source \in PlainsOf(x.call.name)
      BY <1>2, <1>5, <2>1, InputFits DEF Free
    <2>3. source \in Plains /\ source.doc = x.call.name
      BY <2>2, FileKinds
    <2>. HIDE DEF source
    <2>4. proc' = [proc EXCEPT ![p] = y]
      BY <1>5, <2>1 DEF source
    <2>5. /\ y \in [pc : {"reading"}, call : CallsOf(p), n : Nat, phone : Wrappers, core : Cores,
                    chunks : Seq(Chunks), source : Plains]
          /\ y.pc = "reading" /\ y.call = x.call /\ y.n = x.n /\ y.phone = x.phone
          /\ y.core = x.core /\ y.chunks = <<>> /\ y.source = source
      BY <1>2, <2>3
    <2>. HIDE DEF y
    <2>6. Len(y.chunks) = 0 /\ 0 < ChunkCount(y.core)
      <3>1. y.core.len \in Nat
        BY <1>2, <2>5 DEF Cores
      <3>2. ChunkCount(y.core) \in Nat \ {0}
        BY <3>1, ChunksCoverTheLength
      <3>. QED
        BY <2>5, <3>2
    <2>7. ReadsSource(p, y)
      BY <1>1, <1>5, <2>3, <2>5, <2>6 DEF ReadsSource, Opens
    <2>8. Runs(p, y)
      BY <2>7 DEF Runs
    <2>. QED
      BY <1>1, <1>3, <1>5, <2>4, <2>5, <2>7, <2>8, OpStep DEF source
  <1>6. CASE /\ x.call.op = "rekey" /\ Free(Output(x)) /\ proc' = [proc EXCEPT ![p] = written(Rewrapped(x))]
    <2>. DEFINE y == written(Rewrapped(x))
    <2>1. Rewrapped(x) \in BoxesOf(x.call.name)
      BY <1>1, <1>6, RewrappedIsTyped
    <2>2. Rewrapped(x) \in Boxes \cup Plains
      BY <2>1 DEF BoxesOf
    <2>3. /\ y \in [pc : Writing, call : CallsOf(p), n : Nat, temp : Boxes \cup Plains, output : Paths]
          /\ y.pc = "checking" /\ y.call = x.call /\ y.n = x.n /\ y.temp = Rewrapped(x)
          /\ y.output = Target(x.call)
      BY <1>4, <2>2
    <2>4. /\ y.temp.phone = Wrapper(y.temp.core, Credential)
          /\ y.call.new => y.temp.recovery = Wrapper(y.temp.core, y.n)
      <3>1. x.core = x.input.core
        BY <1>1, <1>6 DEF Opens
      <3>. QED
        BY <1>1, <1>6, <2>3, <3>1, RewrappedIsTyped
    <2>. HIDE DEF y
    <2>5. HasWritten(p, y)
      BY <1>6, <2>1, <2>3, <2>4 DEF HasWritten, Placing
    <2>6. Runs(p, y)
      BY <2>5 DEF Runs
    <2>7. proc' = [proc EXCEPT ![p] = y]
      BY <1>6 DEF y
    <2>. QED
      BY <1>1, <1>3, <1>6, <2>3, <2>5, <2>6, <2>7, OpStep
  <1>7. CASE /\ x.call.op \in {"unlock", "recover"} /\ OpensMetadata(x.input) /\ Decrypts(x.input)
             /\ Free(Output(x)) /\ proc' = [proc EXCEPT ![p] = written(Plain(x.input.doc, Content(x.input)))]
    <2>. DEFINE temp == Plain(x.call.name, Content(x.input))
                y == written(temp)
    <2>1. x.input \in BoxesOf(x.call.name)
      BY <1>1, <1>7 DEF Opens
    <2>2. x.input \in Boxes /\ x.input.doc = x.call.name
      BY <2>1, FileKinds
    <2>3. Content(x.input) \in Seq(Blocks)
      BY <1>7, <2>2, DecryptedIsTyped
    <2>4. temp \in PlainsOf(x.call.name) /\ temp \in Boxes \cup Plains
      BY <1>2, <2>3, PlainIsTyped DEF PlainsOf
    <2>5. /\ y \in [pc : Writing, call : CallsOf(p), n : Nat, temp : Boxes \cup Plains, output : Paths]
          /\ y.pc = "checking" /\ y.call = x.call /\ y.n = x.n /\ y.temp = temp
          /\ y.output = Target(x.call)
      BY <1>4, <2>4
    <2>. HIDE DEF y, temp
    <2>6. HasWritten(p, y)
      BY <1>7, <2>4, <2>5 DEF HasWritten, Placing
    <2>7. Runs(p, y)
      BY <2>6 DEF Runs
    <2>8. proc' = [proc EXCEPT ![p] = y]
      BY <1>7, <2>2 DEF y, temp
    <2>. QED
      BY <1>1, <1>3, <1>7, <2>5, <2>6, <2>7, <2>8, OpStep DEF temp
  <1>. QED
    <2>1. x.call.op = "rekey" /\ Free(Output(x)) /\ proc' = [proc EXCEPT ![p] =
             written([x.input EXCEPT !.phone = x.phone,
                        !.recovery = IF x.call.new THEN Wrapper(x.core, x.n) ELSE @])] =>
            proc' = [proc EXCEPT ![p] = written(Rewrapped(x))]
      BY DEF Rewrapped
    <2>. QED
      BY <1>5, <1>6, <1>7, <2>1 DEF Write

(* The next chunk, and the container a lock has made with the last one.    *)
NextChunk(x) ==
    SealChunk(x.core, Len(x.chunks) + 1, Part(x.core, Len(x.chunks) + 1, x.source.content))
Locked(x) ==
    Container(x.call.name, x.core, x.call.name, x.phone, x.n, Append(x.chunks, NextChunk(x)))

LEMMA NextChunkIsTyped ==
    ASSUME NEW p \in Procs, NEW x, ReadsSource(p, x),
           Len(x.source.content) >= ((Len(x.chunks) + 1) - 1) * ChunkSize + Take(x.core, Len(x.chunks) + 1)
    PROVE  LET i == Len(x.chunks) + 1
               chunks == Append(x.chunks, NextChunk(x))
           IN /\ x.core \in Cores /\ x.core.len \in Nat /\ i \in 1 .. ChunkCount(x.core)
              /\ chunks \in Seq(Chunks) /\ Len(chunks) = i
              /\ \A j \in 1 .. i : chunks[j] = IF j = i THEN NextChunk(x) ELSE x.chunks[j]
              /\ \A j \in 1 .. i : /\ chunks[j] = SealChunk(x.core, j, chunks[j].data)
                                   /\ Len(chunks[j].data) = Take(x.core, j)
  <1>. DEFINE i == Len(x.chunks) + 1
              new == NextChunk(x)
              chunks == Append(x.chunks, new)
              data == Part(x.core, i, x.source.content)
  <1>1. /\ x.core \in Cores /\ x.core.len \in Nat /\ x.chunks \in Seq(Chunks)
        /\ x.source.content \in Seq(Blocks)
    BY DEF ReadsSource, Cores, Plains
  <1>2. Len(x.chunks) \in Nat /\ Len(x.chunks) < ChunkCount(x.core) /\ ChunkCount(x.core) \in Nat
    BY <1>1, ChunksCoverTheLength DEF ReadsSource
  <1>3. i \in 1 .. ChunkCount(x.core) /\ i \in Nat
    BY <1>2
  <1>4. data \in Seq(Blocks) /\ Len(data) = Take(x.core, i)
    <2>1. Len(x.source.content) >= (i - 1) * ChunkSize + Take(x.core, i)
      OBVIOUS
    <2>. HIDE DEF i
    <2>. QED
      BY <1>1, <1>3, <2>1, PartLies
  <1>5. new = SealChunk(x.core, i, data) /\ new \in Chunks /\ new.data = data
    <2>1. new = SealChunk(x.core, i, data)
      BY DEF NextChunk
    <2>. HIDE DEF i, data, new
    <2>2. SealChunk(x.core, i, data) \in Chunks
      BY <1>1, <1>3, <1>4, SealedChunk
    <2>. QED
      BY <2>1, <2>2 DEF SealChunk
  <1>. HIDE DEF new, data
  <1>6. /\ chunks \in Seq(Chunks) /\ Len(chunks) = i
        /\ \A j \in 1 .. i : chunks[j] = IF j = i THEN new ELSE x.chunks[j]
    BY <1>1, <1>2, <1>5
  <1>. HIDE DEF chunks
  <1>7. ASSUME NEW j \in 1 .. i
        PROVE  chunks[j] = SealChunk(x.core, j, chunks[j].data) /\ Len(chunks[j].data) = Take(x.core, j)
    <2>1. CASE j = i
      BY <1>4, <1>5, <1>6, <2>1
    <2>2. CASE j # i
      <3>1. j \in 1 .. Len(x.chunks) /\ chunks[j] = x.chunks[j]
        BY <1>2, <1>6, <2>2
      <3>. QED
        BY <3>1 DEF ReadsSource
    <2>. QED
      BY <2>1, <2>2
  <1>. QED
    BY <1>1, <1>3, <1>6, <1>7 DEF chunks, new

LEMMA LockedIsTyped ==
    ASSUME NEW p \in Procs, NEW x, ReadsSource(p, x),
           Len(x.source.content) >= ((Len(x.chunks) + 1) - 1) * ChunkSize + Take(x.core, Len(x.chunks) + 1),
           Len(x.chunks) + 1 = ChunkCount(x.core)
    PROVE  /\ Locked(x) \in BoxesOf(x.call.name) /\ Verified(Locked(x)) /\ Joins(Locked(x))
           /\ Locked(x).core = x.core /\ Locked(x).chunks = Append(x.chunks, NextChunk(x))
           /\ Locked(x).phone = Wrapper(x.core, Credential)
           /\ Locked(x).recovery = Wrapper(x.core, x.n)
  <1>. DEFINE i == Len(x.chunks) + 1
              chunks == Append(x.chunks, NextChunk(x))
              b == Locked(x)
  <1>1. /\ x.core \in Cores /\ x.core.len \in Nat /\ i \in 1 .. ChunkCount(x.core)
        /\ chunks \in Seq(Chunks) /\ Len(chunks) = i
        /\ \A j \in 1 .. i : /\ chunks[j] = SealChunk(x.core, j, chunks[j].data)
                             /\ Len(chunks[j].data) = Take(x.core, j)
    BY NextChunkIsTyped
  <1>. HIDE DEF chunks
  <1>2. /\ x.n \in Nat /\ x.call.name \in Names /\ x.phone = Wrapper(x.core, Credential)
    BY WhatIsCalled DEF ReadsSource
  <1>3. /\ Wrapper(x.core, Credential) \in Wrappers /\ Wrapper(x.core, Credential).core = x.core
        /\ Wrapper(x.core, Credential).id = Credential
    BY <1>1, WrapperIsTyped DEF Credential
  <1>4. b = Container(x.call.name, x.core, x.call.name, x.phone, x.n, chunks)
    BY DEF Locked, chunks
  <1>. HIDE DEF b
  <1>5. b \in BoxesOf(x.call.name)
    BY <1>1, <1>2, <1>3, <1>4, ContainerIsTyped
  <1>6. /\ b.kind = "container" /\ b.core = x.core /\ b.chunks = chunks /\ b.phone = x.phone
        /\ b.recovery = Wrapper(x.core, x.n) /\ b.meta = Metadata(x.core, x.call.name)
    BY <1>4 DEF Container
  <1>7. ASSUME NEW j \in 1 .. i PROVE OpensAs(x.core, j, chunks[j]) /\ chunks[j].data \in Seq(Blocks)
    <2>1. /\ j \in Nat /\ chunks[j] = SealChunk(x.core, j, chunks[j].data)
          /\ Len(chunks[j].data) = Take(x.core, j)
      BY <1>1
    <2>2. chunks[j].data \in Seq(Blocks)
      <3>1. chunks[j] \in Chunks
        BY <1>1
      <3>. QED
        BY <3>1 DEF Chunks
    <2>3. OpensAs(x.core, j, SealChunk(x.core, j, chunks[j].data))
      BY <1>1, <2>1, <2>2, SealedChunk
    <2>. QED
      BY <2>1, <2>2, <2>3
  <1>8. Decrypts(b) /\ Joins(b)
    BY <1>1, <1>6, <1>7 DEF Decrypts, Joins
  <1>9. OpensMetadata(b)
    BY <1>6 DEF OpensMetadata, Metadata
  <1>. QED
    BY <1>2, <1>5, <1>6, <1>8, <1>9 DEF Verified, b, chunks

(* A lock whose chunks are those of its source has sealed its source.      *)
LEMMA SealedIsTheSource ==
    ASSUME NEW p \in Procs, NEW x, ReadsSource(p, x),
           Len(x.source.content) >= ((Len(x.chunks) + 1) - 1) * ChunkSize + Take(x.core, Len(x.chunks) + 1),
           Len(x.chunks) + 1 = ChunkCount(x.core), Len(x.source.content) = x.core.len,
           \A i \in 1 .. Len(x.chunks) : x.chunks[i].data = Part(x.core, i, x.source.content)
    PROVE  Content(Locked(x)) = x.source.content
  <1>. PICK b : b = Locked(x)
    OBVIOUS
  <1>. DEFINE i == Len(x.chunks) + 1
              chunks == Append(x.chunks, NextChunk(x))
  <1>1. Joins(b) /\ b.core = x.core /\ b.chunks = chunks
    BY LockedIsTyped
  <1>2. /\ x.core \in Cores /\ x.core.len \in Nat /\ i \in 1 .. ChunkCount(x.core)
        /\ chunks \in Seq(Chunks) /\ Len(chunks) = i
        /\ \A j \in 1 .. i : chunks[j] = IF j = i THEN NextChunk(x) ELSE x.chunks[j]
    BY NextChunkIsTyped
  <1>3. Len(x.chunks) \in Nat /\ i = ChunkCount(x.core) /\ x.source.content \in Seq(Blocks)
    <2>1. x.chunks \in Seq(Chunks) /\ x.source \in Plains
      BY DEF ReadsSource
    <2>. QED
      BY <2>1 DEF Plains
  <1>. HIDE DEF chunks
  <1>4. ASSUME NEW j \in 1 .. ChunkCount(x.core)
        PROVE  b.chunks[j].data = Part(x.core, j, x.source.content)
    <2>1. CASE j = i
      <3>1. b.chunks[j] = NextChunk(x)
        BY <1>1, <1>2, <1>3, <2>1
      <3>. QED
        BY <2>1, <3>1 DEF NextChunk, SealChunk
    <2>2. CASE j # i
      <3>1. b.chunks[j] = x.chunks[j] /\ j \in 1 .. Len(x.chunks)
        BY <1>1, <1>2, <1>3, <2>2
      <3>. QED
        BY <3>1
    <2>. QED
      BY <2>1, <2>2
  <1>5. b.core.len \in Nat /\ Joins(b) /\ x.source.content \in Seq(Blocks) /\ Len(x.source.content) = b.core.len
    BY <1>1, <1>2, <1>3
  <1>6. \A j \in 1 .. ChunkCount(b.core) : b.chunks[j].data = Part(b.core, j, x.source.content)
    BY <1>1, <1>4
  <1>. QED
    BY <1>5, <1>6, WholeOfTheParts

LEMMA ReadChunkRuns ==
    ASSUME OpsRun, NEW p \in Procs, ReadChunk(p)
    PROVE  /\ OpsRun' /\ ReadsSource(p, proc[p])
           /\ \A q \in Procs : q # p => proc'[q] = proc[q]
           /\ proc'[p].call = proc[p].call /\ proc'[p].n = proc[p].n
           /\ Len(proc[p].source.content) >=
                ((Len(proc[p].chunks) + 1) - 1) * ChunkSize + Take(proc[p].core, Len(proc[p].chunks) + 1)
           /\ \/ /\ ReadsSource(p, proc'[p]) /\ proc'[p].pc = "reading"
                 /\ proc'[p].core = proc[p].core /\ proc'[p].source = proc[p].source
                 /\ proc'[p].chunks = Append(proc[p].chunks, NextChunk(proc[p]))
              \/ /\ HasWritten(p, proc'[p]) /\ proc'[p].pc = "checking"
                 /\ proc'[p].temp = Locked(proc[p])
                 /\ Len(proc[p].chunks) + 1 = ChunkCount(proc[p].core)
                 /\ Len(proc[p].source.content) = proc[p].core.len
  <1>. DEFINE x == proc[p]
              i == Len(x.chunks) + 1
              chunks == Append(x.chunks, NextChunk(x))
  <1>1. ReadsSource(p, x)
    BY WhatRuns DEF ReadChunk, At
  <1>2. Len(x.source.content) >= (i - 1) * ChunkSize + Take(x.core, i)
    BY DEF ReadChunk
  <1>3. /\ x.core \in Cores /\ i \in 1 .. ChunkCount(x.core) /\ chunks \in Seq(Chunks) /\ Len(chunks) = i
        /\ \A j \in 1 .. i : /\ chunks[j] = SealChunk(x.core, j, chunks[j].data)
                             /\ Len(chunks[j].data) = Take(x.core, j)
    BY <1>1, <1>2, NextChunkIsTyped
  <1>4. CASE i < ChunkCount(x.core) /\ proc' = [proc EXCEPT ![p].chunks = chunks]
    <2>. DEFINE y == [x EXCEPT !.chunks = chunks]
    <2>1. proc' = [proc EXCEPT ![p] = y]
      BY <1>4 DEF OpsRun
    <2>. HIDE DEF chunks
    <2>2. /\ y \in [pc : {"reading"}, call : CallsOf(p), n : Nat, phone : Wrappers, core : Cores,
                    chunks : Seq(Chunks), source : Plains]
          /\ y.pc = "reading" /\ y.call = x.call /\ y.n = x.n /\ y.phone = x.phone
          /\ y.core = x.core /\ y.chunks = chunks /\ y.source = x.source
      BY <1>1, <1>3 DEF ReadsSource
    <2>. HIDE DEF y
    <2>3. ReadsSource(p, y)
      BY <1>1, <1>3, <1>4, <2>2 DEF ReadsSource
    <2>4. Runs(p, y)
      BY <2>3 DEF Runs
    <2>. QED
      BY <1>1, <1>2, <2>1, <2>2, <2>3, <2>4, OpStep DEF chunks
  <1>5. CASE /\ i = ChunkCount(x.core) /\ Len(x.source.content) = x.core.len
             /\ proc' = [proc EXCEPT ![p] =
                  [pc |-> "checking", call |-> x.call, n |-> x.n, output |-> Output(x), temp |-> Locked(x)]]
    <2>. DEFINE y == [pc |-> "checking", call |-> x.call, n |-> x.n, output |-> Output(x), temp |-> Locked(x)]
    <2>1. /\ Locked(x) \in BoxesOf(x.call.name) /\ Verified(Locked(x)) /\ Locked(x).core = x.core
          /\ Locked(x).phone = Wrapper(x.core, Credential)
          /\ Locked(x).recovery = Wrapper(x.core, x.n)
      BY <1>1, <1>2, <1>5, LockedIsTyped
    <2>2. x.call \in CallsOf(p) /\ x.n \in Nat /\ x.call.op = "lock" /\ x.core.id = x.n
      BY <1>1 DEF ReadsSource
    <2>3. Output(x) = Target(x.call) /\ Target(x.call) \in Paths
      BY <2>2, WhatIsCalled, KindsOfPaths DEF Output, Target
    <2>4. /\ y \in [pc : Writing, call : CallsOf(p), n : Nat, temp : Boxes \cup Plains, output : Paths]
          /\ y.pc = "checking" /\ y.call = x.call /\ y.n = x.n /\ y.temp = Locked(x)
          /\ y.output = Target(x.call)
      <3>1. Locked(x) \in Boxes \cup Plains
        BY <2>1 DEF BoxesOf
      <3>. QED
        BY <2>2, <2>3, <3>1 DEF Writing
    <2>5. proc' = [proc EXCEPT ![p] = y]
      BY <1>5
    <2>. HIDE DEF y
    <2>6. HasWritten(p, y)
      BY <2>1, <2>2, <2>4 DEF HasWritten, Placing
    <2>7. Runs(p, y)
      BY <2>6 DEF Runs
    <2>. QED
      BY <1>1, <1>2, <1>5, <2>4, <2>5, <2>6, <2>7, OpStep
  <1>. QED
    <2>1. x.source.doc = x.call.name
      BY <1>1 DEF ReadsSource
    <2>2. chunks = Append(x.chunks, SealChunk(x.core, i, Part(x.core, i, x.source.content)))
      BY DEF NextChunk
    <2>. QED
      BY <1>4, <1>5, <2>1, <2>2 DEF ReadChunk, FitsHeader, Locked

(* Check, Publish, Verify, SaveCode, SetAside, PutInPlace and              *)
(* RemoveSuperseded go on with the output they have.                       *)
LEMMA OutputRuns ==
    ASSUME OpsRun, NEW p \in Procs, NEW pc \in Writing, proc[p].pc \in Writing, Goes(p, pc),
           pc = "verifying" => proc[p].call.op \in {"lock", "rekey"},
           pc = "saved" => proc[p].call.op = "lock",
           pc \in Placing => proc[p].call.op = "rekey",
           pc = "rekeyed" => proc[p].call.new
    PROVE  /\ OpsRun' /\ HasWritten(p, proc[p]) /\ HasWritten(p, proc'[p])
           /\ \A q \in Procs : q # p => proc'[q] = proc[q]
           /\ proc'[p].pc = pc /\ proc'[p].call = proc[p].call /\ proc'[p].n = proc[p].n
           /\ proc'[p].temp = proc[p].temp
  <1>1. HasWritten(p, proc[p])
    BY WhatRuns
  <1>. DEFINE y == [proc[p] EXCEPT !.pc = pc]
  <1>2. proc' = [proc EXCEPT ![p] = y]
    BY GoesIs
  <1>3. /\ HasWritten(p, y) /\ y.pc = pc /\ y.call = proc[p].call /\ y.n = proc[p].n
        /\ y.temp = proc[p].temp
    BY <1>1, WritingGoesOn
  <1>. HIDE DEF y
  <1>4. Runs(p, y)
    BY <1>3 DEF Runs
  <1>. QED
    BY <1>1, <1>2, <1>3, <1>4, OpStep

(* What a save may do to the lock that is reading.                         *)
LEMMA SaveRuns ==
    ASSUME FilesFit(fs), OpsRun, NEW x, ReadsSource("agent", x), NEW content \in Seq(Blocks)
    PROVE  LET y == [x EXCEPT !.source.content = content] IN
           /\ ReadsSource("agent", y) /\ y.pc = "reading" /\ y.call = x.call /\ y.n = x.n
           /\ y.core = x.core /\ y.chunks = x.chunks /\ y.source.content = content
           /\ y.source.doc = x.source.doc
           /\ y = [x EXCEPT !.source = [x.source EXCEPT !.content = content]]
  <1>. DEFINE source == [x.source EXCEPT !.content = content]
              y == [x EXCEPT !.source = source]
  <1>1. x.source \in Plains /\ source \in Plains /\ source.content = content /\ source.doc = x.source.doc
    BY DEF ReadsSource, Plains
  <1>2. [x EXCEPT !.source.content = content] = y
    BY DEF ReadsSource
  <1>. HIDE DEF source
  <1>3. /\ y \in [pc : {"reading"}, call : CallsOf("agent"), n : Nat, phone : Wrappers, core : Cores,
                  chunks : Seq(Chunks), source : Plains]
        /\ y.pc = "reading" /\ y.call = x.call /\ y.n = x.n /\ y.phone = x.phone
        /\ y.core = x.core /\ y.chunks = x.chunks /\ y.source = source
    BY <1>1 DEF ReadsSource
  <1>. HIDE DEF y
  <1>4. ReadsSource("agent", y)
    BY <1>1, <1>3 DEF ReadsSource
  <1>. QED
    BY <1>1, <1>2, <1>3, <1>4 DEF y, source

(* What a save does, whether or not a lock that reads the file sees it.    *)
SavedAs(n, content) ==
    /\ fs' = [fs EXCEPT ![<<n, "">>] = Plain(n, content)]
    /\ saved' = [saved EXCEPT ![n] = Append(saved[n], content)]
    /\ \/ /\ proc' = proc
          /\ raced' = raced \cup {n}
             \/ (raced' = raced /\ ~(/\ proc["agent"] # Idle /\ proc["agent"].call.op = "lock"
                                     /\ proc["agent"].call.name = n
                                     /\ proc["agent"].pc \notin {"asking", "keyed"}))
       \/ /\ proc["agent"].pc = "reading" /\ proc["agent"].call.op = "lock"
          /\ proc["agent"].call.name = n /\ proc["agent"].source = fs[<<n, "">>]
          /\ proc' = [proc EXCEPT !["agent"] =
                [proc["agent"] EXCEPT !.source = [proc["agent"].source EXCEPT !.content = content]]]
          /\ raced' = raced \cup {n} \/ (raced' = raced /\ Len(content) # proc["agent"].core.len)

LEMMA SaveIs ==
    ASSUME FilesFit(fs), OpsRun, HistoryIsTyped, NEW n \in Names, Save(n)
    PROVE  fs[<<n, "">>] \in PlainsOf(n) /\ \E content \in Seq(Blocks) : SavedAs(n, content)
  <1>. DEFINE old == fs[<<n, "">>]
              x == proc["agent"]
              locking == x.pc # "idle" /\ x.call.op = "lock" /\ x.call.name = n
              length == Len(old.content)
              text(len) == [i \in 1 .. len |-> <<saves', i>>]
              seen(inPlace) == inPlace /\ locking /\ x.pc = "reading" /\ x.source = old
  <1>1. old \in PlainsOf(n)
    <2>1. old.kind = "plain"
      BY DEF Save
    <2>. QED
      BY <2>1, InputFits DEF Free
  <1>2. old.doc = n /\ length \in Nat
    <2>. HIDE DEF old
    <2>1. old.doc = n /\ old.content \in Seq(Blocks)
      BY <1>1, FileKinds
    <2>. QED
      BY <2>1
  <1>. HIDE DEF length
  <1>3. PICK len \in (IF length = 0 THEN 0 ELSE length - 1) .. length + 1, inPlace \in BOOLEAN :
          /\ fs' = [fs EXCEPT ![<<n, "">>] = Plain(old.doc, text(len))]
          /\ saved' = [saved EXCEPT ![old.doc] = Append(@, text(len))]
          /\ proc' = IF seen(inPlace) THEN [proc EXCEPT !["agent"].source.content = text(len)] ELSE proc
          /\ raced' = IF locking /\ x.pc \notin {"asking", "keyed"} /\ ~(seen(inPlace) /\ len # x.core.len)
                      THEN raced \cup {old.doc} ELSE raced
    BY Zenon DEF Save, length
  <1>4. len \in Nat
    <2>. DEFINE least == IF length = 0 THEN 0 ELSE length - 1
    <2>0. length \in Nat
      BY <1>2
    <2>1. least \in Nat
      BY ONLY <2>0
    <2>2. len \in least .. length + 1
      OBVIOUS
    <2>. HIDE DEF least
    <2>. QED
      BY ONLY <2>0, <2>1, <2>2
  <1>5. text(len) \in Seq(Blocks) /\ Len(text(len)) = len
    <2>1. saves' \in Nat
      <3>1. saves' = saves + 1
        BY Zenon DEF Save
      <3>. QED
        BY <3>1 DEF HistoryIsTyped
    <2>2. \A i \in 1 .. len : <<saves', i>> \in Blocks
      BY <2>1, <1>4 DEF Blocks
    <2>. HIDE DEF Save
    <2>. QED
      BY <1>4, <2>2
  <1>. DEFINE content == text(len)
  <1>. HIDE DEF text
  <1>6. /\ fs' = [fs EXCEPT ![<<n, "">>] = Plain(n, content)]
        /\ saved' = [saved EXCEPT ![n] = Append(saved[n], content)]
    <2>1. [saved EXCEPT ![n] = Append(@, content)] = [saved EXCEPT ![n] = Append(saved[n], content)]
      BY DEF HistoryIsTyped
    <2>. QED
      BY <1>2, <1>3, <2>1
  <1>7. x.pc = "idle" <=> x = Idle
    BY WhatRuns DEF Procs
  <1>8. CASE ~seen(inPlace)
    <2>1. proc' = proc
      BY <1>3, <1>8
    <2>2. raced' = raced \cup {n} \/ (raced' = raced /\ ~(locking /\ x.pc \notin {"asking", "keyed"}))
      BY <1>2, <1>3, <1>8
    <2>. QED
      BY <1>1, <1>5, <1>6, <1>7, <2>1, <2>2 DEF SavedAs
  <1>9. CASE seen(inPlace)
    <2>1. x.pc = "reading" /\ x.call.op = "lock" /\ x.call.name = n /\ x.source = old
      BY <1>9
    <2>2. proc' = [proc EXCEPT !["agent"].source.content = content]
      BY <1>3, <1>9
    <2>3. ReadsSource("agent", x)
      BY <2>1, WhatRuns DEF Procs
    <2>4. [x EXCEPT !.source.content = content] = [x EXCEPT !.source = [x.source EXCEPT !.content = content]]
      BY <1>5, <2>3, SaveRuns, Zenon
    <2>5. proc' = [proc EXCEPT !["agent"] = [x EXCEPT !.source.content = content]]
      BY <2>2 DEF OpsRun, Procs
    <2>6. raced' = raced \cup {n} \/ (raced' = raced /\ Len(content) # x.core.len)
      BY <1>2, <1>3, <1>5, <1>9, <2>1
    <2>. QED
      BY <1>1, <1>5, <1>6, <2>1, <2>4, <2>5, <2>6 DEF SavedAs
  <1>. QED
    BY <1>8, <1>9

LEMMA SavedRuns ==
    ASSUME FilesFit(fs), OpsRun, NEW n \in Names, NEW content \in Seq(Blocks), SavedAs(n, content)
    PROVE  /\ FilesFit(fs') /\ OpsRun'
           /\ proc'["cli"] = proc["cli"]
           /\ \A p \in Procs : \/ proc'[p] = proc[p]
                               \/ /\ p = "agent" /\ ReadsSource(p, proc[p]) /\ ReadsSource(p, proc'[p])
                                  /\ proc'[p].pc = "reading" /\ proc[p].pc = "reading"
                                  /\ proc'[p].call = proc[p].call /\ proc'[p].n = proc[p].n
                                  /\ proc'[p].core = proc[p].core /\ proc'[p].chunks = proc[p].chunks
                                  /\ proc[p].call.name = n /\ proc'[p].source.content = content
  <1>1. FilesFit(fs')
    <2>1. Plain(n, content) \in Fits(<<n, "">>) /\ <<n, "">> \in Paths
      <3>1. Plain(n, content) \in PlainsOf(n) /\ <<n, "">> \in Paths
        BY PlainIsTyped, KindsOfPaths
      <3>2. Fits(<<n, "">>) = {Nothing} \cup PlainsOf(n)
        BY WhatFits
      <3>. QED
        BY <3>1, <3>2
    <2>2. FilesFit([fs EXCEPT ![<<n, "">>] = Plain(n, content)])
      BY <2>1, FileStep
    <2>. QED
      BY <2>2 DEF SavedAs
  <1>2. CASE proc' = proc
    BY <1>1, <1>2 DEF OpsRun
  <1>3. CASE /\ proc["agent"].pc = "reading" /\ proc["agent"].call.name = n
             /\ proc' = [proc EXCEPT !["agent"] =
                [proc["agent"] EXCEPT !.source = [proc["agent"].source EXCEPT !.content = content]]]
    <2>. DEFINE x == proc["agent"]
                y == [x EXCEPT !.source = [x.source EXCEPT !.content = content]]
    <2>0. "agent" \in Procs /\ "cli" \in Procs /\ "agent" # "cli" /\ Procs = {"agent", "cli"}
      BY DEF Procs
    <2>1. ReadsSource("agent", x)
      BY <1>3, <2>0, WhatRuns
    <2>2. /\ ReadsSource("agent", y) /\ y.pc = "reading" /\ y.call = x.call /\ y.n = x.n
          /\ y.core = x.core /\ y.chunks = x.chunks /\ y.source.content = content
      BY <1>1, <2>1, SaveRuns
    <2>3. Runs("agent", y)
      BY <2>2 DEF Runs
    <2>4. proc' = [proc EXCEPT !["agent"] = y]
      BY <1>3
    <2>. HIDE DEF y
    <2>5. proc'["agent"] = y /\ proc'["cli"] = proc["cli"] /\ OpsRun'
      BY <2>0, <2>3, <2>4, OpStep
    <2>6. y.pc = "reading" /\ y.call = x.call /\ y.n = x.n /\ ReadsSource("agent", y)
          /\ y.core = x.core /\ y.chunks = x.chunks /\ y.source.content = content
      BY <2>2
    <2>7. x.pc = "reading" /\ x.call.name = n
      BY <1>3
    <2>. HIDE DEF x
    <2>. QED
      BY <1>1, <2>0, <2>1, <2>5, <2>6, <2>7 DEF x
  <1>. QED
    BY <1>2, <1>3 DEF SavedAs

LEMMA NumbersKept ==
    ASSUME CallsAreNumbered, calls' = calls, inbox' \subseteq inbox,
           \A p \in Procs : \/ proc'[p] = Idle
                            \/ /\ proc[p] # Idle
                               /\ proc'[p].n = proc[p].n /\ proc'[p].call = proc[p].call
    PROVE  CallsAreNumbered'
  <1>1. "agent" \in Procs
    BY DEF Procs
  <1>. QED
    BY <1>1 DEF CallsAreNumbered

LEMMA HistoryKept ==
    ASSUME HistoryIsTyped, calls \in Nat, calls' \in Nat, calls <= calls', UNCHANGED history,
           unsaved' \subseteq 1 .. calls', done' \subseteq 1 .. calls'
    PROVE  HistoryIsTyped'
  BY DEF HistoryIsTyped, history

LEMMA BatchKept ==
    ASSUME BatchIsTyped, calls \in Nat, calls' \in Nat, calls <= calls', done \subseteq done', cli' = cli
    PROVE  BatchIsTyped'
  <1>1. CASE cli = Idle
    BY <1>1 DEF BatchIsTyped
  <1>2. CASE BatchCounts(cli)
    <2>1. 1 .. calls \subseteq 1 .. calls'
      OBVIOUS
    <2>2. cli.ids \in SUBSET (1 .. calls')
      BY <1>2, <2>1 DEF BatchCounts
    <2>3. /\ cli \in [pc : {"next", "waiting", "reported"}, batch : Batches, at : Nat \ {0}, failed : Nat,
              id : Nat, ids : SUBSET (1 .. calls'), exit : {"none", "granted", "denied", "unavailable"},
              up : BOOLEAN, conn : Nat]
      BY <1>2, <2>2 DEF BatchCounts
    <2>4. BatchCounts(cli)'
      BY <1>2, <2>3 DEF BatchCounts, Asked
    <2>. QED
      BY <2>4 DEF BatchIsTyped
  <1>. QED
    BY <1>1, <1>2 DEF BatchIsTyped

(* The batch hears of the call it waits for.                               *)
LEMMA FailedCounts ==
    ASSUME NEW b, BatchCounts(b), b.pc = "waiting" \/ (b.pc = "next" /\ b.at <= Len(b.batch.targets))
    PROVE  BatchCounts(Failed(b)) /\ Failed(b).pc = "next"
           /\ BatchCounts([Failed(b) EXCEPT !.up = FALSE])
  <1>. DEFINE y == [[[b EXCEPT !.pc = "next"] EXCEPT !.at = b.at + 1] EXCEPT !.failed = b.failed + 1]
              z == [y EXCEPT !.up = FALSE]
              typed(c) == c \in [pc : {"next", "waiting", "reported"}, batch : Batches, at : Nat \ {0},
                failed : Nat, id : Nat, ids : SUBSET (1 .. calls),
                exit : {"none", "granted", "denied", "unavailable"}, up : BOOLEAN, conn : Nat]
  <1>1. typed(b) /\ IsFiniteSet(b.ids) /\ b.at <= Len(b.batch.targets)
    BY DEF BatchCounts
  <1>2. b.at + 1 \in Nat \ {0} /\ b.failed + 1 \in Nat \ {0}
    BY <1>1
  <1>3. Failed(b) = y
    BY <1>1 DEF Failed
  <1>4. typed(y) /\ y.pc = "next" /\ y.at = b.at + 1 /\ y.failed = b.failed + 1 /\ y.ids = b.ids
        /\ y.batch = b.batch /\ y.exit = "none"
    BY <1>1, <1>2 DEF BatchCounts
  <1>5. typed(z) /\ z.pc = "next" /\ z.at = b.at + 1 /\ z.failed = b.failed + 1 /\ z.ids = b.ids
        /\ z.batch = b.batch /\ z.exit = "none"
    BY <1>4
  <1>6. b.at + 1 <= Len(b.batch.targets) + 1 /\ b.failed + 1 # 0
    <2>1. Len(b.batch.targets) \in Nat
      <3>1. b.batch \in Batches
        BY <1>1
      <3>. QED
        BY <3>1, Parameters
    <2>. QED
      BY <1>1, <1>2, <2>1
  <1>. HIDE DEF y, z
  <1>7. BatchCounts(y)
    BY <1>1, <1>4, <1>6 DEF BatchCounts
  <1>8. BatchCounts(z)
    BY <1>1, <1>5, <1>6 DEF BatchCounts
  <1>. QED
    BY <1>3, <1>4, <1>7, <1>8 DEF z

LEMMA RepliedKept ==
    ASSUME BatchIsTyped, calls \in Nat, calls' = calls, NEW id,
           NEW exit \in {"granted", "denied", "unavailable"}, done \subseteq done',
           exit = "granted" => id \in done', cli' = Replied(id, exit)
    PROVE  BatchIsTyped'
  <1>1. CASE cli' = cli
    BY <1>1, BatchKept
  <1>2. CASE cli.pc = "waiting" /\ cli.id = id /\ cli' = Heard(exit)
    <2>1. BatchCounts(cli)
      BY <1>2 DEF BatchIsTyped, Idle
    <2>. DEFINE typed(c) == c \in [pc : {"next", "waiting", "reported"}, batch : Batches, at : Nat \ {0},
                failed : Nat, id : Nat, ids : SUBSET (1 .. calls),
                exit : {"none", "granted", "denied", "unavailable"}, up : BOOLEAN, conn : Nat]
    <2>2. /\ typed(cli) /\ IsFiniteSet(cli.ids) /\ cli.at <= Len(cli.batch.targets) /\ cli.id \in cli.ids
          /\ cli.failed = 0 /\ cli.exit # "denied" =>
               /\ Cardinality(cli.ids) = cli.at
               /\ \A i \in cli.ids : i \in done \/ i = cli.id
      BY <1>2, <2>1 DEF BatchCounts, Asked
    <2>3. Len(cli.batch.targets) \in Nat
      <3>1. cli.batch \in Batches
        BY <2>2
      <3>. QED
        BY <3>1, Parameters
    <2>4. CASE exit = "granted"
      <3>. DEFINE y == [[cli EXCEPT !.pc = "next"] EXCEPT !.at = cli.at + 1]
      <3>1. cli' = y
        BY <1>2, <2>2, <2>4 DEF Heard
      <3>2. /\ typed(y) /\ y.pc = "next" /\ y.at = cli.at + 1 /\ y.ids = cli.ids /\ y.failed = cli.failed
            /\ y.batch = cli.batch /\ y.exit = cli.exit /\ y.id = cli.id
        <4>1. cli.at + 1 \in Nat \ {0} /\ typed(cli)
          BY <2>2
        <4>. QED
          BY ONLY <4>1
      <3>. HIDE DEF y
      <3>3. /\ typed(cli') /\ cli'.pc = "next" /\ cli'.at - 1 = cli.at /\ cli'.ids = cli.ids
            /\ cli'.failed = cli.failed /\ cli'.batch = cli.batch /\ cli'.exit = cli.exit
            /\ cli'.at <= Len(cli.batch.targets) + 1
        BY <2>2, <2>3, <3>1, <3>2
      <3>4. cli.failed = 0 /\ cli.exit # "denied" => \A i \in cli.ids : i \in done'
        BY <1>2, <2>2, <2>4
      <3>5. cli.exit = "none"
        BY <1>2, <2>1 DEF BatchCounts
      <3>6. BatchCounts(cli)'
        BY <2>2, <3>3, <3>4, <3>5 DEF BatchCounts, Asked
      <3>. QED
        BY <3>6 DEF BatchIsTyped
    <2>5. CASE exit = "denied"
      <3>. DEFINE y == [[cli EXCEPT !.pc = "reported"] EXCEPT !.exit = "denied"]
      <3>1. cli' = y
        BY <1>2, <2>2, <2>5 DEF Heard
      <3>2. /\ typed(y) /\ y.pc = "reported" /\ y.at = cli.at /\ y.ids = cli.ids /\ y.failed = cli.failed
            /\ y.batch = cli.batch /\ y.exit = "denied"
        BY <2>2
      <3>3. cli.at <= Len(cli.batch.targets) + 1
        BY <2>2, <2>3
      <3>. HIDE DEF y
      <3>4. BatchCounts(cli)'
        BY <2>2, <3>1, <3>2, <3>3 DEF BatchCounts
      <3>. QED
        BY <3>4 DEF BatchIsTyped
    <2>6. CASE exit = "unavailable"
      <3>1. cli' = Failed(cli)
        BY <1>2, <2>6 DEF Heard
      <3>2. BatchCounts(Failed(cli))
        BY <1>2, <2>1, FailedCounts
      <3>3. IsFiniteSet(Failed(cli).ids) /\ Failed(cli).failed # 0
        <4>1. Failed(cli).failed = cli.failed + 1
          BY <2>2 DEF Failed
        <4>. QED
          BY <2>2, <3>2, <4>1 DEF BatchCounts
      <3>4. BatchCounts(cli)'
        BY <3>1, <3>2, <3>3 DEF BatchCounts
      <3>. QED
        BY <3>4 DEF BatchIsTyped
    <2>. QED
      BY <2>4, <2>5, <2>6
  <1>. QED
    BY <1>1, <1>2 DEF Replied

LEMMA EndKeeps ==
    ASSUME Typed, NEW p \in Procs, proc[p] # Idle,
           NEW exit \in {"granted", "denied", "unavailable"}, Return(p, exit), FilesFit(fs'),
           UNCHANGED <<inbox, calls, history>>, unsaved' \subseteq 1 .. calls
    PROVE  Typed'
  <1>. USE DEF Typed
  <1>1. calls \in Nat /\ proc[p].n \in 1 .. calls
    BY DEF CallsAreNumbered
  <1>2. OpsRun' /\ proc'[p] = Idle /\ \A q \in Procs : q # p => proc'[q] = proc[q]
    BY EndedRuns DEF Return
  <1>3. CallsAreNumbered'
    <2>1. \A q \in Procs : \/ proc'[q] = Idle
                           \/ /\ proc[q] # Idle
                              /\ proc'[q].n = proc[q].n /\ proc'[q].call = proc[q].call
      BY <1>2
    <2>. QED
      BY <2>1, NumbersKept
  <1>4. done \subseteq done' /\ done' \subseteq 1 .. calls /\ (exit = "granted" => proc[p].n \in done')
    BY <1>1 DEF HistoryIsTyped, Return
  <1>5. HistoryIsTyped'
    BY <1>1, <1>4, HistoryKept
  <1>6. BatchIsTyped'
    <2>1. CASE cli' = cli
      BY <1>1, <1>4, <2>1, BatchKept
    <2>2. CASE cli' = Replied(proc[p].n, exit)
      BY <1>1, <1>4, <2>2, RepliedKept
    <2>. QED
      BY <2>1, <2>2 DEF Return
  <1>. QED
    BY <1>2, <1>3, <1>5, <1>6

LEMMA GoOnKeeps ==
    ASSUME Typed, FilesFit(fs'), OpsRun', HistoryIsTyped',
           \A p \in Procs : proc'[p] = Idle \/ (/\ proc[p] # Idle
                                /\ proc'[p].n = proc[p].n /\ proc'[p].call = proc[p].call),
           UNCHANGED <<inbox, cli, calls, done>>
    PROVE  Typed'
  <1>. USE DEF Typed
  <1>1. CallsAreNumbered'
    BY NumbersKept
  <1>2. BatchIsTyped'
    <2>1. calls \in Nat
      BY DEF CallsAreNumbered
    <2>. QED
      BY <2>1, BatchKept
  <1>. QED
    BY <1>1, <1>2

LEMMA HistoryStays ==
    ASSUME Typed, UNCHANGED <<history, calls, done>>, unsaved' \subseteq 1 .. calls
    PROVE  HistoryIsTyped'
  <1>1. calls \in Nat /\ HistoryIsTyped
    BY DEF Typed, CallsAreNumbered
  <1>. QED
    BY <1>1, HistoryKept DEF HistoryIsTyped

(* The command line's own steps.                                           *)
LEMMA AskKeeps ==
    ASSUME Typed, Ask
    PROVE  Typed'
  <1>. USE DEF Typed
  <1>. DEFINE id == calls + 1
              b == cli.batch
              target == b.targets[cli.at]
              c == [op |-> b.op, keep |-> b.keep, new |-> b.new, id |-> id,
                    conn |-> cli.conn, name |-> target.name, out |-> target.out]
  <1>1. BatchCounts(cli) /\ cli.pc = "next" /\ cli.at <= Len(b.targets) /\ calls < MaxCalls
    BY DEF Ask, BatchIsTyped, Idle
  <1>2. calls \in Nat /\ calls' = id /\ inbox' = inbox \cup {c} /\ id <= MaxCalls
        /\ cli' = [cli EXCEPT !.pc = "waiting", !.id = id, !.ids = @ \cup {id}]
        /\ UNCHANGED <<fs, proc, history, unsaved, done>>
    BY <1>1, Parameters DEF Ask, CallsAreNumbered
  <1>. DEFINE typed(d, n) == d \in [pc : {"next", "waiting", "reported"}, batch : Batches, at : Nat \ {0},
                failed : Nat, id : Nat, ids : SUBSET (1 .. n),
                exit : {"none", "granted", "denied", "unavailable"}, up : BOOLEAN, conn : Nat]
  <1>3. typed(cli, calls) /\ IsFiniteSet(cli.ids) /\ b \in Batches
    BY <1>1 DEF BatchCounts
  <1>4. cli.at \in 1 .. Len(b.targets) /\ target \in [name : Names, out : CodeFiles]
        /\ b.op \in {"lock", "unlock", "rekey"} /\ b.keep \in BOOLEAN /\ b.new \in BOOLEAN
        /\ Len(b.targets) \in Nat
    <2>1. b.targets \in Seq([name : Names, out : CodeFiles])
      BY <1>3, Parameters
    <2>2. cli.at \in 1 .. Len(b.targets) /\ Len(b.targets) \in Nat
      BY <1>1, <1>3, <2>1
    <2>3. target \in [name : Names, out : CodeFiles]
      <3>. DEFINE s == b.targets
      <3>. HIDE DEF s
      <3>1. s[cli.at] \in [name : Names, out : CodeFiles]
        BY <2>1, <2>2, ElementOfSeq DEF s
      <3>. QED
        BY <3>1 DEF s
    <2>4. b.op \in {"lock", "unlock", "rekey"} /\ b.keep \in BOOLEAN /\ b.new \in BOOLEAN
      BY <1>3, Parameters
    <2>. QED
      BY <2>2, <2>3, <2>4
  <1>. HIDE DEF target, b
  <1>5. c \in AgentCalls /\ c.id = id
    BY <1>2, <1>3, <1>4 DEF AgentCalls
  <1>. HIDE DEF c
  <1>6. CallsAreNumbered'
    <2>1. calls' \in Nat /\ calls' <= MaxCalls /\ calls' = calls + 1
      BY <1>2
    <2>2. \A o \in inbox : o \in AgentCalls /\ o.id \in 1 .. calls
      BY DEF CallsAreNumbered
    <2>3. \A o \in inbox' : o \in AgentCalls /\ o.id \in 1 .. calls' /\ (o \in inbox \/ o = c)
      BY <1>2, <1>5, <2>2
    <2>4. \A o, z \in inbox' : o.id = z.id => o = z
      <3>1. \A o, z \in inbox : o.id = z.id => o = z
        BY DEF CallsAreNumbered
      <3>2. \A o \in inbox : o.id # c.id
        BY <1>2, <1>5, <2>2
      <3>. QED
        BY <2>3, <3>1, <3>2
    <2>5. \A p \in Procs : proc'[p] # Idle => proc'[p].n \in 1 .. calls'
      BY <1>2 DEF CallsAreNumbered
    <2>6. proc'["agent"] # Idle =>
            proc'["agent"].call.id = proc'["agent"].n /\ \A o \in inbox' : o.id # proc'["agent"].n
      <3>1. SUFFICES ASSUME proc["agent"] # Idle
                     PROVE  /\ proc["agent"].call.id = proc["agent"].n
                            /\ \A o \in inbox' : o.id # proc["agent"].n
        BY <1>2
      <3>2. /\ proc["agent"].call.id = proc["agent"].n /\ proc["agent"].n \in 1 .. calls
            /\ \A o \in inbox : o.id # proc["agent"].n
        BY <3>1 DEF CallsAreNumbered, Procs
      <3>3. c.id # proc["agent"].n
        BY <1>2, <1>5, <3>2
      <3>. QED
        BY <2>3, <3>2, <3>3
    <2>. QED
      BY <2>1, <2>3, <2>4, <2>5, <2>6 DEF CallsAreNumbered
  <1>7. HistoryIsTyped'
    BY <1>2 DEF HistoryIsTyped, history
  <1>8. BatchCounts(cli)'
    <2>. DEFINE y == [[[cli EXCEPT !.pc = "waiting"] EXCEPT !.id = id] EXCEPT !.ids = cli.ids \cup {id}]
    <2>1. cli' = y
      BY <1>2, <1>3
    <2>2. cli.ids \cup {id} \in SUBSET (1 .. calls')
      BY <1>2, <1>3
    <2>3. typed(cli, calls')
      BY <1>2, <1>3
    <2>4. /\ typed(y, calls') /\ y.pc = "waiting" /\ y.id = id /\ y.ids = cli.ids \cup {id}
          /\ y.at = cli.at /\ y.failed = cli.failed /\ y.batch = cli.batch /\ y.exit = cli.exit
      <3>1. id \in Nat
        BY <1>2
      <3>. QED
        BY ONLY <2>2, <2>3, <3>1
    <2>. HIDE DEF y
    <2>5. id \notin cli.ids
      BY <1>2, <1>3
    <2>6. IsFiniteSet(cli.ids \cup {id}) /\ Cardinality(cli.ids \cup {id}) = Cardinality(cli.ids) + 1
      BY <1>3, <2>5, FS_AddElement
    <2>7. cli.failed = 0 /\ cli.exit # "denied" =>
            Cardinality(cli.ids) = cli.at - 1 /\ \A i \in cli.ids : i \in done
      BY <1>1 DEF BatchCounts, Asked
    <2>8. cli.at - 1 + 1 = cli.at /\ cli.at <= Len(b.targets) + 1
      BY <1>4
    <2>9. /\ typed(cli', calls') /\ cli'.pc = "waiting" /\ cli'.id = id /\ cli'.ids = cli.ids \cup {id}
          /\ cli'.at = cli.at /\ cli'.failed = cli.failed /\ cli'.batch = b /\ cli'.exit = cli.exit
      BY <2>1, <2>4 DEF b
    <2>10. cli'.failed = 0 /\ cli'.exit # "denied" =>
            /\ Cardinality(cli'.ids) = cli'.at
            /\ \A i \in cli'.ids : i \in done' \/ i = cli'.id
      BY <1>2, <2>6, <2>7, <2>8, <2>9
    <2>11. cli.exit = "none"
      BY <1>1 DEF BatchCounts
    <2>. QED
      BY <1>4, <2>6, <2>8, <2>9, <2>10, <2>11 DEF BatchCounts, Asked
  <1>. QED
    BY <1>2, <1>6, <1>7, <1>8 DEF BatchIsTyped, OpsRun

LEMMA BatchStepsKeep ==
    ASSUME Typed, GiveUp \/ Report \/ Leave \/ \E b \in Batches : Start(b)
    PROVE  Typed'
  <1>. USE DEF Typed
  <1>1. UNCHANGED <<fs, proc, inbox, calls, history, unsaved, done>>
    BY DEF GiveUp, Report, Leave, Start
  <1>2. FilesFit(fs') /\ OpsRun' /\ CallsAreNumbered' /\ HistoryIsTyped'
    BY <1>1 DEF OpsRun, CallsAreNumbered, HistoryIsTyped, history
  <1>3. BatchIsTyped'
    <2>1. CASE GiveUp
      <3>1. BatchCounts(cli)
        BY <2>1 DEF GiveUp, BatchIsTyped, Idle
      <3>2. BatchCounts(Failed(cli))
        BY <2>1, <3>1, FailedCounts DEF GiveUp
      <3>3. BatchCounts(cli)'
        BY <1>1, <2>1, <3>2 DEF GiveUp, BatchCounts, Asked
      <3>. QED
        BY <3>3 DEF BatchIsTyped
    <2>2. CASE Report
      <3>. DEFINE exit == IF cli.failed = 0 THEN "granted" ELSE "unavailable"
                  y == [[cli EXCEPT !.pc = "reported"] EXCEPT !.exit = exit]
                  typed(d) == d \in [pc : {"next", "waiting", "reported"}, batch : Batches, at : Nat \ {0},
                    failed : Nat, id : Nat, ids : SUBSET (1 .. calls),
                    exit : {"none", "granted", "denied", "unavailable"}, up : BOOLEAN, conn : Nat]
      <3>1. BatchCounts(cli)
        BY <2>2 DEF Report, BatchIsTyped, Idle
      <3>2. typed(cli) /\ cli' = y
        BY <2>2, <3>1 DEF Report, BatchCounts
      <3>3. /\ typed(y) /\ y.pc = "reported" /\ y.exit = exit /\ y.ids = cli.ids /\ y.at = cli.at
            /\ y.failed = cli.failed /\ y.batch = cli.batch /\ y.id = cli.id
        BY ONLY <3>2
      <3>. HIDE DEF y
      <3>4. /\ typed(cli') /\ cli'.pc = "reported" /\ cli'.exit = exit /\ cli'.ids = cli.ids /\ cli'.at = cli.at
            /\ cli'.failed = cli.failed /\ cli'.batch = cli.batch /\ cli'.id = cli.id
        BY <3>2, <3>3
      <3>5. cli.at = Len(cli.batch.targets) + 1
        <4>1. Len(cli.batch.targets) \in Nat
          BY <3>2, Parameters
        <4>. QED
          BY <2>2, <3>1, <3>2, <4>1 DEF Report, BatchCounts
      <3>6. /\ cli.pc = "next" /\ IsFiniteSet(cli.ids)
            /\ cli.failed = 0 /\ cli.exit # "denied" =>
                 Cardinality(cli.ids) = cli.at - 1 /\ \A i \in cli.ids : i \in done
        BY <2>2, <3>1 DEF Report, BatchCounts, Asked
      <3>7. /\ IsFiniteSet(cli'.ids) /\ cli'.at <= Len(cli'.batch.targets) + 1
            /\ cli'.failed = 0 /\ cli'.exit # "denied" =>
                 Cardinality(cli'.ids) = cli'.at - 1 /\ \A i \in cli'.ids : i \in done'
            /\ cli'.exit = "granted" => cli'.failed = 0 /\ cli'.at = Len(cli'.batch.targets) + 1
        <4>1. cli.at <= Len(cli.batch.targets) + 1 /\ done' = done
          BY <1>1, <3>1 DEF BatchCounts
        <4>2. cli.exit # "denied"
          BY <3>1, <3>6 DEF BatchCounts
        <4>3. exit = "granted" => cli.failed = 0
          OBVIOUS
        <4>. HIDE DEF exit
        <4>. QED
          BY <3>4, <3>5, <3>6, <4>1, <4>2, <4>3
      <3>. HIDE DEF exit
      <3>8. BatchCounts(cli)'
        BY <1>1, <3>4, <3>7 DEF BatchCounts, Asked
      <3>. QED
        BY <3>8 DEF BatchIsTyped
    <2>3. CASE Leave
      BY <2>3 DEF Leave, BatchIsTyped
    <2>4. ASSUME NEW b \in Batches, Start(b) PROVE BatchIsTyped'
      <3>. DEFINE y == [pc |-> "next", batch |-> b, at |-> 1, failed |-> 0, id |-> 0, ids |-> {},
               exit |-> "none", up |-> TRUE, conn |-> calls]
      <3>1. cli' = y /\ calls \in Nat
        BY <2>4 DEF Start, CallsAreNumbered
      <3>2. /\ y \in [pc : {"next", "waiting", "reported"}, batch : Batches, at : Nat \ {0},
                    failed : Nat, id : Nat, ids : SUBSET (1 .. calls),
                    exit : {"none", "granted", "denied", "unavailable"}, up : BOOLEAN, conn : Nat]
            /\ y.pc = "next" /\ y.at = 1 /\ y.ids = {} /\ y.batch = b /\ y.exit = "none"
        BY <3>1
      <3>. HIDE DEF y
      <3>3. IsFiniteSet({}) /\ Cardinality({}) = 0
        BY FS_EmptySet
      <3>4. Len(b.targets) \in Nat
        BY Parameters
      <3>5. BatchCounts(cli)'
        BY <1>1, <3>1, <3>2, <3>3, <3>4 DEF BatchCounts, Asked
      <3>. QED
        BY <3>5 DEF BatchIsTyped
    <2>. QED
      BY <2>1, <2>2, <2>3, <2>4
  <1>. QED
    BY <1>2, <1>3

(***************************************************************************)
(* What a disk may make of a container.                                    *)
(***************************************************************************)

LEMMA UnsoundIs ==
    /\ \A w \in Wrappers : /\ Unsound(w) \in Wrappers /\ ~Unsound(w).sound
                           /\ Unsound(w).core = w.core /\ Unsound(w).id = w.id
    /\ \A m \in Metas : /\ Unsound(m) \in Metas /\ ~Unsound(m).sound /\ Unsound(m).core = m.core
                        /\ Unsound(m).name = m.name /\ Unsound(m).len = m.len
    /\ \A c \in Chunks : Unsound(c) \in Chunks /\ ~Unsound(c).sound
  BY DEF Unsound, Wrappers, Metas, Chunks

(* Chunks taken from another container's, or unsound.                      *)
TakenFrom(new, old) ==
    \A i \in 1 .. Len(new) : ~new[i].sound \/ \E j \in 1 .. Len(old) : new[i] = old[j]

LEMMA JumbledIs ==
    ASSUME NEW chunks \in Seq(Chunks), NEW new \in Jumbled(chunks)
    PROVE  new \in Seq(Chunks) /\ TakenFrom(new, chunks)
  <1>. DEFINE k == Len(chunks)
  <1>1. k \in Nat /\ k # 0
    BY DEF Jumbled
  <1>2. \A j \in 1 .. k : chunks[j] \in Chunks
    BY ElementOfSeq
  <1>3. new \in {Front(chunks), [i \in 1 .. k + 1 |-> chunks[1]], Reverse(chunks),
                 [chunks EXCEPT ![k] = Unsound(@)]}
    BY <1>1 DEF Jumbled
  <1>4. CASE new = Front(chunks)
    <2>1. new = SubSeq(chunks, 1, k - 1)
      BY <1>4 DEF Front
    <2>2. new \in Seq(Chunks) /\ Len(new) = k - 1 /\ \A i \in 1 .. k - 1 : new[i] = chunks[i]
      <3>. HIDE DEF k
      <3>1. \A i \in 1 .. k - 1 : chunks[i] \in Chunks
        BY <1>1, <1>2
      <3>2. k - 1 \in Int /\ 1 \in Int
        BY <1>1
      <3>3. /\ SubSeq(chunks, 1, k - 1) \in Seq(Chunks)
            /\ Len(SubSeq(chunks, 1, k - 1)) = IF 1 <= k - 1 THEN (k - 1) - 1 + 1 ELSE 0
            /\ \A i \in 1 .. (k - 1) - 1 + 1 : SubSeq(chunks, 1, k - 1)[i] = chunks[1 + i - 1]
        BY <3>1, <3>2, SubSeqProperties
      <3>4. (k - 1) - 1 + 1 = k - 1 /\ \A i \in 1 .. k - 1 : 1 + i - 1 = i
        BY <1>1
      <3>5. Len(SubSeq(chunks, 1, k - 1)) = k - 1
        BY <1>1, <3>3
      <3>. QED
        BY <2>1, <3>3, <3>4, <3>5
    <2>. HIDE DEF k
    <2>3. \A i \in 1 .. k - 1 : i \in 1 .. k
      BY <1>1
    <2>. QED
      BY <1>1, <2>2, <2>3 DEF TakenFrom, k
  <1>5. CASE new = [i \in 1 .. k + 1 |-> chunks[1]]
    <2>1. chunks[1] \in Chunks /\ 1 \in 1 .. Len(chunks)
      BY <1>1, <1>2
    <2>2. new \in Seq(Chunks) /\ \A i \in 1 .. Len(new) : new[i] = chunks[1]
      BY <1>1, <1>5, <2>1
    <2>. QED
      BY <2>1, <2>2 DEF TakenFrom
  <1>6. CASE new = Reverse(chunks)
    <2>1. new = [i \in 1 .. k |-> chunks[(k - i) + 1]]
      BY <1>6 DEF Reverse
    <2>2. \A i \in 1 .. k : (k - i) + 1 \in 1 .. k
      BY <1>1
    <2>3. new \in Seq(Chunks) /\ Len(new) = k /\ \A i \in 1 .. k : new[i] = chunks[(k - i) + 1]
      BY <1>1, <1>2, <2>1, <2>2
    <2>. QED
      BY <2>2, <2>3 DEF TakenFrom
  <1>7. CASE new = [chunks EXCEPT ![k] = Unsound(@)]
    <2>1. k \in 1 .. k /\ chunks[k] \in Chunks
      BY <1>1, <1>2
    <2>2. Unsound(chunks[k]) \in Chunks /\ ~Unsound(chunks[k]).sound
      BY <2>1, UnsoundIs
    <2>3. new = [chunks EXCEPT ![k] = Unsound(chunks[k])]
      BY <1>7
    <2>4. new \in Seq(Chunks) /\ Len(new) = k
      BY <1>1, <2>2, <2>3, ExceptSeq
    <2>5. \A i \in 1 .. k : new[i] = IF i = k THEN Unsound(chunks[k]) ELSE chunks[i]
      BY <2>3
    <2>. QED
      BY <2>2, <2>4, <2>5 DEF TakenFrom
  <1>. QED
    BY <1>3, <1>4, <1>5, <1>6, <1>7

(* A spoiled container is of the same document and the same core.          *)
Spoils(b, bad) ==
    /\ bad.doc = b.doc /\ bad.core = b.core
    /\ bad.phone \in {b.phone, Unsound(b.phone)} /\ bad.recovery \in {b.recovery, Unsound(b.recovery)}
    /\ bad.phone = b.phone \/ bad.recovery = b.recovery
    /\ bad.meta \in {b.meta, Unsound(b.meta)}
    /\ TakenFrom(bad.chunks, b.chunks)

LEMMA DamagedIs ==
    ASSUME NEW n \in Names, NEW b \in BoxesOf(n), NEW bad \in Damaged(b)
    PROVE  bad \in BoxesOf(n) /\ Spoils(b, bad)
  <1>1. b \in Boxes /\ b.doc = n /\ Matches(b)
    BY FileKinds
  <1>2. /\ b.chunks \in Seq(Chunks) /\ b.phone \in Wrappers /\ b.recovery \in Wrappers /\ b.meta \in Metas
    BY <1>1 DEF Boxes
  <1>3. TakenFrom(b.chunks, b.chunks)
    BY DEF TakenFrom
  <1>4. CASE \E chunks \in Jumbled(b.chunks) : bad = [b EXCEPT !.chunks = chunks]
    <2>1. PICK chunks \in Jumbled(b.chunks) : bad = [b EXCEPT !.chunks = chunks]
      BY <1>4
    <2>2. chunks \in Seq(Chunks) /\ TakenFrom(chunks, b.chunks)
      BY <1>2, JumbledIs
    <2>3. /\ bad \in Boxes /\ bad.doc = b.doc /\ bad.core = b.core /\ bad.meta = b.meta
          /\ bad.phone = b.phone /\ bad.recovery = b.recovery /\ bad.chunks = chunks
      BY <1>1, <2>1, <2>2 DEF Boxes
    <2>. QED
      BY <1>1, <2>2, <2>3 DEF BoxesOf, Matches, Spoils
  <1>5. CASE bad = [b EXCEPT !.phone = Unsound(@)]
    <2>1. bad = [b EXCEPT !.phone = Unsound(b.phone)]
      BY <1>5
    <2>2. /\ Unsound(b.phone) \in Wrappers /\ Unsound(b.phone).core = b.phone.core
          /\ Unsound(b.phone).id = b.phone.id
      BY <1>2, UnsoundIs
    <2>3. /\ bad \in Boxes /\ bad.doc = b.doc /\ bad.core = b.core /\ bad.meta = b.meta
          /\ bad.phone = Unsound(b.phone) /\ bad.recovery = b.recovery /\ bad.chunks = b.chunks
      BY <1>1, <2>1, <2>2 DEF Boxes
    <2>. QED
      BY <1>1, <1>3, <2>2, <2>3 DEF BoxesOf, Matches, Spoils
  <1>6. CASE bad = [b EXCEPT !.recovery = Unsound(@)]
    <2>1. bad = [b EXCEPT !.recovery = Unsound(b.recovery)]
      BY <1>6
    <2>2. /\ Unsound(b.recovery) \in Wrappers /\ Unsound(b.recovery).core = b.recovery.core
      BY <1>2, UnsoundIs
    <2>3. /\ bad \in Boxes /\ bad.doc = b.doc /\ bad.core = b.core /\ bad.meta = b.meta
          /\ bad.phone = b.phone /\ bad.recovery = Unsound(b.recovery) /\ bad.chunks = b.chunks
      BY <1>1, <2>1, <2>2 DEF Boxes
    <2>. QED
      BY <1>1, <1>3, <2>2, <2>3 DEF BoxesOf, Matches, Spoils
  <1>7. CASE bad = [b EXCEPT !.meta = Unsound(@)]
    <2>1. bad = [b EXCEPT !.meta = Unsound(b.meta)]
      BY <1>7
    <2>2. /\ Unsound(b.meta) \in Metas /\ Unsound(b.meta).core = b.meta.core
          /\ Unsound(b.meta).name = b.meta.name /\ Unsound(b.meta).len = b.meta.len
      BY <1>2, UnsoundIs
    <2>3. /\ bad \in Boxes /\ bad.doc = b.doc /\ bad.core = b.core /\ bad.meta = Unsound(b.meta)
          /\ bad.phone = b.phone /\ bad.recovery = b.recovery /\ bad.chunks = b.chunks
      BY <1>1, <2>1, <2>2 DEF Boxes
    <2>. QED
      BY <1>1, <1>3, <2>2, <2>3 DEF BoxesOf, Matches, Spoils
  <1>. QED
    BY <1>4, <1>5, <1>6, <1>7 DEF Damaged

(***************************************************************************)
(* Every step keeps the types.                                             *)
(***************************************************************************)

LEMMA BeginKeeps ==
    ASSUME Typed, NEW c \in inbox, Begin(c)
    PROVE  /\ Typed' /\ c \in AgentCalls /\ CallsOf("agent") = AgentCalls
           /\ OpenedAs("agent", c, c.id, "asking") /\ c.id \in 1 .. calls
           /\ NeedsSlot(c) => fs[Slot(c)] = Nothing /\ fs' = [fs EXCEPT ![Slot(c)] = Claimed]
           /\ ~NeedsSlot(c) => fs' = fs
           /\ inbox' = inbox \ {c}
  <1>. USE DEF Typed
  <1>1. c \in AgentCalls /\ c.id \in 1 .. calls /\ c.id \in Nat /\ CallsOf("agent") = AgentCalls
        /\ "agent" \in Procs
    BY DEF CallsAreNumbered, AgentCalls, CallsOf, Procs
  <1>2. Opened("agent", c, c.id, "asking") /\ inbox' = inbox \ {c}
        /\ UNCHANGED <<cli, calls, history, unsaved, done>>
    BY DEF Begin
  <1>3. OpenedAs("agent", c, c.id, "asking") /\ OpsRun' /\ proc'["agent"].call = c /\ proc'["agent"].n = c.id /\ proc["agent"] = Idle
        /\ \A q \in Procs : q # "agent" => proc'[q] = proc[q]
    <2>. DEFINE pc == "asking"
                n == c.id
    <2>1. pc = (IF "agent" = "agent" THEN "asking" ELSE "keyed") /\ n \in Nat /\ c \in CallsOf("agent")
      BY <1>1
    <2>2. Opened("agent", c, n, pc)
      BY <1>2
    <2>. HIDE DEF pc, n, Opened
    <2>3. OpenedAs("agent", c, n, pc)
      BY <1>1, <2>1, <2>2, OpenedRuns
    <2>. QED
      BY <2>3 DEF n, pc, OpenedAs
  <1>4. FilesFit(fs') /\ (NeedsSlot(c) => fs[Slot(c)] = Nothing /\ fs' = [fs EXCEPT ![Slot(c)] = Claimed])
        /\ (~NeedsSlot(c) => fs' = fs)
    <2>1. CASE NeedsSlot(c)
      <3>1. Slot(c) \in Paths /\ Slot(c) = <<"code", c.out>> /\ c.out \in CodeFiles
        BY <1>1, <2>1, WhatIsCalled
      <3>2. Claimed \in Fits(Slot(c))
        BY <3>1, WhatFits
      <3>3. FilesFit([fs EXCEPT ![Slot(c)] = Claimed])
        BY <3>1, <3>2, FileStep
      <3>. QED
        BY <2>1, <3>3 DEF Begin, Claims
    <2>2. CASE ~NeedsSlot(c)
      BY <2>2 DEF Begin, Claims
    <2>. QED
      BY <2>1, <2>2
  <1>5. CallsAreNumbered'
    <2>1. \A o \in inbox' : o \in inbox /\ o.id # c.id
      BY <1>2 DEF CallsAreNumbered
    <2>. QED
      BY <1>1, <1>2, <1>3, <2>1 DEF CallsAreNumbered
  <1>6. HistoryIsTyped'
    BY <1>2 DEF HistoryIsTyped, history
  <1>7. BatchIsTyped'
    BY <1>2, BatchKept DEF CallsAreNumbered
  <1>. QED
    BY <1>1, <1>2, <1>3, <1>4, <1>5, <1>6, <1>7

LEMMA RefuseKeeps ==
    ASSUME Typed, NEW c \in inbox, Refuse(c)
    PROVE  Typed'
  <1>. USE DEF Typed
  <1>1. inbox' = inbox \ {c} /\ UNCHANGED <<fs, proc, calls, history, unsaved, done>>
    BY DEF Refuse
  <1>2. FilesFit(fs') /\ OpsRun' /\ HistoryIsTyped'
    BY <1>1 DEF OpsRun, HistoryIsTyped, history
  <1>3. CallsAreNumbered'
    BY <1>1 DEF CallsAreNumbered
  <1>4. BatchIsTyped'
    <2>1. PICK exit \in {"unavailable", "denied"} : cli' = Replied(c.id, exit)
      BY DEF Refuse
    <2>2. calls \in Nat
      BY DEF CallsAreNumbered
    <2>. QED
      BY <1>1, <2>1, <2>2, RepliedKept
  <1>. QED
    BY <1>2, <1>3, <1>4

RecoverCall(name, keep) == [op |-> "recover", name |-> name, keep |-> keep, new |-> FALSE]

LEMMA RecoverKeeps ==
    ASSUME Typed, NEW name \in Recoveries, NEW keep \in BOOLEAN, Recover(name, keep)
    PROVE  Typed' /\ RecoverCall(name, keep) \in CallsOf("cli") /\ calls \in Nat /\ name \in Names
           /\ OpenedAs("cli", RecoverCall(name, keep), calls + 1, "keyed")
           /\ UNCHANGED <<fs, inbox, cli, history, unsaved, done>>
  <1>. USE DEF Typed
  <1>1. calls' = calls + 1 /\ calls < MaxCalls /\ UNCHANGED <<fs, inbox, cli, history, unsaved, done>>
        /\ Opened("cli", RecoverCall(name, keep), calls + 1, "keyed")
    BY DEF Recover, RecoverCall
  <1>2. calls \in Nat /\ calls + 1 \in Nat /\ "cli" \in Procs /\ name \in Names /\ MaxCalls \in Nat
    BY Parameters DEF CallsAreNumbered, Procs
  <1>3. RecoverCall(name, keep) \in CallsOf("cli")
    BY <1>2 DEF CallsOf, CliCalls, RecoverCall
  <1>4. /\ OpenedAs("cli", RecoverCall(name, keep), calls + 1, "keyed")
        /\ OpsRun' /\ proc'["cli"].n = calls + 1 /\ \A q \in Procs : q # "cli" => proc'[q] = proc[q]
    <2>. DEFINE pc == "keyed"
                n == calls + 1
                c == RecoverCall(name, keep)
    <2>1. pc = (IF "cli" = "agent" THEN "asking" ELSE "keyed") /\ n \in Nat /\ c \in CallsOf("cli")
      BY <1>2, <1>3
    <2>2. Opened("cli", c, n, pc)
      BY <1>1
    <2>. HIDE DEF pc, n, c
    <2>3. OpenedAs("cli", c, n, pc)
      BY <1>2, <2>1, <2>2, OpenedRuns
    <2>. QED
      BY <2>3 DEF n, c, pc, OpenedAs
  <1>5. CallsAreNumbered'
    <2>1. \A p \in Procs : proc'[p] # Idle => proc'[p].n \in 1 .. calls'
      <3>1. \A n \in 1 .. calls : n \in 1 .. calls + 1
        BY <1>2
      <3>2. calls + 1 \in 1 .. calls + 1
        BY <1>2
      <3>. QED
        BY <1>1, <1>4, <3>1, <3>2 DEF CallsAreNumbered
    <2>2. calls' \in Nat /\ calls' <= MaxCalls /\ inbox' = inbox
      BY <1>1, <1>2
    <2>3. \A c \in inbox : c \in AgentCalls /\ c.id \in 1 .. calls'
      BY <1>1, <1>2 DEF CallsAreNumbered
    <2>4. proc'["agent"] = proc["agent"]
      BY <1>4 DEF Procs
    <2>. QED
      BY <2>1, <2>2, <2>3, <2>4 DEF CallsAreNumbered
  <1>6. HistoryIsTyped'
    BY <1>1, <1>2 DEF HistoryIsTyped, history
  <1>7. BatchIsTyped'
    BY <1>1, <1>2, BatchKept
  <1>8. FilesFit(fs')
    BY <1>1
  <1>. QED
    BY <1>1, <1>2, <1>3, <1>4, <1>5, <1>6, <1>7, <1>8

LEMMA KillKeeps ==
    ASSUME Typed, NEW p \in Procs, Kill(p)
    PROVE  Typed' /\ proc' = [proc EXCEPT ![p] = Idle] /\ fs' = fs /\ inbox' \subseteq inbox
           /\ UNCHANGED <<calls, history, unsaved, done>>
  <1>. USE DEF Typed
  <1>1. proc' = [proc EXCEPT ![p] = Idle] /\ UNCHANGED <<fs, calls, history, unsaved, done>>
        /\ inbox' \subseteq inbox
    BY DEF Kill
  <1>2. OpsRun' /\ proc'[p] = Idle /\ \A q \in Procs : q # p => proc'[q] = proc[q]
    BY <1>1, EndedRuns
  <1>3. FilesFit(fs') /\ HistoryIsTyped'
    BY <1>1 DEF HistoryIsTyped, history
  <1>4. CallsAreNumbered'
    BY <1>1, <1>2, NumbersKept
  <1>5. BatchIsTyped'
    <2>0. calls \in Nat
      BY DEF CallsAreNumbered
    <2>1. CASE cli' = cli
      BY <1>1, <2>0, <2>1, BatchKept
    <2>2. CASE cli.pc = "waiting" /\ cli' = [Failed(cli) EXCEPT !.up = FALSE]
      <3>1. BatchCounts(cli)
        BY <2>2 DEF BatchIsTyped, Idle
      <3>2. BatchCounts([Failed(cli) EXCEPT !.up = FALSE])
        BY <2>2, <3>1, FailedCounts
      <3>3. BatchCounts(cli)'
        BY <1>1, <2>2, <3>2 DEF BatchCounts, Asked
      <3>. QED
        BY <3>3 DEF BatchIsTyped
    <2>3. CASE cli.pc = "next" /\ cli' = [cli EXCEPT !.up = FALSE]
      <3>1. BatchCounts(cli)
        BY <2>3 DEF BatchIsTyped, Idle
      <3>2. BatchCounts([cli EXCEPT !.up = FALSE])
        BY <3>1 DEF BatchCounts, Asked
      <3>3. BatchCounts(cli)'
        BY <1>1, <2>3, <3>2 DEF BatchCounts, Asked
      <3>. QED
        BY <3>3 DEF BatchIsTyped
    <2>. QED
      BY <2>1, <2>2, <2>3 DEF Kill
  <1>. QED
    BY <1>1, <1>2, <1>3, <1>4, <1>5

LEMMA ExchangeKeeps ==
    ASSUME Typed, NEW p \in Procs, Exchange(p)
    PROVE  Typed'
  <1>1. /\ FilesFit(fs') /\ UNCHANGED <<inbox, cli, calls, history, unsaved, done>>
    BY DEF Exchange, Typed
  <1>2. /\ OpsRun' /\ Opens(p, proc[p]) /\ \A q \in Procs : q # p => proc'[q] = proc[q]
        /\ proc'[p].call = proc[p].call /\ proc'[p].n = proc[p].n
    BY ExchangeRuns DEF Typed
  <1>3. HistoryIsTyped'
    BY <1>1, HistoryStays DEF Typed, HistoryIsTyped
  <1>4. proc[p] # Idle
    BY <1>2 DEF Opens, Idle
  <1>5. \A q \in Procs : proc'[q] = Idle \/ (/\ proc[q] # Idle
                           /\ proc'[q].n = proc[q].n /\ proc'[q].call = proc[q].call)
    BY <1>2, <1>4
  <1>. QED
    BY <1>1, <1>2, <1>3, <1>5, GoOnKeeps

LEMMA WriteKeeps ==
    ASSUME Typed, NEW p \in Procs, Write(p)
    PROVE  Typed'
  <1>1. /\ FilesFit(fs') /\ UNCHANGED <<inbox, cli, calls, history, unsaved, done>>
    BY DEF Write, Typed
  <1>2. /\ OpsRun' /\ Opens(p, proc[p]) /\ \A q \in Procs : q # p => proc'[q] = proc[q]
        /\ proc'[p].call = proc[p].call /\ proc'[p].n = proc[p].n
    BY WriteRuns DEF Typed
  <1>3. HistoryIsTyped'
    BY <1>1, HistoryStays DEF Typed, HistoryIsTyped
  <1>4. proc[p] # Idle
    BY <1>2 DEF Opens, Idle
  <1>5. \A q \in Procs : proc'[q] = Idle \/ (/\ proc[q] # Idle
                           /\ proc'[q].n = proc[q].n /\ proc'[q].call = proc[q].call)
    BY <1>2, <1>4
  <1>. QED
    BY <1>1, <1>2, <1>3, <1>5, GoOnKeeps

LEMMA ReadChunkKeeps ==
    ASSUME Typed, NEW p \in Procs, ReadChunk(p)
    PROVE  Typed'
  <1>1. /\ FilesFit(fs') /\ UNCHANGED <<inbox, cli, calls, history, unsaved, done>>
    BY DEF ReadChunk, Typed
  <1>2. /\ OpsRun' /\ ReadsSource(p, proc[p]) /\ \A q \in Procs : q # p => proc'[q] = proc[q]
        /\ proc'[p].call = proc[p].call /\ proc'[p].n = proc[p].n
    BY ReadChunkRuns DEF Typed
  <1>3. HistoryIsTyped'
    BY <1>1, HistoryStays DEF Typed, HistoryIsTyped
  <1>4. proc[p] # Idle
    BY <1>2 DEF ReadsSource, Idle
  <1>5. \A q \in Procs : proc'[q] = Idle \/ (/\ proc[q] # Idle
                           /\ proc'[q].n = proc[q].n /\ proc'[q].call = proc[q].call)
    BY <1>2, <1>4
  <1>. QED
    BY <1>1, <1>2, <1>3, <1>5, GoOnKeeps

(* A step of an operation that goes on with its output.                    *)
GoesOnTo(p, pc) ==
    /\ HasWritten(p, proc[p]) /\ HasWritten(p, proc'[p])
    /\ \A q \in Procs : q # p => proc'[q] = proc[q]
    /\ proc'[p].pc = pc /\ proc'[p].call = proc[p].call /\ proc'[p].n = proc[p].n
    /\ proc'[p].temp = proc[p].temp
    /\ proc[p].call \in CallsOf(p) /\ proc[p].call.name \in Names

LEMMA OutputStepKeeps ==
    ASSUME Typed, NEW p \in Procs, NEW pc \in Writing, proc[p].pc \in Writing, Goes(p, pc),
           pc = "verifying" => proc[p].call.op \in {"lock", "rekey"},
           pc = "saved" => proc[p].call.op = "lock",
           pc \in Placing => proc[p].call.op = "rekey",
           pc = "rekeyed" => proc[p].call.new,
           FilesFit(fs'), HistoryIsTyped', UNCHANGED <<inbox, cli, calls, done>>
    PROVE  Typed' /\ GoesOnTo(p, pc)
  <1>1. /\ OpsRun' /\ HasWritten(p, proc[p]) /\ HasWritten(p, proc'[p])
        /\ \A q \in Procs : q # p => proc'[q] = proc[q]
        /\ proc'[p].pc = pc /\ proc'[p].call = proc[p].call /\ proc'[p].n = proc[p].n
        /\ proc'[p].temp = proc[p].temp
    BY OutputRuns DEF Typed
  <1>2. proc[p] # Idle
    BY DEF Idle, Writing, Placing
  <1>3. \A q \in Procs : proc'[q] = Idle \/ (/\ proc[q] # Idle
                           /\ proc'[q].n = proc[q].n /\ proc'[q].call = proc[q].call)
    BY <1>1, <1>2
  <1>4. proc[p].call \in CallsOf(p) /\ proc[p].call.name \in Names
    BY <1>1, WhatIsCalled DEF HasWritten
  <1>. QED
    BY <1>1, <1>3, <1>4, GoOnKeeps DEF GoesOnTo

LEMMA CheckKeeps ==
    ASSUME Typed, NEW p \in Procs, Check(p)
    PROVE  Typed' /\ GoesOnTo(p, "renaming") /\ fs' = fs
  <1>1. /\ proc[p].pc = "checking" /\ Goes(p, "renaming")
        /\ UNCHANGED <<fs, inbox, cli, calls, history, unsaved, done>>
    BY DEF Check, At
  <1>2. FilesFit(fs') /\ HistoryIsTyped'
    BY <1>1, HistoryStays DEF Typed, HistoryIsTyped
  <1>. QED
    BY <1>1, <1>2, OutputStepKeeps DEF Writing, Placing

LEMMA VerifyKeeps ==
    ASSUME Typed, NEW p \in Procs, Verify(p)
    PROVE  Typed' /\ GoesOnTo(p, "verified") /\ fs' = fs
  <1>1. /\ proc[p].pc = "verifying" /\ Goes(p, "verified")
        /\ UNCHANGED <<fs, inbox, cli, calls, history, unsaved, done>>
    BY DEF Verify, At
  <1>2. FilesFit(fs') /\ HistoryIsTyped'
    BY <1>1, HistoryStays DEF Typed, HistoryIsTyped
  <1>. QED
    BY <1>1, <1>2, OutputStepKeeps DEF Writing, Placing

(* What is found at the output after the rename.                           *)
Published(x, f) ==
    \/ f = x.temp /\ faults' = faults
    \/ /\ x.call.op \in {"unlock", "recover"} /\ f \in PlainsOf(x.call.name)
       /\ <<x.call.name, "restoring">> \notin faults
       /\ faults' = faults \cup {<<x.call.name, "restoring">>}
    \/ /\ x.call.op \in {"lock", "rekey"} /\ x.temp \in BoxesOf(x.call.name)
       /\ f \in BoxesOf(x.call.name) /\ Spoils(x.temp, f)
       /\ <<x.call.name, "writing">> \notin faults
       /\ faults' = faults \cup {<<x.call.name, "writing">>}

LEMMA PartsOfDocuments ==
    ASSUME NEW n \in Names, NEW f \in PlainsOf(n), NEW bad \in Spoilt(f)
    PROVE  bad \in PlainsOf(n)
  <1>1. f.kind = "plain" /\ f.doc = n /\ f.content \in Seq(Blocks)
    BY FileKinds
  <1>2. PICK len \in 0 .. Len(f.content) - 1 : bad = Plain(n, SubSeq(f.content, 1, len))
    BY <1>1 DEF Spoilt
  <1>3. SubSeq(f.content, 1, len) \in Seq(Blocks)
    <2>1. Len(f.content) \in Nat
      BY <1>1
    <2>. QED
      BY <1>1, <1>2, <2>1
  <1>. QED
    BY <1>2, <1>3, PlainIsTyped

LEMMA PublishKeeps ==
    ASSUME Typed, NEW p \in Procs, Publish(p)
    PROVE  LET x == proc[p] IN
           /\ Typed' /\ GoesOnTo(p, IF x.call.op \in {"lock", "rekey"} THEN "verifying" ELSE "verified")
           /\ x.output = Target(x.call) /\ x.output \in Paths /\ x.temp.doc = x.call.name
           /\ overtaken' = IF Overtakes(x) THEN overtaken \cup {x.call.name} ELSE overtaken
           /\ \E f \in Fits(x.output) : fs' = [fs EXCEPT ![x.output] = f] /\ Published(x, f)
  <1>. DEFINE x == proc[p]
              readBack == x.call.op \in {"lock", "rekey"}
              pc == IF readBack THEN "verifying" ELSE "verified"
  <1>1. x.pc = "renaming" /\ Goes(p, pc) /\ UNCHANGED <<inbox, cli, calls, saved, saves, raced, unsaved, done>>
    BY DEF Publish, At
  <1>2. HasWritten(p, x)
    BY <1>1, WhatRuns DEF Writing, Typed
  <1>3. /\ x.call \in CallsOf(p) /\ x.output = Target(x.call) /\ x.output \in Paths
        /\ x.call.name \in Names /\ x.call.op \in {"lock", "unlock", "rekey", "recover"}
    BY <1>2, WhatIsCalled DEF HasWritten
  <1>4. /\ x.temp \in Fits(x.output) /\ x.temp.doc = x.call.name
        /\ readBack => x.temp \in BoxesOf(x.call.name)
    <2>1. CASE readBack
      <3>1. x.temp \in BoxesOf(x.call.name)
        BY <1>2, <2>1 DEF HasWritten
      <3>2. x.output \in {<<x.call.name, "balock">>, <<x.call.name, "rekey-new">>}
        BY <1>3, <2>1 DEF Target
      <3>3. /\ Fits(<<x.call.name, "balock">>) = {Nothing} \cup BoxesOf(x.call.name)
            /\ Fits(<<x.call.name, "rekey-new">>) = {Nothing} \cup BoxesOf(x.call.name)
        BY <1>3, WhatFits
      <3>4. x.temp.doc = x.call.name
        BY <3>1, FileKinds
      <3>. QED
        BY <3>1, <3>2, <3>3, <3>4
    <2>3. CASE x.call.op \in {"unlock", "recover"}
      <3>1. x.temp \in PlainsOf(x.call.name) /\ x.output = <<x.call.name, "">>
        BY <1>2, <1>3, <2>3 DEF HasWritten, Target
      <3>2. Fits(<<x.call.name, "">>) = {Nothing} \cup PlainsOf(x.call.name)
        BY <1>3, WhatFits
      <3>. QED
        BY <2>3, <3>1, <3>2, FileKinds
    <2>. QED
      BY <1>3, <2>1, <2>3
  <1>5. overtaken' = IF Overtakes(x) THEN overtaken \cup {x.call.name} ELSE overtaken
    BY <1>4 DEF Publish
  <1>6. PICK f \in Fits(x.output) : fs' = [fs EXCEPT ![x.output] = f] /\ Published(x, f)
                                    /\ \/ faults' = faults
                                       \/ \E when : MayFail(x.call.name, when)
    <2>1. CASE fs' = [fs EXCEPT ![x.output] = x.temp] /\ UNCHANGED faults
      BY <1>4, <2>1 DEF Published
    <2>2. CASE /\ readBack /\ MayFail(x.temp.doc, "writing")
               /\ faults' = faults \cup {<<x.temp.doc, "writing">>}
               /\ \E bad \in Spoilt(x.temp) : fs' = [fs EXCEPT ![x.output] = bad]
      <3>0. Spoilt(x.temp) = Damaged(x.temp)
        <4>1. x.temp.kind = "container"
          BY <1>4, <2>2, FileKinds
        <4>. QED
          BY <4>1 DEF Spoilt
      <3>1. PICK bad \in Damaged(x.temp) : fs' = [fs EXCEPT ![x.output] = bad]
        BY <2>2, <3>0
      <3>2. bad \in BoxesOf(x.call.name) /\ Spoils(x.temp, bad)
        BY <1>3, <1>4, <2>2, DamagedIs
      <3>3. bad \in Fits(x.output)
        BY <1>3, <2>2, <3>2, WhatFits DEF Target
      <3>4. <<x.call.name, "writing">> \notin faults
        BY <1>4, <2>2 DEF MayFail
      <3>. QED
        BY <1>4, <2>2, <3>1, <3>2, <3>3, <3>4 DEF Published
    <2>3. CASE /\ ~readBack /\ MayFail(x.temp.doc, "restoring")
               /\ faults' = faults \cup {<<x.temp.doc, "restoring">>}
               /\ \E bad \in Spoilt(x.temp) : fs' = [fs EXCEPT ![x.output] = bad]
      <3>. PICK n : n = x.call.name
        OBVIOUS
      <3>0. x.call.op \in {"unlock", "recover"}
        BY <1>3, <2>3
      <3>1. x.temp \in PlainsOf(n) /\ x.output = <<n, "">> /\ n \in Names
        BY <1>2, <1>3, <3>0 DEF HasWritten, Target
      <3>2. PICK bad \in Spoilt(x.temp) : fs' = [fs EXCEPT ![x.output] = bad]
        BY <2>3
      <3>3. bad \in PlainsOf(n)
        BY <3>1, PartsOfDocuments
      <3>4. bad \in Fits(x.output)
        BY <3>1, <3>3, WhatFits
      <3>5. MayFail(n, "restoring") /\ faults' = faults \cup {<<n, "restoring">>}
        BY <1>4, <2>3
      <3>6. <<n, "restoring">> \notin faults
        BY <3>5 DEF MayFail
      <3>7. Published(x, bad)
        BY <3>0, <3>3, <3>5, <3>6 DEF Published
      <3>. QED
        BY <3>2, <3>4, <3>5, <3>7
    <2>. QED
      BY <2>1, <2>2, <2>3 DEF Publish
  <1>7. FilesFit(fs')
    <2>1. FilesFit([fs EXCEPT ![x.output] = f])
      BY <1>3, FileStep DEF Typed
    <2>. QED
      BY <1>6, <2>1
  <1>8. HistoryIsTyped'
    <2>1. overtaken' \subseteq Names
      BY <1>3, <1>5 DEF Typed, HistoryIsTyped
    <2>2. faults' \subseteq Names \X {"writing", "resting", "restoring"} /\ IsFiniteSet(faults')
          /\ Cardinality(faults') <= MaxFaults
      <3>1. CASE faults' = faults
        BY <3>1 DEF Typed, HistoryIsTyped
      <3>2. CASE faults' # faults
        <4>. PICK t \in {<<x.call.name, "writing">>, <<x.call.name, "restoring">>} :
               faults' = faults \cup {t} /\ t \notin faults
          BY <1>6, <3>2 DEF Published
        <4>1. faults' = faults \cup {t} /\ t \notin faults /\ Cardinality(faults) < MaxFaults
          BY <1>6, <3>2 DEF MayFail
        <4>2. IsFiniteSet(faults) /\ faults \subseteq Names \X {"writing", "resting", "restoring"}
          BY DEF Typed, HistoryIsTyped
        <4>3. t \in Names \X {"writing", "resting", "restoring"}
          BY <1>3
        <4>4. IsFiniteSet(faults') /\ Cardinality(faults') = Cardinality(faults) + 1
              /\ Cardinality(faults) \in Nat
          BY <4>1, <4>2, FS_AddElement, FS_CardinalityType
        <4>5. Cardinality(faults') <= MaxFaults
          BY <4>1, <4>4, Parameters
        <4>. QED
          BY <4>1, <4>2, <4>3, <4>4, <4>5
      <3>. QED
        BY <3>1, <3>2
    <2>. QED
      BY <1>1, <2>1, <2>2 DEF Typed, HistoryIsTyped
  <1>9. Typed' /\ GoesOnTo(p, pc)
    BY <1>1, <1>7, <1>8, OutputStepKeeps DEF Writing, Placing
  <1>. QED
    BY <1>3, <1>4, <1>5, <1>6, <1>9

LEMMA SaveCodeKeeps ==
    ASSUME Typed, NEW p \in Procs, SaveCode(p)
    PROVE  LET x == proc[p] IN
           /\ Typed' /\ GoesOnTo(p, "saved") /\ p = "agent" /\ x.call.op = "lock" /\ x.pc = "verified"
           /\ Slot(x.call) = <<"code", x.call.out>> /\ x.call.out \in CodeFiles
           /\ fs' = [fs EXCEPT ![<<"code", x.call.out>>] = Code(x.n)]
  <1>. DEFINE x == proc[p]
  <1>1. /\ x.pc = "verified" /\ x.call.op = "lock" /\ Goes(p, "saved")
        /\ UNCHANGED <<inbox, cli, calls, history, unsaved, done>>
        /\ fs' = [fs EXCEPT ![Slot(x.call)] = Code(x.n)]
    BY DEF SaveCode, At
  <1>2. HasWritten(p, x)
    BY <1>1, WhatRuns DEF Writing, Typed
  <1>3. x.call \in CallsOf(p) /\ x.n \in Nat
    BY <1>2 DEF HasWritten
  <1>4. /\ p = "agent" /\ Slot(x.call) = <<"code", x.call.out>> /\ x.call.out \in CodeFiles
        /\ Slot(x.call) \in Paths
    BY <1>1, <1>3, WhatIsCalled DEF NeedsSlot
  <1>5. FilesFit(fs')
    <2>1. Code(x.n) \in Fits(Slot(x.call))
      BY <1>3, <1>4, WhatFits DEF CodesOnFile
    <2>2. FilesFit([fs EXCEPT ![Slot(x.call)] = Code(x.n)])
      BY <1>4, <2>1, FileStep DEF Typed
    <2>. QED
      BY <1>1, <2>2
  <1>6. HistoryIsTyped'
    BY <1>1, HistoryStays DEF Typed, HistoryIsTyped
  <1>7. Typed' /\ GoesOnTo(p, "saved")
    BY <1>1, <1>5, <1>6, OutputStepKeeps DEF Writing, Placing
  <1>. QED
    BY <1>1, <1>4, <1>7

(* An operation that ends, with what it leaves in the directory.           *)
EndsWith(p, exit) ==
    /\ proc[p] # Idle /\ proc[p].n \in 1 .. calls /\ proc[p].call \in CallsOf(p)
    /\ proc[p].call.name \in Names
    /\ proc'[p] = Idle /\ \A q \in Procs : q # p => proc'[q] = proc[q]
    /\ UNCHANGED <<inbox, calls, history>>
    /\ done' = IF exit = "granted" THEN done \cup {proc[p].n} ELSE done

LEMMA EndsKeep ==
    ASSUME Typed, NEW p \in Procs, proc[p] # Idle,
           NEW exit \in {"granted", "denied", "unavailable"}, Return(p, exit), FilesFit(fs'),
           UNCHANGED <<inbox, calls, history>>, unsaved' \subseteq 1 .. calls
    PROVE  Typed' /\ EndsWith(p, exit)
  <1>1. Typed'
    BY EndKeeps
  <1>2. proc[p].n \in 1 .. calls
    BY DEF Typed, CallsAreNumbered
  <1>3. proc[p].call \in CallsOf(p)
    BY WhatRuns DEF Typed
  <1>4. proc[p].call.name \in Names
    BY <1>3, WhatIsCalled
  <1>5. proc'[p] = Idle /\ \A q \in Procs : q # p => proc'[q] = proc[q]
    BY EndedRuns DEF Return, Typed
  <1>. QED
    BY <1>1, <1>2, <1>3, <1>4, <1>5 DEF EndsWith, Return

LEMMA NothingFits == \A x \in Paths : Nothing \in Fits(x)
  BY DEF Fits

LEMMA RemovalFits ==
    ASSUME FilesFit(fs), NEW x \in Paths
    PROVE  FilesFit([fs EXCEPT ![x] = Nothing])
  BY NothingFits, FileStep

LEMMA RemoveOriginalKeeps ==
    ASSUME Typed, NEW p \in Procs, RemoveOriginal(p)
    PROVE  LET x == proc[p] IN
           /\ Typed' /\ EndsWith(p, "granted") /\ p = "agent" /\ x.call.op = "lock" /\ x.pc = "saved"
           /\ HasWritten(p, x) /\ unsaved' = unsaved
           /\ fs' = fs \/ fs' = [fs EXCEPT ![<<x.call.name, "">>] = Nothing]
  <1>. DEFINE x == proc[p]
  <1>1. /\ x.pc = "saved" /\ Return(p, "granted") /\ UNCHANGED <<inbox, calls, history, unsaved>>
        /\ fs' = fs \/ fs' = [fs EXCEPT ![Input(x.call)] = Nothing]
    BY DEF RemoveOriginal, At
  <1>2. HasWritten(p, x)
    BY <1>1, WhatRuns DEF Writing, Typed
  <1>3. x.call.op = "lock" /\ x.call \in CallsOf(p) /\ x # Idle
    BY <1>1, <1>2 DEF HasWritten, Idle
  <1>4. p = "agent" /\ x.call.name \in Names /\ Input(x.call) = <<x.call.name, "">>
    BY <1>3, WhatIsCalled DEF Input
  <1>5. FilesFit(fs')
    BY <1>1, <1>4, RemovalFits, KindsOfPaths DEF Typed
  <1>6. Typed' /\ EndsWith(p, "granted")
    BY <1>1, <1>3, <1>5, EndsKeep DEF Typed, HistoryIsTyped
  <1>. QED
    BY <1>1, <1>2, <1>3, <1>4, <1>6

LEMMA RemoveContainerKeeps ==
    ASSUME Typed, NEW p \in Procs, RemoveContainer(p)
    PROVE  LET x == proc[p] IN
           /\ Typed' /\ EndsWith(p, "granted") /\ x.call.op \in {"unlock", "recover"} /\ x.pc = "verified"
           /\ HasWritten(p, x) /\ unsaved' = unsaved
           /\ fs' = fs \/ fs' = [fs EXCEPT ![<<x.call.name, "balock">>] = Nothing]
  <1>. DEFINE x == proc[p]
  <1>1. /\ x.pc = "verified" /\ Return(p, "granted") /\ UNCHANGED <<inbox, calls, history, unsaved>>
        /\ fs' = fs \/ fs' = [fs EXCEPT ![Input(x.call)] = Nothing]
        /\ x.call.op \in {"unlock", "recover"}
    BY DEF RemoveContainer, At
  <1>2. HasWritten(p, x)
    BY <1>1, WhatRuns DEF Writing, Typed
  <1>3. x.call \in CallsOf(p) /\ x # Idle
    BY <1>1, <1>2 DEF HasWritten, Idle
  <1>4. x.call.name \in Names /\ Input(x.call) = <<x.call.name, "balock">>
    BY <1>1, <1>3, WhatIsCalled DEF Input
  <1>5. FilesFit(fs')
    BY <1>1, <1>4, RemovalFits, KindsOfPaths DEF Typed
  <1>6. Typed' /\ EndsWith(p, "granted")
    BY <1>1, <1>3, <1>5, EndsKeep DEF Typed, HistoryIsTyped
  <1>. QED
    BY <1>1, <1>2, <1>3, <1>4, <1>6

LEMMA AbortKeeps ==
    ASSUME Typed, NEW p \in Procs, Abort(p) \/ Decline(p)
    PROVE  /\ Typed' /\ fs' = Dropped(p) /\ unsaved' = unsaved
           /\ \E exit \in {"denied", "unavailable"} : EndsWith(p, exit)
  <1>1. PICK exit \in {"denied", "unavailable"} : Return(p, exit)
    BY DEF Abort, Decline
  <1>2. /\ proc[p] # Idle /\ fs' = Dropped(p) /\ UNCHANGED <<inbox, calls, history, unsaved>>
    BY DEF Abort, Decline, At, Idle
  <1>3. FilesFit(fs')
    BY <1>2, DroppedFits DEF Typed
  <1>4. Typed' /\ EndsWith(p, exit)
    BY <1>1, <1>2, <1>3, EndsKeep DEF Typed, HistoryIsTyped
  <1>. QED
    BY <1>2, <1>4

LEMMA SaveNewCodeKeeps ==
    ASSUME Typed, NEW p \in Procs, SaveNewCode(p)
    PROVE  LET x == proc[p] IN
           /\ Typed' /\ EndsWith(p, "granted") /\ p = "agent" /\ x.call.op = "rekey" /\ x.call.new
           /\ x.pc = "rekeyed" /\ HasWritten(p, x) /\ unsaved' = unsaved \ {x.n}
           /\ Slot(x.call) = <<"code", x.call.out>> /\ x.call.out \in CodeFiles
           /\ fs' = [fs EXCEPT ![<<"code", x.call.out>>] = Code(x.n)]
  <1>. DEFINE x == proc[p]
  <1>1. /\ x.pc = "rekeyed" /\ Return(p, "granted") /\ UNCHANGED <<inbox, calls, history>>
        /\ fs' = [fs EXCEPT ![Slot(x.call)] = Code(x.n)] /\ unsaved' = unsaved \ {x.n}
    BY DEF SaveNewCode, At
  <1>2. HasWritten(p, x)
    BY <1>1, WhatRuns DEF Writing, Placing, Typed
  <1>3. x.call \in CallsOf(p) /\ x.n \in Nat /\ x # Idle /\ x.call.op = "rekey" /\ x.call.new
    BY <1>1, <1>2 DEF HasWritten, Idle, Placing
  <1>4. /\ p = "agent" /\ Slot(x.call) = <<"code", x.call.out>> /\ x.call.out \in CodeFiles
        /\ Slot(x.call) \in Paths
    BY <1>1, <1>3, WhatIsCalled DEF NeedsSlot
  <1>5. FilesFit(fs')
    <2>1. Code(x.n) \in Fits(Slot(x.call))
      BY <1>3, <1>4, WhatFits DEF CodesOnFile
    <2>2. FilesFit([fs EXCEPT ![Slot(x.call)] = Code(x.n)])
      BY <1>4, <2>1, FileStep DEF Typed
    <2>. QED
      BY <1>1, <2>2
  <1>6. Typed' /\ EndsWith(p, "granted")
    BY <1>1, <1>3, <1>5, EndsKeep DEF Typed, HistoryIsTyped
  <1>. QED
    BY <1>1, <1>2, <1>3, <1>4, <1>6

(* Two changes of the directory by one step, as the renames of a rekey.    *)
LEMMA TwoFilesStep ==
    ASSUME FilesFit(fs), NEW x \in Paths, NEW f \in Fits(x), NEW y \in Paths, x # y,
           fs' = [fs EXCEPT ![x] = f, ![y] = Nothing]
    PROVE  /\ FilesFit(fs') /\ fs'[x] = f /\ fs'[y] = Nothing
           /\ \A z \in Paths : z \notin {x, y} => fs'[z] = fs[z]
  <1>. DEFINE first == [fs EXCEPT ![x] = f]
  <1>1. FilesFit(first) /\ first[x] = f /\ \A z \in Paths : z # x => first[z] = fs[z]
    BY ONLY FilesFit(fs), x \in Paths, f \in Fits(x), FileStep
  <1>2. fs' = [first EXCEPT ![y] = Nothing]
    OBVIOUS
  <1>. HIDE DEF first
  <1>3. /\ FilesFit([first EXCEPT ![y] = Nothing]) /\ [first EXCEPT ![y] = Nothing][y] = Nothing
        /\ \A z \in Paths : z # y => [first EXCEPT ![y] = Nothing][z] = first[z]
    BY <1>1, NothingFits, FileStep
  <1>. QED
    BY <1>1, <1>2, <1>3

(* The file of n under one suffix moves to another.                        *)
Moves(n, from, to) ==
    /\ fs[<<n, from>>] \in BoxesOf(n)
    /\ fs'[<<n, to>>] = fs[<<n, from>>] /\ fs'[<<n, from>>] = Nothing
    /\ \A z \in Paths : z \notin {<<n, from>>, <<n, to>>} => fs'[z] = fs[z]

LEMMA MoveFits ==
    ASSUME FilesFit(fs), NEW n \in Names, NEW from \in {"balock", "rekey-new", "rekey-old"},
           NEW to \in {"balock", "rekey-new", "rekey-old"}, from # to, ~Free(<<n, from>>),
           fs' = [fs EXCEPT ![<<n, to>>] = fs[<<n, from>>], ![<<n, from>>] = Nothing]
    PROVE  FilesFit(fs') /\ Moves(n, from, to)
  <1>1. fs[<<n, from>>] \in BoxesOf(n)
    BY InputFits DEF Free
  <1>2. fs[<<n, from>>] \in Fits(<<n, to>>)
    BY <1>1, WhatFits
  <1>3. <<n, from>> \in Paths /\ <<n, to>> \in Paths /\ <<n, to>> # <<n, from>>
    BY KindsOfPaths
  <1>. QED
    BY <1>1, <1>2, <1>3, TwoFilesStep DEF Moves

LEMMA SetAsideKeeps ==
    ASSUME Typed, NEW p \in Procs, SetAside(p)
    PROVE  LET x == proc[p] IN
           /\ Typed' /\ GoesOnTo(p, "aside") /\ p = "agent" /\ x.call.op = "rekey" /\ x.pc = "verified"
           /\ Moves(x.call.name, "balock", "rekey-old") /\ UNCHANGED <<history, unsaved>>
  <1>. DEFINE x == proc[p]
              n == x.call.name
  <1>1. /\ x.pc = "verified" /\ x.call.op = "rekey" /\ Goes(p, "aside") /\ ~Free(<<n, "balock">>)
        /\ UNCHANGED <<inbox, cli, calls, history, unsaved, done>>
        /\ fs' = [fs EXCEPT ![<<n, "rekey-old">>] = fs[<<n, "balock">>], ![<<n, "balock">>] = Nothing]
    BY DEF SetAside, At
  <1>2. HasWritten(p, x)
    BY <1>1, WhatRuns DEF Writing, Typed
  <1>3. p = "agent" /\ n \in Names
    BY <1>1, <1>2, WhatIsCalled DEF HasWritten
  <1>4. FilesFit(fs') /\ Moves(n, "balock", "rekey-old")
    <2>. HIDE DEF n
    <2>. QED
      BY <1>1, <1>3, MoveFits DEF Typed
  <1>5. HistoryIsTyped'
    BY <1>1, HistoryStays DEF Typed, HistoryIsTyped
  <1>6. Typed' /\ GoesOnTo(p, "aside")
    BY <1>1, <1>4, <1>5, OutputStepKeeps DEF Writing, Placing
  <1>. QED
    BY <1>1, <1>3, <1>4, <1>6

LEMMA PutInPlaceKeeps ==
    ASSUME Typed, NEW p \in Procs, PutInPlace(p)
    PROVE  LET x == proc[p] IN
           /\ Typed' /\ GoesOnTo(p, "placed") /\ p = "agent" /\ x.call.op = "rekey" /\ x.pc = "aside"
           /\ Moves(x.call.name, "rekey-new", "balock") /\ UNCHANGED history
           /\ unsaved' = IF x.call.new THEN unsaved \cup {x.n} ELSE unsaved
  <1>. DEFINE x == proc[p]
              n == x.call.name
  <1>1. /\ x.pc = "aside" /\ Goes(p, "placed") /\ ~Free(<<n, "rekey-new">>)
        /\ UNCHANGED <<inbox, cli, calls, history, done>>
        /\ unsaved' = IF x.call.new THEN unsaved \cup {x.n} ELSE unsaved
        /\ fs' = [fs EXCEPT ![<<n, "balock">>] = fs[<<n, "rekey-new">>], ![<<n, "rekey-new">>] = Nothing]
    BY DEF PutInPlace, At
  <1>2. HasWritten(p, x) /\ x # Idle
    BY <1>1, WhatRuns DEF Writing, Placing, Typed, Idle
  <1>3. p = "agent" /\ n \in Names /\ x.call.op = "rekey"
    BY <1>1, <1>2, WhatIsCalled DEF HasWritten, Placing
  <1>4. FilesFit(fs') /\ Moves(n, "rekey-new", "balock")
    <2>. HIDE DEF n
    <2>. QED
      BY <1>1, <1>3, MoveFits DEF Typed
  <1>5. HistoryIsTyped'
    <2>1. x.n \in 1 .. calls
      BY <1>2 DEF Typed, CallsAreNumbered
    <2>2. unsaved' \subseteq 1 .. calls
      BY <1>1, <2>1 DEF Typed, HistoryIsTyped
    <2>. QED
      BY <1>1, <2>2, HistoryStays
  <1>6. Typed' /\ GoesOnTo(p, "placed")
    BY <1>1, <1>3, <1>4, <1>5, OutputStepKeeps DEF Writing, Placing
  <1>. QED
    BY <1>1, <1>3, <1>4, <1>6

LEMMA RemoveSupersededKeeps ==
    ASSUME Typed, NEW p \in Procs, RemoveSuperseded(p)
    PROVE  LET x == proc[p] IN
           /\ Typed' /\ p = "agent" /\ x.call.op = "rekey" /\ x.pc = "placed" /\ HasWritten(p, x)
           /\ UNCHANGED <<history, unsaved>>
           /\ fs' = fs \/ fs' = [fs EXCEPT ![<<x.call.name, "rekey-old">>] = Nothing]
           /\ IF x.call.new THEN GoesOnTo(p, "rekeyed") ELSE EndsWith(p, "granted")
  <1>. DEFINE x == proc[p]
              n == x.call.name
  <1>1. /\ x.pc = "placed" /\ UNCHANGED <<inbox, calls, history, unsaved>>
        /\ fs' = fs \/ fs' = [fs EXCEPT ![<<n, "rekey-old">>] = Nothing]
        /\ \/ x.call.new /\ Goes(p, "rekeyed") /\ UNCHANGED <<cli, done>>
           \/ ~x.call.new /\ Return(p, "granted")
    BY DEF RemoveSuperseded, At
  <1>2. HasWritten(p, x) /\ x # Idle
    BY <1>1, WhatRuns DEF Writing, Placing, Typed, Idle
  <1>3. p = "agent" /\ n \in Names /\ x.call.op = "rekey"
    BY <1>1, <1>2, WhatIsCalled DEF HasWritten, Placing
  <1>4. FilesFit(fs')
    BY <1>1, <1>3, RemovalFits, KindsOfPaths DEF Typed
  <1>5. CASE x.call.new
    <2>1. Goes(p, "rekeyed") /\ UNCHANGED <<cli, done>>
      BY <1>1, <1>5
    <2>2. HistoryIsTyped'
      BY <1>1, <2>1, HistoryStays DEF Typed, HistoryIsTyped
    <2>3. Typed' /\ GoesOnTo(p, "rekeyed")
      BY <1>1, <1>3, <1>4, <1>5, <2>1, <2>2, OutputStepKeeps DEF Writing, Placing
    <2>. QED
      BY <1>1, <1>2, <1>3, <1>5, <2>3
  <1>6. CASE ~x.call.new
    <2>1. Return(p, "granted")
      BY <1>1, <1>6
    <2>2. Typed' /\ EndsWith(p, "granted")
      BY <1>1, <1>2, <1>4, <2>1, EndsKeep DEF Typed, HistoryIsTyped
    <2>. QED
      BY <1>1, <1>2, <1>3, <1>6, <2>2
  <1>. QED
    BY <1>5, <1>6

LEMMA SaveKeeps ==
    ASSUME Typed, NEW n \in Edited, Save(n)
    PROVE  /\ Typed' /\ n \in Names /\ fs[<<n, "">>] \in PlainsOf(n)
           /\ UNCHANGED <<inbox, cli, calls, overtaken, faults, unsaved, done>>
           /\ \E content \in Seq(Blocks) :
                /\ SavedAs(n, content)
                /\ \A p \in Procs : \/ proc'[p] = proc[p]
                               \/ /\ p = "agent" /\ ReadsSource(p, proc[p]) /\ ReadsSource(p, proc'[p])
                                  /\ proc'[p].pc = "reading" /\ proc[p].pc = "reading"
                                  /\ proc'[p].call = proc[p].call /\ proc'[p].n = proc[p].n
                                  /\ proc'[p].core = proc[p].core /\ proc'[p].chunks = proc[p].chunks
                                  /\ proc[p].call.name = n /\ proc'[p].source.content = content
  <1>1. n \in Names
    BY Parameters
  <1>2. /\ UNCHANGED <<inbox, cli, calls, overtaken, faults, unsaved, done>> /\ saves' = saves + 1
    BY DEF Save
  <1>3. fs[<<n, "">>] \in PlainsOf(n) /\ \E content \in Seq(Blocks) : SavedAs(n, content)
    BY <1>1, SaveIs DEF Typed
  <1>4. PICK content \in Seq(Blocks) : SavedAs(n, content)
    BY <1>3
  <1>5. /\ FilesFit(fs') /\ OpsRun'
        /\ \A p \in Procs : \/ proc'[p] = proc[p]
                            \/ /\ p = "agent" /\ ReadsSource(p, proc[p]) /\ ReadsSource(p, proc'[p])
                               /\ proc'[p].pc = "reading" /\ proc[p].pc = "reading"
                               /\ proc'[p].call = proc[p].call /\ proc'[p].n = proc[p].n
                               /\ proc'[p].core = proc[p].core /\ proc'[p].chunks = proc[p].chunks
                               /\ proc[p].call.name = n /\ proc'[p].source.content = content
    BY <1>1, <1>4, SavedRuns DEF Typed
  <1>6. HistoryIsTyped'
    <2>1. /\ saved \in [Names -> Seq(Seq(Blocks))] /\ \A d \in Names : saved[d] # <<>>
          /\ saves \in Nat /\ raced \subseteq Names
      BY DEF Typed, HistoryIsTyped
    <2>2. saved' = [saved EXCEPT ![n] = Append(saved[n], content)]
      BY <1>4 DEF SavedAs
    <2>3. Append(saved[n], content) \in Seq(Seq(Blocks)) /\ Append(saved[n], content) # <<>>
      BY <1>1, <2>1
    <2>4. saved' \in [Names -> Seq(Seq(Blocks))] /\ \A d \in Names : saved'[d] # <<>>
      BY <1>1, <2>1, <2>2, <2>3
    <2>5. raced' \subseteq Names
      BY <1>1, <1>4, <2>1 DEF SavedAs
    <2>. QED
      BY <1>2, <2>1, <2>4, <2>5 DEF Typed, HistoryIsTyped
  <1>7. \A q \in Procs : proc'[q] = Idle \/ (/\ proc[q] # Idle
                           /\ proc'[q].n = proc[q].n /\ proc'[q].call = proc[q].call)
    BY <1>5 DEF ReadsSource, Idle
  <1>8. Typed'
    BY <1>2, <1>5, <1>6, <1>7, GoOnKeeps
  <1>. QED
    BY <1>1, <1>2, <1>3, <1>4, <1>5, <1>8

LEMMA WearKeeps ==
    ASSUME Typed, NEW x \in Paths, Wear(x)
    PROVE  /\ Typed' /\ UNCHANGED <<proc, inbox, cli, calls, saved, saves, raced, overtaken, unsaved, done>>
           /\ \A p \in Procs : proc[p] = Idle
           /\ \E n \in Names : /\ x[1] = n /\ fs[x] \in BoxesOf(n)
                               /\ faults' = faults \cup {<<n, "resting">>}
                               /\ \E bad \in BoxesOf(n) : Spoils(fs[x], bad) /\ fs' = [fs EXCEPT ![x] = bad]
  <1>1. /\ \A p \in Procs : At(p, "idle")
        /\ fs[x].kind = "container" /\ MayFail(fs[x].doc, "resting")
        /\ \E bad \in Damaged(fs[x]) : fs' = [fs EXCEPT ![x] = bad]
        /\ faults' = faults \cup {<<fs[x].doc, "resting">>}
        /\ UNCHANGED <<proc, inbox, cli, calls, saved, saves, raced, overtaken, unsaved, done>>
    BY DEF Wear
  <1>2. \A p \in Procs : proc[p] = Idle
    BY <1>1, WhatRuns DEF At, Typed
  <1>3. x[1] \in Names /\ fs[x] \in BoxesOf(x[1]) /\ Fits(x) = {Nothing} \cup BoxesOf(x[1])
    <2>1. fs[x] \in Fits(x)
      BY DEF Typed, FilesFit
    <2>2. x[1] # "code" /\ x[2] # ""
      <3>1. fs[x] # Nothing /\ fs[x] # Claimed /\ fs[x] \notin CodesOnFile
        BY <1>1 DEF Nothing, Claimed, CodesOnFile, Code
      <3>2. \A n : fs[x] \notin PlainsOf(n)
        BY <1>1 DEF PlainsOf, Plains
      <3>. QED
        BY <2>1, <3>1, <3>2 DEF Fits
    <2>3. x[1] \in Names
      BY <2>2, KindsOfPaths
    <2>4. Fits(x) = {Nothing} \cup BoxesOf(x[1])
      BY <2>2 DEF Fits
    <2>. QED
      BY <1>1, <2>1, <2>3, <2>4, FileKinds
  <1>. DEFINE n == x[1]
  <1>. HIDE DEF n
  <1>4. n = x[1] /\ n \in Names /\ fs[x] \in BoxesOf(n) /\ fs[x].doc = n
        /\ Fits(x) = {Nothing} \cup BoxesOf(n)
    BY <1>3, FileKinds DEF n
  <1>5. PICK bad \in Damaged(fs[x]) : fs' = [fs EXCEPT ![x] = bad]
    BY <1>1
  <1>6. bad \in BoxesOf(n) /\ Spoils(fs[x], bad)
    BY <1>4, <1>5, DamagedIs
  <1>7. FilesFit(fs')
    <2>1. bad \in Fits(x)
      BY <1>4, <1>6
    <2>2. FilesFit([fs EXCEPT ![x] = bad])
      BY <2>1, FileStep DEF Typed
    <2>. QED
      BY <1>5, <2>2
  <1>8. HistoryIsTyped'
    <2>. DEFINE t == <<n, "resting">>
    <2>1. faults' = faults \cup {t} /\ t \notin faults /\ Cardinality(faults) < MaxFaults
      BY <1>1, <1>4 DEF MayFail
    <2>2. IsFiniteSet(faults) /\ faults \subseteq Names \X {"writing", "resting", "restoring"}
      BY DEF Typed, HistoryIsTyped
    <2>3. t \in Names \X {"writing", "resting", "restoring"}
      BY <1>4
    <2>. HIDE DEF t
    <2>4. IsFiniteSet(faults') /\ Cardinality(faults') = Cardinality(faults) + 1
          /\ Cardinality(faults) \in Nat
      BY <2>1, <2>2, FS_AddElement, FS_CardinalityType
    <2>5. Cardinality(faults') <= MaxFaults
      BY <2>1, <2>4, Parameters
    <2>6. faults' \subseteq Names \X {"writing", "resting", "restoring"}
      BY <2>1, <2>2, <2>3
    <2>. QED
      BY <1>1, <2>4, <2>5, <2>6 DEF Typed, HistoryIsTyped
  <1>9. OpsRun'
    BY <1>1 DEF Typed, OpsRun, Runs, Opens, ReadsSource, HasWritten
  <1>10. Typed'
    BY <1>1, <1>2, <1>7, <1>8, <1>9, GoOnKeeps
  <1>. QED
    BY <1>1, <1>2, <1>4, <1>5, <1>6, <1>10

LEMMA TypesAreKept == Typed /\ [Next]_vars => Typed'
  <1>. SUFFICES ASSUME Typed, [Next]_vars
                PROVE  Typed'
    OBVIOUS
  <1>2. CASE UNCHANGED vars
    <2>1. UNCHANGED <<fs, proc, inbox, cli, calls, history, unsaved, done>>
      BY <1>2 DEF vars, history
    <2>2. FilesFit(fs') /\ HistoryIsTyped'
      BY <2>1, HistoryStays DEF Typed, HistoryIsTyped
    <2>3. OpsRun'
      BY <2>1 DEF Typed, OpsRun, Runs, Opens, ReadsSource, HasWritten
    <2>4. \A p \in Procs : proc'[p] = Idle \/ (/\ proc[p] # Idle
                               /\ proc'[p].n = proc[p].n /\ proc'[p].call = proc[p].call)
      BY <2>1
    <2>. QED
      BY <2>1, <2>2, <2>3, <2>4, GoOnKeeps
  <1>3. CASE (\E b \in Batches : Start(b)) \/ GiveUp \/ Report \/ Leave
    BY <1>3, BatchStepsKeep
  <1>4. CASE Ask
    BY <1>4, AskKeeps
  <1>5. CASE \E c \in inbox : Begin(c) \/ Refuse(c)
    BY <1>5, BeginKeeps, RefuseKeeps
  <1>6. CASE \E name \in Recoveries, keep \in BOOLEAN : Recover(name, keep)
    BY <1>6, RecoverKeeps
  <1>7. CASE \E n \in Edited : Save(n)
    BY <1>7, SaveKeeps
  <1>8. CASE \E x \in Paths : Wear(x)
    BY <1>8, WearKeeps
  <1>9. ASSUME NEW p \in Procs,
               \/ Exchange(p) \/ Decline(p) \/ Write(p) \/ ReadChunk(p)
               \/ Check(p) \/ Publish(p) \/ Verify(p)
        PROVE  Typed'
    BY <1>9, ExchangeKeeps, AbortKeeps, WriteKeeps, ReadChunkKeeps, CheckKeeps, PublishKeeps, VerifyKeeps
  <1>10. ASSUME NEW p \in Procs,
                \/ SaveCode(p) \/ RemoveOriginal(p) \/ RemoveContainer(p)
                \/ SetAside(p) \/ PutInPlace(p) \/ RemoveSuperseded(p) \/ SaveNewCode(p)
                \/ Abort(p) \/ Kill(p)
         PROVE  Typed'
    BY <1>10, SaveCodeKeeps, RemoveOriginalKeeps, RemoveContainerKeeps, SetAsideKeeps, PutInPlaceKeeps,
       RemoveSupersededKeeps, SaveNewCodeKeeps, AbortKeeps, KillKeeps
  <1>. QED
    BY <1>2, <1>3, <1>4, <1>5, <1>6, <1>7, <1>8, <1>9, <1>10 DEF Next

LEMMA AlwaysTyped == Spec => []Typed
  BY TypedInitially, TypesAreKept, PTL DEF Spec

(* Every file is of the kind its path calls for, an operation is at one of *)
(* its steps, and no call has a number that was not given out.             *)
THEOREM LockerTypeCorrect == Spec => []TypeOK
  <1>1. Typed => TypeOK
    <2>. SUFFICES ASSUME Typed
                  PROVE  TypeOK
      OBVIOUS
    <2>2. DOMAIN fs = Paths
      BY DEF Typed, FilesFit
    <2>3. ASSUME NEW x \in Paths
          PROVE  fs[x].kind \in {"nothing"} \cup
                   (IF x[1] = "code" THEN {"claimed", "code"}
                    ELSE IF x[2] = "" THEN {"plain"} ELSE {"container"})
      <3>1. fs[x] \in Fits(x)
        BY DEF Typed, FilesFit
      <3>2. CASE x[1] = "code"
        BY <3>1, <3>2 DEF Fits, CodesOnFile, Code, Nothing, Claimed
      <3>3. CASE x[1] # "code"
        BY <3>1, <3>3, FileKinds DEF Fits
      <3>. QED
        BY <3>2, <3>3
    <2>4. ASSUME NEW p \in Procs
          PROVE  proc[p].pc \in
            {"idle", "asking", "unwrapped", "keyed", "reading", "checking", "renaming",
             "verifying", "verified", "saved", "aside", "placed", "rekeyed"}
      BY DEF Typed, OpsRun, Runs, Opens, ReadsSource, HasWritten, Idle, Writing, Placing
    <2>5. calls \in 0 .. MaxCalls /\ {c.id : c \in inbox} \cup done \cup unsaved \subseteq 1 .. calls
      <3>1. calls \in Nat /\ calls <= MaxCalls /\ MaxCalls \in Nat
        BY Parameters DEF Typed, CallsAreNumbered
      <3>2. \A c \in inbox : c.id \in 1 .. calls
        BY DEF Typed, CallsAreNumbered
      <3>3. unsaved \subseteq 1 .. calls /\ done \subseteq 1 .. calls
        BY DEF Typed, HistoryIsTyped
      <3>4. {c.id : c \in inbox} \subseteq 1 .. calls
        BY <3>2
      <3>5. calls \in 0 .. MaxCalls
        BY <3>1
      <3>. HIDE DEF Typed
      <3>. QED
        BY ONLY <3>3, <3>4, <3>5, Zenon
    <2>6. raced \subseteq Names /\ Cardinality(faults) <= MaxFaults
      BY DEF Typed, HistoryIsTyped
    <2>. QED
      BY <2>2, <2>3, <2>4, <2>5, <2>6 DEF TypeOK
  <1>. QED
    BY AlwaysTyped, <1>1, PTL

(* The command line says that all went well only if every target's call    *)
(* was made and succeeded (main.rs locker_batch): whatever came too late,  *)
(* was refused or lost with the agent is counted as a failure.             *)
THEOREM BatchesTellTheTruth == Spec => []BatchTellsTheTruth
  <1>1. Typed => BatchTellsTheTruth
    <2>. SUFFICES ASSUME Typed, cli.pc = "reported", cli.exit = "granted"
                  PROVE  cli.ids \subseteq done /\ Cardinality(cli.ids) = Len(cli.batch.targets)
      BY DEF BatchTellsTheTruth
    <2>2. BatchCounts(cli)
      BY DEF Typed, BatchIsTyped, Idle
    <2>3. cli.failed = 0 /\ cli.at = Len(cli.batch.targets) + 1 /\ cli.batch \in Batches
      BY <2>2 DEF BatchCounts
    <2>4. Cardinality(cli.ids) = Asked(cli) /\ \A id \in cli.ids : id \in done
      BY <2>2, <2>3 DEF BatchCounts
    <2>5. Asked(cli) = cli.at - 1 /\ Len(cli.batch.targets) \in Nat
      BY <2>3, Parameters DEF Asked
    <2>. QED
      BY <2>3, <2>4, <2>5
  <1>. QED
    BY AlwaysTyped, <1>1, PTL

(***************************************************************************)
(* What is in a container.  A ledger says what each lock of a document     *)
(* sealed: every container held anywhere, in the directory or by an        *)
(* operation, holds sound chunks of that alone, in whatever order, and     *)
(* unless the document was saved while it was locked, that is a version    *)
(* somebody saved.  So an intact container opens to a saved version.  And  *)
(* one of its two wrappers is intact, or both unless a write of it failed. *)
(***************************************************************************)

Opening == {"asking", "unwrapped", "keyed"}

(* The files of the directory, and those the operations hold.              *)
Holding(f) ==
    \/ \E x \in Paths : f = fs[x]
    \/ \E p \in Procs : proc[p].pc \in Opening /\ f = proc[p].input
    \/ \E p \in Procs : proc[p].pc \in Writing /\ f = proc[p].temp

(* Numbers of calls that have sealed nothing.                              *)
Unused(m) ==
    \/ m > calls
    \/ \E c \in inbox : c.id = m
    \/ \E p \in Procs : /\ proc[p].pc \in Opening \cup {"reading"}
                        /\ proc[p].call.op = "lock" /\ proc[p].n = m

(* Nothing saved while a lock read it, nor restored by a disk that failed. *)
Unspoilt(n) == n \notin raced /\ <<n, "restoring">> \notin faults

SavedIn(n, content) == \E i \in 1 .. Len(saved[n]) : saved[n][i] = content

SealedFrom(s, b) ==
    /\ b.core.len = Len(s)
    /\ \A i \in 1 .. Len(b.chunks) :
         \/ ~b.chunks[i].sound
         \/ \E j \in 1 .. ChunkCount(b.core) : b.chunks[i] = SealChunk(b.core, j, Part(b.core, j, s))

Ledgers == [Names -> [Nat -> Seq(Blocks)]]

(* T says what the call of a number sealed of a document.  A file is honest*)
(* when what it opens to, if it opens, is what T says, which is something  *)
(* somebody saved unless that save raced a lock or an unlock did not get   *)
(* it onto the disk.                                                       *)
HonestPlain(f) == Unspoilt(f.doc) => SavedIn(f.doc, f.content)
Wrapped(b) ==
    /\ b.phone.sound \/ b.recovery.sound
    /\ (b.phone.sound /\ b.recovery.sound) \/ <<b.doc, "writing">> \in faults
HonestBox(T, b) ==
    LET s == T[b.doc][b.core.id] IN
    /\ SealedFrom(s, b) /\ ~Unused(b.core.id)
    /\ Unspoilt(b.doc) => SavedIn(b.doc, s)
    /\ <<b.doc, "resting">> \notin faults => Wrapped(b)
Honest(T, f) == (f \in Plains => HonestPlain(f)) /\ (f \in Boxes => HonestBox(T, f))

ReadsHonestly(x) ==
    Unspoilt(x.call.name) =>
        /\ SavedIn(x.call.name, x.source.content)
        /\ Len(x.source.content) = x.core.len =>
             \A i \in 1 .. Len(x.chunks) : x.chunks[i].data = Part(x.core, i, x.source.content)

Ledger(T) ==
    /\ \A f : Holding(f) => Honest(T, f)
    /\ \A p \in Procs : proc[p].pc = "reading" => ReadsHonestly(proc[p])

(* An intact container opens to what the ledger says.                      *)
LEMMA ContentIsTheLedgers ==
    ASSUME NEW b \in Boxes, Decrypts(b), NEW s \in Seq(Blocks), SealedFrom(s, b)
    PROVE  Content(b) = s
  <1>1. /\ Joins(b) /\ Len(b.chunks) = ChunkCount(b.core)
        /\ \A i \in 1 .. ChunkCount(b.core) : b.chunks[i].sound
    BY DecryptedIsTyped
  <1>2. b.core.len = Len(s) /\ b.core.len \in Nat
    BY DEF SealedFrom, Boxes, Cores
  <1>3. ASSUME NEW i \in 1 .. ChunkCount(b.core)
        PROVE  b.chunks[i].data = Part(b.core, i, s)
    <2>1. PICK j \in 1 .. ChunkCount(b.core) : b.chunks[i] = SealChunk(b.core, j, Part(b.core, j, s))
      BY <1>1 DEF SealedFrom
    <2>2. b.chunks[i].index = i
      BY <1>1 DEF Decrypts, OpensAs
    <2>. QED
      BY <2>1, <2>2 DEF SealChunk
  <1>. QED
    BY <1>1, <1>2, <1>3, WholeOfTheParts

(* What somebody saved stays saved.                                        *)
HistoryGrows ==
    /\ raced \subseteq raced' /\ faults \subseteq faults'
    /\ \A n \in Names : Len(saved[n]) <= Len(saved'[n])
                        /\ \A i \in 1 .. Len(saved[n]) : saved'[n][i] = saved[n][i]

NumbersShrink == \A m \in Nat : Unused(m)' => Unused(m)

LEMMA SavedStays ==
    ASSUME HistoryIsTyped, HistoryIsTyped', HistoryGrows, NEW n \in Names, NEW content, SavedIn(n, content)
    PROVE  SavedIn(n, content)'
  <1>1. PICK i \in 1 .. Len(saved[n]) : saved[n][i] = content
    BY DEF SavedIn
  <1>2. saved'[n][i] = content /\ Len(saved[n]) <= Len(saved'[n])
    BY <1>1 DEF HistoryGrows
  <1>3. Len(saved[n]) \in Nat /\ Len(saved'[n]) \in Nat
    BY DEF HistoryIsTyped
  <1>4. i \in 1 .. Len(saved'[n])
    BY <1>2, <1>3
  <1>. QED
    BY <1>2, <1>4 DEF SavedIn

LEMMA HonestStays ==
    ASSUME HistoryIsTyped, HistoryIsTyped', HistoryGrows, NumbersShrink, NEW T \in Ledgers,
           NEW f, Honest(T, f)
    PROVE  Honest(T, f)'
  <1>1. ASSUME f \in Plains
        PROVE  HonestPlain(f)'
    <2>1. f.doc \in Names /\ HonestPlain(f)
      BY <1>1 DEF Plains, Honest
    <2>. QED
      BY <2>1, SavedStays DEF HonestPlain, HistoryGrows, Unspoilt
  <1>2. ASSUME f \in Boxes
        PROVE  HonestBox(T, f)'
    <2>1. f.doc \in Names /\ f.core.id \in Nat /\ HonestBox(T, f)
      BY <1>2 DEF Boxes, Cores, Honest
    <2>. DEFINE s == T[f.doc][f.core.id]
    <2>2. SealedFrom(s, f) /\ ~Unused(f.core.id) /\ (Unspoilt(f.doc) => SavedIn(f.doc, s))
      BY <2>1 DEF HonestBox
    <2>3. ~Unused(f.core.id)'
      BY <2>1, <2>2 DEF NumbersShrink
    <2>. HIDE DEF s
    <2>4. Unspoilt(f.doc)' => SavedIn(f.doc, s)'
      BY <2>1, <2>2, SavedStays DEF HistoryGrows, Unspoilt
    <2>5. <<f.doc, "resting">> \notin faults' => Wrapped(f)'
      BY <2>1 DEF HonestBox, HistoryGrows, Wrapped
    <2>. QED
      BY <2>2, <2>3, <2>4, <2>5 DEF HonestBox, SealedFrom, s
  <1>. QED
    BY <1>1, <1>2 DEF Honest

LEMMA LedgerKept ==
    ASSUME HistoryIsTyped, HistoryIsTyped', HistoryGrows, NumbersShrink, NEW T \in Ledgers, Ledger(T),
           \A f : Holding(f)' => Holding(f) \/ Honest(T, f)',
           \A p \in Procs : proc'[p].pc = "reading" => ReadsHonestly(proc[p])'
    PROVE  Ledger(T)'
  <1>1. ASSUME NEW f, Holding(f)'
        PROVE  Honest(T, f)'
    <2>1. CASE Holding(f)
      <3>1. Honest(T, f)
        BY <2>1 DEF Ledger
      <3>. QED
        BY <3>1, HonestStays
    <2>. QED
      BY <1>1, <2>1
  <1>. QED
    BY <1>1 DEF Ledger

LEMMA SpoiledIsHonest ==
    ASSUME HistoryIsTyped, HistoryIsTyped', HistoryGrows, NumbersShrink, NEW T \in Ledgers,
           NEW b \in Boxes, Honest(T, b), NEW bad \in Boxes, Spoils(b, bad),
           \/ <<b.doc, "resting">> \in faults'
           \/ <<b.doc, "writing">> \in faults' /\ b.phone.sound /\ b.recovery.sound
    PROVE  Honest(T, bad)'
  <1>1. HonestBox(T, b)' /\ bad.doc = b.doc /\ bad.core = b.core /\ TakenFrom(bad.chunks, b.chunks)
    BY HonestStays DEF Honest, Spoils
  <1>2. SealedFrom(T[b.doc][b.core.id], bad)
    BY <1>1 DEF HonestBox, SealedFrom, TakenFrom
  <1>3. bad \notin Plains
    BY DEF Boxes, Plains
  <1>4. <<b.doc, "resting">> \notin faults' => Wrapped(bad)'
    BY <1>1 DEF Spoils, Wrapped
  <1>5. HonestBox(T, bad)'
    BY <1>1, <1>2, <1>4 DEF HonestBox, SealedFrom
  <1>. QED
    BY <1>3, <1>5 DEF Honest

LEMMA RewrappedIsHonest ==
    ASSUME NEW T, NEW b \in Boxes, Honest(T, b), NEW new \in Boxes,
           new.doc = b.doc, new.core = b.core, new.chunks = b.chunks,
           new.phone.sound, new.recovery = b.recovery \/ new.recovery.sound
    PROVE  Honest(T, new)
  <1>1. HonestBox(T, b) /\ new \notin Plains
    BY DEF Honest, Boxes, Plains
  <1>2. <<b.doc, "resting">> \notin faults => Wrapped(new)
    BY <1>1 DEF HonestBox, Wrapped
  <1>. QED
    BY <1>1, <1>2 DEF Honest, HonestBox, SealedFrom

LEMMA DecryptedIsHonest ==
    ASSUME NEW T \in Ledgers, NEW n \in Names, NEW b \in BoxesOf(n), Honest(T, b), Decrypts(b)
    PROVE  Honest(T, Plain(n, Content(b)))
  <1>1. b \in Boxes /\ b.doc = n /\ b.core.id \in Nat
    BY FileKinds DEF Cores
  <1>. DEFINE s == T[n][b.core.id]
  <1>2. SealedFrom(s, b) /\ (Unspoilt(n) => SavedIn(n, s))
    BY <1>1 DEF Honest, HonestBox
  <1>3. s \in Seq(Blocks)
    BY <1>1 DEF Ledgers
  <1>4. Content(b) = s
    BY <1>1, <1>2, <1>3, ContentIsTheLedgers
  <1>. HIDE DEF s
  <1>. QED
    BY <1>2, <1>4 DEF Honest, HonestPlain, Plain, Boxes

(* The files nobody has to answer for.                                     *)
LEMMA NoDocumentIsHonest ==
    ASSUME NEW T
    PROVE  /\ Honest(T, Nothing) /\ Honest(T, Claimed) /\ \A m : Honest(T, Code(m))
           /\ \A x \in Paths : Holding(fs[x])
  BY DEF Honest, Plains, Boxes, Nothing, Claimed, Code, Holding

LEMMA SameHistory ==
    ASSUME HistoryIsTyped, saved' = saved, raced \subseteq raced', faults \subseteq faults'
    PROVE  HistoryGrows
  BY DEF HistoryIsTyped, HistoryGrows

LEMMA OpsShrink ==
    ASSUME calls' = calls, inbox' \subseteq inbox,
           \A p \in Procs : \/ proc'[p] = Idle \/ proc'[p] = proc[p]
                            \/ /\ proc'[p].call = proc[p].call /\ proc'[p].n = proc[p].n
                               /\ proc[p].pc \in Opening \cup {"reading"}
                            \/ proc'[p].pc \in Writing
    PROVE  NumbersShrink
  <1>1. SUFFICES ASSUME NEW m \in Nat, Unused(m)'
                 PROVE  Unused(m)
    BY DEF NumbersShrink
  <1>2. CASE m > calls' \/ \E c \in inbox' : c.id = m
    BY <1>2 DEF Unused
  <1>3. ASSUME NEW p \in Procs, proc'[p].pc \in Opening \cup {"reading"},
               proc'[p].call.op = "lock", proc'[p].n = m
        PROVE  Unused(m)
    <2>1. proc'[p] # Idle /\ proc'[p].pc \notin Writing
      BY <1>3 DEF Idle, Opening, Writing, Placing
    <2>. QED
      BY <1>3, <2>1 DEF Unused
  <1>. QED
    BY <1>1, <1>2, <1>3 DEF Unused

(* What a step does with the files.                                        *)
LEMMA LedgerStep ==
    ASSUME HistoryIsTyped, HistoryIsTyped', HistoryGrows, NumbersShrink, NEW T \in Ledgers, Ledger(T),
           \A x \in Paths : Holding(fs'[x]) \/ Honest(T, fs'[x]) \/ Honest(T, fs[x])',
           \A p \in Procs :
             /\ proc'[p].pc \in Opening => Holding(proc'[p].input) \/ Honest(T, proc'[p].input)
             /\ proc'[p].pc \in Writing => Holding(proc'[p].temp) \/ Honest(T, proc'[p].temp)
             /\ proc'[p].pc = "reading" => ReadsHonestly(proc[p])'
    PROVE  Ledger(T)'
  <1>1. ASSUME NEW f, Holding(f)'
        PROVE  Honest(T, f)'
    <2>1. Holding(f) \/ Honest(T, f) \/ Honest(T, f)'
      BY <1>1 DEF Holding
    <2>2. CASE Holding(f) \/ Honest(T, f)
      <3>1. Honest(T, f)
        BY <2>2 DEF Ledger
      <3>. QED
        BY <3>1, HonestStays
    <2>. QED
      BY <2>1, <2>2
  <1>. QED
    BY <1>1 DEF Ledger

(* An operation goes on with what it holds, or ends.                       *)
HoldsStill(p) ==
    \/ proc'[p] = Idle \/ proc'[p] = proc[p]
    \/ /\ proc'[p].pc \in Opening /\ proc[p].pc \in Opening /\ proc'[p].input = proc[p].input
       /\ proc'[p].call = proc[p].call /\ proc'[p].n = proc[p].n
    \/ proc'[p].pc \in Writing /\ proc[p].pc \in Writing /\ proc'[p].temp = proc[p].temp

LEMMA NothingLearnt ==
    ASSUME HistoryIsTyped, HistoryIsTyped', NEW T \in Ledgers, Ledger(T), calls' = calls, inbox' \subseteq inbox,
           UNCHANGED <<saved, raced>>, faults \subseteq faults',
           \A x \in Paths : Holding(fs'[x]) \/ Honest(T, fs'[x]) \/ Honest(T, fs[x])',
           \A p \in Procs : HoldsStill(p)
    PROVE  Ledger(T)'
  <1>1. NumbersShrink
    BY OpsShrink DEF HoldsStill
  <1>2. ASSUME NEW p \in Procs
        PROVE  /\ proc'[p].pc \in Opening => Holding(proc'[p].input)
               /\ proc'[p].pc \in Writing => Holding(proc'[p].temp)
               /\ proc'[p].pc = "reading" => ReadsHonestly(proc[p])'
    <2>1. Idle.pc \notin Opening /\ Idle.pc \notin Writing /\ Idle.pc # "reading"
      BY DEF Idle, Opening, Writing, Placing
    <2>2. \A pc \in Opening : pc \notin Writing /\ pc # "reading"
      BY DEF Opening, Writing, Placing
    <2>3. "reading" \notin Writing
      BY DEF Writing, Placing
    <2>4. CASE proc'[p] = proc[p]
      <3>1. proc[p].pc = "reading" => ReadsHonestly(proc[p])
        BY DEF Ledger
      <3>. QED
        BY <2>4, <3>1 DEF Holding, ReadsHonestly, SavedIn, Unspoilt
    <2>. QED
      BY <2>1, <2>2, <2>3, <2>4 DEF HoldsStill, Holding
  <1>3. HistoryGrows
    BY SameHistory
  <1>. QED
    BY <1>1, <1>2, <1>3, LedgerStep

LEMMA OneFileHeld ==
    ASSUME FilesFit(fs), NEW T, NEW y \in Paths, NEW f, Holding(f) \/ Honest(T, f) \/ Honest(T, f)',
           fs' = [fs EXCEPT ![y] = f]
    PROVE  \A x \in Paths : Holding(fs'[x]) \/ Honest(T, fs'[x]) \/ Honest(T, fs[x])'
  <1>1. \A x \in Paths : fs'[x] = IF x = y THEN f ELSE fs[x]
    BY DEF FilesFit
  <1>2. SUFFICES ASSUME NEW x \in Paths
                 PROVE  Holding(fs'[x]) \/ Honest(T, fs'[x]) \/ Honest(T, fs[x])'
    OBVIOUS
  <1>3. CASE x = y
    <2>1. fs'[x] = f
      BY <1>1, <1>3
    <2>2. Honest(T, f)' => Honest(T, fs[x])'
      BY <2>1
    <2>. QED
      BY <2>1, <2>2
  <1>4. CASE x # y
    BY <1>1, <1>4, NoDocumentIsHonest
  <1>. QED
    BY <1>3, <1>4

LEMMA BatchLedger ==
    ASSUME Typed, Typed', NEW T \in Ledgers, Ledger(T),
           \/ GiveUp \/ Report \/ Leave \/ \E b \in Batches : Start(b)
           \/ \E c \in inbox : Refuse(c)
    PROVE  Ledger(T)'
  <1>1. fs' = fs /\ proc' = proc /\ calls' = calls /\ inbox' \subseteq inbox /\ UNCHANGED <<saved, raced, faults>>
    BY DEF GiveUp, Report, Leave, Start, Refuse, history
  <1>2. \A x \in Paths : Holding(fs'[x]) \/ Honest(T, fs'[x])
    BY <1>1, NoDocumentIsHonest
  <1>. QED
    BY <1>1, <1>2, NothingLearnt DEF HoldsStill, Typed

LEMMA AskLedger ==
    ASSUME Typed, Typed', NEW T \in Ledgers, Ledger(T), Ask
    PROVE  Ledger(T)'
  <1>1. /\ fs' = fs /\ proc' = proc /\ UNCHANGED <<saved, raced, faults>> /\ calls' = calls + 1 /\ calls \in Nat
        /\ \A c \in inbox' : c \in inbox \/ c.id = calls + 1
    BY DEF Ask, history, Typed, CallsAreNumbered
  <1>2. NumbersShrink
    BY <1>1 DEF NumbersShrink, Unused
  <1>3. HistoryGrows
    BY <1>1, SameHistory DEF Typed
  <1>4. \A p \in Procs : proc'[p].pc = "reading" => ReadsHonestly(proc[p])'
    BY <1>1 DEF Ledger, ReadsHonestly, SavedIn, Unspoilt
  <1>5. \A p \in Procs : /\ proc'[p].pc \in Opening => Holding(proc'[p].input)
                         /\ proc'[p].pc \in Writing => Holding(proc'[p].temp)
    BY <1>1 DEF Holding
  <1>6. \A x \in Paths : Holding(fs'[x])
    BY <1>1, NoDocumentIsHonest
  <1>. QED
    BY <1>2, <1>3, <1>4, <1>5, <1>6, LedgerStep DEF Typed

(* A call is begun, or a recovery.                                         *)
LEMMA OpenedLedger ==
    ASSUME Typed, Typed', NEW T \in Ledgers, Ledger(T), NEW p \in Procs, NEW c \in CallsOf(p), NEW n \in Nat,
           NEW pc, OpenedAs(p, c, n, pc), pc \in {"asking", "keyed"}, UNCHANGED <<saved, raced, faults>>,
           fs' = fs \/ \E y \in Paths : fs' = [fs EXCEPT ![y] = Claimed],
           calls <= calls', inbox' \subseteq inbox, c.op = "lock" => Unused(n)
    PROVE  Ledger(T)'
  <1>1. /\ Opens(p, proc'[p]) /\ proc'[p].pc = pc /\ proc'[p].call = c /\ proc'[p].n = n /\ proc[p] = Idle
        /\ \A q \in Procs : q # p => proc'[q] = proc[q]
        /\ proc'[p].input = Nothing \/ (c.name \in Names /\ proc'[p].input = fs[<<c.name, "balock">>])
    BY WhatIsCalled DEF OpenedAs
  <1>2. NumbersShrink
    <2>1. ASSUME NEW m \in Nat, Unused(m)'
          PROVE  Unused(m)
      <3>1. CASE m > calls' \/ \E o \in inbox' : o.id = m
        <4>1. calls \in Nat /\ calls' \in Nat
          BY DEF Typed, CallsAreNumbered
        <4>. QED
          BY <3>1, <4>1 DEF Unused
      <3>2. ASSUME NEW q \in Procs, proc'[q].pc \in Opening \cup {"reading"},
                   proc'[q].call.op = "lock", proc'[q].n = m
            PROVE  Unused(m)
        BY <1>1, <3>2 DEF Unused
      <3>. QED
        BY <2>1, <3>1, <3>2 DEF Unused
    <2>. QED
      BY <2>1 DEF NumbersShrink
  <1>3. HistoryGrows
    BY SameHistory DEF Typed
  <1>4. \A x \in Paths : Holding(fs'[x]) \/ Honest(T, fs'[x]) \/ Honest(T, fs[x])'
    <2>1. CASE fs' = fs
      BY <2>1, NoDocumentIsHonest
    <2>2. CASE \E y \in Paths : fs' = [fs EXCEPT ![y] = Claimed]
      BY <2>2, NoDocumentIsHonest, OneFileHeld DEF Typed
    <2>. QED
      BY <2>1, <2>2
  <1>5. Holding(proc'[p].input) \/ Honest(T, proc'[p].input)
    BY <1>1, NoDocumentIsHonest, KindsOfPaths
  <1>6. ASSUME NEW q \in Procs
        PROVE  /\ proc'[q].pc \in Opening => Holding(proc'[q].input) \/ Honest(T, proc'[q].input)
               /\ proc'[q].pc \in Writing => Holding(proc'[q].temp) \/ Honest(T, proc'[q].temp)
               /\ proc'[q].pc = "reading" => ReadsHonestly(proc[q])'
    <2>1. CASE q = p
      BY <1>1, <1>5, <2>1 DEF Writing, Placing
    <2>2. CASE q # p
      <3>1. proc'[q] = proc[q] /\ (proc[q].pc = "reading" => ReadsHonestly(proc[q]))
        BY <1>1, <2>2 DEF Ledger
      <3>. QED
        BY <3>1 DEF Holding, ReadsHonestly, SavedIn, Unspoilt
    <2>. QED
      BY <2>1, <2>2
  <1>. QED
    BY <1>2, <1>3, <1>4, <1>6, LedgerStep DEF Typed

LEMMA BeginLedger ==
    ASSUME Typed, Typed', NEW T \in Ledgers, Ledger(T), NEW c \in inbox, Begin(c)
    PROVE  Ledger(T)'
  <1>1. /\ c \in AgentCalls /\ CallsOf("agent") = AgentCalls /\ OpenedAs("agent", c, c.id, "asking")
        /\ c.id \in 1 .. calls /\ inbox' = inbox \ {c}
        /\ NeedsSlot(c) => fs' = [fs EXCEPT ![Slot(c)] = Claimed]
        /\ ~NeedsSlot(c) => fs' = fs
    BY BeginKeeps
  <1>2. calls' = calls /\ calls \in Nat /\ UNCHANGED <<saved, raced, faults>>
    BY DEF Begin, history, Typed, CallsAreNumbered
  <1>3. "agent" \in Procs /\ c.id \in Nat /\ Unused(c.id) /\ (NeedsSlot(c) => Slot(c) \in Paths)
    BY <1>1, <1>2, WhatIsCalled DEF Procs, Unused
  <1>4. fs' = fs \/ \E y \in Paths : fs' = [fs EXCEPT ![y] = Claimed]
    BY <1>1, <1>3
  <1>. QED
    BY <1>1, <1>2, <1>3, <1>4, OpenedLedger

LEMMA RecoverLedger ==
    ASSUME Typed, Typed', NEW T \in Ledgers, Ledger(T), NEW name \in Recoveries, NEW keep \in BOOLEAN,
           Recover(name, keep)
    PROVE  Ledger(T)'
  <1>1. /\ RecoverCall(name, keep) \in CallsOf("cli") /\ calls \in Nat
        /\ OpenedAs("cli", RecoverCall(name, keep), calls + 1, "keyed") /\ fs' = fs /\ inbox' = inbox
        /\ UNCHANGED <<saved, raced, faults>>
    BY RecoverKeeps DEF history
  <1>2. calls' = calls + 1
    BY DEF Recover
  <1>3. "cli" \in Procs /\ calls + 1 \in Nat /\ calls <= calls' /\ RecoverCall(name, keep).op # "lock"
    BY <1>1, <1>2 DEF Procs, RecoverCall
  <1>. QED
    BY <1>1, <1>2, <1>3, OpenedLedger

LEMMA WriteLedger ==
    ASSUME Typed, Typed', NEW T \in Ledgers, Ledger(T), NEW p \in Procs, Write(p)
    PROVE  Ledger(T)'
  <1>. DEFINE x == proc[p]
              y == proc'[p]
  <1>1. /\ Opens(p, x) /\ x.pc = "keyed" /\ \A q \in Procs : q # p => proc'[q] = proc[q]
        /\ y.call = x.call /\ y.n = x.n
        /\ \/ /\ x.call.op = "lock" /\ ReadsSource(p, y) /\ y.pc = "reading" /\ y.core = x.core
              /\ y.chunks = <<>> /\ y.source = fs[<<x.call.name, "">>]
           \/ /\ x.call.op = "rekey" /\ y.pc = "checking" /\ y.temp = Rewrapped(x)
           \/ /\ x.call.op \in {"unlock", "recover"} /\ y.pc = "checking" /\ Decrypts(x.input)
              /\ y.temp = Plain(x.call.name, Content(x.input))
    BY WriteRuns DEF Typed
  <1>2. fs' = fs /\ calls' = calls /\ inbox' = inbox /\ UNCHANGED <<saved, raced, faults>>
    BY DEF Write, history
  <1>3. x.call.name \in Names /\ Holding(x.input) /\ (x.call.op # "lock" => x.input \in BoxesOf(x.call.name))
    <2>1. x.call \in CallsOf(p) /\ (x.call.op # "lock" => x.input \in BoxesOf(x.call.name))
      BY <1>1 DEF Opens
    <2>2. Holding(x.input)
      BY <1>1 DEF Holding, Opening
    <2>. QED
      BY <2>1, <2>2, WhatIsCalled
  <1>4. Honest(T, x.input)
    BY <1>3 DEF Ledger
  <1>. HIDE DEF x, y
  <1>5. ASSUME y.pc = "checking"
        PROVE  Honest(T, y.temp)
    <2>1. CASE x.call.op = "rekey"
      <3>1. Rewrapped(x) \in Boxes /\ x.input \in Boxes
        BY <1>1, <1>3, <2>1, RewrappedIsTyped, FileKinds
      <3>2. Rewrapped(x).doc = x.input.doc /\ Rewrapped(x).core = x.input.core
            /\ Rewrapped(x).chunks = x.input.chunks
            /\ Rewrapped(x).phone.sound
            /\ (Rewrapped(x).recovery = x.input.recovery \/ Rewrapped(x).recovery.sound)
        <4>1. x.phone.sound
          BY <1>1, <2>1 DEF Opens, Wrapper
        <4>. QED
          BY <3>1, <4>1 DEF Rewrapped, Boxes, Wrapper
      <3>3. Honest(T, Rewrapped(x))
        BY <1>4, <3>1, <3>2, RewrappedIsHonest
      <3>4. y.temp = Rewrapped(x)
        BY <1>1, <2>1
      <3>. QED
        BY <3>3, <3>4
    <2>2. CASE x.call.op \in {"unlock", "recover"}
      <3>1. Decrypts(x.input) /\ y.temp = Plain(x.call.name, Content(x.input)) /\ x.input \in BoxesOf(x.call.name)
        BY <1>1, <1>3, <2>2
      <3>. QED
        BY <1>3, <1>4, <3>1, DecryptedIsHonest
    <2>. QED
      BY <1>1, <1>5, <2>1, <2>2
  <1>6. ASSUME y.pc = "reading"
        PROVE  ReadsHonestly(proc[p])'
    <2>1. ReadsSource(p, y) /\ y.chunks = <<>> /\ y.source = fs[<<x.call.name, "">>] /\ y.call.name = x.call.name
      BY <1>1, <1>6
    <2>2. y.source \in Plains /\ y.source.doc = x.call.name
      BY <2>1 DEF ReadsSource
    <2>3. Holding(y.source)
      BY <1>3, <2>1, NoDocumentIsHonest, KindsOfPaths
    <2>4. HonestPlain(y.source)
      BY <2>2, <2>3 DEF Ledger, Honest
    <2>5. \A i \in 1 .. Len(y.chunks) : FALSE
      <3>1. Len(<<>>) = 0
        OBVIOUS
      <3>2. Len(y.chunks) = 0
        BY <2>1, <3>1, Zenon
      <3>. QED
        BY <3>2
    <2>6. ReadsHonestly(y)
      <3>1. Unspoilt(x.call.name) => SavedIn(x.call.name, y.source.content)
        BY <2>2, <2>4 DEF HonestPlain
      <3>. QED
        BY <2>1, <2>5, <3>1, Zenon DEF ReadsHonestly
    <2>. QED
      BY <1>2, <2>6 DEF ReadsHonestly, SavedIn, y, Unspoilt
  <1>7. NumbersShrink
    <2>1. \A q \in Procs : \/ proc'[q] = proc[q]
                           \/ /\ proc'[q].call = proc[q].call /\ proc'[q].n = proc[q].n
                              /\ proc[q].pc \in Opening \cup {"reading"}
      BY <1>1 DEF x, y, Opening
    <2>. QED
      BY <1>2, <2>1, OpsShrink
  <1>8. ASSUME NEW q \in Procs
        PROVE  /\ proc'[q].pc \in Opening => Holding(proc'[q].input) \/ Honest(T, proc'[q].input)
               /\ proc'[q].pc \in Writing => Holding(proc'[q].temp) \/ Honest(T, proc'[q].temp)
               /\ proc'[q].pc = "reading" => ReadsHonestly(proc[q])'
    <2>1. CASE q = p
      <3>1. y.pc \in {"reading", "checking"}
        BY <1>1
      <3>2. "reading" \notin Opening \cup Writing /\ "checking" \notin Opening
        BY DEF Opening, Writing, Placing
      <3>. QED
        BY <1>5, <1>6, <2>1, <3>1, <3>2 DEF y
    <2>2. CASE q # p
      <3>1. proc'[q] = proc[q] /\ (proc[q].pc = "reading" => ReadsHonestly(proc[q]))
        BY <1>1, <2>2 DEF Ledger
      <3>. QED
        BY <1>2, <3>1 DEF Holding, ReadsHonestly, SavedIn, Unspoilt
    <2>. QED
      BY <2>1, <2>2
  <1>9. HistoryGrows /\ \A z \in Paths : Holding(fs'[z])
    BY <1>2, SameHistory, NoDocumentIsHonest DEF Typed
  <1>. QED
    BY <1>7, <1>8, <1>9, LedgerStep DEF Typed

LEMMA OpsLedger ==
    ASSUME Typed, Typed', NEW T \in Ledgers, Ledger(T), NEW p \in Procs,
           \/ Exchange(p) \/ Decline(p) \/ Check(p) \/ Publish(p) \/ Verify(p)
           \/ SaveCode(p) \/ RemoveOriginal(p) \/ RemoveContainer(p)
           \/ SetAside(p) \/ PutInPlace(p) \/ RemoveSuperseded(p) \/ SaveNewCode(p)
           \/ Abort(p) \/ Kill(p)
    PROVE  Ledger(T)'
  <1>. USE DEF Typed
  <1>1. UNCHANGED <<saved, raced>> /\ faults \subseteq faults' /\ calls' = calls /\ inbox' \subseteq inbox
    BY DEF Exchange, Decline, Check, Publish, Verify, SaveCode, RemoveOriginal, RemoveContainer, SetAside,
           PutInPlace, RemoveSuperseded, SaveNewCode, Abort, Kill, history
  <1>2. \A q \in Procs : HoldsStill(q)
    <2>1. ASSUME \A q \in Procs : q # p => proc'[q] = proc[q], HoldsStill(p)
          PROVE  \A q \in Procs : HoldsStill(q)
      BY <2>1 DEF HoldsStill
    <2>2. ASSUME NEW pc \in Writing, GoesOnTo(p, pc)
          PROVE  \A q \in Procs : HoldsStill(q)
      BY <2>2 DEF GoesOnTo, HoldsStill, HasWritten
    <2>3. ASSUME NEW exit, EndsWith(p, exit)
          PROVE  \A q \in Procs : HoldsStill(q)
      BY <2>3 DEF EndsWith, HoldsStill
    <2>4. {"renaming", "verifying", "verified", "saved", "aside", "placed", "rekeyed"} \subseteq Writing
      BY DEF Writing, Placing
    <2>5. CASE Exchange(p)
      <3>1. /\ Opens(p, proc[p]) /\ Opens(p, proc'[p]) /\ \A q \in Procs : q # p => proc'[q] = proc[q]
            /\ proc'[p].call = proc[p].call /\ proc'[p].n = proc[p].n /\ proc'[p].input = proc[p].input
        BY <2>5, ExchangeRuns
      <3>2. proc[p].pc \in Opening /\ proc'[p].pc \in Opening
        BY <3>1 DEF Opens, Opening
      <3>. QED
        BY <2>1, <3>1, <3>2 DEF HoldsStill
    <2>6. CASE Decline(p) \/ Abort(p)
      BY <2>3, <2>6, AbortKeeps
    <2>7. CASE Check(p) \/ Verify(p) \/ SaveCode(p) \/ SetAside(p) \/ PutInPlace(p)
      BY <2>2, <2>4, <2>7, CheckKeeps, VerifyKeeps, SaveCodeKeeps, SetAsideKeeps, PutInPlaceKeeps
    <2>8. CASE Publish(p)
      <3>1. GoesOnTo(p, "verifying") \/ GoesOnTo(p, "verified")
        BY <2>8, PublishKeeps
      <3>. QED
        BY <2>2, <2>4, <3>1
    <2>9. CASE RemoveOriginal(p) \/ RemoveContainer(p) \/ SaveNewCode(p)
      BY <2>3, <2>9, RemoveOriginalKeeps, RemoveContainerKeeps, SaveNewCodeKeeps
    <2>10. CASE RemoveSuperseded(p)
      <3>1. GoesOnTo(p, "rekeyed") \/ EndsWith(p, "granted")
        BY <2>10, RemoveSupersededKeeps
      <3>. QED
        BY <2>2, <2>3, <2>4, <3>1
    <2>11. CASE Kill(p)
      <3>1. proc'[p] = Idle /\ \A q \in Procs : q # p => proc'[q] = proc[q]
        BY <2>11, KillKeeps, EndedRuns
      <3>. QED
        BY <2>1, <3>1 DEF HoldsStill
    <2>. QED
      BY <2>5, <2>6, <2>7, <2>8, <2>9, <2>10, <2>11
  <1>3. \A x \in Paths : Holding(fs'[x]) \/ Honest(T, fs'[x]) \/ Honest(T, fs[x])'
    <2>1. CASE fs' = fs
      BY <2>1, NoDocumentIsHonest
    <2>2. ASSUME NEW y \in Paths, NEW f, fs' = [fs EXCEPT ![y] = f],
                 Holding(f) \/ Honest(T, f) \/ Honest(T, f)'
          PROVE  \A x \in Paths : Holding(fs'[x]) \/ Honest(T, fs'[x]) \/ Honest(T, fs[x])'
      BY <2>2, OneFileHeld
    <2>3. ASSUME NEW y \in Paths, fs' = [fs EXCEPT ![y] = Nothing]
          PROVE  \A x \in Paths : Holding(fs'[x]) \/ Honest(T, fs'[x]) \/ Honest(T, fs[x])'
      BY <2>2, <2>3, NoDocumentIsHonest
    <2>4. ASSUME NEW y \in Paths, NEW m, fs' = [fs EXCEPT ![y] = Code(m)]
          PROVE  \A x \in Paths : Holding(fs'[x]) \/ Honest(T, fs'[x]) \/ Honest(T, fs[x])'
      BY <2>2, <2>4, NoDocumentIsHonest
    <2>5. CASE Exchange(p) \/ Check(p) \/ Verify(p) \/ Kill(p)
      BY <2>1, <2>5 DEF Exchange, Check, Verify, Kill
    <2>6. CASE Decline(p) \/ Abort(p)
      <3>1. proc[p] # Idle /\ fs' = Dropped(p)
        BY <2>6, AbortKeeps DEF EndsWith
      <3>2. \A x \in Paths : fs'[x] = fs[x] \/ fs'[x] = Nothing
        BY <3>1, DroppedFits
      <3>. QED
        BY <3>2, NoDocumentIsHonest
    <2>7. CASE Publish(p)
      <3>. DEFINE x == proc[p]
      <3>1. /\ x.output \in Paths /\ (GoesOnTo(p, "verifying") \/ GoesOnTo(p, "verified"))
            /\ \E f \in Fits(x.output) : fs' = [fs EXCEPT ![x.output] = f] /\ Published(x, f)
        BY <2>7, PublishKeeps
      <3>2. PICK f \in Fits(x.output) : fs' = [fs EXCEPT ![x.output] = f] /\ Published(x, f)
        BY <3>1
      <3>3. Holding(x.temp) /\ x.output \in Paths
        <4>1. HasWritten(p, x)
          BY <3>1 DEF GoesOnTo
        <4>. QED
          BY <4>1 DEF HasWritten, Holding
      <3>4. Holding(f) \/ Honest(T, f)'
        <4>1. CASE f = x.temp
          BY <3>3, <4>1
        <4>2. CASE f \in PlainsOf(x.call.name) /\ <<x.call.name, "restoring">> \in faults'
          <5>1. f \in Plains /\ f.doc = x.call.name /\ f \notin Boxes
            BY <4>2, FileKinds DEF Plains, Boxes
          <5>2. HonestPlain(f)'
            BY <4>2, <5>1 DEF HonestPlain, Unspoilt
          <5>. QED
            BY <5>1, <5>2 DEF Honest
        <4>3. CASE f # x.temp /\ f \in BoxesOf(x.call.name) /\ x.temp \in BoxesOf(x.call.name)
                   /\ Spoils(x.temp, f) /\ <<x.call.name, "writing">> \notin faults
                   /\ <<x.call.name, "writing">> \in faults'
          <5>. PICK b : b = x.temp
            OBVIOUS
          <5>. PICK n : n = x.call.name
            OBVIOUS
          <5>1. /\ b \in BoxesOf(n) /\ f \in BoxesOf(n) /\ Spoils(b, f)
                /\ <<n, "writing">> \notin faults /\ <<n, "writing">> \in faults'
            BY <4>3
          <5>2. b \in Boxes /\ f \in Boxes /\ b.doc = n /\ Honest(T, b)
            BY <3>3, <5>1, FileKinds DEF Ledger
          <5>3. <<n, "resting">> \in faults' \/ (b.phone.sound /\ b.recovery.sound)
            BY <1>1, <5>1, <5>2 DEF Honest, HonestBox, Wrapped
          <5>4. HistoryGrows
            BY <1>1, SameHistory
          <5>5. NumbersShrink
            BY <1>1, <1>2, OpsShrink DEF HoldsStill
          <5>6. Honest(T, f)'
            BY <5>1, <5>2, <5>3, <5>4, <5>5, SpoiledIsHonest
          <5>. QED
            BY <5>6
        <4>. QED
          BY <3>2, <4>1, <4>2, <4>3 DEF Published
      <3>. QED
        BY <2>2, <3>2, <3>3, <3>4
    <2>8. CASE SaveCode(p) \/ SaveNewCode(p)
      <3>1. /\ <<"code", proc[p].call.out>> \in Paths
            /\ fs' = [fs EXCEPT ![<<"code", proc[p].call.out>>] = Code(proc[p].n)]
        BY <2>8, SaveCodeKeeps, SaveNewCodeKeeps, KindsOfPaths
      <3>. QED
        BY <2>4, <3>1
    <2>9. CASE RemoveOriginal(p) \/ RemoveContainer(p) \/ RemoveSuperseded(p)
      <3>1. proc[p].call.name \in Names
        BY <2>9, RemoveOriginalKeeps, RemoveContainerKeeps, RemoveSupersededKeeps DEF EndsWith, GoesOnTo
      <3>2. \/ fs' = fs \/ fs' = [fs EXCEPT ![<<proc[p].call.name, "">>] = Nothing]
            \/ fs' = [fs EXCEPT ![<<proc[p].call.name, "balock">>] = Nothing]
            \/ fs' = [fs EXCEPT ![<<proc[p].call.name, "rekey-old">>] = Nothing]
        BY <2>9, RemoveOriginalKeeps, RemoveContainerKeeps, RemoveSupersededKeeps
      <3>3. /\ <<proc[p].call.name, "">> \in Paths /\ <<proc[p].call.name, "balock">> \in Paths
            /\ <<proc[p].call.name, "rekey-old">> \in Paths
        BY <3>1, KindsOfPaths
      <3>. QED
        BY <2>1, <2>3, <3>2, <3>3
    <2>10. ASSUME NEW n \in Names, NEW from, NEW to, Moves(n, from, to), <<n, from>> \in Paths
           PROVE  \A x \in Paths : Holding(fs'[x]) \/ Honest(T, fs'[x]) \/ Honest(T, fs[x])'
      BY <2>10, NoDocumentIsHonest DEF Moves
    <2>11. CASE SetAside(p) \/ PutInPlace(p)
      <3>1. /\ proc[p].call.name \in Names
            /\ \/ Moves(proc[p].call.name, "balock", "rekey-old")
               \/ Moves(proc[p].call.name, "rekey-new", "balock")
        BY <2>11, SetAsideKeeps, PutInPlaceKeeps DEF GoesOnTo
      <3>. QED
        BY <2>10, <3>1, KindsOfPaths
    <2>. QED
      BY <2>5, <2>6, <2>7, <2>8, <2>9, <2>11
  <1>. QED
    BY <1>1, <1>2, <1>3, NothingLearnt

(* The last chunk: what the lock has sealed enters the ledger.             *)
LEMMA SealedLedger ==
    ASSUME Typed, Typed', NEW T \in Ledgers, Ledger(T), NEW p \in Procs, proc[p].pc = "reading",
           ReadsSource(p, proc[p]), HasWritten(p, proc'[p]), proc'[p].temp = Locked(proc[p]),
           proc'[p].n = proc[p].n,
           Len(proc[p].source.content) >=
             ((Len(proc[p].chunks) + 1) - 1) * ChunkSize + Take(proc[p].core, Len(proc[p].chunks) + 1),
           Len(proc[p].chunks) + 1 = ChunkCount(proc[p].core),
           Len(proc[p].source.content) = proc[p].core.len,
           \A q \in Procs : q # p => proc'[q] = proc[q],
           UNCHANGED <<fs, inbox, calls, saved, raced, faults>>
    PROVE  \E U \in Ledgers : Ledger(U)'
  <1>. PICK x : x = proc[p]
    OBVIOUS
  <1>. PICK b : b = Locked(x)
    OBVIOUS
  <1>. PICK n : n = x.call.name
    OBVIOUS
  <1>0. /\ ReadsSource(p, x) /\ Len(x.chunks) + 1 = ChunkCount(x.core)
        /\ Len(x.source.content) >= ((Len(x.chunks) + 1) - 1) * ChunkSize + Take(x.core, Len(x.chunks) + 1)
        /\ Len(x.source.content) = x.core.len
    OBVIOUS
  <1>1. /\ b \in BoxesOf(n) /\ Verified(b) /\ Joins(b) /\ b.core = x.core
        /\ b.chunks = Append(x.chunks, NextChunk(x)) /\ b.doc = n /\ b \in Boxes
    <2>1. Len(x.source.content) >= ((Len(x.chunks) + 1) - 1) * ChunkSize + Take(x.core, Len(x.chunks) + 1)
      BY <1>0
    <2>2. /\ b \in BoxesOf(n) /\ Verified(b) /\ Joins(b) /\ b.core = x.core
          /\ b.chunks = Append(x.chunks, NextChunk(x))
      BY ONLY p \in Procs, <1>0, <2>1, LockedIsTyped, b = Locked(x), n = x.call.name
    <2>. QED
      BY <2>2, FileKinds
  <1>2. /\ x.core \in Cores /\ x.core.len \in Nat /\ Len(b.chunks) = Len(x.chunks) + 1
        /\ Len(x.chunks) \in Nat /\ ChunkCount(x.core) \in Nat /\ Len(b.chunks) = ChunkCount(x.core)
        /\ \A j \in 1 .. ChunkCount(x.core) :
             /\ b.chunks[j] = IF j = ChunkCount(x.core) THEN NextChunk(x) ELSE x.chunks[j]
             /\ b.chunks[j] = SealChunk(x.core, j, b.chunks[j].data)
    <2>. DEFINE i == Len(x.chunks) + 1
                chunks == Append(x.chunks, NextChunk(x))
    <2>1. /\ x.core \in Cores /\ x.core.len \in Nat /\ i \in 1 .. ChunkCount(x.core)
          /\ chunks \in Seq(Chunks) /\ Len(chunks) = i
          /\ \A j \in 1 .. i : chunks[j] = IF j = i THEN NextChunk(x) ELSE x.chunks[j]
          /\ \A j \in 1 .. i : chunks[j] = SealChunk(x.core, j, chunks[j].data)
      BY <1>0, NextChunkIsTyped
    <2>2. b.chunks = chunks /\ i = ChunkCount(x.core) /\ Len(x.chunks) \in Nat
      <3>1. x.chunks \in Seq(Chunks)
        BY <1>0 DEF ReadsSource
      <3>. QED
        BY <1>0, <1>1, <3>1
    <2>. HIDE DEF chunks
    <2>3. i \in Nat
      BY <2>2
    <2>. QED
      BY <2>1, <2>2, <2>3
  <1>3. /\ x.call.op = "lock" /\ x.core.id = x.n /\ x.n \in Nat /\ n \in Names
        /\ x.source.content \in Seq(Blocks) /\ p = "agent"
    <2>1. x.call.op = "lock" /\ x.core.id = x.n /\ x.n \in Nat /\ x.call \in CallsOf(p) /\ x.source \in Plains
      BY <1>0 DEF ReadsSource
    <2>. QED
      BY <2>1, WhatIsCalled DEF Plains
  <1>4. /\ Content(b) \in Seq(Blocks) /\ Len(Content(b)) = x.core.len
        /\ \A i \in 1 .. ChunkCount(x.core) : Part(x.core, i, Content(b)) = b.chunks[i].data
    <2>1. b.core.len \in Nat /\ Joins(b) /\ b.core = x.core
      BY <1>1, <1>2
    <2>. HIDE DEF Joins
    <2>. QED
      BY ONLY <2>1, PartsOfTheWhole
  <1>5. Unused(x.n)
    BY <1>3 DEF Unused
  <1>6. PICK U \in Ledgers :
          U = [d \in Names |-> [i \in Nat |-> IF d = n /\ i = x.n THEN Content(b) ELSE T[d][i]]]
    BY <1>4 DEF Ledgers
  <1>7. U[n][x.n] = Content(b) /\ \A d \in Names, i \in Nat : d # n \/ i # x.n => U[d][i] = T[d][i]
    BY <1>3, <1>6
  <1>8. Ledger(U)
    <2>1. ASSUME NEW f, Holding(f)
          PROVE  Honest(U, f)
      <3>1. Honest(T, f)
        BY <2>1 DEF Ledger
      <3>2. ASSUME f \in Boxes
            PROVE  U[f.doc][f.core.id] = T[f.doc][f.core.id]
        <4>1. f.doc \in Names /\ f.core.id \in Nat /\ f.core.id # x.n
          BY <1>5, <3>1, <3>2 DEF Boxes, Cores, Honest, HonestBox
        <4>. QED
          BY <1>7, <4>1
      <3>. QED
        BY <3>1, <3>2 DEF Honest, HonestBox
    <2>. QED
      BY <2>1 DEF Ledger
  <1>9. Unspoilt(n) => SavedIn(n, Content(b))
    <2>1. SUFFICES ASSUME Unspoilt(n)
                   PROVE  SavedIn(n, Content(b))
      OBVIOUS
    <2>2. SavedIn(n, x.source.content)
          /\ \A i \in 1 .. Len(x.chunks) : x.chunks[i].data = Part(x.core, i, x.source.content)
      <3>1. ReadsHonestly(x)
        BY DEF Ledger
      <3>. QED
        BY <1>0, <2>1, <3>1 DEF ReadsHonestly
    <2>3. Content(b) = x.source.content
      BY <1>0, <2>2, SealedIsTheSource
    <2>. QED
      BY <2>2, <2>3
  <1>10. ~Unused(x.n)'
    <2>1. x.n \in 1 .. calls /\ calls \in Nat /\ \A c \in inbox : c.id # x.n
      <3>1. x # Idle
        BY <1>0 DEF ReadsSource, Idle
      <3>. QED
        BY <1>3, <3>1 DEF Typed, CallsAreNumbered
    <2>2. ASSUME NEW q \in Procs, proc'[q].pc \in Opening \cup {"reading"}, proc'[q].call.op = "lock"
          PROVE  FALSE
      <3>1. proc'[p].pc \notin Opening \cup {"reading"}
        BY DEF HasWritten, Opening, Writing, Placing
      <3>2. q # p /\ proc'[q] = proc[q] /\ q = "cli"
        BY <1>3, <2>2, <3>1 DEF Procs
      <3>3. proc[q] # Idle
        BY <2>2, <3>2 DEF Idle, Opening
      <3>4. proc[q].call \in CallsOf(q)
        BY <3>3, WhatRuns DEF Typed
      <3>. QED
        BY <2>2, <3>2, <3>4, WhatIsCalled
    <2>3. ~(x.n > calls)
      BY <2>1
    <2>4. ~(x.n > calls') /\ ~ \E c \in inbox' : c.id = x.n
      BY <2>1, <2>3
    <2>. QED
      BY <2>2, <2>4 DEF Unused
  <1>11. SealedFrom(Content(b), b)
    BY <1>1, <1>2, <1>4 DEF SealedFrom
  <1>12. Honest(U, b)'
    <2>1. b \notin Plains /\ b.core.id = x.n
      BY <1>1, <1>3 DEF Boxes, Plains
    <2>2. Unspoilt(n)' => SavedIn(n, Content(b))'
      BY <1>9 DEF SavedIn, Unspoilt
    <2>3. U[b.doc][b.core.id] = Content(b)
      BY <1>1, <1>7, <2>1
    <2>4. Wrapped(b)'
      <3>1. b.phone = Wrapper(x.core, Credential) /\ b.recovery = Wrapper(x.core, x.n)
        BY <1>0, LockedIsTyped
      <3>. QED
        BY <3>1 DEF Wrapped, Wrapper
    <2>5. HonestBox(U, b)'
      BY <1>1, <1>10, <1>11, <2>1, <2>2, <2>3, <2>4 DEF HonestBox, SealedFrom
    <2>. QED
      BY <2>1, <2>5 DEF Honest
  <1>13. ASSUME NEW f, Holding(f)'
         PROVE  Holding(f) \/ f = b
    <2>1. proc'[p].pc \in Writing /\ proc'[p].pc \notin Opening
      BY DEF HasWritten, Opening, Writing, Placing
    <2>2. ASSUME NEW q \in Procs
          PROVE  /\ proc'[q].pc \in Opening => proc[q].pc \in Opening /\ proc'[q].input = proc[q].input
                 /\ proc'[q].pc \in Writing => \/ proc'[q].temp = b
                                               \/ proc[q].pc \in Writing /\ proc'[q].temp = proc[q].temp
      BY <2>1
    <2>. QED
      BY <1>13, <2>2 DEF Holding
  <1>14. HistoryGrows /\ HistoryIsTyped /\ HistoryIsTyped'
    BY SameHistory DEF Typed
  <1>15. NumbersShrink
    <2>1. \A q \in Procs : proc'[q] = proc[q] \/ proc'[q].pc \in Writing
      BY DEF HasWritten
    <2>. QED
      BY <2>1, OpsShrink
  <1>16. ASSUME NEW q \in Procs, proc'[q].pc = "reading"
         PROVE  ReadsHonestly(proc[q])'
    <2>1. q # p
      BY <1>16 DEF HasWritten, Writing, Placing
    <2>2. proc'[q] = proc[q] /\ ReadsHonestly(proc[q])
      BY <1>16, <2>1 DEF Ledger
    <2>. QED
      BY <2>2 DEF ReadsHonestly, SavedIn, Unspoilt
  <1>17. Ledger(U)'
    BY <1>8, <1>12, <1>13, <1>14, <1>15, <1>16, LedgerKept
  <1>. QED
    BY <1>17

LEMMA ReadChunkLedger ==
    ASSUME Typed, Typed', NEW T \in Ledgers, Ledger(T), NEW p \in Procs, ReadChunk(p)
    PROVE  \E U \in Ledgers : Ledger(U)'
  <1>. PICK x : x = proc[p]
    OBVIOUS
  <1>1. /\ ReadsSource(p, x) /\ \A q \in Procs : q # p => proc'[q] = proc[q]
        /\ proc'[p].call = x.call /\ proc'[p].n = x.n
        /\ Len(x.source.content) >= ((Len(x.chunks) + 1) - 1) * ChunkSize + Take(x.core, Len(x.chunks) + 1)
        /\ \/ /\ ReadsSource(p, proc'[p]) /\ proc'[p].pc = "reading"
              /\ proc'[p].core = x.core /\ proc'[p].source = x.source
              /\ proc'[p].chunks = Append(x.chunks, NextChunk(x))
           \/ /\ HasWritten(p, proc'[p]) /\ proc'[p].pc = "checking"
              /\ proc'[p].temp = Locked(x)
              /\ Len(x.chunks) + 1 = ChunkCount(x.core)
              /\ Len(x.source.content) = x.core.len
    BY ReadChunkRuns DEF Typed
  <1>2. /\ UNCHANGED <<fs, inbox, calls, saved, raced, faults>> /\ x.pc = "reading"
    BY DEF ReadChunk, history, At
  <1>3. CASE HasWritten(p, proc'[p]) /\ proc'[p].pc = "checking"
    <2>1. proc'[p].pc # "reading"
      BY <1>3
    <2>. QED
      BY <1>1, <1>2, <1>3, <2>1, SealedLedger
  <1>4. CASE /\ ReadsSource(p, proc'[p]) /\ proc'[p].pc = "reading"
             /\ proc'[p].core = x.core /\ proc'[p].source = x.source
             /\ proc'[p].chunks = Append(x.chunks, NextChunk(x))
    <2>1. ReadsHonestly(x)
      BY <1>2 DEF Ledger
    <2>. PICK chunks : chunks = Append(x.chunks, NextChunk(x))
      OBVIOUS
    <2>2. /\ Len(chunks) = Len(x.chunks) + 1 /\ Len(x.chunks) \in Nat
          /\ \A j \in 1 .. Len(x.chunks) + 1 :
               chunks[j] = IF j = Len(x.chunks) + 1 THEN NextChunk(x) ELSE x.chunks[j]
      <3>1. x.chunks \in Seq(Chunks)
        BY <1>1 DEF ReadsSource
      <3>. QED
        BY <1>1, <3>1, NextChunkIsTyped
    <2>3. NextChunk(x).data = Part(x.core, Len(x.chunks) + 1, x.source.content)
      BY DEF NextChunk, SealChunk
    <2>4. ASSUME Unspoilt(x.call.name), Len(x.source.content) = x.core.len, NEW i \in 1 .. Len(chunks)
          PROVE  chunks[i].data = Part(x.core, i, x.source.content)
      <3>1. CASE i = Len(x.chunks) + 1
        BY <2>2, <2>3, <3>1
      <3>2. CASE i # Len(x.chunks) + 1
        <4>1. i \in 1 .. Len(x.chunks) /\ chunks[i] = x.chunks[i]
          BY <2>2, <3>2
        <4>. QED
          BY <2>1, <2>4, <4>1 DEF ReadsHonestly
      <3>. QED
        BY <3>1, <3>2
    <2>5. /\ proc'[p].call = x.call /\ proc'[p].source = x.source /\ proc'[p].core = x.core
          /\ proc'[p].chunks = chunks /\ raced' = raced /\ faults' = faults /\ saved' = saved
      BY <1>1, <1>2, <1>4
    <2>6. ReadsHonestly(proc[p])'
      BY <2>1, <2>4, <2>5 DEF ReadsHonestly, SavedIn, Unspoilt
    <2>7. NumbersShrink
      <3>1. \A q \in Procs : \/ proc'[q] = proc[q]
                             \/ /\ proc'[q].call = proc[q].call /\ proc'[q].n = proc[q].n
                                /\ proc[q].pc \in Opening \cup {"reading"}
        BY <1>1, <1>2
      <3>. QED
        BY <1>2, <3>1, OpsShrink
    <2>8. ASSUME NEW q \in Procs
          PROVE  /\ proc'[q].pc \in Opening => Holding(proc'[q].input)
                 /\ proc'[q].pc \in Writing => Holding(proc'[q].temp)
                 /\ proc'[q].pc = "reading" => ReadsHonestly(proc[q])'
      <3>1. CASE q = p
        BY <1>4, <2>6, <3>1 DEF Opening, Writing, Placing
      <3>2. CASE q # p
        <4>1. proc'[q] = proc[q] /\ (proc[q].pc = "reading" => ReadsHonestly(proc[q]))
          BY <1>1, <3>2 DEF Ledger
        <4>. QED
          BY <2>5, <4>1 DEF Holding, ReadsHonestly, SavedIn, Unspoilt
      <3>. QED
        BY <3>1, <3>2
    <2>9. HistoryGrows /\ \A z \in Paths : Holding(fs'[z])
      BY <1>2, SameHistory, NoDocumentIsHonest DEF Typed
    <2>10. Ledger(T)'
      BY <2>7, <2>8, <2>9, LedgerStep DEF Typed
    <2>. QED
      BY <2>10
  <1>. QED
    BY <1>1, <1>3, <1>4

LEMMA SaveLedger ==
    ASSUME Typed, Typed', NEW T \in Ledgers, Ledger(T), NEW n \in Edited, Save(n)
    PROVE  Ledger(T)'
  <1>1. /\ n \in Names /\ UNCHANGED <<inbox, cli, calls, overtaken, faults, unsaved, done>>
        /\ fs[<<n, "">>] \in PlainsOf(n)
    BY SaveKeeps
  <1>2. PICK content \in Seq(Blocks) :
          /\ SavedAs(n, content)
          /\ \A p \in Procs : \/ proc'[p] = proc[p]
                              \/ /\ p = "agent" /\ ReadsSource(p, proc[p]) /\ ReadsSource(p, proc'[p])
                                 /\ proc'[p].pc = "reading" /\ proc[p].pc = "reading"
                                 /\ proc'[p].call = proc[p].call /\ proc'[p].n = proc[p].n
                                 /\ proc'[p].core = proc[p].core /\ proc'[p].chunks = proc[p].chunks
                                 /\ proc[p].call.name = n /\ proc'[p].source.content = content
    BY SaveKeeps
  <1>3. /\ \A d \in Names : saved[d] \in Seq(Seq(Blocks)) /\ Len(saved[d]) \in Nat
        /\ saved'[n] = Append(saved[n], content)
        /\ \A d \in Names : d # n => saved'[d] = saved[d]
    <2>1. saved \in [Names -> Seq(Seq(Blocks))]
      BY DEF Typed, HistoryIsTyped
    <2>2. saved' = [saved EXCEPT ![n] = Append(saved[n], content)]
      BY <1>2 DEF SavedAs
    <2>3. \A d \in Names : saved[d] \in Seq(Seq(Blocks)) /\ Len(saved[d]) \in Nat
      BY <2>1, LenProperties
    <2>. QED
      BY ONLY <1>1, <2>1, <2>2, <2>3
  <1>4. /\ Len(saved'[n]) = Len(saved[n]) + 1 /\ saved'[n][Len(saved[n]) + 1] = content
        /\ \A i \in 1 .. Len(saved[n]) : saved'[n][i] = saved[n][i]
    <2>1. saved[n] \in Seq(Seq(Blocks)) /\ content \in Seq(Blocks) /\ Len(saved[n]) \in Nat
      BY <1>1, <1>3
    <2>2. /\ Len(Append(saved[n], content)) = Len(saved[n]) + 1
          /\ \A i \in 1 .. Len(saved[n]) : Append(saved[n], content)[i] = saved[n][i]
          /\ Append(saved[n], content)[Len(saved[n]) + 1] = content
      BY <2>1, AppendProperties
    <2>. QED
      BY <1>3, <2>2
  <1>5. SavedIn(n, content)'
    <2>1. Len(saved[n]) + 1 \in 1 .. Len(saved'[n])
      <3>1. Len(saved[n]) \in Nat
        BY <1>1, <1>3
      <3>. QED
        BY <1>4, <3>1
    <2>. QED
      BY <1>4, <2>1 DEF SavedIn
  <1>6. HistoryGrows
    <2>1. raced \subseteq raced' /\ faults \subseteq faults'
      BY <1>2 DEF SavedAs, Save
    <2>2. ASSUME NEW d \in Names
          PROVE  Len(saved[d]) <= Len(saved'[d]) /\ \A i \in 1 .. Len(saved[d]) : saved'[d][i] = saved[d][i]
      <3>1. CASE d = n
        <4>1. Len(saved[n]) \in Nat
          BY <1>1, <1>3
        <4>2. Len(saved[n]) <= Len(saved'[n])
          BY <1>4, <4>1
        <4>. QED
          BY <1>4, <3>1, <4>2
      <3>2. CASE d # n
        <4>1. saved'[d] = saved[d] /\ Len(saved[d]) \in Nat
          BY <1>3, <3>2
        <4>. QED
          BY <4>1
      <3>. QED
        BY <3>1, <3>2
    <2>. QED
      BY <2>1, <2>2 DEF HistoryGrows
  <1>7. NumbersShrink
    <2>1. \A p \in Procs : \/ proc'[p] = proc[p]
                           \/ /\ proc'[p].call = proc[p].call /\ proc'[p].n = proc[p].n
                              /\ proc[p].pc \in Opening \cup {"reading"}
      BY <1>2
    <2>. QED
      BY <1>1, <2>1, OpsShrink
  <1>8. Honest(T, Plain(n, content))'
    <2>1. Plain(n, content) \notin Boxes /\ Plain(n, content).doc = n /\ Plain(n, content).content = content
      BY DEF Plain, Boxes
    <2>2. HonestPlain(Plain(n, content))'
      BY <1>5, <2>1 DEF HonestPlain
    <2>. QED
      BY <2>1, <2>2 DEF Honest
  <1>9. ASSUME NEW f, Holding(f)'
        PROVE  Holding(f) \/ f = Plain(n, content)
    <2>1. ASSUME NEW q \in Procs
          PROVE  /\ proc'[q].pc \in Opening => proc[q].pc \in Opening /\ proc'[q].input = proc[q].input
                 /\ proc'[q].pc \in Writing => proc[q].pc \in Writing /\ proc'[q].temp = proc[q].temp
      BY <1>2 DEF Opening, Writing, Placing
    <2>2. \A x \in Paths : fs'[x] = fs[x] \/ fs'[x] = Plain(n, content)
      BY <1>2 DEF SavedAs, Typed, FilesFit
    <2>. QED
      BY <1>9, <2>1, <2>2 DEF Holding
  <1>10. ASSUME NEW p \in Procs, proc'[p].pc = "reading"
         PROVE  ReadsHonestly(proc[p])'
    <2>1. /\ ReadsSource(p, proc[p]) /\ proc[p].call.op = "lock" /\ p = "agent" /\ proc[p].call.name \in Names
          /\ proc[p].pc = "reading"
      <3>1. proc[p].pc = "reading"
        BY <1>2, <1>10
      <3>2. ReadsSource(p, proc[p]) /\ proc[p].call.op = "lock" /\ proc[p].call \in CallsOf(p)
        BY <3>1, WhatRuns DEF Typed, ReadsSource
      <3>. QED
        BY <3>1, <3>2, WhatIsCalled
    <2>2. ReadsHonestly(proc[p])
      BY <2>1 DEF Ledger
    <2>3. CASE proc'[p] = proc[p]
      <3>1. raced \subseteq raced' /\ faults \subseteq faults'
        BY <1>6 DEF HistoryGrows
      <3>2. ASSUME NEW d \in Names, NEW c, SavedIn(d, c)
            PROVE  SavedIn(d, c)'
        BY <1>6, <3>2, SavedStays DEF Typed
      <3>. PICK x : x = proc[p]
        OBVIOUS
      <3>3. ReadsHonestly(x) /\ x.call.name \in Names
        BY <2>1, <2>2
      <3>4. SavedIn(x.call.name, x.source.content) => SavedIn(x.call.name, x.source.content)'
        BY <3>2, <3>3
      <3>5. ReadsHonestly(x)'
        BY <3>1, <3>3, <3>4 DEF ReadsHonestly, Unspoilt
      <3>. QED
        BY <2>3, <3>5 DEF ReadsHonestly, SavedIn
    <2>4. CASE proc'[p] # proc[p]
      <3>1. proc[p].call.name = n /\ proc'[p].source.content = content /\ proc'[p].call = proc[p].call
            /\ proc'[p].core = proc[p].core
        BY <1>2, <2>4
      <3>2. n \in raced' \/ Len(content) # proc[p].core.len
        <4>1. proc["agent"] # Idle /\ proc["agent"].pc \notin {"asking", "keyed"}
          BY <2>1 DEF ReadsSource, Idle
        <4>. QED
          BY <1>2, <2>1, <3>1, <4>1 DEF SavedAs
      <3>. QED
        BY <1>5, <3>1, <3>2 DEF ReadsHonestly, SavedIn, Unspoilt
    <2>. QED
      BY <2>3, <2>4
  <1>. QED
    BY <1>6, <1>7, <1>8, <1>9, <1>10, LedgerKept DEF Typed

LEMMA WearLedger ==
    ASSUME Typed, Typed', NEW T \in Ledgers, Ledger(T), NEW x \in Paths, Wear(x)
    PROVE  Ledger(T)'
  <1>1. /\ UNCHANGED <<proc, inbox, cli, calls, saved, saves, raced, overtaken, unsaved, done>>
        /\ \E n \in Names : /\ fs[x] \in BoxesOf(n) /\ faults' = faults \cup {<<n, "resting">>}
                            /\ \E bad \in BoxesOf(n) : Spoils(fs[x], bad) /\ fs' = [fs EXCEPT ![x] = bad]
    BY WearKeeps
  <1>. PICK n \in Names : /\ fs[x] \in BoxesOf(n) /\ faults' = faults \cup {<<n, "resting">>}
                          /\ \E bad \in BoxesOf(n) : Spoils(fs[x], bad) /\ fs' = [fs EXCEPT ![x] = bad]
    BY <1>1
  <1>2. PICK bad \in BoxesOf(n) : /\ fs[x] \in BoxesOf(n) /\ Spoils(fs[x], bad)
                                  /\ fs' = [fs EXCEPT ![x] = bad]
    OBVIOUS
  <1>. PICK b : b = fs[x]
    OBVIOUS
  <1>3. b \in Boxes /\ bad \in Boxes /\ Honest(T, b) /\ b.doc = n /\ Spoils(b, bad)
    BY <1>2, FileKinds, NoDocumentIsHonest DEF Ledger
  <1>4. Honest(T, bad)'
    <2>1. HistoryGrows /\ <<b.doc, "resting">> \in faults'
      BY <1>1, <1>3, SameHistory DEF Typed
    <2>2. NumbersShrink
      BY <1>1, OpsShrink
    <2>. QED
      BY <1>3, <2>1, <2>2, SpoiledIsHonest DEF Typed
  <1>5. \A y \in Paths : Holding(fs'[y]) \/ Honest(T, fs'[y]) \/ Honest(T, fs[y])'
    BY <1>2, <1>4, OneFileHeld DEF Typed
  <1>. QED
    BY <1>1, <1>5, NothingLearnt DEF HoldsStill, Typed

(* At first the ledger says what each document is.                         *)
LEMMA LedgerInitially == Init => \E T \in Ledgers : Ledger(T)
  <1>. SUFFICES ASSUME Init
                PROVE  \E T \in Ledgers : Ledger(T)
    OBVIOUS
  <1>1. Typed
    BY TypedInitially
  <1>2. /\ fs \in Directories /\ inbox = {} /\ calls = 0
        /\ \A p \in Procs : proc[p] = Idle
        /\ saved = [d \in Names |-> <<FirstContent(fs, d)>>]
    BY DEF Init
  <1>3. \A d \in Names : FirstContent(fs, d) \in Seq(Blocks)
    BY <1>2, FirstFiles
  <1>4. PICK T \in Ledgers : T = [d \in Names |-> [i \in Nat |-> FirstContent(fs, d)]]
    BY <1>3 DEF Ledgers
  <1>5. ASSUME NEW d \in Names
        PROVE  SavedIn(d, FirstContent(fs, d))
    <2>1. saved[d] = <<FirstContent(fs, d)>>
      BY <1>2
    <2>. QED
      BY <2>1 DEF SavedIn
  <1>6. ASSUME NEW x \in Paths
        PROVE  Honest(T, fs[x])
    <2>1. CASE fs[x] \notin Plains \cup Boxes
      BY <2>1 DEF Honest
    <2>2. CASE fs[x] \in Plains \cup Boxes
      <3>1. x[1] # "code"
        <4>1. fs[x] \in Fits(x)
          BY <1>1 DEF Typed, FilesFit
        <4>2. fs[x] # Nothing /\ fs[x] # Claimed /\ fs[x] \notin CodesOnFile
          BY <2>2 DEF CodesOnFile, Code, Nothing, Claimed, Plains, Boxes
        <4>. QED
          BY <4>1, <4>2 DEF Fits
      <3>. PICK d : d = x[1]
        OBVIOUS
      <3>2. d \in Names /\ x = <<d, x[2]>> /\ x[2] \in {"", "balock", "rekey-new", "rekey-old"}
        BY <3>1, KindsOfPaths
      <3>3. fs[x] # Nothing
        BY <2>2 DEF Nothing, Plains, Boxes
      <3>4. fs[x] = Plain(d, FirstContent(fs, d)) \/ fs[x] = Boxed(d, FirstContent(fs, d))
        <4>1. /\ fs[<<d, "">>] \in {Nothing, Plain(d, FirstContent(fs, d))}
              /\ \A suffix \in {"balock", "rekey-new", "rekey-old"} :
                   fs[<<d, suffix>>] \in {Nothing, Boxed(d, FirstContent(fs, d))}
          BY <1>2, <3>2, FirstFiles
        <4>2. CASE x[2] = ""
          BY <3>2, <3>3, <4>1, <4>2
        <4>3. CASE x[2] \in {"balock", "rekey-new", "rekey-old"}
          BY <3>2, <3>3, <4>1, <4>3
        <4>. QED
          BY <3>2, <4>2, <4>3
      <3>. PICK s : s = FirstContent(fs, d)
        OBVIOUS
      <3>5. s \in Seq(Blocks) /\ SavedIn(d, s) /\ \A i \in Nat : T[d][i] = s
        BY <1>3, <1>4, <1>5, <3>2
      <3>6. CASE fs[x] = Plain(d, s)
        BY <3>5, <3>6 DEF Honest, HonestPlain, Plain, Boxes
      <3>7. CASE fs[x] = Boxed(d, s)
        <4>. PICK b : b = Boxed(d, s)
          OBVIOUS
        <4>1. /\ b \in BoxesOf(d) /\ b.core = Core(0, Len(s)) /\ Decrypts(b)
              /\ \A i \in 1 .. Len(b.chunks) : b.chunks[i] = SealChunk(b.core, i, Part(b.core, i, s))
          BY <3>2, <3>5, BoxedIsTyped
        <4>2. b \in Boxes /\ b.doc = d /\ b \notin Plains
          BY <4>1, FileKinds DEF Boxes, Plains
        <4>3. b.core.id = 0 /\ b.core.len = Len(s) /\ Len(b.chunks) = ChunkCount(b.core)
          BY <4>1 DEF Core, Decrypts
        <4>4. SealedFrom(s, b)
          BY <4>1, <4>3 DEF SealedFrom
        <4>5. ~Unused(0)
          <5>1. \A p \in Procs : proc[p].pc \notin Opening \cup {"reading"}
            BY <1>2 DEF Idle, Opening
          <5>. QED
            BY <1>2, <5>1 DEF Unused
        <4>6. T[b.doc][b.core.id] = s
          BY <3>5, <4>2, <4>3
        <4>7. Wrapped(b)
          <5>1. b.phone = Wrapper(b.core, Credential) /\ b.recovery = Wrapper(b.core, 0)
            BY <3>2, <3>5, BoxedIsTyped
          <5>. QED
            BY <5>1 DEF Wrapped, Wrapper
        <4>8. HonestBox(T, b)
          BY <3>5, <4>2, <4>3, <4>4, <4>5, <4>6, <4>7 DEF HonestBox
        <4>. QED
          BY <3>7, <4>2, <4>8 DEF Honest
      <3>. QED
        BY <3>4, <3>6, <3>7
    <2>. QED
      BY <2>1, <2>2
  <1>7. \A p \in Procs : proc[p].pc \notin Opening /\ proc[p].pc \notin Writing /\ proc[p].pc # "reading"
    BY <1>2 DEF Idle, Opening, Writing, Placing
  <1>8. Ledger(T)
    BY <1>6, <1>7 DEF Ledger, Holding
  <1>. QED
    BY <1>8

Kept == \E T \in Ledgers : Ledger(T)

LEMMA LedgerStays == Typed /\ Typed' /\ Kept /\ [Next]_vars => Kept'
  <1>. SUFFICES ASSUME Typed, Typed', Kept, [Next]_vars
                PROVE  Kept'
    OBVIOUS
  <1>. PICK T \in Ledgers : Ledger(T)
    BY DEF Kept
  <1>1. SUFFICES \E U \in Ledgers : Ledger(U)'
    BY DEF Kept
  <1>2. CASE UNCHANGED vars
    <2>1. fs' = fs /\ proc' = proc /\ calls' = calls /\ inbox' = inbox /\ UNCHANGED <<saved, raced, faults>>
      BY <1>2 DEF vars
    <2>2. \A x \in Paths : Holding(fs'[x]) \/ Honest(T, fs'[x])
      BY <2>1, NoDocumentIsHonest
    <2>3. Ledger(T)'
      BY <2>1, <2>2, NothingLearnt DEF HoldsStill, Typed
    <2>. QED
      BY <2>3
  <1>3. CASE \/ GiveUp \/ Report \/ Leave \/ \E b \in Batches : Start(b)
             \/ \E c \in inbox : Refuse(c)
    BY <1>3, BatchLedger
  <1>4. CASE Ask
    BY <1>4, AskLedger
  <1>5. CASE \E c \in inbox : Begin(c)
    BY <1>5, BeginLedger
  <1>6. CASE \E name \in Recoveries, keep \in BOOLEAN : Recover(name, keep)
    BY <1>6, RecoverLedger
  <1>7. CASE \E n \in Edited : Save(n)
    BY <1>7, SaveLedger
  <1>8. CASE \E x \in Paths : Wear(x)
    BY <1>8, WearLedger
  <1>9. ASSUME NEW p \in Procs, Write(p) \/ ReadChunk(p)
        PROVE  \E U \in Ledgers : Ledger(U)'
    BY <1>9, WriteLedger, ReadChunkLedger
  <1>10. ASSUME NEW p \in Procs,
                \/ Exchange(p) \/ Decline(p) \/ Check(p) \/ Publish(p) \/ Verify(p)
                \/ SaveCode(p) \/ RemoveOriginal(p) \/ RemoveContainer(p)
                \/ SetAside(p) \/ PutInPlace(p) \/ RemoveSuperseded(p) \/ SaveNewCode(p)
                \/ Abort(p) \/ Kill(p)
         PROVE  \E U \in Ledgers : Ledger(U)'
    BY <1>10, OpsLedger
  <1>. QED
    BY <1>2, <1>3, <1>4, <1>5, <1>6, <1>7, <1>8, <1>9, <1>10 DEF Next

LEMMA AlwaysKept == Spec => [](Typed /\ Kept)
  <1>1. Init => Typed /\ Kept
    BY TypedInitially, LedgerInitially DEF Kept
  <1>2. (Typed /\ Kept) /\ [Next]_vars => (Typed /\ Kept)'
    BY TypesAreKept, LedgerStays
  <1>. QED
    BY <1>1, <1>2, PTL DEF Spec

(* What is found in the clear is what somebody saved, whatever of a        *)
(* container was damaged, reordered, cut or repeated: decrypt_chunks       *)
(* (stream.rs) opens only what one lock sealed, every part in its place.   *)
(* What an unlock wrote is as good as the disk that took it.               *)
THEOREM OnlySavedFiles == Spec => []NeverADifferentFile
  <1>1. Typed /\ Kept => NeverADifferentFile
    <2>. SUFFICES ASSUME Typed, Kept, NEW x \in Paths, fs[x].kind = "plain", Unspoilt(fs[x].doc)
                  PROVE  \E i \in 1 .. Len(saved[fs[x].doc]) : saved[fs[x].doc][i] = fs[x].content
      BY DEF NeverADifferentFile, Unspoilt
    <2>1. PICK T \in Ledgers : Ledger(T)
      BY DEF Kept
    <2>2. Honest(T, fs[x])
      BY <2>1, NoDocumentIsHonest DEF Ledger
    <2>3. fs[x] \in Plains
      <3>1. fs[x] \in Fits(x)
        BY DEF Typed, FilesFit
      <3>2. fs[x] # Nothing /\ fs[x] # Claimed /\ fs[x] \notin CodesOnFile
        BY DEF Nothing, Claimed, CodesOnFile, Code
      <3>3. fs[x] \in PlainsOf(x[1]) \/ fs[x] \in BoxesOf(x[1])
        BY <3>1, <3>2 DEF Fits
      <3>. QED
        BY <3>3, FileKinds
    <2>. QED
      BY <2>2, <2>3 DEF Honest, HonestPlain, SavedIn
  <1>. QED
    BY AlwaysKept, <1>1, PTL

(***************************************************************************)
(* Nothing is lost.  Where the directory is at rest a document is in the   *)
(* clear as it was last saved, or in a container that decrypts to that and *)
(* whose code is known: in a recovery file, or in the memory of a rekey.   *)
(* An operation half-way has to keep it so, and what it has opened, copied *)
(* or published already must still be what it was: a lock until it removes *)
(* the original, an unlock until it publishes the document, a rekey until  *)
(* the new container is in place.                                          *)
(***************************************************************************)

Clear(n) == fs[<<n, "">>]
Sealed(n) == fs[<<n, "balock">>]
NewSealed(n) == fs[<<n, "rekey-new">>]
OldSealed(n) == fs[<<n, "rekey-old">>]

(* What the code answers for, what a person or an operation still has of a*)
(* code, and a container that may stand for its document.                  *)
Safe(n) ==
    n \notin overtaken /\ <<n, "resting">> \notin faults /\ <<n, "restoring">> \notin faults
Known(id) == id \in unsaved \/ \E f \in CodeFiles : fs[<<"code", f>>] = Code(id)
IsLatest(n, content) == n \in raced \/ content = Last(saved[n])
Sure(n, b) == Verified(b) /\ Known(b.recovery.id) /\ IsLatest(n, Content(b))

(* The document where its name says, else its container, else what a rekey *)
(* set aside.                                                              *)
Current(n) ==
    /\ Clear(n) # Nothing => IsLatest(n, Clear(n).content)
    /\ Clear(n) = Nothing /\ Sealed(n) # Nothing => Sure(n, Sealed(n))
    /\ Clear(n) = Nothing /\ Sealed(n) = Nothing => Sure(n, OldSealed(n))

(* What each operation may rely on until it removes what it replaced.      *)
LockSecure(x) ==
    LET n == x.call.name IN
    /\ x.pc \in {"reading"} \cup Writing => Clear(n) # Nothing
    /\ x.pc = "reading" /\ Len(x.source.content) = x.core.len =>
         n \in raced \/ x.source.content = Clear(n).content
    /\ x.pc \in Writing => IsLatest(n, Content(x.temp))
    /\ x.pc \in {"verifying", "verified", "saved"} =>
         Sealed(n) # Nothing /\ Sealed(n).core = x.temp.core /\ Sealed(n).recovery.id = x.n
    /\ x.pc \in {"verified", "saved"} => Verified(Sealed(n))
    /\ x.pc = "saved" => Known(x.n)

UnlockSecure(x) ==
    LET n == x.call.name IN
    /\ x.pc \in Opening /\ Decrypts(x.input) => Clear(n) # Nothing \/ IsLatest(n, Content(x.input))
    /\ x.pc \in {"checking", "renaming"} => Clear(n) # Nothing \/ IsLatest(n, x.temp.content)
    /\ x.pc = "verified" => Clear(n) # Nothing

(* A container that x's new one may take the place of.                     *)
Replaces(x, b) == b.core = x.temp.core /\ (x.call.new \/ b.recovery.id = x.temp.recovery.id)

RekeySecure(x) ==
    LET n == x.call.name IN
    /\ x.pc \in Opening => Sealed(n) \in {Nothing, x.input}
    /\ x.pc \in {"checking", "renaming", "verifying", "verified"} =>
         Sealed(n) = Nothing \/ Replaces(x, Sealed(n))
    /\ x.pc \in {"verifying", "verified", "aside"} =>
         /\ NewSealed(n) # Nothing /\ NewSealed(n).core = x.temp.core
         /\ NewSealed(n).recovery.id = x.temp.recovery.id
    /\ x.pc \in {"verified", "aside"} => Verified(NewSealed(n))
    /\ x.pc = "aside" => Sealed(n) = Nothing /\ OldSealed(n) # Nothing /\ Replaces(x, OldSealed(n))
    /\ x.pc = "placed" => Clear(n) # Nothing \/ Sealed(n) # Nothing

OpSecure(x) ==
    /\ x.call.op = "lock" => LockSecure(x)
    /\ x.call.op \in {"unlock", "recover"} => UnlockSecure(x)
    /\ x.call.op = "rekey" => RekeySecure(x)

(* A recovery of a document whose new container was published meanwhile.   *)
Late(x, y) ==
    x.call.op = "lock" /\ x.pc \in {"verifying", "verified", "saved"} =>
        y.pc = "keyed" /\ y.core = x.temp.core

Works(p, n) == proc[p] # Idle /\ proc[p].call.name = n

(* One document: where it is, what the operations on it rely on, and that  *)
(* the two processes do not mistake each other's containers.               *)
Keeps(n) ==
    /\ Current(n)
    /\ \A p \in Procs : Works(p, n) => OpSecure(proc[p])
    /\ Works("agent", n) /\ Works("cli", n) => Late(proc["agent"], proc["cli"])

Secure(n) == Safe(n) => Keeps(n)

(* The recovery file of a call is claimed until its code is in it.         *)
Claiming ==
    LET x == proc["agent"] IN
    x # Idle /\ x.pc # "saved" /\ NeedsSlot(x.call) => fs[Slot(x.call)] = Claimed
CodesStay == \A f \in CodeFiles : fs[<<"code", f>>].kind = "code" => fs'[<<"code", f>>] = fs[<<"code", f>>]
OnlyOf(n) == \A z \in Paths : z[1] # n => fs'[z] = fs[z]
MoreIsKnown == \A id : Known(id) => Known(id)'

Acts(p) ==
    \/ Exchange(p) \/ Decline(p) \/ Write(p) \/ ReadChunk(p)
    \/ Check(p) \/ Publish(p) \/ Verify(p)
    \/ SaveCode(p) \/ RemoveOriginal(p) \/ RemoveContainer(p)
    \/ SetAside(p) \/ PutInPlace(p) \/ RemoveSuperseded(p) \/ SaveNewCode(p)
    \/ Abort(p) \/ Kill(p)

LEMMA CodesStayKnown ==
    ASSUME CodesStay, unsaved \subseteq unsaved'
    PROVE  MoreIsKnown
  <1>. SUFFICES ASSUME NEW id, Known(id)
                PROVE  Known(id)'
    BY DEF MoreIsKnown
  <1>1. CASE id \in unsaved
    BY <1>1 DEF Known
  <1>2. ASSUME NEW f \in CodeFiles, fs[<<"code", f>>] = Code(id)
        PROVE  fs'[<<"code", f>>] = Code(id)
    BY <1>2 DEF CodesStay, Code
  <1>. QED
    BY <1>1, <1>2 DEF Known

(* An operation changes its document's files, or the code it writes.       *)
LEMMA OneFileTouched ==
    ASSUME FilesFit(fs), NEW y \in Paths, NEW n, y[1] = n, NEW f, fs' = [fs EXCEPT ![y] = f]
    PROVE  fs'[y] = f /\ OnlyOf(n) /\ (n # "code" => CodesStay)
  <1>1. \A z \in Paths : fs'[z] = IF z = y THEN f ELSE fs[z]
    BY DEF FilesFit
  <1>2. y[1] # "code" => \A g \in CodeFiles : <<"code", g>> \in Paths /\ <<"code", g>> # y
    BY KindsOfPaths
  <1>. QED
    BY <1>1, <1>2 DEF OnlyOf, CodesStay

LEMMA NoFileTouched ==
    ASSUME fs' = fs
    PROVE  CodesStay /\ \A n : OnlyOf(n)
  BY DEF OnlyOf, CodesStay

LEMMA FilesActsTouch ==
    ASSUME Typed, Claiming, NEW p \in Procs, Acts(p)
    PROVE  /\ \/ OnlyOf(proc[p].call.name)
              \/ OnlyOf("code") /\ p = "agent" /\ (proc'[p] = Idle \/ proc'[p].pc = "saved")
           /\ CodesStay /\ MoreIsKnown
  <1>. PICK x : x = proc[p]
    OBVIOUS
  <1>. PICK n : n = x.call.name
    OBVIOUS
  <1>0. n \in Names => n # "code" /\ <<n, "">> \in Paths /\ <<n, "balock">> \in Paths
                       /\ <<n, "rekey-new">> \in Paths /\ <<n, "rekey-old">> \in Paths
    BY KindsOfPaths
  <1>1. ASSUME fs' = fs
        PROVE  OnlyOf(n) /\ CodesStay
    BY <1>1, NoFileTouched
  <1>2. ASSUME n \in Names, NEW y \in Paths, y[1] = n, NEW f, fs' = [fs EXCEPT ![y] = f]
        PROVE  OnlyOf(n) /\ CodesStay
    BY <1>0, <1>2, OneFileTouched DEF Typed
  <1>3. ASSUME p = "agent", x # Idle, x.pc # "saved", NeedsSlot(x.call), NEW c \in CodeFiles,
               Slot(x.call) = <<"code", c>>, NEW f, fs' = [fs EXCEPT ![<<"code", c>>] = f]
        PROVE  OnlyOf("code") /\ CodesStay /\ fs'[<<"code", c>>] = f
    <2>. PICK y : y = <<"code", c>>
      OBVIOUS
    <2>1. fs[y] = Claimed
      BY <1>3 DEF Claiming
    <2>2. y \in Paths /\ y[1] = "code"
      BY KindsOfPaths
    <2>3. OnlyOf("code") /\ fs'[y] = f
      BY <1>3, <2>2, OneFileTouched DEF Typed
    <2>4. \A z \in Paths : z # y => fs'[z] = fs[z]
      BY <1>3 DEF Typed, FilesFit
    <2>5. \A g \in CodeFiles : <<"code", g>> \in Paths
      BY KindsOfPaths
    <2>. QED
      BY <2>1, <2>3, <2>4, <2>5 DEF CodesStay, Claimed
  <1>4. CASE Exchange(p) \/ Write(p) \/ ReadChunk(p) \/ Check(p) \/ Verify(p) \/ Kill(p)
    <2>1. fs' = fs /\ unsaved' = unsaved
      BY <1>4 DEF Exchange, Write, ReadChunk, Check, Verify, Kill
    <2>. QED
      BY <1>1, <2>1, CodesStayKnown
  <1>5. CASE Decline(p) \/ Abort(p)
    <2>1. proc[p] # Idle /\ fs' = Dropped(p) /\ unsaved' = unsaved
      BY <1>5, AbortKeeps DEF EndsWith
    <2>2. \A z \in Paths : fs'[z] = fs[z] \/ (fs[z] = Claimed /\ fs'[z] = Nothing)
      BY <2>1, DroppedFits DEF Typed
    <2>3. OnlyOf("code")
      <3>1. ASSUME NEW z \in Paths, z[1] # "code"
            PROVE  fs[z] # Claimed
        <4>1. fs[z] \in Fits(z) /\ Claimed # Nothing
          BY DEF Typed, FilesFit, Claimed, Nothing
        <4>2. fs[z] = Nothing \/ fs[z] \in PlainsOf(z[1]) \/ fs[z] \in BoxesOf(z[1])
          BY <3>1, <4>1 DEF Fits
        <4>3. fs[z].kind \in {"nothing", "plain", "container"}
          BY <4>2, FileKinds
        <4>. QED
          BY <4>3 DEF Claimed
      <3>. QED
        BY <2>2, <3>1 DEF OnlyOf
    <2>4. CodesStay
      <3>1. \A f \in CodeFiles : <<"code", f>> \in Paths
        BY KindsOfPaths
      <3>. QED
        BY <2>2, <3>1 DEF CodesStay, Claimed
    <2>5. proc'[p] = Idle
      BY <1>5, AbortKeeps DEF EndsWith
    <2>6. CASE p = "agent"
      BY <2>1, <2>3, <2>4, <2>5, <2>6, CodesStayKnown
    <2>7. CASE p # "agent"
      <3>1. proc[p].call \in CallsOf(p) /\ ~NeedsSlot(proc[p].call)
        BY <2>1, <2>7, WhatRuns, WhatIsCalled DEF Typed
      <3>2. fs' = fs
        BY <2>1, <3>1 DEF Dropped
      <3>. QED
        BY <1>1, <2>1, <3>2, CodesStayKnown
    <2>. QED
      BY <2>6, <2>7
  <1>6. CASE Publish(p)
    <2>1. /\ GoesOnTo(p, "verifying") \/ GoesOnTo(p, "verified")
          /\ x.output = Target(x.call) /\ x.output \in Paths /\ unsaved' = unsaved
          /\ \E f : fs' = [fs EXCEPT ![x.output] = f]
      BY <1>6, PublishKeeps DEF Publish
    <2>2. n \in Names /\ x.output[1] = n
      <3>1. Target(x.call) = <<n, "balock">> \/ Target(x.call) = <<n, "rekey-new">> \/ Target(x.call) = <<n, "">>
        BY DEF Target
      <3>2. n \in Names /\ x.output = Target(x.call)
        BY <2>1 DEF GoesOnTo
      <3>. PICK y : y = x.output
        OBVIOUS
      <3>3. ASSUME NEW s, y = <<n, s>>
            PROVE  y[1] = n
        BY <3>3
      <3>4. y = <<n, "balock">> \/ y = <<n, "rekey-new">> \/ y = <<n, "">>
        BY <3>1, <3>2
      <3>5. y[1] = n
        BY <3>3, <3>4, Zenon
      <3>. QED
        BY <3>2, <3>5
    <2>. QED
      BY <1>2, <2>1, <2>2, CodesStayKnown
  <1>7. CASE SaveCode(p)
    <2>1. /\ p = "agent" /\ x.call.op = "lock" /\ x.pc = "verified" /\ unsaved' = unsaved
          /\ Slot(x.call) = <<"code", x.call.out>> /\ x.call.out \in CodeFiles
          /\ fs' = [fs EXCEPT ![<<"code", x.call.out>>] = Code(x.n)]
      BY <1>7, SaveCodeKeeps DEF SaveCode
    <2>2. x # Idle /\ x.pc # "saved" /\ NeedsSlot(x.call)
      BY <2>1 DEF Idle, NeedsSlot
    <2>3. proc'[p].pc = "saved"
      BY <1>7, SaveCodeKeeps DEF GoesOnTo
    <2>. QED
      BY <1>3, <2>1, <2>2, <2>3, CodesStayKnown
  <1>8. CASE SaveNewCode(p)
    <2>1. /\ p = "agent" /\ x.call.op = "rekey" /\ x.call.new /\ x.pc = "rekeyed" /\ x # Idle
          /\ unsaved' = unsaved \ {x.n}
          /\ Slot(x.call) = <<"code", x.call.out>> /\ x.call.out \in CodeFiles
          /\ fs' = [fs EXCEPT ![<<"code", x.call.out>>] = Code(x.n)]
      BY <1>8, SaveNewCodeKeeps DEF EndsWith
    <2>. PICK c \in CodeFiles : c = x.call.out
      BY <2>1
    <2>2. OnlyOf("code") /\ CodesStay /\ fs'[<<"code", c>>] = Code(x.n)
      <3>1. x.pc # "saved" /\ NeedsSlot(x.call)
        BY <2>1 DEF NeedsSlot
      <3>. QED
        BY <1>3, <2>1, <3>1
    <2>3. ASSUME NEW id, Known(id)
          PROVE  Known(id)'
      <3>1. CASE id = x.n
        BY <2>2, <3>1 DEF Known
      <3>2. CASE id # x.n /\ id \in unsaved
        BY <2>1, <3>2 DEF Known
      <3>3. CASE \E f \in CodeFiles : fs[<<"code", f>>] = Code(id)
        BY <2>2, <3>3 DEF CodesStay, Known, Code
      <3>. QED
        BY <2>3, <3>1, <3>2, <3>3 DEF Known
    <2>4. proc'[p] = Idle
      BY <1>8, SaveNewCodeKeeps DEF EndsWith
    <2>. QED
      BY <2>1, <2>2, <2>3, <2>4 DEF MoreIsKnown
  <1>9. CASE RemoveOriginal(p) \/ RemoveContainer(p) \/ RemoveSuperseded(p)
    <2>1. n \in Names
      BY <1>9, RemoveOriginalKeeps, RemoveContainerKeeps, RemoveSupersededKeeps DEF EndsWith, GoesOnTo
    <2>2. /\ unsaved' = unsaved
          /\ \/ fs' = fs \/ fs' = [fs EXCEPT ![<<n, "">>] = Nothing]
             \/ fs' = [fs EXCEPT ![<<n, "balock">>] = Nothing]
             \/ fs' = [fs EXCEPT ![<<n, "rekey-old">>] = Nothing]
      BY <1>9, RemoveOriginalKeeps, RemoveContainerKeeps, RemoveSupersededKeeps
    <2>3. OnlyOf(n) /\ CodesStay
      BY <1>0, <1>1, <1>2, <2>1, <2>2
    <2>. QED
      BY <2>2, <2>3, CodesStayKnown
  <1>10. CASE SetAside(p) \/ PutInPlace(p)
    <2>1. /\ n \in Names /\ (Moves(n, "balock", "rekey-old") \/ Moves(n, "rekey-new", "balock"))
          /\ unsaved \subseteq unsaved'
      BY <1>10, SetAsideKeeps, PutInPlaceKeeps DEF GoesOnTo
    <2>2. OnlyOf(n) /\ CodesStay
      <3>1. \A z \in Paths : z[1] # n => fs'[z] = fs[z]
        BY <2>1 DEF Moves
      <3>2. \A f \in CodeFiles : <<"code", f>> \in Paths
        BY KindsOfPaths
      <3>. QED
        BY <1>0, <2>1, <3>1, <3>2 DEF OnlyOf, CodesStay
    <2>. QED
      BY <2>1, <2>2, CodesStayKnown
  <1>. QED
    BY <1>4, <1>5, <1>6, <1>7, <1>8, <1>9, <1>10 DEF Acts

LEMMA WhoActs ==
    ASSUME Typed, NEW p \in Procs, Acts(p)
    PROVE  /\ proc[p] # Idle /\ proc[p].call \in CallsOf(p) /\ proc[p].call.name \in Names
           /\ \A q \in Procs : q # p => proc'[q] = proc[q]
           /\ \/ proc'[p] = Idle
              \/ proc'[p] # Idle /\ proc'[p].call = proc[p].call /\ proc[p].pc # "saved"
           /\ UNCHANGED <<saved, raced>> /\ overtaken \subseteq overtaken' /\ faults \subseteq faults'
  <1>. USE DEF Typed
  <1>1. UNCHANGED <<saved, raced>> /\ overtaken \subseteq overtaken' /\ faults \subseteq faults'
    BY DEF Acts, Exchange, Decline, Write, ReadChunk, Check, Publish, Verify, SaveCode, RemoveOriginal,
           RemoveContainer, SetAside, PutInPlace, RemoveSuperseded, SaveNewCode, Abort, Kill, history
  <1>2. proc[p] # Idle
    BY DEF Acts, Exchange, Decline, Write, ReadChunk, Check, Publish, Verify, SaveCode, RemoveOriginal,
           RemoveContainer, SetAside, PutInPlace, RemoveSuperseded, SaveNewCode, Abort, Kill, At, Idle
  <1>3. proc[p].call \in CallsOf(p) /\ proc[p].call.name \in Names
    BY <1>2, WhatRuns, WhatIsCalled
  <1>4. ASSUME NEW pc, GoesOnTo(p, pc)
        PROVE  (\A q \in Procs : q # p => proc'[q] = proc[q]) /\ proc'[p].call = proc[p].call
               /\ proc'[p] # Idle
    BY <1>4 DEF GoesOnTo, HasWritten, Writing, Placing, Idle
  <1>5. ASSUME NEW exit, EndsWith(p, exit)
        PROVE  (\A q \in Procs : q # p => proc'[q] = proc[q]) /\ proc'[p] = Idle
    BY <1>5 DEF EndsWith
  <1>6. CASE Exchange(p)
    <2>1. proc[p].pc # "saved"
      BY <1>6 DEF Exchange
    <2>. QED
      BY <1>1, <1>2, <1>3, <1>6, <2>1, ExchangeRuns DEF Opens, Idle
  <1>7. CASE Write(p)
    <2>1. proc[p].pc # "saved"
      BY <1>7 DEF Write, At
    <2>2. proc'[p] # Idle
      <3>1. proc'[p].pc \in {"reading", "checking"}
        BY <1>7, WriteRuns
      <3>. QED
        BY <3>1 DEF Idle
    <2>. QED
      BY <1>1, <1>2, <1>3, <1>7, <2>1, <2>2, WriteRuns
  <1>8. CASE ReadChunk(p)
    <2>1. proc[p].pc # "saved"
      BY <1>8 DEF ReadChunk, At
    <2>2. proc'[p] # Idle
      BY <1>8, ReadChunkRuns DEF Idle
    <2>. QED
      BY <1>1, <1>2, <1>3, <1>8, <2>1, <2>2, ReadChunkRuns
  <1>9. CASE Check(p) \/ Verify(p) \/ SaveCode(p) \/ SetAside(p) \/ PutInPlace(p) \/ Publish(p)
    <2>1. proc[p].pc # "saved"
      BY <1>9 DEF Check, Verify, SaveCode, SetAside, PutInPlace, Publish, At
    <2>2. \E pc : GoesOnTo(p, pc)
      BY <1>9, CheckKeeps, VerifyKeeps, SaveCodeKeeps, SetAsideKeeps, PutInPlaceKeeps, PublishKeeps
    <2>. QED
      BY <1>1, <1>2, <1>3, <1>4, <2>1, <2>2
  <1>10. CASE RemoveOriginal(p) \/ RemoveContainer(p) \/ SaveNewCode(p) \/ Abort(p) \/ Decline(p)
    <2>1. \E exit : EndsWith(p, exit)
      BY <1>10, RemoveOriginalKeeps, RemoveContainerKeeps, SaveNewCodeKeeps, AbortKeeps
    <2>. QED
      BY <1>1, <1>2, <1>3, <1>5, <2>1
  <1>11. CASE RemoveSuperseded(p)
    <2>1. GoesOnTo(p, "rekeyed") \/ EndsWith(p, "granted")
      BY <1>11, RemoveSupersededKeeps
    <2>2. proc[p].pc # "saved"
      BY <1>11 DEF RemoveSuperseded, At
    <2>. QED
      BY <1>1, <1>2, <1>3, <1>4, <1>5, <2>1, <2>2
  <1>12. CASE Kill(p)
    <2>1. proc'[p] = Idle /\ \A q \in Procs : q # p => proc'[q] = proc[q]
      BY <1>12, KillKeeps, EndedRuns
    <2>. QED
      BY <1>1, <1>2, <1>3, <2>1
  <1>. QED
    BY <1>6, <1>7, <1>8, <1>9, <1>10, <1>11, <1>12 DEF Acts



(* The command line's own steps, and calls that are refused.               *)
Talks ==
    \/ Ask \/ GiveUp \/ Report \/ Leave \/ \E b \in Batches : Start(b)
    \/ \E c \in inbox : Refuse(c)
    \/ UNCHANGED vars

LEMMA TalkTouchesNothing ==
    ASSUME Talks
    PROVE  UNCHANGED <<fs, proc, saved, raced, overtaken, faults, unsaved>>
  BY DEF Talks, Ask, GiveUp, Report, Leave, Start, Refuse, vars, history

LEMMA StepsAre ==
    ASSUME [Next]_vars
    PROVE  \/ Talks \/ \E c \in inbox : Begin(c)
           \/ \E name \in Recoveries, keep \in BOOLEAN : Recover(name, keep)
           \/ \E p \in Procs : Acts(p)
           \/ \E n \in Edited : Save(n)
           \/ \E x \in Paths : Wear(x)
  BY DEF Next, Talks, Acts

LEMMA ClaimingStays == Typed /\ Claiming /\ [Next]_vars => Claiming'
  <1>. SUFFICES ASSUME Typed, Claiming, [Next]_vars
                PROVE  Claiming'
    OBVIOUS
  <1>. DEFINE x == proc["agent"]
  <1>0. "agent" \in Procs
    BY DEF Procs
  <1>1. ASSUME proc'["agent"] # Idle => /\ proc["agent"] # Idle /\ proc["agent"].pc # "saved"
                                        /\ proc'["agent"].call = proc["agent"].call,
               \A f \in CodeFiles : fs'[<<"code", f>>] = fs[<<"code", f>>]
        PROVE  Claiming'
    <2>1. SUFFICES ASSUME proc'["agent"] # Idle, NeedsSlot(proc'["agent"].call)
                   PROVE  fs'[Slot(proc'["agent"].call)] = Claimed
      BY DEF Claiming
    <2>2. /\ proc["agent"] # Idle /\ proc["agent"].pc # "saved" /\ NeedsSlot(proc["agent"].call)
          /\ proc'["agent"].call = proc["agent"].call
      BY <1>1, <2>1
    <2>3. proc["agent"].call \in CallsOf("agent")
      BY <1>0, <2>2, WhatRuns DEF Typed
    <2>4. Slot(proc["agent"].call) = <<"code", proc["agent"].call.out>> /\ proc["agent"].call.out \in CodeFiles
      BY <1>0, <2>2, <2>3, WhatIsCalled
    <2>. QED
      BY <1>1, <2>2, <2>4 DEF Claiming
  <1>2. ASSUME NEW n \in Names, OnlyOf(n)
        PROVE  \A f \in CodeFiles : fs'[<<"code", f>>] = fs[<<"code", f>>]
    BY <1>2, KindsOfPaths DEF OnlyOf
  <1>3. CASE Talks
    BY <1>3, TalkTouchesNothing DEF Claiming
  <1>4. ASSUME NEW c \in inbox, Begin(c)
        PROVE  Claiming'
    <2>1. /\ proc'["agent"].call = c /\ c \in CallsOf("agent")
          /\ NeedsSlot(c) => fs' = [fs EXCEPT ![Slot(c)] = Claimed]
      BY <1>4, BeginKeeps DEF OpenedAs
    <2>2. NeedsSlot(c) => Slot(c) \in Paths
      BY <1>0, <2>1, WhatIsCalled
    <2>3. NeedsSlot(c) => fs'[Slot(c)] = Claimed
      BY <2>1, <2>2 DEF Typed, FilesFit
    <2>. QED
      BY <2>1, <2>3 DEF Claiming
  <1>5. ASSUME NEW name \in Recoveries, NEW keep \in BOOLEAN, Recover(name, keep)
        PROVE  Claiming'
    <2>1. fs' = fs /\ proc'["agent"] = proc["agent"]
      BY <1>0, <1>5, RecoverKeeps DEF OpenedAs
    <2>. QED
      BY <2>1 DEF Claiming
  <1>6. ASSUME NEW p \in Procs, Acts(p)
        PROVE  Claiming'
    <2>1. /\ proc[p] # Idle /\ proc[p].call.name \in Names
          /\ \A q \in Procs : q # p => proc'[q] = proc[q]
          /\ proc'[p] = Idle \/ (proc'[p] # Idle /\ proc'[p].call = proc[p].call /\ proc[p].pc # "saved")
      BY <1>6, WhoActs
    <2>2. CASE OnlyOf(proc[p].call.name)
      <3>1. \A f \in CodeFiles : fs'[<<"code", f>>] = fs[<<"code", f>>]
        BY <1>2, <2>1, <2>2
      <3>2. CASE p = "agent"
        BY <1>1, <2>1, <3>1, <3>2
      <3>3. CASE p # "agent"
        <4>1. proc'["agent"] = proc["agent"]
          BY <1>0, <2>1, <3>3
        <4>2. CASE proc["agent"] # Idle /\ proc["agent"].pc # "saved"
          BY <1>1, <3>1, <4>1, <4>2
        <4>3. CASE proc["agent"] = Idle \/ proc["agent"].pc = "saved"
          BY <4>1, <4>3 DEF Claiming
        <4>. QED
          BY <4>2, <4>3
      <3>. QED
        BY <3>2, <3>3
    <2>3. CASE p = "agent" /\ (proc'[p] = Idle \/ proc'[p].pc = "saved")
      BY <2>3 DEF Claiming
    <2>. QED
      BY <1>6, <2>2, <2>3, FilesActsTouch
  <1>7. ASSUME NEW n \in Edited, Save(n)
        PROVE  Claiming'
    <2>1. /\ n \in Names
          /\ \E f : fs' = [fs EXCEPT ![<<n, "">>] = f]
          /\ \/ proc'["agent"] = proc["agent"]
             \/ /\ proc["agent"].pc = "reading" /\ proc["agent"] # Idle
                /\ proc'["agent"].call = proc["agent"].call
      <3>1. PICK content : /\ SavedAs(n, content)
                           /\ proc'["agent"] = proc["agent"] \/ (/\ proc["agent"].pc = "reading"
                                                                 /\ proc'["agent"].call = proc["agent"].call)
        BY <1>0, <1>7, SaveKeeps
      <3>2. fs' = [fs EXCEPT ![<<n, "">>] = Plain(n, content)]
        BY <3>1 DEF SavedAs
      <3>3. proc["agent"].pc = "reading" => proc["agent"] # Idle
        BY DEF Idle
      <3>. QED
        BY <1>7, <3>1, <3>2, <3>3, SaveKeeps
    <2>2. \A f \in CodeFiles : fs'[<<"code", f>>] = fs[<<"code", f>>]
      <3>1. <<n, "">> \in Paths /\ <<n, "">>[1] = n /\ n # "code"
        BY <2>1, KindsOfPaths
      <3>2. OnlyOf(n)
        BY <2>1, <3>1, OneFileTouched DEF Typed
      <3>. QED
        BY <1>2, <2>1, <3>2
    <2>3. CASE proc["agent"] # Idle /\ proc["agent"].pc # "saved"
      BY <1>1, <2>1, <2>2, <2>3
    <2>4. CASE proc["agent"] = Idle \/ proc["agent"].pc = "saved"
      <3>1. proc'["agent"] = proc["agent"]
        BY <2>1, <2>4 DEF Idle
      <3>. QED
        BY <2>4, <3>1 DEF Claiming
    <2>. QED
      BY <2>3, <2>4
  <1>8. ASSUME NEW y \in Paths, Wear(y)
        PROVE  Claiming'
    <2>1. proc'["agent"] = Idle
      BY <1>0, <1>8, WearKeeps
    <2>. QED
      BY <2>1 DEF Claiming
  <1>. QED
    BY <1>3, <1>4, <1>5, <1>6, <1>7, <1>8, StepsAre

(***************************************************************************)
(* What a step leaves alone stays secure.                                  *)
(***************************************************************************)

SameFiles(n) ==
    /\ Clear(n)' = Clear(n) /\ Sealed(n)' = Sealed(n)
    /\ NewSealed(n)' = NewSealed(n) /\ OldSealed(n)' = OldSealed(n)

Forward(n) == saved'[n] = saved[n] /\ raced \subseteq raced' /\ (Safe(n)' => Safe(n)) /\ MoreIsKnown

LEMMA LatestStays ==
    ASSUME NEW n, Forward(n), NEW content, IsLatest(n, content)
    PROVE  IsLatest(n, content)'
  BY DEF Forward, IsLatest

LEMMA SureStays ==
    ASSUME NEW n, Forward(n), NEW b, Sure(n, b)
    PROVE  Sure(n, b)'
  <1>1. IsLatest(n, Content(b))'
    BY LatestStays DEF Sure
  <1>2. Known(b.recovery.id)'
    BY DEF Sure, Forward, MoreIsKnown
  <1>. QED
    BY <1>1, <1>2 DEF Sure

LEMMA OtherFilesStay ==
    ASSUME NEW n \in Names, NEW m, m # n, OnlyOf(m)
    PROVE  SameFiles(n)
  BY KindsOfPaths DEF OnlyOf, SameFiles, Clear, Sealed, NewSealed, OldSealed

LEMMA CurrentStays ==
    ASSUME NEW n, Forward(n), Current(n), Clear(n)' = Clear(n), Sealed(n)' = Sealed(n),
           OldSealed(n)' = OldSealed(n)
    PROVE  Current(n)'
  <1>. PICK c, s, o : c = Clear(n) /\ s = Sealed(n) /\ o = OldSealed(n)
    OBVIOUS
  <1>1. Clear(n)' = c /\ Sealed(n)' = s /\ OldSealed(n)' = o
    OBVIOUS
  <1>2. /\ c # Nothing => IsLatest(n, c.content)
        /\ c = Nothing /\ s # Nothing => Sure(n, s)
        /\ c = Nothing /\ s = Nothing => Sure(n, o)
    BY DEF Current
  <1>3. /\ c # Nothing => IsLatest(n, c.content)'
        /\ c = Nothing /\ s # Nothing => Sure(n, s)'
        /\ c = Nothing /\ s = Nothing => Sure(n, o)'
    BY <1>2, LatestStays, SureStays
  <1>. QED
    BY <1>1, <1>3 DEF Current

(* An unlock cares for the original only.                                  *)
LEMMA UnlockStays ==
    ASSUME NEW x, Forward(x.call.name), UnlockSecure(x),
           Clear(x.call.name) # Nothing => Clear(x.call.name)' # Nothing
    PROVE  UnlockSecure(x)'
  <1>. PICK n : n = x.call.name
    OBVIOUS
  <1>1. /\ IsLatest(n, Content(x.input)) => IsLatest(n, Content(x.input))'
        /\ IsLatest(n, x.temp.content) => IsLatest(n, x.temp.content)'
    BY LatestStays
  <1>. QED
    BY <1>1 DEF UnlockSecure

LEMMA OpSecureStays ==
    ASSUME NEW x, Forward(x.call.name), SameFiles(x.call.name), OpSecure(x)
    PROVE  OpSecure(x)'
  <1>. PICK n : n = x.call.name
    OBVIOUS
  <1>. PICK c, s, new, o : c = Clear(n) /\ s = Sealed(n) /\ new = NewSealed(n) /\ o = OldSealed(n)
    OBVIOUS
  <1>1. Clear(n)' = c /\ Sealed(n)' = s /\ NewSealed(n)' = new /\ OldSealed(n)' = o
    BY DEF SameFiles
  <1>2. IsLatest(n, Content(x.temp)) => IsLatest(n, Content(x.temp))'
    BY LatestStays
  <1>3. (Known(x.n) => Known(x.n)') /\ (n \in raced => n \in raced')
    BY DEF Forward, MoreIsKnown
  <1>4. LockSecure(x) => LockSecure(x)'
    BY <1>1, <1>2, <1>3 DEF LockSecure
  <1>5. UnlockSecure(x) => UnlockSecure(x)'
    BY <1>1, UnlockStays
  <1>6. RekeySecure(x) => RekeySecure(x)'
    BY <1>1 DEF RekeySecure
  <1>. QED
    BY <1>4, <1>5, <1>6 DEF OpSecure

LEMMA SecureStays ==
    ASSUME NEW n, Secure(n), Forward(n), SameFiles(n),
           \A p \in Procs : proc'[p] = proc[p] \/ proc'[p] = Idle \/ proc'[p].call.name # n
    PROVE  Secure(n)'
  <1>. SUFFICES ASSUME Safe(n)'
                PROVE  Keeps(n)'
    BY DEF Secure
  <1>1. Keeps(n)
    BY DEF Forward, Secure
  <1>2. Current(n)'
    BY <1>1, CurrentStays DEF Keeps, SameFiles
  <1>3. ASSUME NEW p \in Procs, Works(p, n)'
        PROVE  proc'[p] = proc[p] /\ Works(p, n) /\ OpSecure(proc[p])'
    <2>. PICK x : x = proc[p]
      OBVIOUS
    <2>1. proc'[p] = x
      BY <1>3 DEF Works
    <2>2. Works(p, n) /\ OpSecure(x) /\ x.call.name = n
      BY <1>1, <1>3, <2>1 DEF Works, Keeps
    <2>3. OpSecure(x)'
      BY <2>2, OpSecureStays
    <2>. QED
      BY <2>1, <2>2, <2>3
  <1>4. "agent" \in Procs /\ "cli" \in Procs
    BY DEF Procs
  <1>5. ASSUME Works("agent", n)', Works("cli", n)'
        PROVE  Late(proc["agent"], proc["cli"])'
    BY <1>1, <1>3, <1>4, <1>5 DEF Keeps, Late
  <1>. QED
    BY <1>2, <1>3, <1>5 DEF Keeps

(***************************************************************************)
(* What an operation does to its own document.                             *)
(***************************************************************************)

LEMMA ActsForward ==
    ASSUME Typed, Claiming, NEW p \in Procs, Acts(p), NEW n \in Names
    PROVE  Forward(n) /\ (n # proc[p].call.name => SameFiles(n))
  <1>1. Forward(n)
    BY WhoActs, FilesActsTouch DEF Forward, Safe
  <1>2. n # "code"
    BY KindsOfPaths
  <1>3. OnlyOf(proc[p].call.name) \/ OnlyOf("code")
    BY FilesActsTouch
  <1>. QED
    BY <1>1, <1>2, <1>3, OtherFilesStay

LEMMA ActsElsewhere ==
    ASSUME Typed, Claiming, NEW p \in Procs, Acts(p), NEW n \in Names, n # proc[p].call.name, Secure(n)
    PROVE  Secure(n)'
  <1>1. Forward(n) /\ SameFiles(n)
    BY ActsForward
  <1>2. \A q \in Procs : proc'[q] = proc[q] \/ proc'[q] = Idle \/ proc'[q].call.name # n
    BY WhoActs
  <1>. QED
    BY <1>1, <1>2, SecureStays

(* The operation that acts, in its document.                               *)
Acting(p, n) ==
    /\ Forward(n) /\ Keeps(n) /\ Works(p, n) /\ OpSecure(proc[p]) /\ n \in Names
    /\ proc[p].call \in CallsOf(p) /\ \A q \in Procs : q # p => proc'[q] = proc[q]

LEMMA ActingIs ==
    ASSUME Typed, Claiming, NEW p \in Procs, Acts(p), NEW n, n = proc[p].call.name, Secure(n), Safe(n)'
    PROVE  Acting(p, n)
  <1>1. n \in Names /\ proc[p] # Idle /\ proc[p].call \in CallsOf(p) /\ \A q \in Procs : q # p => proc'[q] = proc[q]
    BY WhoActs
  <1>2. Forward(n)
    BY <1>1, ActsForward
  <1>. QED
    BY <1>1, <1>2 DEF Acting, Secure, Keeps, Works, Forward

LEMMA KeepsByParts ==
    ASSUME NEW p \in Procs, NEW n, Acting(p, n), Current(n)',
           Works(p, n)' => OpSecure(proc[p])',
           \A q \in Procs : q # p /\ Works(q, n) => OpSecure(proc[q])',
           Works("agent", n)' /\ Works("cli", n)' => Late(proc["agent"], proc["cli"])'
    PROVE  Keeps(n)'
  <1>1. SUFFICES ASSUME NEW q \in Procs, Works(q, n)'
                 PROVE  OpSecure(proc[q])'
    BY DEF Keeps
  <1>2. CASE q # p
    BY <1>1, <1>2 DEF Acting, Works
  <1>. QED
    BY <1>1, <1>2

(* No file of the document changes.                                        *)
LEMMA KeepsInPlace ==
    ASSUME NEW p \in Procs, NEW n, Acting(p, n), SameFiles(n),
           Works(p, n)' => OpSecure(proc[p])',
           Works("agent", n)' /\ Works("cli", n)' => Late(proc["agent"], proc["cli"])'
    PROVE  Keeps(n)'
  <1>1. Current(n)'
    BY CurrentStays DEF Acting, Keeps, SameFiles
  <1>2. ASSUME NEW q \in Procs, q # p, Works(q, n)
        PROVE  OpSecure(proc[q])'
    <2>. PICK x : x = proc[q]
      OBVIOUS
    <2>1. OpSecure(x) /\ x.call.name = n /\ Forward(n)
      BY <1>2 DEF Acting, Keeps, Works
    <2>2. OpSecure(x)'
      BY <2>1, OpSecureStays
    <2>3. proc'[q] = x
      BY <1>2 DEF Acting
    <2>. QED
      BY <2>2, <2>3
  <1>. QED
    BY <1>1, <1>2, KeepsByParts

(* A recovery beside a step of the agent's.                                *)
LEMMA KeepsBesideRecovery ==
    ASSUME Typed, NEW n, Acting("agent", n), Current(n)',
           Clear(n) # Nothing => Clear(n)' # Nothing,
           Works("agent", n)' => OpSecure(proc["agent"])',
           Works("agent", n)' /\ Works("cli", n) => Late(proc["agent"], proc["cli"])'
    PROVE  Keeps(n)'
  <1>0. "agent" \in Procs /\ "cli" \in Procs /\ "agent" # "cli" /\ \A q \in Procs : q # "agent" => q = "cli"
    BY DEF Procs
  <1>1. proc'["cli"] = proc["cli"]
    BY <1>0 DEF Acting
  <1>2. Works("cli", n) => OpSecure(proc["cli"])'
    <2>. SUFFICES ASSUME Works("cli", n)
                  PROVE  OpSecure(proc["cli"])'
      OBVIOUS
    <2>. PICK x : x = proc["cli"]
      OBVIOUS
    <2>1. x.call \in CallsOf("cli") /\ x.call.name = n /\ OpSecure(x) /\ Forward(n)
      BY <1>0, WhatRuns DEF Typed, Works, Acting, Keeps
    <2>2. x.call.op = "recover"
      BY <1>0, <2>1, WhatIsCalled
    <2>3. UnlockSecure(x)'
      BY <2>1, <2>2, UnlockStays DEF OpSecure
    <2>4. OpSecure(x)'
      BY <2>2, <2>3 DEF OpSecure
    <2>. QED
      BY <1>1, <2>4
  <1>3. Works("cli", n)' => Works("cli", n)
    BY <1>1 DEF Works
  <1>. QED
    BY <1>0, <1>2, <1>3, KeepsByParts

LEMMA EndKeepsSecure ==
    ASSUME Typed, Claiming, NEW p \in Procs, Acts(p), NEW n, n = proc[p].call.name, Secure(n),
           proc'[p] = Idle, SameFiles(n)
    PROVE  Secure(n)'
  <1>1. n \in Names
    BY WhoActs
  <1>. QED
    BY <1>1, ActsForward, WhoActs, SecureStays

LEMMA ExchangeSecure ==
    ASSUME Typed, Claiming, NEW p \in Procs, Exchange(p), NEW n, Acting(p, n)
    PROVE  Keeps(n)'
  <1>. PICK x, y : x = proc[p] /\ y = proc'[p]
    OBVIOUS
  <1>1. /\ Opens(p, x) /\ Opens(p, y) /\ y.call = x.call /\ y.input = x.input /\ p = "agent"
    <2>1. /\ Opens(p, x) /\ Opens(p, y) /\ y.call = x.call /\ y.input = x.input /\ x.pc # "keyed"
      BY ExchangeRuns DEF Typed
    <2>2. x.call.op # "recover" /\ x.call \in CallsOf(p)
      BY <2>1 DEF Opens
    <2>. QED
      BY <2>1, <2>2, WhatIsCalled
  <1>2. SameFiles(n)
    BY DEF Exchange, SameFiles, Clear, Sealed, NewSealed, OldSealed
  <1>3. OpSecure(x)' /\ x.call.name = n
    BY <1>2, OpSecureStays DEF Acting, Works
  <1>4. x.pc \in Opening /\ y.pc \in Opening
    BY <1>1 DEF Opens, Opening
  <1>5. OpSecure(y)'
    BY <1>1, <1>3, <1>4 DEF OpSecure, LockSecure, UnlockSecure, RekeySecure, Opening, Writing, Placing
  <1>6. ~(y.pc \in {"verifying", "verified", "saved"})
    BY <1>4 DEF Opening
  <1>. QED
    BY <1>1, <1>2, <1>5, <1>6, KeepsInPlace DEF Late

LEMMA CheckSecure ==
    ASSUME Typed, Claiming, NEW p \in Procs, Check(p), NEW n, Acting(p, n)
    PROVE  Keeps(n)'
  <1>. PICK x, y : x = proc[p] /\ y = proc'[p]
    OBVIOUS
  <1>1. GoesOnTo(p, "renaming") /\ fs' = fs /\ x.pc = "checking"
    BY CheckKeeps DEF Check, At
  <1>2. y.pc = "renaming" /\ y.call = x.call /\ y.temp = x.temp /\ y.n = x.n /\ y # Idle
    BY <1>1 DEF GoesOnTo, Idle
  <1>3. SameFiles(n)
    BY <1>1 DEF SameFiles, Clear, Sealed, NewSealed, OldSealed
  <1>4. OpSecure(x)' /\ x.call.name = n
    BY <1>3, OpSecureStays DEF Acting, Works
  <1>5. OpSecure(y)'
    <2>1. x.pc \in Writing /\ y.pc \in Writing
      BY <1>1, <1>2 DEF Writing
    <2>2. LockSecure(x)' => LockSecure(y)'
      BY <1>1, <1>2, <2>1 DEF LockSecure
    <2>3. UnlockSecure(x)' => UnlockSecure(y)'
      BY <1>1, <1>2 DEF UnlockSecure, Opening
    <2>4. RekeySecure(x)' => RekeySecure(y)'
      BY <1>1, <1>2 DEF RekeySecure, Opening, Replaces
    <2>. QED
      BY <1>2, <1>4, <2>2, <2>3, <2>4 DEF OpSecure
  <1>6. ASSUME Works("agent", n)', Works("cli", n)'
        PROVE  Late(proc["agent"], proc["cli"])'
    <2>0. "agent" \in Procs /\ "cli" \in Procs /\ (p = "agent" \/ p = "cli")
      BY DEF Procs
    <2>1. Works("agent", n) /\ Works("cli", n)
      BY <1>1, <1>6, <2>0 DEF GoesOnTo, Works, Idle
    <2>2. Late(proc["agent"], proc["cli"])
      BY <2>1 DEF Acting, Keeps
    <2>3. CASE p = "agent"
      BY <1>2, <2>3 DEF Late
    <2>4. CASE p = "cli"
      <3>1. proc'["agent"] = proc["agent"]
        BY <2>0, <2>4 DEF Acting
      <3>. QED
        BY <1>1, <2>2, <2>4, <3>1 DEF Late
    <2>. QED
      BY <2>0, <2>3, <2>4
  <1>. QED
    BY <1>3, <1>5, <1>6, KeepsInPlace

LEMMA VerifySecure ==
    ASSUME Typed, Claiming, NEW p \in Procs, Verify(p), NEW n, Acting(p, n)
    PROVE  Keeps(n)'
  <1>. PICK x, y : x = proc[p] /\ y = proc'[p]
    OBVIOUS
  <1>1. GoesOnTo(p, "verified") /\ fs' = fs /\ x.pc = "verifying" /\ Verified(fs[x.output])
    BY VerifyKeeps DEF Verify, At
  <1>2. /\ y.pc = "verified" /\ y.call = x.call /\ y.temp = x.temp /\ y.n = x.n
        /\ x.output = Target(x.call) /\ x.call.op \in {"lock", "rekey"} /\ x.call.name = n
    BY <1>1 DEF GoesOnTo, HasWritten, Acting, Works
  <1>3. p = "agent"
    BY <1>2, WhatIsCalled DEF Acting
  <1>4. SameFiles(n)
    BY <1>1 DEF SameFiles, Clear, Sealed, NewSealed, OldSealed
  <1>5. OpSecure(x)'
    BY <1>4, OpSecureStays DEF Acting, Works
  <1>6. /\ x.call.op = "lock" => Verified(Sealed(n))'
        /\ x.call.op = "rekey" => Verified(NewSealed(n))'
    BY <1>1, <1>2 DEF Target, Sealed, NewSealed
  <1>7. OpSecure(y)'
    <2>1. x.pc \in Writing /\ y.pc \in Writing
      BY <1>1, <1>2 DEF Writing
    <2>2. x.call.op = "lock" /\ LockSecure(x)' => LockSecure(y)'
      BY <1>1, <1>2, <1>6, <2>1 DEF LockSecure
    <2>3. x.call.op = "rekey" /\ RekeySecure(x)' => RekeySecure(y)'
      BY <1>1, <1>2, <1>6 DEF RekeySecure, Opening, Replaces
    <2>. QED
      BY <1>2, <1>5, <2>2, <2>3 DEF OpSecure
  <1>8. Works("agent", n)' /\ Works("cli", n)' => Late(proc["agent"], proc["cli"])'
    <2>1. "cli" \in Procs /\ "cli" # p
      BY <1>3 DEF Procs
    <2>2. proc'["cli"] = proc["cli"] /\ Works("agent", n)
      BY <1>3, <2>1 DEF Acting
    <2>3. Works("cli", n) => Late(x, proc["cli"])
      BY <1>3, <2>2 DEF Acting, Keeps
    <2>. QED
      BY <1>1, <1>2, <1>3, <2>2, <2>3 DEF Late, Works
  <1>. QED
    BY <1>4, <1>7, <1>8, KeepsInPlace

LEMMA SaveCodeSecure ==
    ASSUME Typed, Claiming, NEW p \in Procs, SaveCode(p), NEW n, Acting(p, n)
    PROVE  Keeps(n)'
  <1>. PICK x, y : x = proc[p] /\ y = proc'[p]
    OBVIOUS
  <1>1. /\ GoesOnTo(p, "saved") /\ p = "agent" /\ x.call.op = "lock" /\ x.pc = "verified"
        /\ x.call.out \in CodeFiles /\ fs' = [fs EXCEPT ![<<"code", x.call.out>>] = Code(x.n)]
    BY SaveCodeKeeps
  <1>2. /\ y.pc = "saved" /\ y.call = x.call /\ y.temp = x.temp /\ y.n = x.n /\ x.call.name = n
    BY <1>1 DEF GoesOnTo, Acting, Works
  <1>3. SameFiles(n) /\ fs'[<<"code", x.call.out>>] = Code(x.n)
    <2>. PICK c \in CodeFiles : c = x.call.out
      BY <1>1
    <2>1. <<"code", c>> \in Paths /\ <<"code", c>>[1] = "code" /\ n # "code" /\ n \in Names
      BY KindsOfPaths DEF Acting
    <2>2. OnlyOf("code") /\ fs'[<<"code", c>>] = Code(x.n)
      BY <1>1, <2>1, OneFileTouched DEF Typed
    <2>. QED
      BY <2>1, <2>2, OtherFilesStay
  <1>4. OpSecure(x)' /\ Known(x.n)'
    BY <1>1, <1>3, OpSecureStays DEF Acting, Works, Known
  <1>5. OpSecure(y)'
    <2>1. x.pc \in Writing /\ y.pc \in Writing
      BY <1>1, <1>2 DEF Writing
    <2>2. LockSecure(x)' => LockSecure(y)'
      BY <1>1, <1>2, <1>4, <2>1 DEF LockSecure
    <2>. QED
      BY <1>1, <1>2, <1>4, <2>2 DEF OpSecure
  <1>6. Works("agent", n)' /\ Works("cli", n)' => Late(proc["agent"], proc["cli"])'
    <2>1. "cli" \in Procs /\ "cli" # p
      BY <1>1 DEF Procs
    <2>2. proc'["cli"] = proc["cli"] /\ Works("agent", n)
      BY <1>1, <2>1 DEF Acting
    <2>3. Works("cli", n) => Late(x, proc["cli"])
      BY <1>1, <2>2 DEF Acting, Keeps
    <2>. QED
      BY <1>1, <1>2, <2>2, <2>3 DEF Late, Works
  <1>. QED
    BY <1>3, <1>5, <1>6, KeepsInPlace

(* Two intact containers of one core hold the same.                        *)
LEMMA SameCoreSameContent ==
    ASSUME Kept, NEW n \in Names, NEW a \in BoxesOf(n), NEW b \in BoxesOf(n), Holding(a), Holding(b),
           a.core = b.core, Decrypts(a), Decrypts(b)
    PROVE  Content(a) = Content(b)
  <1>1. PICK T \in Ledgers : Ledger(T)
    BY DEF Kept
  <1>2. a \in Boxes /\ a.doc = n /\ a.core \in Cores /\ b \in Boxes /\ b.doc = n
    BY FileKinds
  <1>. PICK s : s = T[n][a.core.id]
    OBVIOUS
  <1>3. s \in Seq(Blocks)
    <2>1. a.core.id \in Nat
      BY <1>2 DEF Cores
    <2>. QED
      BY <2>1 DEF Ledgers
  <1>4. SealedFrom(s, a) /\ SealedFrom(s, b)
    BY <1>1, <1>2 DEF Ledger, Honest, HonestBox
  <1>5. Content(a) = s /\ Content(b) = s
    BY <1>2, <1>3, <1>4, ContentIsTheLedgers
  <1>. QED
    BY <1>5

(* A lock that holds its container keeps a recovery from looking for a     *)
(* free name.                                                              *)
LEMMA NoRecoveryBesideALock ==
    ASSUME NEW n, Keeps(n), Works("agent", n), Clear(n) = Nothing
    PROVE  ~(proc["agent"].call.op = "lock" /\ proc["agent"].pc \in {"verifying", "verified", "saved"})
  <1>1. OpSecure(proc["agent"]) /\ proc["agent"].call.name = n
    BY DEF Keeps, Works, Procs
  <1>. QED
    BY <1>1 DEF OpSecure, LockSecure, Writing

LEMMA WriteSecure ==
    ASSUME Typed, Claiming, NEW p \in Procs, Write(p), NEW n, Acting(p, n)
    PROVE  Keeps(n)'
  <1>. PICK x, y : x = proc[p] /\ y = proc'[p]
    OBVIOUS
  <1>1. /\ Opens(p, x) /\ x.pc = "keyed" /\ y.call = x.call /\ y.n = x.n
        /\ Free(Target(x.call))
        /\ \/ /\ x.call.op = "lock" /\ y.pc = "reading" /\ y.source = fs[<<x.call.name, "">>]
           \/ /\ x.call.op = "rekey" /\ y.pc = "checking" /\ y.temp = Rewrapped(x)
           \/ /\ x.call.op \in {"unlock", "recover"} /\ y.pc = "checking" /\ Decrypts(x.input)
              /\ y.temp = Plain(x.call.name, Content(x.input))
    BY WriteRuns DEF Typed
  <1>2. SameFiles(n)
    BY DEF Write, SameFiles, Clear, Sealed, NewSealed, OldSealed
  <1>3. OpSecure(x)' /\ x.call.name = n /\ x.call \in CallsOf(p)
    BY <1>2, OpSecureStays DEF Acting, Works
  <1>4. CASE x.call.op = "lock"
    <2>1. y.pc = "reading" /\ y.source = Clear(n) /\ Clear(n) # Nothing
      BY <1>1, <1>3, <1>4 DEF Write, Free, Input, Clear
    <2>2. OpSecure(y)'
      BY <1>1, <1>2, <1>3, <1>4, <2>1 DEF OpSecure, LockSecure, SameFiles, Writing, Placing
    <2>3. p = "agent"
      BY <1>3, <1>4, WhatIsCalled
    <2>. QED
      BY <1>2, <2>1, <2>2, <2>3, KeepsInPlace DEF Late
  <1>5. CASE x.call.op = "rekey"
    <2>. PICK t : t = y.temp
      OBVIOUS
    <2>1. /\ y.pc = "checking" /\ t.core = x.input.core
          /\ ~x.call.new => t.recovery = x.input.recovery
      BY <1>1, <1>5, RewrappedIsTyped
    <2>2. Sealed(n)' \in {Nothing, x.input}
      BY <1>1, <1>3, <1>5 DEF OpSecure, RekeySecure, Opening
    <2>3. OpSecure(y)'
      BY <1>1, <1>3, <1>5, <2>1, <2>2 DEF OpSecure, RekeySecure, Replaces, Opening
    <2>4. p = "agent"
      BY <1>3, <1>5, WhatIsCalled
    <2>. QED
      BY <1>1, <1>2, <1>5, <2>3, <2>4, KeepsInPlace DEF Late
  <1>6. CASE x.call.op \in {"unlock", "recover"}
    <2>1. y.pc = "checking" /\ Decrypts(x.input) /\ y.temp.content = Content(x.input)
      <3>1. y.pc = "checking" /\ Decrypts(x.input) /\ y.temp = Plain(x.call.name, Content(x.input))
        BY <1>1, <1>6
      <3>2. Plain(x.call.name, Content(x.input)).content = Content(x.input)
        BY DEF Plain
      <3>. QED
        BY <3>1, <3>2
    <2>2. (Clear(n) # Nothing \/ IsLatest(n, Content(x.input)))'
      BY <1>1, <1>3, <1>6, <2>1 DEF OpSecure, UnlockSecure, Opening
    <2>3. OpSecure(y)'
      BY <1>1, <1>3, <1>6, <2>1, <2>2 DEF OpSecure, UnlockSecure, Opening
    <2>4. Clear(n) = Nothing
      BY <1>1, <1>3, <1>6 DEF Target, Free, Clear
    <2>5. Works("agent", n)' /\ Works("cli", n)' => Late(proc["agent"], proc["cli"])'
      <3>1. CASE p = "agent"
        BY <1>1, <1>6, <3>1 DEF Late
      <3>2. CASE p # "agent"
        <4>1. proc'["agent"] = proc["agent"]
          BY <3>2 DEF Acting, Procs
        <4>. QED
          BY <2>4, <4>1, NoRecoveryBesideALock DEF Acting, Late, Works
      <3>. QED
        BY <3>1, <3>2
    <2>. QED
      BY <1>2, <2>3, <2>5, KeepsInPlace
  <1>7. x.call.op \in {"lock", "unlock", "rekey", "recover"}
    BY <1>3, WhatIsCalled
  <1>. QED
    BY <1>4, <1>5, <1>6, <1>7

LEMMA ReadChunkSecure ==
    ASSUME Typed, Kept, Claiming, NEW p \in Procs, ReadChunk(p), NEW n, Acting(p, n), Safe(n)'
    PROVE  Keeps(n)'
  <1>. PICK x, y : x = proc[p] /\ y = proc'[p]
    OBVIOUS
  <1>1. /\ ReadsSource(p, x) /\ x.pc = "reading" /\ x.call.op = "lock" /\ y.call = x.call /\ y.n = x.n
        /\ Len(x.source.content) >= ((Len(x.chunks) + 1) - 1) * ChunkSize + Take(x.core, Len(x.chunks) + 1)
        /\ \/ /\ y.pc = "reading" /\ y.core = x.core /\ y.source = x.source
           \/ /\ y.pc = "checking" /\ y.temp = Locked(x)
              /\ Len(x.chunks) + 1 = ChunkCount(x.core) /\ Len(x.source.content) = x.core.len
    BY ReadChunkRuns DEF Typed, ReadsSource
  <1>2. SameFiles(n)
    BY DEF ReadChunk, SameFiles, Clear, Sealed, NewSealed, OldSealed
  <1>3. OpSecure(x)' /\ x.call.name = n /\ x.call \in CallsOf(p) /\ Forward(n)
    BY <1>2, OpSecureStays DEF Acting, Works
  <1>4. LockSecure(x)'
    BY <1>1, <1>3 DEF OpSecure
  <1>5. CASE y.pc = "reading"
    <2>1. y.core = x.core /\ y.source = x.source
      BY <1>1, <1>5
    <2>2. LockSecure(y)'
      BY <1>1, <1>3, <1>4, <1>5, <2>1 DEF LockSecure, Writing, Placing
    <2>3. OpSecure(y)'
      BY <1>1, <2>2 DEF OpSecure
    <2>4. p = "agent"
      BY <1>1, <1>3, WhatIsCalled
    <2>. QED
      BY <1>2, <1>5, <2>3, <2>4, KeepsInPlace DEF Late
  <1>6. CASE y.pc = "checking"
    <2>1. /\ y.temp = Locked(x) /\ Len(x.chunks) + 1 = ChunkCount(x.core)
          /\ Len(x.source.content) = x.core.len
      BY <1>1, <1>6
    <2>2. IsLatest(n, Content(Locked(x)))
      <3>1. CASE n \in raced
        BY <3>1 DEF IsLatest
      <3>2. CASE n \notin raced
        <4>1. LockSecure(x) /\ Current(n)
          BY <1>1, <1>3 DEF Acting, OpSecure, Keeps
        <4>2. x.source.content = Clear(n).content /\ IsLatest(n, Clear(n).content)
          BY <1>1, <1>3, <2>1, <3>2, <4>1 DEF LockSecure, Current
        <4>3. \A i \in 1 .. Len(x.chunks) : x.chunks[i].data = Part(x.core, i, x.source.content)
          <5>1. ReadsHonestly(x)
            BY <1>1 DEF Kept, Ledger
          <5>2. <<n, "restoring">> \notin faults
            BY DEF Safe, ReadChunk, history
          <5>. QED
            BY <1>3, <2>1, <3>2, <5>1, <5>2 DEF ReadsHonestly, Unspoilt
        <4>4. Content(Locked(x)) = x.source.content
          BY <1>1, <2>1, <4>3, SealedIsTheSource
        <4>. QED
          BY <4>2, <4>4
      <3>. QED
        BY <3>1, <3>2
    <2>3. IsLatest(n, Content(y.temp))'
      BY <1>3, <2>1, <2>2, LatestStays
    <2>4. Clear(n)' # Nothing
      BY <1>1, <1>3, <1>4 DEF LockSecure
    <2>5. OpSecure(y)'
      BY <1>1, <1>3, <1>6, <2>3, <2>4 DEF OpSecure, LockSecure, Writing
    <2>6. p = "agent"
      BY <1>1, <1>3, WhatIsCalled
    <2>. QED
      BY <1>2, <1>6, <2>5, <2>6, KeepsInPlace DEF Late
  <1>. QED
    BY <1>1, <1>5, <1>6

LEMMA OneFileOf ==
    ASSUME FilesFit(fs), NEW n \in Names, NEW s \in {"", "balock", "rekey-new", "rekey-old"}, NEW f,
           fs' = [fs EXCEPT ![<<n, s>>] = f]
    PROVE  /\ Clear(n)' = IF s = "" THEN f ELSE Clear(n)
           /\ Sealed(n)' = IF s = "balock" THEN f ELSE Sealed(n)
           /\ NewSealed(n)' = IF s = "rekey-new" THEN f ELSE NewSealed(n)
           /\ OldSealed(n)' = IF s = "rekey-old" THEN f ELSE OldSealed(n)
  <1>1. \A z \in Paths : fs'[z] = IF z = <<n, s>> THEN f ELSE fs[z]
    BY DEF FilesFit
  <1>2. \A t \in {"", "balock", "rekey-new", "rekey-old"} :
          <<n, t>> \in Paths /\ (<<n, t>> = <<n, s>> <=> t = s)
    BY KindsOfPaths
  <1>. QED
    BY <1>1, <1>2 DEF Clear, Sealed, NewSealed, OldSealed

(* The document appears in the clear.                                      *)
LEMMA ClearAppears ==
    ASSUME NEW x, Forward(x.call.name), OpSecure(x), Clear(x.call.name) = Nothing,
           Clear(x.call.name)' # Nothing, Sealed(x.call.name)' = Sealed(x.call.name),
           NewSealed(x.call.name)' = NewSealed(x.call.name),
           OldSealed(x.call.name)' = OldSealed(x.call.name)
    PROVE  OpSecure(x)'
  <1>1. x.call.op = "lock" => LockSecure(x)'
    BY DEF OpSecure, LockSecure, Writing
  <1>2. x.call.op \in {"unlock", "recover"} => UnlockSecure(x)'
    BY UnlockStays DEF OpSecure
  <1>3. x.call.op = "rekey" => RekeySecure(x)'
    BY DEF OpSecure, RekeySecure
  <1>. QED
    BY <1>1, <1>2, <1>3 DEF OpSecure

(* What is published is what was written, or what a bad disk made of it.   *)
LEMMA PublishedIs ==
    ASSUME NEW x, x.temp \in BoxesOf(x.call.name), x.call.op \in {"lock", "rekey"},
           NEW f, Published(x, f)
    PROVE  f # Nothing /\ f.core = x.temp.core /\ f.recovery.id = x.temp.recovery.id
  <1>1. f \in BoxesOf(x.call.name)
    BY DEF Published
  <1>2. x.temp.recovery \in Wrappers
    BY FileKinds DEF Boxes
  <1>3. f = x.temp \/ Spoils(x.temp, f)
    BY DEF Published
  <1>4. f.core = x.temp.core /\ f.recovery.id = x.temp.recovery.id
    BY <1>2, <1>3, UnsoundIs DEF Spoils
  <1>. QED
    BY <1>1, <1>4, FileKinds

LEMMA PublishSecure ==
    ASSUME Typed, Claiming, NEW p \in Procs, Publish(p), NEW n, Acting(p, n), Safe(n)'
    PROVE  Keeps(n)'
  <1>. PICK x, y : x = proc[p] /\ y = proc'[p]
    OBVIOUS
  <1>1. /\ GoesOnTo(p, IF x.call.op \in {"lock", "rekey"} THEN "verifying" ELSE "verified")
        /\ x.output = Target(x.call) /\ ~Overtakes(x) /\ x.pc = "renaming" /\ HasWritten(p, x)
        /\ \E f : fs' = [fs EXCEPT ![x.output] = f] /\ Published(x, f)
    <2>1. x.call.name = n
      BY DEF Acting, Works
    <2>2. /\ GoesOnTo(p, IF x.call.op \in {"lock", "rekey"} THEN "verifying" ELSE "verified")
          /\ x.output = Target(x.call)
          /\ overtaken' = IF Overtakes(x) THEN overtaken \cup {x.call.name} ELSE overtaken
          /\ \E f : fs' = [fs EXCEPT ![x.output] = f] /\ Published(x, f)
      BY PublishKeeps
    <2>3. ~Overtakes(x)
      BY <2>1, <2>2 DEF Safe
    <2>. QED
      BY <2>2, <2>3 DEF Publish, At, GoesOnTo
  <1>2. PICK f : fs' = [fs EXCEPT ![x.output] = f] /\ Published(x, f)
    BY <1>1
  <1>3. /\ y.call = x.call /\ y.n = x.n /\ y.temp = x.temp /\ x.call.name = n /\ n \in Names
        /\ x.call \in CallsOf(p) /\ OpSecure(x) /\ Forward(n) /\ Keeps(n) /\ Current(n)
    BY <1>1 DEF GoesOnTo, Acting, Works, Keeps
  <1>4. CASE x.call.op = "lock"
    <2>1. y.pc = "verifying" /\ p = "agent" /\ LockSecure(x)
      BY <1>1, <1>3, <1>4, WhatIsCalled DEF GoesOnTo, OpSecure
    <2>2. fs' = [fs EXCEPT ![<<n, "balock">>] = f]
      BY <1>1, <1>2, <1>3, <1>4 DEF Target
    <2>3. Clear(n)' = Clear(n) /\ Sealed(n)' = f
      BY <1>3, <2>2, OneFileOf DEF Typed
    <2>4. f # Nothing /\ f.core = x.temp.core /\ f.recovery.id = x.n
      <3>1. x.temp \in BoxesOf(x.call.name) /\ x.temp.recovery = Wrapper(x.temp.core, x.n)
        BY <1>1, <1>4 DEF HasWritten
      <3>2. x.temp.recovery.id = x.n
        BY <3>1 DEF Wrapper
      <3>. QED
        BY <1>2, <1>4, <3>1, <3>2, PublishedIs
    <2>5. Clear(n) # Nothing
      BY <1>1, <1>3, <2>1 DEF LockSecure, Writing
    <2>6. Current(n)'
      <3>. PICK c : c = Clear(n)
        OBVIOUS
      <3>1. IsLatest(n, c.content)
        BY <1>3, <2>5 DEF Current
      <3>2. IsLatest(n, c.content)'
        BY <1>3, <3>1, LatestStays
      <3>. QED
        BY <2>3, <2>5, <3>2 DEF Current
    <2>7. IsLatest(n, Content(x.temp))'
      <3>1. IsLatest(n, Content(x.temp))
        BY <1>1, <1>3, <2>1 DEF LockSecure, Writing
      <3>. QED
        BY <1>3, <3>1, LatestStays
    <2>8. OpSecure(y)'
      BY <1>3, <1>4, <2>1, <2>3, <2>4, <2>5, <2>7 DEF OpSecure, LockSecure
    <2>9. ~Works("cli", n)
      <3>1. "cli" \in Procs
        BY DEF Procs
      <3>. QED
        BY <1>1, <1>3, <1>4, <3>1, WhatRuns DEF Overtakes, Works, At, Typed
    <2>. QED
      BY <2>1, <2>3, <2>5, <2>6, <2>8, <2>9, KeepsBesideRecovery
  <1>5. CASE x.call.op = "rekey"
    <2>1. y.pc = "verifying" /\ p = "agent" /\ RekeySecure(x)
      BY <1>1, <1>3, <1>5, WhatIsCalled DEF GoesOnTo, OpSecure
    <2>2. fs' = [fs EXCEPT ![<<n, "rekey-new">>] = f]
      BY <1>1, <1>2, <1>3, <1>5 DEF Target
    <2>3. Clear(n)' = Clear(n) /\ Sealed(n)' = Sealed(n) /\ NewSealed(n)' = f /\ OldSealed(n)' = OldSealed(n)
      BY <1>3, <2>2, OneFileOf DEF Typed
    <2>4. f # Nothing /\ f.core = x.temp.core /\ f.recovery.id = x.temp.recovery.id
      <3>1. x.temp \in BoxesOf(x.call.name)
        BY <1>1, <1>5 DEF HasWritten
      <3>. QED
        BY <1>2, <1>5, <3>1, PublishedIs
    <2>5. Current(n)'
      BY <1>3, <2>3, CurrentStays
    <2>6. OpSecure(y)'
      BY <1>1, <1>3, <1>5, <2>1, <2>3, <2>4 DEF OpSecure, RekeySecure, Replaces, Opening
    <2>. QED
      BY <1>3, <1>5, <2>1, <2>3, <2>5, <2>6, KeepsBesideRecovery DEF Late
  <1>6. CASE x.call.op \in {"unlock", "recover"}
    <2>1. y.pc = "verified" /\ UnlockSecure(x) /\ x.temp \in PlainsOf(n)
      BY <1>1, <1>3, <1>6 DEF GoesOnTo, OpSecure, HasWritten
    <2>2. fs' = [fs EXCEPT ![<<n, "">>] = x.temp] /\ Clear(n) = Nothing
      <3>1. <<n, "restoring">> \notin faults'
        BY DEF Safe
      <3>2. f = x.temp
        BY <1>2, <1>3, <1>6, <3>1 DEF Published
      <3>. QED
        BY <1>1, <1>2, <1>3, <1>6, <3>2 DEF Target, Overtakes, Free, Clear
    <2>3. Clear(n)' = x.temp /\ Sealed(n)' = Sealed(n) /\ NewSealed(n)' = NewSealed(n) /\ OldSealed(n)' = OldSealed(n)
      BY <1>3, <2>2, OneFileOf DEF Typed
    <2>4. x.temp # Nothing /\ IsLatest(n, x.temp.content)
      <3>1. IsLatest(n, x.temp.content)
        BY <1>1, <1>3, <2>1, <2>2 DEF UnlockSecure
      <3>. QED
        BY <2>1, <3>1, FileKinds
    <2>5. Current(n)'
      <3>1. IsLatest(n, x.temp.content)'
        BY <1>3, <2>4, LatestStays
      <3>. QED
        BY <2>3, <2>4, <3>1 DEF Current
    <2>6. OpSecure(y)'
      BY <1>3, <1>6, <2>1, <2>3, <2>4 DEF OpSecure, UnlockSecure, Opening
    <2>7. ASSUME NEW q \in Procs, q # p, Works(q, n)
          PROVE  OpSecure(proc[q])'
      <3>. PICK z : z = proc[q]
        OBVIOUS
      <3>1. OpSecure(z) /\ z.call.name = n /\ proc'[q] = z
        BY <1>3, <2>7 DEF Keeps, Works, Acting
      <3>2. OpSecure(z)'
        BY <1>3, <2>2, <2>3, <2>4, <3>1, ClearAppears
      <3>. QED
        BY <3>1, <3>2
    <2>8. Works("agent", n)' /\ Works("cli", n)' => Late(proc["agent"], proc["cli"])'
      <3>1. CASE p = "agent"
        BY <1>3, <1>6, <3>1 DEF Late
      <3>2. CASE p # "agent"
        <4>1. proc'["agent"] = proc["agent"]
          BY <3>2 DEF Acting, Procs
        <4>. QED
          BY <1>3, <2>2, <4>1, NoRecoveryBesideALock DEF Late, Works
      <3>. QED
        BY <3>1, <3>2
    <2>. QED
      BY <2>5, <2>6, <2>7, <2>8, KeepsByParts
  <1>7. x.call.op \in {"lock", "unlock", "rekey", "recover"}
    BY <1>3, WhatIsCalled
  <1>. QED
    BY <1>4, <1>5, <1>6, <1>7

LEMMA RemoveOriginalSecure ==
    ASSUME Typed, Kept, Claiming, NEW p \in Procs, RemoveOriginal(p), NEW n, Acting(p, n)
    PROVE  Keeps(n)'
  <1>. PICK x : x = proc[p]
    OBVIOUS
  <1>1. /\ EndsWith(p, "granted") /\ p = "agent" /\ x.call.op = "lock" /\ x.pc = "saved" /\ HasWritten(p, x)
        /\ fs' = fs \/ fs' = [fs EXCEPT ![<<x.call.name, "">>] = Nothing]
    BY RemoveOriginalKeeps
  <1>2. /\ x.call.name = n /\ n \in Names /\ proc'["agent"] = Idle /\ ~Works(p, n)' /\ ~Works("agent", n)'
        /\ LockSecure(x) /\ Forward(n) /\ Keeps(n) /\ Current(n) /\ Works("agent", n)
    BY <1>1 DEF EndsWith, Acting, Works, Keeps, OpSecure
  <1>3. CASE fs' = fs
    <2>1. SameFiles(n)
      BY <1>3 DEF SameFiles, Clear, Sealed, NewSealed, OldSealed
    <2>. QED
      BY <1>2, <2>1, KeepsInPlace
  <1>4. CASE fs' = [fs EXCEPT ![<<n, "">>] = Nothing]
    <2>. PICK s, t : s = Sealed(n) /\ t = x.temp
      OBVIOUS
    <2>1. Clear(n)' = Nothing /\ Sealed(n)' = s /\ NewSealed(n)' = NewSealed(n) /\ OldSealed(n)' = OldSealed(n)
      BY <1>2, <1>4, OneFileOf DEF Typed
    <2>2. /\ s # Nothing /\ s.core = t.core /\ s.recovery.id = x.n /\ Verified(s) /\ Known(x.n)
          /\ IsLatest(n, Content(t))
      BY <1>1, <1>2 DEF LockSecure, Writing
    <2>3. t \in BoxesOf(n) /\ Decrypts(t) /\ Holding(t)
      <3>1. t \in BoxesOf(n) /\ Decrypts(t)
        BY <1>1, <1>2 DEF HasWritten, Verified
      <3>2. x.pc \in Writing
        BY <1>1 DEF Writing
      <3>. QED
        BY <3>1, <3>2 DEF Holding
    <2>4. s \in BoxesOf(n) /\ Holding(s)
      <3>1. s \in {Nothing} \cup BoxesOf(n)
        BY <1>2, InputFits DEF Typed, Sealed
      <3>2. <<n, "balock">> \in Paths
        BY <1>2, KindsOfPaths
      <3>. QED
        BY <2>2, <3>1, <3>2 DEF Holding, Sealed
    <2>5. Content(s) = Content(t)
      BY <1>2, <2>2, <2>3, <2>4, SameCoreSameContent DEF Verified
    <2>6. Sure(n, s)'
      <3>1. Sure(n, s)
        BY <2>2, <2>5 DEF Sure
      <3>. QED
        BY <1>2, <3>1, SureStays
    <2>7. Current(n)'
      BY <2>1, <2>2, <2>6 DEF Current
    <2>8. ASSUME NEW q \in Procs, q # p, Works(q, n)
          PROVE  OpSecure(proc[q])'
      <3>. PICK z : z = proc[q]
        OBVIOUS
      <3>1. q = "cli"
        BY <1>1, <2>8 DEF Procs
      <3>2. z.pc = "keyed" /\ z.core = t.core /\ z.call.name = n
        BY <1>1, <1>2, <2>8, <3>1 DEF Keeps, Late, Works
      <3>3. Opens(q, z) /\ proc'[q] = z
        BY <2>8, <3>2, WhatRuns DEF Typed, Acting
      <3>4. z.call.op = "recover" /\ z.input \in BoxesOf(n) /\ z.input.core = t.core
        <4>1. z.call.op = "recover"
          BY <3>1, <3>3, WhatIsCalled DEF Opens
        <4>. QED
          BY <3>2, <3>3, <4>1 DEF Opens
      <3>5. Holding(z.input)
        BY <3>2 DEF Holding, Opening
      <3>6. Decrypts(z.input) => IsLatest(n, Content(z.input))
        BY <1>2, <2>2, <2>3, <3>4, <3>5, SameCoreSameContent
      <3>7. Decrypts(z.input) => IsLatest(n, Content(z.input))'
        BY <1>2, <3>6, LatestStays
      <3>8. OpSecure(z)'
        BY <3>2, <3>4, <3>7 DEF OpSecure, UnlockSecure
      <3>. QED
        BY <3>3, <3>8
    <2>. QED
      BY <1>2, <2>7, <2>8, KeepsByParts
  <1>. QED
    BY <1>1, <1>2, <1>3, <1>4

LEMMA RemoveContainerSecure ==
    ASSUME Typed, Claiming, NEW p \in Procs, RemoveContainer(p), NEW n, Acting(p, n)
    PROVE  Keeps(n)'
  <1>. PICK x : x = proc[p]
    OBVIOUS
  <1>1. /\ EndsWith(p, "granted") /\ x.call.op \in {"unlock", "recover"} /\ x.pc = "verified"
        /\ fs' = fs \/ fs' = [fs EXCEPT ![<<x.call.name, "balock">>] = Nothing]
    BY RemoveContainerKeeps
  <1>2. /\ x.call.name = n /\ n \in Names /\ proc'[p] = Idle /\ ~Works(p, n)'
        /\ ~(Works("agent", n)' /\ Works("cli", n)')
        /\ UnlockSecure(x) /\ Forward(n) /\ Keeps(n) /\ Current(n) /\ Works(p, n)
    BY <1>1 DEF EndsWith, Acting, Works, Keeps, OpSecure, Procs
  <1>3. CASE fs' = fs
    <2>1. SameFiles(n)
      BY <1>3 DEF SameFiles, Clear, Sealed, NewSealed, OldSealed
    <2>. QED
      BY <1>2, <2>1, KeepsInPlace
  <1>4. CASE fs' = [fs EXCEPT ![<<n, "balock">>] = Nothing]
    <2>. PICK c : c = Clear(n)
      OBVIOUS
    <2>1. Clear(n)' = c /\ Sealed(n)' = Nothing /\ NewSealed(n)' = NewSealed(n) /\ OldSealed(n)' = OldSealed(n)
      BY <1>2, <1>4, OneFileOf DEF Typed
    <2>2. c # Nothing
      BY <1>1, <1>2 DEF UnlockSecure
    <2>3. Current(n)'
      <3>1. IsLatest(n, c.content)
        BY <1>2, <2>2 DEF Current
      <3>2. IsLatest(n, c.content)'
        BY <1>2, <3>1, LatestStays
      <3>. QED
        BY <2>1, <2>2, <3>2 DEF Current
    <2>4. ASSUME NEW q \in Procs, q # p, Works(q, n)
          PROVE  OpSecure(proc[q])'
      <3>. PICK z : z = proc[q]
        OBVIOUS
      <3>1. OpSecure(z) /\ z.call.name = n /\ proc'[q] = z
        BY <1>2, <2>4 DEF Keeps, Works, Acting
      <3>2. z.call.op \in {"unlock", "recover"} => OpSecure(z)'
        <4>1. z.call.op \in {"unlock", "recover"} => UnlockSecure(z)'
          BY <1>2, <2>1, <2>2, <3>1, UnlockStays DEF OpSecure
        <4>. QED
          BY <4>1 DEF OpSecure
      <3>3. z.call.op = "rekey" => OpSecure(z)'
        BY <2>1, <2>2, <3>1 DEF OpSecure, RekeySecure
      <3>4. ASSUME z.call.op = "lock"
            PROVE  OpSecure(z)'
        <4>1. q = "agent" /\ p = "cli"
          BY <2>4, <3>4, WhatRuns, WhatIsCalled DEF Procs, Typed, Works
        <4>2. z.pc \notin {"verifying", "verified", "saved"}
          BY <1>1, <1>2, <2>4, <3>4, <4>1 DEF Keeps, Late
        <4>3. IsLatest(n, Content(z.temp)) => IsLatest(n, Content(z.temp))'
          BY <1>2, LatestStays
        <4>4. n \in raced => n \in raced'
          BY <1>2 DEF Forward
        <4>5. LockSecure(z)
          BY <3>1, <3>4 DEF OpSecure
        <4>6. LockSecure(z)'
          BY <2>1, <2>2, <3>1, <4>2, <4>3, <4>4, <4>5 DEF LockSecure
        <4>. QED
          BY <3>4, <4>6 DEF OpSecure
      <3>5. z.call.op \in {"lock", "unlock", "rekey", "recover"}
        BY <2>4, WhatRuns, WhatIsCalled DEF Typed, Works
      <3>. QED
        BY <3>1, <3>2, <3>3, <3>4, <3>5
    <2>. QED
      BY <1>2, <2>3, <2>4, KeepsByParts
  <1>. QED
    BY <1>1, <1>2, <1>3, <1>4

LEMMA SetAsideSecure ==
    ASSUME Typed, Claiming, NEW p \in Procs, SetAside(p), NEW n, Acting(p, n)
    PROVE  Keeps(n)'
  <1>. PICK x, y : x = proc[p] /\ y = proc'[p]
    OBVIOUS
  <1>. PICK c, s, new : c = Clear(n) /\ s = Sealed(n) /\ new = NewSealed(n)
    OBVIOUS
  <1>1. /\ GoesOnTo(p, "aside") /\ p = "agent" /\ x.call.op = "rekey" /\ x.pc = "verified"
        /\ Moves(x.call.name, "balock", "rekey-old")
    BY SetAsideKeeps
  <1>2. /\ y.pc = "aside" /\ y.call = x.call /\ y.n = x.n /\ y.temp = x.temp /\ x.call.name = n /\ n \in Names
        /\ RekeySecure(x) /\ Forward(n) /\ Keeps(n) /\ Current(n)
    BY <1>1 DEF GoesOnTo, Acting, Works, Keeps, OpSecure
  <1>3. /\ Clear(n)' = c /\ Sealed(n)' = Nothing /\ NewSealed(n)' = new /\ OldSealed(n)' = s
        /\ s \in BoxesOf(n) /\ s # Nothing
    <2>1. <<n, "">> \in Paths /\ <<n, "rekey-new">> \in Paths
      BY <1>2, KindsOfPaths
    <2>2. s \in BoxesOf(n) /\ s # Nothing
      BY <1>1, <1>2, FileKinds DEF Moves, Sealed
    <2>. QED
      BY <1>1, <1>2, <2>1, <2>2 DEF Moves, Clear, Sealed, NewSealed, OldSealed
  <1>4. Current(n)'
    <2>1. c # Nothing => IsLatest(n, c.content)
      BY <1>2 DEF Current
    <2>2. c = Nothing => Sure(n, s)
      BY <1>2, <1>3 DEF Current
    <2>3. c # Nothing => IsLatest(n, c.content)'
      BY <1>2, <2>1, LatestStays
    <2>4. c = Nothing => Sure(n, s)'
      BY <1>2, <2>2, SureStays
    <2>. QED
      BY <1>3, <2>3, <2>4 DEF Current
  <1>5. OpSecure(y)'
    <2>1. /\ Replaces(x, s) /\ new # Nothing /\ new.core = x.temp.core
          /\ new.recovery.id = x.temp.recovery.id /\ Verified(new)
      BY <1>1, <1>2, <1>3 DEF RekeySecure
    <2>2. RekeySecure(y)'
      BY <1>2, <1>3, <2>1 DEF RekeySecure, Replaces, Opening
    <2>. QED
      BY <1>1, <1>2, <2>2 DEF OpSecure
  <1>. QED
    BY <1>1, <1>2, <1>3, <1>4, <1>5, KeepsBesideRecovery DEF Late

LEMMA PutInPlaceSecure ==
    ASSUME Typed, Kept, Claiming, NEW p \in Procs, PutInPlace(p), NEW n, Acting(p, n)
    PROVE  Keeps(n)'
  <1>. PICK x, y : x = proc[p] /\ y = proc'[p]
    OBVIOUS
  <1>. PICK c, new, o : c = Clear(n) /\ new = NewSealed(n) /\ o = OldSealed(n)
    OBVIOUS
  <1>1. /\ GoesOnTo(p, "placed") /\ p = "agent" /\ x.call.op = "rekey" /\ x.pc = "aside"
        /\ Moves(x.call.name, "rekey-new", "balock")
        /\ unsaved' = IF x.call.new THEN unsaved \cup {x.n} ELSE unsaved
    BY PutInPlaceKeeps
  <1>2. /\ y.pc = "placed" /\ y.call = x.call /\ y.n = x.n /\ y.temp = x.temp /\ x.call.name = n /\ n \in Names
        /\ RekeySecure(x) /\ Forward(n) /\ Keeps(n) /\ Current(n) /\ HasWritten(p, x)
    BY <1>1 DEF GoesOnTo, Acting, Works, Keeps, OpSecure
  <1>3. /\ Clear(n)' = c /\ Sealed(n)' = new /\ OldSealed(n)' = o /\ new \in BoxesOf(n) /\ new # Nothing
    <2>1. <<n, "">> \in Paths /\ <<n, "rekey-old">> \in Paths
      BY <1>2, KindsOfPaths
    <2>2. new \in BoxesOf(n) /\ new # Nothing
      BY <1>1, <1>2, FileKinds DEF Moves, NewSealed
    <2>. QED
      BY <1>1, <1>2, <2>1, <2>2 DEF Moves, Clear, Sealed, NewSealed, OldSealed
  <1>4. /\ new.core = x.temp.core /\ new.recovery.id = x.temp.recovery.id /\ Verified(new)
        /\ Sealed(n) = Nothing /\ o # Nothing /\ Replaces(x, o)
    BY <1>1, <1>2 DEF RekeySecure
  <1>5. ASSUME c = Nothing
        PROVE  Sure(n, new)'
    <2>1. Verified(o) /\ Known(o.recovery.id) /\ IsLatest(n, Content(o))
      BY <1>2, <1>4, <1>5 DEF Current, Sure
    <2>2. o \in BoxesOf(n) /\ Holding(o) /\ Holding(new)
      <3>1. o \in {Nothing} \cup BoxesOf(n)
        BY <1>2, InputFits DEF Typed, OldSealed
      <3>2. <<n, "rekey-new">> \in Paths /\ <<n, "rekey-old">> \in Paths
        BY <1>2, KindsOfPaths
      <3>. QED
        BY <1>4, <3>1, <3>2 DEF Holding, NewSealed, OldSealed
    <2>3. Content(new) = Content(o)
      BY <1>2, <1>3, <1>4, <2>1, <2>2, SameCoreSameContent DEF Verified, Replaces
    <2>4. IsLatest(n, Content(new))'
      BY <1>2, <2>1, <2>3, LatestStays
    <2>5. Known(new.recovery.id)'
      <3>1. CASE x.call.new
        <4>1. x.temp.recovery = Wrapper(x.temp.core, x.n)
          BY <1>1, <1>2, <3>1 DEF HasWritten
        <4>2. new.recovery.id = x.n
          BY <1>4, <4>1 DEF Wrapper
        <4>. QED
          BY <1>1, <3>1, <4>2 DEF Known
      <3>2. CASE ~x.call.new
        <4>1. Known(new.recovery.id)
          BY <1>4, <2>1, <3>2 DEF Replaces
        <4>. QED
          BY <1>2, <4>1 DEF Forward, MoreIsKnown
      <3>. QED
        BY <3>1, <3>2
    <2>. QED
      BY <1>4, <2>4, <2>5 DEF Sure
  <1>6. Current(n)'
    <2>1. c # Nothing => IsLatest(n, c.content)
      BY <1>2 DEF Current
    <2>2. c # Nothing => IsLatest(n, c.content)'
      BY <1>2, <2>1, LatestStays
    <2>. QED
      BY <1>3, <1>5, <2>2 DEF Current
  <1>7. OpSecure(y)'
    BY <1>1, <1>2, <1>3 DEF OpSecure, RekeySecure, Opening
  <1>. QED
    BY <1>1, <1>2, <1>3, <1>6, <1>7, KeepsBesideRecovery DEF Late

LEMMA RemoveSupersededSecure ==
    ASSUME Typed, Claiming, NEW p \in Procs, RemoveSuperseded(p), NEW n, Acting(p, n)
    PROVE  Keeps(n)'
  <1>. PICK x, y : x = proc[p] /\ y = proc'[p]
    OBVIOUS
  <1>. PICK c, s : c = Clear(n) /\ s = Sealed(n)
    OBVIOUS
  <1>1. /\ p = "agent" /\ x.call.op = "rekey" /\ x.pc = "placed"
        /\ fs' = fs \/ fs' = [fs EXCEPT ![<<x.call.name, "rekey-old">>] = Nothing]
        /\ IF x.call.new THEN GoesOnTo(p, "rekeyed") ELSE EndsWith(p, "granted")
    BY RemoveSupersededKeeps
  <1>2. /\ x.call.name = n /\ n \in Names /\ RekeySecure(x) /\ Forward(n) /\ Keeps(n) /\ Current(n)
        /\ y = Idle \/ (y.pc = "rekeyed" /\ y.call = x.call)
    BY <1>1 DEF GoesOnTo, EndsWith, Acting, Works, Keeps, OpSecure
  <1>3. Clear(n)' = c /\ Sealed(n)' = s
    <2>1. CASE fs' = fs
      BY <2>1 DEF Clear, Sealed
    <2>2. CASE fs' = [fs EXCEPT ![<<n, "rekey-old">>] = Nothing]
      BY <1>2, <2>2, OneFileOf DEF Typed
    <2>. QED
      BY <1>1, <1>2, <2>1, <2>2
  <1>4. Current(n)'
    <2>1. /\ c # Nothing \/ s # Nothing
          /\ c # Nothing => IsLatest(n, c.content)
          /\ c = Nothing /\ s # Nothing => Sure(n, s)
      BY <1>1, <1>2 DEF Current, RekeySecure
    <2>2. /\ c # Nothing => IsLatest(n, c.content)'
          /\ c = Nothing /\ s # Nothing => Sure(n, s)'
      BY <1>2, <2>1, LatestStays, SureStays
    <2>. QED
      BY <1>3, <2>1, <2>2 DEF Current
  <1>5. Works("agent", n)' => OpSecure(y)' /\ y.call.op = "rekey"
    BY <1>1, <1>2 DEF OpSecure, RekeySecure, Opening, Works
  <1>. QED
    BY <1>1, <1>3, <1>4, <1>5, KeepsBesideRecovery DEF Late, Works

LEMMA NotClaimed ==
    ASSUME NEW n, NEW f, f \in {Nothing} \cup PlainsOf(n) \cup BoxesOf(n)
    PROVE  f # Claimed
  <1>1. CASE f = Nothing
    BY <1>1 DEF Nothing, Claimed
  <1>2. CASE f \in PlainsOf(n)
    <2>1. f.kind = "plain"
      BY <1>2, FileKinds
    <2>. QED
      BY <2>1 DEF Claimed
  <1>3. CASE f \in BoxesOf(n)
    <2>1. f.kind = "container"
      BY <1>3, FileKinds
    <2>. QED
      BY <2>1 DEF Claimed
  <1>. QED
    BY <1>1, <1>2, <1>3

(* A call that fails drops a claimed recovery file, a rekey's new code     *)
(* goes to its file, and a kill touches nothing.                           *)
LEMMA EndingsSecure ==
    ASSUME Typed, Claiming, NEW p \in Procs, Decline(p) \/ Abort(p) \/ Kill(p) \/ SaveNewCode(p), NEW n,
           n = proc[p].call.name, Secure(n)
    PROVE  Secure(n)'
  <1>1. Acts(p) /\ n \in Names
    BY WhoActs DEF Acts
  <1>2. proc'[p] = Idle
    <2>1. CASE Decline(p) \/ Abort(p)
      BY <2>1, AbortKeeps DEF EndsWith
    <2>2. CASE Kill(p)
      BY <2>2, KillKeeps DEF Typed, OpsRun
    <2>3. CASE SaveNewCode(p)
      BY <2>3, SaveNewCodeKeeps DEF EndsWith
    <2>. QED
      BY <2>1, <2>2, <2>3
  <1>3. SameFiles(n)
    <2>1. CASE Decline(p) \/ Abort(p)
      <3>1. fs' = Dropped(p) /\ proc[p] # Idle
        BY <2>1, AbortKeeps DEF EndsWith
      <3>2. \A z \in Paths : fs'[z] = fs[z] \/ (fs[z] = Claimed /\ fs'[z] = Nothing)
        BY <3>1, DroppedFits DEF Typed
      <3>3. ASSUME NEW z \in {<<n, "">>, <<n, "balock">>, <<n, "rekey-new">>, <<n, "rekey-old">>}
            PROVE  fs'[z] = fs[z]
        <4>1. z \in Paths
          BY <1>1, KindsOfPaths
        <4>2. fs[z] \in {Nothing} \cup PlainsOf(n) \cup BoxesOf(n)
          BY <1>1, InputFits DEF Typed
        <4>3. fs[z] # Claimed
          BY <4>2, NotClaimed
        <4>. QED
          BY <3>2, <4>1, <4>3
      <3>. QED
        BY <3>3 DEF SameFiles, Clear, Sealed, NewSealed, OldSealed
    <2>2. CASE Kill(p)
      BY <2>2, KillKeeps DEF SameFiles, Clear, Sealed, NewSealed, OldSealed
    <2>3. CASE SaveNewCode(p)
      <3>0. PICK c \in CodeFiles : c = proc[p].call.out
        BY <2>3, SaveNewCodeKeeps
      <3>1. PICK f : fs' = [fs EXCEPT ![<<"code", c>>] = f]
        BY <2>3, <3>0, SaveNewCodeKeeps
      <3>2. <<"code", c>> \in Paths /\ <<"code", c>>[1] = "code" /\ n # "code"
        BY <1>1, KindsOfPaths
      <3>3. OnlyOf("code")
        BY <3>1, <3>2, OneFileTouched DEF Typed
      <3>. QED
        BY <1>1, <3>2, <3>3, OtherFilesStay
    <2>. QED
      BY <2>1, <2>2, <2>3
  <1>. QED
    BY <1>1, <1>2, <1>3, EndKeepsSecure

LEMMA ActsSecure ==
    ASSUME Typed, Kept, Claiming, NEW p \in Procs, Acts(p), NEW n \in Names, Secure(n)
    PROVE  Secure(n)'
  <1>1. CASE n # proc[p].call.name
    BY <1>1, ActsElsewhere
  <1>2. CASE Decline(p) \/ Abort(p) \/ Kill(p) \/ SaveNewCode(p)
    BY <1>1, <1>2, EndingsSecure
  <1>3. ASSUME n = proc[p].call.name, Safe(n)',
               ~(Decline(p) \/ Abort(p) \/ Kill(p) \/ SaveNewCode(p))
        PROVE  Keeps(n)'
    <2>1. Acting(p, n)
      BY <1>3, ActingIs
    <2>2. CASE Exchange(p) \/ Check(p) \/ Verify(p) \/ SaveCode(p)
      BY <2>1, <2>2, ExchangeSecure, CheckSecure, VerifySecure, SaveCodeSecure
    <2>3. CASE Write(p) \/ ReadChunk(p) \/ Publish(p)
      BY <1>3, <2>1, <2>3, WriteSecure, ReadChunkSecure, PublishSecure
    <2>4. CASE RemoveOriginal(p) \/ RemoveContainer(p)
      BY <2>1, <2>4, RemoveOriginalSecure, RemoveContainerSecure
    <2>5. CASE SetAside(p) \/ PutInPlace(p) \/ RemoveSuperseded(p)
      BY <2>1, <2>5, SetAsideSecure, PutInPlaceSecure, RemoveSupersededSecure
    <2>. QED
      BY <1>3, <2>2, <2>3, <2>4, <2>5 DEF Acts
  <1>. QED
    BY <1>1, <1>2, <1>3 DEF Secure

(***************************************************************************)
(* The other steps: an operation begins, a document is saved, a container  *)
(* is damaged.                                                             *)
(***************************************************************************)

LEMMA OpenedSecure ==
    ASSUME Typed, NEW p \in Procs, NEW c \in CallsOf(p), NEW m, NEW pc \in {"asking", "keyed"},
           OpenedAs(p, c, m, pc), p = "cli" => pc = "keyed", p = "agent" => pc = "asking",
           NEW n \in Names, Secure(n), Forward(n), SameFiles(n)
    PROVE  Secure(n)'
  <1>. PICK y : y = proc'[p]
    OBVIOUS
  <1>. PICK b : b = Sealed(n)
    OBVIOUS
  <1>1. /\ Opens(p, y) /\ y.pc = pc /\ y.call = c /\ proc[p] = Idle
        /\ \A q \in Procs : q # p => proc'[q] = proc[q]
    BY DEF OpenedAs
  <1>2. CASE c.name # n
    BY <1>1, <1>2, SecureStays
  <1>3. ASSUME c.name = n, Safe(n)'
        PROVE  Keeps(n)'
    <2>1. Keeps(n) /\ Current(n)
      BY <1>3 DEF Forward, Secure, Keeps
    <2>2. Current(n)'
      BY <2>1, CurrentStays DEF SameFiles
    <2>3. c.op # "lock" => y.input = b /\ b # Nothing /\ y.core = b.core
      <3>1. c.op # "lock" => b \in BoxesOf(n) /\ y.input = b /\ y.core = b.core
        BY <1>1, <1>3 DEF OpenedAs, Sealed
      <3>. QED
        BY <3>1, FileKinds
    <2>4. c.op # "lock" => (Clear(n)' # Nothing \/ IsLatest(n, Content(y.input))')
      <3>1. c.op # "lock" => (Clear(n) # Nothing \/ IsLatest(n, Content(b)))
        BY <2>1, <2>3 DEF Current, Sure
      <3>2. IsLatest(n, Content(b)) => IsLatest(n, Content(b))'
        BY LatestStays
      <3>. QED
        BY <2>3, <3>1, <3>2 DEF SameFiles
    <2>5. c.op = "lock" => OpSecure(y)'
      BY <1>1 DEF OpSecure, LockSecure, Writing, Placing
    <2>6. c.op \in {"unlock", "recover"} => OpSecure(y)'
      BY <1>1, <1>3, <2>4 DEF OpSecure, UnlockSecure
    <2>7. c.op = "rekey" => OpSecure(y)'
      BY <1>1, <1>3, <2>3 DEF OpSecure, RekeySecure, SameFiles
    <2>8. OpSecure(y)'
      BY <2>5, <2>6, <2>7, WhatIsCalled
    <2>9. ASSUME NEW q \in Procs, Works(q, n)'
          PROVE  OpSecure(proc[q])'
      <3>1. CASE q = p
        BY <2>8, <3>1
      <3>2. CASE q # p
        <4>. PICK z : z = proc[q]
          OBVIOUS
        <4>1. proc'[q] = z
          BY <1>1, <3>2
        <4>2. z.call.name = n /\ OpSecure(z)
          BY <2>1, <2>9, <4>1 DEF Keeps, Works
        <4>3. OpSecure(z)'
          BY <4>2, OpSecureStays
        <4>. QED
          BY <4>1, <4>3
      <3>. QED
        BY <3>1, <3>2
    <2>10. Works("agent", n)' /\ Works("cli", n)' => Late(proc["agent"], proc["cli"])'
      <3>1. CASE p = "agent"
        BY <1>1, <3>1 DEF Late
      <3>2. CASE p # "agent"
        <4>. PICK z : z = proc["agent"]
          OBVIOUS
        <4>1. p = "cli" /\ proc'["agent"] = z /\ "agent" \in Procs
          BY <1>1, <3>2 DEF Procs
        <4>2. c.op = "recover" /\ y.pc = "keyed" /\ y.core = b.core
          BY <1>1, <2>3, <4>1, WhatIsCalled
        <4>3. Works("agent", n) => OpSecure(z) /\ z.call.name = n
          BY <2>1, <4>1 DEF Keeps, Works
        <4>4. Works("agent", n)' => Works("agent", n)
          BY <4>1 DEF Works
        <4>. QED
          BY <4>1, <4>2, <4>3, <4>4 DEF Late, OpSecure, LockSecure
      <3>. QED
        BY <3>1, <3>2
    <2>. QED
      BY <2>2, <2>9, <2>10 DEF Keeps
  <1>. QED
    BY <1>2, <1>3 DEF Secure

LEMMA BeginSecure ==
    ASSUME Typed, NEW c \in inbox, Begin(c), NEW n \in Names, Secure(n)
    PROVE  Secure(n)'
  <1>0. "agent" \in Procs
    BY DEF Procs
  <1>1. /\ c \in CallsOf("agent") /\ OpenedAs("agent", c, c.id, "asking")
        /\ NeedsSlot(c) => fs[Slot(c)] = Nothing /\ fs' = [fs EXCEPT ![Slot(c)] = Claimed]
        /\ ~NeedsSlot(c) => fs' = fs
    BY BeginKeeps
  <1>2. UNCHANGED <<saved, raced, overtaken, faults, unsaved>>
    BY DEF Begin, history
  <1>3. CodesStay /\ SameFiles(n)
    <2>1. CASE ~NeedsSlot(c)
      BY <1>1, <2>1, NoFileTouched DEF SameFiles, Clear, Sealed, NewSealed, OldSealed
    <2>2. CASE NeedsSlot(c)
      <3>. PICK f \in CodeFiles : f = c.out
        BY <1>0, <1>1, WhatIsCalled
      <3>1. fs[<<"code", f>>] = Nothing /\ fs' = [fs EXCEPT ![<<"code", f>>] = Claimed]
        BY <1>1, <2>2 DEF Slot
      <3>2. <<"code", f>> \in Paths /\ <<"code", f>>[1] = "code" /\ n # "code"
        BY KindsOfPaths
      <3>3. OnlyOf("code")
        BY <3>1, <3>2, OneFileTouched DEF Typed
      <3>4. \A z \in Paths : z # <<"code", f>> => fs'[z] = fs[z]
        BY <3>1 DEF Typed, FilesFit
      <3>5. CodesStay
        <4>1. ASSUME NEW g \in CodeFiles, fs[<<"code", g>>].kind = "code"
              PROVE  fs'[<<"code", g>>] = fs[<<"code", g>>]
          <5>. PICK k \in Paths : k = <<"code", g>>
            BY KindsOfPaths
          <5>1. fs[k].kind # "nothing"
            BY <4>1
          <5>2. fs[<<"code", f>>].kind = "nothing"
            BY <3>1, FileKinds
          <5>3. k # <<"code", f>>
            BY <5>1, <5>2
          <5>. QED
            BY <3>4, <5>3
        <4>. QED
          BY <4>1 DEF CodesStay
      <3>. QED
        BY <3>2, <3>3, <3>5, OtherFilesStay
    <2>. QED
      BY <2>1, <2>2
  <1>4. Forward(n)
    BY <1>2, <1>3, CodesStayKnown DEF Forward, Safe
  <1>. QED
    BY <1>0, <1>1, <1>3, <1>4, OpenedSecure

LEMMA RecoverSecure ==
    ASSUME Typed, NEW name \in Recoveries, NEW keep \in BOOLEAN, Recover(name, keep), NEW n \in Names,
           Secure(n)
    PROVE  Secure(n)'
  <1>0. "cli" \in Procs
    BY DEF Procs
  <1>1. /\ RecoverCall(name, keep) \in CallsOf("cli")
        /\ OpenedAs("cli", RecoverCall(name, keep), calls + 1, "keyed")
        /\ fs' = fs /\ UNCHANGED <<saved, raced, overtaken, faults, unsaved>>
    BY RecoverKeeps DEF history
  <1>2. SameFiles(n)
    BY <1>1 DEF SameFiles, Clear, Sealed, NewSealed, OldSealed
  <1>3. Forward(n)
    BY <1>1, NoFileTouched, CodesStayKnown DEF Forward, Safe
  <1>. QED
    BY <1>0, <1>1, <1>2, <1>3, OpenedSecure

LEMMA SaveSecure ==
    ASSUME Typed, NEW m \in Edited, Save(m), NEW n \in Names, Secure(n)
    PROVE  Secure(n)'
  <1>1. m \in Names /\ fs[<<m, "">>] \in PlainsOf(m) /\ UNCHANGED <<overtaken, faults, unsaved>>
    BY SaveKeeps
  <1>2. PICK content \in Seq(Blocks) :
          /\ SavedAs(m, content)
          /\ \A p \in Procs : \/ proc'[p] = proc[p]
                              \/ /\ p = "agent" /\ ReadsSource(p, proc[p]) /\ proc'[p].pc = "reading"
                                 /\ proc'[p].call = proc[p].call /\ proc[p].call.name = m
                                 /\ proc'[p].source.content = content
    <2>1. \E content \in Seq(Blocks) :
            /\ SavedAs(m, content)
            /\ \A p \in Procs : \/ proc'[p] = proc[p]
                                \/ /\ p = "agent" /\ ReadsSource(p, proc[p]) /\ ReadsSource(p, proc'[p])
                                   /\ proc'[p].pc = "reading" /\ proc[p].pc = "reading"
                                   /\ proc'[p].call = proc[p].call /\ proc'[p].n = proc[p].n
                                   /\ proc'[p].core = proc[p].core /\ proc'[p].chunks = proc[p].chunks
                                   /\ proc[p].call.name = m /\ proc'[p].source.content = content
      BY SaveKeeps
    <2>. QED
      BY <2>1
  <1>3. /\ fs' = [fs EXCEPT ![<<m, "">>] = Plain(m, content)]
        /\ saved' = [saved EXCEPT ![m] = Append(saved[m], content)] /\ raced \subseteq raced'
    BY <1>2 DEF SavedAs
  <1>4. OnlyOf(m) /\ CodesStay
    <2>1. <<m, "">> \in Paths /\ <<m, "">>[1] = m /\ m # "code"
      BY <1>1, KindsOfPaths
    <2>. QED
      BY <1>3, <2>1, OneFileTouched DEF Typed
  <1>5. MoreIsKnown
    BY <1>1, <1>4, CodesStayKnown
  <1>6. CASE n # m
    <2>1. SameFiles(n)
      BY <1>4, <1>6, OtherFilesStay
    <2>2. Forward(n)
      BY <1>1, <1>3, <1>5, <1>6 DEF Forward, Safe, Typed, HistoryIsTyped
    <2>3. \A p \in Procs : proc'[p] = proc[p] \/ proc'[p].call.name # n
      BY <1>2, <1>6
    <2>. QED
      BY <2>1, <2>2, <2>3, SecureStays
  <1>7. ASSUME n = m, Safe(n)'
        PROVE  Keeps(n)'
    <2>. PICK c : c = Plain(n, content)
      OBVIOUS
    <2>. PICK s, new, o : s = Sealed(n) /\ new = NewSealed(n) /\ o = OldSealed(n)
      OBVIOUS
    <2>1. Keeps(n)
      BY <1>1, <1>7 DEF Secure, Safe
    <2>2. /\ Clear(n)' = c /\ c # Nothing /\ c.content = content
          /\ Sealed(n)' = s /\ NewSealed(n)' = new /\ OldSealed(n)' = o
      BY <1>3, <1>7, OneFileOf DEF Typed, Plain, Nothing
    <2>3. Last(saved[n])' = content
      <3>1. saved[n] \in Seq(Seq(Blocks)) /\ saved'[n] = Append(saved[n], content)
        BY <1>3, <1>7 DEF Typed, HistoryIsTyped
      <3>. QED
        BY <3>1 DEF Last
    <2>4. Current(n)'
      BY <2>2, <2>3 DEF Current, IsLatest
    <2>5. ASSUME NEW p \in Procs, Works(p, n)'
          PROVE  OpSecure(proc[p])' /\ Works(p, n)
                 /\ (proc'[p] = proc[p] \/ (p = "agent" /\ proc'[p].pc = "reading"))
      <3>. PICK x, y : x = proc[p] /\ y = proc'[p]
        OBVIOUS
      <3>1. y = x \/ /\ p = "agent" /\ ReadsSource(p, x) /\ y.pc = "reading" /\ y.call = x.call
                     /\ y.source.content = content
        BY <1>2
      <3>2. Works(p, n) /\ x.call.name = n /\ y.call = x.call /\ y.call.name = n
        BY <2>5, <3>1 DEF Works, ReadsSource, Idle
      <3>3. OpSecure(x)
        BY <2>1, <3>2 DEF Keeps
      <3>4. y.call.op \in {"unlock", "recover"} /\ y = x => OpSecure(y)'
        BY <2>2, <3>2 DEF OpSecure, UnlockSecure
      <3>5. y.call.op = "rekey" /\ y = x => OpSecure(y)'
        BY <2>2, <3>2, <3>3 DEF OpSecure, RekeySecure
      <3>6. y.call.op = "lock" /\ y = x => OpSecure(y)'
        <4>. SUFFICES ASSUME x.call.op = "lock", y = x
                      PROVE  OpSecure(x)'
          OBVIOUS
        <4>1. LockSecure(x)
          BY <3>3 DEF OpSecure
        <4>2. p = "agent" /\ x # Idle
          BY <2>5, <3>2, WhatRuns, WhatIsCalled DEF Typed, Works
        <4>3. CASE n \in raced'
          <5>1. Known(x.n) => Known(x.n)'
            BY <1>5 DEF MoreIsKnown
          <5>2. LockSecure(x)'
            BY <2>2, <3>2, <4>1, <4>3, <5>1 DEF LockSecure, IsLatest
          <5>. QED
            BY <5>2 DEF OpSecure
        <4>4. CASE n \notin raced'
          <5>1. \/ x.pc \in {"asking", "keyed"}
                \/ /\ x.pc = "reading"
                   /\ y = [x EXCEPT !.source = [x.source EXCEPT !.content = content]]
            BY <1>2, <1>7, <3>2, <4>2, <4>4 DEF SavedAs, Typed, OpsRun
          <5>2. CASE x.pc \in {"asking", "keyed"}
            BY <5>2 DEF OpSecure, LockSecure, Writing, Placing
          <5>3. CASE /\ x.pc = "reading"
                     /\ y = [x EXCEPT !.source = [x.source EXCEPT !.content = content]]
            <6>1. ReadsSource("agent", x)
              BY <4>2, <5>3, WhatRuns DEF Typed
            <6>2. y.source.content = content
              <7>. PICK z : z = [x EXCEPT !.source.content = content]
                OBVIOUS
              <7>1. /\ z.source.content = content
                    /\ z = [x EXCEPT !.source = [x.source EXCEPT !.content = content]]
                BY ONLY <6>1, SaveRuns, Typed, content \in Seq(Blocks),
                        z = [x EXCEPT !.source.content = content] DEF Typed
              <7>. QED
                BY <5>3, <7>1
            <6>. QED
              BY <2>2, <3>2, <5>3, <6>2 DEF OpSecure, LockSecure, Writing, Placing
          <5>. QED
            BY <5>1, <5>2, <5>3
        <4>. QED
          BY <4>3, <4>4
      <3>7. y # x => OpSecure(y)'
        <4>. SUFFICES ASSUME y # x
                      PROVE  OpSecure(y)'
          OBVIOUS
        <4>1. y.call.op = "lock" /\ y.pc = "reading" /\ y.source.content = content
          BY <3>1 DEF ReadsSource
        <4>. QED
          BY <2>2, <3>2, <4>1 DEF OpSecure, LockSecure, Writing, Placing
      <3>8. y.call.op \in {"lock", "unlock", "rekey", "recover"}
        BY <3>2, WhatRuns, WhatIsCalled DEF Typed, Works
      <3>. QED
        BY <3>1, <3>2, <3>4, <3>5, <3>6, <3>7, <3>8
    <2>6. "agent" \in Procs /\ "cli" \in Procs
      BY DEF Procs
    <2>7. ASSUME Works("agent", n)', Works("cli", n)'
          PROVE  Late(proc["agent"], proc["cli"])'
      <3>1. Late(proc["agent"], proc["cli"]) /\ proc'["cli"] = proc["cli"]
        BY <2>1, <2>5, <2>6, <2>7 DEF Keeps
      <3>. QED
        BY <2>5, <2>6, <2>7, <3>1 DEF Late
    <2>. QED
      BY <2>4, <2>5, <2>7 DEF Keeps
  <1>. QED
    BY <1>6, <1>7 DEF Secure

LEMMA WearSecure ==
    ASSUME Typed, NEW y \in Paths, Wear(y), NEW n \in Names, Secure(n)
    PROVE  Secure(n)'
  <1>1. PICK m \in Names :
          /\ y[1] = m /\ faults' = faults \cup {<<m, "resting">>}
          /\ \E b : fs' = [fs EXCEPT ![y] = b]
    BY WearKeeps
  <1>2. UNCHANGED <<proc, saved, raced, overtaken, unsaved>>
    BY WearKeeps
  <1>3. CASE n = m
    BY <1>1, <1>3 DEF Secure, Safe
  <1>4. CASE n # m
    <2>1. OnlyOf(m) /\ CodesStay
      <3>1. m # "code"
        BY KindsOfPaths
      <3>2. PICK b : fs' = [fs EXCEPT ![y] = b]
        BY <1>1
      <3>. QED
        BY <1>1, <3>1, <3>2, OneFileTouched DEF Typed
    <2>2. SameFiles(n)
      BY <1>4, <2>1, OtherFilesStay
    <2>3. MoreIsKnown
      BY <1>2, <2>1, CodesStayKnown
    <2>4. Forward(n)
      BY <1>1, <1>2, <2>3 DEF Forward, Safe
    <2>. QED
      BY <1>2, <2>2, <2>4, SecureStays
  <1>. QED
    BY <1>3, <1>4

LEMMA TalkSecure ==
    ASSUME Talks, NEW n, Secure(n)
    PROVE  Secure(n)'
  <1>1. UNCHANGED <<fs, proc, saved, raced, overtaken, faults, unsaved>>
    BY TalkTouchesNothing
  <1>2. Forward(n) /\ SameFiles(n)
    BY <1>1 DEF Forward, Safe, MoreIsKnown, Known, SameFiles, Clear, Sealed, NewSealed, OldSealed
  <1>. QED
    BY <1>1, <1>2, SecureStays

AllSecure == \A n \in Names : Secure(n)

LEMMA AllSecureStays == Typed /\ Kept /\ Claiming /\ AllSecure /\ [Next]_vars => AllSecure'
  <1>. SUFFICES ASSUME Typed, Kept, Claiming, AllSecure, [Next]_vars, NEW n \in Names
                PROVE  Secure(n)'
    BY DEF AllSecure
  <1>0. Secure(n)
    BY DEF AllSecure
  <1>1. CASE Talks
    BY <1>0, <1>1, TalkSecure
  <1>2. ASSUME NEW c \in inbox, Begin(c)
        PROVE  Secure(n)'
    BY <1>0, <1>2, BeginSecure
  <1>3. ASSUME NEW name \in Recoveries, NEW keep \in BOOLEAN, Recover(name, keep)
        PROVE  Secure(n)'
    BY <1>0, <1>3, RecoverSecure
  <1>4. ASSUME NEW p \in Procs, Acts(p)
        PROVE  Secure(n)'
    BY <1>0, <1>4, ActsSecure
  <1>5. ASSUME NEW m \in Edited, Save(m)
        PROVE  Secure(n)'
    BY <1>0, <1>5, SaveSecure
  <1>6. ASSUME NEW x \in Paths, Wear(x)
        PROVE  Secure(n)'
    BY <1>0, <1>6, WearSecure
  <1>. QED
    BY <1>1, <1>2, <1>3, <1>4, <1>5, <1>6, StepsAre

(* At first a document that is not in the clear is in a container whose    *)
(* code is in a file.                                                      *)
LEMMA SecureInitially == Init => Claiming /\ AllSecure
  <1>. SUFFICES ASSUME Init
                PROVE  Claiming /\ AllSecure
    OBVIOUS
  <1>1. /\ fs \in Directories /\ \A p \in Procs : proc[p] = Idle
        /\ saved = [d \in Names |-> <<FirstContent(fs, d)>>] /\ "agent" \in Procs
    BY DEF Init, Procs
  <1>2. Claiming
    BY <1>1 DEF Claiming
  <1>3. ASSUME NEW n \in Names
        PROVE  Current(n)
    <2>. PICK s : s = FirstContent(fs, n)
      OBVIOUS
    <2>. PICK b : b = Boxed(n, s)
      OBVIOUS
    <2>1. /\ s \in Seq(Blocks) /\ Clear(n) \in {Nothing, Plain(n, s)}
          /\ Sealed(n) \in {Nothing, b}
          /\ Clear(n) = Nothing =>
               Sealed(n) # Nothing /\ \E f \in CodeFiles : fs[<<"code", f>>] = Code(0)
      BY <1>1, FirstFiles DEF Clear, Sealed
    <2>2. Last(saved[n]) = s
      BY <1>1 DEF Last
    <2>3. CASE Clear(n) = Nothing
      <3>1. /\ b \in BoxesOf(n) /\ Decrypts(b) /\ Content(b) = s /\ OpensMetadata(b)
            /\ b.recovery = Wrapper(b.core, 0)
        BY <2>1, BoxedIsTyped
      <3>2. Verified(b)
        BY <3>1, FileKinds DEF Verified
      <3>3. b.recovery.id = 0
        BY <3>1 DEF Wrapper
      <3>4. Known(b.recovery.id)
        BY <2>1, <2>3, <3>3 DEF Known
      <3>5. Sure(n, b)
        BY <2>2, <3>1, <3>2, <3>4 DEF Sure, IsLatest
      <3>. QED
        BY <2>1, <2>3, <3>5 DEF Current
    <2>4. CASE Clear(n) # Nothing
      <3>1. Clear(n).content = s
        BY <2>1, <2>4 DEF Plain
      <3>. QED
        BY <2>2, <2>4, <3>1 DEF Current, IsLatest
    <2>. QED
      BY <2>3, <2>4
  <1>4. \A n : ~Works("agent", n) /\ \A p \in Procs : ~Works(p, n)
    BY <1>1 DEF Works
  <1>5. AllSecure
    BY <1>3, <1>4 DEF AllSecure, Secure, Keeps
  <1>. QED
    BY <1>2, <1>5

LEMMA AlwaysSecure == Spec => [](Typed /\ Kept /\ Claiming /\ AllSecure)
  <1>1. Init => Typed /\ Kept /\ Claiming /\ AllSecure
    BY TypedInitially, LedgerInitially, SecureInitially DEF Kept
  <1>2. (Typed /\ Kept /\ Claiming /\ AllSecure) /\ [Next]_vars => (Typed /\ Kept /\ Claiming /\ AllSecure)'
    BY TypesAreKept, LedgerStays, ClaimingStays, AllSecureStays
  <1>. QED
    BY <1>1, <1>2, PTL DEF Spec

(* Where the document is.                                                  *)
LEMMA WhereItIs ==
    ASSUME Typed, Kept, AllSecure, NEW d \in Names, Safe(d)
    PROVE  \E x \in Paths :
             \/ fs[x] \in PlainsOf(d) /\ IsLatest(d, fs[x].content)
             \/ fs[x] \in BoxesOf(d) /\ Sure(d, fs[x]) /\ Wrapped(fs[x])
  <1>1. Current(d)
    BY DEF AllSecure, Secure, Keeps
  <1>2. /\ <<d, "">> \in Paths /\ <<d, "balock">> \in Paths /\ <<d, "rekey-old">> \in Paths
    BY KindsOfPaths
  <1>3. CASE Clear(d) # Nothing
    <2>1. Clear(d) \in PlainsOf(d)
      BY <1>3, InputFits DEF Typed, Clear
    <2>2. IsLatest(d, Clear(d).content)
      BY <1>1, <1>3 DEF Current
    <2>. QED
      BY <1>2, <2>1, <2>2 DEF Clear
  <1>4. CASE Clear(d) = Nothing
    <2>1. PICK x \in {<<d, "balock">>, <<d, "rekey-old">>} : Sure(d, fs[x])
      BY <1>1, <1>4 DEF Current, Sealed, OldSealed
    <2>. PICK b : b = fs[x]
      OBVIOUS
    <2>2. b \in BoxesOf(d)
      <3>1. b \in {Nothing} \cup BoxesOf(d)
        BY <2>1, InputFits DEF Typed
      <3>2. b.kind = "container"
        BY <2>1 DEF Sure, Verified
      <3>3. b # Nothing
        BY <3>2, FileKinds
      <3>. QED
        BY <3>1, <3>3
    <2>3. Wrapped(b)
      <3>1. PICK T \in Ledgers : Ledger(T)
        BY DEF Kept
      <3>2. b \in Boxes /\ b.doc = d
        BY <2>2, FileKinds
      <3>3. Holding(b)
        BY <1>2, <2>1 DEF Holding
      <3>. QED
        BY <3>1, <3>2, <3>3 DEF Ledger, Honest, HonestBox, Safe
    <2>. QED
      BY <1>2, <2>1, <2>2, <2>3
  <1>. QED
    BY <1>3, <1>4

LEMMA KnownIsOnFile ==
    ASSUME NEW n, NEW b \in BoxesOf(n), Known(b.recovery.id), b.recovery.sound
    PROVE  b.recovery.id \in unsaved \/ CodeOnFile(b)
  <1>1. b.recovery.core = b.core
    BY FileKinds DEF Matches
  <1>2. ASSUME NEW f \in CodeFiles, fs[<<"code", f>>] = Code(b.recovery.id)
        PROVE  CodeOnFile(b)
    <2>1. fs[<<"code", f>>].kind = "code" /\ fs[<<"code", f>>].code = b.recovery.id
      BY <1>2, FileKinds
    <2>. QED
      BY <1>1, <2>1 DEF CodeOnFile, Unwraps
  <1>. QED
    BY <1>2 DEF Known

(* lock_file, unlock_file and rekey_file (engine.rs) with the agent's and  *)
(* the command line's calls around them: through errors, refusals, kills   *)
(* between any two steps, saves by an editor and bad writes of containers, *)
(* every document stays in the clear as it was last saved, or in an intact *)
(* container that the phone or a code on file opens, unless the disk       *)
(* failed an unlock's output, which is never read back.                    *)
THEOREM DocumentsAreKept == Spec => []NothingLost
  <1>1. Typed /\ Kept /\ Claiming /\ AllSecure => NothingLost
    <2>. SUFFICES ASSUME Typed, Kept, AllSecure, NEW d \in Names, Safe(d),
                         ~(<<d, "writing">> \in faults /\ unsaved # {})
                  PROVE  \E x \in Paths :
                           /\ Readable(fs[x]) /\ fs[x].doc = d
                           /\ fs[x].kind = "container" =>
                                Unwraps(fs[x], fs[x].phone, Credential) \/ CodeOnFile(fs[x])
                           /\ d \in raced \/ Reads(fs[x]) = Last(saved[d])
      BY DEF NothingLost, Safe
    <2>1. PICK x \in Paths :
             \/ fs[x] \in PlainsOf(d) /\ IsLatest(d, fs[x].content)
             \/ fs[x] \in BoxesOf(d) /\ Sure(d, fs[x]) /\ Wrapped(fs[x])
      BY WhereItIs
    <2>. PICK f : f = fs[x]
      OBVIOUS
    <2>2. CASE f \in PlainsOf(d) /\ IsLatest(d, f.content)
      <3>1. f.kind = "plain" /\ f.doc = d
        BY <2>2, FileKinds
      <3>2. Readable(f) /\ Reads(f) = f.content
        BY <3>1 DEF Readable, Reads
      <3>. QED
        BY <2>2, <3>1, <3>2 DEF IsLatest
    <2>3. CASE f \in BoxesOf(d) /\ Sure(d, f) /\ Wrapped(f)
      <3>1. f.kind = "container" /\ f.doc = d /\ Matches(f)
        BY <2>3, FileKinds
      <3>2. Readable(f) /\ Reads(f) = Content(f)
        BY <2>3, <3>1 DEF Readable, Reads, Sure, Verified
      <3>3. CASE f.phone.sound
        <4>1. Unwraps(f, f.phone, Credential)
          BY <3>1, <3>3 DEF Unwraps, Matches
        <4>. QED
          BY <2>3, <3>1, <3>2, <4>1 DEF Sure, IsLatest
      <3>4. CASE ~f.phone.sound
        <4>1. f.recovery.sound /\ unsaved = {}
          BY <2>3, <3>1, <3>4 DEF Wrapped
        <4>2. CodeOnFile(f)
          BY <2>3, <4>1, KnownIsOnFile DEF Sure
        <4>. QED
          BY <2>3, <3>1, <3>2, <4>2 DEF Sure, IsLatest
      <3>. QED
        BY <3>3, <3>4
    <2>. QED
      BY <2>1, <2>2, <2>3
  <1>. QED
    BY AlwaysSecure, <1>1, PTL

(* RecoverySlot and locker_lock (service.rs) and rekey_file (engine.rs): a *)
(* lock removes the original only when its code is in a file, no call ever *)
(* replaces another's code, and a container that takes a document's place  *)
(* opens with a code on file, or with that of a rekey still to be written. *)
THEOREM CodesAreKept == Spec => []RecoversWithoutPhone
  <1>1. Typed /\ Kept /\ Claiming /\ AllSecure => RecoversWithoutPhone
    <2>. SUFFICES ASSUME Typed, Kept, AllSecure, NEW d \in Names, Safe(d), <<d, "writing">> \notin faults
                  PROVE  \E x \in Paths :
                           /\ Readable(fs[x]) /\ fs[x].doc = d
                           /\ fs[x].kind = "container" => CodeOnFile(fs[x]) \/ fs[x].recovery.id \in unsaved
      BY DEF RecoversWithoutPhone, Safe
    <2>1. PICK x \in Paths :
             \/ fs[x] \in PlainsOf(d) /\ IsLatest(d, fs[x].content)
             \/ fs[x] \in BoxesOf(d) /\ Sure(d, fs[x]) /\ Wrapped(fs[x])
      BY WhereItIs
    <2>. PICK f : f = fs[x]
      OBVIOUS
    <2>2. CASE f \in PlainsOf(d)
      <3>1. f.kind = "plain" /\ f.doc = d
        BY <2>2, FileKinds
      <3>2. Readable(f)
        BY <3>1 DEF Readable
      <3>. QED
        BY <3>1, <3>2
    <2>3. CASE f \in BoxesOf(d) /\ Sure(d, f) /\ Wrapped(f)
      <3>1. f.kind = "container" /\ f.doc = d
        BY <2>3, FileKinds
      <3>2. Readable(f)
        BY <2>3, <3>1 DEF Readable, Sure, Verified
      <3>3. f.recovery.sound
        BY <2>3, <3>1 DEF Wrapped
      <3>4. f.recovery.id \in unsaved \/ CodeOnFile(f)
        BY <2>3, <3>3, KnownIsOnFile DEF Sure
      <3>. QED
        BY <3>1, <3>2, <3>4
    <2>. QED
      BY <2>1, <2>2, <2>3
  <1>. QED
    BY AlwaysSecure, <1>1, PTL
============================================================================
