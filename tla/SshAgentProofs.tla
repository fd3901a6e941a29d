--------------------------- MODULE SshAgentProofs ---------------------------
(***************************************************************************)
(* Theorems about SshAgent and SshWire.  A signature that reaches an ssh   *)
(* client is traced back through the reply the session waited for, the     *)
(* call it was numbered as, the phone's prompt and the bind of the same    *)
(* connection; SessionInv is that trail.  The encoding is treated apart:   *)
(* a scalar is zeros, then a digit that is not, and both are found again.  *)
(***************************************************************************)
EXTENDS SshAgent, SequenceTheorems, FiniteSetTheorems, WellFoundedInduction, TLAPS

-----------------------------------------------------------------------------
(* The mpint encoding.                                                     *)

\* Every blob has a last leading zero: the CHOOSE of Trimmed is never idle.
LEMMA LeadingZeros ==
    ASSUME NEW v \in Seq(Bytes)
    PROVE  \E n \in 0 .. Len(v) : /\ \A i \in 1 .. n : v[i] = 0
                                  /\ n = Len(v) \/ v[n + 1] # 0
<1> DEFINE T == {i \in 1 .. Len(v) : v[i] # 0}
<1>1. CASE T = {}
  <2>1. \A i \in 1 .. Len(v) : v[i] = 0
    BY <1>1
  <2> QED BY <2>1
<1>2. CASE T # {}
  <2>1. T \subseteq Nat
    OBVIOUS
  <2>2. PICK x \in T : \A y \in T : ~(<<y, x>> \in OpToRel(<, Nat))
    BY <1>2, <2>1, NatLessThanWellFounded, WFMin, Zenon
  <2>3. \A y \in T : ~(y < x)
    BY <2>1, <2>2 DEF OpToRel
  <2>4. \A i \in 1 .. x - 1 : v[i] = 0
    BY <2>3
  <2>5. x - 1 \in 0 .. Len(v) /\ v[(x - 1) + 1] # 0
    OBVIOUS
  <2> QED BY <2>4, <2>5
<1> QED BY <1>1, <1>2

\* There is only one.
LEMMA TrimmedIs ==
    ASSUME NEW v \in Seq(Bytes), NEW n \in 0 .. Len(v),
           \A i \in 1 .. n : v[i] = 0, n = Len(v) \/ v[n + 1] # 0
    PROVE  Trimmed(v) = SubSeq(v, n + 1, Len(v))
<1> DEFINE Zeros(m) == /\ \A i \in 1 .. m : v[i] = 0
                       /\ m = Len(v) \/ v[m + 1] # 0
<1>1. n \in 0 .. Len(v) /\ Zeros(n)
  OBVIOUS
<1>2. \A m \in 0 .. Len(v) : Zeros(m) => m = n
  <2> SUFFICES ASSUME NEW m \in 0 .. Len(v), Zeros(m) PROVE m = n
    OBVIOUS
  <2>1. ~(m < n)
    <3>1. m < n => m + 1 \in 1 .. n /\ m # Len(v)
      OBVIOUS
    <3> QED BY <3>1
  <2>2. ~(n < m)
    <3>1. n < m => n + 1 \in 1 .. m /\ n # Len(v)
      OBVIOUS
    <3> QED BY <3>1
  <2> QED BY <2>1, <2>2
<1> DEFINE zeros == CHOOSE m \in 0 .. Len(v) : Zeros(m)
<1> HIDE DEF Zeros
<1>3. zeros = n
  <2>1. zeros \in 0 .. Len(v) /\ Zeros(zeros)
    BY <1>1, Zenon
  <2> QED BY <1>2, <2>1
<1>4. Trimmed(v) = SubSeq(v, zeros + 1, Len(v))
  BY Zenon DEF Trimmed, Zeros
<1> QED BY <1>3, <1>4

\* A scalar is its zeros and what Trimmed leaves of it.
LEMMA ScalarSplits ==
    ASSUME NEW v \in Scalars
    PROVE  \E n \in 0 .. ScalarLen :
               /\ Trimmed(v) \in Seq(Bytes) /\ Len(Trimmed(v)) = ScalarLen - n
               /\ \A i \in 1 .. n : v[i] = 0
               /\ \A i \in 1 .. ScalarLen - n : Trimmed(v)[i] = v[n + i]
               /\ Trimmed(v) # <<>> => Trimmed(v)[1] # 0
<1>1. v \in Seq(Bytes) /\ Len(v) = ScalarLen
  BY WireAssumption DEF Scalars
<1>2. PICK n \in 0 .. Len(v) : /\ \A i \in 1 .. n : v[i] = 0
                               /\ n = Len(v) \/ v[n + 1] # 0
  BY <1>1, LeadingZeros
<1>3. Trimmed(v) = SubSeq(v, n + 1, Len(v))
  BY <1>1, <1>2, TrimmedIs
<1>4. /\ Trimmed(v) \in Seq(Bytes) /\ Len(Trimmed(v)) = ScalarLen - n
      /\ \A i \in 1 .. ScalarLen - n : Trimmed(v)[i] = v[n + i]
  BY <1>1, <1>3, SubSeqProperties
<1>5. Trimmed(v) # <<>> => Trimmed(v)[1] # 0
  <2>1. CASE n = Len(v)
    BY <1>1, <1>4, <2>1
  <2>2. CASE n # Len(v)
    <3>1. 1 \in 1 .. ScalarLen - n
      BY <1>1, <2>2
    <3> QED BY <1>2, <1>4, <2>2, <3>1
  <2> QED BY <2>1, <2>2
<1> QED BY <1>1, <1>2, <1>4, <1>5

\* Mpint adds at most one zero, which Trimmed takes away again.
LEMMA MpintTrims ==
    ASSUME NEW t \in Seq(Bytes), t # <<>> => t[1] # 0,
           NEW m, m = IF t # <<>> /\ 2 * t[1] >= Base THEN << 0 >> \o t ELSE t
    PROVE  Trimmed(m) = t /\ ReadsAsPositive(m)
<1>1. CASE t # <<>> /\ 2 * t[1] >= Base
  <2>1. m = << 0 >> \o t
    BY <1>1
  <2>2. 0 \in Bytes /\ << 0 >> \in Seq(Bytes)
    BY WireAssumption DEF Bytes
  <2>3. m \in Seq(Bytes) /\ Len(m) = Len(t) + 1
    BY <2>1, <2>2, ConcatProperties
  <2>4. m[1] = 0 /\ \A i \in 1 .. Len(t) : m[i + 1] = t[i]
    BY <2>1
  <2>5. 1 \in 0 .. Len(m) /\ (\A i \in 1 .. 1 : m[i] = 0) /\ m[1 + 1] # 0
    BY <1>1, <2>3, <2>4
  <2>6. Trimmed(m) = SubSeq(m, 1 + 1, Len(m))
    BY <2>3, <2>5, TrimmedIs
  <2>7. SubSeq(m, 2, Len(m)) = t
    <3>1. /\ SubSeq(m, 2, Len(m)) \in Seq(Bytes) /\ Len(SubSeq(m, 2, Len(m))) = Len(t)
          /\ \A i \in 1 .. Len(t) : SubSeq(m, 2, Len(m))[i] = m[i + 1]
      BY <2>3
    <3> QED BY <2>4, <3>1, SeqEqual
  <2>8. ReadsAsPositive(m)
    BY <1>1, <2>2, <2>3, <2>4, WireAssumption DEF ReadsAsPositive, Bytes
  <2>9. 1 + 1 = 2
    OBVIOUS
  <2> QED BY <2>6, <2>7, <2>8, <2>9, Zenon
<1>2. CASE ~(t # <<>> /\ 2 * t[1] >= Base)
  <2>1. m = t
    BY <1>2
  <2>2. 0 \in 0 .. Len(t) /\ (\A i \in 1 .. 0 : t[i] = 0) /\ (0 = Len(t) \/ t[0 + 1] # 0)
    OBVIOUS
  <2>3. Trimmed(t) = SubSeq(t, 0 + 1, Len(t))
    BY <2>2, TrimmedIs
  <2>4. SubSeq(t, 1, Len(t)) = t
    BY SubSeqFull
  <2>5. t # <<>> => 2 * t[1] < Base /\ t[1] # 0
    <3>1. t # <<>> => t[1] \in Nat
      <4>1. t # <<>> => t[1] \in Bytes
        OBVIOUS
      <4> QED BY <4>1, WireAssumption DEF Bytes
    <3> QED BY <1>2, <3>1, WireAssumption
  <2>6. ReadsAsPositive(t)
    BY <2>5 DEF ReadsAsPositive
  <2>7. 0 + 1 = 1
    OBVIOUS
  <2> QED BY <2>1, <2>3, <2>4, <2>6, <2>7, Zenon
<1> QED BY <1>1, <1>2

\* A scalar written as an mpint is positive, fits and is read back.
LEMMA ScalarReadsBack ==
    ASSUME NEW v \in Scalars, NEW m, m = Mpint(v)
    PROVE  ReadsAsPositive(m) /\ Len(Trimmed(m)) <= ScalarLen /\ Padded(m) = v
<1>1. PICK n \in 0 .. ScalarLen :
          /\ Trimmed(v) \in Seq(Bytes) /\ Len(Trimmed(v)) = ScalarLen - n
          /\ \A i \in 1 .. n : v[i] = 0
          /\ \A i \in 1 .. ScalarLen - n : Trimmed(v)[i] = v[n + i]
          /\ Trimmed(v) # <<>> => Trimmed(v)[1] # 0
  BY ScalarSplits
<1>2. PICK t \in Seq(Bytes) : t = Trimmed(v)
  BY <1>1
<1>3. m = IF t # <<>> /\ 2 * t[1] >= Base THEN <<0>> \o t ELSE t
  BY <1>2 DEF Mpint
<1>4. Trimmed(m) = t /\ ReadsAsPositive(m)
  BY <1>1, <1>2, <1>3, MpintTrims
<1>5. Len(t) = ScalarLen - n /\ n = ScalarLen - Len(t)
  BY <1>1, <1>2, WireAssumption
<1>6. Padded(m) = [i \in 1 .. n |-> 0] \o t
  BY <1>4, <1>5 DEF Padded
<1>7. Padded(m) = v
  <2>1. v \in Seq(Bytes) /\ Len(v) = ScalarLen
    BY WireAssumption DEF Scalars
  <2>2. PICK z : z = [i \in 1 .. n |-> 0]
    OBVIOUS
  <2>3. z \in Seq(Bytes) /\ Len(z) = n /\ \A i \in 1 .. n : z[i] = 0
    BY <2>2, WireAssumption DEF Bytes
  <2>4. z \o t \in Seq(Bytes) /\ Len(z \o t) = n + Len(t)
    BY <2>3, ConcatProperties
  <2>5. \A i \in 1 .. ScalarLen : (z \o t)[i] = v[i]
    <3> SUFFICES ASSUME NEW i \in 1 .. ScalarLen PROVE (z \o t)[i] = v[i]
      OBVIOUS
    <3>1. CASE i <= n
      BY <1>1, <2>3, <3>1
    <3>2. CASE i > n
      <4>1. i - n \in 1 .. ScalarLen - n /\ n + (i - n) = i
        BY <3>2, WireAssumption
      <4>2. t[i - n] = v[i]
        BY <1>1, <1>2, <4>1
      <4>3. (z \o t)[i] = t[i - n]
        BY <1>5, <2>3, <3>2, WireAssumption
      <4> QED BY <4>2, <4>3
    <3>3. i <= n \/ i > n
      BY WireAssumption
    <3> QED BY <3>1, <3>2, <3>3
  <2>6. Len(z \o t) = Len(v)
    BY <1>5, <2>1, <2>4, WireAssumption
  <2>7. z \o t = v
    BY <2>1, <2>4, <2>5, <2>6, SeqEqual
  <2> QED BY <1>6, <2>2, <2>7
<1>8. Len(Trimmed(m)) <= ScalarLen
  BY <1>4, <1>5, WireAssumption
<1> QED BY <1>4, <1>7, <1>8

-----------------------------------------------------------------------------
(* The inductive invariant.                                                *)

Binds == {SessionBind(h, f) : h \in Hosts, f \in BOOLEAN}
Destinations == Hosts \cup {None}
Calls == [id : Nat, kind : {"identities"}, data : {None}, destination : Destinations]
         \cup [id : Nat, kind : {"sign"}, data : Data, destination : Destinations]

\* What the phone answers: over the blob's own account and the key's signature.
Signatures == {[data |-> d, key |-> k, raw |-> RawOf[d], user |-> AccountOf[d],
                destination |-> h] : d \in Data, k \in Keys, h \in Destinations}
Replies == [id : Nat, keys : SUBSET Keys, signature : Signatures \cup {None}]
Prompts == [client : Clients, key : Keys, data : Data, destination : Destinations]

\* Sequences and records of the right things.
SocketsTyped ==
    /\ backlog \in Seq(Clients)
    /\ serving \in Clients \cup {None}
    /\ gone \subseteq Clients /\ closed \subseteq Clients
    /\ inbox \in [Clients -> Seq(Messages)]
    /\ sent \in [Clients -> Nat] /\ answered \in [Clients -> Nat]
    /\ batch \in Seq(Messages)
SessionTyped ==
    /\ step \in {"accept", "read", "list", "check", "sign"}
    /\ bind \in Binds \cup {None}
    /\ bound \in [Clients -> Binds \cup {None}]
    /\ repaired \in BOOLEAN
CallsTyped ==
    /\ nextId \in Nat
    /\ calls \in [Clients -> Seq(Calls)]
    /\ replies \in [Clients -> Seq(Replies)]
    /\ heard \in Replies \cup {None}
    /\ prompt \in Prompts \cup {None}
    /\ store \subseteq Keys

\* A connection waits once, is served once and is not waited for again.
ServedOnce ==
    /\ (serving = None) <=> (step = "accept")
    /\ \A i, j \in DOMAIN backlog : backlog[i] = backlog[j] => i = j
    /\ \A i \in DOMAIN backlog : backlog[i] # serving /\ backlog[i] \notin closed
    /\ serving \notin closed

\* One that was not served yet has said and asked for nothing.
NewAreFresh ==
    \A c \in Clients : c # serving /\ c \notin closed =>
        calls[c] = <<>> /\ replies[c] = <<>> /\ bound[c] = None

\* Of the messages sent, those answered, being handled and unread are disjoint.
MessagesAreCounted ==
    /\ step = "accept" => batch = <<>>
    /\ \A c \in Clients :
          answered[c] + Len(inbox[c]) + (IF c = serving THEN Len(batch) ELSE 0) <= sent[c]

\* The session waits only with a request of the kind at the head of its batch,
\* and past the policy only when the connection is not forwarded.
WaitsForItsHead ==
    /\ step \in {"list", "check", "sign"} =>
          batch # <<>> /\ Head(batch).kind = IF step = "list" THEN "identities" ELSE "sign"
    /\ step \in {"check", "sign"} /\ bind # None => bind.forwarding = FALSE

\* The session's bind is the last this connection sent.
BindIsOwn == serving # None => bind = bound[serving]

\* Ids of the served connection are older than the next.
IdsAreOlder ==
    serving # None =>
        /\ nextId > 0
        /\ \A i \in DOMAIN calls[serving] : calls[serving][i].id < nextId
        /\ \A i \in DOMAIN replies[serving] : replies[serving][i].id < nextId

\* The phone is asked what the call at the head of its connection's queue says.
PromptIsACall ==
    prompt # None =>
        LET call == Head(calls[prompt.client])
        IN  /\ calls[prompt.client] # <<>> /\ call.kind = "sign"
            /\ call.data = prompt.data /\ call.destination = prompt.destination

\* What the reply to the awaited call may be.
Expected(reply) ==
    /\ step = "check" => (reply.keys \subseteq store \/ repaired)
    /\ step = "sign" /\ reply.signature # None =>
          /\ reply.signature.data = Head(batch).data
          /\ reply.signature.destination = Destination
          /\ reply.signature.key = Head(batch).key \/ repaired

\* The call awaited is the one the head of the batch needs; it is asked with
\* the key looked up before, which is still stored unless the pairings changed.
AwaitedCallIsTheHeads ==
    /\ step = "sign" =>
          /\ Head(batch).key \in store \/ repaired
          /\ \A i \in DOMAIN calls[serving] : calls[serving][i].id = nextId - 1 =>
                /\ calls[serving][i].data = Head(batch).data
                /\ calls[serving][i].destination = Destination
          /\ (prompt # None /\ prompt.client = serving /\ Head(calls[serving]).id = nextId - 1) =>
                (prompt.key = Head(batch).key \/ repaired)
    /\ step \in {"check", "sign"} =>
          /\ \A i \in DOMAIN replies[serving] :
                replies[serving][i].id = nextId - 1 => Expected(replies[serving][i])
          /\ heard # None => Expected(heard)

\* What was handed out is a signature the phone made, for the request at hand.
OutIsTraced ==
    out # None =>
        /\ out.origin \in Signatures
        /\ out.blob = EncodeSignature(out.origin.raw)

\* The part about a connection and its messages, and the one about its calls.
ServingInv == /\ SocketsTyped /\ SessionTyped /\ ServedOnce /\ MessagesAreCounted
              /\ WaitsForItsHead /\ BindIsOwn
CallingInv == /\ CallsTyped /\ NewAreFresh /\ IdsAreOlder /\ PromptIsACall
              /\ AwaitedCallIsTheHeads
OutInv == OutIsTraced /\ SignedAsShown /\ SignedWithTheKeyAsked

SessionInv == ServingInv /\ CallingInv /\ OutInv

-----------------------------------------------------------------------------
(* What the steps do to queues and sets.                                   *)

\* A sign request is over a blob, with a key.
LEMMA MessageKinds ==
    ASSUME NEW m \in Messages
    PROVE  /\ m.kind = "sign" => m.data \in Data /\ m.key \in Keys
           /\ m.kind = "bind" => m \in Binds
BY DEF Messages, SignRequest, SessionBind, IdentitiesRequest, Unsupported, BadFrame, Binds

LEMMA CallKinds ==
    ASSUME NEW call \in Calls
    PROVE  /\ call.kind = "sign" => call.data \in Data
           /\ call.id \in Nat /\ call.destination \in Destinations
BY DEF Calls

LEMMA QueueTail ==
    ASSUME NEW S, NEW q \in Seq(S), q # <<>>
    PROVE  /\ Head(q) \in S /\ Tail(q) \in Seq(S) /\ Len(Tail(q)) = Len(q) - 1
           /\ 1 \in DOMAIN q /\ q[1] = Head(q)
           /\ \A i \in DOMAIN Tail(q) : i + 1 \in DOMAIN q /\ Tail(q)[i] = q[i + 1]
BY HeadTailProperties

LEMMA QueueAppend ==
    ASSUME NEW S, NEW q \in Seq(S), NEW e \in S
    PROVE  /\ Append(q, e) \in Seq(S) /\ Len(Append(q, e)) = Len(q) + 1
           /\ q # <<>> => Head(Append(q, e)) = Head(q)
           /\ Append(q, e) # <<>>
           /\ \A i \in DOMAIN Append(q, e) :
                 \/ i = Len(q) + 1 /\ Append(q, e)[i] = e
                 \/ i \in DOMAIN q /\ Append(q, e)[i] = q[i]
<1>1. /\ Append(q, e) \in Seq(S) /\ Len(Append(q, e)) = Len(q) + 1
      /\ \A i \in 1 .. Len(q) : Append(q, e)[i] = q[i]
      /\ Append(q, e)[Len(q) + 1] = e
  BY AppendProperties
<1>2. \A i \in DOMAIN Append(q, e) : i \in 1 .. Len(q) \/ i = Len(q) + 1
  BY <1>1
<1>3. Append(q, e) # <<>>
  BY <1>1
<1>4. q # <<>> => Head(Append(q, e)) = Head(q)
  BY <1>1
<1>5. DOMAIN q = 1 .. Len(q)
  OBVIOUS
<1> QED BY <1>1, <1>2, <1>3, <1>4, <1>5

LEMMA DestinationTyped ==
    ASSUME SessionTyped
    PROVE  Destination \in Destinations
BY DEF SessionTyped, Binds, SessionBind, Destination, Destinations

\* A thread of the background agent has run the call at the head of its queue.
LEMMA CallHasRun ==
    ASSUME ServingInv, CallingInv, NEW c \in Clients, NEW reply \in Replies,
           calls[c] # <<>>, reply.id = Head(calls[c]).id, Ran(c, reply),
           prompt' = None,
           c = serving /\ step \in {"check", "sign"} /\ reply.id = nextId - 1 => Expected(reply),
           UNCHANGED <<backlog, serving, gone, closed, inbox, sent, answered, batch, step, bind,
                       nextId, heard, store, bound, repaired>>
    PROVE  ServingInv' /\ CallingInv'
<1> USE DEF CallingInv
<1>1. ServingInv'
  BY DEF ServingInv, SocketsTyped, SessionTyped, ServedOnce, MessagesAreCounted, WaitsForItsHead,
         BindIsOwn
<1>0. calls[c] \in Seq(Calls) /\ replies[c] \in Seq(Replies)
  BY DEF CallsTyped
<1>2. PICK q \in Seq(Calls) : /\ q = Tail(calls[c])
                              /\ \A i \in DOMAIN q : i + 1 \in DOMAIN calls[c] /\ q[i] = calls[c][i + 1]
  <2>1. /\ Tail(calls[c]) \in Seq(Calls)
        /\ \A i \in DOMAIN Tail(calls[c]) : i + 1 \in DOMAIN calls[c]
                                            /\ Tail(calls[c])[i] = calls[c][i + 1]
    BY <1>0, QueueTail
  <2> QED BY <2>1, Zenon
<1>3. calls' = [calls EXCEPT ![c] = q]
  BY <1>2 DEF Ran
<1>4. PICK r \in Seq(Replies) :
          /\ r = IF c \in closed THEN replies[c] ELSE Append(replies[c], reply)
          /\ \A i \in DOMAIN r : r[i] = reply \/ (i \in DOMAIN replies[c] /\ r[i] = replies[c][i])
  <2>1. /\ Append(replies[c], reply) \in Seq(Replies)
        /\ \A i \in DOMAIN Append(replies[c], reply) :
              \/ Append(replies[c], reply)[i] = reply
              \/ i \in DOMAIN replies[c] /\ Append(replies[c], reply)[i] = replies[c][i]
    BY <1>0, QueueAppend
  <2>2. CASE c \in closed
    BY <1>0, <2>2, Zenon
  <2>3. CASE c \notin closed
    BY <2>1, <2>3, Zenon
  <2> QED BY <2>2, <2>3
<1>5. replies' = [replies EXCEPT ![c] = r]
  BY <1>4 DEF Ran
<1>6. CallsTyped'
  BY <1>2, <1>3, <1>4, <1>5 DEF CallsTyped
<1>7. NewAreFresh'
  <2>1. c = serving \/ c \in closed
    BY DEF NewAreFresh
  <2> QED BY <1>3, <1>5, <2>1 DEF NewAreFresh, CallsTyped
<1>8. Head(calls[c]) \in Calls /\ 1 \in DOMAIN calls[c] /\ calls[c][1] = Head(calls[c])
  BY QueueTail DEF CallsTyped
<1>9. IdsAreOlder'
  <2> SUFFICES ASSUME serving # None
               PROVE  /\ nextId > 0
                      /\ \A i \in DOMAIN calls'[serving] : calls'[serving][i].id < nextId
                      /\ \A i \in DOMAIN replies'[serving] : replies'[serving][i].id < nextId
    BY DEF IdsAreOlder
  <2>0. serving \in Clients
    BY DEF ServingInv, SocketsTyped
  <2>1. CASE serving = c
    <3>1. calls'[serving] = q /\ replies'[serving] = r
      BY <1>3, <1>5, <2>1 DEF CallsTyped
    <3>2. reply.id < nextId
      BY <1>8, <2>1 DEF IdsAreOlder
    <3> QED BY <1>2, <1>4, <2>1, <3>1, <3>2 DEF IdsAreOlder
  <2>2. CASE serving # c
    <3>1. calls'[serving] = calls[serving] /\ replies'[serving] = replies[serving]
      BY <1>3, <1>5, <2>0, <2>2 DEF CallsTyped
    <3> QED BY <3>1 DEF IdsAreOlder
  <2> QED BY <2>1, <2>2
<1>10. PromptIsACall'
  BY DEF PromptIsACall
<1>11. \A e : Expected(e)' = Expected(e)
  BY DEF Expected, Destination
<1>12. AwaitedCallIsTheHeads'
  <2> SUFFICES ASSUME step \in {"check", "sign"} PROVE AwaitedCallIsTheHeads'
    BY DEF AwaitedCallIsTheHeads
  <2>0. serving \in Clients
    BY DEF ServingInv, SocketsTyped, ServedOnce
  <2>1. \A i \in DOMAIN calls'[serving] : \E j \in DOMAIN calls[serving] :
            calls'[serving][i] = calls[serving][j]
    <3>1. CASE serving = c
      BY <1>2, <1>3, <3>1 DEF CallsTyped
    <3>2. CASE serving # c
      BY <1>3, <2>0, <3>2 DEF CallsTyped
    <3> QED BY <3>1, <3>2
  <2>2. \A i \in DOMAIN replies'[serving] :
            \/ serving = c /\ replies'[serving][i] = reply
            \/ \E j \in DOMAIN replies[serving] : replies'[serving][i] = replies[serving][j]
    <3>1. CASE serving = c
      BY <1>4, <1>5, <3>1 DEF CallsTyped
    <3>2. CASE serving # c
      BY <1>5, <2>0, <3>2 DEF CallsTyped
    <3> QED BY <3>1, <3>2
  <2>3. \A i \in DOMAIN replies'[serving] :
            replies'[serving][i].id = nextId - 1 => Expected(replies'[serving][i])
    BY <2>2 DEF AwaitedCallIsTheHeads
  <2>4. step = "sign" => \A i \in DOMAIN calls'[serving] : calls'[serving][i].id = nextId - 1 =>
                /\ calls'[serving][i].data = Head(batch).data
                /\ calls'[serving][i].destination = Destination
    BY <2>1 DEF AwaitedCallIsTheHeads
  <2>5. Destination' = Destination
    BY DEF Destination
  <2>6. (step = "sign" => Head(batch).key \in store \/ repaired) /\ (heard # None => Expected(heard))
    BY DEF AwaitedCallIsTheHeads
  <2> QED BY <1>11, <2>3, <2>4, <2>5, <2>6 DEF AwaitedCallIsTheHeads
<1> QED BY <1>1, <1>6, <1>7, <1>9, <1>10, <1>12

\* What was handed out before stays as traced as it was.
LEMMA OutStays ==
    ASSUME OutInv, out' = out \/ out' = None
    PROVE  OutInv'
BY DEF OutInv, OutIsTraced, SignedAsShown, SignedWithTheKeyAsked

LEMMA FailedTyped ==
    ASSUME NEW id \in Nat
    PROVE  Failed(id) \in Replies /\ Failed(id).id = id /\ Expected(Failed(id))
<1>1. PICK f : f = [id |-> id, keys |-> {}, signature |-> None]
  OBVIOUS
<1>2. f \in Replies /\ f.id = id /\ f.keys = {} /\ f.signature = None
  BY <1>1 DEF Replies
<1>3. Expected(f)
  BY <1>2 DEF Expected
<1> QED BY <1>1, <1>2, <1>3 DEF Failed

LEMMA RunIdentitiesKeeps ==
    ASSUME SessionInv, NEW c \in Clients, RunIdentities(c)
    PROVE  SessionInv'
<1> USE DEF SessionInv
<1>1. PICK reply : reply = [id |-> Head(calls[c]).id, keys |-> store, signature |-> None]
  OBVIOUS
<1>2. calls[c] # <<>> /\ Head(calls[c]) \in Calls
  <2>1. calls[c] # <<>> /\ calls[c] \in Seq(Calls)
    BY DEF CallingInv, CallsTyped, RunIdentities
  <2> QED BY <2>1
<1>3. reply \in Replies /\ reply.id = Head(calls[c]).id /\ Ran(c, reply)
  BY <1>1, <1>2, CallKinds DEF Replies, CallingInv, CallsTyped, RunIdentities
<1>4. Expected(reply)
  BY <1>1 DEF Expected
<1>5. /\ prompt' = None /\ out' = out
      /\ UNCHANGED <<backlog, serving, gone, closed, inbox, sent, answered, batch, step, bind,
                     nextId, heard, store, bound, repaired>>
  BY DEF RunIdentities, socketVars, storeVars
<1> QED BY <1>2, <1>3, <1>4, <1>5, CallHasRun, OutStays

LEMMA RefuseSignKeeps ==
    ASSUME SessionInv, NEW c \in Clients, RefuseSign(c)
    PROVE  SessionInv'
<1> USE DEF SessionInv
<1>1. calls[c] # <<>> /\ Head(calls[c]) \in Calls
  <2>1. calls[c] # <<>> /\ calls[c] \in Seq(Calls)
    BY DEF CallingInv, CallsTyped, RefuseSign
  <2> QED BY <2>1
<1>2. PICK reply : reply = Failed(Head(calls[c]).id)
  OBVIOUS
<1>3. reply \in Replies /\ reply.id = Head(calls[c]).id /\ Expected(reply)
  BY <1>1, <1>2, CallKinds, FailedTyped
<1>4. Ran(c, reply)
  BY <1>2 DEF RefuseSign
<1>5. /\ prompt' = None /\ out' = out
      /\ UNCHANGED <<backlog, serving, gone, closed, inbox, sent, answered, batch, step, bind,
                     nextId, heard, store, bound, repaired>>
  BY DEF RefuseSign, socketVars, storeVars
<1> QED BY <1>1, <1>3, <1>4, <1>5, CallHasRun, OutStays

LEMMA NoSignatureKeeps ==
    ASSUME SessionInv, NoSignature
    PROVE  SessionInv'
<1> USE DEF SessionInv
<1>0. PICK c \in Clients : c = prompt.client
  BY DEF CallingInv, CallsTyped, NoSignature, Prompts
<1>1. calls[c] # <<>> /\ Head(calls[c]) \in Calls
  <2>1. calls[c] # <<>> /\ calls[c] \in Seq(Calls)
    BY <1>0 DEF CallingInv, CallsTyped, NoSignature, PromptIsACall
  <2> QED BY <2>1
<1>2. PICK reply : reply = Failed(Head(calls[c]).id)
  OBVIOUS
<1>3. reply \in Replies /\ reply.id = Head(calls[c]).id /\ Expected(reply)
  BY <1>1, <1>2, CallKinds, FailedTyped
<1>4. Ran(c, reply)
  BY <1>0, <1>2 DEF NoSignature
<1>5. /\ prompt' = None /\ out' = out
      /\ UNCHANGED <<backlog, serving, gone, closed, inbox, sent, answered, batch, step, bind,
                     nextId, heard, store, bound, repaired>>
  BY DEF NoSignature, socketVars, storeVars
<1> QED BY <1>1, <1>3, <1>4, <1>5, CallHasRun, OutStays

LEMMA ApproveKeeps ==
    ASSUME SessionInv, Approve
    PROVE  SessionInv'
<1> USE DEF SessionInv
<1>0. PICK c \in Clients : c = prompt.client
  BY DEF CallingInv, CallsTyped, Approve, Prompts
<1>1. calls[c] # <<>> /\ Head(calls[c]) \in Calls /\ calls[c][1] = Head(calls[c])
      /\ 1 \in DOMAIN calls[c]
  <2>1. calls[c] # <<>> /\ calls[c] \in Seq(Calls)
    BY <1>0 DEF CallingInv, CallsTyped, Approve, PromptIsACall
  <2> QED BY <2>1
<1>2. PICK signature : signature = SignResponse
  OBVIOUS
<1>3. /\ signature \in Signatures
      /\ signature.data = prompt.data /\ signature.key = prompt.key
      /\ signature.destination = prompt.destination
  <2>1. prompt.data \in Data /\ prompt.key \in Keys /\ prompt.destination \in Destinations
    BY DEF CallingInv, CallsTyped, Approve, Prompts
  <2> QED BY <1>2, <2>1 DEF SignResponse, Signatures, Account
<1>4. PICK reply : reply = [id |-> Head(calls[c]).id, keys |-> {}, signature |-> signature]
  OBVIOUS
<1>5. reply \in Replies /\ reply.id = Head(calls[c]).id
  BY <1>1, <1>3, <1>4, CallKinds DEF Replies
<1>6. Ran(c, reply)
  BY <1>0, <1>2, <1>4 DEF Approve
<1>7. c = serving /\ step \in {"check", "sign"} /\ reply.id = nextId - 1 => Expected(reply)
  <2> SUFFICES ASSUME c = serving, step \in {"check", "sign"}, reply.id = nextId - 1
               PROVE  Expected(reply)
    OBVIOUS
  <2>1. reply.keys = {} /\ reply.signature = signature
    BY <1>4
  <2>2. Head(calls[c]).data = prompt.data /\ Head(calls[c]).destination = prompt.destination
    BY <1>0 DEF Approve, CallingInv, PromptIsACall
  <2>3. step = "sign" => /\ prompt.data = Head(batch).data
                         /\ prompt.destination = Destination
                         /\ prompt.key = Head(batch).key \/ repaired
    BY <1>0, <1>1, <1>5, <2>2 DEF Approve, CallingInv, AwaitedCallIsTheHeads
  <2> QED BY <1>3, <2>1, <2>3 DEF Expected
<1>8. /\ prompt' = None /\ out' = out
      /\ UNCHANGED <<backlog, serving, gone, closed, inbox, sent, answered, batch, step, bind,
                     nextId, heard, store, bound, repaired>>
  BY DEF Approve, socketVars, storeVars
<1> QED BY <1>1, <1>5, <1>6, <1>7, <1>8, CallHasRun, OutStays

LEMMA AskPhoneKeeps ==
    ASSUME SessionInv, NEW c \in Clients, AskPhone(c)
    PROVE  SessionInv'
<1> USE DEF SessionInv
<1>0. /\ UNCHANGED <<backlog, serving, gone, closed, inbox, sent, answered, batch, step, bind,
                     nextId, calls, replies, heard, store, bound, repaired, out>>
      /\ calls[c] # <<>> /\ calls[c] \in Seq(Calls) /\ Head(calls[c]).kind = "sign"
      /\ Cardinality(store) = 1
  BY DEF AskPhone, socketVars, ipcVars, storeVars, CallingInv, CallsTyped
<1>1. Head(calls[c]) \in Calls /\ calls[c][1] = Head(calls[c]) /\ 1 \in DOMAIN calls[c]
  BY <1>0
<1>2. PICK k : store = {k}
  <2>1. store \subseteq Keys
    BY DEF CallingInv, CallsTyped
  <2>2. IsFiniteSet(store)
    BY <2>1, SshAssumption, FS_Subset
  <2> QED BY <1>0, <2>2, FS_Singleton
<1>3. PICK data : data = Head(calls[c]).data
  OBVIOUS
<1>4. PICK destination : destination = Head(calls[c]).destination
  OBVIOUS
<1>5. prompt' = [client |-> c, key |-> k, data |-> data, destination |-> destination]
  <2>1. k = CHOOSE x \in store : TRUE
    BY <1>2
  <2> QED BY <1>3, <1>4, <2>1 DEF AskPhone
<1>6. data \in Data /\ destination \in Destinations /\ k \in Keys
  <2>1. k \in Keys
    BY <1>2 DEF CallingInv, CallsTyped
  <2> QED BY <1>0, <1>1, <1>3, <1>4, <2>1, CallKinds
<1>7. ServingInv'
  BY <1>0 DEF ServingInv, SocketsTyped, SessionTyped, ServedOnce, MessagesAreCounted,
              WaitsForItsHead, BindIsOwn
<1>8. prompt' \in Prompts
  BY <1>5, <1>6 DEF Prompts
<1>9. CallsTyped' /\ NewAreFresh' /\ IdsAreOlder'
  BY <1>0, <1>8 DEF CallingInv, CallsTyped, NewAreFresh, IdsAreOlder
<1>10. PromptIsACall'
  <2>1. prompt'.client = c /\ prompt'.data = data /\ prompt'.destination = destination
    BY <1>5
  <2> QED BY <1>0, <1>3, <1>4, <2>1 DEF PromptIsACall
<1>11. AwaitedCallIsTheHeads'
  <2>1. \A e : Expected(e)' = Expected(e)
    BY <1>0 DEF Expected, Destination
  <2>2. prompt'.key = k
    BY <1>5
  <2>3. step = "sign" => k = Head(batch).key \/ repaired
    BY <1>2 DEF CallingInv, AwaitedCallIsTheHeads
  <2>4. Destination' = Destination
    BY <1>0 DEF Destination
  <2> QED BY <1>0, <2>1, <2>2, <2>3, <2>4 DEF CallingInv, AwaitedCallIsTheHeads
<1>12. OutInv'
  BY <1>0, OutStays
<1> QED BY <1>7, <1>9, <1>10, <1>11, <1>12 DEF CallingInv

LEMMA ChangePairingsKeeps ==
    ASSUME SessionInv, ChangePairings
    PROVE  SessionInv'
<1> USE DEF SessionInv
<1>0. /\ UNCHANGED <<backlog, serving, gone, closed, inbox, sent, answered, batch, step, bind,
                     nextId, calls, replies, heard, prompt, bound, out>>
      /\ prompt = None /\ repaired' = TRUE /\ store' \subseteq Keys
  BY DEF ChangePairings, socketVars, ipcVars
<1>1. ServingInv'
  BY <1>0 DEF ServingInv, SocketsTyped, SessionTyped, ServedOnce, MessagesAreCounted,
              WaitsForItsHead, BindIsOwn
<1>2. CallsTyped' /\ NewAreFresh' /\ IdsAreOlder' /\ PromptIsACall'
  BY <1>0 DEF CallingInv, CallsTyped, NewAreFresh, IdsAreOlder, PromptIsACall
<1>3. \A e : Expected(e) => Expected(e)'
  BY <1>0 DEF Expected, Destination
<1>4. Destination' = Destination
  BY <1>0 DEF Destination
<1>5. AwaitedCallIsTheHeads'
  BY <1>0, <1>3, <1>4 DEF CallingInv, AwaitedCallIsTheHeads
<1>6. OutInv'
  BY <1>0, OutStays
<1> QED BY <1>1, <1>2, <1>5, <1>6 DEF CallingInv

\* The session's calls are untouched by what clients do.
LEMMA CallingStays ==
    ASSUME CallingInv,
           UNCHANGED <<serving, closed, batch, step, bind, nextId, calls, replies, heard, prompt,
                       store, bound, repaired>>
    PROVE  CallingInv'
<1>1. CallsTyped' /\ NewAreFresh' /\ IdsAreOlder' /\ PromptIsACall'
  BY DEF CallingInv, CallsTyped, NewAreFresh, IdsAreOlder, PromptIsACall
<1>2. \A e : Expected(e)' = Expected(e)
  BY DEF Expected, Destination
<1>3. Destination' = Destination
  BY DEF Destination
<1>4. AwaitedCallIsTheHeads'
  BY <1>2, <1>3 DEF CallingInv, AwaitedCallIsTheHeads
<1> QED BY <1>1, <1>4 DEF CallingInv

LEMMA ConnectKeeps ==
    ASSUME SessionInv, NEW c \in Clients, Connect(c)
    PROVE  SessionInv'
<1> USE DEF SessionInv
<1>0. /\ UNCHANGED <<serving, gone, closed, inbox, sent, answered, batch, step, bind,
                     nextId, calls, replies, heard, prompt, store, bound, repaired, out>>
      /\ backlog \in Seq(Clients)
      /\ c # serving /\ c \notin closed /\ \A i \in DOMAIN backlog : backlog[i] # c
  BY DEF Connect, Connected, ToSet, ipcVars, storeVars, ServingInv, SocketsTyped
<1>1. PICK q \in Seq(Clients) :
          /\ q = Append(backlog, c)
          /\ \A i \in DOMAIN q : \/ i = Len(backlog) + 1 /\ q[i] = c
                                 \/ i \in DOMAIN backlog /\ q[i] = backlog[i]
  <2>1. /\ Append(backlog, c) \in Seq(Clients)
        /\ \A i \in DOMAIN Append(backlog, c) :
              \/ i = Len(backlog) + 1 /\ Append(backlog, c)[i] = c
              \/ i \in DOMAIN backlog /\ Append(backlog, c)[i] = backlog[i]
    BY <1>0, QueueAppend
  <2> QED BY <2>1, Zenon
<1>2. backlog' = q
  BY <1>1 DEF Connect
<1>3. SocketsTyped' /\ SessionTyped' /\ MessagesAreCounted' /\ WaitsForItsHead' /\ BindIsOwn'
  BY <1>0, <1>1, <1>2 DEF ServingInv, SocketsTyped, SessionTyped, MessagesAreCounted,
                          WaitsForItsHead, BindIsOwn
<1>4. ServedOnce'
  <2>1. \A i, j \in DOMAIN q : q[i] = q[j] => i = j
    BY <1>0, <1>1 DEF ServingInv, ServedOnce
  <2>2. \A i \in DOMAIN q : q[i] # serving /\ q[i] \notin closed
    BY <1>0, <1>1 DEF ServingInv, ServedOnce
  <2> QED BY <1>0, <1>2, <2>1, <2>2 DEF ServingInv, ServedOnce
<1>5. CallingInv' /\ OutInv'
  BY <1>0, CallingStays, OutStays
<1> QED BY <1>3, <1>4, <1>5 DEF ServingInv

LEMMA SendKeeps ==
    ASSUME SessionInv, NEW c \in Clients, NEW m \in Sends[c], Send(c, m)
    PROVE  SessionInv'
<1> USE DEF SessionInv
<1>0. /\ UNCHANGED <<backlog, serving, gone, closed, answered, batch, step, bind,
                     nextId, calls, replies, heard, prompt, store, bound, repaired, out>>
      /\ inbox[c] \in Seq(Messages) /\ m \in Messages
  BY SshAssumption DEF Send, ipcVars, storeVars, ServingInv, SocketsTyped
<1>1. PICK q \in Seq(Messages) : q = Append(inbox[c], m) /\ Len(q) = Len(inbox[c]) + 1
  BY <1>0, QueueAppend
<1>2. inbox' = [inbox EXCEPT ![c] = q] /\ sent' = [sent EXCEPT ![c] = sent[c] + 1]
  BY <1>1 DEF Send
<1>3. /\ inbox' \in [Clients -> Seq(Messages)] /\ sent' \in [Clients -> Nat]
      /\ \A d \in Clients : /\ Len(inbox'[d]) = IF d = c THEN Len(inbox[d]) + 1 ELSE Len(inbox[d])
                            /\ sent'[d] = IF d = c THEN sent[d] + 1 ELSE sent[d]
  BY <1>1, <1>2 DEF ServingInv, SocketsTyped
<1>4. SocketsTyped' /\ SessionTyped' /\ ServedOnce' /\ WaitsForItsHead' /\ BindIsOwn'
  BY <1>0, <1>3 DEF ServingInv, SocketsTyped, SessionTyped, ServedOnce, WaitsForItsHead, BindIsOwn
<1>5. MessagesAreCounted'
  <2> SUFFICES ASSUME NEW d \in Clients
               PROVE  answered[d] + Len(inbox'[d]) + (IF d = serving THEN Len(batch) ELSE 0) <= sent'[d]
    BY <1>0 DEF ServingInv, MessagesAreCounted
  <2>1. /\ answered[d] \in Nat /\ sent[d] \in Nat /\ Len(inbox[d]) \in Nat /\ Len(batch) \in Nat
        /\ answered[d] + Len(inbox[d]) + (IF d = serving THEN Len(batch) ELSE 0) <= sent[d]
    BY DEF ServingInv, SocketsTyped, MessagesAreCounted
  <2>2. PICK handled \in Nat : handled = IF d = serving THEN Len(batch) ELSE 0
    BY <2>1
  <2>3. answered[d] + Len(inbox[d]) + handled <= sent[d]
    BY <2>1, <2>2
  <2>4. CASE d = c
    <3>1. Len(inbox'[d]) = Len(inbox[d]) + 1 /\ sent'[d] = sent[d] + 1
      BY <1>3, <2>4
    <3>2. answered[d] \in Nat /\ sent[d] \in Nat /\ Len(inbox[d]) \in Nat
      BY <2>1
    <3>3. answered[d] + Len(inbox'[d]) + handled <= sent'[d]
      BY <2>3, <3>1, <3>2
    <3> QED BY <2>2, <3>3
  <2>5. CASE d # c
    <3>1. Len(inbox'[d]) = Len(inbox[d]) /\ sent'[d] = sent[d]
      BY <1>3, <2>5
    <3> QED BY <2>1, <2>2, <2>3, <3>1
  <2> QED BY <2>4, <2>5
<1>6. CallingInv' /\ OutInv'
  BY <1>0, CallingStays, OutStays
<1> QED BY <1>4, <1>5, <1>6 DEF ServingInv

LEMMA HangUpKeeps ==
    ASSUME SessionInv, NEW c \in Clients, HangUp(c)
    PROVE  SessionInv'
<1> USE DEF SessionInv
<1>0. /\ UNCHANGED <<backlog, serving, closed, inbox, sent, answered, batch, step, bind,
                     nextId, calls, replies, heard, prompt, store, bound, repaired, out>>
      /\ gone' = gone \cup {c}
  BY DEF HangUp, ipcVars, storeVars
<1>1. ServingInv'
  BY <1>0 DEF ServingInv, SocketsTyped, SessionTyped, ServedOnce, MessagesAreCounted,
              WaitsForItsHead, BindIsOwn
<1> QED BY <1>0, <1>1, CallingStays, OutStays

\* What a connection left unread goes with it.
LEMMA InboxIsDropped ==
    ASSUME ServingInv, NEW d \in Clients, inbox' = [inbox EXCEPT ![d] = <<>>]
    PROVE  /\ inbox' \in [Clients -> Seq(Messages)]
           /\ \A c \in Clients : Len(inbox'[c]) \in Nat /\ Len(inbox'[c]) <= Len(inbox[c])
<1>1. inbox \in [Clients -> Seq(Messages)] /\ <<>> \in Seq(Messages)
  BY DEF ServingInv, SocketsTyped
<1>2. inbox' \in [Clients -> Seq(Messages)]
  BY <1>1
<1>3. ASSUME NEW c \in Clients
      PROVE  Len(inbox'[c]) \in Nat /\ Len(inbox'[c]) <= Len(inbox[c])
  <2>1. Len(inbox[c]) \in Nat
    BY <1>1
  <2>2. inbox'[c] = <<>> \/ inbox'[c] = inbox[c]
    BY <1>1
  <2> QED BY <2>1, <2>2
<1> QED BY <1>2, <1>3

LEMMA AcceptKeeps ==
    ASSUME SessionInv, Accept
    PROVE  SessionInv'
<1> USE DEF SessionInv
<1>0. /\ UNCHANGED <<gone, sent, answered, batch, calls, replies, heard, prompt, store,
                     bound, repaired, out>>
      /\ backlog \in Seq(Clients) /\ backlog # <<>> /\ backlog' = Tail(backlog)
      /\ serving = None /\ batch = <<>> /\ step = "accept"
  BY DEF Accept, storeVars, ServingInv, SocketsTyped, ServedOnce, MessagesAreCounted
<1>1. PICK c \in Clients : c = Head(backlog) /\ backlog[1] = c /\ 1 \in DOMAIN backlog
  BY <1>0
<1>2. PICK q \in Seq(Clients) :
          /\ q = Tail(backlog)
          /\ \A i \in DOMAIN q : i + 1 \in DOMAIN backlog /\ q[i] = backlog[i + 1] /\ i \in Nat
  <2>1. /\ Tail(backlog) \in Seq(Clients)
        /\ \A i \in DOMAIN Tail(backlog) : i + 1 \in DOMAIN backlog
                                           /\ Tail(backlog)[i] = backlog[i + 1]
    BY <1>0, QueueTail
  <2>2. \A i \in DOMAIN Tail(backlog) : i \in Nat
    BY <2>1
  <2> QED BY <2>1, <2>2, Zenon
<1>3. \A i, j \in DOMAIN q : q[i] = q[j] => i = j
  BY <1>2 DEF ServingInv, ServedOnce
<1>4. \A i \in DOMAIN q : q[i] # c /\ q[i] \notin closed /\ q[i] # None
  <2> SUFFICES ASSUME NEW i \in DOMAIN q PROVE q[i] # c /\ q[i] \notin closed /\ q[i] # None
    OBVIOUS
  <2>1. i + 1 \in DOMAIN backlog /\ q[i] = backlog[i + 1] /\ i + 1 # 1
    BY <1>2
  <2> QED BY <1>0, <1>1, <2>1 DEF ServingInv, ServedOnce
<1>5. c # None /\ c \notin closed /\ calls[c] = <<>> /\ replies[c] = <<>> /\ bound[c] = None
  BY <1>0, <1>1, SshAssumption DEF ServingInv, ServedOnce, CallingInv, NewAreFresh
<1>6. OutInv'
  BY <1>0, OutStays
<1>7. CASE /\ serving' = c /\ step' = "read" /\ bind' = None /\ nextId' = 1
           /\ UNCHANGED <<closed, inbox>>
  <2>1. SocketsTyped' /\ SessionTyped' /\ WaitsForItsHead' /\ BindIsOwn'
    BY <1>0, <1>2, <1>5, <1>7 DEF ServingInv, SocketsTyped, SessionTyped, WaitsForItsHead, BindIsOwn
  <2>2. ServedOnce'
    BY <1>0, <1>2, <1>3, <1>4, <1>5, <1>7 DEF ServedOnce
  <2>3. MessagesAreCounted'
    BY <1>0, <1>7 DEF ServingInv, SocketsTyped, MessagesAreCounted
  <2>4. CallsTyped' /\ NewAreFresh' /\ IdsAreOlder' /\ PromptIsACall' /\ AwaitedCallIsTheHeads'
    BY <1>0, <1>5, <1>7, SshAssumption
       DEF CallingInv, CallsTyped, NewAreFresh, IdsAreOlder, PromptIsACall, AwaitedCallIsTheHeads
  <2> QED BY <1>6, <2>1, <2>2, <2>3, <2>4 DEF ServingInv, CallingInv
<1>8. CASE /\ closed' = closed \cup {c} /\ inbox' = [inbox EXCEPT ![c] = <<>>]
           /\ UNCHANGED <<serving, step, bind, nextId>>
  <2>0. /\ inbox' \in [Clients -> Seq(Messages)]
        /\ \A d \in Clients : Len(inbox'[d]) \in Nat /\ Len(inbox'[d]) <= Len(inbox[d])
    BY <1>8, InboxIsDropped
  <2>1. SocketsTyped' /\ SessionTyped' /\ WaitsForItsHead' /\ BindIsOwn'
    BY <1>0, <1>2, <1>8, <2>0
       DEF ServingInv, SocketsTyped, SessionTyped, WaitsForItsHead, BindIsOwn
  <2>4. MessagesAreCounted'
    <3> SUFFICES ASSUME NEW d \in Clients PROVE answered[d] + Len(inbox'[d]) + 0 <= sent[d]
      BY <1>0, <1>8, SshAssumption DEF MessagesAreCounted
    <3>1. /\ answered[d] \in Nat /\ sent[d] \in Nat /\ Len(inbox[d]) \in Nat
          /\ answered[d] + Len(inbox[d]) + 0 <= sent[d]
      BY <1>0, SshAssumption DEF ServingInv, SocketsTyped, MessagesAreCounted
    <3> QED BY <2>0, <3>1
  <2>2. ServedOnce'
    BY <1>0, <1>2, <1>3, <1>4, <1>5, <1>8 DEF ServingInv, ServedOnce
  <2>3. CallsTyped' /\ NewAreFresh' /\ IdsAreOlder' /\ PromptIsACall' /\ AwaitedCallIsTheHeads'
    BY <1>0, <1>8
       DEF CallingInv, CallsTyped, NewAreFresh, IdsAreOlder, PromptIsACall, AwaitedCallIsTheHeads
  <2> QED BY <1>6, <2>1, <2>2, <2>3, <2>4 DEF ServingInv, CallingInv
<1> QED BY <1>1, <1>7, <1>8 DEF Accept

LEMMA HearKeeps ==
    ASSUME SessionInv, Hear
    PROVE  SessionInv'
<1> USE DEF SessionInv
<1>0. /\ UNCHANGED <<backlog, serving, gone, closed, inbox, sent, answered, batch, step, bind,
                     nextId, calls, prompt, store, bound, repaired, out>>
      /\ step \in {"list", "check", "sign"} /\ replies[serving] # <<>>
  BY DEF Hear, socketVars, storeVars
<1>1. serving \in Clients /\ replies[serving] \in Seq(Replies)
  BY <1>0 DEF ServingInv, ServedOnce, SocketsTyped, CallingInv, CallsTyped
<1>2. PICK reply \in Replies : /\ reply = Head(replies[serving]) /\ reply = replies[serving][1]
                               /\ 1 \in DOMAIN replies[serving]
  BY <1>0, <1>1
<1>3. PICK q \in Seq(Replies) :
          /\ q = Tail(replies[serving])
          /\ \A i \in DOMAIN q : i + 1 \in DOMAIN replies[serving] /\ q[i] = replies[serving][i + 1]
  <2>1. /\ Tail(replies[serving]) \in Seq(Replies)
        /\ \A i \in DOMAIN Tail(replies[serving]) :
              i + 1 \in DOMAIN replies[serving]
              /\ Tail(replies[serving])[i] = replies[serving][i + 1]
    BY <1>0, <1>1, QueueTail
  <2> QED BY <2>1, Zenon
<1>4. /\ replies' = [replies EXCEPT ![serving] = q]
      /\ heard' = IF reply.id = nextId - 1 THEN reply ELSE None
  BY <1>2, <1>3 DEF Hear
<1>5. /\ replies' \in [Clients -> Seq(Replies)] /\ replies'[serving] = q
      /\ \A d \in Clients : d # serving => replies'[d] = replies[d]
  BY <1>1, <1>3, <1>4 DEF CallingInv, CallsTyped
<1>6. ServingInv'
  BY <1>0 DEF ServingInv, SocketsTyped, SessionTyped, ServedOnce, MessagesAreCounted,
              WaitsForItsHead, BindIsOwn
<1>7. CallsTyped'
  BY <1>0, <1>4, <1>5 DEF CallingInv, CallsTyped
<1>8. NewAreFresh' /\ PromptIsACall'
  BY <1>0, <1>5 DEF CallingInv, NewAreFresh, PromptIsACall
<1>9. IdsAreOlder'
  BY <1>0, <1>3, <1>5 DEF CallingInv, IdsAreOlder
<1>10. AwaitedCallIsTheHeads'
  <2>1. \A e : Expected(e)' = Expected(e)
    BY <1>0 DEF Expected, Destination
  <2>2. step \in {"check", "sign"} /\ reply.id = nextId - 1 => Expected(reply)
    BY <1>2 DEF CallingInv, AwaitedCallIsTheHeads
  <2>3. step \in {"check", "sign"} =>
            \A i \in DOMAIN q : q[i].id = nextId - 1 => Expected(q[i])
    BY <1>3 DEF CallingInv, AwaitedCallIsTheHeads
  <2>4. Destination' = Destination
    BY <1>0 DEF Destination
  <2> QED BY <1>0, <1>4, <1>5, <2>1, <2>2, <2>3, <2>4 DEF CallingInv, AwaitedCallIsTheHeads
<1>11. OutInv'
  BY <1>0, OutStays
<1> QED BY <1>6, <1>7, <1>8, <1>9, <1>10, <1>11 DEF CallingInv

LEMMA GiveUpKeeps ==
    ASSUME SessionInv, GiveUp
    PROVE  SessionInv'
<1> USE DEF SessionInv
<1>0. /\ UNCHANGED <<backlog, serving, gone, closed, inbox, sent, answered, batch, step, bind,
                     nextId, calls, replies, prompt, store, bound, repaired, out>>
      /\ step \in {"list", "check", "sign"}
  BY DEF GiveUp, socketVars, storeVars
<1>1. nextId - 1 \in Nat
  BY <1>0 DEF ServingInv, ServedOnce, CallingInv, CallsTyped, IdsAreOlder
<1>2. PICK f : f = Failed(nextId - 1)
  OBVIOUS
<1>3. heard' = f /\ f \in Replies /\ Expected(f)
  BY <1>1, <1>2, FailedTyped DEF GiveUp
<1>4. ServingInv'
  BY <1>0 DEF ServingInv, SocketsTyped, SessionTyped, ServedOnce, MessagesAreCounted,
              WaitsForItsHead, BindIsOwn
<1>5. CallsTyped' /\ NewAreFresh' /\ IdsAreOlder' /\ PromptIsACall'
  BY <1>0, <1>3 DEF CallingInv, CallsTyped, NewAreFresh, IdsAreOlder, PromptIsACall
<1>6. AwaitedCallIsTheHeads'
  <2>1. \A e : Expected(e)' = Expected(e)
    BY <1>0 DEF Expected, Destination
  <2>2. Destination' = Destination
    BY <1>0 DEF Destination
  <2> QED BY <1>0, <1>3, <2>1, <2>2 DEF CallingInv, AwaitedCallIsTheHeads
<1> QED BY <1>0, <1>4, <1>5, <1>6, OutStays DEF CallingInv

\* The connection ends, whatever it said last and whatever was left to read.
LEMMA ConnectionCloses ==
    ASSUME ServingInv, CallingInv, step # "accept", Close,
           bind' \in Binds \cup {None}, bound' \in [Clients -> Binds \cup {None}],
           \A c \in Clients : c # serving => bound'[c] = bound[c], heard' \in {heard, None},
           UNCHANGED <<backlog, gone, sent, answered, nextId, calls, prompt, store, repaired>>
    PROVE  ServingInv' /\ CallingInv'
<1>0. serving \in Clients /\ serving # None
  BY SshAssumption DEF ServingInv, ServedOnce, SocketsTyped
<1>6. /\ inbox' \in [Clients -> Seq(Messages)]
      /\ \A c \in Clients : Len(inbox'[c]) \in Nat /\ Len(inbox'[c]) <= Len(inbox[c])
  BY <1>0, InboxIsDropped DEF Close
<1>1. /\ serving' = None /\ step' = "accept" /\ batch' = <<>> /\ closed' = closed \cup {serving}
      /\ replies' \in [Clients -> Seq(Replies)]
      /\ \A c \in Clients : c # serving => replies'[c] = replies[c]
  BY <1>0 DEF Close, CallingInv, CallsTyped
<1>2. SocketsTyped' /\ SessionTyped' /\ WaitsForItsHead' /\ BindIsOwn'
  BY <1>0, <1>1, <1>6 DEF ServingInv, SocketsTyped, SessionTyped, WaitsForItsHead, BindIsOwn
<1>3. ServedOnce'
  <2>1. \A i \in DOMAIN backlog : backlog[i] # None
    BY SshAssumption DEF ServingInv, SocketsTyped
  <2>2. None \notin closed \cup {serving}
    BY <1>0, SshAssumption DEF ServingInv, SocketsTyped
  <2> QED BY <1>1, <2>1, <2>2 DEF ServingInv, ServedOnce
<1>4. MessagesAreCounted'
  <2> SUFFICES ASSUME NEW c \in Clients PROVE answered[c] + Len(inbox'[c]) + 0 <= sent[c]
    BY <1>1, SshAssumption DEF MessagesAreCounted
  <2>1. /\ answered[c] \in Nat /\ sent[c] \in Nat /\ Len(inbox[c]) \in Nat /\ Len(batch) \in Nat
        /\ Len(inbox'[c]) \in Nat /\ Len(inbox'[c]) <= Len(inbox[c])
    BY <1>6 DEF ServingInv, SocketsTyped
  <2>2. answered[c] + Len(inbox[c]) + (IF c = serving THEN Len(batch) ELSE 0) <= sent[c]
    BY DEF ServingInv, MessagesAreCounted
  <2>3. answered[c] + Len(inbox[c]) <= sent[c]
    <3>1. CASE c = serving
      BY <2>1, <2>2, <3>1
    <3>2. CASE c # serving
      BY <2>1, <2>2, <3>2
    <3> QED BY <3>1, <3>2
  <2> QED BY <2>1, <2>3
<1>5. CallsTyped' /\ NewAreFresh' /\ IdsAreOlder' /\ PromptIsACall' /\ AwaitedCallIsTheHeads'
  BY <1>0, <1>1
     DEF CallingInv, CallsTyped, NewAreFresh, IdsAreOlder, PromptIsACall, AwaitedCallIsTheHeads
<1> QED BY <1>2, <1>3, <1>4, <1>5 DEF ServingInv, CallingInv

\* The reply to the head of the batch is written, or finds nobody.
LEMMA ReplyIsWritten ==
    ASSUME ServingInv, CallingInv, step # "accept", batch # <<>>, Reply,
           bound' \in [Clients -> Binds \cup {None}], bind' = bound'[serving],
           \A c \in Clients : c # serving => bound'[c] = bound[c], heard' \in {heard, None},
           UNCHANGED <<backlog, gone, sent, nextId, calls, prompt, store, repaired>>
    PROVE  ServingInv' /\ CallingInv'
<1>0. serving \in Clients /\ serving # None /\ bind' \in Binds \cup {None}
  BY SshAssumption DEF ServingInv, ServedOnce, SocketsTyped
<1>1. CASE serving \in gone
  <2>1. Close /\ answered' = answered
    BY <1>1 DEF Reply
  <2> QED BY <1>0, <2>1, ConnectionCloses
<1>2. CASE serving \notin gone
  <2>0. /\ answered' = [answered EXCEPT ![serving] = answered[serving] + 1]
        /\ batch' = Tail(batch) /\ step' = "read" /\ UNCHANGED <<serving, closed, inbox, replies>>
    BY <1>2 DEF Reply
  <2>1. batch \in Seq(Messages) /\ Tail(batch) \in Seq(Messages) /\ Len(Tail(batch)) = Len(batch) - 1
    BY DEF ServingInv, SocketsTyped
  <2>2. /\ answered' \in [Clients -> Nat] /\ answered'[serving] = answered[serving] + 1
        /\ \A c \in Clients : c # serving => answered'[c] = answered[c]
    BY <1>0, <2>0 DEF ServingInv, SocketsTyped
  <2>3. SocketsTyped' /\ SessionTyped' /\ WaitsForItsHead' /\ BindIsOwn' /\ ServedOnce'
    BY <1>0, <2>0, <2>1, <2>2
       DEF ServingInv, SocketsTyped, SessionTyped, WaitsForItsHead, BindIsOwn, ServedOnce
  <2>4. MessagesAreCounted'
    <3> SUFFICES ASSUME NEW c \in Clients
                 PROVE  answered'[c] + Len(inbox[c]) + (IF c = serving THEN Len(Tail(batch)) ELSE 0)
                            <= sent[c]
      BY <2>0 DEF MessagesAreCounted
    <3>1. /\ answered[c] \in Nat /\ sent[c] \in Nat /\ Len(inbox[c]) \in Nat /\ Len(batch) \in Nat
          /\ answered[c] + Len(inbox[c]) + (IF c = serving THEN Len(batch) ELSE 0) <= sent[c]
      BY DEF ServingInv, SocketsTyped, MessagesAreCounted
    <3>2. CASE c = serving
      <4>1. answered[c] + Len(inbox[c]) + Len(batch) <= sent[c]
        BY <3>1, <3>2
      <4>2. answered'[c] = answered[c] + 1 /\ Len(Tail(batch)) = Len(batch) - 1
        BY <2>1, <2>2, <3>2
      <4>3. answered'[c] + Len(inbox[c]) + Len(Tail(batch)) <= sent[c]
        BY <3>1, <4>1, <4>2
      <4> QED BY <3>2, <4>3
    <3>3. CASE c # serving
      <4>1. answered'[c] = answered[c] /\ answered[c] + Len(inbox[c]) + 0 <= sent[c]
        BY <2>2, <3>1, <3>3
      <4> QED BY <3>3, <4>1
    <3> QED BY <3>2, <3>3
  <2>5. CallsTyped' /\ NewAreFresh' /\ IdsAreOlder' /\ PromptIsACall' /\ AwaitedCallIsTheHeads'
    BY <1>0, <2>0
       DEF CallingInv, CallsTyped, NewAreFresh, IdsAreOlder, PromptIsACall, AwaitedCallIsTheHeads
  <2> QED BY <2>3, <2>4, <2>5 DEF ServingInv, CallingInv
<1> QED BY <1>1, <1>2

\* A call is written with the next id, which no earlier call or reply has.
LEMMA CallIsMade ==
    ASSUME ServingInv, CallingInv, step # "accept", NEW kind, NEW data, Call(kind, data),
           NEW call \in Calls,
           call = [id |-> nextId, kind |-> kind, data |-> data, destination |-> Destination],
           step' \in {"list", "check", "sign"}, WaitsForItsHead', repaired' \in BOOLEAN,
           step' = "sign" => /\ data = Head(batch).data
                             /\ Head(batch).key \in store \/ repaired',
           UNCHANGED <<backlog, serving, gone, closed, inbox, sent, answered, batch, bind, replies,
                       prompt, store, bound>>
    PROVE  ServingInv' /\ CallingInv'
<1>0. serving \in Clients /\ serving # None /\ calls[serving] \in Seq(Calls) /\ nextId \in Nat
  BY SshAssumption DEF ServingInv, ServedOnce, SocketsTyped, CallingInv, CallsTyped
<1>1. PICK q \in Seq(Calls) :
          /\ q = Append(calls[serving], call) /\ q # <<>>
          /\ calls[serving] # <<>> => Head(q) = Head(calls[serving])
          /\ \A i \in DOMAIN q : q[i] = call \/ (i \in DOMAIN calls[serving]
                                                 /\ q[i] = calls[serving][i])
  <2>1. /\ Append(calls[serving], call) \in Seq(Calls) /\ Append(calls[serving], call) # <<>>
        /\ calls[serving] # <<>> => Head(Append(calls[serving], call)) = Head(calls[serving])
        /\ \A i \in DOMAIN Append(calls[serving], call) :
              \/ Append(calls[serving], call)[i] = call
              \/ i \in DOMAIN calls[serving] /\ Append(calls[serving], call)[i] = calls[serving][i]
    BY <1>0, QueueAppend
  <2> QED BY <2>1, Zenon
<1>2. calls' = [calls EXCEPT ![serving] = q] /\ nextId' = nextId + 1 /\ heard' = None
  BY <1>1 DEF Call
<1>3. /\ calls' \in [Clients -> Seq(Calls)] /\ calls'[serving] = q
      /\ \A c \in Clients : c # serving => calls'[c] = calls[c]
  BY <1>0, <1>1, <1>2 DEF CallingInv, CallsTyped
<1>4. call.id = nextId /\ call.data = data /\ call.destination = Destination
  OBVIOUS
<1>5. ServingInv'
  BY DEF ServingInv, SocketsTyped, SessionTyped, ServedOnce, MessagesAreCounted, BindIsOwn
<1>6. CallsTyped' /\ NewAreFresh'
  BY <1>0, <1>2, <1>3 DEF CallingInv, CallsTyped, NewAreFresh
<1>7. \A i \in DOMAIN calls[serving] : calls[serving][i].id \in Nat /\ calls[serving][i].id < nextId
  BY <1>0, CallKinds DEF CallingInv, IdsAreOlder
<1>8. \A i \in DOMAIN replies[serving] : replies[serving][i].id \in Nat
                                         /\ replies[serving][i].id < nextId
  <2>1. replies[serving] \in Seq(Replies) /\ \A reply \in Replies : reply.id \in Nat
    BY <1>0 DEF CallingInv, CallsTyped, Replies
  <2>2. \A i \in DOMAIN replies[serving] : replies[serving][i].id \in Nat
    BY <2>1
  <2> QED BY <1>0, <2>2 DEF CallingInv, IdsAreOlder
<1>9. IdsAreOlder'
  BY <1>0, <1>1, <1>2, <1>3, <1>4, <1>7, <1>8 DEF CallingInv, IdsAreOlder
<1>10. PromptIsACall'
  <2>1. prompt # None => prompt.client \in Clients
    BY DEF CallingInv, CallsTyped, Prompts
  <2> QED BY <1>1, <1>3, <2>1 DEF CallingInv, PromptIsACall
<1>11. AwaitedCallIsTheHeads'
  <2>1. nextId' - 1 = nextId
    BY <1>0, <1>2
  <2>2. \A i \in DOMAIN replies[serving] : replies[serving][i].id # nextId
    BY <1>0, <1>8
  <2>3. \A i \in DOMAIN q : q[i].id = nextId => q[i] = call
    BY <1>0, <1>1, <1>7
  <2>4. prompt # None /\ prompt.client = serving => Head(q).id # nextId
    <3>1. SUFFICES ASSUME prompt # None, prompt.client = serving PROVE Head(q).id # nextId
      OBVIOUS
    <3>2. calls[serving] # <<>>
      BY <3>1 DEF CallingInv, PromptIsACall
    <3>3. Head(q) = calls[serving][1] /\ 1 \in DOMAIN calls[serving]
      BY <1>0, <1>1, <3>2
    <3> QED BY <1>0, <1>7, <3>3
  <2>5. Destination' = Destination
    BY DEF Destination
  <2> QED BY <1>2, <1>3, <1>4, <2>1, <2>2, <2>3, <2>4, <2>5 DEF AwaitedCallIsTheHeads
<1> QED BY <1>5, <1>6, <1>9, <1>10, <1>11 DEF CallingInv

LEMMA ReadKeeps ==
    ASSUME SessionInv, Read
    PROVE  SessionInv'
<1> USE DEF SessionInv
<1>0. /\ UNCHANGED <<backlog, gone, sent, answered, bind, nextId, calls, heard, prompt, store,
                     bound, repaired>>
      /\ step = "read" /\ batch = <<>> /\ out' = None
  BY DEF Read, storeVars
<1>1. serving \in Clients /\ serving # None
  BY <1>0, SshAssumption DEF ServingInv, ServedOnce, SocketsTyped
<1>2. inbox[serving] \in Seq(Messages)
  BY <1>1 DEF ServingInv, SocketsTyped
<1>3. PICK n \in 1 .. Len(inbox[serving]) :
          LET messages == SubSeq(inbox[serving], 1, n)
          IN  IF BadFrame \in ToSet(messages)
              THEN Close
              ELSE /\ inbox' = [inbox EXCEPT ![serving] = SubSeq(@, n + 1, Len(@))]
                   /\ batch' = messages /\ UNCHANGED <<serving, step, closed, replies>>
  BY DEF Read
<1>4. PICK messages : messages = SubSeq(inbox[serving], 1, n)
  OBVIOUS
<1>5. PICK q : q = SubSeq(inbox[serving], n + 1, Len(inbox[serving]))
  OBVIOUS
<1>6. messages \in Seq(Messages) /\ Len(messages) = n
  BY <1>2, <1>4, SubSeqProperties
<1>7. q \in Seq(Messages) /\ Len(q) = Len(inbox[serving]) - n
  BY <1>2, <1>5, SubSeqProperties
<1>11. OutInv'
  BY <1>0, OutStays
<1>12. CASE Close
  <2>1. bind' \in Binds \cup {None} /\ bound' \in [Clients -> Binds \cup {None}]
    BY <1>0 DEF ServingInv, SessionTyped
  <2> QED BY <1>0, <1>11, <1>12, <2>1, ConnectionCloses
<1>13. CASE /\ inbox' = [inbox EXCEPT ![serving] = q]
            /\ batch' = messages /\ UNCHANGED <<serving, step, closed, replies>>
  <2>0. /\ inbox' \in [Clients -> Seq(Messages)] /\ inbox'[serving] = q
        /\ \A c \in Clients : c # serving => inbox'[c] = inbox[c]
    BY <1>1, <1>7, <1>13 DEF ServingInv, SocketsTyped
  <2>1. SocketsTyped' /\ SessionTyped' /\ WaitsForItsHead' /\ BindIsOwn' /\ ServedOnce'
    BY <1>0, <1>6, <1>13, <2>0
       DEF ServingInv, SocketsTyped, SessionTyped, WaitsForItsHead, BindIsOwn, ServedOnce
  <2>2. MessagesAreCounted'
    <3> SUFFICES ASSUME NEW c \in Clients
                 PROVE  answered[c] + Len(inbox'[c]) + (IF c = serving THEN Len(messages) ELSE 0)
                            <= sent[c]
      BY <1>0, <1>13 DEF MessagesAreCounted
    <3>1. /\ answered[c] \in Nat /\ sent[c] \in Nat /\ Len(inbox[c]) \in Nat /\ n \in Nat
      BY <1>2 DEF ServingInv, SocketsTyped
    <3>2. answered[c] + Len(inbox[c]) <= sent[c]
      <4>1. answered[c] + Len(inbox[c]) + (IF c = serving THEN Len(batch) ELSE 0) <= sent[c]
        BY DEF ServingInv, MessagesAreCounted
      <4>2. Len(batch) = 0
        BY <1>0
      <4> QED BY <3>1, <4>1, <4>2
    <3>3. CASE c = serving
      <4>1. Len(inbox'[c]) = Len(inbox[c]) - n
        BY <1>7, <2>0, <3>3
      <4>2. answered[c] + Len(inbox'[c]) + Len(messages) <= sent[c]
        BY <1>6, <3>1, <3>2, <4>1
      <4> QED BY <3>3, <4>2
    <3>4. CASE c # serving
      <4>1. Len(inbox'[c]) = Len(inbox[c])
        BY <2>0, <3>4
      <4>2. answered[c] + Len(inbox'[c]) + 0 <= sent[c]
        BY <3>1, <3>2, <4>1
      <4> QED BY <3>4, <4>2
    <3> QED BY <3>3, <3>4
  <2>3. CallsTyped' /\ NewAreFresh' /\ IdsAreOlder' /\ PromptIsACall' /\ AwaitedCallIsTheHeads'
    BY <1>0, <1>13
       DEF CallingInv, CallsTyped, NewAreFresh, IdsAreOlder, PromptIsACall, AwaitedCallIsTheHeads
  <2> QED BY <1>11, <2>1, <2>2, <2>3 DEF ServingInv, CallingInv
<1> QED BY <1>3, <1>4, <1>5, <1>12, <1>13

LEMMA ReadEndKeeps ==
    ASSUME SessionInv, ReadEnd
    PROVE  SessionInv'
<1> USE DEF SessionInv
<1>0. /\ UNCHANGED <<backlog, gone, sent, answered, bind, nextId, calls, heard, prompt,
                     store, bound, repaired>>
      /\ step = "read" /\ out' = None /\ Close
  BY DEF ReadEnd, storeVars
<1>1. bind' \in Binds \cup {None} /\ bound' \in [Clients -> Binds \cup {None}]
  BY <1>0 DEF ServingInv, SessionTyped
<1> QED BY <1>0, <1>1, ConnectionCloses, OutStays

\* The head of the batch is a message of the connection being served.
LEMMA HeadOfBatch ==
    ASSUME ServingInv, batch # <<>>
    PROVE  Head(batch) \in Messages
BY DEF ServingInv, SocketsTyped

LEMMA HandleBindKeeps ==
    ASSUME SessionInv, HandleBind
    PROVE  SessionInv'
<1> USE DEF SessionInv
<1>0. /\ UNCHANGED <<backlog, gone, sent, nextId, calls, heard, prompt, store, repaired, out>>
      /\ step = "read" /\ batch # <<>> /\ Head(batch).kind = "bind" /\ Reply
      /\ bind' = Head(batch) /\ bound' = [bound EXCEPT ![serving] = Head(batch)]
  BY DEF HandleBind, Heads, storeVars
<1>1. PICK b : b = Head(batch)
  OBVIOUS
<1>2. b \in Binds /\ serving \in Clients
  BY <1>0, <1>1, HeadOfBatch, MessageKinds DEF ServingInv, ServedOnce, SocketsTyped
<1>3. /\ bound' \in [Clients -> Binds \cup {None}] /\ bind' = bound'[serving]
      /\ \A c \in Clients : c # serving => bound'[c] = bound[c]
  BY <1>0, <1>1, <1>2 DEF ServingInv, SessionTyped
<1> QED BY <1>0, <1>3, ReplyIsWritten, OutStays

\* Every other reply leaves the bind alone.
LEMMA PlainReplyIsWritten ==
    ASSUME ServingInv, CallingInv, step # "accept", batch # <<>>, Reply, heard' \in {heard, None},
           UNCHANGED <<backlog, gone, sent, nextId, calls, prompt, store, repaired, bind, bound>>
    PROVE  ServingInv' /\ CallingInv'
<1>1. bound' \in [Clients -> Binds \cup {None}] /\ bind' = bound'[serving]
  BY SshAssumption DEF ServingInv, ServedOnce, SocketsTyped, SessionTyped, BindIsOwn
<1> QED BY <1>1, ReplyIsWritten

LEMMA HandleUnsupportedKeeps ==
    ASSUME SessionInv, HandleUnsupported
    PROVE  SessionInv'
<1>1. /\ UNCHANGED <<backlog, gone, sent, nextId, calls, heard, prompt, store, repaired,
                     bind, bound, out>>
      /\ step = "read" /\ batch # <<>> /\ Reply
  BY DEF HandleUnsupported, Heads, storeVars
<1> QED BY <1>1, PlainReplyIsWritten, OutStays DEF SessionInv

LEMMA ListedKeeps ==
    ASSUME SessionInv, Listed
    PROVE  SessionInv'
<1>1. /\ UNCHANGED <<backlog, gone, sent, nextId, calls, prompt, store, repaired, bind, bound, out>>
      /\ step = "list" /\ Reply /\ heard' = None
  BY DEF Listed, storeVars
<1>2. batch # <<>>
  BY <1>1 DEF SessionInv, ServingInv, WaitsForItsHead
<1> QED BY <1>1, <1>2, PlainReplyIsWritten, OutStays DEF SessionInv

LEMMA HandleIdentitiesKeeps ==
    ASSUME SessionInv, HandleIdentities
    PROVE  SessionInv'
<1> USE DEF SessionInv
<1>0. /\ UNCHANGED <<backlog, serving, gone, closed, inbox, sent, answered, batch, bind, replies,
                     prompt, store, bound, repaired, out>>
      /\ step = "read" /\ batch # <<>> /\ Head(batch).kind = "identities"
      /\ Call("identities", None) /\ step' = "list"
  BY DEF HandleIdentities, Heads, socketVars, storeVars
<1>1. PICK call : call = [id |-> nextId, kind |-> "identities", data |-> None,
                          destination |-> Destination]
  OBVIOUS
<1>2. call \in Calls
  BY <1>1, DestinationTyped DEF ServingInv, CallingInv, CallsTyped, Calls
<1>3. WaitsForItsHead' /\ repaired' \in BOOLEAN
  BY <1>0 DEF ServingInv, SessionTyped, WaitsForItsHead
<1>4. ServingInv' /\ CallingInv'
  BY <1>0, <1>1, <1>2, <1>3, CallIsMade
<1> QED BY <1>0, <1>4, OutStays

LEMMA HandleSignKeeps ==
    ASSUME SessionInv, HandleSign
    PROVE  SessionInv'
<1> USE DEF SessionInv
<1>0. /\ UNCHANGED <<bind, prompt, store, bound, out>>
      /\ step = "read" /\ batch # <<>> /\ Head(batch).kind = "sign"
  BY DEF HandleSign, Heads, storeVars
<1>1. CASE /\ Asks(Head(batch)) /\ Call("identities", None)
           /\ step' = "check" /\ repaired' = FALSE
           /\ UNCHANGED <<socketVars, answered, batch, replies>>
  <2>0. UNCHANGED <<backlog, serving, gone, closed, inbox, sent, answered, batch, replies>>
    BY <1>1 DEF socketVars
  <2>1. PICK call : call = [id |-> nextId, kind |-> "identities", data |-> None,
                            destination |-> Destination]
    OBVIOUS
  <2>2. call \in Calls
    BY <2>1, DestinationTyped DEF ServingInv, CallingInv, CallsTyped, Calls
  <2>3. bind # None => bind.forwarding = FALSE
    <3>1. bind # None => bind.forwarding \in BOOLEAN
      BY DEF ServingInv, SessionTyped, Binds, SessionBind
    <3> QED BY <1>1, <3>1 DEF Asks
  <2>4. WaitsForItsHead'
    BY <1>0, <1>1, <2>0, <2>3 DEF WaitsForItsHead
  <2>5. ServingInv' /\ CallingInv'
    BY <1>0, <1>1, <2>0, <2>1, <2>2, <2>4, CallIsMade
  <2> QED BY <1>0, <2>5, OutStays
<1>2. CASE Reply /\ UNCHANGED <<backlog, gone, sent, nextId, calls, heard, repaired>>
  <2>1. ServingInv' /\ CallingInv'
    BY <1>0, <1>2, PlainReplyIsWritten
  <2> QED BY <1>0, <2>1, OutStays
<1> QED BY <1>1, <1>2 DEF HandleSign

LEMMA CheckedKeeps ==
    ASSUME SessionInv, Checked
    PROVE  SessionInv'
<1> USE DEF SessionInv
<1>0. /\ UNCHANGED <<bind, prompt, store, bound, repaired, out>>
      /\ step = "check" /\ heard # None
  BY DEF Checked, storeVars
<1>1. batch # <<>> /\ Head(batch).kind = "sign" /\ Head(batch).data \in Data
  <2>1. batch # <<>> /\ Head(batch).kind = "sign"
    BY <1>0 DEF ServingInv, WaitsForItsHead
  <2> QED BY <2>1, HeadOfBatch, MessageKinds
<1>2. CASE /\ Advertised(Head(batch).key, heard.keys) /\ Call("sign", Head(batch).data)
           /\ step' = "sign" /\ UNCHANGED <<socketVars, answered, batch, replies>>
  <2>0. UNCHANGED <<backlog, serving, gone, closed, inbox, sent, answered, batch, replies>>
    BY <1>2 DEF socketVars
  <2>1. PICK data : data = Head(batch).data
    OBVIOUS
  <2>2. PICK call : call = [id |-> nextId, kind |-> "sign", data |-> data,
                            destination |-> Destination]
    OBVIOUS
  <2>3. call \in Calls
    BY <1>1, <2>1, <2>2, DestinationTyped DEF ServingInv, CallingInv, CallsTyped, Calls
  <2>4. WaitsForItsHead' /\ repaired' \in BOOLEAN
    BY <1>0, <1>1, <1>2, <2>0 DEF ServingInv, SessionTyped, WaitsForItsHead
  <2>5. Head(batch).key \in store \/ repaired
    BY <1>0, <1>2 DEF Advertised, CallingInv, AwaitedCallIsTheHeads, Expected
  <2>6. ServingInv' /\ CallingInv'
    BY <1>0, <1>2, <2>0, <2>1, <2>2, <2>3, <2>4, <2>5, CallIsMade
  <2> QED BY <1>0, <2>6, OutStays
<1>3. CASE Reply /\ heard' = None /\ UNCHANGED <<backlog, gone, sent, nextId, calls>>
  <2>1. ServingInv' /\ CallingInv'
    BY <1>0, <1>1, <1>3, PlainReplyIsWritten
  <2> QED BY <1>0, <2>1, OutStays
<1> QED BY <1>2, <1>3 DEF Checked

LEMMA SignedKeeps ==
    ASSUME SessionInv, Signed
    PROVE  SessionInv'
<1> USE DEF SessionInv
<1>0. /\ UNCHANGED <<backlog, gone, sent, nextId, calls, prompt, store, repaired, bind, bound>>
      /\ step = "sign" /\ heard # None /\ Reply /\ heard' = None
  BY DEF Signed, storeVars
<1>1. batch # <<>> /\ Head(batch) \in Messages
  <2>1. batch # <<>>
    BY <1>0 DEF ServingInv, WaitsForItsHead
  <2> QED BY <2>1, HeadOfBatch
<1>2. ServingInv' /\ CallingInv'
  BY <1>0, <1>1, PlainReplyIsWritten
<1>3. CASE heard.signature = None
  BY <1>2, <1>3, OutStays DEF Signed
<1>4. CASE heard.signature # None
  <2>1. PICK signature : signature = heard.signature
    OBVIOUS
  <2>2. PICK request : request = Head(batch)
    OBVIOUS
  <2>3. PICK blob : blob = EncodeSignature(signature.raw)
    OBVIOUS
  <2>4. out' = [client |-> serving, request |-> request, origin |-> signature, blob |-> blob,
                bind |-> bind, repaired |-> repaired]
    <3>1. bound[serving] = bind
      BY <1>0, SshAssumption DEF ServingInv, ServedOnce, BindIsOwn
    <3> QED BY <1>4, <2>1, <2>2, <2>3, <3>1 DEF Signed
  <2>5. /\ out'.origin = signature /\ out'.request = request /\ out'.blob = blob
        /\ out'.bind = bind /\ out'.repaired = repaired
    BY <2>4
  <2>6. signature \in Signatures /\ signature.user = AccountOf[signature.data]
    <3>1. heard \in Replies
      BY <1>0 DEF CallingInv, CallsTyped
    <3>2. signature \in Signatures
      BY <1>4, <2>1, <3>1 DEF Replies
    <3> QED BY <3>2 DEF Signatures
  <2>7. /\ signature.data = request.data /\ signature.destination = Destination
        /\ signature.key = request.key \/ repaired
    BY <1>0, <1>4, <2>1, <2>2 DEF CallingInv, AwaitedCallIsTheHeads, Expected
  <2>8. bind # None => bind.forwarding = FALSE
    BY <1>0 DEF ServingInv, WaitsForItsHead
  <2>9. OutIsTraced'
    BY <2>3, <2>5, <2>6 DEF OutIsTraced
  <2>10. SignedAsShown'
    BY <2>5, <2>6, <2>7, <2>8 DEF SignedAsShown, Destination
  <2>11. SignedWithTheKeyAsked'
    BY <2>5, <2>7 DEF SignedWithTheKeyAsked
  <2> QED BY <1>2, <2>9, <2>10, <2>11 DEF OutInv
<1> QED BY <1>3, <1>4

-----------------------------------------------------------------------------
(* The theorems.                                                           *)

LEMMA SessionInit == Init => SessionInv
<1> SUFFICES ASSUME Init PROVE SessionInv
  OBVIOUS
<1>0. \A c \in Clients : /\ inbox[c] = <<>> /\ calls[c] = <<>> /\ replies[c] = <<>>
                         /\ sent[c] = 0 /\ answered[c] = 0 /\ bound[c] = None
  BY DEF Init
<1>1. SocketsTyped /\ SessionTyped /\ WaitsForItsHead /\ BindIsOwn
  <2>1. <<>> \in Seq(Clients) /\ <<>> \in Seq(Messages)
    OBVIOUS
  <2>2. SocketsTyped
    BY <2>1 DEF Init, SocketsTyped
  <2>3. SessionTyped
    BY DEF Init, SessionTyped
  <2>4. WaitsForItsHead /\ BindIsOwn
    BY DEF Init, WaitsForItsHead, BindIsOwn
  <2> QED BY <2>2, <2>3, <2>4
<1>2. ServedOnce
  BY SshAssumption DEF Init, ServedOnce
<1>3. MessagesAreCounted
  <2> SUFFICES ASSUME NEW c \in Clients
               PROVE  answered[c] + Len(inbox[c]) + (IF c = serving THEN Len(batch) ELSE 0) <= sent[c]
    BY DEF Init, MessagesAreCounted
  <2>1. Len(inbox[c]) = 0 /\ answered[c] = 0 /\ sent[c] = 0
    BY <1>0
  <2>2. (IF c = serving THEN Len(batch) ELSE 0) = 0
    BY DEF Init
  <2> QED BY <2>1, <2>2
<1>4. CallsTyped
  BY SshAssumption DEF Init, CallsTyped
<1>5. NewAreFresh /\ IdsAreOlder /\ PromptIsACall /\ AwaitedCallIsTheHeads
  BY <1>0 DEF Init, NewAreFresh, IdsAreOlder, PromptIsACall, AwaitedCallIsTheHeads
<1>6. OutInv
  BY DEF Init, OutInv, OutIsTraced, SignedAsShown, SignedWithTheKeyAsked
<1> QED BY <1>1, <1>2, <1>3, <1>4, <1>5, <1>6 DEF SessionInv, ServingInv, CallingInv

LEMMA SessionNext == SessionInv /\ [Next]_sshVars => SessionInv'
<1> SUFFICES ASSUME SessionInv, [Next]_sshVars PROVE SessionInv'
  OBVIOUS
<1>1. ASSUME NEW c \in Clients, Connect(c) PROVE SessionInv'
  BY <1>1, ConnectKeeps
<1>2. ASSUME NEW c \in Clients, HangUp(c) PROVE SessionInv'
  BY <1>2, HangUpKeeps
<1>3. ASSUME NEW c \in Clients, Thread(c) PROVE SessionInv'
  BY <1>3, RunIdentitiesKeeps, RefuseSignKeeps, AskPhoneKeeps DEF Thread
<1>4. ASSUME NEW c \in Clients, NEW m \in Sends[c], Send(c, m) PROVE SessionInv'
  BY <1>4, SendKeeps
<1>5. CASE Session
  BY <1>5, AcceptKeeps, ReadKeeps, ReadEndKeeps, HandleBindKeeps, HandleUnsupportedKeeps,
     HandleIdentitiesKeeps, HandleSignKeeps, HearKeeps, ListedKeeps, CheckedKeeps, SignedKeeps
     DEF Session
<1>6. CASE GiveUp
  BY <1>6, GiveUpKeeps
<1>7. CASE Approve
  BY <1>7, ApproveKeeps
<1>8. CASE NoSignature
  BY <1>8, NoSignatureKeeps
<1>9. CASE ChangePairings
  BY <1>9, ChangePairingsKeeps
<1>10. CASE UNCHANGED sshVars
  <2>1. UNCHANGED <<backlog, serving, gone, closed, inbox, sent, answered, batch, step, bind, nextId,
                    calls, replies, heard, prompt, store, bound, repaired, out>>
    BY <1>10 DEF sshVars
  <2>2. ServingInv'
    BY <2>1 DEF SessionInv, ServingInv, SocketsTyped, SessionTyped, ServedOnce, MessagesAreCounted,
                WaitsForItsHead, BindIsOwn
  <2> QED BY <2>1, <2>2, CallingStays, OutStays DEF SessionInv
<1> QED BY <1>1, <1>2, <1>3, <1>4, <1>5, <1>6, <1>7, <1>8, <1>9, <1>10 DEF Next

LEMMA SessionAlways == Spec => []SessionInv
<1> QED BY SessionInit, SessionNext, PTL DEF Spec

\* The state has its shape: a connection waits, is served or is closed, the
\* session waits for calls only with a request at hand, and no more is
\* answered than was sent (the accept loop, SshSession::handle).
THEOREM SshTypeCorrect == Spec => []TypeOK
<1>1. SessionInv => TypeOK
  <2> SUFFICES ASSUME SessionInv PROVE TypeOK
    OBVIOUS
  <2>1. /\ step \in {"accept", "read", "list", "check", "sign"}
        /\ serving \in Clients \cup {None} /\ ((serving = None) <=> (step = "accept"))
        /\ store \subseteq Keys
    BY DEF SessionInv, ServingInv, SocketsTyped, SessionTyped, ServedOnce, CallingInv, CallsTyped
  <2>2. serving \notin ToSet(backlog) \cup closed
    BY DEF SessionInv, ServingInv, ServedOnce, ToSet
  <2>3. step \in {"list", "check", "sign"} =>
            batch # <<>> /\ Head(batch).kind = IF step = "list" THEN "identities" ELSE "sign"
    BY DEF SessionInv, ServingInv, WaitsForItsHead
  <2>4. \A c \in Clients : Len(inbox[c]) <= sent[c] /\ answered[c] <= sent[c]
    <3> SUFFICES ASSUME NEW c \in Clients PROVE Len(inbox[c]) <= sent[c] /\ answered[c] <= sent[c]
      OBVIOUS
    <3>1. answered[c] \in Nat /\ sent[c] \in Nat /\ Len(inbox[c]) \in Nat /\ Len(batch) \in Nat
      BY DEF SessionInv, ServingInv, SocketsTyped
    <3>2. answered[c] + Len(inbox[c]) + (IF c = serving THEN Len(batch) ELSE 0) <= sent[c]
      BY DEF SessionInv, ServingInv, MessagesAreCounted
    <3> QED BY <3>1, <3>2
  <2>5. prompt # None => calls[prompt.client] # <<>>
    BY DEF SessionInv, CallingInv, PromptIsACall
  <2> QED BY <2>1, <2>2, <2>3, <2>4, <2>5 DEF TypeOK
<1> QED BY <1>1, SessionAlways, PTL

\* A signature handed to a client is over what it sent, for the account and
\* the destination the user was shown, which is that of its connection's last
\* bind, and never while that bind says the connection is forwarded
\* (SshSession::handle, SshPolicy::decide, account_in_request).
THEOREM SignaturesAreAsShown == Spec => []SignedAsShown
<1>1. SessionInv => SignedAsShown
  BY DEF SessionInv, OutInv
<1> QED BY <1>1, SessionAlways, PTL

\* It is by the key the client named, however replies and prompts of given-up
\* calls arrive, as long as the pairings stay as they were looked up
\* (AgentClient::call, Service::ssh_sign).
THEOREM SignaturesAreByTheKeyAsked == Spec => []SignedWithTheKeyAsked
<1>1. SessionInv => SignedWithTheKeyAsked
  BY DEF SessionInv, OutInv
<1> QED BY <1>1, SessionAlways, PTL

\* A server reads back from it the numbers the phone produced, for every size
\* of byte and scalar (SshWriter::mpint, encode_signature, decode_signature).
THEOREM SignaturesReadBack == Spec => []SignatureReadsBack
<1>1. SessionInv => SignatureReadsBack
  <2> SUFFICES ASSUME SessionInv, out # None
               PROVE  /\ ReadsAsPositive(out.blob.r) /\ ReadsAsPositive(out.blob.s)
                      /\ Decodes(out.blob) /\ DecodeSignature(out.blob) = out.origin.raw
    BY DEF SignatureReadsBack
  <2>1. out.origin \in Signatures /\ out.blob = EncodeSignature(out.origin.raw)
    BY DEF SessionInv, OutInv, OutIsTraced
  <2>2. PICK raw : raw = out.origin.raw
    OBVIOUS
  <2>3. raw \in [r : Scalars, s : Scalars]
    BY <2>1, <2>2, SshAssumption DEF Signatures
  <2>4. PICK r \in Scalars, s \in Scalars : raw = [r |-> r, s |-> s]
    BY <2>3
  <2>5. PICK mr : mr = Mpint(r)
    OBVIOUS
  <2>6. PICK ms : ms = Mpint(s)
    OBVIOUS
  <2>7. out.blob = [r |-> mr, s |-> ms]
    <3>1. raw.r = r /\ raw.s = s
      BY <2>4
    <3>2. out.blob = [r |-> Mpint(raw.r), s |-> Mpint(raw.s)]
      BY <2>1, <2>2 DEF EncodeSignature
    <3> QED BY <2>5, <2>6, <3>1, <3>2
  <2>8. out.blob.r = mr /\ out.blob.s = ms
    BY <2>7
  <2>9. ReadsAsPositive(mr) /\ Len(Trimmed(mr)) <= ScalarLen /\ Padded(mr) = r
    BY <2>5, ScalarReadsBack
  <2>10. ReadsAsPositive(ms) /\ Len(Trimmed(ms)) <= ScalarLen /\ Padded(ms) = s
    BY <2>6, ScalarReadsBack
  <2>11. Decodes(out.blob)
    BY <2>8, <2>9, <2>10 DEF Decodes
  <2>12. DecodeSignature(out.blob) = raw
    BY <2>4, <2>8, <2>9, <2>10 DEF DecodeSignature
  <2> QED BY <2>2, <2>8, <2>9, <2>10, <2>11, <2>12
<1> QED BY <1>1, SessionAlways, PTL
=============================================================================
