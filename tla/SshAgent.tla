------------------------------ MODULE SshAgent ------------------------------
(***************************************************************************)
(* phone-auth-ssh-agent: ssh clients on a socket, served one connection at *)
(* a time; for each a session (ssh_session.rs) with a policy of its own    *)
(* (ssh_policy.rs) and its own connection to the background agent          *)
(* (client.rs), whose thread asks the phone with the service held          *)
(* (Service::ssh_sign, ssh_client.rs, ssh_service.dart).                   *)
(* A message is the request parse() makes of it; the bytes to be signed    *)
(* are a model value, AccountOf what describe() and the phone read in them. *)
(***************************************************************************)
EXTENDS SshWire, SequencesExt, FiniteSets

CONSTANTS Clients,      \* ssh connections
          Keys,         \* SSH credentials a phone may be paired with
          FirstKeys,    \* those of the phones paired when it all begins
          Hosts,        \* fingerprints of host keys
          Data,         \* blobs to sign
          AccountOf,    \* AccountOf[d]: the account d names, or None
          Sends,        \* Sends[c]: the messages client c may send
          TooLong,      \* blobs over MAX_SIGN_DATA_BYTES
          RawOf,        \* RawOf[d]: the signature over d, as r and s
          MaxMessages,  \* MaxMessages[c]: messages client c sends
          MaxPairings,  \* changes of the pairings
          None

VARIABLES backlog,      \* connections the listener has not accepted
          serving,      \* the connection being served, if any
          gone,         \* clients that closed their end
          closed,       \* connections this process closed
          inbox,        \* inbox[c]: messages sent and not read
          sent,         \* sent[c]: messages c has sent
          answered,     \* answered[c]: replies written to c
          batch,        \* messages of the last read, not yet handled
          step,         \* what the session is waiting for
          bind,         \* SshSession.bind
          known,        \* SshPolicy.known
          nextId,       \* the id of the next call to the background agent
          calls,        \* calls[c]: calls the agent's thread for c has to run
          replies,      \* replies[c]: its replies, not yet read
          heard,        \* what the call being waited for came to, if known
          prompt,       \* the request on the phone, which holds the service
          store,        \* SSH credentials of the paired phones
          pairings,     \* changes of the pairings so far
          bound,        \* bound[c]: the last session-bind c sent (history)
          repaired,     \* the pairings changed since the key was looked up
          out           \* the signature just handed out, with its origin

sshVars == <<backlog, serving, gone, closed, inbox, sent, answered, batch, step, bind, known,
             nextId, calls, replies, heard, prompt, store, pairings, bound, repaired, out>>
socketVars == <<backlog, serving, gone, closed, inbox, sent>>
ipcVars == <<nextId, calls, replies, heard>>
storeVars == <<store, pairings>>

IdentitiesRequest == [kind |-> "identities"]
SignRequest(k, d) == [kind |-> "sign", key |-> k, data |-> d]
SessionBind(h, f) == [kind |-> "bind", host |-> h, forwarding |-> f]
Unsupported == [kind |-> "unsupported"]
BadFrame == [kind |-> "bad"]   \* a length of zero, or over MAX_MESSAGE_BYTES

Messages == {IdentitiesRequest, Unsupported, BadFrame}
            \cup {SignRequest(k, d) : k \in Keys, d \in Data}
            \cup {SessionBind(h, f) : h \in Hosts, f \in BOOLEAN}

ASSUME SshAssumption == /\ AccountOf \in [Data -> STRING \cup {None}]
                        /\ TooLong \subseteq Data
                        /\ Sends \in [Clients -> SUBSET Messages]
                        /\ RawOf \in [Data -> [r : Scalars, s : Scalars]]
                        /\ MaxMessages \in [Clients -> Nat] /\ MaxPairings \in Nat
                        /\ IsFiniteSet(Keys) /\ FirstKeys \subseteq Keys
                        /\ None \notin Clients

Init ==
    /\ backlog = <<>> /\ serving = None
    /\ gone = {} /\ closed = {}
    /\ inbox = [c \in Clients |-> <<>>]
    /\ sent = [c \in Clients |-> 0] /\ answered = [c \in Clients |-> 0]
    /\ batch = <<>> /\ step = "accept"
    /\ bind = None /\ known = {}
    /\ nextId = 1
    /\ calls = [c \in Clients |-> <<>>] /\ replies = [c \in Clients |-> <<>>]
    /\ heard = None /\ prompt = None
    /\ store = FirstKeys /\ pairings = 0
    /\ bound = [c \in Clients |-> None]
    /\ repaired = FALSE /\ out = None

-----------------------------------------------------------------------------
(* The clients.                                                            *)

Connected(c) == c \in ToSet(backlog) \/ serving = c

Connect(c) ==
    /\ ~Connected(c) /\ c \notin closed \cup gone
    /\ backlog' = Append(backlog, c)
    /\ UNCHANGED <<serving, gone, closed, inbox, sent, answered, batch, step, bind, known,
                   ipcVars, prompt, storeVars, bound, repaired, out>>

Send(c, m) ==
    /\ Connected(c) /\ c \notin gone /\ sent[c] < MaxMessages[c]
    /\ inbox' = [inbox EXCEPT ![c] = Append(@, m)]
    /\ sent' = [sent EXCEPT ![c] = @ + 1]
    /\ UNCHANGED <<backlog, serving, gone, closed, answered, batch, step, bind, known,
                   ipcVars, prompt, storeVars, bound, repaired, out>>

HangUp(c) ==
    /\ Connected(c) /\ c \notin gone
    /\ gone' = gone \cup {c}
    /\ UNCHANGED <<backlog, serving, closed, inbox, sent, answered, batch, step, bind, known,
                   ipcVars, prompt, storeVars, bound, repaired, out>>

-----------------------------------------------------------------------------
(* The accept loop and the reads.                                          *)

\* One session for all connections: the next one inherits what the last said.
AcceptKeepingSession ==
    /\ step = "accept" /\ backlog # <<>>
    /\ backlog' = Tail(backlog)
    /\ \/ serving' = Head(backlog) /\ step' = "read" /\ UNCHANGED closed
       \/ closed' = closed \cup {Head(backlog)} /\ UNCHANGED <<serving, step>>
    /\ UNCHANGED <<gone, inbox, sent, answered, batch, bind, known,
                   ipcVars, prompt, storeVars, bound, repaired, out>>

\* A new session, with an empty policy, for a new connection; the connection
\* is dropped when the background agent cannot be reached.
Accept ==
    /\ step = "accept" /\ backlog # <<>>
    /\ backlog' = Tail(backlog)
    /\ \/ /\ serving' = Head(backlog) /\ step' = "read"
          /\ bind' = None /\ known' = {}
          /\ nextId' = 1
          /\ UNCHANGED <<closed, inbox>>
       \/ /\ closed' = closed \cup {Head(backlog)}
          /\ inbox' = [inbox EXCEPT ![Head(backlog)] = <<>>]
          /\ UNCHANGED <<serving, step, bind, known, nextId>>
    /\ UNCHANGED <<gone, sent, answered, batch,
                   calls, replies, heard, prompt, storeVars, bound, repaired, out>>

\* The connection ends, with what was not read of it; what its thread in the
\* background agent has begun goes on, but nobody reads its replies.
Close ==
    /\ serving' = None /\ step' = "accept" /\ batch' = <<>>
    /\ closed' = closed \cup {serving}
    /\ replies' = [replies EXCEPT ![serving] = <<>>]
    /\ inbox' = [inbox EXCEPT ![serving] = <<>>]

\* SshFraming::push over one read: the messages it completes, or an error that
\* takes the complete ones of the same read with it.
Read ==
    /\ step = "read" /\ batch = <<>>
    /\ \E n \in 1 .. Len(inbox[serving]) :
          LET messages == SubSeq(inbox[serving], 1, n)
          IN  IF BadFrame \in ToSet(messages)
              THEN Close
              ELSE /\ inbox' = [inbox EXCEPT ![serving] = SubSeq(@, n + 1, Len(@))]
                   /\ batch' = messages /\ UNCHANGED <<serving, step, closed, replies>>
    /\ UNCHANGED <<backlog, gone, sent, answered, bind, known,
                   nextId, calls, heard, prompt, storeVars, bound, repaired>>
    /\ out' = None

ReadEnd ==
    /\ step = "read" /\ batch = <<>> /\ inbox[serving] = <<>> /\ serving \in gone
    /\ Close
    /\ UNCHANGED <<backlog, gone, sent, answered, bind, known,
                   nextId, calls, heard, prompt, storeVars, bound, repaired>>
    /\ out' = None

-----------------------------------------------------------------------------
(* SshSession::handle.                                                     *)

\* The reply to the head of the batch is written, which fails when the client
\* has gone.
Reply ==
    IF serving \in gone
    THEN Close /\ UNCHANGED answered
    ELSE /\ answered' = [answered EXCEPT ![serving] = @ + 1]
         /\ batch' = Tail(batch) /\ step' = "read"
         /\ UNCHANGED <<serving, closed, inbox, replies>>

Heads(kind) == step = "read" /\ batch # <<>> /\ Head(batch).kind = kind

HandleBind ==
    /\ Heads("bind")
    /\ bind' = Head(batch)
    /\ bound' = [bound EXCEPT ![serving] = Head(batch)]
    /\ Reply
    /\ UNCHANGED <<backlog, gone, sent, known, nextId, calls, heard, prompt, storeVars,
                   repaired, out>>

\* Ignored, as something this agent does not do.
HandleUnsupportedSilently ==
    /\ Heads("unsupported")
    /\ batch' = Tail(batch)
    /\ UNCHANGED <<socketVars, answered, step, bind, known,
                   ipcVars, prompt, storeVars, bound, repaired, out>>

HandleUnsupported ==
    /\ Heads("unsupported")
    /\ Reply
    /\ UNCHANGED <<backlog, gone, sent, bind, known,
                   nextId, calls, heard, prompt, storeVars, bound, repaired, out>>

\* SshPolicy::decide.  No rule restricts destinations or allows forwarding:
\* SshPolicy::new() is the policy of every session.
Destination == IF bind = None THEN None ELSE bind.host
Describe(request) == AccountOf[request.data]
Asks(request) ==
    /\ Describe(request) \notin {None, ""}
    /\ bind # None => ~bind.forwarding

\* AgentClient::call: the call is written with the next id.
Call(kind, data) ==
    /\ calls' = [calls EXCEPT ![serving] =
                    Append(@, [id |-> nextId, kind |-> kind, data |-> data,
                               destination |-> Destination])]
    /\ nextId' = nextId + 1
    /\ heard' = None

HandleIdentities ==
    /\ Heads("identities")
    /\ Call("identities", None)
    /\ step' = "list"
    /\ UNCHANGED <<socketVars, answered, batch, bind, known, replies, prompt, storeVars,
                   bound, repaired, out>>

\* A sign request is refused by the policy, or its key is looked up.
HandleSign ==
    /\ Heads("sign")
    /\ \/ /\ Asks(Head(batch))
          /\ Call("identities", None)
          /\ step' = "check" /\ repaired' = FALSE
          /\ UNCHANGED <<socketVars, answered, batch, replies>>
       \/ /\ ~Asks(Head(batch))
          /\ Reply
          /\ UNCHANGED <<backlog, gone, sent, nextId, calls, heard, repaired>>
    /\ UNCHANGED <<bind, known, prompt, storeVars, bound, out>>

Failed(id) == [id |-> id, keys |-> {}, signature |-> None]

\* read_reply: the line with the id of the call is its result, others are
\* skipped.
Hear ==
    /\ step \in {"list", "check", "sign"} /\ heard = None
    /\ replies[serving] # <<>>
    /\ heard' = IF Head(replies[serving]).id = nextId - 1 THEN Head(replies[serving]) ELSE None
    /\ replies' = [replies EXCEPT ![serving] = Tail(@)]
    /\ UNCHANGED <<socketVars, answered, batch, step, bind, known, nextId, calls, prompt,
                   storeVars, bound, repaired, out>>

\* READ_TIMEOUT passes, or the background agent goes away.
GiveUp ==
    /\ step \in {"list", "check", "sign"} /\ heard = None
    /\ heard' = Failed(nextId - 1)
    /\ UNCHANGED <<socketVars, answered, batch, step, bind, known, nextId, calls, replies, prompt,
                   storeVars, bound, repaired, out>>

Listed ==
    /\ step = "list" /\ heard # None
    /\ Reply /\ heard' = None
    /\ UNCHANGED <<backlog, gone, sent, bind, known, nextId, calls, prompt,
                   storeVars, bound, repaired, out>>

\* Any key will do.
AdvertisedAny(key, keys) == keys # {}

Advertised(key, keys) == key \in keys

\* The key has to be one the agent advertises; the call that follows does not
\* name it.
Checked ==
    /\ step = "check" /\ heard # None
    /\ \/ /\ Advertised(Head(batch).key, heard.keys)
          /\ Call("sign", Head(batch).data)
          /\ step' = "sign"
          /\ UNCHANGED <<socketVars, answered, batch, replies>>
       \/ /\ ~Advertised(Head(batch).key, heard.keys)
          /\ Reply /\ heard' = None
          /\ UNCHANGED <<backlog, gone, sent, nextId, calls>>
    /\ UNCHANGED <<bind, known, prompt, storeVars, bound, repaired, out>>

\* A signature is encoded, its destination remembered and the reply written;
\* every refusal is the same failure.
Signed ==
    /\ step = "sign" /\ heard # None
    /\ Reply /\ heard' = None
    /\ LET signature == heard.signature
       IN  IF signature = None
           THEN UNCHANGED <<known, out>>
           ELSE /\ known' = IF bind = None THEN known ELSE known \cup {Destination}
                /\ out' = [client |-> serving, request |-> Head(batch), origin |-> signature,
                           blob |-> EncodeSignature(signature.raw),
                           bind |-> bound[serving], repaired |-> repaired]
    /\ UNCHANGED <<backlog, gone, sent, bind, nextId, calls, prompt,
                   storeVars, bound, repaired>>

-----------------------------------------------------------------------------
(* The background agent's thread for connection c, and the phone.          *)

\* A call has run: its reply goes to whoever still listens.
Ran(c, reply) ==
    /\ calls' = [calls EXCEPT ![c] = Tail(@)]
    /\ replies' = [replies EXCEPT ![c] = IF c \in closed THEN @ ELSE Append(@, reply)]

\* ssh_identities, which needs the service and no phone.
RunIdentities(c) ==
    /\ calls[c] # <<>> /\ Head(calls[c]).kind = "identities" /\ prompt = None
    /\ Ran(c, [id |-> Head(calls[c]).id, keys |-> store, signature |-> None])
    /\ UNCHANGED <<socketVars, answered, batch, step, bind, known, nextId, heard, prompt,
                   storeVars, bound, repaired, out>>

\* ssh_sign before the phone: no credential, several, no session or one that
\* is unsuitable, a blob that is too long.
RefuseSign(c) ==
    /\ calls[c] # <<>> /\ Head(calls[c]).kind = "sign" /\ prompt = None
    /\ Ran(c, Failed(Head(calls[c]).id))
    /\ UNCHANGED <<socketVars, answered, batch, step, bind, known, nextId, heard, prompt,
                   storeVars, bound, repaired, out>>

\* SignRequest::validate.
Fits(data) == data \notin TooLong

\* The only SSH credential is asked, with the service held.
AskPhone(c) ==
    /\ calls[c] # <<>> /\ Head(calls[c]).kind = "sign" /\ prompt = None
    /\ Cardinality(store) = 1 /\ Fits(Head(calls[c]).data)
    /\ prompt' = [client |-> c, key |-> CHOOSE k \in store : TRUE,
                  data |-> Head(calls[c]).data, destination |-> Head(calls[c]).destination]
    /\ UNCHANGED <<socketVars, answered, batch, step, bind, known, ipcVars,
                   storeVars, bound, repaired, out>>

\* account_in_request, on the bytes about to be signed.
Account(data) == AccountOf[data]

\* The answer, with what the screen showed when it was given.
SignResponse == [data |-> prompt.data, key |-> prompt.key, raw |-> RawOf[prompt.data],
                 user |-> Account(prompt.data), destination |-> prompt.destination]

\* The phone reads the account in the blob itself and shows it with the
\* destination it was told; the user approves and the SSH key signs.
Approve ==
    /\ prompt # None /\ Account(prompt.data) # None
    /\ Ran(prompt.client, [id |-> Head(calls[prompt.client]).id, keys |-> {},
                           signature |-> SignResponse])
    /\ prompt' = None
    /\ UNCHANGED <<socketVars, answered, batch, step, bind, known, nextId, heard,
                   storeVars, bound, repaired, out>>

\* Anything else: declined, expired, no answer in time, an answer to another
\* request, a session that broke.
NoSignature ==
    /\ prompt # None
    /\ Ran(prompt.client, Failed(Head(calls[prompt.client]).id))
    /\ prompt' = None
    /\ UNCHANGED <<socketVars, answered, batch, step, bind, known, nextId, heard,
                   storeVars, bound, repaired, out>>

\* A phone is paired, forgotten or replaced, which needs the service too.
ChangePairings ==
    /\ prompt = None /\ pairings < MaxPairings
    /\ \E keys \in SUBSET Keys : keys # store /\ store' = keys
    /\ pairings' = pairings + 1
    /\ repaired' = TRUE
    /\ UNCHANGED <<socketVars, answered, batch, step, bind, known, ipcVars, prompt, bound, out>>

-----------------------------------------------------------------------------
Session == \/ Accept \/ Read \/ ReadEnd
           \/ HandleBind \/ HandleUnsupported \/ HandleIdentities \/ HandleSign
           \/ Hear \/ Listed \/ Checked \/ Signed
Thread(c) == RunIdentities(c) \/ RefuseSign(c) \/ AskPhone(c)

Next ==
    \/ \E c \in Clients : \/ Connect(c) \/ HangUp(c) \/ Thread(c)
                          \/ \E m \in Sends[c] : Send(c, m)
    \/ Session \/ GiveUp
    \/ Approve \/ NoSignature
    \/ ChangePairings

\* A client that has its replies closes, as ssh does once it is logged in.
\* The listener serves one connection at a time and sets no limit on a silent
\* one, so nothing less would do.
Satisfied == \E c \in Clients : serving = c /\ sent[c] = answered[c] /\ HangUp(c)

\* The processes run and the phone's time limit fires; that a phone answers or
\* a user approves is not assumed.
Fairness == /\ WF_sshVars(Session)
            /\ \A c \in Clients : WF_sshVars(Thread(c))
            /\ WF_sshVars(NoSignature)
            /\ WF_sshVars(Satisfied)

Spec == Init /\ [][Next]_sshVars
FairSpec == Spec /\ Fairness

-----------------------------------------------------------------------------
(* Properties.                                                             *)

\* The shape of the state: a connection is served, waits or is closed, and the
\* session waits for a call only while the head of its batch needs one.
TypeOK ==
    /\ step \in {"accept", "read", "list", "check", "sign"}
    /\ serving \in Clients \cup {None} /\ (serving = None <=> step = "accept")
    /\ serving \notin ToSet(backlog) \cup closed
    /\ step \in {"list", "check", "sign"} =>
          batch # <<>> /\ Head(batch).kind = IF step = "list" THEN "identities" ELSE "sign"
    /\ \A c \in Clients : Len(inbox[c]) <= sent[c] /\ answered[c] <= sent[c]
    /\ store \subseteq Keys
    /\ prompt # None => calls[prompt.client] # <<>>

\* A signature a client gets is over the bytes it sent, and the screen the user
\* approved named their account and the destination this connection itself was
\* last bound to; while its last bind says it is forwarded it gets none
\* (SshSession, SshPolicy::decide).  Earlier binds count for nothing: one that
\* said it was forwarded and then binds again without saying so is signed for,
\* whatever USAGE says of forwarding.
SignedAsShown ==
    out # None =>
        /\ out.origin.data = out.request.data
        /\ out.origin.user = AccountOf[out.request.data]
        /\ out.origin.destination = IF out.bind = None THEN None ELSE out.bind.host
        /\ out.bind # None => ~out.bind.forwarding

\* It is made with the key the client named, unless the pairings changed
\* between the two calls handle() makes: the second does not name the key.
SignedWithTheKeyAsked ==
    out # None => out.origin.key = out.request.key \/ out.repaired

\* A server reads in it exactly the numbers the phone produced, and neither as
\* negative (SshWriter::mpint, decode_signature).
SignatureReadsBack ==
    out # None => /\ ReadsAsPositive(out.blob.r) /\ ReadsAsPositive(out.blob.s)
                  /\ Decodes(out.blob) /\ DecodeSignature(out.blob) = out.origin.raw

\* Whatever a connected client asks is answered or its connection closed, in
\* its turn: also what this agent does not do, also when the phone is silent,
\* also behind the calls of a connection that went away.
AnsweredInTurn ==
    \A c \in Clients :
        (Connected(c) /\ sent[c] > answered[c]) ~> (sent[c] = answered[c] \/ c \in closed)
=============================================================================
