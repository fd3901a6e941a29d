---------------------------- MODULE AgentService ----------------------------
(***************************************************************************)
(* The desktop agent around the verifier: IPC connections (ipc.rs), each   *)
(* on its own thread, and the Service behind one mutex (service.rs).  A    *)
(* call waits for the mutex and keeps it until its reply is decided, so    *)
(* `authorize` holds it while the phone is being asked.                    *)
(*                                                                         *)
(* Composes Verifier: its issue() and accept() are steps of authorize, and *)
(* its store changes are the calls of the other threads.  Transport        *)
(* sessions come from the pool (see QrNetwork): a session is authenticated *)
(* as one device, is handed out once, and is closed after the exchange.    *)
(* The code between two blocking points runs under the mutex and is one    *)
(* step.  A refused line or token closes the connection before dispatch    *)
(* and changes nothing here.                                               *)
(***************************************************************************)
EXTENDS Verifier

CONSTANTS
    Threads,            \* IPC connection threads; each makes one call
    CallsOf,            \* thread -> the calls its client may make
    PeerOf              \* Sessions -> DeviceIds: whom the handshake authenticated

VARIABLES
    mutex,              \* the thread holding Mutex<Service>, or NoThread
    phase,              \* thread -> "reading" | "queued" | "connecting" |
                        \*           "issuing" | "asking" | "replied"
    call,               \* thread -> the call it dispatched
    job,                \* what the running authorize() holds
    spent,              \* sessions the pool has handed out
    started,            \* RequestStarted events, by id
    finished,           \* RequestFinished events: <<request_id, granted>>
    audit,              \* audit log: <<request_id, outcome>>
    unlogged            \* ids whose audit append reported an error

reported == <<started, finished, audit, unlogged>>
agentVars == <<mutex, phase, call, job, spent, reported>>
allVars == <<vars, agentVars>>

NoThread == "nobody"
NoCall == [op |-> "none"]
NoCredential == "any"
NoJob == [device |-> "none", credential_id |-> "none", session |-> "none"]

(* What parsing a line makes of a client's call, and what is on the wire.  *)
ASSUME CallsAssumption ==
    /\ NoThread \notin Threads
    /\ PeerOf \in [Sessions -> DeviceIds]
    /\ \A t \in Threads : \A c \in CallsOf[t] :
         \/ c.op = "authorize" /\ c.fields \in Fields
         \/ c.op = "set_permissions" /\ c.device \in DeviceIds
               /\ c.credential_id \in CredentialIds /\ c.permissions \in SUBSET Permissions
         \/ c.op = "forget" /\ c.device \in DeviceIds
         \/ c.op = "confirm_pairing" /\ <<c.device, c.credential>> \in Enrolments

AgentInit ==
    /\ Init
    /\ mutex = NoThread
    /\ phase = [t \in Threads |-> "reading"]
    /\ call = [t \in Threads |-> NoCall]
    /\ job = NoJob /\ spent = {}
    /\ started = {} /\ finished = {} /\ audit = {} /\ unlogged = {}

-----------------------------------------------------------------------------
(* ipc::serve_connection: a trusted line is dispatched and now waits for   *)
(* the service mutex.                                                      *)
Dispatch(t, c) ==
    /\ phase[t] = "reading"
    /\ phase' = [phase EXCEPT ![t] = "queued"]
    /\ call' = [call EXCEPT ![t] = c]
    /\ UNCHANGED <<vars, mutex, job, spent, reported>>

(* Mutant of Queued: calls do not wait for the mutex. *)
QueuedWithoutMutex(t, op) == phase[t] = "queued" /\ call[t].op = op

Queued(t, op) == mutex = NoThread /\ phase[t] = "queued" /\ call[t].op = op

Reply(t) == phase' = [phase EXCEPT ![t] = "replied"]

(* The calls that change the store and return: the mutex is taken and      *)
(* released in one step.  A refusal changes nothing but still answers.     *)
RunSetPermissions(t) ==
    /\ Queued(t, "set_permissions")
    /\ LET c == call[t] IN
        \/ SetPermissions(c.device, c.credential_id, c.permissions)
        \/ ~KnownCredential(c.device, c.credential_id) /\ UNCHANGED vars
    /\ Reply(t)
    /\ UNCHANGED <<mutex, call, job, spent, reported>>

RunForget(t) ==
    /\ Queued(t, "forget")
    /\ \/ Forget(call[t].device)
       \/ ~Paired(devices, call[t].device) /\ UNCHANGED vars
    /\ Reply(t)
    /\ UNCHANGED <<mutex, call, job, spent, reported>>

RunConfirmPairing(t) ==
    /\ Queued(t, "confirm_pairing")
    /\ LET c == call[t] IN
        \/ Pair(c.device, c.credential)
        \/ Conflicts(devices, c.device, {c.credential}) /\ UNCHANGED vars
    /\ Reply(t)
    /\ UNCHANGED <<mutex, call, job, spent, reported>>

-----------------------------------------------------------------------------
(* Service::authorize *)

(* Service::select_credential: the one the caller named, or the only one   *)
(* that could serve the request.                                           *)
Candidates(c) ==
    {x \in DeviceIds \X CredentialIds : \E cred \in devices[x[1]] :
        /\ cred.credential_id = x[2]
        /\ IF c.credential_id # NoCredential THEN x[2] = c.credential_id
           ELSE /\ cred.purpose = for_service(c.fields.service)
                /\ permits(cred.permissions, c.fields)}

(* Take the mutex and select; without exactly one candidate the call is    *)
(* refused before any phone is asked.                                      *)
StartAuthorize(t) ==
    /\ Queued(t, "authorize")
    /\ LET found == Candidates(call[t]) IN
        \/ /\ Cardinality(found) = 1
           /\ mutex' = t
           /\ phase' = [phase EXCEPT ![t] = "connecting"]
           /\ \E x \in found :
                job' = [device |-> x[1], credential_id |-> x[2], session |-> "none"]
        \/ /\ Cardinality(found) # 1
           /\ Reply(t)
           /\ UNCHANGED <<mutex, job>>
    /\ UNCHANGED <<vars, call, spent, reported>>

(* Mutant of Leave: one way out keeps the mutex. *)
LeaveLocked(t) ==
    /\ job' = NoJob
    /\ Reply(t)
    /\ UNCHANGED mutex

(* Whatever way authorize() ends: the job is dropped, the mutex released   *)
(* and the caller answered.                                                *)
Leave(t) ==
    /\ mutex' = NoThread
    /\ job' = NoJob
    /\ Reply(t)

(* TransportRegistry::connect: a parked session of that device, or         *)
(* "no-transport".                                                         *)
Connect(t) ==
    /\ mutex = t /\ phase[t] = "connecting"
    /\ \/ \E s \in Sessions \ spent :
            /\ PeerOf[s] = job.device
            /\ spent' = spent \cup {s}
            /\ job' = [job EXCEPT !.session = s]
            /\ phase' = [phase EXCEPT ![t] = "issuing"]
            /\ UNCHANGED mutex
       \/ Leave(t) /\ UNCHANGED spent
    /\ UNCHANGED <<vars, call, reported>>

(* Verifier::issue, then Event::RequestStarted. *)
IssueRequest(t, id, v) ==
    /\ mutex = t /\ phase[t] = "issuing"
    /\ Issue(id, job.credential_id, call[t].fields, v, job.session)
    /\ started' = started \cup {id}
    /\ phase' = [phase EXCEPT ![t] = "asking"]
    /\ UNCHANGED <<mutex, call, job, spent, finished, audit, unlogged>>

IssueRefused(t) ==
    /\ mutex = t /\ phase[t] = "issuing"
    /\ ~Issuable(job.credential_id, call[t].fields, job.session)
    /\ Leave(t)
    /\ UNCHANGED <<vars, call, spent, reported>>

(* AuditLog::append, of which authorize() only prints an error.  One may   *)
(* come before the line is written (no space, no permission) or after it   *)
(* (trimming failed), so the entry may be there or not.                    *)
Record(entry) ==
    \/ audit' = audit \cup {entry} /\ UNCHANGED unlogged
    \/ audit' \in {audit, audit \cup {entry}} /\ unlogged' = unlogged \cup {entry[1]}

(* The tail of authorize(): session.close, an audit entry, one             *)
(* RequestFinished whatever became of the entry, and the reply.            *)
Conclude(t, r, outcome) ==
    /\ Record(<<r.request_id, outcome>>)
    /\ finished' = finished \cup {<<r.request_id, outcome = "granted">>}
    /\ Leave(t)

(* How authorize() reports what accept() returned. *)
Outcome(r, f) ==
    IF grants' # grants THEN "granted"
    ELSE IF judged' # judged /\ ~is_expired_at(r, now) /\ f.decision = "Denied"
         THEN "denied" ELSE "failed"

(* exchange(): a frame arrived in time and accept() judges it.  accept()   *)
(* consumes the PendingAuthorization, and no clone of it is kept.          *)
Answered(t, r, f) ==
    /\ mutex = t /\ phase[t] = "asking"
    /\ Accept(r, f, job.session)
    /\ pending' = pending \ {r}
    /\ Conclude(t, r, Outcome(r, f))
    /\ UNCHANGED <<call, spent, started>>

(* Mutant of Unanswered: the error returns before the tail. *)
UnansweredReturnsEarly(t, r) ==
    /\ mutex = t /\ phase[t] = "asking"
    /\ pending' = pending \ {r}
    /\ Leave(t)
    /\ UNCHANGED <<now, devices, seen, order, issued, signatures, judged, grants,
                   call, spent, reported>>

(* exchange(): sending failed, the link dropped, or nothing came within    *)
(* the validity window plus ANSWER_TRAVEL_MARGIN.                          *)
Unanswered(t, r) ==
    /\ mutex = t /\ phase[t] = "asking"
    /\ pending' = pending \ {r}
    /\ Conclude(t, r, "failed")
    /\ UNCHANGED <<now, devices, seen, order, issued, signatures, judged, grants,
                   call, spent, started>>

-----------------------------------------------------------------------------
(* The user approves on a phone what the agent asked over the session. *)
Approve(key) ==
    /\ \E r \in pending : Sign(key, r)
    /\ UNCHANGED agentVars

Clock == ClockMoves /\ UNCHANGED agentVars

ThreadStep(t) ==
    \/ RunSetPermissions(t) \/ RunForget(t) \/ RunConfirmPairing(t)
    \/ StartAuthorize(t) \/ Connect(t) \/ IssueRefused(t)
    \/ \E id \in RequestIds, v \in Validities : IssueRequest(t, id, v)
    \/ \E r \in pending : Unanswered(t, r) \/ \E f \in Frame : Answered(t, r, f)

AgentNext ==
    \/ \E t \in Threads : \E c \in CallsOf[t] : Dispatch(t, c)
    \/ \E t \in Threads : ThreadStep(t)
    \/ \E key \in Keys : Approve(key)
    \/ Clock

(* A thread that can go on does: every wait in authorize() is bounded by a *)
(* timeout, and a released mutex goes to some waiter.  Nothing is assumed  *)
(* of phones, clients or the clock.                                        *)
AgentFairness == \A t \in Threads : WF_allVars(ThreadStep(t))

AgentSpec == AgentInit /\ [][AgentNext]_allVars /\ AgentFairness

-----------------------------------------------------------------------------
AgentTypeOK ==
    /\ TypeOK
    /\ mutex \in Threads \cup {NoThread}
    /\ phase \in [Threads -> {"reading", "queued", "connecting", "issuing", "asking", "replied"}]
    /\ \A t \in Threads : call[t] \in CallsOf[t] \cup {NoCall}
    /\ job \in [device : DeviceIds \cup {"none"}, credential_id : CredentialIds \cup {"none"},
               session : Sessions \cup {"none"}]
    /\ spent \subseteq Sessions
    /\ started \subseteq RequestIds /\ unlogged \subseteq RequestIds
    /\ finished \subseteq RequestIds \X BOOLEAN
    /\ audit \subseteq RequestIds \X {"granted", "denied", "failed"}

(* Everything issue() checked still holds when the grant is made: purpose, *)
(* a hardware key and a real transport for disk unlock, the policy.        *)
(* accept() does not re-check the purpose, the key kind or the transport;  *)
(* that they cannot have changed (a device forgotten and paired again      *)
(* under the same credential id) rests on the mutex being held across the  *)
(* exchange (ipc.rs, "authorize").                                         *)
GrantStillIssuable ==
    [][\A g \in NewGrants :
          Issuable(g.request.credential_id, g.request.fields, g.session)]_allVars

(* The credential that signed belongs to the phone the session was         *)
(* authenticated as: an answer over one phone's session never grants with  *)
(* another phone's key, though accept() compares neither.                  *)
GrantOverOwnSession == \A g \in grants : PeerOf[g.session] = g.device

(* Clients see every prompt end, and are told what was decided: whenever   *)
(* nobody holds the mutex each RequestStarted has had exactly one          *)
(* RequestFinished, which says granted exactly for the requests that were  *)
(* granted, also when the audit log could not be written.  The log never   *)
(* says anything else: an entry is of a finished request, the only one of  *)
(* that request, and agrees with its event.  It may be missing only where  *)
(* its append failed: authorize() prints that error and goes on, as a      *)
(* decision already made on a phone is not undone for it.                  *)
PromptsAreAccounted ==
    /\ \A e \in finished : e[1] \in started
    /\ mutex = NoThread =>
          pending = {} /\ \A i \in started : \E e \in finished : e[1] = i
    /\ \A d, e \in finished : d[1] = e[1] => d = e
    /\ \A e \in finished : e[2] <=> \E g \in grants : g.request.request_id = e[1]
    /\ \A a, b \in audit : a[1] = b[1] => a = b
    /\ \A a \in audit : <<a[1], a[2] = "granted">> \in finished
    /\ \A e \in finished : e[1] \in unlogged \/ \E a \in audit : a[1] = e[1]

(* Every call is answered, though a phone may never answer and the mutex   *)
(* is held while it is asked.                                              *)
EveryCallIsAnswered ==
    \A t \in Threads : phase[t] = "queued" ~> phase[t] = "replied"

(* The agent keeps the authorization contract. *)
Contract == INSTANCE AuthorizationContract WITH
    Requests <- RequestIds,
    status <- [i \in RequestIds |->
                 IF <<i, TRUE>> \in finished THEN "granted"
                 ELSE IF <<i, FALSE>> \in finished THEN "refused"
                 ELSE IF i \in started THEN "asked" ELSE "none"],
    approved <- {x.payload.request_id : x \in signatures}

(* Requests are asked one at a time, settled exactly once, granted only if *)
(* approved, and always settled: AuthorizationContract, with the events    *)
(* of service.rs as its state.                                             *)
KeepsContract == Contract!Spec
=============================================================================
