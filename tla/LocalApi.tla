------------------------------ MODULE LocalApi ------------------------------
(***************************************************************************)
(* The agent's local endpoint (ipc.rs) and the browser relay behind it     *)
(* (Service::perform_webauthn): one thread per connection, one mutex around *)
(* the service, the table of cancelled browser requests beside that mutex, *)
(* and the event subscriptions with a pump thread each.  Methods that only *)
(* read the service, or change it without a phone, differ in whether they  *)
(* raise an event; the modules for those operations say what else they do. *)
(***************************************************************************)
EXTENDS Integers, Sequences, FiniteSets, Selection

CONSTANTS Conns,        \* connections, one thread of the agent each
          Requests,     \* ids of browser requests
          Makes,        \* Makes[c]: the calls the client of c may make
          MaxCancelled, \* entries the table of cancellations holds (128)
          MaxCalls,     \* MaxCalls[c]: calls the client of c makes
          MaxPolls,     \* waits of 250 ms before WEBAUTHN_TIMEOUT
          None

VARIABLES pc,           \* pc[c]: where the thread of connection c is
          trusted,      \* trusted[c]: a call of c carried the token
          handled,      \* handled[c]: the call being handled
          calls,        \* calls[c]: calls made so far
          gone,         \* gone[c]: the client closed its end
          fed,          \* fed[c]: something that is no call came within the
                        \*   present first-call window
          service,      \* the connection holding the service, if any
          polls,        \* waits the relay has spent on the current request
          cancelled,    \* the table, oldest entry first
          aged,         \* the entries of the table that are past 300 s
          newer,        \* newer[r]: cancel calls since r was cancelled and
                        \*   not yet honoured; None otherwise
          subscribers,  \* connections the service sends events to
          registered,   \* connections that subscribed at some time
          pump,         \* connections whose pump thread runs
          queue         \* queue[c]: events not yet written to c

localVars == <<pc, trusted, handled, calls, gone, fed, service, polls, cancelled, aged, newer,
               subscribers, registered, pump, queue>>
tableVars == <<cancelled, aged, newer>>
eventVars == <<subscribers, registered, pump, queue>>

Plain(kind) == [kind |-> kind, req |-> None]
Perform(r) == [kind |-> "perform", req |-> r]
CancelOf(r) == [kind |-> "cancel", req |-> r]
Calls == {Plain(k) : k \in {"read", "change", "subscribe"}}
         \cup {Perform(r) : r \in Requests} \cup {CancelOf(r) : r \in Requests}

ASSUME LocalAssumption == /\ None \notin Conns \cup Requests \cup Nat
                          /\ Makes \in [Conns -> SUBSET Calls]
                          /\ MaxCancelled \in Nat \ {0}
                          /\ MaxCalls \in [Conns -> Nat] /\ MaxPolls \in Nat

Entries == {cancelled[i] : i \in DOMAIN cancelled}

\* What is left of a table without some of its entries.
Without(table, out) == Kept(table, {i \in DOMAIN table : table[i] \notin out})

ApiInit ==
    /\ pc = [c \in Conns |-> "read"]
    /\ trusted = [c \in Conns |-> FALSE]
    /\ handled = [c \in Conns |-> Plain("read")]
    /\ calls = [c \in Conns |-> 0]
    /\ gone = [c \in Conns |-> FALSE]
    /\ fed = [c \in Conns |-> FALSE]
    /\ service = None
    /\ polls = 0
    /\ cancelled = <<>> /\ aged = {}
    /\ newer = [r \in Requests |-> None]
    /\ subscribers = {} /\ registered = {} /\ pump = {}
    /\ queue = [c \in Conns |-> 0]

Goto(c, where) == pc' = [pc EXCEPT ![c] = where]

\* The call is done with, and its reply is to be written.
Replied(c) ==
    /\ Goto(c, "reply")
    /\ handled' = [handled EXCEPT ![c] = Plain("read")]

-----------------------------------------------------------------------------
(* The connection's thread.                                                *)

\* The client closes its end, or gives up waiting for a reply and exits.
HangUp(c) ==
    /\ (pc[c] # "closed" \/ c \in pump) /\ ~gone[c]
    /\ gone' = [gone EXCEPT ![c] = TRUE]
    /\ fed' = [fed EXCEPT ![c] = FALSE]
    /\ UNCHANGED <<pc, trusted, handled, calls, service, polls, tableVars, eventVars>>

\* A line that carries the token lifts the first-call window for good.
ReadCall(c, m) ==
    /\ pc[c] = "read" /\ ~gone[c] /\ calls[c] < MaxCalls[c]
    /\ trusted' = [trusted EXCEPT ![c] = TRUE]
    /\ handled' = [handled EXCEPT ![c] = m]
    /\ calls' = [calls EXCEPT ![c] = @ + 1]
    /\ fed' = [fed EXCEPT ![c] = FALSE]
    /\ Goto(c, IF m.kind = "cancel" THEN "cancel" ELSE "lock")
    /\ UNCHANGED <<gone, service, polls, tableVars, eventVars>>

\* A line that is too long, does not parse or carries another token ends the
\* connection.  A stranger's empty socket takes the line that says so; another
\* client may keep the thread waiting here until it reads it, as it may before
\* it sends a line.
BadLine(c) ==
    /\ pc[c] = "read" /\ ~gone[c]
    /\ Goto(c, "leave")
    /\ fed' = [fed EXCEPT ![c] = FALSE]
    /\ UNCHANGED <<trusted, handled, calls, gone, service, polls, tableVars, eventVars>>

\* A blank line or a piece of one.  The window is a timeout of each read, so
\* it begins anew; a line that never ends is a BadLine in the end.
Feed(c) ==
    /\ pc[c] = "read" /\ ~gone[c] /\ ~trusted[c]
    /\ fed' = [fed EXCEPT ![c] = TRUE]
    /\ UNCHANGED <<pc, trusted, handled, calls, gone, service, polls, tableVars, eventVars>>

WindowRuns(c) ==
    /\ pc[c] = "read" /\ ~trusted[c] /\ fed[c]
    /\ fed' = [fed EXCEPT ![c] = FALSE]
    /\ UNCHANGED <<pc, trusted, handled, calls, gone, service, polls, tableVars, eventVars>>

\* End of file and, before the first good call, a window of silence.
StopReading(c) ==
    /\ pc[c] = "read"
    /\ gone[c] \/ ~(trusted[c] \/ fed[c])
    /\ Goto(c, "leave")
    /\ UNCHANGED <<trusted, handled, calls, gone, fed, service, polls, tableVars, eventVars>>

\* write_line has no deadline: a reply goes out when the client reads what is
\* before it.
ReplyRead(c) ==
    /\ pc[c] = "reply" /\ ~gone[c]
    /\ Goto(c, "read")
    /\ UNCHANGED <<trusted, handled, calls, gone, fed, service, polls, tableVars, eventVars>>

\* Nobody is left to write it to.
ReplyFails(c) ==
    /\ pc[c] = "reply" /\ gone[c]
    /\ Goto(c, "leave")
    /\ UNCHANGED <<trusted, handled, calls, gone, fed, service, polls, tableVars, eventVars>>

\* A thread that ends without taking its subscriptions back.
LeaveKeeping(c) ==
    /\ pc[c] = "leave" /\ Goto(c, "closed")
    /\ UNCHANGED <<trusted, handled, calls, gone, fed, service, polls, tableVars, eventVars>>

\* handle_connection takes the subscriptions back on every way out, which
\* needs the service when there are any.
LeaveConn(c) ==
    /\ pc[c] = "leave"
    /\ c \in registered => service = None
    /\ subscribers' = subscribers \ {c}
    /\ Goto(c, "closed")
    /\ UNCHANGED <<trusted, handled, calls, gone, fed, service, polls, tableVars, registered, pump, queue>>

-----------------------------------------------------------------------------
(* Calls that take the service mutex; one that asks no phone gives it back *)
(* before anything else can be told.                                       *)

Locks(c, kind) == pc[c] = "lock" /\ handled[c].kind = kind /\ service = None

RunRead(c) ==
    /\ Locks(c, "read") /\ Replied(c)
    /\ UNCHANGED <<trusted, calls, gone, fed, service, polls, tableVars, eventVars>>

RunChange(c) ==
    /\ Locks(c, "change")
    /\ service' = c
    /\ Goto(c, "broadcast")
    /\ UNCHANGED <<trusted, handled, calls, gone, fed, polls, tableVars, eventVars>>

\* broadcast(): every subscriber whose pump still listens gets the event, the
\* others are dropped.  The channel has no bound, so nobody is waited for.
Broadcast(c) ==
    /\ pc[c] = "broadcast"
    /\ subscribers' = subscribers \cap pump
    /\ queue' = [s \in Conns |-> queue[s] + IF s \in subscribers' THEN 1 ELSE 0]
    /\ service' = None /\ Replied(c)
    /\ UNCHANGED <<trusted, calls, gone, fed, polls, tableVars, registered, pump>>

RunSubscribe(c) ==
    /\ Locks(c, "subscribe") /\ Replied(c)
    /\ subscribers' = subscribers \cup {c}
    /\ registered' = registered \cup {c}
    /\ pump' = pump \cup {c}
    /\ UNCHANGED <<trusted, calls, gone, fed, service, polls, tableVars, queue>>

\* A pump writes an event when its client reads, and ends when the write
\* fails or the service has dropped its sender.
WriteEvent(c) ==
    /\ c \in pump /\ queue[c] > 0 /\ ~gone[c]
    /\ queue' = [queue EXCEPT ![c] = @ - 1]
    /\ UNCHANGED <<pc, trusted, handled, calls, gone, fed, service, polls, tableVars, subscribers, registered, pump>>

PumpEnds(c) ==
    /\ c \in pump
    /\ \/ queue[c] > 0 /\ gone[c]
       \/ queue[c] = 0 /\ c \notin subscribers
    /\ pump' = pump \ {c}
    /\ queue' = [queue EXCEPT ![c] = 0]
    /\ UNCHANGED <<pc, trusted, handled, calls, gone, fed, service, polls, tableVars, subscribers, registered>>

-----------------------------------------------------------------------------
(* The browser relay: perform_webauthn with the mutex held throughout.     *)

\* Refused before anything is sent: the request is malformed, no credential
\* or no session answers for it, or the session is unsuitable.
RefusePerform(c) ==
    /\ Locks(c, "perform") /\ Replied(c)
    /\ UNCHANGED <<trusted, calls, gone, fed, service, polls, tableVars, eventVars>>

SendRequest(c) ==
    /\ Locks(c, "perform")
    /\ service' = c
    /\ polls' = 0
    /\ Goto(c, "check")
    /\ UNCHANGED <<trusted, handled, calls, gone, fed, tableVars, eventVars>>

\* take_webauthn_cancellation.
Take(r) ==
    /\ cancelled' = Without(cancelled, {r})
    /\ aged' = aged \ {r}
    /\ newer' = [newer EXCEPT ![r] = None]

\* A deadline set anew on every turn of the loop.
CheckRestarting(c) ==
    /\ pc[c] = "check"
    /\ \/ /\ handled[c].req \in Entries
          /\ Take(handled[c].req) /\ Goto(c, "finish")
       \/ /\ handled[c].req \notin Entries
          /\ Goto(c, "receive") /\ UNCHANGED tableVars
    /\ polls' = 0
    /\ UNCHANGED <<trusted, handled, calls, gone, fed, service, eventVars>>

\* The head of the loop: a cancellation ends it, and so does the deadline,
\* each telling the phone; otherwise it waits for the phone once more.
Check(c) ==
    /\ pc[c] = "check"
    /\ \/ /\ handled[c].req \in Entries
          /\ Take(handled[c].req) /\ Goto(c, "finish")
       \/ /\ handled[c].req \notin Entries /\ polls = MaxPolls
          /\ Goto(c, "finish") /\ UNCHANGED tableVars
       \/ /\ handled[c].req \notin Entries /\ polls < MaxPolls
          /\ Goto(c, "receive") /\ UNCHANGED tableVars
    /\ UNCHANGED <<trusted, handled, calls, gone, fed, service, polls, eventVars>>

\* The phone is silent for 250 ms.
NothingYet(c) ==
    /\ pc[c] = "receive"
    /\ polls' = polls + 1
    /\ Goto(c, "check")
    /\ UNCHANGED <<trusted, handled, calls, gone, fed, service, tableVars, eventVars>>

\* The phone accepts, declines or answers something else, or the session
\* breaks: whichever it is, the wait is over.
Hear(c) ==
    /\ pc[c] = "receive"
    /\ Goto(c, "finish")
    /\ UNCHANGED <<trusted, handled, calls, gone, fed, service, polls, tableVars, eventVars>>

\* A cancellation that came too late for this request must not meet the next
\* one with its id; then the session is closed and the result recorded.
Finish(c) ==
    /\ pc[c] = "finish"
    /\ Take(handled[c].req)
    /\ service' = None /\ Replied(c)
    /\ UNCHANGED <<trusted, calls, gone, fed, polls, eventVars>>

-----------------------------------------------------------------------------
(* Cancellation, beside the mutex.                                         *)

\* A full table drops its oldest entry.
RoomFor(table) == IF Len(table) >= MaxCancelled THEN Tail(table) ELSE table

\* Room is made after the entry, which may be the one that goes.
CancelThenRoom(c) ==
    /\ pc[c] = "cancel"
    /\ LET r == handled[c].req
           kept == Without(cancelled, aged)
       IN  /\ cancelled' = RoomFor(Append(Without(kept, {r}), r))
           /\ aged' = {}
           /\ newer' = [q \in Requests |->
                           IF q = r THEN 0
                           ELSE IF newer[q] = None \/ q \in aged THEN None
                           ELSE newer[q] + 1]
    /\ Replied(c)
    /\ UNCHANGED <<trusted, calls, gone, fed, service, polls, eventVars>>

\* cancel_webauthn: entries past their age go, then the oldest if the table
\* is full, then the request is entered with the present time.
Cancel(c) ==
    /\ pc[c] = "cancel"
    /\ LET r == handled[c].req
           kept == RoomFor(Without(cancelled, aged))
       IN  /\ cancelled' = Append(Without(kept, {r}), r)
           /\ aged' = {}
           /\ newer' = [q \in Requests |->
                           IF q = r THEN 0
                           ELSE IF newer[q] = None \/ q \in aged THEN None
                           ELSE newer[q] + 1]
    /\ Replied(c)
    /\ UNCHANGED <<trusted, calls, gone, fed, service, polls, eventVars>>

\* Five minutes pass for everything in the table.
Age ==
    /\ aged # Entries
    /\ aged' = Entries
    /\ UNCHANGED <<pc, trusted, handled, calls, gone, fed, service, polls, cancelled, newer, eventVars>>

-----------------------------------------------------------------------------
Serve(c) ==
    \/ WindowRuns(c) \/ StopReading(c) \/ ReplyFails(c) \/ LeaveConn(c)
    \/ RunRead(c) \/ RunChange(c) \/ Broadcast(c) \/ RunSubscribe(c)
    \/ RefusePerform(c) \/ SendRequest(c) \/ Check(c) \/ NothingYet(c) \/ Finish(c)
    \/ Cancel(c)

ApiNext ==
    \/ \E c \in Conns : \/ Serve(c) \/ PumpEnds(c)
                        \/ HangUp(c) \/ BadLine(c) \/ Feed(c) \/ ReplyRead(c)
                        \/ WriteEvent(c) \/ Hear(c)
                        \/ \E m \in Makes[c] : ReadCall(c, m)
    \/ Age

\* Every thread of the agent runs, and its timers fire.  Nothing is assumed of
\* clients, of phones, or of a client reading its replies and events.
ApiFairness == \A c \in Conns : WF_localVars(Serve(c)) /\ WF_localVars(PumpEnds(c))

ApiSpec == ApiInit /\ [][ApiNext]_localVars
ApiFairSpec == ApiSpec /\ ApiFairness

-----------------------------------------------------------------------------
(* Properties.                                                             *)

Holding == {"broadcast", "check", "receive", "finish"}
Outside == {"read", "lock", "cancel", "reply", "leave", "closed"}

\* The shape of the state, and that the service is held by exactly the thread
\* that is inside it.
ApiTypeOK ==
    /\ \A c \in Conns : /\ pc[c] \in Outside \cup Holding
                        /\ pc[c] \in Holding <=> service = c
                        /\ handled[c] \in Calls
    /\ polls \in 0 .. MaxPolls
    /\ Len(cancelled) = Cardinality(Entries)
    /\ Entries \subseteq Requests /\ aged \subseteq Entries
    /\ subscribers \subseteq registered /\ pump \subseteq registered

\* cancel_webauthn's bound loses a cancellation nobody has acted on only when
\* at least as many cancel calls came after it as the table has room for.
CancelNotLost ==
    \A r \in Requests : newer[r] # None => r \in Entries \/ newer[r] >= MaxCancelled

\* The mutex every login waits for is given back whatever the phone or any
\* client does: perform_webauthn's deadline ends a silent phone's request, and
\* a client that stops reading its answers or events delays only its own
\* threads (write_line, broadcast).
ServiceIsReleased == (service # None) ~> (service = None)

Silent(c) == pc[c] = "read" /\ ~trusted[c] /\ ~fed[c]
Heeded(c) == ~gone[c] /\ (trusted[c] \/ fed[c])
Released(c) == pc[c] = "closed" /\ c \notin subscribers \cup pump

\* A connection whose client went away, or that stays silent without having
\* shown the token, ends, and takes its subscription and its pump thread with
\* it (handle_connection).  Excepted is what FIRST_CALL_WINDOW does not bound:
\* a client that sends a blank line or a piece of one in every window, and one
\* with the token that does not read its answers, keep their threads as long
\* as they stay.
NeglectedIsReleased ==
    \A c \in Conns : (gone[c] \/ Silent(c)) ~> (Released(c) \/ Heeded(c))
=============================================================================
