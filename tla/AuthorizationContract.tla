------------------------ MODULE AuthorizationContract ------------------------
(***************************************************************************)
(* What the desktop agent promises about authorization requests, without   *)
(* saying how: requests are put to a phone one at a time, each is settled  *)
(* exactly once, a request is granted only if it was approved on a phone,  *)
(* and every request is settled eventually.  AgentService implements it.   *)
(***************************************************************************)
CONSTANTS Requests

VARIABLES
    status,         \* Requests -> "none" | "asked" | "granted" | "refused"
    approved        \* requests some phone approved

Init ==
    /\ status = [i \in Requests |-> "none"]
    /\ approved = {}

Ask(i) ==
    /\ status[i] = "none"
    /\ \A j \in Requests : status[j] # "asked"
    /\ status' = [status EXCEPT ![i] = "asked"]
    /\ UNCHANGED approved

(* The phone may approve a request that is no longer waited for. *)
Approve(i) ==
    /\ status[i] # "none"
    /\ approved' = approved \cup {i}
    /\ UNCHANGED status

Settle(i) ==
    /\ status[i] = "asked"
    /\ \/ status' = [status EXCEPT ![i] = "refused"]
       \/ i \in approved /\ status' = [status EXCEPT ![i] = "granted"]
    /\ UNCHANGED approved

Next == \E i \in Requests : Ask(i) \/ Approve(i) \/ Settle(i)

Safety == Init /\ [][Next]_<<status, approved>>

Spec == Safety /\ \A i \in Requests : WF_<<status, approved>>(Settle(i))
=============================================================================
