---------------------------- MODULE MCLocalApi ----------------------------
(***************************************************************************)
(* Three clients: a browser's host that asks for passkeys, a second one    *)
(* that cancels, and a tray that subscribes and changes things.            *)
(***************************************************************************)
EXTENDS LocalApi

MCMakes == [c \in Conns |->
    CASE c = 1 -> {Perform(CHOOSE r \in Requests : TRUE), Plain("read")}
      [] c = 2 -> {CancelOf(r) : r \in Requests}
      [] OTHER -> {Plain("subscribe"), Plain("change")}]
MCMaxCalls == [c \in Conns |-> IF c = 1 THEN 1 ELSE 2]
=============================================================================
