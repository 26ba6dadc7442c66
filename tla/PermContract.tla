---------------------------- MODULE PermContract ----------------------------
(***************************************************************************)
(* What every generated permutation core with the start/valid interface    *)
(* promises: it takes one request at a time, answers each after some       *)
(* cycles with the permuted state of THAT request, and shows the answer    *)
(* for one cycle.  How many cycles depends on the design.                  *)
(*                                                                         *)
(* PermCores is shown to implement this module for the iterative, the      *)
(* column-serial, the bit-serial and the microcoded core; HashCore is      *)
(* built on it.                                                            *)
(***************************************************************************)

CONSTANTS
    Requests,    \* what can be asked: a state and a number of rounds
    Result(_),   \* the permuted state of a request
    None         \* no request, no answer

VARIABLES
    working,     \* the request being worked on (busy_o), None when idle
    answer       \* state_o while valid_o is up, None otherwise

vars == <<working, answer>>

Init == working = None /\ answer = None

Accept(r) ==
    /\ working = None
    /\ working' = r
    /\ answer' = None

Answer ==
    /\ working # None
    /\ working' = None
    /\ answer' = Result(working)

\* valid_o is a pulse.
Withdraw ==
    /\ answer # None
    /\ answer' = None
    /\ UNCHANGED working

Next == (\E r \in Requests : Accept(r)) \/ Answer \/ Withdraw

\* Weak fairness of Answer and of Withdraw: nobody waits for ever.
Fairness == (working # None ~> working = None) /\ (answer # None ~> answer = None)

Spec == Init /\ [][Next]_vars /\ Fairness
=============================================================================
