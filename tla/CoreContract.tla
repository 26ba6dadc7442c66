---------------------------- MODULE CoreContract ----------------------------
(***************************************************************************)
(* What the AEAD core promises to the stream engine wrapped around it: it  *)
(* takes one request at a time, ignores a start while it is busy, and ends *)
(* every request with the result of THAT request, held until the next      *)
(* request is accepted.                                                    *)
(*                                                                         *)
(* AeadCore is shown to implement this module; AxisEngine is built on it.  *)
(***************************************************************************)

CONSTANTS
    Requests,   \* what can be asked of the core
    Eval(_),    \* the result of a request
    None        \* no request, no result

VARIABLES
    busy,       \* busy_o
    req,        \* the request being worked on, None when idle
    result      \* what done_o, out_o, tag_o and valid_o hold; None: done_o = 0

vars == <<busy, req, result>>

TypeOK ==
    /\ busy \in BOOLEAN
    /\ req \in Requests \cup {None}
    /\ result \in {Eval(r) : r \in Requests} \cup {None}

Init == busy = FALSE /\ req = None /\ result = None

\* A start is seen only when idle; it withdraws the previous result.
Accept(r) ==
    /\ ~busy
    /\ busy' = TRUE
    /\ req' = r
    /\ result' = None

Finish ==
    /\ busy
    /\ busy' = FALSE
    /\ req' = None
    /\ result' = Eval(req)

Next == (\E r \in Requests : Accept(r)) \/ Finish

Spec == Init /\ [][Next]_vars /\ WF_vars(Finish)
=============================================================================
