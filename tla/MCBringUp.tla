------------------------------ MODULE MCBringUp ------------------------------
(***************************************************************************)
(* Two versions of the model, an image of two writes, two cases, one port  *)
(* operation that raises, and as many commands as it takes to build twice, *)
(* flash and upload.                                                       *)
(***************************************************************************)
EXTENDS BringUp
=============================================================================
