--------------------------- MODULE MCStreamSystem ---------------------------
(* StreamSystem on two jobs' worth of names and every pair of lengths.     *)
EXTENDS StreamSystem

\* Decryptions with a genuine and with a forged tag, and encryptions (whose
\* tag input is not looked at).
MCJobs == {j \in JobType : ~j.dec => ~j.tagok}
=============================================================================
