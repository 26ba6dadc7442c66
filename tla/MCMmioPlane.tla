---------------------------- MODULE MCMmioPlane -----------------------------
(* MmioPlane on calls that differ in everything a stale answer could be    *)
(* told by: name, direction, verdict and both lengths.                     *)
EXTENDS MmioPlane

\* Every value the parameter registers can hold at a start.
MCJobs == {j \in JobType : ~j.dec => ~j.tagok}

Lengths(dec) == IF dec THEN {<<0, 1>>, <<2, 0>>} ELSE {<<0, 0>>, <<1, 3>>, <<3, 2>>}

MixedCalls == {j \in MCJobs : <<j.adlen, j.msglen>> \in Lengths(j.dec)}

\* Fewer, for the runs in which a call may time out.
FewCalls == {j \in MCJobs : <<j.adlen, j.msglen>> = IF j.dec THEN <<0, 2>> ELSE <<1, 3>>}
=============================================================================
