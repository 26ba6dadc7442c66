---------------------------- MODULE MCSlinkPlane ----------------------------
(* SlinkPlane on every pair of lengths, for two names.                     *)
EXTENDS SlinkPlane

\* Every value the parameter registers can hold at a start.
MCJobs == {j \in JobType : ~j.dec => ~j.tagok}

WithOutput == [job : MCJobs, out : {TRUE}]

\* A few calls that differ in everything a stale answer could be told by.
MCCall(id, dec, tagok, adlen, msglen, out) ==
    [job |-> [id |-> id, dec |-> dec, tagok |-> tagok, adlen |-> adlen, msglen |-> msglen],
     out |-> out]

MixedCalls ==
    {MCCall(i, FALSE, FALSE, 1, 3, TRUE) : i \in Ids}
    \cup {MCCall(i, TRUE, ok, 0, 2, TRUE) : i \in Ids, ok \in BOOLEAN}
    \cup {MCCall(i, FALSE, FALSE, 1, n, FALSE) : i \in Ids, n \in {0, 3}}
=============================================================================
