----------------------------- MODULE MCAeadCore -----------------------------
(* AeadCore on every request with up to two blocks and a bit of each kind. *)
EXTENDS AeadCore

CONSTANTS MaxAd, MaxMsg   \* longest associated data and message, in bytes

Lens == [adlen : 0..MaxAd, msglen : 0..MaxMsg, dec : BOOLEAN]

\* Encryptions present no tag; decryptions present the right one or a forgery.
MCRequests ==
    {[adlen |-> l.adlen, msglen |-> l.msglen, dec |-> l.dec, tag |-> t] :
        l \in Lens, t \in {<<>>}}
    \cup
    {[adlen |-> l.adlen, msglen |-> l.msglen, dec |-> TRUE,
      tag |-> GoldenTag([adlen |-> l.adlen, msglen |-> l.msglen, dec |-> TRUE])] : l \in Lens}
=============================================================================
