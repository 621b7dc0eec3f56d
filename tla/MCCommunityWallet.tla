-------------------------- MODULE MCCommunityWallet --------------------------
(* Bounded instance of CommunityWallet: three founders and two candidates,   *)
(* one of them a relative of a founder who may be removed.                   *)
EXTENDS CommunityWallet, TLC

CONSTANTS a, b, c, d, e, pay

MCAuth == {a, b, c, d, e}

MCPayments == {pay}

MCOfferLists == {<<a, b, c>>}

MCKin == {<<c, e>>, <<e, c>>}

\* Additions of two candidates, one with two thresholds, and a removal.
MCChanges ==
    [add : {TRUE}, addrs : {<<d>>}, n : {2, 3}]
    \cup [add : {TRUE}, addrs : {<<e>>}, n : {2}]
    \cup [add : {FALSE}, addrs : {<<c>>}, n : {2}]

MCDurations == {1}
=============================================================================
