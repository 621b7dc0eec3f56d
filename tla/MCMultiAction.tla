--------------------------- MODULE MCMultiAction ---------------------------
(* Bounded instance of MultiAction: three candidates, two of whom the        *)
(* sponsor offers authority to in the order of either list.                  *)
EXTENDS MultiAction, TLC

CONSTANTS a, b, c, pay

MCAuth == {a, b, c}

MCPayments == {pay}

MCOfferLists == {<<a, b>>, <<a, b, c>>}

\* Add or remove c, with and without a threshold change, and a change alone.
MCGovProposals ==
    [add : {TRUE}, addrs : {<<c>>}, n : {None, 1}]
    \cup [add : {FALSE}, addrs : {<<c>>}, n : {None, 1}]
    \cup [add : {TRUE}, addrs : {<<>>}, n : {2}]

MCDurations == {1}
=============================================================================
