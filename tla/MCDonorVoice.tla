---------------------------- MODULE MCDonorVoice ----------------------------
(* Small instances of DonorVoice.                                          *)
EXTENDS DonorVoice

CONSTANTS alice, bob, w1, w2

\* Equal donors; and one whose vote alone is below an eighth of the votes.
Equal == [w \in Wallets |-> [d \in Donors |-> 4]]

Unequal(rich) == [w \in Wallets |-> [d \in Donors |-> IF d = rich THEN 8 ELSE 1]]

\* One wallet that is at the bound on donations and one that is not.
FirstMayGrow ==
    {[w \in Wallets |-> [d \in Donors |-> IF w = w1 THEN 4 ELSE 6]]}

EqualOrUnequal == {Equal} \cup {Unequal(d) : d \in Donors}

DonorSymmetry == Permutations(Donors)
=============================================================================
