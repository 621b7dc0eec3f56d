------------------------ MODULE MCValidatorSelection ------------------------
(* Small instances of ValidatorSelection.                                  *)
EXTENDS ValidatorSelection, TLC

CONSTANTS v1, v2, v3, v4

\* Everyone vouches for everyone else.
AllVouch == {p \in Validators \X Validators : p[1] # p[2]}

\* Flawless; the most proposals, but too many failures; few proposals, which
\* trail when somebody has the most.
MCPerformances == {<<10, 0>>, <<30, 10>>, <<1, 0>>}

\* Flawless, and no proposals at all.
AllOrNothing == {<<10, 0>>, <<0, 0>>}

\* The whole universe, or just enough of it.
Genesis == {S \in SUBSET Validators : Cardinality(S) \in {MinSeats, 4}}

ValidatorSymmetry == Permutations(Validators)
=============================================================================
