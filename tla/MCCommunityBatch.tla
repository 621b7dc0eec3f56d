-------------------------- MODULE MCCommunityBatch --------------------------
(* Bounded instance of CommunityBatch: two authorities who must both sign,   *)
(* and a file of two payments.                                               *)
EXTENDS CommunityBatch, TLC

CONSTANTS a, b, p, q

MCAuth == {a, b}

MCBatch == <<[payee |-> p, value |-> 1], [payee |-> q, value |-> 1]>>

MCPayments == Range(MCBatch)

MCSymmetry == Permutations(MCAuth)
=============================================================================
