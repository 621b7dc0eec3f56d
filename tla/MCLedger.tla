------------------------------ MODULE MCLedger ------------------------------
(* A validator and slow wallet, an ordinary user, a community wallet, a    *)
(* safe, an address without an account, and two pledges.                   *)
EXTENDS Ledger, TLC

CONSTANTS val, usr, com, safe, new, p1, p2

MCStartBalance == val :> 3 @@ usr :> 1 @@ com :> 1 @@ safe :> 2

MCStartUnlocked == val :> 1

MCStartPledge == p1 :> 3 @@ p2 :> 2
=============================================================================
