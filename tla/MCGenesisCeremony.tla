------------------------- MODULE MCGenesisCeremony -------------------------
(* Two users. The first may correct its mnemonic: its second account has a *)
(* record and a slow wallet. The second may change its host. A donor that  *)
(* may be on the drop list, and a community wallet.                        *)
EXTENDS GenesisCeremony, TLC

CONSTANTS u1, u2, v1, v2, wrong, donor, wallet

MCUsers == <<u1, u2>>

MCAccount == u1 :> (0 :> wrong @@ 1 :> v1) @@ u2 :> (0 :> v2 @@ 1 :> v2)

User(bal, slow, pledge) ==
    [role |-> "user", auth_key |-> TRUE, balance |-> bal, slow |-> slow, pledge |-> pledge,
     cumulative |-> None, receipts |-> {}]

Input(bal, slow, pledge, drops) ==
    [record |-> v1 :> User(bal, slow, 2)
                @@ donor :> [User(3, 1, pledge) EXCEPT !.receipts = {wallet}]
                @@ wallet :> [User(1, None, None) EXCEPT !.cumulative = 1],
     drops |-> drops]

\* An escrow of many small pledges.
SmallPledges ==
    [record |-> v1 :> User(1, 1, 1) @@ donor :> User(1, 1, 1) @@ wallet :> User(1, None, 1),
     drops |-> {}]

\* A record of the system, without a key.
Keyless(i) ==
    [i EXCEPT !.record[wallet] = [User(None, None, None) EXCEPT !.role = "system",
                                                              !.auth_key = FALSE]]

\* More unlocked than there is, with an escrow that can seed one validator
\* and one that cannot seed any; no slow wallet and a dropped donor; no
\* balance; a dropped validator.
MCInputs ==
    {Input(1, 2, 1, {}), Keyless(Input(1, 2, None, {})), Input(1, None, 5, {donor}),
     Input(None, 2, 5, {}), Input(1, None, 5, {v1}), SmallPledges}
=============================================================================
