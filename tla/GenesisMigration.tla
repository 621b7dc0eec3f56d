-------------------------- MODULE GenesisMigration --------------------------
(***************************************************************************)
(* How a hard fork carries accounts over (parse_json.rs,                   *)
(* genesis_functions.rs, process_comm_wallet.rs, the order of vm.rs), and  *)
(* what the audit of compare.rs looks at. A recovery file has one record   *)
(* per account; fields that may be absent are None. The chain is mainnet:  *)
(* a testnet drips slow wallets while its validators are registered.       *)
(***************************************************************************)
EXTENDS Integers, Sequences, FiniteSets, Functions

CONSTANTS
    Addresses,      \* accounts with a record
    Wallets,        \* those of them that are community wallets
    Bootstrap,      \* what genesis_coin_validator gives a validator
    None            \* an absent field

\* What the migration reads of LegacyRecoveryV6. `receipts` has the community
\* wallets the account gave to.
Records == [role : {"user", "system", "drop"}, auth_key : BOOLEAN,
            balance : Nat \cup {None}, slow : Nat \cup {None},
            pledge : Nat \cup {None}, cumulative : Nat \cup {None},
            receipts : SUBSET Wallets]

ASSUME MigrationAssumption ==
    /\ IsFiniteSet(Addresses)
    /\ Wallets \subseteq Addresses
    /\ Bootstrap \in Nat
    /\ None \notin Nat

Dead == [role |-> "drop", auth_key |-> TRUE, balance |-> None, slow |-> None,
         pledge |-> None, cumulative |-> None, receipts |-> {}]

\* drop_accounts empties the records of a drop list.
drop_accounts(rec, drops) ==
    [a \in Addresses |-> IF a \in drops THEN Dead ELSE rec[a]]

\* Mutant of fix_slow_wallet: the file is taken as it is.
slow_wallet_as_is(rec) == rec

\* fix_slow_wallet: more unlocked than the balance is cut to the balance.
fix_slow_wallet(rec) ==
    [a \in Addresses |->
        IF rec[a].balance # None /\ rec[a].slow # None /\ rec[a].slow > rec[a].balance
        THEN [rec[a] EXCEPT !.slow = rec[a].balance] ELSE rec[a]]

\* genesis_migrate_one_user bails without a key or a balance, and
\* genesis_migrate_all_users goes on to the next account.
CanMigrate(r) == r.role # "drop" /\ r.auth_key /\ r.balance # None

\* genesis_migrate_slow_wallet asks for the same, and for the wallet.
migrate_slow_wallets(rec) ==
    [a \in {b \in Addresses : CanMigrate(rec[b]) /\ rec[b].slow # None} |-> rec[a].slow]

\* genesis_migrate_infra_escrow does without a balance.
migrate_infra_escrow(rec) ==
    [a \in {b \in Addresses : /\ rec[b].role # "drop"
                              /\ rec[b].auth_key
                              /\ rec[b].pledge # None} |-> rec[a].pledge]

\* The donors of every wallet with deposits, from the receipts of the donors.
prepare_cw_and_receipts(rec) ==
    [w \in {a \in Wallets : rec[a].cumulative # None} |->
        {d \in Addresses : w \in rec[d].receipts}]

\* The coins and wallets of the state the users are migrated to.
migrate_all_users(rec) ==
    [balance   |-> [a \in {b \in Addresses : CanMigrate(rec[b])} |-> rec[a].balance],
     unlocked  |-> migrate_slow_wallets(rec),
     pledge    |-> migrate_infra_escrow(rec),
     tombstone |-> {a \in Addresses : rec[a].role = "drop"},
     donors    |-> prepare_cw_and_receipts(rec)]

\* Shares are fixed point numbers. Where a pledge times their sum is below
\* Scale, these 16 bits round as the code's 64 do.
Scale == 65536

Drawn(pledge) ==
    [a \in DOMAIN pledge |->
        (pledge[a] * ((Bootstrap * Scale) \div SumFunction(pledge))) \div Scale]

\* genesis_coin_validator: what it takes of each pledge, nothing if the escrow
\* has no more than that.
Taken(pledge) ==
    IF SumFunction(pledge) > Bootstrap THEN Drawn(pledge)
    ELSE [a \in DOMAIN pledge |-> 0]

With(f, v, n) == [a \in DOMAIN f \cup {v} |-> IF a = v THEN n ELSE f[a]]

\* A genesis validator gets an account if it has none, a slow wallet with all
\* it has unlocked if it has none, and its first coins from the escrow.
register_validator(chain, v) ==
    LET bal   == IF v \in DOMAIN chain.balance THEN chain.balance[v] ELSE 0
        free  == IF v \in DOMAIN chain.unlocked THEN chain.unlocked[v] ELSE bal
        taken == Taken(chain.pledge)
        seed  == SumFunction(taken)
    IN  [chain EXCEPT
            !.balance  = With(chain.balance, v, bal + seed),
            !.unlocked = With(chain.unlocked, v, free + seed),
            !.pledge   = [a \in DOMAIN chain.pledge |-> chain.pledge[a] - taken[a]]]

\* Validators come last, and create_initialize_validators takes them from the
\* back of the layout: the chain after each of the accounts `vals`.
create_initialize_validators(rec, vals) ==
    LET chain[n \in 0 .. Len(vals)] ==
            IF n = 0 THEN migrate_all_users(rec)
            ELSE register_validator(chain[n - 1], vals[Len(vals) + 1 - n])
    IN  chain

encode_genesis(rec, vals) == create_initialize_validators(rec, vals)[Len(vals)]

\* genesis_coin_validator asserts that a coin was drawn: not so if every
\* share of an escrow that is large enough rounds to zero.
Unseeded(pledge) == SumFunction(pledge) > Bootstrap /\ SumFunction(Taken(pledge)) = 0

\* An account with a tombstone cannot be made a validator.
EncodePanics(rec, vals) ==
    \/ \E v \in Range(vals) \cap Addresses : rec[v].role = "drop"
    \/ \E n \in 1 .. Len(vals) : Unseeded(create_initialize_validators(rec, vals)[n - 1].pledge)

\* The records compare_recovery_vec_to_genesis_tx reports. It panics on an
\* account that is on chain while its record has no balance.
Audited(rec, chain) ==
    {a \in Addresses : rec[a].role = "user" /\ a \in DOMAIN chain.balance}

AuditPanics(rec, chain) == \E a \in Audited(rec, chain) : rec[a].balance = None

AuditErrors(rec, chain) ==
    {a \in Audited(rec, chain) :
        \/ chain.balance[a] # rec[a].balance
        \/ /\ rec[a].slow # None
           /\ \/ chain.unlocked[a] # rec[a].slow
              \/ chain.unlocked[a] > chain.balance[a]}

CoinsIn(chain) == SumFunction(chain.balance) + SumFunction(chain.pledge)

Coins(x) == IF x = None THEN 0 ELSE x

\* The reference: all coins of the file, but for the dropped accounts.
CoinsOf(rec) ==
    SumFunction([a \in {b \in Addresses : rec[b].role # "drop"} |->
                    Coins(rec[a].balance) + Coins(rec[a].pledge)])
=============================================================================
