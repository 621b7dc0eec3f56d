------------------------------- MODULE Ledger -------------------------------
(***************************************************************************)
(* Where the coins are: balances and slow wallets (ol_account.move,        *)
(* slow_wallet.move), the pot of fees and who paid them                    *)
(* (transaction_fee.move, fee_maker.move), burns (burn.move), rewards,     *)
(* the bill of the root service (safe.move) and the infrastructure escrow  *)
(* (pledge_accounts.move), in the order of epoch_boundary.move.            *)
(*                                                                         *)
(* The unlocked part of a slow wallet is a counter of its own beside the   *)
(* balance, and every path that moves coins has to keep the two in step.   *)
(* Who validates is chosen in ValidatorSelection, which payments of a      *)
(* community wallet are due in DonorVoice: here they are any.              *)
(***************************************************************************)
EXTENDS Integers, FiniteSets, Functions

CONSTANTS
    Accounts,       \* all addresses
    Caged,          \* community wallets: no signer, the VM pays from them
    Safes,          \* accounts in RootMultiSigRegistry, caged too
    Pledgers,       \* those with coins in the infrastructure escrow
    StartBalance,   \* the balance of each account at genesis, if it exists
    StartUnlocked,  \* the unlocked part of each slow wallet of genesis
    StartPledge,    \* the pledge of each pledger
    Amounts,        \* amounts of transfers and payments
    GasFees,        \* what a transaction may cost
    EntryFees,      \* outcomes of the auction of seats
    Rewards,        \* outcomes of the thermostat
    FirstPrice,     \* price of a vouch before the first boundary
    Drip,           \* get_slow_drip_const()
    InitLimit,      \* MAX_COINS_FOR_INITIALIZE
    SafeFee,        \* STARTING_FEE, in parts of One
    One,            \* one, as a fixed-point number
    MaxU64,         \* MAX_U64
    MaxEpoch        \* bound on the epoch

ASSUME LedgerAssumption ==
    /\ IsFiniteSet(Accounts)
    /\ Caged \subseteq Accounts
    /\ Safes \subseteq Accounts
    /\ IsFiniteSet(Pledgers)
    /\ DOMAIN StartBalance \subseteq Accounts
    /\ Caged \cup Safes \subseteq DOMAIN StartBalance
    /\ \A a \in DOMAIN StartBalance : StartBalance[a] \in Nat
    /\ DOMAIN StartUnlocked \subseteq DOMAIN StartBalance
    /\ \A a \in DOMAIN StartUnlocked : StartUnlocked[a] \in 0 .. StartBalance[a]
    /\ StartPledge \in [Pledgers -> Nat]
    /\ Amounts \subseteq Nat \ {0}
    /\ GasFees \subseteq Nat
    /\ EntryFees \subseteq Nat
    /\ Rewards \subseteq Nat
    /\ FirstPrice \in Nat
    /\ Drip \in Nat
    /\ InitLimit \in Nat
    /\ SafeFee \in Nat
    /\ One \in Nat \ {0}
    /\ SafeFee <= One
    /\ MaxU64 \in Nat
    /\ MaxEpoch \in Nat

VARIABLES
    epoch,
    live,       \* accounts that exist
    accts,      \* balance and SlowWallet.unlocked of each account
    wallets,    \* accounts with a SlowWallet
    listed,     \* SlowWalletList.list
    pot,        \* CollectedFeesPerBlock.amount
    made,       \* FeeMaker.epoch
    makers,     \* EpochFeeMakerRegistry.fee_makers
    feesMade,   \* EpochFeeMakerRegistry.epoch_fees_made
    pledged,    \* MyPledges of each pledger
    available,  \* BeneficiaryPolicy.amount_available
    vals,       \* the validators of the epoch
    reward,     \* nominal_reward
    supply,     \* the coin's supply
    burned,     \* BurnCounter.lifetime_burned
    direct      \* history: slow wallets that used CoinTransfer in this epoch

feeVars == <<made, makers, feesMade>>

epochVars == <<epoch, pledged, available, vals, reward, supply, burned>>

vars == <<epochVars, live, accts, wallets, listed, pot, feeVars, direct>>

StartSupply == SumFunction(StartBalance) + SumFunction(StartPledge)

\* All coins, and a drip on top, fit the u64 that counts them: the drip of a
\* wallet that held them all would not overflow (libra_coin.move, FinalMint).
ASSUME SupplyAssumption == StartSupply + Drip < MaxU64

\* Those who sign transactions.
Users == live \ (Caged \cup Safes)

TypeOK ==
    /\ epoch \in 0 .. MaxEpoch
    /\ live \subseteq Accounts
    /\ accts \in [Accounts -> [bal : Nat, unlocked : Nat]]
    /\ wallets \subseteq live
    /\ listed \subseteq live
    /\ pot \in Nat
    /\ made \in [Accounts -> Nat]
    /\ makers \subseteq live
    /\ feesMade \in Nat
    /\ pledged \in [Pledgers -> Nat]
    /\ available \in Int
    /\ vals \subseteq Users
    /\ reward \in Nat
    /\ supply \in Int
    /\ burned \in Nat
    /\ direct \subseteq wallets

\* fork_migrate_slow_wallet lists the wallets it makes.
Init ==
    /\ epoch = 0
    /\ live = DOMAIN StartBalance
    /\ accts = [a \in Accounts |->
          [bal |-> IF a \in DOMAIN StartBalance THEN StartBalance[a] ELSE 0,
           unlocked |-> IF a \in DOMAIN StartUnlocked THEN StartUnlocked[a] ELSE 0]]
    /\ wallets = DOMAIN StartUnlocked
    /\ listed = wallets
    /\ pot = 0
    /\ made = [a \in Accounts |-> 0]
    /\ makers = {}
    /\ feesMade = 0
    /\ pledged = StartPledge
    /\ available = SumFunction(StartPledge)
    /\ vals \in (SUBSET (Users \cap wallets)) \ {{}}
    /\ reward \in Rewards
    /\ supply = StartSupply
    /\ burned = 0
    /\ direct = {}

-----------------------------------------------------------------------------
\* What moving coins does to an account.

\* Mutant of Tracked: a withdrawal that is not tracked.
Untracked(u, n) == u

\* maybe_track_unlocked_withdraw: gas and the VM may take locked coins too.
Tracked(u, n) == IF u > n THEN u - n ELSE 0

Debit(r, n) == [bal |-> r.bal - n, unlocked |-> Tracked(r.unlocked, n)]

\* vm_deposit_coins_locked
CreditLocked(r, n) == [r EXCEPT !.bal = @ + n]

\* deposit_coins, with maybe_track_unlocked_deposit
Credit(w, a, n) ==
    [w EXCEPT ![a] = [bal |-> @.bal + n,
                      unlocked |-> IF a \in wallets THEN @.unlocked + n ELSE 0]]

Withdraw(w, a, n) == [w EXCEPT ![a] = Debit(@, n)]

\* Mutant of unlocked_amount: everything may be spent.
BalanceAmount(a) == accts[a].bal

unlocked_amount(a) == IF a \in wallets THEN accts[a].unlocked ELSE accts[a].bal

\* Mutant of TrackFees: the total only counts the first fee of a maker.
TrackFirstFees(S, n) ==
    /\ made' = [a \in Accounts |-> IF a \in S THEN made[a] + n ELSE made[a]]
    /\ makers' = makers \cup S
    /\ feesMade' = feesMade + Cardinality(S \ makers) * n

\* track_user_fee_impl, for everyone in `S` a fee of `n`
TrackFees(S, n) ==
    /\ made' = [a \in Accounts |-> IF a \in S THEN made[a] + n ELSE made[a]]
    /\ makers' = makers \cup S
    /\ feesMade' = feesMade + Cardinality(S) * n

-----------------------------------------------------------------------------
\* Transactions.

\* The end of every transaction of `a`: gas comes out of the balance the
\* payload leaves, locked or not. `fees` have gone to the pot already.
Epilogue(a, w, fees, gas) ==
    /\ w[a].bal >= gas
    /\ accts' = Withdraw(w, a, gas)
    /\ pot' = pot + fees + gas
    /\ UNCHANGED epochVars

\* A transaction that aborts still pays.
Abort(a, gas) ==
    /\ Epilogue(a, accts, 0, gas)
    /\ UNCHANGED <<live, wallets, listed, feeVars, direct>>

\* The u64 of the unlocked part does not overflow in deposit_coins.
DepositFits(w, b, n) == b \in wallets => w[b].unlocked + n <= MaxU64

\* transfer creates the account of the recipient if there is none.
Transfer(a, b, n, gas) ==
    /\ b \notin live => n <= InitLimit
    /\ n < unlocked_amount(a)
    /\ n <= accts[a].bal
    /\ DepositFits(Withdraw(accts, a, n), b, n)
    /\ live' = live \cup {b}
    /\ Epilogue(a, Credit(Withdraw(accts, a, n), b, n), 0, gas)
    /\ UNCHANGED <<wallets, listed, feeVars, direct>>

\* A transaction script calls the public withdraw and deposit_coins itself.
ScriptTransfer(a, b, n, gas) ==
    /\ b \in live
    /\ n <= unlocked_amount(a)
    /\ n <= accts[a].bal
    /\ DepositFits(Withdraw(accts, a, n), b, n)
    /\ Epilogue(a, Credit(Withdraw(accts, a, n), b, n), 0, gas)
    /\ UNCHANGED <<live, wallets, listed, feeVars, direct>>

\* coin::withdraw and coin::deposit: balances only.
Moved(w, a, b, n) ==
    LET taken == [w EXCEPT ![a] = [bal |-> @.bal - n, unlocked |-> @.unlocked]]
    IN  [taken EXCEPT ![b] = CreditLocked(@, n)]

\* coin::transfer, an entry function: neither the limit of a slow wallet nor
\* its tracker takes part.
CoinTransfer(a, b, n, gas) ==
    /\ b \in live
    /\ n <= accts[a].bal
    /\ direct' = direct \cup ({a} \cap wallets)
    /\ Epilogue(a, Moved(accts, a, b, n), 0, gas)
    /\ UNCHANGED <<live, wallets, listed, feeVars>>

\* Mutant of SetSlow: the account is listed, its wallet is not made.
ListSlow(a, gas) ==
    /\ listed' = listed \cup {a}
    /\ Epilogue(a, accts, 0, gas)
    /\ UNCHANGED <<live, wallets, feeVars, direct>>

\* user_set_slow, called by the registration of a validator as well
SetSlow(a, gas) ==
    /\ listed' = listed \cup {a}
    /\ wallets' = wallets \cup {a}
    /\ LET w == IF a \in wallets THEN accts
                ELSE [accts EXCEPT ![a] = [bal |-> @.bal, unlocked |-> @.bal]]
       IN  Epilogue(a, w, 0, gas)
    /\ UNCHANGED <<live, feeVars, direct>>

\* The price follows the reward from the first boundary on.
VouchPrice == IF epoch = 0 THEN FirstPrice ELSE reward

\* vouch_impl pays a fee in the name of the grantor.
Vouch(a, gas) ==
    /\ VouchPrice > 0
    /\ VouchPrice <= unlocked_amount(a)
    /\ VouchPrice <= accts[a].bal
    /\ TrackFees({a}, VouchPrice)
    /\ Epilogue(a, Withdraw(accts, a, VouchPrice), VouchPrice, gas)
    /\ UNCHANGED <<live, wallets, listed, direct>>

-----------------------------------------------------------------------------
\* The epoch boundary, one transaction of the VM.

\* root_security_fee_billing
Bill(s) == (accts[s].bal * SafeFee) \div One

Billed == [a \in Accounts |-> IF a \in Safes THEN Debit(accts[a], Bill(a)) ELSE accts[a]]

Bills == SumFunction([s \in Safes |-> Bill(s)])

\* A due payment of the community wallet `c`, to a slow wallet, stays locked.
Donate(w, c, b, n) == [w EXCEPT ![c] = Debit(@, n), ![b] = CreditLocked(@, n)]

\* vm_liquidate refunds a donor and sends the rest to the pot.
Liquidate(w, c, b, n) == [w EXCEPT ![c] = Debit(@, w[c].bal), ![b] = CreditLocked(@, n)]

\* process_outgoing_validators pays in the order of the set while the fees
\* last: whom it leaves out depends on the order.
NumberPaid(k, fees) ==
    IF fees = 0 THEN 0
    ELSE IF k * reward <= fees THEN k ELSE fees \div reward

PayRewards(w, S) == [a \in Accounts |-> IF a \in S THEN CreditLocked(w[a], reward) ELSE w[a]]

NextUnlock(r) == IF r.unlocked + Drip > r.bal THEN r.bal ELSE r.unlocked + Drip

\* slow_wallet_epoch_drip
DripAll(w) == [a \in Accounts |-> IF a \in listed THEN [w[a] EXCEPT !.unlocked = NextUnlock(w[a])] ELSE w[a]]

\* The drip loop passes an account only if it does not `continue`.
DripPasses(w) == \A a \in listed : a \in wallets /\ w[a].unlocked + Drip < MaxU64

\* Mutant of AbleToPay: nobody is skipped.
AllToPay(w, S, fee) == {a \in S : fee > 0}

\* vm_multi_collect skips those who cannot pay.
AbleToPay(w, S, fee) == {a \in S : fee > 0 /\ fee <= w[a].bal}

Collect(w, S, fee) == [a \in Accounts |-> IF a \in S THEN Debit(w[a], fee) ELSE w[a]]

\* withdraw_pct_from_one_pledge_account: a share of more than the whole is
\* not withdrawn at all.
Drawn(p, budget) ==
    LET share == (pledged[p] * ((budget * One) \div available)) \div One
    IN  IF share <= pledged[p] THEN share ELSE 0

\* withdraw_from_all_pledge_accounts
DrawAll(budget) ==
    [p \in Pledgers |-> IF available = 0 THEN 0 ELSE Drawn(p, budget)]

\* The fee makers are reset before the burn looks for them, so all that is
\* left of the fees is burnt; the entry fees are tracked for the new epoch.
\* `w` and `rest` are the accounts and fees after the bills and the donors.
Boundary(w, rest, compliant, paid, seated, fee, nextReward) ==
    LET fees   == pot + Bills + rest
        left   == fees - Cardinality(paid) * reward
        before == PayRewards(w, paid)
        after  == DripAll(before)
        paying == AbleToPay(after, seated, fee)
        budget == Cardinality(seated) * nextReward + 1
        draw   == DrawAll(budget)
        drawn  == SumFunction(draw)
    IN  /\ epoch < MaxEpoch
        /\ Cardinality(paid) = NumberPaid(Cardinality(compliant), fees)
        /\ DripPasses(before)
        /\ epoch' = epoch + 1
        /\ accts' = Collect(after, paying, fee)
        /\ vals' = seated
        /\ reward' = nextReward
        /\ supply' = supply - left
        /\ burned' = burned + left
        /\ pledged' = [p \in Pledgers |-> pledged[p] - draw[p]]
        /\ available' = available - drawn
        /\ pot' = Cardinality(paying) * fee + drawn
        /\ made' = [a \in Accounts |-> IF a \in paying THEN fee
                                       ELSE IF a \in makers THEN 0 ELSE made[a]]
        /\ makers' = paying
        /\ feesMade' = Cardinality(paying) * fee
        /\ direct' = {}
        /\ UNCHANGED <<live, wallets, listed>>

-----------------------------------------------------------------------------
UserStep ==
    \E a \in Users, gas \in GasFees :
        \/ Abort(a, gas)
        \/ \E b \in Accounts, n \in Amounts :
              \/ Transfer(a, b, n, gas)
              \/ ScriptTransfer(a, b, n, gas)
              \/ CoinTransfer(a, b, n, gas)
        \/ SetSlow(a, gas)
        \/ Vouch(a, gas)

\* process_donor_voice_accounts does nothing, pays or liquidates.
BoundaryStep ==
    \E compliant \in SUBSET vals, seated \in SUBSET (Users \cap wallets),
       fee \in EntryFees, nextReward \in Rewards :
        \E paid \in SUBSET compliant :
            \/ Boundary(Billed, 0, compliant, paid, seated, fee, nextReward)
            \/ \E c \in Caged, b \in live, n \in Amounts :
                /\ c # b
                /\ n <= Billed[c].bal
                /\ \/ /\ b \in wallets
                      /\ Boundary(Donate(Billed, c, b, n), 0,
                                  compliant, paid, seated, fee, nextReward)
                   \/ Boundary(Liquidate(Billed, c, b, n), Billed[c].bal - n,
                               compliant, paid, seated, fee, nextReward)

Next == UserStep \/ BoundaryStep

Spec == Init /\ [][Next]_vars

-----------------------------------------------------------------------------
\* The drip at the next boundary comes to its end, or every boundary after
\* it would spin (slow_wallet.move, the two `continue`s): each listed address
\* has its wallet, and no unlocked part comes near the top of u64, unless the
\* wallet sent coins past its tracker in this epoch (CoinTransfer).
DripAdvances ==
    \A a \in listed : a \in wallets /\ (a \in direct \/ accts[a].unlocked + Drip < MaxU64)

\* A slow wallet never has more unlocked than it holds, whatever gas, the
\* VM's overdrafts, deposits and drips do to the two numbers separately
\* (maybe_track_unlocked_deposit leaves the check to "downstream code"),
\* unless it sent coins past its tracker, and the next drip repairs that.
UnlockedWithinBalance == \A a \in wallets \ direct : accts[a].unlocked <= accts[a].bal

\* "unlocked amount cannot be greater than total"
\* (maybe_track_unlocked_deposit), with coin::transfer locked down "so that
\* only system contracts can use this" (coin.move). It is not locked down:
\* an entry function can be sent by anyone.
UnlockedWithinTotal == \A a \in wallets : accts[a].unlocked <= accts[a].bal

\* The coins in the accounts `w`.
Held(w) == SumFunction([a \in Accounts |-> w[a].bal])

\* No path loses or makes coins: balances, the pot and the escrow add up to
\* the supply, what is missing of the first supply is counted as burnt, the
\* escrow's total is that of its pledges, and the fees of the registry are
\* those of its fee makers.
BooksBalance ==
    /\ supply = pot + Held(accts) + SumFunction(pledged)
    /\ supply + burned = StartSupply
    /\ available = SumFunction(pledged)
    /\ feesMade = SumFunction(made)
    /\ makers = {a \in Accounts : made[a] > 0}

Locked(a) == accts[a].bal - accts[a].unlocked

\* Locked coins stay: in an epoch in which it does not use coin::transfer, a
\* slow wallet loses none by transactions, its own or others', but for gas; a
\* boundary unlocks no more than the drip, and a wallet once slow remains slow
\* ("There's no way to reverse a slow wallet").
LockedCoinsStay ==
    [][/\ wallets \subseteq wallets'
       /\ \A a \in wallets :
            IF epoch' = epoch
            THEN a \in direct' \/ \E gas \in GasFees : Locked(a)' >= Locked(a) - gas
            ELSE accts'[a].unlocked <= accts[a].unlocked + Drip]_vars
=============================================================================
