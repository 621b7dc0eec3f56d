--------------------------- MODULE Ledger_proofs ---------------------------
(***************************************************************************)
(* The unlocked part of a slow wallet never exceeds its balance and locked *)
(* coins leave it only as gas, but in epochs in which it uses              *)
(* coin::transfer; and no coin is lost or made, for every set of accounts  *)
(* and every amount. Each stage of a transaction keeps an account within   *)
(* its balance (Within), and the drip of a boundary puts every listed one  *)
(* there, whatever was sent past its tracker before: so each stage has a   *)
(* lemma of its own; a second lemma of each stage says what it does to the *)
(* coins held, for the invariant of the books, LedgerBooks.                *)
(***************************************************************************)
EXTENDS Ledger, Sums_proofs

Acct == [bal : Nat, unlocked : Nat]

Typed(w) == w \in [Accounts -> Acct]

\* Unlocked within the balance, for the accounts of `S`.
Within(w, S) == \A a \in S : w[a].unlocked <= w[a].bal

\* What the steps need besides: who is listed, who signs, what is paid.
LedgerInv ==
    /\ Typed(accts)
    /\ Within(accts, wallets \ direct)
    /\ direct \subseteq wallets
    /\ live \subseteq Accounts
    /\ wallets \subseteq live
    /\ listed = wallets
    /\ vals \subseteq Accounts
    /\ reward \in Nat
    /\ epoch \in Nat

\* A debit of no more than the balance keeps an account within it, unlocks
\* nothing, and takes from the locked part at most what is withdrawn.
LEMMA DebitSound ==
    ASSUME NEW r \in Acct, NEW n \in Nat, n <= r.bal
    PROVE  /\ Debit(r, n) \in Acct
           /\ r.unlocked <= r.bal => Debit(r, n).unlocked <= Debit(r, n).bal
           /\ Debit(r, n).unlocked <= r.unlocked
           /\ Debit(r, n).bal = r.bal - n
           /\ Debit(r, n).bal - Debit(r, n).unlocked >= r.bal - r.unlocked - n
  BY DEF Acct, Debit, Tracked

\* Locked deposits (rewards, donations, refunds) unlock nothing.
LEMMA CreditLockedSound ==
    ASSUME NEW r \in Acct, NEW n \in Nat
    PROVE  /\ CreditLocked(r, n) \in Acct
           /\ CreditLocked(r, n).unlocked = r.unlocked
           /\ CreditLocked(r, n).bal = r.bal + n
  BY DEF Acct, CreditLocked

\* A withdrawal keeps the accounts within their balances.
LEMMA WithdrawSound ==
    ASSUME NEW w, Typed(w), NEW a \in Accounts, NEW n \in Nat, n <= w[a].bal
    PROVE  /\ Typed(Withdraw(w, a, n))
           /\ Withdraw(w, a, n)[a].bal = w[a].bal - n
           /\ \A b \in Accounts :
                /\ b # a => Withdraw(w, a, n)[b] = w[b]
                /\ w[b].unlocked <= w[b].bal =>
                     Withdraw(w, a, n)[b].unlocked <= Withdraw(w, a, n)[b].bal
                /\ Withdraw(w, a, n)[b].unlocked <= w[b].unlocked
                /\ Withdraw(w, a, n)[b].bal - Withdraw(w, a, n)[b].unlocked
                     >= w[b].bal - w[b].unlocked - n
  <1>1. w[a] \in Acct
    BY DEF Typed
  <1>2. /\ Debit(w[a], n) \in Acct
        /\ w[a].unlocked <= w[a].bal => Debit(w[a], n).unlocked <= Debit(w[a], n).bal
        /\ Debit(w[a], n).unlocked <= w[a].unlocked
        /\ Debit(w[a], n).bal = w[a].bal - n
        /\ Debit(w[a], n).bal - Debit(w[a], n).unlocked >= w[a].bal - w[a].unlocked - n
    BY <1>1, DebitSound
  <1>3. /\ Withdraw(w, a, n) \in [Accounts -> Acct]
        /\ Withdraw(w, a, n)[a] = Debit(w[a], n)
        /\ \A b \in Accounts : b # a => Withdraw(w, a, n)[b] = w[b]
    BY <1>2 DEF Typed, Withdraw
  <1>4. \A b \in Accounts : w[b].bal \in Nat /\ w[b].unlocked \in Nat
    BY DEF Typed, Acct
  <1>5. ASSUME NEW b \in Accounts
        PROVE  /\ w[b].unlocked <= w[b].bal =>
                    Withdraw(w, a, n)[b].unlocked <= Withdraw(w, a, n)[b].bal
               /\ Withdraw(w, a, n)[b].unlocked <= w[b].unlocked
               /\ Withdraw(w, a, n)[b].bal - Withdraw(w, a, n)[b].unlocked
                    >= w[b].bal - w[b].unlocked - n
    <2>1. CASE b = a
      BY <2>1, <1>2, <1>3
    <2>2. CASE b # a
      BY <2>2, <1>3, <1>4 DEF Typed
    <2> QED BY <2>1, <2>2
  <1> QED BY <1>2, <1>3, <1>5 DEF Typed

\* An open deposit raises the balance by what it unlocks, or by more.
LEMMA CreditSound ==
    ASSUME NEW w, Typed(w), NEW b \in Accounts, NEW n \in Nat
    PROVE  /\ Typed(Credit(w, b, n))
           /\ \A c \in Accounts :
                /\ Credit(w, b, n)[c].bal >= w[c].bal
                /\ w[c].unlocked <= w[c].bal =>
                     Credit(w, b, n)[c].unlocked <= Credit(w, b, n)[c].bal
                /\ c \in wallets =>
                     Credit(w, b, n)[c].bal - Credit(w, b, n)[c].unlocked
                       = w[c].bal - w[c].unlocked
  <1>1. \A c \in Accounts : w[c].bal \in Nat /\ w[c].unlocked \in Nat
    BY DEF Typed, Acct
  <1>2. /\ Credit(w, b, n) \in [Accounts -> Acct]
        /\ Credit(w, b, n)[b] = [bal |-> w[b].bal + n,
                unlocked |-> IF b \in wallets THEN w[b].unlocked + n ELSE 0]
        /\ \A c \in Accounts : c # b => Credit(w, b, n)[c] = w[c]
    BY <1>1 DEF Typed, Credit, Acct
  <1>3. ASSUME NEW c \in Accounts
        PROVE  /\ w[c].unlocked <= w[c].bal =>
                    Credit(w, b, n)[c].unlocked <= Credit(w, b, n)[c].bal
               /\ Credit(w, b, n)[c].bal >= w[c].bal
               /\ c \in wallets =>
                    Credit(w, b, n)[c].bal - Credit(w, b, n)[c].unlocked
                      = w[c].bal - w[c].unlocked
    <2>1. CASE c = b
      BY <2>1, <1>1, <1>2
    <2>2. CASE c # b
      BY <2>2, <1>1, <1>2
    <2> QED BY <2>1, <2>2
  <1> QED BY <1>2, <1>3 DEF Typed

\* The same facts, when many accounts are debited or credited at once. A
\* stage of the boundary leaves no more unlocked than before it.
NoMoreUnlocked(v, w) == \A a \in Accounts : v[a].unlocked <= w[a].unlocked

LEMMA PayRewardsSound ==
    ASSUME NEW w, Typed(w), NEW S, reward \in Nat
    PROVE  Typed(PayRewards(w, S)) /\ NoMoreUnlocked(PayRewards(w, S), w)
  <1>1. ASSUME NEW a \in Accounts
        PROVE  /\ PayRewards(w, S)[a] \in Acct
               /\ PayRewards(w, S)[a].unlocked <= w[a].unlocked
    <2>1. w[a] \in Acct /\ w[a].unlocked \in Nat
      BY DEF Typed, Acct
    <2>2. PayRewards(w, S)[a] = IF a \in S THEN CreditLocked(w[a], reward) ELSE w[a]
      BY DEF PayRewards
    <2>3. CASE a \in S
      BY <2>1, <2>2, <2>3, CreditLockedSound
    <2>4. CASE a \notin S
      BY <2>1, <2>2, <2>4
    <2> QED BY <2>3, <2>4
  <1>2. PayRewards(w, S) \in [Accounts -> Acct]
    BY <1>1 DEF PayRewards
  <1> QED BY <1>1, <1>2 DEF Typed, NoMoreUnlocked

LEMMA CollectSound ==
    ASSUME NEW w, Typed(w), NEW S, NEW fee \in Nat
    PROVE  LET paying == AbleToPay(w, S, fee)
           IN  /\ Typed(Collect(w, paying, fee))
               /\ NoMoreUnlocked(Collect(w, paying, fee), w)
               /\ \A T \in SUBSET Accounts : Within(w, T) => Within(Collect(w, paying, fee), T)
  <1> DEFINE paying == AbleToPay(w, S, fee)
             v == Collect(w, paying, fee)
  <1>1. ASSUME NEW a \in Accounts
        PROVE  /\ v[a] \in Acct /\ v[a].unlocked <= w[a].unlocked
               /\ w[a].unlocked <= w[a].bal => v[a].unlocked <= v[a].bal
    <2>1. w[a] \in Acct /\ w[a].unlocked \in Nat
      BY DEF Typed, Acct
    <2>2. v[a] = IF a \in paying THEN Debit(w[a], fee) ELSE w[a]
      BY DEF Collect
    <2>3. CASE a \in paying
      <3>1. fee <= w[a].bal
        BY <2>3 DEF AbleToPay
      <3> QED BY <2>1, <2>2, <2>3, <3>1, DebitSound
    <2>4. CASE a \notin paying
      BY <2>1, <2>2, <2>4
    <2> QED BY <2>3, <2>4
  <1>2. v \in [Accounts -> Acct]
    BY <1>1 DEF Collect
  <1> HIDE DEF v
  <1>3. \A T \in SUBSET Accounts : Within(w, T) => Within(v, T)
    BY <1>1 DEF Within
  <1>4. Typed(v) /\ NoMoreUnlocked(v, w)
    BY <1>1, <1>2 DEF Typed, NoMoreUnlocked
  <1> QED BY <1>3, <1>4 DEF v

\* The drip stops at the balance, even of a wallet that has more unlocked
\* than it holds, and unlocks at most Drip.
LEMMA DripSound ==
    ASSUME NEW w, Typed(w), listed \subseteq Accounts
    PROVE  /\ Typed(DripAll(w))
           /\ Within(DripAll(w), listed)
           /\ \A a \in Accounts : DripAll(w)[a].unlocked <= w[a].unlocked + Drip
  <1>0. Drip \in Nat
    BY LedgerAssumption
  <1>1. ASSUME NEW a \in Accounts
        PROVE  /\ DripAll(w)[a] \in Acct
               /\ a \in listed => DripAll(w)[a].unlocked <= DripAll(w)[a].bal
               /\ DripAll(w)[a].unlocked <= w[a].unlocked + Drip
    <2>1. w[a] \in Acct /\ w[a].unlocked \in Nat /\ w[a].bal \in Nat
      BY DEF Typed, Acct
    <2>2. DripAll(w)[a] = IF a \in listed THEN [w[a] EXCEPT !.unlocked = NextUnlock(w[a])]
                          ELSE w[a]
      BY DEF DripAll
    <2>3. /\ NextUnlock(w[a]) \in Nat
          /\ NextUnlock(w[a]) <= w[a].bal
          /\ NextUnlock(w[a]) <= w[a].unlocked + Drip
      BY <1>0, <2>1 DEF NextUnlock
    <2>4. CASE a \in listed
      <3>1. DripAll(w)[a] = [bal |-> w[a].bal, unlocked |-> NextUnlock(w[a])]
        BY <2>1, <2>2, <2>4 DEF Acct
      <3> QED BY <2>1, <2>3, <3>1 DEF Acct
    <2>5. CASE a \notin listed
      BY <1>0, <2>1, <2>2, <2>5
    <2> QED BY <2>4, <2>5
  <1>2. DripAll(w) \in [Accounts -> Acct]
    BY <1>1 DEF DripAll
  <1> QED BY <1>1, <1>2 DEF Typed, Within

\* A bill is a fraction of the balance, rounded down.
LEMMA BillWithinBalance ==
    ASSUME NEW s \in Accounts, Typed(accts)
    PROVE  Bill(s) \in Nat /\ Bill(s) <= accts[s].bal
  <1>1. /\ SafeFee \in Nat /\ One \in Nat /\ One > 0 /\ SafeFee <= One
        /\ accts[s].bal \in Nat
    BY LedgerAssumption DEF Typed, Acct
  <1> DEFINE x == accts[s].bal
             q == (x * SafeFee) \div One
  <1>2. x * SafeFee \in Nat /\ x * SafeFee <= x * One
    BY <1>1
  <1>3. q \in Nat /\ One * q <= x * SafeFee
    BY <1>1, <1>2
  <1>4. One * q <= One * x
    BY <1>1, <1>2, <1>3
  <1>5. q <= x
    BY <1>1, <1>3, <1>4
  <1> QED BY <1>3, <1>5 DEF Bill

LEMMA BilledSound ==
    ASSUME Typed(accts)
    PROVE  Typed(Billed) /\ NoMoreUnlocked(Billed, accts)
  <1>1. ASSUME NEW a \in Accounts
        PROVE  /\ Billed[a] \in Acct
               /\ Billed[a].unlocked <= accts[a].unlocked
    <2>1. accts[a] \in Acct /\ accts[a].unlocked \in Nat
      BY DEF Typed, Acct
    <2>2. Billed[a] = IF a \in Safes THEN Debit(accts[a], Bill(a)) ELSE accts[a]
      BY DEF Billed
    <2>3. CASE a \in Safes
      BY <2>1, <2>2, <2>3, DebitSound, BillWithinBalance
    <2>4. CASE a \notin Safes
      BY <2>1, <2>2, <2>4
    <2> QED BY <2>3, <2>4
  <1>2. Billed \in [Accounts -> Acct]
    BY <1>1 DEF Billed
  <1> QED BY <1>1, <1>2 DEF Typed, NoMoreUnlocked

\* Payments and refunds out of a community wallet: `m` leaves it, and `n`
\* arrives, locked.
LEMMA DonationSound ==
    ASSUME NEW w, Typed(w), NEW c \in Accounts, NEW b \in Accounts, c # b,
           NEW m \in Nat, NEW n \in Nat, m <= w[c].bal
    PROVE  LET v == [w EXCEPT ![c] = Debit(@, m), ![b] = CreditLocked(@, n)]
           IN  Typed(v) /\ NoMoreUnlocked(v, w)
  <1> DEFINE v == [w EXCEPT ![c] = Debit(@, m), ![b] = CreditLocked(@, n)]
  <1>1. \A a \in Accounts : w[a] \in Acct /\ w[a].unlocked \in Nat
    BY DEF Typed, Acct
  <1>2. /\ Debit(w[c], m) \in Acct
        /\ Debit(w[c], m).unlocked <= w[c].unlocked
    BY <1>1, DebitSound
  <1>3. /\ CreditLocked(w[b], n) \in Acct
        /\ CreditLocked(w[b], n).unlocked <= w[b].unlocked
    BY <1>1, CreditLockedSound
  <1>4. /\ v \in [Accounts -> Acct]
        /\ v[c] = Debit(w[c], m)
        /\ v[b] = CreditLocked(w[b], n)
        /\ \A a \in Accounts : a # c /\ a # b => v[a] = w[a]
    BY <1>2, <1>3 DEF Typed
  <1> HIDE DEF v
  <1>5. \A a \in Accounts : v[a].unlocked <= w[a].unlocked
    BY <1>1, <1>2, <1>3, <1>4
  <1>6. Typed(v) /\ NoMoreUnlocked(v, w)
    BY <1>4, <1>5 DEF Typed, NoMoreUnlocked
  <1> QED BY <1>6 DEF v

-----------------------------------------------------------------------------
\* What a step does to the accounts, for the two theorems below.

\* Gas comes last: it keeps the accounts within their balances and takes at
\* most itself from the locked part.
LEMMA EpilogueSound ==
    ASSUME NEW w, Typed(w), NEW a \in Accounts, NEW fees, NEW gas \in GasFees,
           Epilogue(a, w, fees, gas)
    PROVE  /\ Typed(accts)'
           /\ \A b \in Accounts :
                /\ accts'[b].bal - accts'[b].unlocked >= w[b].bal - w[b].unlocked - gas
                /\ w[b].unlocked <= w[b].bal => accts'[b].unlocked <= accts'[b].bal
           /\ UNCHANGED <<vals, reward, epoch>>
  <1>1. gas \in Nat
    BY LedgerAssumption
  <1>2. w[a].bal \in Nat
    BY DEF Typed, Acct
  <1>3. gas <= w[a].bal /\ accts' = Withdraw(w, a, gas) /\ UNCHANGED <<vals, reward, epoch>>
    BY <1>1, <1>2 DEF Epilogue, epochVars
  <1>4. /\ Typed(Withdraw(w, a, gas))
        /\ \A b \in Accounts :
             /\ Withdraw(w, a, gas)[b].bal - Withdraw(w, a, gas)[b].unlocked
                  >= w[b].bal - w[b].unlocked - gas
             /\ w[b].unlocked <= w[b].bal =>
                  Withdraw(w, a, gas)[b].unlocked <= Withdraw(w, a, gas)[b].bal
    BY <1>1, <1>3, WithdrawSound
  <1>5. Typed(accts') <=> Typed(accts)'
    BY DEF Typed, Acct
  <1> QED BY <1>3, <1>4, <1>5

\* Paying what is unlocked and held takes nothing that is locked.
LEMMA PaymentKeepsLocked ==
    ASSUME LedgerInv, NEW a \in Accounts, NEW n \in Nat, n <= unlocked_amount(a),
           n <= accts[a].bal
    PROVE  /\ Typed(Withdraw(accts, a, n))
           /\ Within(Withdraw(accts, a, n), wallets \ direct)
           /\ \A b \in wallets :
                Withdraw(accts, a, n)[b].bal - Withdraw(accts, a, n)[b].unlocked
                  >= accts[b].bal - accts[b].unlocked
  <1>1. /\ Typed(accts) /\ wallets \subseteq Accounts
        /\ Within(accts, wallets \ direct)
        /\ accts[a].bal \in Nat /\ accts[a].unlocked \in Nat
        /\ accts[a] \in Acct
        /\ \A b \in Accounts : accts[b].bal \in Nat /\ accts[b].unlocked \in Nat
    BY DEF LedgerInv, Typed, Acct
  <1>2. /\ Typed(Withdraw(accts, a, n))
        /\ \A b \in Accounts :
             /\ b # a => Withdraw(accts, a, n)[b] = accts[b]
             /\ accts[b].unlocked <= accts[b].bal =>
                  Withdraw(accts, a, n)[b].unlocked <= Withdraw(accts, a, n)[b].bal
    BY <1>1, WithdrawSound
  <1>3. Within(Withdraw(accts, a, n), wallets \ direct)
    BY <1>1, <1>2 DEF Within
  <1>4. ASSUME NEW b \in wallets
        PROVE  Withdraw(accts, a, n)[b].bal - Withdraw(accts, a, n)[b].unlocked
                 >= accts[b].bal - accts[b].unlocked
    <2>1. CASE b # a
      BY <1>1, <1>2, <2>1
    <2>2. CASE b = a
      <3>1. n <= accts[a].unlocked
        BY <2>2 DEF unlocked_amount
      <3>2. Withdraw(accts, a, n)[a] = Debit(accts[a], n)
        BY <1>1 DEF Withdraw, Typed
      <3> QED BY <1>1, <2>2, <3>1, <3>2 DEF Debit, Tracked
    <2> QED BY <2>1, <2>2
  <1> QED BY <1>2, <1>3, <1>4

\* What holds of a transaction's step.
UserOutcome ==
    /\ LedgerInv'
    /\ epoch' = epoch
    /\ wallets \subseteq wallets'
    /\ \E gas \in GasFees : \A b \in wallets :
          \/ b \in direct'
          \/ accts'[b].bal - accts'[b].unlocked >= accts[b].bal - accts[b].unlocked - gas

\* coin::transfer takes its coins and leaves the other wallets within theirs.
LEMMA MovedSound ==
    ASSUME NEW w, Typed(w), NEW a \in Accounts, NEW b \in Accounts, NEW n \in Nat,
           n <= w[a].bal
    PROVE  /\ Typed(Moved(w, a, b, n))
           /\ \A c \in Accounts : c # a =>
                /\ Moved(w, a, b, n)[c].unlocked = w[c].unlocked
                /\ Moved(w, a, b, n)[c].bal >= w[c].bal
  <1> DEFINE taken == [w EXCEPT ![a] = [bal |-> w[a].bal - n, unlocked |-> w[a].unlocked]]
  <1>1. \A c \in Accounts : w[c] \in Acct /\ w[c].bal \in Nat /\ w[c].unlocked \in Nat
    BY DEF Typed, Acct
  <1>2. [bal |-> w[a].bal - n, unlocked |-> w[a].unlocked] \in Acct
    BY <1>1 DEF Acct
  <1>3. /\ taken \in [Accounts -> Acct]
        /\ \A c \in Accounts : c # a => taken[c] = w[c]
    BY <1>2 DEF Typed
  <1>4. Moved(w, a, b, n) = [taken EXCEPT ![b] = CreditLocked(taken[b], n)]
    BY DEF Moved
  <1> HIDE DEF taken
  <1>5. /\ CreditLocked(taken[b], n) \in Acct
        /\ CreditLocked(taken[b], n).unlocked = taken[b].unlocked
        /\ CreditLocked(taken[b], n).bal = taken[b].bal + n
    BY <1>3, CreditLockedSound
  <1>6. /\ Moved(w, a, b, n) \in [Accounts -> Acct]
        /\ Moved(w, a, b, n)[b] = CreditLocked(taken[b], n)
        /\ \A c \in Accounts : c # b => Moved(w, a, b, n)[c] = taken[c]
    BY <1>3, <1>4, <1>5
  <1> QED BY <1>1, <1>3, <1>5, <1>6 DEF Typed

\* Every transaction keeps the invariant, and locked coins but for gas.
LEMMA UserStepSound ==
    ASSUME LedgerInv, UserStep
    PROVE  UserOutcome
  <1>1. PICK a \in Users, gas \in GasFees :
          \/ Abort(a, gas)
          \/ \E b \in Accounts, n \in Amounts :
                \/ Transfer(a, b, n, gas)
                \/ ScriptTransfer(a, b, n, gas)
                \/ CoinTransfer(a, b, n, gas)
          \/ SetSlow(a, gas)
          \/ Vouch(a, gas)
    BY DEF UserStep
  <1>2. /\ a \in Accounts /\ a \in live /\ gas \in Nat /\ Typed(accts)
        /\ live \subseteq Accounts /\ wallets \subseteq live /\ listed = wallets
        /\ wallets \subseteq Accounts /\ direct \subseteq wallets
        /\ \A b \in wallets \ direct : accts[b].unlocked <= accts[b].bal
        /\ vals \subseteq Accounts /\ reward \in Nat /\ epoch \in Nat
        /\ \A b \in Accounts : accts[b].bal \in Nat /\ accts[b].unlocked \in Nat
    BY LedgerAssumption DEF LedgerInv, Users, Typed, Acct, Within
  <1>3. ASSUME NEW w, Typed(w), NEW fees, Epilogue(a, w, fees, gas),
               \A b \in wallets :
                 b \in direct' \/ w[b].bal - w[b].unlocked >= accts[b].bal - accts[b].unlocked,
               \A b \in wallets' \ direct' : w[b].unlocked <= w[b].bal,
               direct' \subseteq wallets', live' \subseteq Accounts,
               wallets' \subseteq live', listed' = wallets',
               wallets \subseteq wallets'
        PROVE  UserOutcome
    <2>1. /\ Typed(accts)'
          /\ \A b \in Accounts :
               /\ accts'[b].bal - accts'[b].unlocked >= w[b].bal - w[b].unlocked - gas
               /\ w[b].unlocked <= w[b].bal => accts'[b].unlocked <= accts'[b].bal
          /\ UNCHANGED <<vals, reward, epoch>>
      BY <1>2, <1>3, EpilogueSound
    <2>2. \A b \in Accounts : /\ w[b].bal \in Nat /\ w[b].unlocked \in Nat
                              /\ accts'[b].bal \in Nat /\ accts'[b].unlocked \in Nat
      BY <1>3, <2>1 DEF Typed, Acct
    <2>3. \A b \in wallets :
            \/ b \in direct'
            \/ accts'[b].bal - accts'[b].unlocked >= accts[b].bal - accts[b].unlocked - gas
      BY <1>2, <1>3, <2>1, <2>2
    <2>4. Within(accts, wallets \ direct)'
      BY <1>3, <2>1 DEF Within
    <2>5. LedgerInv'
      BY <1>2, <1>3, <2>1, <2>4 DEF LedgerInv
    <2> QED BY <1>1, <1>3, <2>1, <2>3, <2>5 DEF UserOutcome
  <1>4. CASE Abort(a, gas)
    BY <1>2, <1>3, <1>4 DEF Abort
  <1>5. ASSUME NEW b \in Accounts, NEW n \in Amounts, n <= unlocked_amount(a),
               n <= accts[a].bal
        PROVE  LET w == Credit(Withdraw(accts, a, n), b, n)
               IN  /\ Typed(w)
                   /\ \A c \in wallets \ direct : w[c].unlocked <= w[c].bal
                   /\ \A c \in wallets : w[c].bal - w[c].unlocked
                                            >= accts[c].bal - accts[c].unlocked
    <2>1. n \in Nat
      BY LedgerAssumption
    <2>2. /\ Typed(Withdraw(accts, a, n))
          /\ \A c \in wallets \ direct :
               Withdraw(accts, a, n)[c].unlocked <= Withdraw(accts, a, n)[c].bal
          /\ \A c \in wallets :
               Withdraw(accts, a, n)[c].bal - Withdraw(accts, a, n)[c].unlocked
                 >= accts[c].bal - accts[c].unlocked
      BY <1>2, <1>5, <2>1, PaymentKeepsLocked DEF Within
    <2> QED BY <1>2, <2>1, <2>2, CreditSound
  <1>6. ASSUME NEW b \in Accounts, NEW n \in Amounts,
               Transfer(a, b, n, gas) \/ ScriptTransfer(a, b, n, gas)
        PROVE  UserOutcome
    <2>1. n \in Nat /\ unlocked_amount(a) \in Nat
      BY <1>2, LedgerAssumption DEF unlocked_amount
    <2>2. /\ n <= unlocked_amount(a) /\ n <= accts[a].bal
          /\ Epilogue(a, Credit(Withdraw(accts, a, n), b, n), 0, gas)
          /\ live' \subseteq Accounts /\ live \subseteq live'
          /\ wallets' = wallets /\ listed' = listed /\ direct' = direct
      BY <1>2, <1>6, <2>1 DEF Transfer, ScriptTransfer
    <2> QED BY <1>2, <1>3, <1>5, <2>2
  <1>9. ASSUME NEW b \in Accounts, NEW n \in Amounts, CoinTransfer(a, b, n, gas)
        PROVE  UserOutcome
    <2> DEFINE w == Moved(accts, a, b, n)
    <2>1. /\ n <= accts[a].bal /\ Epilogue(a, w, 0, gas)
          /\ direct' = direct \cup ({a} \cap wallets)
          /\ live' = live /\ wallets' = wallets /\ listed' = listed
      BY <1>9 DEF CoinTransfer
    <2>2. n \in Nat
      BY LedgerAssumption
    <2>3. /\ Typed(w)
          /\ \A c \in Accounts : c # a =>
               w[c].unlocked = accts[c].unlocked /\ w[c].bal >= accts[c].bal
      BY <1>2, <2>1, <2>2, MovedSound
    <2> HIDE DEF w
    <2>4. \A c \in Accounts : w[c].bal \in Nat /\ w[c].unlocked \in Nat
      BY <2>3 DEF Typed, Acct
    <2>5. /\ \A c \in wallets :
               c \in direct' \/ w[c].bal - w[c].unlocked >= accts[c].bal - accts[c].unlocked
          /\ \A c \in wallets' \ direct' : w[c].unlocked <= w[c].bal
      BY <1>2, <2>1, <2>3, <2>4
    <2> QED BY <1>2, <1>3, <2>1, <2>3, <2>5
  <1>7. CASE SetSlow(a, gas)
    <2> DEFINE w == IF a \in wallets THEN accts
                    ELSE [accts EXCEPT ![a] = [bal |-> @.bal, unlocked |-> @.bal]]
    <2>1. /\ Epilogue(a, w, 0, gas) /\ direct' = direct
          /\ listed' = listed \cup {a} /\ wallets' = wallets \cup {a} /\ live' = live
      BY <1>7 DEF SetSlow
    <2>2. CASE a \in wallets
      BY <1>2, <1>3, <2>1, <2>2
    <2>3. CASE a \notin wallets
      <3>1. w = [accts EXCEPT ![a] = [bal |-> accts[a].bal, unlocked |-> accts[a].bal]]
        BY <2>3
      <3> HIDE DEF w
      <3>2. /\ w \in [Accounts -> Acct]
            /\ w[a] = [bal |-> accts[a].bal, unlocked |-> accts[a].bal]
            /\ \A b \in Accounts : b # a => w[b] = accts[b]
        BY <1>2, <3>1 DEF Typed, Acct
      <3>3. Typed(w) /\ \A b \in wallets' \ direct' : w[b].unlocked <= w[b].bal
        BY <1>2, <2>1, <3>2 DEF Typed
      <3>4. \A b \in wallets : w[b].bal - w[b].unlocked >= accts[b].bal - accts[b].unlocked
        BY <1>2, <2>3, <3>2
      <3> QED BY <1>2, <1>3, <2>1, <3>3, <3>4
    <2> QED BY <2>2, <2>3
  <1>8. CASE Vouch(a, gas)
    <2>1. VouchPrice \in Nat
      BY <1>2, LedgerAssumption DEF VouchPrice
    <2>2. /\ VouchPrice <= unlocked_amount(a) /\ VouchPrice <= accts[a].bal
          /\ Epilogue(a, Withdraw(accts, a, VouchPrice), VouchPrice, gas)
          /\ UNCHANGED <<live, wallets, listed, direct>>
      BY <1>8 DEF Vouch
    <2>3. /\ Typed(Withdraw(accts, a, VouchPrice))
          /\ \A b \in wallets \ direct :
               Withdraw(accts, a, VouchPrice)[b].unlocked <= Withdraw(accts, a, VouchPrice)[b].bal
          /\ \A b \in wallets :
               Withdraw(accts, a, VouchPrice)[b].bal - Withdraw(accts, a, VouchPrice)[b].unlocked
                 >= accts[b].bal - accts[b].unlocked
      BY <1>2, <2>1, <2>2, PaymentKeepsLocked DEF Within
    <2> QED BY <1>2, <1>3, <2>2, <2>3
  <1> QED BY <1>1, <1>4, <1>6, <1>7, <1>8, <1>9

\* A boundary from accounts `w` that are no more unlocked than `accts`.
LEMMA BoundarySound ==
    ASSUME LedgerInv, NEW w, Typed(w), NoMoreUnlocked(w, accts), NEW rest,
           NEW compliant, NEW paid, NEW seated \in SUBSET (Users \cap wallets),
           NEW fee \in EntryFees, NEW nextReward \in Rewards,
           Boundary(w, rest, compliant, paid, seated, fee, nextReward)
    PROVE  /\ LedgerInv'
           /\ wallets' = wallets
           /\ \A a \in Accounts : accts'[a].unlocked <= accts[a].unlocked + Drip
  <1> DEFINE before == PayRewards(w, paid)
             after == DripAll(before)
             paying == AbleToPay(after, seated, fee)
             final == Collect(after, paying, fee)
  <1>1. /\ accts' = final /\ vals' = seated /\ reward' = nextReward /\ epoch' = epoch + 1
        /\ direct' = {} /\ UNCHANGED <<live, wallets, listed>>
    BY DEF Boundary
  <1>2. /\ fee \in Nat /\ nextReward \in Nat /\ Drip \in Nat /\ reward \in Nat
        /\ listed \subseteq Accounts /\ listed = wallets
    BY LedgerAssumption DEF LedgerInv
  <1>3. Typed(before) /\ NoMoreUnlocked(before, w)
    BY <1>2, PayRewardsSound
  <1> HIDE DEF before
  <1>4. /\ Typed(after) /\ Within(after, listed)
        /\ \A a \in Accounts : after[a].unlocked <= before[a].unlocked + Drip
    BY <1>2, <1>3, DripSound
  <1> HIDE DEF after
  <1>5. Typed(final) /\ NoMoreUnlocked(final, after) /\ Within(final, listed)
    BY <1>2, <1>4, CollectSound
  <1> HIDE DEF final
  <1>6. \A a \in Accounts : /\ w[a].unlocked \in Nat /\ accts[a].unlocked \in Nat
                            /\ before[a].unlocked \in Nat /\ after[a].unlocked \in Nat
                            /\ final[a].unlocked \in Nat
    BY <1>3, <1>4, <1>5 DEF LedgerInv, Typed, Acct
  <1>7. \A a \in Accounts : accts'[a].unlocked <= accts[a].unlocked + Drip
    BY <1>1, <1>2, <1>3, <1>4, <1>5, <1>6 DEF NoMoreUnlocked
  <1>8. Typed(accts)' /\ Within(accts, wallets \ direct)'
    BY <1>1, <1>2, <1>5 DEF Typed, Acct, Within
  <1>9. LedgerInv'
    BY <1>1, <1>2, <1>8 DEF LedgerInv, Users
  <1> QED BY <1>1, <1>7, <1>9

\* The three things the donor voice stage may do, and then the rest.
LEMMA BoundaryStepSound ==
    ASSUME LedgerInv, BoundaryStep
    PROVE  /\ LedgerInv'
           /\ wallets' = wallets
           /\ epoch' # epoch
           /\ \A a \in Accounts : accts'[a].unlocked <= accts[a].unlocked + Drip
  <1> DEFINE Outcome(compliant, seated, fee, nextReward, paid) ==
            \/ Boundary(Billed, 0, compliant, paid, seated, fee, nextReward)
            \/ \E c \in Caged, b \in live, n \in Amounts :
                /\ c # b
                /\ n <= Billed[c].bal
                /\ \/ /\ b \in wallets
                      /\ Boundary(Donate(Billed, c, b, n), 0,
                                  compliant, paid, seated, fee, nextReward)
                   \/ Boundary(Liquidate(Billed, c, b, n), Billed[c].bal - n,
                               compliant, paid, seated, fee, nextReward)
  <1>0. PICK compliant \in SUBSET vals, seated \in SUBSET (Users \cap wallets),
             fee \in EntryFees, nextReward \in Rewards :
          \E paid \in SUBSET compliant : Outcome(compliant, seated, fee, nextReward, paid)
    BY DEF BoundaryStep
  <1>1. PICK paid \in SUBSET compliant : Outcome(compliant, seated, fee, nextReward, paid)
    BY <1>0
  <1>2. Typed(accts) /\ live \subseteq Accounts
    BY DEF LedgerInv
  <1>3. Typed(Billed) /\ NoMoreUnlocked(Billed, accts)
    BY <1>2, BilledSound
  <1>4. PICK w, rest : /\ Typed(w) /\ NoMoreUnlocked(w, accts)
                       /\ Boundary(w, rest, compliant, paid, seated, fee, nextReward)
    <2>1. CASE Boundary(Billed, 0, compliant, paid, seated, fee, nextReward)
      BY <1>3, <2>1
    <2>2. ASSUME NEW c \in Caged, NEW b \in live, NEW n \in Amounts, c # b,
                 n <= Billed[c].bal
          PROVE  /\ Typed(Donate(Billed, c, b, n))
                 /\ NoMoreUnlocked(Donate(Billed, c, b, n), accts)
                 /\ Typed(Liquidate(Billed, c, b, n))
                 /\ NoMoreUnlocked(Liquidate(Billed, c, b, n), accts)
      <3>1. c \in Accounts /\ b \in Accounts /\ n \in Nat
        BY <1>2, LedgerAssumption
      <3>2. Billed[c].bal \in Nat
        BY <1>3, <3>1 DEF Typed, Acct
      <3>3. /\ Typed(Donate(Billed, c, b, n))
            /\ NoMoreUnlocked(Donate(Billed, c, b, n), Billed)
        BY <1>3, <2>2, <3>1, <3>2, DonationSound DEF Donate
      <3>4. /\ Typed(Liquidate(Billed, c, b, n))
            /\ NoMoreUnlocked(Liquidate(Billed, c, b, n), Billed)
        BY <1>3, <2>2, <3>1, <3>2, DonationSound DEF Liquidate
      <3>5. ASSUME NEW v, Typed(v), NoMoreUnlocked(v, Billed)
            PROVE  NoMoreUnlocked(v, accts)
        <4>1. \A a \in Accounts : /\ v[a].unlocked \in Nat
                                  /\ Billed[a].unlocked \in Nat
                                  /\ accts[a].unlocked \in Nat
          BY <1>2, <1>3, <3>5 DEF Typed, Acct
        <4> QED BY <1>3, <3>5, <4>1 DEF NoMoreUnlocked
      <3> QED BY <3>3, <3>4, <3>5
    <2>3. CASE \E c \in Caged, b \in live, n \in Amounts :
                /\ c # b
                /\ n <= Billed[c].bal
                /\ \/ /\ b \in wallets
                      /\ Boundary(Donate(Billed, c, b, n), 0,
                                  compliant, paid, seated, fee, nextReward)
                   \/ Boundary(Liquidate(Billed, c, b, n), Billed[c].bal - n,
                               compliant, paid, seated, fee, nextReward)
      BY <2>2, <2>3
    <2> QED BY <1>1, <2>1, <2>3
  <1>5. epoch' = epoch + 1 /\ epoch < MaxEpoch
    BY <1>4 DEF Boundary, LedgerInv
  <1>6. /\ LedgerInv' /\ wallets' = wallets
        /\ \A a \in Accounts : accts'[a].unlocked <= accts[a].unlocked + Drip
    BY <1>4, BoundarySound
  <1>7. epoch \in Nat
    BY DEF LedgerInv
  <1> QED BY <1>5, <1>6, <1>7

-----------------------------------------------------------------------------
\* Genesis lists the wallets it makes, and unlocks no more than it gives.
LEMMA InitSound ==
    ASSUME Init
    PROVE  LedgerInv
  <1>1. /\ live \subseteq Accounts /\ wallets \subseteq live /\ listed = wallets
        /\ vals \subseteq Accounts /\ reward \in Nat /\ epoch \in Nat
        /\ direct = {}
    BY LedgerAssumption DEF Init, Users
  <1>2. ASSUME NEW a \in Accounts
        PROVE  accts[a] \in Acct /\ accts[a].unlocked <= accts[a].bal
    BY LedgerAssumption DEF Init, Acct
  <1>3. accts \in [Accounts -> Acct]
    BY <1>2 DEF Init
  <1> QED BY <1>1, <1>2, <1>3 DEF LedgerInv, Typed, Within

\* The invariant of the ledger holds of every reachable state.
THEOREM LedgerInvariant == Spec => []LedgerInv
  <1>1. Init => LedgerInv
    BY InitSound
  <1>2. LedgerInv /\ [Next]_vars => LedgerInv'
    <2> SUFFICES ASSUME LedgerInv, [Next]_vars PROVE LedgerInv'
      OBVIOUS
    <2>1. CASE UserStep
      BY <2>1, UserStepSound DEF UserOutcome
    <2>2. CASE BoundaryStep
      BY <2>2, BoundaryStepSound
    <2>3. CASE UNCHANGED vars
      BY <2>3 DEF vars, epochVars, LedgerInv, Typed, Within
    <2> QED BY <2>1, <2>2, <2>3 DEF Next
  <1> QED BY <1>1, <1>2, PTL DEF Spec

\* No sequence of transactions, bills, payments, rewards, drips and fees
\* leaves a slow wallet with more unlocked than it holds, but for those that
\* used coin::transfer since the last boundary.
THEOREM UnlockedIsHeld == Spec => []UnlockedWithinBalance
  <1>1. LedgerInv => UnlockedWithinBalance
    BY DEF LedgerInv, Within, UnlockedWithinBalance
  <1> QED BY <1>1, LedgerInvariant, PTL

\* Every listed account has its wallet: the drip loop never meets one that
\* makes it spin for want of the resource.
THEOREM ListedHaveWallets == Spec => [](listed \subseteq wallets)
  <1>1. LedgerInv => listed \subseteq wallets
    BY DEF LedgerInv
  <1> QED BY <1>1, LedgerInvariant, PTL

\* Locked coins leave a slow wallet only as gas, or in an epoch in which it
\* uses coin::transfer itself; a boundary unlocks at most the drip, and slow
\* wallets stay slow.
THEOREM LockedStay == Spec => LockedCoinsStay
  <1> DEFINE Stay == /\ wallets \subseteq wallets'
                     /\ \A a \in wallets :
                          IF epoch' = epoch
                          THEN a \in direct' \/ \E gas \in GasFees : Locked(a)' >= Locked(a) - gas
                          ELSE accts'[a].unlocked <= accts[a].unlocked + Drip
  <1>1. LedgerInv /\ [Next]_vars => [Stay]_vars
    <2> SUFFICES ASSUME LedgerInv, [Next]_vars PROVE [Stay]_vars
      OBVIOUS
    <2>1. CASE UserStep
      BY <2>1, UserStepSound DEF UserOutcome, Locked
    <2>2. CASE BoundaryStep
      <3>1. wallets \subseteq Accounts
        BY DEF LedgerInv
      <3> QED BY <2>2, <3>1, BoundaryStepSound
    <2>3. CASE UNCHANGED vars
      BY <2>3
    <2> QED BY <2>1, <2>2, <2>3 DEF Next
  <1> QED BY <1>1, LedgerInvariant, PTL DEF Spec, LockedCoinsStay

-----------------------------------------------------------------------------
\* The books. Every stage of a transaction or a boundary has a lemma on the
\* coins in the accounts; sums over all accounts change by the sum of what
\* their members change by (Sums_proofs).

\* Accounts hold a natural number of coins.
LEMMA HeldNat ==
    ASSUME NEW w, Typed(w)
    PROVE  Held(w) \in Nat
  <1> DEFINE f == [a \in Accounts |-> w[a].bal]
  <1>1. \A a \in DOMAIN f : f[a] \in Nat
    BY DEF Typed, Acct
  <1>2. IsFiniteSet(DOMAIN f)
    BY LedgerAssumption
  <1> HIDE DEF f
  <1>3. SumFunctionOnSet(f, DOMAIN f) \in Nat
    BY <1>1, <1>2, SumNat
  <1> QED BY <1>3 DEF Held, SumFunction, f

\* The accounts of `P` hold `d` more, the others what they held.
LEMMA HeldPart ==
    ASSUME NEW w, Typed(w), NEW v, NEW P, P \subseteq Accounts, NEW d,
           \A a \in P : d[a] \in Int,
           \A a \in P : v[a].bal = w[a].bal + d[a],
           \A a \in Accounts \ P : v[a].bal = w[a].bal
    PROVE  Held(v) = Held(w) + SumFunctionOnSet(d, P)
  <1> DEFINE f == [a \in Accounts |-> w[a].bal]
             g == [a \in Accounts |-> v[a].bal]
  <1>1. /\ \A a \in Accounts : f[a] \in Int
        /\ \A a \in P : g[a] = f[a] + d[a]
        /\ \A a \in Accounts \ P : g[a] = f[a]
    BY DEF Typed, Acct
  <1>2. IsFiniteSet(Accounts)
    BY LedgerAssumption
  <1>3. DOMAIN f = Accounts /\ DOMAIN g = Accounts
    OBVIOUS
  <1> HIDE DEF f, g
  <1>4. SumFunctionOnSet(g, Accounts) = SumFunctionOnSet(f, Accounts) + SumFunctionOnSet(d, P)
    BY <1>1, <1>2, SumPart
  <1>5. Held(w) = SumFunctionOnSet(f, Accounts) /\ Held(v) = SumFunctionOnSet(g, Accounts)
    BY <1>3 DEF Held, SumFunction, f, g
  <1> QED BY <1>4, <1>5

\* One account changes.
LEMMA HeldOne ==
    ASSUME NEW w, Typed(w), NEW v, NEW a \in Accounts, NEW n \in Int,
           v[a].bal = w[a].bal + n,
           \A b \in Accounts : b # a => v[b].bal = w[b].bal
    PROVE  Held(v) = Held(w) + n
  <1> DEFINE d == [b \in {a} |-> n]
  <1>1. \A b \in {a} : d[b] = n /\ v[b].bal = w[b].bal + d[b]
    OBVIOUS
  <1> HIDE DEF d
  <1>2. Held(v) = Held(w) + SumFunctionOnSet(d, {a})
    BY <1>1, HeldPart
  <1>3. SumFunctionOnSet(d, {a}) = n
    <2>1. IsFiniteSet({a}) /\ Cardinality({a}) = 1
      BY FS_Singleton
    <2>2. SumFunctionOnSet(d, {a}) = Cardinality({a}) * n
      BY <1>1, <2>1, SumConstant
    <2> QED BY <2>1, <2>2
  <1> QED BY <1>2, <1>3

\* A number of accounts change alike.
LEMMA HeldMany ==
    ASSUME NEW w, Typed(w), NEW v, NEW P, P \subseteq Accounts, NEW n \in Int,
           \A a \in P : v[a].bal = w[a].bal + n,
           \A a \in Accounts \ P : v[a].bal = w[a].bal
    PROVE  Held(v) = Held(w) + Cardinality(P) * n
  <1> DEFINE d == [b \in P |-> n]
  <1>1. \A b \in P : d[b] = n /\ v[b].bal = w[b].bal + d[b]
    OBVIOUS
  <1> HIDE DEF d
  <1>2. Held(v) = Held(w) + SumFunctionOnSet(d, P)
    BY <1>1, HeldPart
  <1>3. IsFiniteSet(P)
    BY LedgerAssumption, FS_Subset
  <1>4. SumFunctionOnSet(d, P) = Cardinality(P) * n
    BY <1>1, <1>3, SumConstant
  <1> QED BY <1>2, <1>4

\* None changes its balance.
LEMMA HeldSame ==
    ASSUME NEW w, Typed(w), NEW v, \A a \in Accounts : v[a].bal = w[a].bal
    PROVE  Held(v) = Held(w)
  <1>1. Held(v) = Held(w) + SumFunctionOnSet(w, {})
    BY HeldPart
  <1> QED BY <1>1, SumEmpty, HeldNat

\* A withdrawal.
LEMMA HeldWithdraw ==
    ASSUME NEW w, Typed(w), NEW a \in Accounts, NEW n \in Nat, n <= w[a].bal
    PROVE  Held(Withdraw(w, a, n)) = Held(w) - n
  <1>1. /\ Withdraw(w, a, n)[a].bal = w[a].bal + (- n)
        /\ \A b \in Accounts : b # a => Withdraw(w, a, n)[b].bal = w[b].bal
    <2>1. w[a].bal \in Nat
      BY DEF Typed, Acct
    <2> QED BY <2>1, WithdrawSound
  <1>2. Held(Withdraw(w, a, n)) = Held(w) + (- n)
    BY <1>1, HeldOne
  <1> QED BY <1>2, HeldNat

\* An open deposit.
LEMMA HeldCredit ==
    ASSUME NEW w, Typed(w), NEW b \in Accounts, NEW n \in Nat
    PROVE  Held(Credit(w, b, n)) = Held(w) + n
  <1>1. /\ Credit(w, b, n)[b].bal = w[b].bal + n
        /\ \A c \in Accounts : c # b => Credit(w, b, n)[c].bal = w[c].bal
    BY DEF Credit, Typed
  <1> QED BY <1>1, HeldOne

\* The rewards of those who are paid.
LEMMA HeldPayRewards ==
    ASSUME NEW w, Typed(w), NEW S, S \subseteq Accounts, reward \in Nat
    PROVE  Held(PayRewards(w, S)) = Held(w) + Cardinality(S) * reward
  <1>1. ASSUME NEW a \in Accounts
        PROVE  PayRewards(w, S)[a].bal = IF a \in S THEN w[a].bal + reward ELSE w[a].bal
    <2>1. w[a] \in Acct
      BY DEF Typed
    <2>2. CreditLocked(w[a], reward).bal = w[a].bal + reward
      BY <2>1, CreditLockedSound
    <2> QED BY <2>2 DEF PayRewards
  <1> QED BY <1>1, HeldMany

\* The drip moves no coins.
LEMMA HeldDrip ==
    ASSUME NEW w, Typed(w)
    PROVE  Held(DripAll(w)) = Held(w)
  <1>1. ASSUME NEW a \in Accounts
        PROVE  DripAll(w)[a].bal = w[a].bal
    <2>1. w[a] \in Acct
      BY DEF Typed
    <2> QED BY <2>1 DEF DripAll, Acct
  <1> QED BY <1>1, HeldSame

\* The entry fees of those who can pay.
LEMMA HeldCollect ==
    ASSUME NEW w, Typed(w), NEW S, S \subseteq Accounts, NEW fee \in Nat
    PROVE  LET paying == AbleToPay(w, S, fee)
           IN  Held(Collect(w, paying, fee)) = Held(w) - Cardinality(paying) * fee
  <1> DEFINE paying == AbleToPay(w, S, fee)
  <1>1. paying \subseteq Accounts /\ IsFiniteSet(paying)
    BY LedgerAssumption, FS_Subset DEF AbleToPay
  <1>2. ASSUME NEW a \in Accounts
        PROVE  Collect(w, paying, fee)[a].bal
                 = IF a \in paying THEN w[a].bal + (- fee) ELSE w[a].bal
    <2>1. w[a].bal \in Nat
      BY DEF Typed, Acct
    <2> HIDE DEF paying
    <2> QED BY <2>1 DEF Collect, Debit
  <1> HIDE DEF paying
  <1>3. Held(Collect(w, paying, fee)) = Held(w) + Cardinality(paying) * (- fee)
    BY <1>1, <1>2, HeldMany
  <1>4. Cardinality(paying) \in Nat /\ Held(w) \in Nat
    BY <1>1, FS_CardinalityType, HeldNat
  <1>5. Held(Collect(w, paying, fee)) = Held(w) - Cardinality(paying) * fee
    BY <1>3, <1>4
  <1> QED BY <1>5 DEF paying

\* The bills leave the safes and come to the sum of the bills.
LEMMA HeldBilled ==
    ASSUME Typed(accts)
    PROVE  Held(Billed) = Held(accts) - Bills /\ Bills \in Nat
  <1> DEFINE d == [s \in Safes |-> - Bill(s)]
             b == [s \in Safes |-> Bill(s)]
             z == [s \in Safes |-> 0]
  <1>1. Safes \subseteq Accounts /\ IsFiniteSet(Safes)
    BY LedgerAssumption, FS_Subset
  <1>2. \A s \in Safes : Bill(s) \in Nat /\ Bill(s) <= accts[s].bal /\ accts[s].bal \in Nat
    BY <1>1, BillWithinBalance DEF Typed, Acct
  <1>3. /\ \A s \in Safes : Billed[s].bal = accts[s].bal + d[s]
        /\ \A a \in Accounts \ Safes : Billed[a].bal = accts[a].bal
    BY <1>1, <1>2 DEF Billed, Debit
  <1>4. /\ \A s \in Safes : d[s] \in Int /\ b[s] \in Nat /\ z[s] = 0 /\ z[s] = d[s] + b[s]
        /\ DOMAIN b = Safes
    BY <1>2
  <1> HIDE DEF d, b, z
  <1>5. Held(Billed) = Held(accts) + SumFunctionOnSet(d, Safes)
    BY <1>1, <1>3, <1>4, HeldPart
  <1>6. SumFunctionOnSet(z, Safes) = SumFunctionOnSet(d, Safes) + SumFunctionOnSet(b, Safes)
    BY <1>1, <1>4, SumPart
  <1>7. SumFunctionOnSet(z, Safes) = Cardinality(Safes) * 0
    BY <1>1, <1>4, SumConstant
  <1>8. /\ SumFunctionOnSet(d, Safes) \in Int /\ SumFunctionOnSet(b, Safes) \in Nat
        /\ Cardinality(Safes) \in Nat /\ Held(accts) \in Nat
    BY <1>1, <1>4, SumInt, SumNat, FS_CardinalityType, HeldNat
  <1>9. Bills = SumFunctionOnSet(b, Safes)
    BY <1>4 DEF Bills, SumFunction, b
  <1> QED BY <1>5, <1>6, <1>7, <1>8, <1>9

\* What leaves a community wallet and what arrives.
LEMMA HeldDonation ==
    ASSUME NEW w, Typed(w), NEW c \in Accounts, NEW b \in Accounts, c # b,
           NEW m \in Nat, NEW n \in Nat, m <= w[c].bal
    PROVE  Held([w EXCEPT ![c] = Debit(@, m), ![b] = CreditLocked(@, n)])
             = Held(w) - m + n
  <1> DEFINE v == [w EXCEPT ![c] = Debit(@, m), ![b] = CreditLocked(@, n)]
             u == Withdraw(w, c, m)
  <1>1. Typed(u) /\ Held(u) = Held(w) - m
    BY WithdrawSound, HeldWithdraw
  <1>2. /\ v[c].bal = u[c].bal
        /\ v[b].bal = w[b].bal + n /\ u[b] = w[b]
        /\ \A a \in Accounts : a # c /\ a # b => v[a] = w[a] /\ u[a] = w[a]
    <2>1. w[b] \in Acct
      BY DEF Typed
    <2>2. CreditLocked(w[b], n).bal = w[b].bal + n
      BY <2>1, CreditLockedSound
    <2> QED BY <2>2 DEF Withdraw, Typed
  <1> HIDE DEF u, v
  <1>3. Held(v) = Held(u) + n
    BY <1>1, <1>2, HeldOne
  <1> QED BY <1>1, <1>3 DEF v

\* coin::transfer moves coins from one account to another, or to itself.
LEMMA HeldMoved ==
    ASSUME NEW w, Typed(w), NEW a \in Accounts, NEW b \in Accounts, NEW n \in Nat,
           n <= w[a].bal
    PROVE  Held(Moved(w, a, b, n)) = Held(w)
  <1> DEFINE taken == [w EXCEPT ![a] = [bal |-> w[a].bal - n, unlocked |-> w[a].unlocked]]
  <1>1. w[a].bal \in Nat /\ w[a].unlocked \in Nat
    BY DEF Typed, Acct
  <1>2. /\ Typed(taken)
        /\ taken[a].bal = w[a].bal + (- n)
        /\ \A c \in Accounts : c # a => taken[c].bal = w[c].bal
    BY <1>1 DEF Typed, Acct
  <1>3. Moved(w, a, b, n) = [taken EXCEPT ![b] = CreditLocked(taken[b], n)]
    BY DEF Moved
  <1> HIDE DEF taken
  <1>4. Held(taken) = Held(w) + (- n)
    BY <1>2, HeldOne
  <1>5. CreditLocked(taken[b], n).bal = taken[b].bal + n
    BY <1>2, CreditLockedSound DEF Typed
  <1>6. /\ Moved(w, a, b, n)[b].bal = taken[b].bal + n
        /\ \A c \in Accounts : c # b => Moved(w, a, b, n)[c].bal = taken[c].bal
    BY <1>2, <1>3, <1>5 DEF Typed
  <1>7. Held(Moved(w, a, b, n)) = Held(taken) + n
    BY <1>2, <1>6, HeldOne
  <1> QED BY <1>4, <1>7, HeldNat

\* The fees: who is tracked has paid.
LEMMA TrackedFees ==
    ASSUME made \in [Accounts -> Nat], makers = {a \in Accounts : made[a] > 0},
           feesMade = SumFunction(made), NEW a \in Accounts, NEW n \in Nat, n > 0,
           TrackFees({a}, n)
    PROVE  /\ made' \in [Accounts -> Nat]
           /\ makers' = {b \in Accounts : made'[b] > 0}
           /\ feesMade' = SumFunction(made')
  <1>1. /\ made' = [b \in Accounts |-> IF b \in {a} THEN made[b] + n ELSE made[b]]
        /\ makers' = makers \cup {a}
        /\ feesMade' = feesMade + Cardinality({a}) * n
    BY DEF TrackFees
  <1>2. made' \in [Accounts -> Nat]
    BY <1>1
  <1>3. makers' = {b \in Accounts : made'[b] > 0}
    BY <1>1
  <1>4. SumFunctionOnSet(made', Accounts) = SumFunctionOnSet(made, Accounts) + n
    <2>1. /\ made'[a] = made[a] + n
          /\ \A b \in Accounts \ {a} : made'[b] = made[b]
          /\ \A b \in Accounts : made[b] \in Int
      BY <1>1
    <2>2. IsFiniteSet(Accounts)
      BY LedgerAssumption
    <2> QED BY <2>1, <2>2, SumOne
  <1>5. Cardinality({a}) = 1
    BY FS_Singleton
  <1>6. Cardinality({a}) * n = n
    BY <1>5
  <1>7. SumFunction(made') = SumFunctionOnSet(made', Accounts)
    BY <1>2 DEF SumFunction
  <1>8. SumFunction(made) = SumFunctionOnSet(made, Accounts)
    BY DEF SumFunction
  <1> QED BY <1>1, <1>2, <1>3, <1>4, <1>6, <1>7, <1>8

\* The books and all that they need.
LedgerBooks ==
    /\ LedgerInv
    /\ epoch <= MaxEpoch
    /\ vals \subseteq Users
    /\ makers \subseteq live
    /\ pot \in Nat
    /\ burned \in Nat
    /\ made \in [Accounts -> Nat]
    /\ pledged \in [Pledgers -> Nat]
    /\ BooksBalance

\* The coins a transaction pays for gas and fees are in the pot.
LEMMA EpilogueBooks ==
    ASSUME NEW w, Typed(w), NEW a \in Accounts, NEW fees \in Nat, NEW gas \in GasFees,
           Epilogue(a, w, fees, gas), pot \in Nat
    PROVE  /\ pot' \in Nat
           /\ pot' + Held(accts)' = pot + fees + Held(w)
           /\ UNCHANGED <<epoch, pledged, available, vals, reward, supply, burned>>
  <1>1. gas \in Nat /\ w[a].bal \in Nat /\ Held(w) \in Nat
    BY LedgerAssumption, HeldNat DEF Typed, Acct
  <1>2. /\ gas <= w[a].bal /\ accts' = Withdraw(w, a, gas) /\ pot' = pot + fees + gas
        /\ UNCHANGED <<epoch, pledged, available, vals, reward, supply, burned>>
    BY <1>1 DEF Epilogue, epochVars
  <1>3. Held(accts') = Held(w) - gas
    BY <1>1, <1>2, HeldWithdraw
  <1>4. Held(accts)' = Held(accts')
    BY DEF Held
  <1> QED BY <1>1, <1>2, <1>3, <1>4

\* Every transaction keeps the books.
LEMMA UserStepBooks ==
    ASSUME LedgerBooks, UserStep
    PROVE  LedgerBooks'
  <1>0. LedgerInv /\ LedgerInv'
    BY UserStepSound DEF LedgerBooks, UserOutcome
  <1>1. PICK a \in Users, gas \in GasFees :
          \/ Abort(a, gas)
          \/ \E b \in Accounts, n \in Amounts :
                \/ Transfer(a, b, n, gas)
                \/ ScriptTransfer(a, b, n, gas)
                \/ CoinTransfer(a, b, n, gas)
          \/ SetSlow(a, gas)
          \/ Vouch(a, gas)
    BY DEF UserStep
  <1>2. /\ a \in Accounts /\ a \in live /\ gas \in Nat /\ Typed(accts)
        /\ pot \in Nat /\ reward \in Nat /\ epoch \in Nat
        /\ makers \subseteq live /\ makers = {b \in Accounts : made[b] > 0}
        /\ made \in [Accounts -> Nat] /\ feesMade = SumFunction(made)
        /\ \A b \in Accounts : accts[b].bal \in Nat /\ accts[b].unlocked \in Nat
        /\ Held(accts) \in Nat
    BY <1>0, LedgerAssumption, HeldNat DEF LedgerInv, LedgerBooks, BooksBalance, Users, Typed, Acct
  <1>3. ASSUME NEW w, Typed(w), NEW fees \in Nat, Epilogue(a, w, fees, gas),
               Held(w) + fees = Held(accts), live \subseteq live', makers' \subseteq live',
               made' \in [Accounts -> Nat],
               makers' = {b \in Accounts : made'[b] > 0},
               feesMade' = SumFunction(made')
        PROVE  LedgerBooks'
    <2>1. /\ pot' \in Nat
          /\ pot' + Held(accts)' = pot + fees + Held(w)
          /\ UNCHANGED <<epoch, pledged, available, vals, reward, supply, burned>>
      BY <1>2, <1>3, EpilogueBooks
    <2>2. SumFunction(pledged)' = SumFunction(pledged)
      BY <2>1
    <2>3. Held(w) \in Nat /\ Held(accts') \in Nat /\ Held(accts)' = Held(accts')
      BY <1>0, <1>3, HeldNat DEF LedgerInv, Typed, Held, Acct
    <2>4. SumFunction(pledged) \in Nat
      <3>1. \A p \in Pledgers : pledged[p] \in Nat
        BY DEF LedgerBooks
      <3>2. SumFunctionOnSet(pledged, Pledgers) \in Nat
        BY <3>1, LedgerAssumption, SumNat
      <3> QED BY <3>2 DEF SumFunction, LedgerBooks
    <2>5. supply' = pot' + Held(accts)' + SumFunction(pledged)'
      BY <1>2, <1>3, <2>1, <2>2, <2>3, <2>4 DEF LedgerBooks, BooksBalance
    <2>6. BooksBalance'
      BY <1>3, <2>1, <2>2, <2>5 DEF LedgerBooks, BooksBalance
    <2>7. (vals \subseteq Users)'
      BY <1>3, <2>1 DEF LedgerBooks, Users
    <2> QED BY <1>0, <1>3, <2>1, <2>6, <2>7 DEF LedgerBooks
  <1>4. CASE Abort(a, gas)
    BY <1>2, <1>3, <1>4 DEF Abort, feeVars
  <1>5. ASSUME NEW b \in Accounts, NEW n \in Amounts, CoinTransfer(a, b, n, gas)
        PROVE  LedgerBooks'
    <2> DEFINE w == Moved(accts, a, b, n)
    <2>1. /\ n <= accts[a].bal /\ Epilogue(a, w, 0, gas)
          /\ UNCHANGED <<live, made, makers, feesMade>>
      BY <1>5 DEF CoinTransfer, feeVars
    <2>2. n \in Nat
      BY LedgerAssumption
    <2>3. Typed(w) /\ Held(w) = Held(accts)
      BY <1>2, <2>1, <2>2, MovedSound, HeldMoved
    <2> HIDE DEF w
    <2>4. Held(w) + 0 = Held(accts)
      BY <1>2, <2>3
    <2>5. /\ made' \in [Accounts -> Nat] /\ makers' = {c \in Accounts : made'[c] > 0}
          /\ feesMade' = SumFunction(made') /\ makers' \subseteq live'
      BY <1>2, <2>1
    <2> QED BY <1>3, <2>1, <2>3, <2>4, <2>5
  <1>6. ASSUME NEW b \in Accounts, NEW n \in Amounts,
               Transfer(a, b, n, gas) \/ ScriptTransfer(a, b, n, gas)
        PROVE  LedgerBooks'
    <2>2. n \in Nat /\ unlocked_amount(a) \in Nat
      BY <1>2, LedgerAssumption DEF unlocked_amount
    <2> DEFINE w == Credit(Withdraw(accts, a, n), b, n)
    <2>3. /\ n <= unlocked_amount(a) /\ n <= accts[a].bal
          /\ Epilogue(a, w, 0, gas)
          /\ live \subseteq live' /\ UNCHANGED <<made, makers, feesMade>>
      BY <1>2, <1>6, <2>2 DEF Transfer, ScriptTransfer, feeVars
    <2>4. n <= accts[a].bal /\ Typed(Withdraw(accts, a, n))
      BY <1>0, <1>2, <2>2, <2>3, PaymentKeepsLocked
    <2>5. Held(Withdraw(accts, a, n)) = Held(accts) - n
      BY <1>2, <2>2, <2>4, HeldWithdraw
    <2>6. Held(w) = Held(Withdraw(accts, a, n)) + n /\ Typed(w)
      BY <2>2, <2>4, HeldCredit, CreditSound
    <2> HIDE DEF w
    <2>7. Held(w) + 0 = Held(accts)
      BY <1>2, <2>2, <2>5, <2>6
    <2>8. /\ made' \in [Accounts -> Nat] /\ makers' = {c \in Accounts : made'[c] > 0}
          /\ feesMade' = SumFunction(made') /\ makers' \subseteq live'
      BY <1>2, <2>3
    <2> QED BY <1>3, <2>3, <2>6, <2>7, <2>8
  <1>7. CASE SetSlow(a, gas)
    <2> DEFINE w == IF a \in wallets THEN accts
                    ELSE [accts EXCEPT ![a] = [bal |-> @.bal, unlocked |-> @.bal]]
    <2>1. Epilogue(a, w, 0, gas) /\ UNCHANGED <<live, made, makers, feesMade>>
      BY <1>7 DEF SetSlow, feeVars
    <2>2. Typed(w) /\ \A b \in Accounts : w[b].bal = accts[b].bal
      <3>1. CASE a \in wallets
        BY <1>2, <3>1
      <3>2. CASE a \notin wallets
        <4>1. w = [accts EXCEPT ![a] = [bal |-> accts[a].bal, unlocked |-> accts[a].bal]]
          BY <3>2
        <4> HIDE DEF w
        <4>2. /\ w \in [Accounts -> Acct]
              /\ w[a] = [bal |-> accts[a].bal, unlocked |-> accts[a].bal]
              /\ \A b \in Accounts : b # a => w[b] = accts[b]
          BY <1>2, <4>1 DEF Typed, Acct
        <4> QED BY <1>2, <4>2 DEF Typed
      <3> QED BY <3>1, <3>2
    <2> HIDE DEF w
    <2>3. Held(w) + 0 = Held(accts)
      BY <1>2, <2>2, HeldSame
    <2> QED BY <1>2, <1>3, <2>1, <2>2, <2>3
  <1>8. CASE Vouch(a, gas)
    <2>1. VouchPrice \in Nat
      BY <1>2, LedgerAssumption DEF VouchPrice
    <2> DEFINE w == Withdraw(accts, a, VouchPrice)
    <2>2. /\ VouchPrice > 0 /\ VouchPrice <= unlocked_amount(a) /\ VouchPrice <= accts[a].bal
          /\ TrackFees({a}, VouchPrice)
          /\ Epilogue(a, w, VouchPrice, gas)
          /\ UNCHANGED <<live, wallets, listed>>
      BY <1>8 DEF Vouch
    <2>3. Typed(w) /\ VouchPrice <= accts[a].bal
      BY <1>0, <1>2, <2>1, <2>2, PaymentKeepsLocked
    <2>4. Held(w) = Held(accts) - VouchPrice
      BY <1>2, <2>1, <2>3, HeldWithdraw
    <2>5. /\ made' \in [Accounts -> Nat]
          /\ makers' = {b \in Accounts : made'[b] > 0}
          /\ feesMade' = SumFunction(made')
      BY <1>2, <2>1, <2>2, TrackedFees
    <2>6. makers' \subseteq live'
      BY <1>2, <2>2 DEF TrackFees
    <2> HIDE DEF w
    <2>7. Held(w) + VouchPrice = Held(accts)
      BY <1>2, <2>1, <2>4
    <2> QED BY <1>3, <2>1, <2>2, <2>3, <2>5, <2>6, <2>7
  <1> QED BY <1>1, <1>4, <1>5, <1>6, <1>7, <1>8

-----------------------------------------------------------------------------
\* The boundary. The rewards do not exceed the fees.
LEMMA RewardsWithinFees ==
    ASSUME NEW fees \in Nat, NEW k \in Nat, reward \in Nat
    PROVE  /\ NumberPaid(k, fees) \in Nat
           /\ NumberPaid(k, fees) * reward <= fees
  <1>1. CASE fees = 0
    BY <1>1 DEF NumberPaid
  <1>2. CASE fees # 0 /\ k * reward <= fees
    BY <1>2 DEF NumberPaid
  <1>3. CASE fees # 0 /\ ~(k * reward <= fees)
    <2>1. NumberPaid(k, fees) = fees \div reward
      BY <1>3 DEF NumberPaid
    <2>2. reward > 0
      <3>1. CASE reward = 0
        <4>1. k * 0 = 0
          OBVIOUS
        <4> QED BY <1>3, <3>1, <4>1
      <3> QED BY <3>1
    <2>3. fees \div reward \in Nat /\ reward * (fees \div reward) <= fees
      BY <2>2
    <2> QED BY <2>1, <2>3
  <1> QED BY <1>1, <1>2, <1>3

\* The escrow pays what it draws, and draws no more than a pledge.
LEMMA DrawnFromPledges ==
    ASSUME LedgerBooks, NEW budget \in Nat
    PROVE  LET draw == DrawAll(budget)
               rest == [p \in Pledgers |-> pledged[p] - draw[p]]
           IN  /\ SumFunction(draw) \in Nat
               /\ rest \in [Pledgers -> Nat]
               /\ SumFunction(rest) = SumFunction(pledged) - SumFunction(draw)
               /\ SumFunction(pledged) \in Nat
  <1> DEFINE draw == DrawAll(budget)
             rest == [p \in Pledgers |-> pledged[p] - draw[p]]
  <1>1. /\ IsFiniteSet(Pledgers) /\ One \in Nat /\ One > 0
        /\ \A p \in Pledgers : pledged[p] \in Nat
        /\ pledged \in [Pledgers -> Nat]
        /\ available = SumFunction(pledged)
    BY LedgerAssumption DEF LedgerBooks, BooksBalance
  <1>2. SumFunction(pledged) = SumFunctionOnSet(pledged, Pledgers)
    BY <1>1 DEF SumFunction
  <1>3. SumFunctionOnSet(pledged, Pledgers) \in Nat
    BY <1>1, SumNat
  <1>4. available \in Nat
    BY <1>1, <1>2, <1>3
  <1>5. ASSUME NEW p \in Pledgers
        PROVE  draw[p] \in Nat /\ draw[p] <= pledged[p]
    <2>1. draw[p] = IF available = 0 THEN 0 ELSE Drawn(p, budget)
      BY DEF DrawAll
    <2>2. CASE available = 0
      BY <1>1, <2>1, <2>2
    <2>3. CASE available # 0
      <3> DEFINE rate == (budget * One) \div available
                 share == (pledged[p] * rate) \div One
      <3>1. budget * One \in Nat /\ available > 0
        BY <1>1, <1>4, <2>3
      <3>2. rate \in Nat
        BY <1>4, <3>1
      <3>3. pledged[p] * rate \in Nat
        BY <1>1, <3>2
      <3>4. share \in Nat
        <4> HIDE DEF rate
        <4> QED BY <1>1, <3>3
      <3>5. Drawn(p, budget) = IF share <= pledged[p] THEN share ELSE 0
        BY DEF Drawn
      <3> HIDE DEF share
      <3> QED BY <1>1, <2>1, <2>3, <3>4, <3>5
    <2> QED BY <2>2, <2>3
  <1>6. rest \in [Pledgers -> Nat] /\ DOMAIN draw = Pledgers /\ DOMAIN rest = Pledgers
    <2>1. \A p \in Pledgers : pledged[p] - draw[p] \in Nat
      BY <1>1, <1>5
    <2> QED BY <2>1 DEF DrawAll
  <1>7. \A p \in Pledgers : pledged[p] = rest[p] + draw[p] /\ rest[p] \in Int /\ draw[p] \in Nat
    BY <1>1, <1>5
  <1> HIDE DEF draw, rest
  <1>8. /\ SumFunctionOnSet(pledged, Pledgers)
             = SumFunctionOnSet(rest, Pledgers) + SumFunctionOnSet(draw, Pledgers)
        /\ SumFunctionOnSet(draw, Pledgers) \in Nat
        /\ SumFunctionOnSet(rest, Pledgers) \in Int
    BY <1>1, <1>7, SumPart, SumNat, SumInt
  <1>9. /\ SumFunction(draw) = SumFunctionOnSet(draw, Pledgers)
        /\ SumFunction(rest) = SumFunctionOnSet(rest, Pledgers)
    BY <1>6 DEF SumFunction
  <1>10. /\ SumFunction(draw) \in Nat
         /\ rest \in [Pledgers -> Nat]
         /\ SumFunction(rest) = SumFunction(pledged) - SumFunction(draw)
         /\ SumFunction(pledged) \in Nat
    BY <1>2, <1>3, <1>6, <1>8, <1>9
  <1> QED BY <1>10 DEF draw, rest

\* The fee makers start again with the entry fees.
LEMMA EntryFeesTracked ==
    ASSUME LedgerBooks, NEW paying, paying \subseteq Accounts, NEW fee \in Nat,
           paying # {} => fee > 0,
           made' = [a \in Accounts |-> IF a \in paying THEN fee
                                       ELSE IF a \in makers THEN 0 ELSE made[a]]
    PROVE  /\ made' \in [Accounts -> Nat]
           /\ paying = {a \in Accounts : made'[a] > 0}
           /\ SumFunction(made') = Cardinality(paying) * fee
  <1>1. /\ made \in [Accounts -> Nat] /\ makers = {a \in Accounts : made[a] > 0}
        /\ IsFiniteSet(Accounts) /\ IsFiniteSet(paying)
    BY LedgerAssumption, FS_Subset DEF LedgerBooks, BooksBalance
  <1>2. \A a \in Accounts : made'[a] = IF a \in paying THEN fee ELSE 0
    BY <1>1
  <1>3. made' \in [Accounts -> Nat]
    BY <1>1
  <1>4. paying = {a \in Accounts : made'[a] > 0}
    BY <1>2
  <1> DEFINE z == [a \in Accounts |-> 0]
             d == [a \in paying |-> fee]
  <1>5. /\ \A a \in Accounts : z[a] = 0 /\ z[a] \in Int
        /\ \A a \in paying : d[a] = fee /\ made'[a] = z[a] + d[a]
        /\ \A a \in Accounts \ paying : made'[a] = z[a]
    BY <1>2
  <1> HIDE DEF z, d
  <1>6. SumFunctionOnSet(made', Accounts)
          = SumFunctionOnSet(z, Accounts) + SumFunctionOnSet(d, paying)
    BY <1>1, <1>5, SumPart
  <1>7. SumFunctionOnSet(z, Accounts) = 0
    BY <1>1, <1>5, SumZero
  <1>8. SumFunctionOnSet(d, paying) = Cardinality(paying) * fee /\ Cardinality(paying) \in Nat
    <2>1. \A a \in paying : d[a] = fee
      BY DEF d
    <2>2. fee \in Int
      OBVIOUS
    <2> QED BY <1>1, <2>1, <2>2, SumConstant, FS_CardinalityType
  <1>9. SumFunction(made') = SumFunctionOnSet(made', Accounts)
    BY <1>3 DEF SumFunction
  <1>10. SumFunction(made') = Cardinality(paying) * fee
    BY <1>6, <1>7, <1>8, <1>9
  <1> QED BY <1>3, <1>4, <1>10

\* A boundary from accounts `w`, with what left them for the pot.
LEMMA BoundaryBooks ==
    ASSUME LedgerBooks, NEW w, Typed(w), NoMoreUnlocked(w, accts), NEW rest \in Nat,
           Held(w) + Bills + rest = Held(accts),
           NEW compliant \in SUBSET vals, NEW paid \in SUBSET compliant,
           NEW seated \in SUBSET (Users \cap wallets),
           NEW fee \in EntryFees, NEW nextReward \in Rewards,
           Boundary(w, rest, compliant, paid, seated, fee, nextReward)
    PROVE  LedgerBooks'
  <1> DEFINE fees == pot + Bills + rest
             left == fees - Cardinality(paid) * reward
             before == PayRewards(w, paid)
             after == DripAll(before)
             paying == AbleToPay(after, seated, fee)
             budget == Cardinality(seated) * nextReward + 1
             draw == DrawAll(budget)
             drawn == SumFunction(draw)
             kept == [p \in Pledgers |-> pledged[p] - draw[p]]
             final == Collect(after, paying, fee)
  <1>1. /\ epoch < MaxEpoch
        /\ Cardinality(paid) = NumberPaid(Cardinality(compliant), fees)
        /\ epoch' = epoch + 1 /\ accts' = final /\ vals' = seated
        /\ reward' = nextReward /\ supply' = supply - left /\ burned' = burned + left
        /\ pledged' = kept /\ available' = available - drawn
        /\ pot' = Cardinality(paying) * fee + drawn
        /\ made' = [a \in Accounts |-> IF a \in paying THEN fee
                                       ELSE IF a \in makers THEN 0 ELSE made[a]]
        /\ makers' = paying
        /\ feesMade' = Cardinality(paying) * fee
        /\ UNCHANGED <<live, wallets, listed>>
    BY DEF Boundary
  <1>2. LedgerInv /\ LedgerInv'
    BY BoundarySound DEF LedgerBooks
  <1>3. /\ fee \in Nat /\ nextReward \in Nat /\ reward \in Nat /\ epoch \in Nat
        /\ pot \in Nat /\ burned \in Nat /\ MaxEpoch \in Nat /\ Typed(accts)
        /\ live \subseteq Accounts /\ vals \subseteq live /\ IsFiniteSet(Accounts)
        /\ listed \subseteq Accounts
        /\ seated \subseteq live /\ seated \subseteq Accounts /\ seated \subseteq Users
        /\ paid \subseteq Accounts /\ compliant \subseteq Accounts
    BY <1>2, LedgerAssumption DEF LedgerBooks, LedgerInv, Users
  <1>4. /\ Cardinality(paid) \in Nat /\ Cardinality(compliant) \in Nat
        /\ Cardinality(seated) \in Nat
    BY <1>3, FS_Subset, FS_CardinalityType
  <1>5. Bills \in Nat
    BY <1>3, HeldBilled
  <1>6. fees \in Nat
    BY <1>3, <1>5
  <1>7. left \in Nat /\ left = fees - Cardinality(paid) * reward
    <2> DEFINE owed == Cardinality(paid) * reward
    <2>1. owed \in Nat /\ owed <= fees
      <3> HIDE DEF fees
      <3>1. NumberPaid(Cardinality(compliant), fees) * reward <= fees
        BY <1>3, <1>4, <1>6, RewardsWithinFees
      <3> QED BY <1>1, <1>3, <1>4, <3>1
    <2> QED BY <1>6, <2>1
  <1>8. budget \in Nat
    BY <1>3, <1>4
  <1> HIDE DEF budget
  <1>9. /\ drawn \in Nat /\ kept \in [Pledgers -> Nat]
        /\ SumFunction(kept) = SumFunction(pledged) - drawn
        /\ SumFunction(pledged) \in Nat
    BY <1>8, DrawnFromPledges
  <1> HIDE DEF draw, drawn, kept
  <1>10. Typed(before) /\ Held(before) = Held(w) + Cardinality(paid) * reward
    BY <1>3, PayRewardsSound, HeldPayRewards
  <1> HIDE DEF before
  <1>11. Typed(after) /\ Held(after) = Held(before)
    BY <1>3, <1>10, DripSound, HeldDrip
  <1> HIDE DEF after
  <1>12. Held(final) = Held(after) - Cardinality(paying) * fee
    BY <1>3, <1>11, HeldCollect
  <1>13. paying \subseteq seated /\ paying \subseteq Accounts /\ (paying # {} => fee > 0)
    BY <1>3 DEF AbleToPay
  <1>14. Cardinality(paying) \in Nat
    BY <1>3, <1>13, FS_Subset, FS_CardinalityType
  <1> HIDE DEF paying, final
  <1>15. /\ made' \in [Accounts -> Nat]
         /\ paying = {a \in Accounts : made'[a] > 0}
         /\ SumFunction(made') = Cardinality(paying) * fee
    BY <1>1, <1>3, <1>13, EntryFeesTracked
  <1> DEFINE inPot == Cardinality(paying) * fee
             owed == Cardinality(paid) * reward
  <1>16. inPot \in Nat /\ owed \in Nat
    BY <1>3, <1>4, <1>14
  <1>17. Held(accts)' = Held(accts') /\ SumFunction(pledged)' = SumFunction(pledged')
    BY DEF Held
  <1>18. /\ supply = pot + Held(accts) + SumFunction(pledged)
         /\ supply + burned = StartSupply
         /\ available = SumFunction(pledged)
    BY DEF LedgerBooks, BooksBalance
  <1>19. /\ Held(w) \in Nat /\ Held(accts) \in Nat
    BY <1>3, HeldNat
  <1>20. /\ Held(final) = (Held(w) + owed) - inPot
         /\ left = (pot + Bills + rest) - owed
         /\ pot' = inPot + drawn
    <2>1. Held(final) = (Held(w) + owed) - inPot
      BY <1>10, <1>11, <1>12
    <2>2. left = (pot + Bills + rest) - owed
      OBVIOUS
    <2>3. pot' = inPot + drawn
      BY <1>1
    <2> QED BY <2>1, <2>2, <2>3
  <1> HIDE DEF inPot, owed, left, fees
  <1>21. supply' = pot' + Held(accts)' + SumFunction(pledged)'
    <2>1. supply' = pot' + Held(final) + SumFunction(kept)
      BY <1>1, <1>3, <1>5, <1>7, <1>9, <1>16, <1>18, <1>19, <1>20
    <2> QED BY <1>1, <1>17, <2>1
  <1>22. supply' + burned' = StartSupply
    BY <1>1, <1>3, <1>7, <1>9, <1>18, <1>19
  <1>23. available' = SumFunction(pledged)'
    BY <1>1, <1>9, <1>17, <1>18
  <1>24. BooksBalance'
    <2>1. feesMade' = SumFunction(made') /\ makers' = {a \in Accounts : made'[a] > 0}
      BY <1>1, <1>15
    <2> QED BY <1>21, <1>22, <1>23, <2>1 DEF BooksBalance
  <1>25. /\ (epoch <= MaxEpoch)' /\ (vals \subseteq Users)' /\ (makers \subseteq live)'
         /\ (pledged \in [Pledgers -> Nat])'
    BY <1>1, <1>3, <1>9, <1>13 DEF Users
  <1>26. pot' \in Nat /\ burned' \in Nat
    BY <1>1, <1>3, <1>7, <1>9, <1>16, <1>20
  <1> QED BY <1>2, <1>15, <1>24, <1>25, <1>26 DEF LedgerBooks

\* The three things the donor voice stage may do; what a liquidation keeps
\* back of the wallet is in the pot.
LEMMA BoundaryStepBooks ==
    ASSUME LedgerBooks, BoundaryStep
    PROVE  LedgerBooks'
  <1> DEFINE Outcome(compliant, seated, fee, nextReward, paid) ==
            \/ Boundary(Billed, 0, compliant, paid, seated, fee, nextReward)
            \/ \E c \in Caged, b \in live, n \in Amounts :
                /\ c # b
                /\ n <= Billed[c].bal
                /\ \/ /\ b \in wallets
                      /\ Boundary(Donate(Billed, c, b, n), 0,
                                  compliant, paid, seated, fee, nextReward)
                   \/ Boundary(Liquidate(Billed, c, b, n), Billed[c].bal - n,
                               compliant, paid, seated, fee, nextReward)
  <1>0. PICK compliant \in SUBSET vals, seated \in SUBSET (Users \cap wallets),
             fee \in EntryFees, nextReward \in Rewards :
          \E paid \in SUBSET compliant : Outcome(compliant, seated, fee, nextReward, paid)
    BY DEF BoundaryStep
  <1>1. PICK paid \in SUBSET compliant : Outcome(compliant, seated, fee, nextReward, paid)
    BY <1>0
  <1>2. Typed(accts) /\ live \subseteq Accounts
    BY DEF LedgerBooks, LedgerInv
  <1>3. Typed(Billed) /\ NoMoreUnlocked(Billed, accts)
    BY <1>2, BilledSound
  <1>4. /\ Held(Billed) = Held(accts) - Bills /\ Bills \in Nat
        /\ Held(accts) \in Nat /\ Held(Billed) \in Nat
    BY <1>2, <1>3, HeldBilled, HeldNat
  <1>5. CASE Boundary(Billed, 0, compliant, paid, seated, fee, nextReward)
    <2>1. Held(Billed) + Bills + 0 = Held(accts)
      BY <1>4
    <2> QED BY <1>3, <1>5, <2>1, BoundaryBooks
  <1>6. ASSUME NEW c \in Caged, NEW b \in live, NEW n \in Amounts, c # b,
               n <= Billed[c].bal,
               \/ Boundary(Donate(Billed, c, b, n), 0,
                           compliant, paid, seated, fee, nextReward)
               \/ Boundary(Liquidate(Billed, c, b, n), Billed[c].bal - n,
                           compliant, paid, seated, fee, nextReward)
        PROVE  LedgerBooks'
    <2>1. c \in Accounts /\ b \in Accounts /\ n \in Nat
      BY <1>2, LedgerAssumption
    <2>2. Billed[c].bal \in Nat
      BY <1>3, <2>1 DEF Typed, Acct
    <2>3. ASSUME NEW v, Typed(v), NoMoreUnlocked(v, Billed)
          PROVE  NoMoreUnlocked(v, accts)
      <3>1. \A a \in Accounts : /\ v[a].unlocked \in Nat
                                /\ Billed[a].unlocked \in Nat
                                /\ accts[a].unlocked \in Nat
        BY <1>2, <1>3, <2>3 DEF Typed, Acct
      <3> QED BY <1>3, <2>3, <3>1 DEF NoMoreUnlocked
    <2>4. CASE Boundary(Donate(Billed, c, b, n), 0,
                        compliant, paid, seated, fee, nextReward)
      <3> DEFINE v == Donate(Billed, c, b, n)
      <3>1. /\ Typed(v) /\ NoMoreUnlocked(v, Billed)
            /\ Held(v) = Held(Billed) - n + n
        BY <1>3, <1>6, <2>1, <2>2, DonationSound, HeldDonation DEF Donate
      <3> HIDE DEF v
      <3>2. NoMoreUnlocked(v, accts)
        BY <2>3, <3>1
      <3>3. Held(v) + Bills + 0 = Held(accts)
        BY <1>4, <2>1, <3>1
      <3> QED BY <2>4, <3>1, <3>2, <3>3, BoundaryBooks DEF v
    <2>5. CASE Boundary(Liquidate(Billed, c, b, n), Billed[c].bal - n,
                        compliant, paid, seated, fee, nextReward)
      <3> DEFINE v == Liquidate(Billed, c, b, n)
                 rest == Billed[c].bal - n
      <3>1. /\ Typed(v) /\ NoMoreUnlocked(v, Billed)
            /\ Held(v) = Held(Billed) - Billed[c].bal + n
        BY <1>3, <1>6, <2>1, <2>2, DonationSound, HeldDonation DEF Liquidate
      <3> HIDE DEF v
      <3>2. NoMoreUnlocked(v, accts)
        BY <2>3, <3>1
      <3>3. rest \in Nat /\ Held(v) + Bills + rest = Held(accts)
        BY <1>4, <1>6, <2>1, <2>2, <3>1
      <3>4. Boundary(v, rest, compliant, paid, seated, fee, nextReward)
        BY <2>5 DEF v
      <3> HIDE DEF rest
      <3> QED BY <3>1, <3>2, <3>3, <3>4, BoundaryBooks
    <2> QED BY <1>6, <2>4, <2>5
  <1> QED BY <1>1, <1>5, <1>6

-----------------------------------------------------------------------------
\* The books of the ledger are kept in every reachable state.
THEOREM BooksInvariant == Spec => []LedgerBooks
  <1>1. Init => LedgerBooks
    <2> SUFFICES ASSUME Init PROVE LedgerBooks
      OBVIOUS
    <2>1. LedgerInv
      BY InitSound
    <2>2. /\ epoch = 0 /\ MaxEpoch \in Nat /\ vals \subseteq Users /\ makers = {}
          /\ pot = 0 /\ burned = 0 /\ made = [a \in Accounts |-> 0] /\ feesMade = 0
          /\ pledged = StartPledge /\ StartPledge \in [Pledgers -> Nat]
          /\ available = SumFunction(StartPledge) /\ supply = StartSupply
          /\ IsFiniteSet(Accounts) /\ IsFiniteSet(Pledgers)
          /\ DOMAIN StartBalance \subseteq Accounts
          /\ \A a \in DOMAIN StartBalance : StartBalance[a] \in Nat
      BY LedgerAssumption DEF Init
    <2>3. feesMade = SumFunction(made) /\ makers = {a \in Accounts : made[a] > 0}
      <3>1. DOMAIN made = Accounts /\ \A a \in Accounts : made[a] = 0
        BY <2>2
      <3>2. SumFunctionOnSet(made, Accounts) = 0
        BY <2>2, <3>1, SumZero
      <3>3. SumFunction(made) = 0
        BY <3>1, <3>2 DEF SumFunction
      <3> QED BY <2>2, <3>1, <3>3
    <2>4. Held(accts) = SumFunction(StartBalance)
      <3> DEFINE z == [a \in Accounts |-> 0]
                 f == [a \in Accounts |-> accts[a].bal]
      <3>1. /\ \A a \in Accounts : z[a] = 0 /\ z[a] \in Int
            /\ \A a \in DOMAIN StartBalance : f[a] = z[a] + StartBalance[a]
            /\ \A a \in Accounts \ DOMAIN StartBalance : f[a] = z[a]
            /\ DOMAIN f = Accounts
        BY <2>2 DEF Init
      <3>2. Held(accts) = SumFunctionOnSet(f, Accounts)
        BY DEF Held, SumFunction
      <3> HIDE DEF z, f
      <3>3. SumFunctionOnSet(f, Accounts)
              = SumFunctionOnSet(z, Accounts) + SumFunctionOnSet(StartBalance, DOMAIN StartBalance)
        BY <2>2, <3>1, SumPart
      <3>4. SumFunctionOnSet(z, Accounts) = 0
        BY <2>2, <3>1, SumZero
      <3>5. SumFunctionOnSet(StartBalance, DOMAIN StartBalance) \in Nat
        BY <2>2, FS_Subset, SumNat
      <3> QED BY <3>2, <3>3, <3>4, <3>5 DEF SumFunction
    <2>5. Held(accts) \in Nat /\ SumFunction(pledged) \in Nat
      <3>1. Held(accts) \in Nat
        BY <2>1, HeldNat DEF LedgerInv
      <3>2. DOMAIN pledged = Pledgers /\ \A p \in Pledgers : pledged[p] \in Nat
        BY <2>2
      <3>3. SumFunctionOnSet(pledged, Pledgers) \in Nat
        BY <2>2, <3>2, SumNat
      <3> QED BY <3>1, <3>2, <3>3 DEF SumFunction
    <2>6. supply = pot + Held(accts) + SumFunction(pledged) /\ supply + burned = StartSupply
      BY <2>2, <2>4, <2>5 DEF StartSupply
    <2> QED BY <2>1, <2>2, <2>3, <2>6 DEF LedgerBooks, BooksBalance
  <1>2. LedgerBooks /\ [Next]_vars => LedgerBooks'
    <2> SUFFICES ASSUME LedgerBooks, [Next]_vars PROVE LedgerBooks'
      OBVIOUS
    <2>1. CASE UserStep
      BY <2>1, UserStepBooks
    <2>2. CASE BoundaryStep
      BY <2>2, BoundaryStepBooks
    <2>3. CASE UNCHANGED vars
      BY <2>3 DEF vars, epochVars, feeVars, LedgerBooks, LedgerInv, Typed, Within, BooksBalance, Held, Users
    <2> QED BY <2>1, <2>2, <2>3 DEF Next
  <1> QED BY <1>1, <1>2, PTL DEF Spec

\* No path loses or makes coins, for every set of accounts: balances, pot and
\* escrow add up to the supply, what is missing of it is counted as burnt,
\* and the escrow's and the fee makers' totals are those of their entries.
THEOREM CoinsAreConserved == Spec => []BooksBalance
  <1>1. LedgerBooks => BooksBalance
    BY DEF LedgerBooks
  <1> QED BY <1>1, BooksInvariant, PTL

\* The state of the ledger keeps its types: no balance, fee, pledge or burn
\* counter ever goes below zero (u64 in the code, where that aborts).
THEOREM LedgerTypes == Spec => []TypeOK
  <1>1. LedgerBooks => TypeOK
    <2> SUFFICES ASSUME LedgerBooks PROVE TypeOK
      OBVIOUS
    <2>1. SumFunction(pledged) \in Nat /\ SumFunction(made) \in Nat /\ Held(accts) \in Nat
      <3>1. /\ DOMAIN pledged = Pledgers /\ \A p \in Pledgers : pledged[p] \in Nat
            /\ DOMAIN made = Accounts /\ \A a \in Accounts : made[a] \in Nat
            /\ IsFiniteSet(Pledgers) /\ IsFiniteSet(Accounts)
        BY LedgerAssumption DEF LedgerBooks
      <3>2. SumFunctionOnSet(pledged, Pledgers) \in Nat /\ SumFunctionOnSet(made, Accounts) \in Nat
        BY <3>1, SumNat
      <3>3. Held(accts) \in Nat
        BY HeldNat DEF LedgerBooks, LedgerInv
      <3> QED BY <3>1, <3>2, <3>3 DEF SumFunction
    <2>2. epoch \in 0 .. MaxEpoch
      BY LedgerAssumption DEF LedgerBooks, LedgerInv
    <2>3. supply \in Int /\ feesMade \in Nat /\ available \in Int
      BY <2>1 DEF LedgerBooks, BooksBalance
    <2> QED BY <2>2, <2>3 DEF LedgerBooks, LedgerInv, Typed, Acct, TypeOK
  <1> QED BY <1>1, BooksInvariant, PTL

\* The drip of the next boundary comes to its end: each listed account has a
\* wallet, and what it has unlocked is within the supply, which fits a u64,
\* unless it used coin::transfer since the last boundary.
THEOREM DripAlwaysAdvances == Spec => []DripAdvances
  <1>1. LedgerBooks => DripAdvances
    <2> SUFFICES ASSUME LedgerBooks, NEW a \in listed
                 PROVE  /\ a \in wallets
                        /\ a \in direct \/ accts[a].unlocked + Drip < MaxU64
      BY DEF DripAdvances
    <2>1. a \in wallets /\ a \in Accounts /\ Typed(accts)
      BY DEF LedgerBooks, LedgerInv
    <2>2. /\ accts[a].unlocked \in Nat /\ accts[a].bal \in Nat
          /\ a \in direct \/ accts[a].unlocked <= accts[a].bal
      BY <2>1 DEF LedgerBooks, LedgerInv, Within, Typed, Acct
    <2>3. accts[a].bal <= Held(accts)
      <3> DEFINE f == [b \in Accounts |-> accts[b].bal]
      <3>1. /\ DOMAIN f = Accounts /\ f[a] = accts[a].bal
            /\ \A b \in Accounts : f[b] \in Nat
        BY <2>1 DEF Typed, Acct
      <3>2. Held(accts) = SumFunctionOnSet(f, Accounts)
        BY DEF Held, SumFunction
      <3> HIDE DEF f
      <3>3. f[a] <= SumFunctionOnSet(f, Accounts)
        BY <2>1, <3>1, LedgerAssumption, SumBound
      <3> QED BY <3>1, <3>2, <3>3
    <2>4. SumFunction(pledged) \in Nat
      <3>1. /\ DOMAIN pledged = Pledgers /\ \A p \in Pledgers : pledged[p] \in Nat
            /\ IsFiniteSet(Pledgers)
        BY LedgerAssumption DEF LedgerBooks
      <3>2. SumFunctionOnSet(pledged, Pledgers) \in Nat
        BY <3>1, SumNat
      <3> QED BY <3>1, <3>2 DEF SumFunction
    <2>5. Held(accts) \in Nat /\ pot \in Nat /\ burned \in Nat
      BY <2>1, HeldNat DEF LedgerBooks
    <2>6. Held(accts) <= StartSupply /\ StartSupply \in Nat
      BY <2>4, <2>5 DEF LedgerBooks, BooksBalance
    <2>7. Drip \in Nat /\ MaxU64 \in Nat
      BY LedgerAssumption
    <2> QED BY <2>1, <2>2, <2>3, <2>5, <2>6, <2>7, SupplyAssumption
  <1> QED BY <1>1, BooksInvariant, PTL
=============================================================================
