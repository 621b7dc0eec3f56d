----------------------------- MODULE DonorVoice -----------------------------
(***************************************************************************)
(* Donor voice wallets: the payments that the authorities of a wallet have *)
(* approved wait in a schedule (donor_voice_txs.move) while the donors may *)
(* vote to veto them or to liquidate the wallet                            *)
(* (donor_voice_governance.move); the epoch boundary liquidates and pays.  *)
(*                                                                         *)
(* An abort rolls a transaction back, the epoch boundary included, so a    *)
(* failed assertion is an action that is not enabled. A payment's guid is  *)
(* its number among the payments of its wallet.                            *)
(***************************************************************************)
EXTENDS TurnoutTally, Sequences, FiniteSets, SequencesExt

CONSTANTS
    Wallets,            \* registered wallets
    ToMatchIndex,       \* those with liquidate_to_match_index
    PaymentDelay,       \* DEFAULT_PAYMENT_DURATION
    VetoDuration,       \* DEFAULT_VETO_DURATION, which is propose_gov's minimum
    LiquidateDuration,  \* duration of a liquidation ballot
    Values,             \* amounts of payments
    InitialDonations,   \* what donors may have given before, by wallet
    Gifts,              \* amounts of donations
    MaxEpoch,           \* bound on the epoch
    MaxPayments,        \* bound on the payments of a wallet
    MaxDonated          \* bound on the donations to a wallet

Donors == Voters

ASSUME DonorVoiceAssumption ==
    /\ IsFiniteSet(Voters)
    /\ IsFiniteSet(Wallets)
    /\ ToMatchIndex \subseteq Wallets
    /\ PaymentDelay \in Nat
    /\ VetoDuration \in Nat
    /\ LiquidateDuration \in Nat
    /\ Values \subseteq Nat
    /\ InitialDonations \subseteq [Wallets -> [Donors -> Nat]]
    /\ Gifts \subseteq Nat
    /\ MaxEpoch \in Nat
    /\ MaxPayments \in Nat
    /\ MaxDonated \in Nat

VARIABLES
    epoch,          \* epoch_helper::get_current_epoch()
    balance,        \* coins of each wallet
    enrolled,       \* CumulativeDeposits.value
    donated,        \* UserReceipts.cumulative, by wallet and donor
    made,           \* number of payments approved so far
    scheduled,      \* TxSchedule.scheduled
    vetoed,         \* TxSchedule.veto
    paid,           \* TxSchedule.paid
    rejections,     \* Freeze.consecutive_rejections
    frozen,         \* Freeze.is_frozen
    vetoes,         \* Governance<TurnoutTally<Veto>>: pending ballots by payment
    liquidation,    \* Governance<TurnoutTally<Liquidate>>: the pending list
    queue,          \* Registry.liquidation_queue
    refunded,       \* history: coins given back to each donor
    swept           \* history: coins sent to the transaction fees

treasury == <<balance, enrolled, donated>>
payments == <<made, scheduled, vetoed, paid>>
vars == <<epoch, balance, enrolled, donated, made, scheduled, vetoed, paid,
          rejections, frozen, vetoes, liquidation, queue, refunded, swept>>

Payments == [id : Nat, value : Nat, deadline : Nat]

TypeOK ==
    /\ epoch \in Nat
    /\ balance \in [Wallets -> Nat]
    /\ enrolled \in [Wallets -> Nat]
    /\ donated \in [Wallets -> [Donors -> Nat]]
    /\ made \in [Wallets -> Nat]
    /\ scheduled \in [Wallets -> Seq(Payments)]
    /\ vetoed \in [Wallets -> SUBSET Payments]
    /\ paid \in [Wallets -> SUBSET Payments]
    /\ rejections \in [Wallets -> Nat]
    /\ frozen \in [Wallets -> BOOLEAN]
    /\ \A w \in Wallets : \A i \in DOMAIN vetoes[w] : vetoes[w][i] \in Tallies
    /\ liquidation \in [Wallets -> Seq(Tallies)]
    /\ queue \in Seq(Wallets)
    /\ refunded \in [Wallets -> [Donors -> Nat]]
    /\ swept \in [Wallets -> Nat]

TotalDonated(w) == SumFunctionOnSet(donated[w], Donors)

\* structs_init and init_donor_governance, on wallets that may have received
\* donations. The first epoch is not 0, which stands for no provisional pass.
Init ==
    /\ epoch = 1
    /\ donated \in InitialDonations
    /\ enrolled = [w \in Wallets |-> TotalDonated(w)]
    /\ balance = enrolled
    /\ made = [w \in Wallets |-> 0]
    /\ scheduled = [w \in Wallets |-> <<>>]
    /\ vetoed = [w \in Wallets |-> {}]
    /\ paid = [w \in Wallets |-> {}]
    /\ rejections = [w \in Wallets |-> 0]
    /\ frozen = [w \in Wallets |-> FALSE]
    /\ vetoes = [w \in Wallets |-> <<>>]
    /\ liquidation = [w \in Wallets |-> <<>>]
    /\ queue = <<>>
    /\ refunded = [w \in Wallets |-> [d \in Donors |-> 0]]
    /\ swept = [w \in Wallets |-> 0]

-----------------------------------------------------------------------------
\* maybe_update_deposit, with write_receipt, for a transfer to a wallet.
Donate(d, w, v) ==
    /\ balance' = [balance EXCEPT ![w] = @ + v]
    /\ enrolled' = [enrolled EXCEPT ![w] = @ + v]
    /\ donated' = [donated EXCEPT ![w][d] = @ + v]
    /\ UNCHANGED <<epoch, payments, rejections, frozen, vetoes, liquidation,
                   queue, refunded, swept>>

\* propose_payment with the vote that approves it (MultiAction): schedule.
Schedule(w, v) ==
    /\ made' = [made EXCEPT ![w] = @ + 1]
    /\ scheduled' = [scheduled EXCEPT ![w] = Append(@,
            [id |-> made'[w], value |-> v, deadline |-> epoch + PaymentDelay])]
    /\ UNCHANGED <<epoch, treasury, vetoed, paid, rejections, frozen, vetoes,
                   liquidation, queue, refunded, swept>>

-----------------------------------------------------------------------------
\* Vetoes.

\* find_schedule_by_id and schedule_status.
IsScheduled(w, id) == \E i \in DOMAIN scheduled[w] : scheduled[w][i].id = id

\* assert_authorized.
IsDonor(d, w) == donated[w][d] > 0

\* Mutant of FreezeAt: one rejection less.
FreezeEarly(n) == n > 1

\* maybe_freeze.
FreezeAt(n) == n > 2

\* reject and maybe_freeze. The loop of reject runs to the length the list had
\* before the removal, and aborts on the missing element unless the rejected
\* payment was the last one.
Reject(w, id) ==
    LET last == Last(scheduled[w])
        n    == rejections[w] + 1
    IN  /\ scheduled[w] # <<>>
        /\ last.id = id
        /\ scheduled' = [scheduled EXCEPT ![w] = Front(@)]
        /\ vetoed' = [vetoed EXCEPT ![w] = @ \cup {last}]
        /\ rejections' = [rejections EXCEPT ![w] = n]
        /\ frozen' = [frozen EXCEPT ![w] = @ \/ FreezeAt(n)]

\* veto_handler, on the ballot `t` of a payment: a donor can only approve. Since
\* vote returns a decision only when the ballot passed, the branch that delays
\* the payment and extends the ballot is never taken.
VetoHandler(d, w, id, t) ==
    LET t2 == Voted(t, d, TRUE, donated[w][d], epoch)
    IN  /\ IsDonor(d, w)
        /\ CanVote(t, d, donated[w][d], epoch)
        /\ vetoes' = [vetoes EXCEPT ![w] =
                [i \in DOMAIN @ \cup {id} |-> IF i = id THEN t2 ELSE @[i]]]
        /\ IF t2.completed
           THEN Reject(w, id)
           ELSE UNCHANGED <<scheduled, vetoed, rejections, frozen>>
        /\ UNCHANGED <<epoch, treasury, made, paid, liquidation, queue, refunded, swept>>

\* propose_veto_tx: propose_veto, propose_gov and the first vote. A ballot is
\* never moved from the pending list, so a payment has one ballot at most.
ProposeVeto(d, w, id) ==
    /\ IsScheduled(w, id)
    /\ id \notin DOMAIN vetoes[w]
    /\ VetoHandler(d, w, id, NewTally(enrolled[w], epoch + VetoDuration))

\* vote_veto_tx.
VoteVeto(d, w, id) ==
    /\ id \in DOMAIN vetoes[w]
    /\ VetoHandler(d, w, id, vetoes[w][id])

-----------------------------------------------------------------------------
\* Liquidation.

\* propose_liquidation.
ProposeLiquidation(d, w) ==
    /\ IsDonor(d, w)
    /\ liquidation[w] = <<>>
    /\ liquidation' = [liquidation EXCEPT ![w] =
            <<NewTally(enrolled[w], epoch + LiquidateDuration)>>]
    /\ UNCHANGED <<epoch, treasury, payments, rejections, frozen, vetoes, queue,
                   refunded, swept>>

\* liquidation_handler.
VoteLiquidation(d, w) ==
    /\ IsDonor(d, w)
    /\ liquidation[w] # <<>>
    /\ CanVote(liquidation[w][1], d, donated[w][d], epoch)
    /\ LET t == Voted(liquidation[w][1], d, TRUE, donated[w][d], epoch)
       IN  /\ liquidation' = [liquidation EXCEPT ![w] = <<t>>]
           /\ IF t.completed
              THEN /\ frozen' = [frozen EXCEPT ![w] = TRUE]
                   /\ queue' = Append(queue, w)
              ELSE UNCHANGED <<frozen, queue>>
    /\ UNCHANGED <<epoch, treasury, payments, rejections, vetoes, refunded, swept>>

\* Mutant of ProRata: shares of everything donated, not of what is left.
ProRataOfDonations(w, d) == MultiplyRatio(enrolled[w], Ratio(donated[w][d], enrolled[w]))

\* get_pro_rata: the share of a donor in what is left.
ProRata(w, d) == MultiplyRatio(balance[w], Ratio(donated[w][d], enrolled[w]))

Queued(w) == w \in Range(queue)

Refund(w, d) == IF Queued(w) /\ w \notin ToMatchIndex THEN ProRata(w, d) ELSE 0

\* vm_liquidate does not abort. The queue is a copy, never emptied; swap_remove
\* on the copy with an index that grows aborts before the queue is through
\* unless it has one wallet at most, and a ratio that truncates to zero aborts.
LiquidationPasses ==
    /\ Len(queue) <= 1
    /\ \A w \in Range(queue) \ ToMatchIndex : \A d \in Donors :
          donated[w][d] > 0 => RatioExists(donated[w][d], enrolled[w])

\* vm_liquidate: refunds to the donors, then the rest to the fees.
Liquidate ==
    /\ LiquidationPasses
    /\ refunded' = [w \in Wallets |-> [d \in Donors |-> refunded[w][d] + Refund(w, d)]]
    /\ swept' = [w \in Wallets |->
            IF Queued(w)
            THEN swept[w] + balance[w] - SumFunction([d \in Donors |-> Refund(w, d)])
            ELSE swept[w]]

-----------------------------------------------------------------------------
\* Payments at the epoch boundary.

\* Mutant of Due: at the end of the epoch before the deadline.
DueEarly(p) == p.deadline <= epoch + 1

\* Mutant of Due: on the day of the deadline only.
DueOnTheDay(p) == p.deadline = epoch

\* filter_scheduled_due, with the closing epoch.
Due(p) == p.deadline <= epoch

\* Mutant of PayNext: a payment that is short is dropped.
PayNextDropsShort(a, p) ==
    IF p.value <= a.left
    THEN [a EXCEPT !.left = @ - p.value, !.paid = @ \cup {p}]
    ELSE a

\* The loop of maybe_pay_deadline: paid, or back on the list when the balance
\* is short (vm_withdraw_unlimited).
PayNext(a, p) ==
    IF p.value <= a.left
    THEN [a EXCEPT !.left = @ - p.value, !.paid = @ \cup {p}]
    ELSE [a EXCEPT !.again = Append(@, p)]

\* maybe_pay_deadline, from the back of the list, with the coins left: the due
\* payments are settled, the others stay in their order (stable_partition).
Settle(a, p) == IF Due(p) THEN PayNext(a, p) ELSE [a EXCEPT !.future = <<p>> \o @]

PayDeadline(w, left) ==
    LET len == Len(scheduled[w])
        settled[k \in 0 .. len] ==
            IF k = 0 THEN [left |-> left, paid |-> paid[w], future |-> <<>>, again |-> <<>>]
            ELSE Settle(settled[k - 1], scheduled[w][len + 1 - k])
    IN  settled[len]

\* Mutant of Available: what is about to be liquidated is spent first.
AvailableBeforeLiquidation(w) == balance[w]

\* The coins of a wallet after vm_liquidate.
Available(w) == IF Queued(w) THEN 0 ELSE balance[w]

\* The rejection counter is reset for every due payment, paid or not.
CountAfter(w) == IF \E p \in Range(scheduled[w]) : Due(p) THEN 0 ELSE rejections[w]

\* process_donor_voice_accounts, and the new epoch.
EpochBoundary ==
    /\ Liquidate
    /\ LET settled == [w \in Wallets |-> PayDeadline(w, Available(w))]
       IN  /\ balance' = [w \in Wallets |-> settled[w].left]
           /\ paid' = [w \in Wallets |-> settled[w].paid]
           /\ scheduled' = [w \in Wallets |-> settled[w].future \o settled[w].again]
    /\ rejections' = [w \in Wallets |-> CountAfter(w)]
    /\ epoch' = epoch + 1
    /\ UNCHANGED <<enrolled, donated, made, vetoed, frozen, vetoes, liquidation, queue>>

-----------------------------------------------------------------------------
\* Nothing is followed beyond the last epoch.
Next ==
    /\ epoch < MaxEpoch
    /\ \/ EpochBoundary
       \/ \E w \in Wallets, d \in Donors, v \in Gifts :
             enrolled[w] + v <= MaxDonated /\ Donate(d, w, v)
       \/ \E w \in Wallets, v \in Values :
             made[w] < MaxPayments /\ epoch + PaymentDelay < MaxEpoch /\ Schedule(w, v)
       \/ \E w \in Wallets, d \in Donors, id \in 1 .. MaxPayments : ProposeVeto(d, w, id)
       \/ \E w \in Wallets, d \in Donors, id \in 1 .. MaxPayments : VoteVeto(d, w, id)
       \/ \E w \in Wallets, d \in Donors : ProposeLiquidation(d, w)
       \/ \E w \in Wallets, d \in Donors : VoteLiquidation(d, w)

Spec == Init /\ [][Next]_vars

\* The chain closes its epochs: triggers keep arriving (EpochTrigger).
FairSpec == Spec /\ WF_vars(epoch < MaxEpoch /\ EpochBoundary)

-----------------------------------------------------------------------------
\* A payment is in one list only and only once, whatever order of vetoes, short
\* balances and boundaries it goes through: it is never lost, paid twice, or
\* paid and vetoed.
PaymentsSettleOnce ==
    \A w \in Wallets :
        LET listed == [i \in DOMAIN scheduled[w] |-> scheduled[w][i].id]
            done   == {p.id : p \in paid[w]}
            denied == {p.id : p \in vetoed[w]}
        IN  /\ IsInjective(listed)
            /\ Range(listed) \cap (done \cup denied) = {}
            /\ done \cap denied = {}
            /\ Range(listed) \cup done \cup denied = 1 .. made[w]

\* What was donated is in the wallet, with payees of paid payments, back with
\* the donors or in the fees, and the refunds of a liquidation, each rounded,
\* leave no less than nothing for the fees (get_pro_rata, vm_liquidate,
\* maybe_pay_deadline).
FundsAreAccountedFor ==
    \A w \in Wallets :
        /\ swept[w] >= 0
        /\ enrolled[w] = balance[w]
                         + SumFunction([p \in paid[w] |-> p.value])
                         + SumFunctionOnSet(refunded[w], Donors)
                         + swept[w]

\* A payment is vetoed in two epochs at least and by two donors at least: the
\* votes that reached the share were cast in an epoch before this one, a donor
\* who had not voted carries the veto, and it has more than an eighth of the
\* votes enrolled when it was proposed (maybe_tally's cool-off, vote).
VetoesWereCarried ==
    [][\A w \in Wallets : \A p \in vetoed'[w] \ vetoed[w] :
          LET before == vetoes[w][p.id]
              after  == vetoes'[w][p.id]
          IN  /\ p.id \in DOMAIN vetoes[w]
              /\ before.provisional \in 1 .. epoch - 1
              /\ before.voters # {}
              /\ after.voters \ before.voters # {}
              /\ 8 * after.approve > after.max]_vars

\* The votes on a ballot are donations of its voters, each counted once, and
\* never more than were enrolled when the ballot was opened.
VotesAreDonations ==
    \A w \in Wallets : \A i \in DOMAIN vetoes[w] :
        LET t == vetoes[w][i]
        IN  /\ t.approve <= SumFunctionOnSet(donated[w], t.voters)
            /\ t.approve <= t.max

\* A wallet is frozen only by a vote to liquidate it or after three rejections.
FrozenForAReason ==
    \A w \in Wallets : frozen[w] => Queued(w) \/ Cardinality(vetoed[w]) > 2

\* A payment waits for PaymentDelay epochs from its approval at least and is
\* never brought forward; only what stood in the schedule up to its deadline is
\* paid, for the value approved (schedule, maybe_pay_deadline). It says nothing
\* against a later deadline, which the documentation promises after a veto.
PaymentsWait ==
    [][\A w \in Wallets :
          /\ \A p \in Range(scheduled'[w]) :
                \/ \E q \in Range(scheduled[w]) :
                      p.id = q.id /\ p.value = q.value /\ p.deadline >= q.deadline
                \/ p.id > made[w] /\ p.deadline >= epoch + PaymentDelay
          /\ \A p \in paid'[w] \ paid[w] :
                p \in Range(scheduled[w]) /\ p.deadline <= epoch]_vars

\* "first we freeze it so nothing can happen in the interim"
\* (liquidation_handler): once the donors have voted to liquidate a wallet, no
\* coins go to a payee, those of later donations included.
LiquidatedWalletsDoNotPay ==
    [][\A w \in Wallets : Queued(w) =>
          \A p \in paid'[w] \ paid[w] : p.value = 0]_vars

ScheduledValue(w) == SumFunction([i \in DOMAIN scheduled[w] |-> scheduled[w][i].value])

\* Every scheduled payment is paid or vetoed, unless its wallet is short of what
\* it has scheduled, or a liquidation, of whichever wallets, stops the boundary.
PaymentsComplete ==
    \A w \in Wallets : \A id \in 1 .. MaxPayments :
        IsScheduled(w, id) ~> \/ ~IsScheduled(w, id)
                              \/ balance[w] < ScheduledValue(w)
                              \/ ~LiquidationPasses
=============================================================================
