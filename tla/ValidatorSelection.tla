------------------------- MODULE ValidatorSelection -------------------------
(***************************************************************************)
(* How the epoch boundary picks the validators of the next epoch: the      *)
(* grades of the outgoing set (grade.move), the seats on offer             *)
(* (musical_chairs.move), the jail (jail.move), the auction                *)
(* (proof_of_fee.move) and the failover rules that keep the set viable     *)
(* (stake.move). Between boundaries validators bid and are unjailed.       *)
(*                                                                         *)
(* Lists are sets: the order of equal bids is shuffled, and that of equal  *)
(* proposal counts is the order of the list. The chain is not a testnet,   *)
(* where check_failover_rules returns the proposed set as it is.           *)
(***************************************************************************)
EXTENDS Integers, FiniteSets

CONSTANTS
    Validators,         \* the validator universe
    Vouches,            \* pairs <<v, w>>: v vouches for w, and is no relative
    MinSeats,           \* the least number of seats, in two modules (4)
    HealthyThreshold,   \* healthy_threshold (9)
    BootUpThreshold,    \* VAL_BOOT_UP_THRESHOLD (21)
    PctReduction,       \* PCT_REDUCTION_FOR_COMPETITION (10)
    FirstEval,          \* EPOCH_TO_START_EVAL (2)
    FixedOne,           \* one, as a FixedPoint32 (2^32)
    Performances,       \* pairs of accepted and failed proposals in an epoch
    Bids,               \* bids, in tenths of a percent of the reward
    Durations,          \* epochs a bid is made for
    GenesisSets,        \* the validators of genesis
    GenesisBid,         \* their bid (900)
    GenesisExpiry,      \* the epoch up to which they bid (1000)
    MaxEpoch            \* bound on the epoch

ASSUME SelectionAssumption ==
    /\ IsFiniteSet(Validators)
    /\ Vouches \subseteq Validators \X Validators
    /\ MinSeats \in Nat \ {0}
    /\ HealthyThreshold \in Nat
    /\ MinSeats <= HealthyThreshold
    /\ BootUpThreshold \in Nat
    /\ PctReduction \in 0 .. 100
    /\ FirstEval \in Nat
    /\ FixedOne \in Nat \ {0}
    /\ Performances \subseteq Nat \X Nat
    /\ Bids \subseteq Nat
    /\ Durations \subseteq Nat
    /\ GenesisSets \subseteq SUBSET Validators
    /\ \A S \in GenesisSets : Cardinality(S) >= MinSeats
    /\ GenesisBid \in 0 .. 1100
    /\ GenesisExpiry \in Nat
    /\ MaxEpoch \in Nat

VARIABLES
    epoch,      \* epoch_helper::get_current_epoch()
    active,     \* ValidatorSet.active_validators
    seats,      \* Chairs.seats_offered
    bid,        \* ProofOfFeeAuction.bid
    expires,    \* ProofOfFeeAuction.epoch_expiration
    jailed      \* validators with Jail.is_jailed

vars == <<epoch, active, seats, bid, expires, jailed>>

TypeOK ==
    /\ epoch \in Nat
    /\ active \subseteq Validators
    /\ seats \in Nat
    /\ bid \in [Validators -> 0 .. 1100]
    /\ expires \in [Validators -> Nat]
    /\ jailed \subseteq Validators

\* create_initialize_validators_with_commission: as many seats as validators,
\* who all bid the same.
Init ==
    /\ epoch = 1
    /\ active \in GenesisSets
    /\ seats = Cardinality(active)
    /\ bid = [v \in Validators |-> IF v \in active THEN GenesisBid ELSE 0]
    /\ expires = [v \in Validators |-> IF v \in active THEN GenesisExpiry ELSE 0]
    /\ jailed = {}

-----------------------------------------------------------------------------
\* Between boundaries.

\* Mutant of UpdateBid: any bid is accepted.
UpdateBidUncapped(v, b, expiry) ==
    /\ bid' = [bid EXCEPT ![v] = b]
    /\ expires' = [expires EXCEPT ![v] = expiry]
    /\ UNCHANGED <<epoch, active, seats, jailed>>

\* pof_update_bid: no expiry is refused.
UpdateBid(v, b, expiry) ==
    /\ b <= 1100
    /\ bid' = [bid EXCEPT ![v] = b]
    /\ expires' = [expires EXCEPT ![v] = expiry]
    /\ UNCHANGED <<epoch, active, seats, jailed>>

\* pof_retract_bid.
RetractBid(v) ==
    /\ bid' = [bid EXCEPT ![v] = 0]
    /\ expires' = [expires EXCEPT ![v] = 0]
    /\ UNCHANGED <<epoch, active, seats, jailed>>

\* unjail_by_voucher: the sender is a voucher in the current set.
UnjailByVoucher(voucher, v) ==
    /\ <<voucher, v>> \in Vouches
    /\ voucher \in active
    /\ v \in jailed
    /\ jailed' = jailed \ {v}
    /\ UNCHANGED <<epoch, active, seats, bid, expires>>

-----------------------------------------------------------------------------
\* The outgoing set.

\* A ratio in whole percent, truncated as FixedPoint32 and then by multiply_u64.
Percent(n, d) == (100 * ((n * FixedOne) \div d)) \div FixedOne

Smaller(m, n) == IF m < n THEN m ELSE n

Net(p) == IF p[1] > p[2] THEN p[1] - p[2] ELSE 0

\* grade::is_compliant, given the performances of the set: few failures, and
\* not far behind the leading proposer.
IsCompliant(p, perf) ==
    /\ p[1] >= p[2]
    /\ Percent(p[2], p[1] + 1) < 20
    /\ p[1] > p[2]
    /\ \A v \in active : Net(perf[v]) > 0 => Percent(Net(p), Net(perf[v])) > 5

\* eval_compliance_impl: everybody, before there are grades.
Compliant(perf) ==
    IF epoch < FirstEval THEN active ELSE {v \in active : IsCompliant(perf[v], perf)}

\* The fail ratio is zero, or at most 5 percent; before there are grades it
\* is one.
FewFail(compliant) ==
    /\ epoch >= FirstEval
    /\ Percent(Cardinality(active \ compliant), Cardinality(active)) <= 5

\* stop_the_music and calculate_seats_to_offer.
SeatsToOffer(compliant) ==
    LET c       == Cardinality(compliant)
        offered == IF FewFail(compliant) THEN seats + 1 ELSE c
    IN  IF c > seats THEN seats
        ELSE IF offered < MinSeats THEN MinSeats ELSE offered

\* process_outgoing_validators, which settle_accounts calls only when there
\* are fees to pay from.
JailNonCompliant(compliant, fees) ==
    jailed' = IF fees THEN jailed \cup (active \ compliant) ELSE jailed

-----------------------------------------------------------------------------
\* The auction.

\* current_bid.
CurrentBid(v) == IF expires[v] >= epoch \/ expires[v] = 0 THEN bid[v] ELSE 0

\* Mutant of Qualified: only the validators just jailed are refused.
QualifiedOnParole(fit, inJail) ==
    {v \in fit : v \notin inJail \cap active /\ CurrentBid(v) # 0 /\ epoch <= expires[v]}

\* audit_qualification, to which a bid without an expiry has expired. The
\* validators in `fit` have a stake pool, a slow wallet, enough vouches from the
\* current set and enough unlocked coins.
Qualified(fit, inJail) ==
    {v \in fit : v \notin inJail /\ CurrentBid(v) # 0 /\ epoch <= expires[v]}

\* calculate_final_set_size.
FinalSetSize(c, q, n) ==
    IF c < BootUpThreshold /\ c > 2
    THEN Smaller(c + (c \div 2 - 1), BootUpThreshold)
    ELSE IF n >= BootUpThreshold /\ q >= BootUpThreshold
         THEN Smaller(q - (q * PctReduction) \div 100, n)
         ELSE n

\* The k members of S that are first in the order of `score`, however equal
\* scores are ordered; all of them when there are no more than k.
Top(S, k, score) ==
    {T \in SUBSET S :
        /\ Cardinality(T) = Smaller(k, Cardinality(S))
        /\ \A t \in T, s \in S \ T : score[t] >= score[s]}

\* The bids that the auction sorts by.
LiveBids == [v \in Validators |-> CurrentBid(v)]

\* Mutant of Winners: no limit on unproven validators.
WinnersByBid(qualified, proven, size) == Top(qualified, size, LiveBids)

\* fill_seats_and_get_price, by decreasing bid: proven validators, and
\* unproven ones until they hold a third of the seats.
Winners(qualified, proven, size) ==
    UNION {Top((qualified \cap proven) \cup unproven, size, LiveBids) :
              unproven \in Top(qualified \ proven, size \div 3, LiveBids)}

-----------------------------------------------------------------------------
\* The incoming set.

\* get_sorted_vals_by_net_props: the first k of the outgoing set.
Ranked(perf, k) == Top(active, k, [v \in active |-> Net(perf[v])])

\* Mutant of Failover: the filled set is taken however small it is.
FailoverWithoutHailMary(winners, offered, perf) ==
    LET n      == Cardinality(winners)
        atLeast == IF offered < MinSeats THEN MinSeats ELSE offered
        target == Smaller(atLeast, HealthyThreshold)
        filled == {winners \cup best : best \in Ranked(perf, target - n)}
    IN  IF n > HealthyThreshold \/ n >= target
        THEN {winners}
        ELSE IF target - n > Cardinality(active)
             THEN {}
             ELSE filled

\* check_failover_rules, on the winners of the auction: they are enough (A,
\* B); or the best of the outgoing set join them (C), in a loop that aborts
\* when there are fewer of those than seats to fill; or nothing changes (D).
Failover(winners, offered, perf) ==
    LET n      == Cardinality(winners)
        atLeast == IF offered < MinSeats THEN MinSeats ELSE offered
        target == Smaller(atLeast, HealthyThreshold)
        filled == {winners \cup best : best \in Ranked(perf, target - n)}
    IN  IF n > HealthyThreshold \/ n >= target
        THEN {winners}
        ELSE IF target - n > Cardinality(active)
             THEN {}
             ELSE {IF Cardinality(S) >= MinSeats THEN S ELSE active : S \in filled}

\* Mutant of EpochBoundary: who failed is jailed after the auction.
EpochBoundaryJailsLast(perf, fit, fees) ==
    LET compliant == Compliant(perf)
        offered   == SeatsToOffer(compliant)
    IN  /\ JailNonCompliant(compliant, fees)
        /\ LET qualified == Qualified(fit, jailed)
               size      == FinalSetSize(Cardinality(compliant), Cardinality(qualified), offered)
           IN  \E winners \in Winners(qualified, compliant, size) :
                  active' \in Failover(winners, offered, perf)
        /\ seats' = Cardinality(active')
        /\ epoch' = epoch + 1
        /\ UNCHANGED <<bid, expires>>

\* epoch_boundary, as far as it concerns the validator set: stop_the_music,
\* settle_accounts, process_incoming_validators and the new epoch. The filter
\* of maybe_reconfigure drops nobody: winners have a stake pool, which has a
\* configuration from the start, and so had the outgoing set.
EpochBoundary(perf, fit, fees) ==
    LET compliant == Compliant(perf)
        offered   == SeatsToOffer(compliant)
    IN  /\ JailNonCompliant(compliant, fees)
        /\ LET qualified == Qualified(fit, jailed')
               size      == FinalSetSize(Cardinality(compliant), Cardinality(qualified), offered)
           IN  \E winners \in Winners(qualified, compliant, size) :
                  active' \in Failover(winners, offered, perf)
        /\ seats' = Cardinality(active')
        /\ epoch' = epoch + 1
        /\ UNCHANGED <<bid, expires>>

\* The expiries of a bid: none, or some epochs from now. (A bid that has
\* expired is no different from none, so earlier epochs are not followed.)
Expiries == {0} \cup {epoch + d : d \in Durations}

\* The next boundary, whatever the epoch was like. Who has no live bid need
\* not be fit.
Boundary ==
    \E perf \in [active -> Performances], fees \in BOOLEAN,
       fit \in SUBSET {v \in Validators : CurrentBid(v) > 0} :
          EpochBoundary(perf, fit, fees)

Next ==
    /\ epoch < MaxEpoch
    /\ \/ Boundary
       \/ \E v \in Validators, b \in Bids, expiry \in Expiries : UpdateBid(v, b, expiry)
       \/ \E v \in Validators : RetractBid(v)
       \/ \E voucher, v \in Validators : UnjailByVoucher(voucher, v)

Spec == Init /\ [][Next]_vars

-----------------------------------------------------------------------------
\* The set never becomes too small for consensus to tolerate a fault, whoever
\* is jailed, unqualified or does not bid ("certain death",
\* check_failover_rules).
SetStaysViable == Cardinality(active) >= MinSeats

\* Nobody enters the set without a live bid, or from the jail: the failover
\* rules bring back only validators of the outgoing set.
EntrantsAreQualified ==
    [][\A v \in active' \ active :
          v \notin jailed' /\ bid[v] > 0 /\ expires[v] >= epoch]_vars

\* Whoever is jailed at a boundary is out of the set, unless the set is so
\* small that failover kept them: the jail is filled before the auction.
JailedSitOut ==
    [][epoch' # epoch =>
          \/ active' \cap jailed' = {}
          \/ Cardinality(active') <= HealthyThreshold
          \/ active' = active]_vars

\* Newcomers, whose nodes may not be ready, get at most a third of the seats,
\* whoever of the outgoing set bids or performs; and the seats are at most
\* half as many again as the outgoing set had, or one more: seats that were
\* offered and not filled are not offered on top of later ones.
NewcomersAreFew ==
    [][LET n == Cardinality(active)
           k == Cardinality(active' \ active)
       IN  3 * k <= n + n \div 2 \/ 3 * k <= n + 1]_vars

-----------------------------------------------------------------------------
\* A statement of the documentation that the code does not keep.

\* "in the case of certain death, where the proposed set is still less than 4
\* (D: Hail Mary), we should not change the validator set": the boundary does
\* not abort, whoever qualifies and however the set performed.
BoundaryCompletes ==
    epoch < MaxEpoch =>
        \A perf \in [active -> Performances] :
            ENABLED EpochBoundary(perf, Validators, TRUE)
=============================================================================
