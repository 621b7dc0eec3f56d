---------------------------- MODULE TurnoutTally ----------------------------
(***************************************************************************)
(* The turnout tally (turnout_tally.move) by which the donors of a wallet  *)
(* decide: the share of the votes that must approve falls as the turnout   *)
(* rises, and a ballot passes with a vote cast in a later epoch than the   *)
(* first vote that reached the share.                                      *)
(*                                                                         *)
(* A tally is a record; its voters stand for the receipts that             *)
(* vote_receipt.move keeps with each user. The fields that only the unused *)
(* competitive extension reads are left out, and cfg_deadline and          *)
(* extended_deadline are one field: see DonorVoice.                        *)
(***************************************************************************)
EXTENDS Integers

CONSTANTS
    FixedOne,       \* the number 1 in fixed_point32 (2^32 in the code)
    Voters          \* accounts that vote

ASSUME TallyAssumption == FixedOne \in Nat \ {0}

\* fixed_point32: create_from_rational truncates, and aborts when a ratio
\* that is not zero truncates to zero; multiply_u64 truncates.
RatioExists(n, d) == d # 0 /\ (n = 0 \/ (n * FixedOne) \div d # 0)

Ratio(n, d) == (n * FixedOne) \div d

MultiplyRatio(v, r) == (v * r) \div FixedOne

PctScale == 10000

LowTurnout == 1250

HighTurnout == 8750

ThreshAtLowTurnout == 10000

ThreshAtHighTurnout == 5100

Percent(n, d) == MultiplyRatio(PctScale, Ratio(n, d))

\* get_threshold_from_turnout.
Threshold(votes, max) ==
    LET x     == Percent(votes, max)
        slope == Ratio(ThreshAtLowTurnout - ThreshAtHighTurnout, HighTurnout - LowTurnout)
    IN  IF x < LowTurnout THEN ThreshAtLowTurnout
        ELSE IF x > HighTurnout THEN ThreshAtHighTurnout
        ELSE ThreshAtLowTurnout + MultiplyRatio(LowTurnout, slope) - MultiplyRatio(x, slope)

Tallies == [max : Nat, deadline : Nat, approve : Nat, reject : Nat,
            provisional : Nat, completed : BOOLEAN, voters : SUBSET Voters]

\* new_tally_struct.
NewTally(max, deadline) ==
    [max |-> max, deadline |-> deadline, approve |-> 0, reject |-> 0,
     provisional |-> 0, completed |-> FALSE, voters |-> {}]

\* Mutant of CanVote: no search for an earlier receipt.
CanVoteAgain(t, voter, weight, now) ==
    /\ ~t.completed
    /\ now <= t.deadline
    /\ t.approve + t.reject + weight <= t.max
    /\ RatioExists(t.approve + t.reject + weight, t.max)

\* The assertions of vote, maybe_complete and maybe_tally. That maybe_complete
\* marks an expired ballot is undone by the abort that follows.
CanVote(t, voter, weight, now) ==
    /\ ~t.completed
    /\ now <= t.deadline
    /\ voter \notin t.voters
    /\ t.approve + t.reject + weight <= t.max
    /\ RatioExists(t.approve + t.reject + weight, t.max)

\* Mutant of Tallied: no cool-off, a second vote of the same epoch completes.
TalliedSameDay(t, now) ==
    LET total  == t.approve + t.reject
        passes == /\ Percent(t.approve, total) > Threshold(total, t.max)
                  /\ Percent(total, t.max) > LowTurnout
    IN  [t EXCEPT !.provisional = IF passes /\ @ = 0 THEN now ELSE @,
                  !.completed = passes /\ t.provisional # 0]

\* maybe_tally, after the vote was added.
Tallied(t, now) ==
    LET total  == t.approve + t.reject
        passes == /\ Percent(t.approve, total) > Threshold(total, t.max)
                  /\ Percent(total, t.max) > LowTurnout
    IN  [t EXCEPT !.provisional = IF passes /\ @ = 0 THEN now ELSE @,
                  !.completed = passes /\ t.provisional # 0 /\ now > t.provisional]

\* vote. A completed tally has passed: maybe_tally is the only place that
\* completes one without aborting, and it sets tally_pass with it.
Voted(t, voter, approves, weight, now) ==
    Tallied([t EXCEPT !.approve = IF approves THEN @ + weight ELSE @,
                      !.reject = IF approves THEN @ ELSE @ + weight,
                      !.voters = @ \cup {voter}], now)
=============================================================================
