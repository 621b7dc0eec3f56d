---------------------- MODULE ValidatorSelection_proofs ----------------------
(***************************************************************************)
(* The properties of ValidatorSelection, for every universe, every genesis *)
(* and every performance of the set: the set stays viable, entrants are    *)
(* qualified, the jailed sit out and newcomers are few.                    *)
(***************************************************************************)
EXTENDS ValidatorSelection, FiniteSetTheorems, TLAPS

\* What every boundary relies on: set_current_seats leaves as many seats as
\* there are validators, and the failover rules left a viable set.
SelectionInv ==
    /\ TypeOK
    /\ SetStaysViable
    /\ seats = Cardinality(active)

-----------------------------------------------------------------------------
\* Sets of validators are finite, and smaller ones have fewer members.
LEMMA ValidatorSets ==
    ASSUME NEW S \in SUBSET Validators
    PROVE  /\ IsFiniteSet(S)
           /\ Cardinality(S) \in Nat
           /\ \A T \in SUBSET S : IsFiniteSet(T) /\ Cardinality(T) \in Nat
                                  /\ Cardinality(T) <= Cardinality(S)
  <1>1. IsFiniteSet(S)
    BY SelectionAssumption, FS_Subset
  <1>2. \A T \in SUBSET S : IsFiniteSet(T) /\ Cardinality(T) <= Cardinality(S)
    BY <1>1, FS_Subset
  <1> QED
    BY <1>1, <1>2, FS_CardinalityType

\* What Top returns: members of S, and no more than k of them.
LEMMA TopIsBounded ==
    ASSUME NEW S \in SUBSET Validators, NEW k \in Int, NEW score,
           NEW T \in Top(S, k, score)
    PROVE  /\ T \subseteq S
           /\ Cardinality(T) <= k
  <1>1. /\ T \subseteq S
        /\ Cardinality(T) = Smaller(k, Cardinality(S))
    BY DEF Top
  <1> QED
    BY <1>1, ValidatorSets DEF Smaller

\* fill_seats_and_get_price seats qualified bidders, and at most a third of
\* the seats go to validators that are not proven.
LEMMA WinnersAreQualified ==
    ASSUME NEW qualified \in SUBSET Validators, NEW proven \in SUBSET Validators,
           NEW size \in Int, NEW W \in Winners(qualified, proven, size)
    PROVE  /\ W \subseteq qualified
           /\ 3 * Cardinality(W \ proven) <= size
  <1>1. PICK unproven \in Top(qualified \ proven, size \div 3, LiveBids) :
            W \in Top((qualified \cap proven) \cup unproven, size, LiveBids)
    BY DEF Winners
  <1>2. size \div 3 \in Int /\ 3 * (size \div 3) <= size
    BY Z3
  <1>3. /\ unproven \subseteq qualified \ proven
        /\ Cardinality(unproven) <= size \div 3
    BY <1>2, TopIsBounded
  <1>4. W \subseteq (qualified \cap proven) \cup unproven
    BY <1>1, <1>3, TopIsBounded
  <1>5. W \ proven \in SUBSET unproven /\ unproven \in SUBSET Validators
    BY <1>3, <1>4
  <1>6. /\ Cardinality(W \ proven) \in Nat
        /\ Cardinality(unproven) \in Nat
        /\ Cardinality(W \ proven) <= Cardinality(unproven)
    BY <1>5, ValidatorSets
  <1> QED
    BY <1>2, <1>3, <1>4, <1>6

-----------------------------------------------------------------------------
\* check_failover_rules: the set it returns is viable, made of winners and of
\* outgoing validators, and if it is not the winners it is small or unchanged.
LEMMA FailoverIsViable ==
    ASSUME SelectionInv, NEW W \in SUBSET Validators, NEW offered \in Nat, NEW perf,
           NEW S \in Failover(W, offered, perf)
    PROVE  /\ Cardinality(S) >= MinSeats
           /\ S \subseteq W \cup active
           /\ S = W \/ Cardinality(S) <= HealthyThreshold \/ S = active
  <1> DEFINE n == Cardinality(W)
             atLeast == IF offered < MinSeats THEN MinSeats ELSE offered
             target == Smaller(atLeast, HealthyThreshold)
             filled == {W \cup best : best \in Ranked(perf, target - n)}
  <1>1. /\ target \in Nat
        /\ MinSeats <= target
        /\ target <= HealthyThreshold
    BY SelectionAssumption DEF Smaller
  <1>2. n \in Nat
    BY ValidatorSets
  <1>3. CASE n > HealthyThreshold \/ n >= target
    <2>1. S = W
      BY <1>3 DEF Failover
    <2> QED
      BY <2>1, <1>1, <1>2, <1>3, SelectionAssumption
  <1>4. CASE ~(n > HealthyThreshold \/ n >= target)
    <2>1. PICK F \in filled : S = IF Cardinality(F) >= MinSeats THEN F ELSE active
      BY <1>4 DEF Failover
    <2>2. PICK best \in Ranked(perf, target - n) : F = W \cup best
      BY <2>1
    <2>3. best \subseteq active /\ Cardinality(best) <= target - n
      <3>1. target - n \in Int /\ active \in SUBSET Validators
        BY <1>1, <1>2 DEF SelectionInv, TypeOK
      <3> QED
        BY <2>2, <3>1, TopIsBounded DEF Ranked
    <2>4. Cardinality(F) <= target
      <3>1. /\ IsFiniteSet(W) /\ IsFiniteSet(best)
            /\ Cardinality(best) \in Nat
            /\ Cardinality(W \cap best) \in Nat
        BY <2>3, ValidatorSets DEF SelectionInv, TypeOK
      <3>2. Cardinality(F) = n + Cardinality(best) - Cardinality(W \cap best)
        BY <2>2, <3>1, FS_Union
      <3> QED
        BY <1>1, <1>2, <2>3, <3>1, <3>2
    <2>5. CASE Cardinality(F) >= MinSeats
      <3>1. Cardinality(F) \in Nat
        BY <2>2, <2>3, ValidatorSets DEF SelectionInv, TypeOK
      <3> QED
        BY <1>1, <2>1, <2>2, <2>3, <2>4, <2>5, <3>1, SelectionAssumption
    <2>6. CASE ~(Cardinality(F) >= MinSeats)
      BY <2>1, <2>6 DEF SelectionInv, SetStaysViable
    <2> QED
      BY <2>5, <2>6
  <1> QED
    BY <1>3, <1>4

\* stop_the_music offers at most one seat more than there are validators.
LEMMA SeatsAreBounded ==
    ASSUME SelectionInv, NEW C \in SUBSET active
    PROVE  /\ SeatsToOffer(C) \in Nat
           /\ SeatsToOffer(C) <= Cardinality(active) + 1
  <1>1. /\ Cardinality(active) \in Nat
        /\ Cardinality(C) \in Nat
        /\ Cardinality(C) <= Cardinality(active)
    BY ValidatorSets DEF SelectionInv, TypeOK
  <1>2. /\ seats = Cardinality(active)
        /\ MinSeats <= Cardinality(active)
    BY <1>1, SelectionAssumption DEF SelectionInv, SetStaysViable
  <1> QED
    BY <1>1, <1>2, SelectionAssumption DEF SeatsToOffer

\* calculate_final_set_size: half as many again as were compliant, or what
\* musical chairs suggests.
LEMMA SetSizeIsBounded ==
    ASSUME NEW c \in Nat, NEW q \in Nat, NEW n \in Nat
    PROVE  /\ FinalSetSize(c, q, n) \in Int
           /\ FinalSetSize(c, q, n) <= c + c \div 2 \/ FinalSetSize(c, q, n) <= n
  <1>1. CASE c < BootUpThreshold /\ c > 2
    BY <1>1, SelectionAssumption DEF FinalSetSize, Smaller
  <1>2. CASE ~(c < BootUpThreshold /\ c > 2)
    <2>1. q - (q * PctReduction) \div 100 \in Int
      BY SelectionAssumption
    <2> QED
      BY <1>2, <2>1 DEF FinalSetSize, Smaller
  <1> QED
    BY <1>1, <1>2

-----------------------------------------------------------------------------
\* What a boundary makes of the set, in terms of the outgoing set alone.
Renewed ==
    /\ active' \subseteq Validators
    /\ Cardinality(active') >= MinSeats
    /\ \A v \in active' \ active :
          v \notin jailed' /\ bid[v] > 0 /\ expires[v] >= epoch
    /\ \/ active' \cap jailed' = {}
       \/ Cardinality(active') <= HealthyThreshold
       \/ active' = active
    /\ LET n == Cardinality(active)
           k == Cardinality(active' \ active)
       IN  3 * k <= n + n \div 2 \/ 3 * k <= n + 1

\* Every boundary renews the set in this way, whoever performed, bid and was
\* jailed.
LEMMA BoundaryRenews ==
    ASSUME SelectionInv, NEW perf, NEW fit \in SUBSET Validators, NEW fees \in BOOLEAN,
           EpochBoundary(perf, fit, fees)
    PROVE  Renewed
  <1> DEFINE compliant == Compliant(perf)
             offered == SeatsToOffer(compliant)
             qualified == Qualified(fit, jailed')
             size == FinalSetSize(Cardinality(compliant), Cardinality(qualified), offered)
  <1>1. PICK winners \in Winners(qualified, compliant, size) :
            active' \in Failover(winners, offered, perf)
    BY DEF EpochBoundary
  <1>2. compliant \in SUBSET active /\ active \in SUBSET Validators
    BY DEF Compliant, SelectionInv, TypeOK
  <1>3. qualified \in SUBSET Validators
    BY DEF Qualified
  <1>4. \A v \in qualified : v \notin jailed' /\ bid[v] > 0 /\ expires[v] >= epoch
    BY DEF Qualified, CurrentBid, SelectionInv, TypeOK
  <1>5. /\ Cardinality(compliant) \in Nat
        /\ Cardinality(qualified) \in Nat
        /\ Cardinality(active) \in Nat
        /\ Cardinality(compliant) <= Cardinality(active)
    BY <1>2, <1>3, ValidatorSets
  <1>6. offered \in Nat /\ offered <= Cardinality(active) + 1
    BY <1>2, SeatsAreBounded
  <1> HIDE DEF compliant, offered, qualified
  <1>7. /\ size \in Int
        /\ size <= Cardinality(compliant) + Cardinality(compliant) \div 2 \/ size <= offered
    BY <1>5, <1>6, SetSizeIsBounded
  <1> HIDE DEF size
  <1>8. winners \subseteq qualified /\ 3 * Cardinality(winners \ compliant) <= size
    BY <1>1, <1>2, <1>3, <1>7, WinnersAreQualified
  <1>9. /\ Cardinality(active') >= MinSeats
        /\ active' \subseteq winners \cup active
        /\ active' = winners \/ Cardinality(active') <= HealthyThreshold \/ active' = active
    BY <1>1, <1>3, <1>6, <1>8, FailoverIsViable
  <1>10. /\ Cardinality(active' \ active) \in Nat
         /\ Cardinality(winners \ compliant) \in Nat
         /\ Cardinality(active' \ active) <= Cardinality(winners \ compliant)
    <2>1. active' \ active \in SUBSET (winners \ compliant)
      BY <1>2, <1>9
    <2>2. winners \ compliant \in SUBSET Validators
      BY <1>3, <1>8
    <2> QED
      BY <2>1, <2>2, ValidatorSets
  <1>11. 3 * Cardinality(active' \ active) <= size
    BY <1>7, <1>8, <1>10
  <1>12. \/ 3 * Cardinality(active' \ active) <= Cardinality(active) + Cardinality(active) \div 2
         \/ 3 * Cardinality(active' \ active) <= Cardinality(active) + 1
    BY <1>5, <1>6, <1>7, <1>10, <1>11
  <1>13. active' \subseteq Validators
    BY <1>2, <1>3, <1>8, <1>9
  <1>14. \A v \in active' \ active :
            v \notin jailed' /\ bid[v] > 0 /\ expires[v] >= epoch
    BY <1>4, <1>8, <1>9
  <1>15. active' = winners => active' \cap jailed' = {}
    BY <1>4, <1>8
  <1> QED
    BY <1>9, <1>12, <1>13, <1>14, <1>15 DEF Renewed

\* The steps between boundaries leave the set, its seats and the epoch alone.
LEMMA OnlyBoundariesRenew ==
    ASSUME SelectionInv, [Next]_vars
    PROVE  \/ Renewed /\ Boundary
           \/ UNCHANGED <<epoch, active, seats>>
  <1>1. CASE Boundary
    <2>1. PICK perf \in [active -> Performances], fees \in BOOLEAN,
               fit \in SUBSET {v \in Validators : CurrentBid(v) > 0} :
                  EpochBoundary(perf, fit, fees)
      BY <1>1 DEF Boundary
    <2>2. fit \in SUBSET Validators
      OBVIOUS
    <2> QED
      BY <1>1, <2>1, <2>2, BoundaryRenews
  <1>2. CASE ~Boundary
    BY <1>2 DEF Next, vars, UpdateBid, RetractBid, UnjailByVoucher
  <1> QED
    BY <1>1, <1>2

\* The inductive step.
LEMMA StepKeepsInv ==
    ASSUME SelectionInv, [Next]_vars
    PROVE  SelectionInv'
  <1> USE DEF SelectionInv
  <1>1. CASE Renewed /\ Boundary
    <2>1. PICK perf \in [active -> Performances], fees \in BOOLEAN,
               fit \in SUBSET {v \in Validators : CurrentBid(v) > 0} :
                  EpochBoundary(perf, fit, fees)
      BY <1>1 DEF Boundary
    <2>2. /\ seats' = Cardinality(active')
          /\ epoch' = epoch + 1
          /\ UNCHANGED <<bid, expires>>
      BY <2>1 DEF EpochBoundary
    <2>3. jailed' \subseteq Validators
      BY <2>1 DEF EpochBoundary, JailNonCompliant, TypeOK
    <2>4. active' \in SUBSET Validators
      BY <1>1 DEF Renewed
    <2>5. Cardinality(active') \in Nat
      BY <2>4, ValidatorSets
    <2>6. TypeOK'
      BY <2>2, <2>3, <2>4, <2>5 DEF TypeOK
    <2>7. SetStaysViable'
      BY <1>1 DEF Renewed, SetStaysViable
    <2> QED
      BY <2>2, <2>6, <2>7
  <1>2. CASE UNCHANGED <<epoch, active, seats>>
    <2>1. SetStaysViable' /\ seats' = Cardinality(active')
      BY <1>2 DEF SetStaysViable
    <2>2. CASE \E v \in Validators, b \in Bids, expiry \in Expiries : UpdateBid(v, b, expiry)
      BY <2>1, <2>2, SelectionAssumption DEF TypeOK, UpdateBid, Expiries
    <2>3. CASE \E v \in Validators : RetractBid(v)
      BY <2>1, <2>3 DEF TypeOK, RetractBid
    <2>4. CASE \E voucher, v \in Validators : UnjailByVoucher(voucher, v)
      BY <2>1, <2>4 DEF TypeOK, UnjailByVoucher
    <2>5. CASE UNCHANGED vars
      BY <2>1, <2>5 DEF TypeOK, vars
    <2>6. CASE Boundary
      <3>1. epoch' = epoch + 1
        BY <2>6 DEF Boundary, EpochBoundary
      <3> QED
        BY <1>2, <3>1 DEF TypeOK
    <2> QED
      BY <2>2, <2>3, <2>4, <2>5, <2>6 DEF Next
  <1> QED
    BY <1>1, <1>2, OnlyBoundariesRenew

\* Genesis satisfies the invariant and every step keeps it.
THEOREM SelectionInvariant == Spec => []SelectionInv
  <1>1. Init => SelectionInv
    <2> SUFFICES ASSUME Init PROVE SelectionInv
      OBVIOUS
    <2>1. active \in SUBSET Validators /\ Cardinality(active) >= MinSeats
      BY SelectionAssumption DEF Init
    <2>2. Cardinality(active) \in Nat
      BY <2>1, ValidatorSets
    <2> QED
      BY <2>1, <2>2, SelectionAssumption DEF Init, SelectionInv, TypeOK, SetStaysViable
  <1>2. SelectionInv /\ [Next]_vars => SelectionInv'
    BY StepKeepsInv
  <1> QED
    BY <1>1, <1>2, PTL DEF Spec

(* Bids, seats, jail and set keep their types through every boundary.      *)
THEOREM SelectionTypes == Spec => []TypeOK
  <1>1. SelectionInv => TypeOK
    BY DEF SelectionInv
  <1> QED
    BY <1>1, SelectionInvariant, PTL

\* No boundary that completes leaves fewer than MinSeats validators
\* (check_failover_rules), whoever is jailed, unqualified or does not bid.
THEOREM SetAlwaysViable == Spec => []SetStaysViable
  <1>1. SelectionInv => SetStaysViable
    BY DEF SelectionInv
  <1> QED
    BY <1>1, SelectionInvariant, PTL

\* Whoever joins the set has a live bid and is not in jail: check_failover_rules
\* only brings back validators of the outgoing set.
THEOREM OnlyQualifiedEnter == Spec => EntrantsAreQualified
  <1>1. SelectionInv /\ [Next]_vars =>
            [\A v \in active' \ active :
                v \notin jailed' /\ bid[v] > 0 /\ expires[v] >= epoch]_vars
    BY OnlyBoundariesRenew DEF Renewed
  <1> QED
    BY <1>1, SelectionInvariant, PTL DEF Spec, EntrantsAreQualified

\* At a boundary the jailed leave a set of more than HealthyThreshold, unless
\* it is the outgoing one: process_outgoing_validators precedes the auction.
THEOREM JailedStayOut == Spec => JailedSitOut
  <1>1. SelectionInv /\ [Next]_vars =>
            [epoch' # epoch =>
                \/ active' \cap jailed' = {}
                \/ Cardinality(active') <= HealthyThreshold
                \/ active' = active]_vars
    BY OnlyBoundariesRenew DEF Renewed
  <1> QED
    BY <1>1, SelectionInvariant, PTL DEF Spec, JailedSitOut

\* The unproven quota of fill_seats_and_get_price bounds the newcomers in
\* terms of the outgoing set, because set_current_seats resets the seats.
THEOREM FewNewcomers == Spec => NewcomersAreFew
  <1>1. SelectionInv /\ [Next]_vars =>
            [LET n == Cardinality(active)
                 k == Cardinality(active' \ active)
             IN  3 * k <= n + n \div 2 \/ 3 * k <= n + 1]_vars
    <2> SUFFICES ASSUME SelectionInv, [Next]_vars, active' = active
                 PROVE  3 * Cardinality(active' \ active) <= Cardinality(active) + 1
      BY OnlyBoundariesRenew DEF Renewed
    <2>1. Cardinality(active' \ active) = 0
      BY FS_EmptySet
    <2>2. Cardinality(active) \in Nat
      BY ValidatorSets DEF SelectionInv, TypeOK
    <2> QED
      BY <2>1, <2>2
  <1> QED
    BY <1>1, SelectionInvariant, PTL DEF Spec, NewcomersAreFew
=============================================================================
