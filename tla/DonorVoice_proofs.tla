------------------------- MODULE DonorVoice_proofs -------------------------
(***************************************************************************)
(* What the donor voice wallets guarantee, for every value of the          *)
(* constants: an inductive invariant (DonorVoiceInv), and the properties   *)
(* of DonorVoice that follow from it.                                      *)
(*                                                                         *)
(* The schedule is a list, walked by a recursive function at the epoch     *)
(* boundary; what the walk does is shown by an induction over the number   *)
(* of payments seen, written as a least counterexample (LeastNumber).      *)
(***************************************************************************)
EXTENDS DonorVoice, Sums_proofs, SequenceTheorems

-----------------------------------------------------------------------------
\* The tally.

\* More than 12.5 percent is more than an eighth, with both roundings down.
LEMMA MoreThanAnEighth ==
    ASSUME NEW a \in Nat, NEW m \in Nat, m # 0, Percent(a, m) > LowTurnout
    PROVE  8 * a > m
  <1>1. FixedOne \in Nat /\ FixedOne > 0
    BY TallyAssumption
  <1> DEFINE r == (a * FixedOne) \div m
             q == (10000 * r) \div FixedOne
  <1>2. a * FixedOne \in Nat
    BY <1>1
  <1>3. r \in Nat /\ m * r <= a * FixedOne
    <2> DEFINE n == a * FixedOne
    <2>1. n \in Nat
      BY <1>2
    <2> HIDE DEF n
    <2>2. n \div m \in Nat /\ m * (n \div m) <= n
      BY <2>1
    <2> QED BY <2>2 DEF n
  <1> HIDE DEF r
  <1>4. q \in Nat /\ FixedOne * q <= 10000 * r
    BY <1>1, <1>3
  <1>5. q > 1250
    BY DEF Percent, MultiplyRatio, Ratio, PctScale, LowTurnout, r
  <1> HIDE DEF q
  <1>6. 1251 * FixedOne <= 10000 * r
    <2>1. FixedOne * 1251 <= FixedOne * q
      BY <1>1, <1>4, <1>5
    <2>2. FixedOne * q \in Nat
      BY <1>1, <1>4
    <2> QED BY <1>1, <1>3, <1>4, <2>1, <2>2
  <1>7. m * (1251 * FixedOne) <= m * (10000 * r)
    BY <1>1, <1>3, <1>6
  <1>8. m * (10000 * r) = 10000 * (m * r) /\ m * r \in Nat
    BY <1>3
  <1>9. FixedOne * (1251 * m) <= FixedOne * (10000 * a)
    <2>1. m * (1251 * FixedOne) = FixedOne * (1251 * m)
      BY <1>1
    <2>2. 10000 * (a * FixedOne) = FixedOne * (10000 * a)
      BY <1>1
    <2>3. 10000 * (m * r) <= 10000 * (a * FixedOne)
      BY <1>2, <1>3, <1>8
    <2> DEFINE x == FixedOne * (1251 * m)
               y == FixedOne * (10000 * a)
               z == 10000 * (m * r)
    <2>4. x \in Nat /\ y \in Nat /\ z \in Nat /\ x <= z /\ z <= y
      BY <1>1, <1>2, <1>7, <1>8, <2>1, <2>2, <2>3
    <2> QED BY <2>4
  <1>10. 1251 * m <= 10000 * a
    <2> SUFFICES ASSUME 1251 * m > 10000 * a PROVE FALSE
      OBVIOUS
    <2>1. 1251 * m >= 10000 * a + 1
      OBVIOUS
    <2>2. FixedOne * (1251 * m) >= FixedOne * (10000 * a + 1)
      BY <1>1, <2>1
    <2>3. FixedOne * (10000 * a + 1) = FixedOne * (10000 * a) + FixedOne
      BY <1>1
    <2> DEFINE x == FixedOne * (1251 * m)
               y == FixedOne * (10000 * a)
    <2>4. x \in Nat /\ y \in Nat /\ x >= y + FixedOne /\ x <= y
      BY <1>1, <1>9, <2>2, <2>3
    <2> HIDE DEF x, y
    <2> QED BY <1>1, <2>4
  <1> QED BY <1>10

\* A vote to approve.
Approved(t, d, n, now) == Voted(t, d, TRUE, n, now)

\* What it does to a tally: whatever the ballot decides, only a turnout above
\* the lowest passes.
LEMMA VotedTally ==
    ASSUME NEW t \in Tallies, NEW d \in Voters, NEW n \in Nat, NEW now \in Nat
    PROVE  \E passes \in BOOLEAN :
             /\ passes => Percent((t.approve + n) + t.reject, t.max) > LowTurnout
             /\ Approved(t, d, n, now) =
                  [max |-> t.max, deadline |-> t.deadline, approve |-> t.approve + n,
                   reject |-> t.reject,
                   provisional |-> IF passes /\ t.provisional = 0 THEN now ELSE t.provisional,
                   completed |-> passes /\ t.provisional # 0 /\ now > t.provisional,
                   voters |-> t.voters \cup {d}]
  <1> DEFINE u == [t EXCEPT !.approve = IF TRUE THEN @ + n ELSE @,
                            !.reject = IF TRUE THEN @ ELSE @ + n,
                            !.voters = @ \cup {d}]
             total == u.approve + u.reject
             passes == /\ Percent(u.approve, total) > Threshold(total, u.max)
                       /\ Percent(total, u.max) > LowTurnout
             v == Approved(t, d, n, now)
  <1>1. u = [max |-> t.max, deadline |-> t.deadline, approve |-> t.approve + n,
             reject |-> t.reject, provisional |-> t.provisional,
             completed |-> t.completed, voters |-> t.voters \cup {d}]
    <2>1. t = [max |-> t.max, deadline |-> t.deadline, approve |-> t.approve,
               reject |-> t.reject, provisional |-> t.provisional,
               completed |-> t.completed, voters |-> t.voters]
      BY DEF Tallies
    <2>2. u = [t EXCEPT !.approve = t.approve + n, !.reject = t.reject,
                        !.voters = t.voters \cup {d}]
      OBVIOUS
    <2> HIDE DEF u
    <2> QED BY <2>1, <2>2
  <1>2. v = [u EXCEPT !.provisional = IF passes /\ @ = 0 THEN now ELSE @,
                      !.completed = passes /\ u.provisional # 0 /\ now > u.provisional]
    BY DEF Approved, Voted, Tallied
  <1> HIDE DEF u
  <1>3. passes \in BOOLEAN /\ (passes => Percent(total, u.max) > LowTurnout)
    OBVIOUS
  <1>4. total = (t.approve + n) + t.reject /\ u.max = t.max
    BY <1>1
  <1>5. passes => Percent((t.approve + n) + t.reject, t.max) > LowTurnout
    BY <1>3, <1>4
  <1> HIDE DEF passes
  <1>6. v = [max |-> t.max, deadline |-> t.deadline, approve |-> t.approve + n,
             reject |-> t.reject,
             provisional |-> IF passes /\ t.provisional = 0 THEN now ELSE t.provisional,
             completed |-> passes /\ t.provisional # 0 /\ now > t.provisional,
             voters |-> t.voters \cup {d}]
    BY <1>1, <1>2
  <1> HIDE DEF v
  <1> QED BY <1>3, <1>5, <1>6 DEF v

\* It is a tally again.
LEMMA VotedIsTally ==
    ASSUME NEW t \in Tallies, NEW d \in Voters, NEW n \in Nat, NEW now \in Nat
    PROVE  Approved(t, d, n, now) \in Tallies
  <1> DEFINE v == Approved(t, d, n, now)
  <1>1. PICK passes \in BOOLEAN :
           v = [max |-> t.max, deadline |-> t.deadline, approve |-> t.approve + n,
                reject |-> t.reject,
                provisional |-> IF passes /\ t.provisional = 0 THEN now ELSE t.provisional,
                completed |-> passes /\ t.provisional # 0 /\ now > t.provisional,
                voters |-> t.voters \cup {d}]
    BY VotedTally
  <1> HIDE DEF v
  <1>2. v \in Tallies
    BY <1>1 DEF Tallies
  <1> QED BY <1>2 DEF v

-----------------------------------------------------------------------------
\* Lists of payments.

\* The members of a list with one more.
LEMMA RangeAppend ==
    ASSUME NEW S, NEW s \in Seq(S), NEW x \in S
    PROVE  Range(Append(s, x)) = Range(s) \cup {x}
  <1> DEFINE t == Append(s, x)
  <1>1. /\ t \in Seq(S) /\ Len(t) = Len(s) + 1
        /\ \A i \in 1 .. Len(s) : t[i] = s[i]
        /\ t[Len(s) + 1] = x
        /\ Len(s) \in Nat /\ DOMAIN s = 1 .. Len(s) /\ DOMAIN t = 1 .. Len(t)
    BY AppendProperties, LenProperties
  <1> HIDE DEF t
  <1>2. Range(t) = Range(s) \cup {x}
    BY <1>1 DEF Range
  <1> QED BY <1>2 DEF t

\* No two places of a list have the same payment.
Distinct(s) == \A i, j \in DOMAIN s : s[i].id = s[j].id => i = j

\* One more at the end.
LEMMA AppendPayment ==
    ASSUME NEW s \in Seq(Payments), Distinct(s), NEW p \in Payments,
           \A q \in Range(s) : q.id # p.id
    PROVE  /\ Append(s, p) \in Seq(Payments)
           /\ Distinct(Append(s, p))
           /\ Range(Append(s, p)) = Range(s) \cup {p}
  <1> DEFINE t == Append(s, p)
  <1>1. /\ t \in Seq(Payments) /\ Len(t) = Len(s) + 1
        /\ \A i \in 1 .. Len(s) : t[i] = s[i]
        /\ t[Len(s) + 1] = p
        /\ Len(s) \in Nat /\ DOMAIN s = 1 .. Len(s) /\ DOMAIN t = 1 .. Len(t)
    BY AppendProperties, LenProperties
  <1> HIDE DEF t
  <1>2. \A i \in 1 .. Len(s) : s[i].id # p.id
    BY <1>1 DEF Range
  <1>3. Distinct(t)
    BY <1>1, <1>2 DEF Distinct
  <1>4. Range(t) = Range(s) \cup {p}
    BY <1>1 DEF Range
  <1> QED BY <1>1, <1>3, <1>4 DEF t

\* One more at the front.
LEMMA PrependPayment ==
    ASSUME NEW s \in Seq(Payments), Distinct(s), NEW p \in Payments,
           \A q \in Range(s) : q.id # p.id
    PROVE  /\ <<p>> \o s \in Seq(Payments)
           /\ Distinct(<<p>> \o s)
           /\ Range(<<p>> \o s) = Range(s) \cup {p}
  <1> DEFINE t == <<p>> \o s
  <1>1. <<p>> \in Seq(Payments) /\ Len(<<p>>) = 1 /\ <<p>>[1] = p
    OBVIOUS
  <1>2. /\ t \in Seq(Payments) /\ Len(t) = 1 + Len(s)
        /\ \A i \in 1 .. 1 + Len(s) : t[i] = IF i <= 1 THEN <<p>>[i] ELSE s[i - 1]
    BY <1>1, ConcatProperties
  <1>3. Len(s) \in Nat /\ DOMAIN s = 1 .. Len(s) /\ DOMAIN t = 1 .. 1 + Len(s)
    BY <1>2, LenProperties
  <1> HIDE DEF t
  <1>4. t[1] = p /\ \A i \in 2 .. 1 + Len(s) : t[i] = s[i - 1] /\ i - 1 \in DOMAIN s
    BY <1>1, <1>2, <1>3
  <1>5. \A i \in 1 .. Len(s) : s[i].id # p.id /\ t[i + 1] = s[i]
    BY <1>3, <1>4 DEF Range
  <1>6. Distinct(t)
    <2> SUFFICES ASSUME NEW i \in DOMAIN t, NEW j \in DOMAIN t, t[i].id = t[j].id
                 PROVE  i = j
      BY DEF Distinct
    <2>1. CASE i = 1 /\ j = 1
      BY <2>1
    <2>2. CASE i = 1 /\ j # 1
      BY <1>3, <1>4, <1>5, <2>2
    <2>3. CASE i # 1 /\ j = 1
      BY <1>3, <1>4, <1>5, <2>3
    <2>4. CASE i # 1 /\ j # 1
      <3>1. t[i] = s[i - 1] /\ t[j] = s[j - 1] /\ i - 1 \in DOMAIN s /\ j - 1 \in DOMAIN s
        BY <1>3, <1>4, <2>4
      <3>2. i - 1 = j - 1
        BY <3>1 DEF Distinct
      <3> QED BY <1>3, <3>2
    <2> QED BY <2>1, <2>2, <2>3, <2>4
  <1>7. Range(t) = Range(s) \cup {p}
    <2>1. ASSUME NEW q \in Range(t) PROVE q \in Range(s) \cup {p}
      <3>1. PICK i \in DOMAIN t : t[i] = q
        BY DEF Range
      <3>2. CASE i = 1
        BY <1>4, <3>1, <3>2
      <3>3. CASE i # 1
        BY <1>3, <1>4, <3>1, <3>3 DEF Range
      <3> QED BY <3>2, <3>3
    <2>2. p \in Range(t)
      BY <1>3, <1>4 DEF Range
    <2>3. ASSUME NEW q \in Range(s) PROVE q \in Range(t)
      <3>1. PICK i \in DOMAIN s : s[i] = q
        BY DEF Range
      <3>2. i + 1 \in DOMAIN t /\ t[i + 1] = q
        BY <1>3, <1>5, <3>1
      <3> QED BY <3>2 DEF Range
    <2> QED BY <2>1, <2>2, <2>3
  <1> QED BY <1>2, <1>6, <1>7 DEF t

\* What is left when the last one is taken off.
LEMMA FrontPayment ==
    ASSUME NEW s \in Seq(Payments), s # <<>>, Distinct(s)
    PROVE  /\ Front(s) \in Seq(Payments)
           /\ Last(s) \in Range(s) /\ Last(s) \in Payments
           /\ Distinct(Front(s))
           /\ Range(s) = Range(Front(s)) \cup {Last(s)}
           /\ \A q \in Range(Front(s)) : q.id # Last(s).id
  <1> DEFINE n == Len(s)
             t == Front(s)
  <1>1. /\ n \in Nat /\ n > 0 /\ DOMAIN s = 1 .. n
        /\ \A i \in 1 .. n : s[i] \in Payments
    BY EmptySeq, LenProperties, ElementOfSeq
  <1>2. /\ t \in Seq(Payments)
        /\ Len(t) = IF 1 <= n - 1 THEN (n - 1) - 1 + 1 ELSE 0
        /\ \A i \in 1 .. (n - 1) - 1 + 1 : t[i] = s[1 + i - 1]
    <2>1. 1 \in Int /\ n - 1 \in Int /\ \A i \in 1 .. n - 1 : s[i] \in Payments
      BY <1>1
    <2> HIDE DEF n
    <2>2. t = SubSeq(s, 1, n - 1)
      BY DEF Front, n
    <2> HIDE DEF t
    <2> QED BY <2>1, <2>2, SubSeqProperties
  <1>3. DOMAIN t = 1 .. Len(t) /\ Len(t) \in Nat
    BY <1>2, LenProperties
  <1>4. Last(s) = s[n]
    BY DEF Last
  <1> HIDE DEF n, t
  <1>5. DOMAIN t = 1 .. n - 1 /\ \A i \in 1 .. n - 1 : t[i] = s[i]
    BY <1>1, <1>2, <1>3
  <1>6. Last(s) \in Range(s) /\ Last(s) \in Payments
    BY <1>1, <1>4 DEF Range
  <1>7. Distinct(t)
    BY <1>1, <1>5 DEF Distinct
  <1>8. Range(s) = Range(t) \cup {Last(s)}
    BY <1>1, <1>4, <1>5 DEF Range
  <1>9. \A q \in Range(t) : q.id # Last(s).id
    BY <1>1, <1>4, <1>5 DEF Range, Distinct
  <1> QED BY <1>2, <1>6, <1>7, <1>8, <1>9 DEF t

\* The coins of a set of payments.
Value(S) == SumFunction([p \in S |-> p.value])

\* They are a natural number, and grow with each payment.
LEMMA ValueInsert ==
    ASSUME NEW S, S \subseteq Payments, IsFiniteSet(S), NEW p \in Payments, p \notin S
    PROVE  /\ Value(S) \in Nat
           /\ Value(S \cup {p}) = Value(S) + p.value
  <1> DEFINE f == [q \in S |-> q.value]
             T == S \cup {p}
             g == [q \in T |-> q.value]
  <1>1. /\ \A q \in S : f[q] \in Nat /\ f[q] \in Int /\ g[q] = f[q] /\ g[q] \in Int
        /\ g[p] = p.value /\ p.value \in Int
    BY DEF Payments
  <1>2. DOMAIN f = S /\ DOMAIN g = T
    OBVIOUS
  <1> HIDE DEF f, g
  <1>3. SumFunctionOnSet(f, S) \in Nat
    BY <1>1, SumNat
  <1>4. SumFunctionOnSet(g, S) = SumFunctionOnSet(f, S)
    BY <1>1, SumSame
  <1>5. SumFunctionOnSet(g, T) = SumFunctionOnSet(g, S) + g[p]
    BY <1>1, SumInsert
  <1>6. Value(S) = SumFunctionOnSet(f, S) /\ Value(T) = SumFunctionOnSet(g, T)
    BY <1>2 DEF Value, SumFunction, f, g
  <1> QED BY <1>1, <1>3, <1>4, <1>5, <1>6

\* The coins of any finite set of payments are a natural number.
LEMMA ValueNat ==
    ASSUME NEW S, S \subseteq Payments, IsFiniteSet(S)
    PROVE  Value(S) \in Nat
  <1> DEFINE f == [q \in S |-> q.value]
  <1>1. \A q \in S : f[q] \in Nat
    BY DEF Payments
  <1>2. DOMAIN f = S
    OBVIOUS
  <1> HIDE DEF f
  <1>3. SumFunctionOnSet(f, S) \in Nat
    BY <1>1, SumNat
  <1> QED BY <1>2, <1>3 DEF Value, SumFunction, f

-----------------------------------------------------------------------------
\* The walk over the schedule at the epoch boundary (PayDeadline): its states
\* are a function g of the number of payments seen, from the back.

WalkStart(left, pd) == [left |-> left, paid |-> pd, future |-> <<>>, again |-> <<>>]

IsWalk(g, s, n, left, pd) ==
    g = [k \in 0 .. n |->
            IF k = 0 THEN WalkStart(left, pd)
            ELSE Settle(g[k - 1], s[Len(s) + 1 - k])]

\* There is a walk of any length: the shortest that does not exist would
\* prolong one that does.
LEMMA WalkExists ==
    ASSUME NEW s, NEW left, NEW pd, NEW n \in Nat
    PROVE  \E g : IsWalk(g, s, n, left, pd)
  <1> DEFINE F == {m \in Nat : ~ \E g : IsWalk(g, s, m, left, pd)}
  <1> SUFFICES ASSUME F # {} PROVE FALSE
    OBVIOUS
  <1>0. F \subseteq Nat
    OBVIOUS
  <1>1. PICK m \in F : \A k \in F : m <= k
    <2> HIDE DEF F
    <2> QED BY <1>0, LeastNumber
  <1>2. m \in Nat /\ ~ \E g : IsWalk(g, s, m, left, pd)
    OBVIOUS
  <1>3. CASE m = 0
    <2> DEFINE h == [k \in 0 .. 0 |-> WalkStart(left, pd)]
    <2>1. h = [k \in 0 .. 0 |-> IF k = 0 THEN WalkStart(left, pd)
                                ELSE Settle(h[k - 1], s[Len(s) + 1 - k])]
      <3>1. \A k \in 0 .. 0 : k = 0
        OBVIOUS
      <3> QED BY <3>1
    <2>2. IsWalk(h, s, 0, left, pd)
      BY <2>1 DEF IsWalk
    <2> QED BY <1>2, <1>3, <2>2
  <1>4. CASE m # 0
    <2>1. m - 1 \in Nat /\ m - 1 \notin F
      BY <1>1, <1>2, <1>4
    <2>2. PICK g : IsWalk(g, s, m - 1, left, pd)
      BY <2>1
    <2> DEFINE h == [k \in 0 .. m |-> IF k < m THEN g[k]
                                      ELSE Settle(g[m - 1], s[Len(s) + 1 - m])]
               e(k) == IF k = 0 THEN WalkStart(left, pd)
                       ELSE Settle(h[k - 1], s[Len(s) + 1 - k])
    <2>3. ASSUME NEW k \in 0 .. m PROVE h[k] = e(k)
      <3>1. CASE k = m
        <4>1. h[k] = Settle(g[m - 1], s[Len(s) + 1 - m])
          BY <3>1
        <4>2. h[k - 1] = g[m - 1]
          BY <1>2, <1>4, <3>1
        <4> HIDE DEF h
        <4> QED BY <1>4, <3>1, <4>1, <4>2
      <3>2. CASE k # m
        <4>1. k \in 0 .. m - 1 /\ k < m
          BY <1>2, <3>2
        <4>2. h[k] = g[k]
          BY <4>1
        <4>3. g[k] = IF k = 0 THEN WalkStart(left, pd)
                     ELSE Settle(g[k - 1], s[Len(s) + 1 - k])
          BY <2>2, <4>1 DEF IsWalk
        <4>4. k # 0 => h[k - 1] = g[k - 1]
          <5>1. k # 0 => k - 1 \in 0 .. m /\ k - 1 < m
            BY <1>2, <4>1
          <5> QED BY <5>1
        <4> HIDE DEF h
        <4> QED BY <4>2, <4>3, <4>4
      <3> QED BY <3>1, <3>2
    <2>4. h = [k \in 0 .. m |-> h[k]]
      OBVIOUS
    <2> HIDE DEF h
    <2>5. h = [k \in 0 .. m |-> e(k)]
      BY <2>3, <2>4
    <2>6. IsWalk(h, s, m, left, pd)
      BY <2>5 DEF IsWalk
    <2> QED BY <1>2, <2>6
  <1> QED BY <1>3, <1>4

\* PayDeadline is where the walk over the whole schedule ends.
LEMMA DeadlineWalk ==
    ASSUME NEW w, NEW left, Len(scheduled[w]) \in Nat
    PROVE  \E g : /\ IsWalk(g, scheduled[w], Len(scheduled[w]), left, paid[w])
                  /\ PayDeadline(w, left) = g[Len(scheduled[w])]
  <1> DEFINE n == Len(scheduled[w])
             g == CHOOSE g : IsWalk(g, scheduled[w], n, left, paid[w])
  <1>1. IsWalk(g, scheduled[w], n, left, paid[w])
    BY WalkExists
  <1>2. PayDeadline(w, left) = g[n]
    BY DEF PayDeadline, IsWalk, WalkStart
  <1> QED BY <1>1, <1>2

\* What is true of the walk after `k` payments of `s`: those seen are back on
\* the list or newly paid, none of them twice; what was paid was due, and came
\* out of the coins that were left.
Walks == [left : Nat, paid : SUBSET Payments, future : Seq(Payments), again : Seq(Payments)]

Walked(a, s, k, left, pd) ==
    LET back == a.future \o a.again
    IN  /\ a \in Walks
        /\ IsFiniteSet(a.paid) /\ pd \subseteq a.paid
        /\ Distinct(back)
        /\ Range(back) \cup (a.paid \ pd) = {s[j] : j \in Len(s) + 1 - k .. Len(s)}
        /\ Range(back) \cap a.paid = {}
        /\ \A p \in a.paid \ pd : Due(p) /\ (left = 0 => p.value = 0)
        /\ left = 0 => a.left = 0
        /\ a.left + Value(a.paid) = left + Value(pd)

\* One payment that was not seen before is settled.
LEMMA SettleOne ==
    ASSUME NEW a \in Walks, NEW p \in Payments,
           Distinct(a.future \o a.again),
           \A q \in Range(a.future \o a.again) : q.id # p.id,
           IsFiniteSet(a.paid), p \notin a.paid
    PROVE  LET b    == Settle(a, p)
               back == a.future \o a.again
               now  == b.future \o b.again
           IN  /\ b \in Walks
               /\ Distinct(now)
               /\ IsFiniteSet(b.paid)
               /\ \/ /\ Range(now) = Range(back) \cup {p}
                     /\ b.paid = a.paid /\ b.left = a.left
                  \/ /\ Due(p) /\ p.value <= a.left
                     /\ Range(now) = Range(back)
                     /\ b.paid = a.paid \cup {p}
                     /\ b.left = a.left - p.value
  <1> DEFINE b == Settle(a, p)
             back == a.future \o a.again
             now  == b.future \o b.again
  <1>1. /\ a = [left |-> a.left, paid |-> a.paid, future |-> a.future, again |-> a.again]
        /\ a.left \in Nat /\ a.paid \subseteq Payments
        /\ a.future \in Seq(Payments) /\ a.again \in Seq(Payments)
    BY DEF Walks
  <1>2. back \in Seq(Payments)
    BY <1>1, ConcatProperties
  <1>3. CASE ~Due(p)
    <2>1. b = [left |-> a.left, paid |-> a.paid, future |-> <<p>> \o a.future,
               again |-> a.again]
      BY <1>1, <1>3 DEF Settle
    <2> HIDE DEF b
    <2>2. <<p>> \in Seq(Payments)
      OBVIOUS
    <2>3. <<p>> \o a.future \in Seq(Payments)
      BY <1>1, <2>2, ConcatProperties
    <2>4. b \in Walks
      BY <1>1, <2>1, <2>3 DEF Walks
    <2>5. now = <<p>> \o back
      BY <1>1, <2>1, <2>2, ConcatAssociative
    <2> HIDE DEF now, back
    <2>6. Distinct(now) /\ Range(now) = Range(back) \cup {p}
      BY <1>2, <2>5, PrependPayment DEF back
    <2> QED BY <2>1, <2>4, <2>6 DEF b, now, back
  <1>4. CASE Due(p) /\ p.value <= a.left
    <2>1. b = [left |-> a.left - p.value, paid |-> a.paid \cup {p}, future |-> a.future,
               again |-> a.again]
      BY <1>1, <1>4 DEF Settle, PayNext
    <2> HIDE DEF b
    <2>2. IsFiniteSet(a.paid \cup {p}) /\ a.left - p.value \in Nat
      BY <1>1, <1>4, FS_AddElement DEF Payments
    <2>3. b \in Walks
      BY <1>1, <2>1, <2>2 DEF Walks
    <2>4. now = back
      BY <2>1
    <2> HIDE DEF now, back
    <2> QED BY <1>4, <2>1, <2>2, <2>3, <2>4 DEF b, now, back
  <1>5. CASE Due(p) /\ ~(p.value <= a.left)
    <2>1. b = [left |-> a.left, paid |-> a.paid, future |-> a.future,
               again |-> Append(a.again, p)]
      BY <1>1, <1>5 DEF Settle, PayNext
    <2> HIDE DEF b
    <2>2. Append(a.again, p) \in Seq(Payments)
      BY <1>1, AppendProperties
    <2>3. b \in Walks
      BY <1>1, <2>1, <2>2 DEF Walks
    <2>4. now = Append(back, p)
      <3>1. Append(a.again, p) = a.again \o <<p>> /\ Append(back, p) = back \o <<p>>
        BY <1>1, <1>2, AppendIsConcat
      <3>2. <<p>> \in Seq(Payments)
        OBVIOUS
      <3> QED BY <1>1, <2>1, <3>1, <3>2, ConcatAssociative
    <2> HIDE DEF now, back
    <2>5. Distinct(now) /\ Range(now) = Range(back) \cup {p}
      BY <1>2, <2>4, AppendPayment DEF back
    <2> QED BY <2>1, <2>3, <2>5 DEF b, now, back
  <1> QED BY <1>3, <1>4, <1>5

\* The walk goes on to the next payment from the back.
LEMMA WalkStep ==
    ASSUME NEW s \in Seq(Payments), Distinct(s), NEW left \in Nat,
           NEW pd, pd \subseteq Payments,
           \A i \in DOMAIN s : \A q \in pd : s[i].id # q.id,
           NEW k \in Nat, k < Len(s), NEW a, Walked(a, s, k, left, pd)
    PROVE  Walked(Settle(a, s[Len(s) - k]), s, k + 1, left, pd)
  <1> DEFINE n == Len(s)
             p == s[n - k]
             back == a.future \o a.again
             seen == {s[j] : j \in n + 1 - k .. n}
             b == Settle(a, p)
             now == b.future \o b.again
  <1>1. /\ n \in Nat /\ DOMAIN s = 1 .. n /\ n - k \in 1 .. n
        /\ \A j \in 1 .. n : s[j] \in Payments
    BY LenProperties, ElementOfSeq
  <1>2. /\ a \in Walks /\ IsFiniteSet(a.paid) /\ pd \subseteq a.paid
        /\ Distinct(back)
        /\ Range(back) \cup (a.paid \ pd) = seen
        /\ Range(back) \cap a.paid = {}
        /\ \A q \in a.paid \ pd : Due(q) /\ (left = 0 => q.value = 0)
        /\ left = 0 => a.left = 0
        /\ a.left + Value(a.paid) = left + Value(pd)
    BY DEF Walked
  <1> HIDE DEF n
  <1>3. \A q \in seen : q.id # p.id
    <2> SUFFICES ASSUME NEW j \in n + 1 - k .. n PROVE s[j].id # s[n - k].id
      OBVIOUS
    <2>1. j \in 1 .. n /\ j # n - k
      BY <1>1
    <2> QED BY <1>1, <2>1 DEF Distinct
  <1>4. {s[j] : j \in n + 1 - (k + 1) .. n} = seen \cup {p}
    <2>1. n + 1 - (k + 1) .. n = (n + 1 - k .. n) \cup {n - k}
      BY <1>1
    <2> QED BY <2>1
  <1>5. p \in Payments /\ \A q \in pd : q.id # p.id
    BY <1>1
  <1> HIDE DEF seen, p, back
  <1>6. p \notin a.paid /\ p \notin Range(back) /\ p \notin pd
    BY <1>2, <1>3, <1>5
  <1>7. \A q \in Range(back) : q.id # p.id
    BY <1>2, <1>3
  <1>8. /\ b \in Walks /\ Distinct(now) /\ IsFiniteSet(b.paid)
        /\ \/ /\ Range(now) = Range(back) \cup {p}
              /\ b.paid = a.paid /\ b.left = a.left
           \/ /\ Due(p) /\ p.value <= a.left
              /\ Range(now) = Range(back)
              /\ b.paid = a.paid \cup {p}
              /\ b.left = a.left - p.value
    BY <1>2, <1>5, <1>6, <1>7, SettleOne DEF back
  <1>9. a.left \in Nat /\ a.paid \subseteq Payments /\ p.value \in Nat
    BY <1>2, <1>5 DEF Walks, Payments
  <1>10. /\ Value(a.paid) \in Nat
         /\ Value(a.paid \cup {p}) = Value(a.paid) + p.value
    BY <1>2, <1>5, <1>6, <1>9, ValueInsert
  <1> HIDE DEF b, now
  <1>11. Range(now) \cup (b.paid \ pd) = seen \cup {p}
    BY <1>2, <1>6, <1>8
  <1>12. pd \subseteq b.paid /\ Range(now) \cap b.paid = {}
    BY <1>2, <1>6, <1>8
  <1>13. left = 0 => b.left = 0 /\ (b.paid # a.paid => p.value = 0)
    BY <1>2, <1>8, <1>9
  <1>14. \A q \in b.paid \ pd : Due(q) /\ (left = 0 => q.value = 0)
    <2> SUFFICES ASSUME NEW q \in b.paid \ pd PROVE Due(q) /\ (left = 0 => q.value = 0)
      OBVIOUS
    <2>1. CASE q \in a.paid
      BY <1>2, <2>1
    <2>2. CASE q \notin a.paid
      <3>1. q = p /\ Due(p) /\ b.paid # a.paid
        BY <1>8, <2>2
      <3> QED BY <1>13, <3>1
    <2> QED BY <2>1, <2>2
  <1>15. b.left + Value(b.paid) = left + Value(pd)
    <2>1. CASE b.paid = a.paid /\ b.left = a.left
      BY <1>2, <2>1
    <2>2. CASE b.paid = a.paid \cup {p} /\ b.left = a.left - p.value
      <3>1. Value(b.paid) = Value(a.paid) + p.value
        BY <1>10, <2>2
      <3>2. b.left + Value(b.paid) = a.left + Value(a.paid)
        BY <1>9, <1>10, <2>2, <3>1
      <3> QED BY <1>2, <3>2
    <2> QED BY <1>8, <2>1, <2>2
  <1>16. Walked(b, s, k + 1, left, pd)
    BY <1>4, <1>8, <1>11, <1>12, <1>13, <1>14, <1>15 DEF Walked, now, n
  <1> QED BY <1>16 DEF b, p, n

\* So it does to its end.
LEMMA WalkEnd ==
    ASSUME NEW s \in Seq(Payments), Distinct(s), NEW left \in Nat,
           NEW pd, pd \subseteq Payments, IsFiniteSet(pd),
           \A i \in DOMAIN s : \A q \in pd : s[i].id # q.id,
           NEW g, IsWalk(g, s, Len(s), left, pd)
    PROVE  Walked(g[Len(s)], s, Len(s), left, pd)
  <1> DEFINE n == Len(s)
             F == {k \in Nat : k <= n /\ ~Walked(g[k], s, k, left, pd)}
  <1>1. n \in Nat
    BY LenProperties
  <1> SUFFICES ASSUME F # {} PROVE FALSE
    BY <1>1
  <1>2. F \subseteq Nat
    OBVIOUS
  <1>3. PICK k \in F : \A j \in F : k <= j
    <2> HIDE DEF F
    <2> QED BY <1>2, LeastNumber
  <1>4. k \in 0 .. n /\ k \in Nat /\ ~Walked(g[k], s, k, left, pd)
    BY <1>1
  <1>5. g[k] = IF k = 0 THEN WalkStart(left, pd)
               ELSE Settle(g[k - 1], s[n + 1 - k])
    BY <1>4 DEF IsWalk
  <1>6. CASE k = 0
    <2> DEFINE a == WalkStart(left, pd)
    <2>1. <<>> \in Seq(Payments) /\ <<>> \o <<>> = <<>>
      BY ConcatEmptySeq
    <2>2. /\ a \in Walks /\ a.paid = pd /\ a.left = left
          /\ a.future \o a.again = <<>>
      BY <2>1 DEF WalkStart, Walks
    <2>3. Distinct(<<>>) /\ Range(<<>>) = {}
      BY DEF Distinct, Range
    <2>4. {s[j] : j \in n + 1 - 0 .. n} = {}
      <3>1. n + 1 - 0 .. n = {}
        BY <1>1
      <3> QED BY <3>1
    <2> HIDE DEF a
    <2>5. Walked(a, s, 0, left, pd)
      BY <2>2, <2>3, <2>4 DEF Walked
    <2> QED BY <1>4, <1>5, <1>6, <2>5 DEF a
  <1>7. CASE k # 0
    <2> DEFINE m == k - 1
    <2>1. m \in Nat /\ m < n /\ m + 1 = k /\ n - m = n + 1 - k /\ ~(k <= m) /\ m <= n
      BY <1>1, <1>4, <1>7
    <2>2. m \notin F
      BY <1>3, <2>1
    <2>3. Walked(g[m], s, m, left, pd)
      BY <2>1, <2>2
    <2> HIDE DEF m
    <2>4. Walked(Settle(g[m], s[n - m]), s, m + 1, left, pd)
      BY <2>1, <2>3, WalkStep
    <2> QED BY <1>4, <1>5, <1>7, <2>1, <2>4 DEF m
  <1> QED BY <1>6, <1>7

\* What PayDeadline does to a wallet.
LEMMA DeadlineSettles ==
    ASSUME NEW w, scheduled[w] \in Seq(Payments), Distinct(scheduled[w]),
           paid[w] \subseteq Payments, IsFiniteSet(paid[w]),
           \A i \in DOMAIN scheduled[w] : \A q \in paid[w] : scheduled[w][i].id # q.id,
           NEW left \in Nat
    PROVE  LET a    == PayDeadline(w, left)
               back == a.future \o a.again
           IN  /\ a \in Walks
               /\ back \in Seq(Payments)
               /\ Distinct(back)
               /\ IsFiniteSet(a.paid) /\ paid[w] \subseteq a.paid
               /\ Range(back) \cup (a.paid \ paid[w]) = Range(scheduled[w])
               /\ Range(back) \cap a.paid = {}
               /\ \A p \in a.paid \ paid[w] : Due(p) /\ (left = 0 => p.value = 0)
               /\ a.left + Value(a.paid) = left + Value(paid[w])
  <1> DEFINE s == scheduled[w]
             a == PayDeadline(w, left)
             back == a.future \o a.again
  <1>1. Len(s) \in Nat /\ DOMAIN s = 1 .. Len(s)
    BY LenProperties
  <1>2. PICK g : IsWalk(g, s, Len(s), left, paid[w]) /\ a = g[Len(s)]
    BY <1>1, DeadlineWalk
  <1>3. Walked(a, s, Len(s), left, paid[w])
    BY <1>2, WalkEnd
  <1>4. {s[j] : j \in Len(s) + 1 - Len(s) .. Len(s)} = Range(s)
    <2>1. Len(s) + 1 - Len(s) .. Len(s) = DOMAIN s
      BY <1>1
    <2> QED BY <2>1 DEF Range
  <1> HIDE DEF a, s
  <1>5. a.future \in Seq(Payments) /\ a.again \in Seq(Payments)
    BY <1>3 DEF Walked, Walks
  <1>6. back \in Seq(Payments)
    BY <1>5, ConcatProperties
  <1> QED BY <1>3, <1>4, <1>6 DEF Walked, a, s

-----------------------------------------------------------------------------
\* Refunds.

\* What is paid back to the donors of a wallet is not more than it has left:
\* the ratios, truncated, sum to one at most, and so do the shares.
LEMMA SharesFit ==
    ASSUME NEW don \in [Donors -> Nat], NEW enr \in Nat, enr > 0,
           enr = SumFunctionOnSet(don, Donors), NEW bal \in Nat,
           NEW f, \A d \in Donors : f[d] = MultiplyRatio(bal, Ratio(don[d], enr))
    PROVE  /\ \A d \in Donors : f[d] \in Nat
           /\ SumFunctionOnSet(f, Donors) \in Nat
           /\ SumFunctionOnSet(f, Donors) <= bal
  <1> DEFINE r == [d \in Donors |-> (don[d] * FixedOne) \div enr]
             lo == [d \in Donors |-> enr * r[d]]
             hi == [d \in Donors |-> FixedOne * don[d]]
             lo2 == [d \in Donors |-> FixedOne * f[d]]
             hi2 == [d \in Donors |-> bal * r[d]]
             R == SumFunctionOnSet(r, Donors)
             S == SumFunctionOnSet(f, Donors)
  <1>1. FixedOne \in Nat /\ FixedOne > 0 /\ IsFiniteSet(Donors)
    BY TallyAssumption, DonorVoiceAssumption DEF Donors
  <1>2. ASSUME NEW d \in Donors
        PROVE  r[d] \in Nat /\ enr * r[d] <= FixedOne * don[d] /\ don[d] \in Nat
    <2> DEFINE x == don[d] * FixedOne
    <2>1. don[d] \in Nat /\ x \in Nat /\ x = FixedOne * don[d]
      BY <1>1
    <2> HIDE DEF x
    <2>2. x \div enr \in Nat /\ enr * (x \div enr) <= x
      BY <2>1
    <2>3. r[d] = x \div enr
      BY DEF x
    <2> QED BY <2>1, <2>2, <2>3
  <1>3. ASSUME NEW d \in Donors
        PROVE  f[d] \in Nat /\ FixedOne * f[d] <= bal * r[d]
    <2> DEFINE x == bal * r[d]
    <2>1. f[d] = x \div FixedOne
      BY DEF MultiplyRatio, Ratio
    <2>2. x \in Nat
      <3> HIDE DEF r
      <3> QED BY <1>2
    <2> HIDE DEF x
    <2>3. x \div FixedOne \in Nat /\ FixedOne * (x \div FixedOne) <= x
      BY <1>1, <2>2
    <2> QED BY <2>1, <2>3 DEF x
  <1> HIDE DEF r
  <1>4. /\ \A d \in Donors : lo[d] \in Int /\ hi[d] \in Int /\ lo[d] <= hi[d]
        /\ \A d \in Donors : lo2[d] \in Int /\ hi2[d] \in Int /\ lo2[d] <= hi2[d]
        /\ \A d \in Donors : r[d] \in Int /\ lo[d] = enr * r[d]
        /\ \A d \in Donors : don[d] \in Int /\ hi[d] = FixedOne * don[d]
        /\ \A d \in Donors : f[d] \in Int /\ lo2[d] = FixedOne * f[d]
        /\ \A d \in Donors : r[d] \in Int /\ hi2[d] = bal * r[d]
    BY <1>1, <1>2, <1>3
  <1> HIDE DEF lo, hi, lo2, hi2
  <1>5. R \in Nat /\ S \in Nat
    BY <1>1, <1>2, <1>3, SumNat
  <1>6. /\ SumFunctionOnSet(lo, Donors) = enr * R
        /\ SumFunctionOnSet(hi, Donors) = FixedOne * enr
        /\ SumFunctionOnSet(lo2, Donors) = FixedOne * S
        /\ SumFunctionOnSet(hi2, Donors) = bal * R
    BY <1>1, <1>4, SumTimes
  <1>7. /\ SumFunctionOnSet(lo, Donors) <= SumFunctionOnSet(hi, Donors)
        /\ SumFunctionOnSet(lo2, Donors) <= SumFunctionOnSet(hi2, Donors)
    BY <1>1, <1>4, SumAtMost
  <1>8. enr * R <= enr * FixedOne /\ FixedOne * S <= bal * R
    BY <1>1, <1>6, <1>7
  <1> HIDE DEF R, S
  <1>9. R <= FixedOne
    BY <1>1, <1>5, <1>8
  <1>10. FixedOne * S <= FixedOne * bal
    BY <1>1, <1>5, <1>8, <1>9
  <1>11. S <= bal
    BY <1>1, <1>5, <1>10
  <1> QED BY <1>3, <1>5, <1>11 DEF S

-----------------------------------------------------------------------------
\* The invariant. Its parts are about one wallet, and take the values of the
\* variables of that wallet, so that a step which leaves a wallet alone
\* preserves them at once.

\* The payments of a wallet are in one place each, by their numbers, and there
\* are as many vetoed ones as rejections in a row.
PaymentsSound(s, pd, vt, m, n) ==
    /\ Distinct(s)
    /\ IsFiniteSet(pd) /\ IsFiniteSet(vt)
    /\ \A p \in Range(s) : \A q \in pd \cup vt : p.id # q.id
    /\ \A p \in pd : \A q \in vt : p.id # q.id
    /\ {p.id : p \in Range(s) \cup pd \cup vt} = 1 .. m
    /\ n <= Cardinality(vt)

\* A ballot to veto a payment: nobody votes against, what was voted was donated
\* by the voters, and a completed ballot had a first vote in an earlier epoch.
BallotSound(t, don) ==
    /\ t \in Tallies
    /\ t.reject = 0
    /\ t.provisional # 0 => t.voters # {}
    /\ t.completed => 8 * t.approve > t.max /\ Cardinality(t.voters) >= 2
    /\ t.approve <= t.max
    /\ t.approve <= SumFunctionOnSet(don, t.voters)

\* A vetoed payment has a completed ballot, which nobody can vote on again.
BallotsSound(vs, vt, don) ==
    /\ \A i \in DOMAIN vs : BallotSound(vs[i], don)
    /\ \A p \in vt : p.id \in DOMAIN vs /\ vs[p.id].completed

\* All that was donated is enrolled, and is somewhere.
FundsSound(enr, bal, pd, ref, sw, don) ==
    /\ enr = SumFunctionOnSet(don, Donors)
    /\ enr = bal + Value(pd) + SumFunctionOnSet(ref, Donors) + sw

\* What freezes a wallet; only a wallet that has donors is queued.
QueueSound(w) ==
    /\ frozen[w] => Queued(w) \/ Cardinality(vetoed[w]) > 2
    /\ Queued(w) => enrolled[w] > 0

DonorVoiceInv ==
    /\ TypeOK
    /\ vetoes = [w \in Wallets |-> vetoes[w]]
    /\ \A w \in Wallets :
          /\ PaymentsSound(scheduled[w], paid[w], vetoed[w], made[w], rejections[w])
          /\ BallotsSound(vetoes[w], vetoed[w], donated[w])
          /\ FundsSound(enrolled[w], balance[w], paid[w], refunded[w], swept[w], donated[w])
          /\ QueueSound(w)

\* A payment with the next number may be scheduled.
LEMMA ScheduleSound ==
    ASSUME NEW s \in Seq(Payments), NEW pd, NEW vt, NEW m \in Nat, NEW n,
           PaymentsSound(s, pd, vt, m, n), NEW p \in Payments, p.id = m + 1
    PROVE  PaymentsSound(Append(s, p), pd, vt, m + 1, n)
  <1>1. \A q \in Range(s) \cup pd \cup vt : q.id \in 1 .. m
    BY DEF PaymentsSound
  <1>2. \A q \in Range(s) \cup pd \cup vt : q.id # p.id
    BY <1>1
  <1>3. Distinct(Append(s, p)) /\ Range(Append(s, p)) = Range(s) \cup {p}
    BY <1>2, AppendPayment DEF PaymentsSound
  <1> DEFINE t == Append(s, p)
             ids == {q.id : q \in Range(s) \cup pd \cup vt}
  <1> HIDE DEF t
  <1>4. {q.id : q \in Range(t) \cup pd \cup vt} = ids \cup {p.id}
    BY <1>3 DEF t
  <1>5. ids = 1 .. m
    BY DEF PaymentsSound
  <1>6. (1 .. m) \cup {m + 1} = 1 .. m + 1
    OBVIOUS
  <1>7. \A q \in Range(t) : \A x \in pd \cup vt : q.id # x.id
    <2> SUFFICES ASSUME NEW q \in Range(t), NEW x \in pd \cup vt PROVE q.id # x.id
      OBVIOUS
    <2>1. CASE q = p
      BY <1>2, <2>1
    <2>2. CASE q \in Range(s)
      BY <2>2 DEF PaymentsSound
    <2> QED BY <1>3, <2>1, <2>2 DEF t
  <1>8. {q.id : q \in Range(t) \cup pd \cup vt} = 1 .. m + 1
    BY <1>4, <1>5, <1>6
  <1>9. Distinct(t)
    BY <1>3 DEF t
  <1> HIDE DEF ids
  <1> QED BY <1>7, <1>8, <1>9 DEF PaymentsSound, t

\* The last payment may be vetoed.
LEMMA RejectSound ==
    ASSUME NEW s \in Seq(Payments), s # <<>>, NEW pd, NEW vt, NEW m \in Nat, NEW n \in Nat,
           PaymentsSound(s, pd, vt, m, n)
    PROVE  /\ PaymentsSound(Front(s), pd, vt \cup {Last(s)}, m, n + 1)
           /\ Cardinality(vt \cup {Last(s)}) > n
           /\ Cardinality(vt \cup {Last(s)}) > Cardinality(vt)
  <1> DEFINE p == Last(s)
             t == Front(s)
  <1>1. /\ p \in Range(s) /\ Distinct(t) /\ Range(s) = Range(t) \cup {p}
        /\ \A q \in Range(t) : q.id # p.id
    BY FrontPayment DEF PaymentsSound
  <1> HIDE DEF p, t
  <1>2. /\ \A q \in Range(s) : \A x \in pd \cup vt : q.id # x.id
        /\ \A q \in pd : \A x \in vt : q.id # x.id
        /\ IsFiniteSet(vt) /\ IsFiniteSet(pd) /\ n <= Cardinality(vt)
        /\ {q.id : q \in Range(s) \cup pd \cup vt} = 1 .. m
    BY DEF PaymentsSound
  <1>3. p \notin vt
    BY <1>1, <1>2
  <1>4. /\ IsFiniteSet(vt \cup {p}) /\ Cardinality(vt) \in Nat
        /\ Cardinality(vt \cup {p}) = Cardinality(vt) + 1
    BY <1>2, <1>3, FS_AddElement, FS_CardinalityType
  <1>5. Range(t) \cup pd \cup (vt \cup {p}) = Range(s) \cup pd \cup vt
    BY <1>1
  <1>6. /\ \A q \in Range(t) : \A x \in pd \cup (vt \cup {p}) : q.id # x.id
        /\ \A q \in pd : \A x \in vt \cup {p} : q.id # x.id
    BY <1>1, <1>2
  <1>7. n + 1 <= Cardinality(vt \cup {p})
    BY <1>2, <1>4
  <1>8. PaymentsSound(t, pd, vt \cup {p}, m, n + 1)
    BY <1>1, <1>2, <1>4, <1>5, <1>6, <1>7 DEF PaymentsSound
  <1> QED BY <1>2, <1>4, <1>8 DEF p, t

\* Some of the scheduled payments may be paid, and the count of rejections
\* reset.
LEMMA SettleSound ==
    ASSUME NEW s, NEW pd, NEW vt, NEW m, NEW n, PaymentsSound(s, pd, vt, m, n),
           NEW t, Distinct(t), NEW pd2, IsFiniteSet(pd2), pd \subseteq pd2,
           Range(t) \cup (pd2 \ pd) = Range(s), Range(t) \cap pd2 = {},
           NEW n2, n2 = n \/ n2 = 0
    PROVE  PaymentsSound(t, pd2, vt, m, n2)
  <1>1. /\ \A q \in Range(s) : \A x \in pd \cup vt : q.id # x.id
        /\ \A q \in pd : \A x \in vt : q.id # x.id
        /\ IsFiniteSet(vt) /\ n <= Cardinality(vt)
        /\ {q.id : q \in Range(s) \cup pd \cup vt} = 1 .. m
        /\ Distinct(s)
    BY DEF PaymentsSound
  <1>2. \A q, x \in Range(s) : q.id = x.id => q = x
    BY <1>1 DEF Range, Distinct
  <1>3. Range(t) \subseteq Range(s) /\ pd2 \subseteq pd \cup Range(s)
    OBVIOUS
  <1>4. \A q \in Range(t) : \A x \in pd2 \cup vt : q.id # x.id
    <2> SUFFICES ASSUME NEW q \in Range(t), NEW x \in pd2 \cup vt PROVE q.id # x.id
      OBVIOUS
    <2>1. CASE x \in pd \cup vt
      BY <1>1, <1>3, <2>1
    <2>2. CASE x \in Range(s)
      <3>1. x \notin vt
        BY <1>1, <2>2
      <3> QED BY <1>2, <1>3, <2>2, <3>1
    <2> QED BY <1>3, <2>1, <2>2
  <1>5. \A q \in pd2 : \A x \in vt : q.id # x.id
    BY <1>1, <1>3
  <1>6. Range(t) \cup pd2 \cup vt = Range(s) \cup pd \cup vt
    OBVIOUS
  <1>7. n2 <= Cardinality(vt)
    <2>1. Cardinality(vt) \in Nat
      BY <1>1, FS_CardinalityType
    <2> QED BY <1>1, <2>1
  <1> QED BY <1>1, <1>4, <1>5, <1>6, <1>7 DEF PaymentsSound

\* Donors who give more keep the ballots sound.
LEMMA BallotsGrow ==
    ASSUME NEW vs, NEW vt, NEW don \in [Donors -> Nat], NEW don2 \in [Donors -> Nat],
           \A d \in Donors : don[d] <= don2[d], BallotsSound(vs, vt, don)
    PROVE  BallotsSound(vs, vt, don2)
  <1>1. ASSUME NEW i \in DOMAIN vs PROVE BallotSound(vs[i], don2)
    <2> DEFINE t == vs[i]
               V == t.voters
    <2>1. BallotSound(t, don)
      BY DEF BallotsSound
    <2>2. t \in Tallies
      BY <2>1 DEF BallotSound
    <2>3. V \subseteq Donors /\ t.approve \in Nat
      BY <2>2 DEF Tallies, Donors
    <2>4. IsFiniteSet(V)
      BY <2>3, DonorVoiceAssumption, FS_Subset DEF Donors
    <2> HIDE DEF t, V
    <2>5. \A d \in V : /\ don[d] \in Int /\ don2[d] \in Int /\ don[d] <= don2[d]
      BY <2>3
    <2>6. SumFunctionOnSet(don, V) <= SumFunctionOnSet(don2, V)
      BY <2>4, <2>5, SumAtMost
    <2>7. SumFunctionOnSet(don, V) \in Int /\ SumFunctionOnSet(don2, V) \in Int
      BY <2>4, <2>5, SumInt
    <2>8. t.approve <= SumFunctionOnSet(don, V)
      BY <2>1 DEF BallotSound, V
    <2>9. t.approve <= SumFunctionOnSet(don2, V)
      BY <2>3, <2>6, <2>7, <2>8
    <2> QED BY <2>1, <2>9 DEF BallotSound, t, V
  <1> QED BY <1>1 DEF BallotsSound

\* A vote keeps a ballot sound: the voter is new, so a completed ballot has two.
LEMMA BallotVoted ==
    ASSUME NEW t, NEW don \in [Donors -> Nat], BallotSound(t, don), NEW d \in Donors,
           NEW now \in Nat, CanVote(t, d, don[d], now)
    PROVE  BallotSound(Approved(t, d, don[d], now), don)
  <1> DEFINE v == Approved(t, d, don[d], now)
             V == t.voters
  <1>1. /\ t \in Tallies /\ t.reject = 0
        /\ t.provisional # 0 => V # {}
        /\ t.approve <= SumFunctionOnSet(don, V)
    BY DEF BallotSound
  <1>2. /\ don[d] \in Nat /\ t.approve \in Nat /\ t.max \in Nat
        /\ V \subseteq Donors /\ d \in Voters
    BY <1>1 DEF Tallies, Donors
  <1>3. d \notin V /\ t.approve + t.reject + don[d] <= t.max /\ t.max # 0
    BY DEF CanVote, RatioExists
  <1>4. IsFiniteSet(V)
    BY <1>2, DonorVoiceAssumption, FS_Subset DEF Donors
  <1>5. /\ v \in Tallies /\ v.max = t.max /\ v.approve = t.approve + don[d]
        /\ v.reject = t.reject /\ v.voters = V \cup {d}
        /\ v.completed => /\ t.provisional # 0
                          /\ Percent(v.approve + v.reject, v.max) > LowTurnout
    <2>1. PICK passes \in BOOLEAN :
             /\ passes => Percent((t.approve + don[d]) + t.reject, t.max) > LowTurnout
             /\ v = [max |-> t.max, deadline |-> t.deadline, approve |-> t.approve + don[d],
                     reject |-> t.reject,
                     provisional |-> IF passes /\ t.provisional = 0 THEN now ELSE t.provisional,
                     completed |-> passes /\ t.provisional # 0 /\ now > t.provisional,
                     voters |-> t.voters \cup {d}]
      BY <1>1, <1>2, VotedTally
    <2> HIDE DEF v
    <2>2. v \in Tallies
      BY <1>1, <1>2, <2>1 DEF Tallies
    <2> QED BY <2>1, <2>2
  <1> HIDE DEF v, V
  <1>6. v.approve + v.reject = v.approve /\ v.approve \in Nat
    BY <1>1, <1>2, <1>5
  <1>7. v.completed => 8 * v.approve > v.max
    BY <1>2, <1>3, <1>5, <1>6, MoreThanAnEighth
  <1>8. v.completed => Cardinality(v.voters) >= 2
    <2> SUFFICES ASSUME v.completed PROVE Cardinality(V \cup {d}) >= 2
      BY <1>5
    <2>1. V # {}
      BY <1>1, <1>5
    <2>2. Cardinality(V) \in Nat /\ Cardinality(V) # 0
      BY <1>4, <2>1, FS_CardinalityType, FS_EmptySet
    <2>3. Cardinality(V \cup {d}) = Cardinality(V) + 1
      BY <1>3, <1>4, FS_AddElement
    <2> QED BY <2>2, <2>3
  <1>9. v.approve <= SumFunctionOnSet(don, v.voters)
    <2>1. \A x \in V : don[x] \in Int
      BY <1>2
    <2>2. SumFunctionOnSet(don, V \cup {d}) = SumFunctionOnSet(don, V) + don[d]
      BY <1>2, <1>3, <1>4, <2>1, SumInsert
    <2>3. SumFunctionOnSet(don, V) \in Int
      BY <1>4, <2>1, SumInt
    <2> QED BY <1>1, <1>2, <1>5, <2>2, <2>3
  <1>10. v.approve <= v.max
    BY <1>1, <1>2, <1>3, <1>5
  <1>11. v.provisional # 0 => v.voters # {}
    BY <1>5
  <1> QED BY <1>1, <1>5, <1>7, <1>8, <1>9, <1>10, <1>11 DEF BallotSound, v

\* A new ballot is sound.
LEMMA BallotOpened ==
    ASSUME NEW don, NEW max \in Nat, NEW deadline \in Nat
    PROVE  BallotSound(NewTally(max, deadline), don)
  <1> DEFINE t == NewTally(max, deadline)
  <1>1. t = [max |-> max, deadline |-> deadline, approve |-> 0, reject |-> 0,
             provisional |-> 0, completed |-> FALSE, voters |-> {}]
    BY DEF NewTally
  <1>2. t \in Tallies
    BY <1>1 DEF Tallies
  <1>3. /\ t.reject = 0 /\ t.provisional = 0 /\ ~t.completed /\ t.approve = 0
        /\ t.max = max /\ t.voters = {}
    BY <1>1
  <1> HIDE DEF t
  <1>4. SumFunctionOnSet(don, t.voters) = 0
    BY <1>3, SumEmpty
  <1> QED BY <1>2, <1>3, <1>4 DEF BallotSound, t

\* A wallet's ballots after a vote on one of them, `t`, that the voter could
\* cast: the payment is vetoed only when the ballot completes.
LEMMA BallotsVoted ==
    ASSUME NEW vs, NEW vt, NEW don \in [Donors -> Nat], BallotsSound(vs, vt, don),
           NEW t, NEW id, NEW d \in Donors, NEW now \in Nat, BallotSound(t, don),
           id \in DOMAIN vs => t = vs[id],
           CanVote(t, d, don[d], now), NEW v, v = Approved(t, d, don[d], now),
           NEW vt2, \A p \in vt2 \ vt : v.completed /\ p.id = id,
           NEW us, us = [i \in DOMAIN vs \cup {id} |-> IF i = id THEN v ELSE vs[i]]
    PROVE  BallotsSound(us, vt2, don)
  <1>1. BallotSound(v, don)
    BY BallotVoted
  <1>2. /\ DOMAIN us = DOMAIN vs \cup {id} /\ us[id] = v
        /\ \A i \in DOMAIN vs : i # id => us[i] = vs[i]
    OBVIOUS
  <1>3. \A i \in DOMAIN us : BallotSound(us[i], don)
    BY <1>1, <1>2 DEF BallotsSound
  <1>4. \A p \in vt : p.id # id
    <2> SUFFICES ASSUME NEW p \in vt, p.id = id PROVE FALSE
      OBVIOUS
    <2>1. id \in DOMAIN vs /\ vs[id].completed
      BY DEF BallotsSound
    <2> QED BY <2>1 DEF CanVote
  <1>5. \A p \in vt2 : p.id \in DOMAIN us /\ us[p.id].completed
    <2> SUFFICES ASSUME NEW p \in vt2 PROVE p.id \in DOMAIN us /\ us[p.id].completed
      OBVIOUS
    <2>1. CASE p \in vt
      BY <1>2, <1>4, <2>1 DEF BallotsSound
    <2>2. CASE p \notin vt
      <3>1. v.completed /\ p.id = id
        BY <2>2
      <3> QED BY <1>2, <3>1
    <2> QED BY <2>1, <2>2
  <1> QED BY <1>3, <1>5 DEF BallotsSound

-----------------------------------------------------------------------------
\* Initially, and one lemma for each action.

\* structs_init and init_donor_governance start with the invariant.
LEMMA InitDonorVoice == Init => DonorVoiceInv
  <1> SUFFICES ASSUME Init PROVE DonorVoiceInv
    OBVIOUS
  <1>1. IsFiniteSet(Donors)
    BY DonorVoiceAssumption DEF Donors
  <1>2. donated \in [Wallets -> [Donors -> Nat]]
    BY DonorVoiceAssumption DEF Init
  <1>3. ASSUME NEW w \in Wallets PROVE TotalDonated(w) \in Nat
    BY <1>1, <1>2, SumNat DEF TotalDonated
  <1>4. TypeOK
    BY <1>2, <1>3 DEF Init, TypeOK
  <1>5. vetoes = [w \in Wallets |-> vetoes[w]]
    BY DEF Init
  <1>6. ASSUME NEW w \in Wallets
        PROVE  PaymentsSound(<<>>, {}, {}, 0, 0)
    <2>1. Distinct(<<>>) /\ Range(<<>>) = {}
      BY DEF Distinct, Range
    <2>2. {p.id : p \in Range(<<>>) \cup {} \cup {}} = 1 .. 0
      BY <2>1
    <2> QED BY <2>1, <2>2, FS_EmptySet DEF PaymentsSound
  <1>7. ASSUME NEW w \in Wallets
        PROVE  BallotsSound(<<>>, {}, donated[w])
    BY DEF BallotsSound
  <1>8. ASSUME NEW w \in Wallets
        PROVE  FundsSound(TotalDonated(w), TotalDonated(w), {}, [d \in Donors |-> 0], 0,
                          donated[w])
    <2>1. SumFunctionOnSet([d \in Donors |-> 0], Donors) = 0
      BY <1>1, SumZero
    <2>2. Value({}) = 0
      BY SumEmpty DEF Value, SumFunction
    <2> QED BY <1>3, <2>1, <2>2 DEF FundsSound, TotalDonated
  <1>9. ASSUME NEW w \in Wallets PROVE QueueSound(w)
    BY DEF Init, QueueSound, Queued, Range
  <1>10. ASSUME NEW w \in Wallets
         PROVE /\ PaymentsSound(scheduled[w], paid[w], vetoed[w], made[w], rejections[w])
               /\ BallotsSound(vetoes[w], vetoed[w], donated[w])
               /\ FundsSound(enrolled[w], balance[w], paid[w], refunded[w], swept[w],
                             donated[w])
    BY <1>6, <1>7, <1>8 DEF Init
  <1> QED BY <1>4, <1>5, <1>9, <1>10 DEF DonorVoiceInv

\* A donation: the coins, the receipt and the total enrolled grow together.
LEMMA DonateKeeps ==
    ASSUME DonorVoiceInv, NEW w \in Wallets, NEW d \in Donors, NEW v \in Gifts, Donate(d, w, v)
    PROVE  DonorVoiceInv'
  <1>1. v \in Nat /\ IsFiniteSet(Donors)
    BY DonorVoiceAssumption DEF Donors
  <1>2. TypeOK
    BY DEF DonorVoiceInv
  <1>3. /\ donated' = [donated EXCEPT ![w][d] = donated[w][d] + v]
        /\ donated \in [Wallets -> [Donors -> Nat]]
        /\ enrolled \in [Wallets -> Nat] /\ balance \in [Wallets -> Nat]
        /\ enrolled' = [enrolled EXCEPT ![w] = enrolled[w] + v]
        /\ balance' = [balance EXCEPT ![w] = balance[w] + v]
    BY <1>2 DEF TypeOK, Donate
  <1>4. /\ donated'[w] = [donated[w] EXCEPT ![d] = donated[w][d] + v]
        /\ enrolled'[w] = enrolled[w] + v
        /\ balance'[w] = balance[w] + v
        /\ \A u \in Wallets : u # w => /\ donated'[u] = donated[u]
                                       /\ enrolled'[u] = enrolled[u]
                                       /\ balance'[u] = balance[u]
    BY <1>3
  <1>5. TypeOK'
    <2>1. /\ balance' \in [Wallets -> Nat] /\ enrolled' \in [Wallets -> Nat]
          /\ donated' \in [Wallets -> [Donors -> Nat]]
      BY <1>1, <1>3
    <2> QED BY <1>2, <2>1 DEF TypeOK, Donate, payments
  <1>6. /\ \A x \in Donors : donated[w][x] \in Nat /\ donated'[w][x] \in Nat
        /\ donated[w] \in [Donors -> Nat] /\ donated'[w] \in [Donors -> Nat]
        /\ \A x \in Donors : donated[w][x] <= donated'[w][x]
        /\ donated'[w][d] = donated[w][d] + v
        /\ \A x \in Donors \ {d} : donated'[w][x] = donated[w][x]
    BY <1>1, <1>3, <1>4
  <1>7. BallotsSound(vetoes[w], vetoed[w], donated'[w])
    <2>1. BallotsSound(vetoes[w], vetoed[w], donated[w])
      BY DEF DonorVoiceInv
    <2> QED BY <1>6, <2>1, BallotsGrow
  <1>8. FundsSound(enrolled'[w], balance'[w], paid[w], refunded[w], swept[w], donated'[w])
    <2>1. FundsSound(enrolled[w], balance[w], paid[w], refunded[w], swept[w], donated[w])
      BY DEF DonorVoiceInv
    <2>2. SumFunctionOnSet(donated'[w], Donors) = SumFunctionOnSet(donated[w], Donors) + v
      <3> DEFINE f == donated[w]
                 g == donated'[w]
      <3>1. /\ v \in Int /\ \A x \in Donors : f[x] \in Int
            /\ g[d] = f[d] + v /\ \A x \in Donors \ {d} : g[x] = f[x]
        BY <1>1, <1>6
      <3> HIDE DEF f, g
      <3>2. SumFunctionOnSet(g, Donors) = SumFunctionOnSet(f, Donors) + v
        BY <1>1, <3>1, SumOne
      <3> QED BY <3>2 DEF f, g
    <2>3. Value(paid[w]) \in Int /\ SumFunctionOnSet(refunded[w], Donors) \in Int
      <3>1. \A x \in Donors : refunded[w][x] \in Int
        BY <1>2 DEF TypeOK
      <3>2. paid[w] \subseteq Payments /\ IsFiniteSet(paid[w])
        BY <1>2 DEF DonorVoiceInv, PaymentsSound, TypeOK
      <3> QED BY <1>1, <3>1, <3>2, SumInt, ValueNat
    <2>4. enrolled[w] \in Int /\ balance[w] \in Int /\ swept[w] \in Int
      BY <1>2 DEF TypeOK
    <2> QED BY <1>1, <1>4, <2>1, <2>2, <2>3, <2>4 DEF FundsSound
  <1>9. QueueSound(w)'
    <2>1. QueueSound(w) /\ enrolled[w] \in Nat
      BY <1>3 DEF DonorVoiceInv
    <2> QED BY <1>1, <1>4, <2>1 DEF QueueSound, Queued, Donate, payments
  <1>10. ASSUME NEW u \in Wallets, u # w
         PROVE  /\ BallotsSound(vetoes'[u], vetoed'[u], donated'[u])
                /\ FundsSound(enrolled'[u], balance'[u], paid'[u], refunded'[u], swept'[u],
                              donated'[u])
                /\ QueueSound(u)'
    BY <1>4, <1>10 DEF DonorVoiceInv, Donate, payments, QueueSound, Queued
  <1>11. ASSUME NEW u \in Wallets
         PROVE  PaymentsSound(scheduled'[u], paid'[u], vetoed'[u], made'[u], rejections'[u])
    BY DEF DonorVoiceInv, Donate, payments
  <1>12. vetoes' = [u \in Wallets |-> vetoes'[u]]
    BY DEF DonorVoiceInv, Donate
  <1>13. ASSUME NEW u \in Wallets
         PROVE  /\ BallotsSound(vetoes'[u], vetoed'[u], donated'[u])
                /\ FundsSound(enrolled'[u], balance'[u], paid'[u], refunded'[u], swept'[u],
                              donated'[u])
                /\ QueueSound(u)'
    BY <1>7, <1>8, <1>9, <1>10 DEF Donate, payments
  <1> QED BY <1>5, <1>11, <1>12, <1>13 DEF DonorVoiceInv

\* An approved payment gets the next number.
LEMMA ScheduleKeeps ==
    ASSUME DonorVoiceInv, NEW w \in Wallets, NEW v \in Values, Schedule(w, v)
    PROVE  DonorVoiceInv'
  <1> DEFINE p == [id |-> made'[w], value |-> v, deadline |-> epoch + PaymentDelay]
  <1>1. v \in Nat /\ PaymentDelay \in Nat
    BY DonorVoiceAssumption
  <1>2. TypeOK
    BY DEF DonorVoiceInv
  <1>3. /\ made' = [made EXCEPT ![w] = made[w] + 1]
        /\ scheduled' = [scheduled EXCEPT ![w] = Append(scheduled[w], p)]
        /\ made \in [Wallets -> Nat] /\ scheduled \in [Wallets -> Seq(Payments)]
        /\ epoch \in Nat
    BY <1>2 DEF TypeOK, Schedule
  <1>4. /\ made'[w] = made[w] + 1 /\ made[w] \in Nat
        /\ scheduled'[w] = Append(scheduled[w], p) /\ scheduled[w] \in Seq(Payments)
        /\ \A u \in Wallets : u # w => /\ made'[u] = made[u]
                                       /\ scheduled'[u] = scheduled[u]
    BY <1>3
  <1>5. p \in Payments /\ p.id = made[w] + 1
    BY <1>1, <1>3, <1>4 DEF Payments
  <1> HIDE DEF p
  <1>6. TypeOK'
    <2>1. Append(scheduled[w], p) \in Seq(Payments)
      BY <1>4, <1>5, AppendProperties
    <2>2. made' \in [Wallets -> Nat] /\ scheduled' \in [Wallets -> Seq(Payments)]
      BY <1>3, <1>4, <2>1
    <2> QED BY <1>2, <2>2 DEF TypeOK, Schedule, treasury
  <1>7. ASSUME NEW u \in Wallets
        PROVE  PaymentsSound(scheduled'[u], paid'[u], vetoed'[u], made'[u], rejections'[u])
    <2>1. PaymentsSound(scheduled[u], paid[u], vetoed[u], made[u], rejections[u])
      BY DEF DonorVoiceInv
    <2>2. paid' = paid /\ vetoed' = vetoed /\ rejections' = rejections
      BY DEF Schedule
    <2>3. CASE u = w
      BY <1>4, <1>5, <2>1, <2>2, <2>3, ScheduleSound
    <2>4. CASE u # w
      BY <1>4, <2>1, <2>2, <2>4
    <2> QED BY <2>3, <2>4
  <1>8. ASSUME NEW u \in Wallets
        PROVE  /\ BallotsSound(vetoes'[u], vetoed'[u], donated'[u])
               /\ FundsSound(enrolled'[u], balance'[u], paid'[u], refunded'[u], swept'[u],
                             donated'[u])
               /\ QueueSound(u)'
    BY DEF DonorVoiceInv, Schedule, treasury, QueueSound, Queued
  <1>9. vetoes' = [u \in Wallets |-> vetoes'[u]]
    BY DEF DonorVoiceInv, Schedule
  <1> QED BY <1>6, <1>7, <1>8, <1>9 DEF DonorVoiceInv

\* A rejected payment: its wallet's lists, and what may freeze it.
LEMMA RejectKeeps ==
    ASSUME DonorVoiceInv, NEW w \in Wallets, NEW id, Reject(w, id),
           UNCHANGED <<paid, made, enrolled, queue>>
    PROVE  /\ scheduled' \in [Wallets -> Seq(Payments)]
           /\ vetoed' \in [Wallets -> SUBSET Payments]
           /\ rejections' \in [Wallets -> Nat]
           /\ frozen' \in [Wallets -> BOOLEAN]
           /\ \E p : p.id = id /\ vetoed'[w] = vetoed[w] \cup {p}
           /\ \A u \in Wallets : u # w => vetoed'[u] = vetoed[u]
           /\ \A u \in Wallets :
                 /\ PaymentsSound(scheduled'[u], paid'[u], vetoed'[u], made'[u], rejections'[u])
                 /\ QueueSound(u)'
  <1> DEFINE s == scheduled[w]
             p == Last(s)
             n == rejections[w]
  <1>1. TypeOK
    BY DEF DonorVoiceInv
  <1>2. /\ s \in Seq(Payments) /\ s # <<>> /\ n \in Nat /\ made[w] \in Nat
        /\ scheduled \in [Wallets -> Seq(Payments)]
        /\ vetoed \in [Wallets -> SUBSET Payments]
        /\ rejections \in [Wallets -> Nat]
        /\ frozen \in [Wallets -> BOOLEAN]
    BY <1>1 DEF TypeOK, Reject
  <1>3. /\ p.id = id
        /\ scheduled' = [scheduled EXCEPT ![w] = Front(s)]
        /\ vetoed' = [vetoed EXCEPT ![w] = vetoed[w] \cup {p}]
        /\ rejections' = [rejections EXCEPT ![w] = n + 1]
        /\ frozen' = [frozen EXCEPT ![w] = frozen[w] \/ FreezeAt(n + 1)]
    BY DEF Reject
  <1>4. /\ scheduled'[w] = Front(s) /\ vetoed'[w] = vetoed[w] \cup {p}
        /\ rejections'[w] = n + 1 /\ (frozen'[w] <=> frozen[w] \/ FreezeAt(n + 1))
        /\ \A u \in Wallets : u # w =>
              /\ scheduled'[u] = scheduled[u] /\ vetoed'[u] = vetoed[u]
              /\ rejections'[u] = rejections[u] /\ frozen'[u] = frozen[u]
    BY <1>2, <1>3
  <1>5. PaymentsSound(s, paid[w], vetoed[w], made[w], n)
    BY DEF DonorVoiceInv
  <1> HIDE DEF s, n
  <1>6. p \in Payments /\ Front(s) \in Seq(Payments)
    BY <1>2, <1>5, FrontPayment DEF PaymentsSound
  <1>7. /\ PaymentsSound(Front(s), paid[w], vetoed[w] \cup {p}, made[w], n + 1)
        /\ Cardinality(vetoed[w] \cup {p}) > n
        /\ Cardinality(vetoed[w] \cup {p}) > Cardinality(vetoed[w])
    BY <1>2, <1>5, RejectSound
  <1> HIDE DEF p
  <1>8. /\ scheduled' \in [Wallets -> Seq(Payments)]
        /\ vetoed' \in [Wallets -> SUBSET Payments]
        /\ rejections' \in [Wallets -> Nat]
        /\ frozen' \in [Wallets -> BOOLEAN]
    BY <1>2, <1>3, <1>6
  <1>9. ASSUME NEW u \in Wallets
        PROVE  PaymentsSound(scheduled'[u], paid'[u], vetoed'[u], made'[u], rejections'[u])
    <2>1. CASE u = w
      BY <1>4, <1>7, <2>1
    <2>2. CASE u # w
      BY <1>4, <2>2 DEF DonorVoiceInv
    <2> QED BY <2>1, <2>2
  <1>10. ASSUME NEW u \in Wallets PROVE QueueSound(u)'
    <2>1. QueueSound(u)
      BY DEF DonorVoiceInv
    <2>2. CASE u = w
      <3>1. IsFiniteSet(vetoed[w]) /\ IsFiniteSet(vetoed'[w])
        BY <1>4, <1>5, <1>7 DEF PaymentsSound
      <3>2. Cardinality(vetoed[w]) \in Nat /\ Cardinality(vetoed'[w]) \in Nat
        BY <3>1, FS_CardinalityType
      <3>3. FreezeAt(n + 1) => Cardinality(vetoed'[w]) > 2
        <4>1. n + 1 <= Cardinality(vetoed'[w])
          BY <1>2, <1>4, <1>7, <3>2
        <4> QED BY <1>2, <3>2, <4>1 DEF FreezeAt
      <3>4. Cardinality(vetoed[w]) > 2 => Cardinality(vetoed'[w]) > 2
        BY <1>4, <1>7, <3>2
      <3> QED BY <1>4, <2>1, <2>2, <3>3, <3>4 DEF QueueSound, Queued
    <2>3. CASE u # w
      BY <1>4, <2>1, <2>3 DEF QueueSound, Queued
    <2> QED BY <2>2, <2>3
  <1> QED BY <1>3, <1>4, <1>8, <1>9, <1>10

\* A vote on the ballot `t` of a payment, new or pending.
LEMMA VetoKeeps ==
    ASSUME DonorVoiceInv, NEW w \in Wallets, NEW d \in Donors, NEW id, NEW t,
           BallotSound(t, donated[w]), id \in DOMAIN vetoes[w] => t = vetoes[w][id],
           VetoHandler(d, w, id, t)
    PROVE  DonorVoiceInv'
  <1> DEFINE v == Approved(t, d, donated[w][d], epoch)
             vs == [i \in DOMAIN vetoes[w] \cup {id} |-> IF i = id THEN v ELSE vetoes[w][i]]
  <1>1. TypeOK /\ vetoes = [u \in Wallets |-> vetoes[u]]
    BY DEF DonorVoiceInv
  <1>2. /\ CanVote(t, d, donated[w][d], epoch)
        /\ vetoes' = [vetoes EXCEPT ![w] = vs]
        /\ IF v.completed THEN Reject(w, id)
           ELSE UNCHANGED <<scheduled, vetoed, rejections, frozen>>
        /\ UNCHANGED <<epoch, treasury, made, paid, liquidation, queue, refunded, swept>>
    BY DEF VetoHandler, Approved
  <1>3. /\ epoch' = epoch /\ balance' = balance /\ enrolled' = enrolled
        /\ donated' = donated /\ made' = made /\ paid' = paid
        /\ liquidation' = liquidation /\ queue' = queue
        /\ refunded' = refunded /\ swept' = swept
    BY <1>2 DEF treasury
  <1>4. donated[w] \in [Donors -> Nat] /\ epoch \in Nat
    BY <1>1 DEF TypeOK
  <1> HIDE DEF v, vs
  <1>5. /\ vetoes' = [u \in Wallets |-> vetoes'[u]]
        /\ vetoes'[w] = vs
        /\ \A u \in Wallets : u # w => vetoes'[u] = vetoes[u]
    BY <1>1, <1>2
  <1>6. /\ scheduled' \in [Wallets -> Seq(Payments)]
        /\ vetoed' \in [Wallets -> SUBSET Payments]
        /\ rejections' \in [Wallets -> Nat]
        /\ frozen' \in [Wallets -> BOOLEAN]
        /\ \/ vetoed'[w] = vetoed[w]
           \/ v.completed /\ \E p : p.id = id /\ vetoed'[w] = vetoed[w] \cup {p}
        /\ \A u \in Wallets : u # w => vetoed'[u] = vetoed[u]
        /\ \A u \in Wallets :
              /\ PaymentsSound(scheduled'[u], paid'[u], vetoed'[u], made'[u], rejections'[u])
              /\ QueueSound(u)'
    <2>1. CASE v.completed
      <3>1. Reject(w, id)
        BY <1>2, <2>1
      <3> QED BY <1>3, <2>1, <3>1, RejectKeeps
    <2>2. CASE ~v.completed
      <3>1. /\ scheduled' = scheduled /\ vetoed' = vetoed
            /\ rejections' = rejections /\ frozen' = frozen
        BY <1>2, <2>2
      <3>2. ASSUME NEW u \in Wallets
            PROVE  /\ PaymentsSound(scheduled'[u], paid'[u], vetoed'[u], made'[u],
                                    rejections'[u])
                   /\ QueueSound(u)'
        BY <1>3, <3>1 DEF DonorVoiceInv, QueueSound, Queued
      <3> QED BY <1>1, <3>1, <3>2 DEF TypeOK
    <2> QED BY <2>1, <2>2
  <1>7. BallotsSound(vs, vetoed'[w], donated[w])
    <2>1. BallotsSound(vetoes[w], vetoed[w], donated[w])
      BY DEF DonorVoiceInv
    <2> DEFINE don == donated[w]
               us == vetoes[w]
               vt == vetoed[w]
               vt2 == vetoed'[w]
    <2>2. /\ don \in [Donors -> Nat] /\ BallotsSound(us, vt, don)
          /\ BallotSound(t, don) /\ (id \in DOMAIN us => t = us[id])
          /\ CanVote(t, d, don[d], epoch) /\ v = Approved(t, d, don[d], epoch)
          /\ \A p \in vt2 \ vt : v.completed /\ p.id = id
          /\ vs = [i \in DOMAIN us \cup {id} |-> IF i = id THEN v ELSE us[i]]
          /\ epoch \in Nat
      BY <1>2, <1>4, <1>6, <2>1 DEF v, vs
    <2> HIDE DEF don, us, vt, vt2
    <2>3. BallotsSound(vs, vt2, don)
      BY <2>2, BallotsVoted
    <2> QED BY <2>3 DEF don, vt2
  <1>8. ASSUME NEW u \in Wallets
        PROVE  BallotsSound(vetoes'[u], vetoed'[u], donated'[u])
    <2>1. CASE u = w
      BY <1>3, <1>5, <1>7, <2>1
    <2>2. CASE u # w
      BY <1>3, <1>5, <1>6, <2>2 DEF DonorVoiceInv
    <2> QED BY <2>1, <2>2
  <1>9. ASSUME NEW u \in Wallets
        PROVE  FundsSound(enrolled'[u], balance'[u], paid'[u], refunded'[u], swept'[u],
                          donated'[u])
    BY <1>3 DEF DonorVoiceInv
  <1>10. TypeOK'
    <2>1. \A u \in Wallets : \A i \in DOMAIN vetoes'[u] : vetoes'[u][i] \in Tallies
      BY <1>8 DEF BallotsSound, BallotSound
    <2> QED BY <1>1, <1>3, <1>6, <2>1 DEF TypeOK
  <1> QED BY <1>5, <1>6, <1>8, <1>9, <1>10 DEF DonorVoiceInv

\* The first vote on a payment opens its ballot.
LEMMA ProposeVetoKeeps ==
    ASSUME DonorVoiceInv, NEW w \in Wallets, NEW d \in Donors, NEW id, ProposeVeto(d, w, id)
    PROVE  DonorVoiceInv'
  <1> DEFINE t == NewTally(enrolled[w], epoch + VetoDuration)
  <1>1. id \notin DOMAIN vetoes[w] /\ VetoHandler(d, w, id, t)
    BY DEF ProposeVeto
  <1>2. enrolled[w] \in Nat /\ epoch + VetoDuration \in Nat
    BY DonorVoiceAssumption DEF DonorVoiceInv, TypeOK
  <1>3. BallotSound(t, donated[w])
    BY <1>2, BallotOpened
  <1> QED BY <1>1, <1>3, VetoKeeps

\* A later vote finds its ballot pending.
LEMMA VoteVetoKeeps ==
    ASSUME DonorVoiceInv, NEW w \in Wallets, NEW d \in Donors, NEW id, VoteVeto(d, w, id)
    PROVE  DonorVoiceInv'
  <1> DEFINE t == vetoes[w][id]
  <1>1. id \in DOMAIN vetoes[w] /\ VetoHandler(d, w, id, t)
    BY DEF VoteVeto
  <1>2. BallotSound(t, donated[w])
    BY <1>1 DEF DonorVoiceInv, BallotsSound
  <1> QED BY <1>1, <1>2, VetoKeeps

\* A ballot to liquidate is opened.
LEMMA ProposeLiquidationKeeps ==
    ASSUME DonorVoiceInv, NEW w \in Wallets, NEW d \in Donors, ProposeLiquidation(d, w)
    PROVE  DonorVoiceInv'
  <1> DEFINE t == NewTally(enrolled[w], epoch + LiquidateDuration)
  <1>1. enrolled[w] \in Nat /\ epoch + LiquidateDuration \in Nat
    BY DonorVoiceAssumption DEF DonorVoiceInv, TypeOK
  <1>2. t \in Tallies
    BY <1>1, BallotOpened DEF BallotSound
  <1>3. liquidation' = [liquidation EXCEPT ![w] = <<t>>]
    BY DEF ProposeLiquidation
  <1> HIDE DEF t
  <1>4. liquidation' \in [Wallets -> Seq(Tallies)]
    BY <1>2, <1>3 DEF DonorVoiceInv, TypeOK
  <1>5. TypeOK'
    BY <1>4 DEF DonorVoiceInv, TypeOK, ProposeLiquidation, treasury, payments
  <1> QED BY <1>5 DEF DonorVoiceInv, ProposeLiquidation, treasury, payments, QueueSound, Queued

\* A vote to liquidate: only a donor casts one, so the queued wallet has coins
\* enrolled.
LEMMA VoteLiquidationKeeps ==
    ASSUME DonorVoiceInv, NEW w \in Wallets, NEW d \in Donors, VoteLiquidation(d, w)
    PROVE  DonorVoiceInv'
  <1> DEFINE b == liquidation[w][1]
             t == Approved(b, d, donated[w][d], epoch)
  <1>1. TypeOK
    BY DEF DonorVoiceInv
  <1>2. /\ liquidation[w] # <<>> /\ donated[w][d] > 0
        /\ liquidation' = [liquidation EXCEPT ![w] = <<t>>]
        /\ \/ frozen' = frozen /\ queue' = queue
           \/ frozen' = [frozen EXCEPT ![w] = TRUE] /\ queue' = Append(queue, w)
        /\ epoch' = epoch /\ balance' = balance /\ enrolled' = enrolled
        /\ donated' = donated /\ made' = made /\ scheduled' = scheduled
        /\ vetoed' = vetoed /\ paid' = paid /\ rejections' = rejections
        /\ vetoes' = vetoes /\ refunded' = refunded /\ swept' = swept
    BY DEF VoteLiquidation, Approved, IsDonor, treasury, payments
  <1>3. b \in Tallies
    <2>1. liquidation[w] \in Seq(Tallies)
      BY <1>1 DEF TypeOK
    <2> QED BY <1>2, <2>1, EmptySeq, LenProperties, ElementOfSeq
  <1>4. donated[w][d] \in Nat /\ epoch \in Nat /\ d \in Voters
    BY <1>1 DEF TypeOK, Donors
  <1>5. t \in Tallies
    BY <1>3, <1>4, VotedIsTally
  <1> HIDE DEF t
  <1>6. TypeOK'
    <2>1. liquidation' \in [Wallets -> Seq(Tallies)]
      BY <1>1, <1>2, <1>5 DEF TypeOK
    <2>2. queue' \in Seq(Wallets)
      <3>1. queue \in Seq(Wallets)
        BY <1>1 DEF TypeOK
      <3>2. Append(queue, w) \in Seq(Wallets)
        BY <3>1, AppendProperties
      <3> QED BY <1>2, <3>1, <3>2
    <2>3. frozen' \in [Wallets -> BOOLEAN]
      BY <1>1, <1>2 DEF TypeOK
    <2> QED BY <1>1, <1>2, <2>1, <2>2, <2>3 DEF TypeOK
  <1>7. enrolled[w] > 0
    <2>1. enrolled[w] = SumFunctionOnSet(donated[w], Donors) /\ enrolled[w] \in Nat
      BY <1>1 DEF DonorVoiceInv, FundsSound, TypeOK
    <2>2. IsFiniteSet(Donors) /\ \A x \in Donors : donated[w][x] \in Nat
      BY <1>1, DonorVoiceAssumption DEF TypeOK, Donors
    <2>3. donated[w][d] <= enrolled[w]
      BY <2>1, <2>2, SumBound
    <2> QED BY <1>2, <1>4, <2>1, <2>3
  <1>8. ASSUME NEW u \in Wallets PROVE QueueSound(u)'
    <2>1. QueueSound(u)
      BY DEF DonorVoiceInv
    <2>2. CASE queue' = queue /\ frozen' = frozen
      BY <1>2, <2>1, <2>2 DEF QueueSound, Queued
    <2>3. CASE queue' = Append(queue, w) /\ frozen' = [frozen EXCEPT ![w] = TRUE]
      <3>1. Range(queue') = Range(queue) \cup {w}
        BY <1>1, <2>3, RangeAppend DEF TypeOK
      <3>2. u # w => frozen'[u] = frozen[u]
        BY <1>1, <2>3 DEF TypeOK
      <3> QED BY <1>2, <1>7, <2>1, <3>1, <3>2 DEF QueueSound, Queued
    <2> QED BY <1>2, <2>2, <2>3
  <1> QED BY <1>2, <1>6, <1>8 DEF DonorVoiceInv

\* What the boundary does to the payments of a wallet.
LEMMA BoundaryPayments ==
    ASSUME DonorVoiceInv, EpochBoundary, NEW w \in Wallets
    PROVE  /\ scheduled'[w] \in Seq(Payments) /\ Distinct(scheduled'[w])
           /\ paid'[w] \subseteq Payments /\ IsFiniteSet(paid'[w])
           /\ paid[w] \subseteq paid'[w]
           /\ Range(scheduled'[w]) \cup (paid'[w] \ paid[w]) = Range(scheduled[w])
           /\ Range(scheduled'[w]) \cap paid'[w] = {}
           /\ \A p \in paid'[w] \ paid[w] : Due(p) /\ (Available(w) = 0 => p.value = 0)
           /\ balance'[w] \in Nat
           /\ balance'[w] + Value(paid'[w]) = Available(w) + Value(paid[w])
  <1> DEFINE a == PayDeadline(w, Available(w))
             back == a.future \o a.again
  <1>1. TypeOK /\ PaymentsSound(scheduled[w], paid[w], vetoed[w], made[w], rejections[w])
    BY DEF DonorVoiceInv
  <1>2. balance'[w] = a.left /\ paid'[w] = a.paid /\ scheduled'[w] = back
    BY DEF EpochBoundary
  <1>3. /\ scheduled[w] \in Seq(Payments) /\ Distinct(scheduled[w])
        /\ paid[w] \subseteq Payments /\ IsFiniteSet(paid[w])
        /\ Available(w) \in Nat
    BY <1>1 DEF TypeOK, PaymentsSound, Available
  <1>4. \A i \in DOMAIN scheduled[w] : \A q \in paid[w] : scheduled[w][i].id # q.id
    BY <1>1 DEF PaymentsSound, Range
  <1> HIDE DEF a
  <1>5. /\ a \in Walks /\ back \in Seq(Payments) /\ Distinct(back)
        /\ IsFiniteSet(a.paid) /\ paid[w] \subseteq a.paid
        /\ Range(back) \cup (a.paid \ paid[w]) = Range(scheduled[w])
        /\ Range(back) \cap a.paid = {}
        /\ \A p \in a.paid \ paid[w] : Due(p) /\ (Available(w) = 0 => p.value = 0)
        /\ a.left + Value(a.paid) = Available(w) + Value(paid[w])
    BY <1>3, <1>4, DeadlineSettles DEF a
  <1>6. a.left \in Nat /\ a.paid \subseteq Payments
    BY <1>5 DEF Walks
  <1> HIDE DEF back
  <1> QED BY <1>2, <1>5, <1>6

\* What it does to the coins: the refunds and the sweep take all there was, or
\* nothing.
LEMMA BoundaryRefunds ==
    ASSUME DonorVoiceInv, EpochBoundary, NEW w \in Wallets
    PROVE  /\ refunded'[w] \in [Donors -> Nat]
           /\ swept'[w] \in Nat
           /\ SumFunctionOnSet(refunded'[w], Donors) + swept'[w] + Available(w)
                = SumFunctionOnSet(refunded[w], Donors) + swept[w] + balance[w]
  <1> DEFINE f == [d \in Donors |-> Refund(w, d)]
             old == refunded[w]
             new == refunded'[w]
             S == SumFunctionOnSet(f, Donors)
  <1>1. TypeOK
    BY DEF DonorVoiceInv
  <1>2. IsFiniteSet(Donors)
    BY DonorVoiceAssumption DEF Donors
  <1>3. /\ balance[w] \in Nat /\ enrolled[w] \in Nat /\ swept[w] \in Nat
        /\ old \in [Donors -> Nat] /\ donated[w] \in [Donors -> Nat]
    BY <1>1 DEF TypeOK
  <1>4. new = [d \in Donors |-> old[d] + f[d]]
    BY DEF EpochBoundary, Liquidate
  <1>5. SumFunction(f) = S
    <2>1. DOMAIN f = Donors
      OBVIOUS
    <2> HIDE DEF f
    <2> QED BY <2>1 DEF SumFunction
  <1>6. swept'[w] = IF Queued(w) THEN swept[w] + (balance[w] - S) ELSE swept[w]
    BY <1>5 DEF EpochBoundary, Liquidate
  <1>7. /\ \A d \in Donors : f[d] \in Nat
        /\ S \in Nat /\ S <= balance[w]
        /\ ~Queued(w) => S = 0
    <2>1. CASE Queued(w) /\ w \notin ToMatchIndex
      <3>1. /\ enrolled[w] > 0
            /\ enrolled[w] = SumFunctionOnSet(donated[w], Donors)
        BY <2>1 DEF DonorVoiceInv, QueueSound, FundsSound
      <3>2. \A d \in Donors :
               f[d] = MultiplyRatio(balance[w], Ratio(donated[w][d], enrolled[w]))
        BY <2>1 DEF Refund, ProRata
      <3> DEFINE don == donated[w]
                 enr == enrolled[w]
                 bal == balance[w]
      <3> HIDE DEF f
      <3>3. /\ \A d \in Donors : f[d] = MultiplyRatio(bal, Ratio(don[d], enr))
            /\ don \in [Donors -> Nat] /\ enr \in Nat /\ bal \in Nat /\ enr > 0
            /\ enr = SumFunctionOnSet(don, Donors)
        BY <1>3, <3>1, <3>2
      <3> HIDE DEF don, enr, bal
      <3>4. /\ \A d \in Donors : f[d] \in Nat
            /\ SumFunctionOnSet(f, Donors) \in Nat
            /\ SumFunctionOnSet(f, Donors) <= bal
        BY <3>3, SharesFit
      <3> QED BY <2>1, <3>4 DEF bal
    <2>2. CASE ~(Queued(w) /\ w \notin ToMatchIndex)
      <3>1. \A d \in Donors : f[d] = 0
        BY <2>2 DEF Refund
      <3> HIDE DEF f
      <3>2. S = 0
        BY <1>2, <3>1, SumZero
      <3> QED BY <1>3, <3>1, <3>2
    <2> QED BY <2>1, <2>2
  <1> HIDE DEF f
  <1>8. new \in [Donors -> Nat]
    BY <1>3, <1>4, <1>7
  <1>9. SumFunctionOnSet(new, Donors) = SumFunctionOnSet(old, Donors) + S
    <2> DEFINE f0 == old
               f1 == new
    <2>1. /\ \A d \in Donors : f0[d] \in Int /\ f[d] \in Int /\ f1[d] = f0[d] + f[d]
      BY <1>3, <1>4, <1>7
    <2> HIDE DEF f0, f1
    <2>2. SumFunctionOnSet(f1, Donors) = SumFunctionOnSet(f0, Donors) + SumFunctionOnSet(f, Donors)
      BY <1>2, <2>1, SumPart
    <2> QED BY <2>2 DEF f0, f1
  <1>10. SumFunctionOnSet(old, Donors) \in Int
    BY <1>2, <1>3, SumInt
  <1> DEFINE R == SumFunctionOnSet(old, Donors)
  <1> HIDE DEF S, R
  <1>11. swept'[w] \in Nat
    BY <1>3, <1>6, <1>7
  <1>12. SumFunctionOnSet(new, Donors) = R + S /\ R \in Int
    BY <1>9, <1>10 DEF R
  <1>13. (R + S) + swept'[w] + Available(w) = R + swept[w] + balance[w]
    <2>1. CASE Queued(w)
      BY <1>3, <1>6, <1>7, <1>12, <2>1 DEF Available
    <2>2. CASE ~Queued(w)
      BY <1>3, <1>6, <1>7, <1>12, <2>2 DEF Available
    <2> QED BY <2>1, <2>2
  <1> QED BY <1>8, <1>11, <1>12, <1>13 DEF R

\* The whole boundary.
LEMMA BoundaryKeeps ==
    ASSUME DonorVoiceInv, EpochBoundary
    PROVE  DonorVoiceInv'
  <1>1. TypeOK
    BY DEF DonorVoiceInv
  <1>2. /\ epoch' = epoch + 1
        /\ enrolled' = enrolled /\ donated' = donated /\ made' = made
        /\ vetoed' = vetoed /\ frozen' = frozen /\ vetoes' = vetoes
        /\ liquidation' = liquidation /\ queue' = queue
        /\ rejections' = [w \in Wallets |-> CountAfter(w)]
    BY DEF EpochBoundary
  <1>3. /\ balance' = [w \in Wallets |-> balance'[w]]
        /\ paid' = [w \in Wallets |-> paid'[w]]
        /\ scheduled' = [w \in Wallets |-> scheduled'[w]]
        /\ refunded' = [w \in Wallets |-> refunded'[w]]
        /\ swept' = [w \in Wallets |-> swept'[w]]
    BY DEF EpochBoundary, Liquidate
  <1>4. \A w \in Wallets : /\ rejections'[w] = CountAfter(w)
                           /\ CountAfter(w) = rejections[w] \/ CountAfter(w) = 0
    BY <1>2 DEF CountAfter
  <1>5. TypeOK'
    <2>1. /\ balance' \in [Wallets -> Nat] /\ paid' \in [Wallets -> SUBSET Payments]
          /\ scheduled' \in [Wallets -> Seq(Payments)]
      BY <1>3, BoundaryPayments
    <2>2. refunded' \in [Wallets -> [Donors -> Nat]] /\ swept' \in [Wallets -> Nat]
      BY <1>3, BoundaryRefunds
    <2>3. rejections' \in [Wallets -> Nat]
      <3>1. rejections \in [Wallets -> Nat]
        BY <1>1 DEF TypeOK
      <3>2. \A w \in Wallets : CountAfter(w) \in Nat
        BY <1>4, <3>1
      <3> QED BY <1>2, <3>2
    <2> QED BY <1>1, <1>2, <2>1, <2>2, <2>3 DEF TypeOK
  <1>6. ASSUME NEW w \in Wallets
        PROVE  PaymentsSound(scheduled'[w], paid'[w], vetoed'[w], made'[w], rejections'[w])
    <2>1. PaymentsSound(scheduled[w], paid[w], vetoed[w], made[w], rejections[w])
      BY DEF DonorVoiceInv
    <2>2. rejections'[w] = rejections[w] \/ rejections'[w] = 0
      BY <1>4
    <2>3. PaymentsSound(scheduled'[w], paid'[w], vetoed[w], made[w], rejections'[w])
      BY <2>1, <2>2, BoundaryPayments, SettleSound
    <2> QED BY <1>2, <2>3
  <1>7. ASSUME NEW w \in Wallets
        PROVE  FundsSound(enrolled'[w], balance'[w], paid'[w], refunded'[w], swept'[w],
                          donated'[w])
    <2> DEFINE R == SumFunctionOnSet(refunded[w], Donors)
               R2 == SumFunctionOnSet(refunded'[w], Donors)
               V == Value(paid[w])
               V2 == Value(paid'[w])
    <2>1. IsFiniteSet(Donors)
      BY DonorVoiceAssumption DEF Donors
    <2>2. R \in Int /\ R2 \in Int
      <3>1. refunded[w] \in [Donors -> Nat] /\ refunded'[w] \in [Donors -> Nat]
        BY <1>1, BoundaryRefunds DEF TypeOK
      <3> QED BY <2>1, <3>1, SumInt
    <2>3. V \in Int /\ V2 \in Int
      <3>1. paid[w] \subseteq Payments /\ IsFiniteSet(paid[w])
        BY <1>1 DEF TypeOK, DonorVoiceInv, PaymentsSound
      <3> QED BY <3>1, ValueNat, BoundaryPayments
    <2>4. /\ enrolled[w] = SumFunctionOnSet(donated[w], Donors)
          /\ enrolled[w] = balance[w] + V + R + swept[w]
      BY DEF DonorVoiceInv, FundsSound
    <2>5. balance'[w] + V2 = Available(w) + V
      BY BoundaryPayments
    <2>6. R2 + swept'[w] + Available(w) = R + swept[w] + balance[w]
      BY BoundaryRefunds
    <2>7. /\ enrolled[w] \in Int /\ balance[w] \in Int /\ swept[w] \in Int
          /\ balance'[w] \in Int /\ swept'[w] \in Int /\ Available(w) \in Int
      BY <1>1, BoundaryPayments, BoundaryRefunds DEF TypeOK, Available
    <2> HIDE DEF R, R2, V, V2
    <2>8. enrolled[w] = balance'[w] + V2 + R2 + swept'[w]
      BY <2>2, <2>3, <2>4, <2>5, <2>6, <2>7
    <2> QED BY <1>2, <2>4, <2>8 DEF FundsSound, V2, R2
  <1>8. ASSUME NEW w \in Wallets
        PROVE  BallotsSound(vetoes'[w], vetoed'[w], donated'[w]) /\ QueueSound(w)'
    BY <1>2 DEF DonorVoiceInv, QueueSound, Queued
  <1>9. vetoes' = [w \in Wallets |-> vetoes'[w]]
    BY <1>2 DEF DonorVoiceInv
  <1> QED BY <1>5, <1>6, <1>7, <1>8, <1>9 DEF DonorVoiceInv

\* Nothing happens.
LEMMA StutterKeeps ==
    ASSUME DonorVoiceInv, UNCHANGED vars
    PROVE  DonorVoiceInv'
  <1>1. TypeOK'
    BY DEF DonorVoiceInv, vars, TypeOK
  <1> QED BY <1>1 DEF DonorVoiceInv, vars, QueueSound, Queued

\* Every step.
LEMMA NextKeeps ==
    ASSUME DonorVoiceInv, [Next]_vars
    PROVE  DonorVoiceInv'
  <1>1. CASE EpochBoundary
    BY <1>1, BoundaryKeeps
  <1>2. ASSUME NEW w \in Wallets, NEW d \in Donors, NEW v \in Gifts, Donate(d, w, v)
        PROVE  DonorVoiceInv'
    BY <1>2, DonateKeeps
  <1>3. ASSUME NEW w \in Wallets, NEW v \in Values, Schedule(w, v)
        PROVE  DonorVoiceInv'
    BY <1>3, ScheduleKeeps
  <1>4. ASSUME NEW w \in Wallets, NEW d \in Donors, NEW id \in 1 .. MaxPayments,
               ProposeVeto(d, w, id) \/ VoteVeto(d, w, id)
        PROVE  DonorVoiceInv'
    BY <1>4, ProposeVetoKeeps, VoteVetoKeeps
  <1>5. ASSUME NEW w \in Wallets, NEW d \in Donors,
               ProposeLiquidation(d, w) \/ VoteLiquidation(d, w)
        PROVE  DonorVoiceInv'
    BY <1>5, ProposeLiquidationKeeps, VoteLiquidationKeeps
  <1>6. CASE UNCHANGED vars
    BY <1>6, StutterKeeps
  <1> QED BY <1>1, <1>2, <1>3, <1>4, <1>5, <1>6 DEF Next

-----------------------------------------------------------------------------
\* The theorems.

\* Donations, payments, ballots and epoch boundaries keep the invariant, for
\* any number of wallets, donors and payments, any donations, any fixed-point
\* one, and any ballot durations.
THEOREM DonorVoiceInvariant == Spec => []DonorVoiceInv
  <1>1. DonorVoiceInv /\ [Next]_vars => DonorVoiceInv'
    BY NextKeeps
  <1> QED BY <1>1, InitDonorVoice, PTL DEF Spec

\* Every variable keeps its type; the coins swept in a liquidation in
\* particular are never a negative amount (vm_liquidate).
THEOREM DonorVoiceTypes == Spec => []TypeOK
  <1>1. DonorVoiceInv => TypeOK
    BY DEF DonorVoiceInv
  <1> QED BY <1>1, DonorVoiceInvariant, PTL

\* Every payment is scheduled, paid or vetoed, in one place and once: none is
\* lost, paid twice, or paid and vetoed (schedule, reject, maybe_pay_deadline).
THEOREM PaymentsAreSettledOnce == Spec => []PaymentsSettleOnce
  <1>1. DonorVoiceInv => PaymentsSettleOnce
    <2> SUFFICES ASSUME DonorVoiceInv PROVE PaymentsSettleOnce
      OBVIOUS
    <2> SUFFICES ASSUME NEW w \in Wallets
                 PROVE  LET listed == [i \in DOMAIN scheduled[w] |-> scheduled[w][i].id]
                            done   == {p.id : p \in paid[w]}
                            denied == {p.id : p \in vetoed[w]}
                        IN  /\ IsInjective(listed)
                            /\ Range(listed) \cap (done \cup denied) = {}
                            /\ done \cap denied = {}
                            /\ Range(listed) \cup done \cup denied = 1 .. made[w]
      BY DEF PaymentsSettleOnce
    <2> DEFINE s == scheduled[w]
               listed == [i \in DOMAIN s |-> s[i].id]
               done   == {p.id : p \in paid[w]}
               denied == {p.id : p \in vetoed[w]}
               all == {p.id : p \in Range(s) \cup paid[w] \cup vetoed[w]}
    <2>1. PaymentsSound(s, paid[w], vetoed[w], made[w], rejections[w])
      BY DEF DonorVoiceInv
    <2> HIDE DEF s
    <2>2. IsInjective(listed)
      BY <2>1 DEF PaymentsSound, Distinct, IsInjective
    <2>3. Range(listed) = {p.id : p \in Range(s)}
      BY DEF Range
    <2> HIDE DEF listed
    <2>4. Range(listed) \cap (done \cup denied) = {}
      BY <2>1, <2>3 DEF PaymentsSound
    <2>5. done \cap denied = {}
      BY <2>1 DEF PaymentsSound
    <2>6. Range(listed) \cup done \cup denied = all
      BY <2>3
    <2>7. all = 1 .. made[w]
      BY <2>1 DEF PaymentsSound
    <2> HIDE DEF done, denied, all
    <2>8. /\ IsInjective(listed)
          /\ Range(listed) \cap (done \cup denied) = {}
          /\ done \cap denied = {}
          /\ Range(listed) \cup done \cup denied = 1 .. made[w]
      BY <2>2, <2>4, <2>5, <2>6, <2>7
    <2> QED BY <2>8 DEF listed, done, denied, s
  <1> QED BY <1>1, DonorVoiceInvariant, PTL

\* A vote that completes a ballot comes in a later epoch than the votes that
\* reached the share, from a donor who had not voted, with more than an eighth.
LEMMA CarriedLater ==
    ASSUME NEW t, NEW don \in [Donors -> Nat], BallotSound(t, don), NEW d \in Donors,
           NEW now \in Nat, CanVote(t, d, don[d], now),
           NEW v, v = Approved(t, d, don[d], now), v.completed
    PROVE  /\ t.provisional \in 1 .. now - 1
           /\ t.voters # {}
           /\ v.voters \ t.voters # {}
           /\ 8 * v.approve > v.max
  <1>1. t \in Tallies /\ (t.provisional # 0 => t.voters # {})
    BY DEF BallotSound
  <1>2. don[d] \in Nat /\ d \in Voters /\ t.provisional \in Nat /\ d \notin t.voters
    BY <1>1 DEF Tallies, Donors, CanVote
  <1>3. PICK passes \in BOOLEAN :
           v = [max |-> t.max, deadline |-> t.deadline, approve |-> t.approve + don[d],
                reject |-> t.reject,
                provisional |-> IF passes /\ t.provisional = 0 THEN now ELSE t.provisional,
                completed |-> passes /\ t.provisional # 0 /\ now > t.provisional,
                voters |-> t.voters \cup {d}]
    BY <1>1, <1>2, VotedTally
  <1>4. t.provisional # 0 /\ now > t.provisional
    <2>1. v.completed = (passes /\ t.provisional # 0 /\ now > t.provisional)
      BY ONLY <1>3
    <2> QED BY <2>1
  <1>5. v.voters = t.voters \cup {d}
    BY <1>3
  <1>6. 8 * v.approve > v.max
    BY BallotVoted DEF BallotSound
  <1> QED BY <1>1, <1>2, <1>4, <1>5, <1>6

\* A veto takes two epochs and two donors: the share was reached before this
\* epoch, a further donor carries it, with more than an eighth of the votes, all
\* roundings included (maybe_tally, vote).
THEOREM VetoesAreCarried == Spec => VetoesWereCarried
  <1> DEFINE Carried(w, p) ==
               LET before == vetoes[w][p.id]
                   after  == vetoes'[w][p.id]
               IN  /\ p.id \in DOMAIN vetoes[w]
                   /\ before.provisional \in 1 .. epoch - 1
                   /\ before.voters # {}
                   /\ after.voters \ before.voters # {}
                   /\ 8 * after.approve > after.max
             AllCarried == \A w \in Wallets : \A p \in vetoed'[w] \ vetoed[w] : Carried(w, p)
  <1>1. ASSUME DonorVoiceInv, NEW x \in Wallets, NEW d \in Donors, NEW id, NEW t,
               BallotSound(t, donated[x]), VetoHandler(d, x, id, t),
               NEW w \in Wallets, NEW p \in vetoed'[w] \ vetoed[w]
        PROVE  /\ w = x /\ p.id = id
               /\ t.provisional \in 1 .. epoch - 1
               /\ t.voters # {}
               /\ vetoes'[w][id].voters \ t.voters # {}
               /\ 8 * vetoes'[w][id].approve > vetoes'[w][id].max
    <2> DEFINE v == Approved(t, d, donated[x][d], epoch)
    <2>1. /\ TypeOK /\ vetoes = [u \in Wallets |-> vetoes[u]]
          /\ donated[x] \in [Donors -> Nat] /\ epoch \in Nat
      BY <1>1 DEF DonorVoiceInv, TypeOK
    <2>2. /\ CanVote(t, d, donated[x][d], epoch)
          /\ vetoes' = [vetoes EXCEPT ![x] =
                [i \in DOMAIN vetoes[x] \cup {id} |-> IF i = id THEN v ELSE vetoes[x][i]]]
          /\ IF v.completed THEN Reject(x, id)
             ELSE UNCHANGED <<scheduled, vetoed, rejections, frozen>>
      BY <1>1 DEF VetoHandler, Approved
    <2> HIDE DEF v
    <2>3. v.completed /\ Reject(x, id)
      BY <1>1, <2>2
    <2>4. w = x /\ p.id = id
      BY <1>1, <2>1, <2>3 DEF Reject, TypeOK
    <2>5. vetoes'[w][id] = v
      BY <2>1, <2>2, <2>4
    <2>6. /\ t.provisional \in 1 .. epoch - 1 /\ t.voters # {}
          /\ v.voters \ t.voters # {} /\ 8 * v.approve > v.max
      <3> DEFINE don == donated[x]
      <3>1. /\ don \in [Donors -> Nat] /\ BallotSound(t, don) /\ d \in Donors
            /\ epoch \in Nat /\ CanVote(t, d, don[d], epoch)
            /\ v = Approved(t, d, don[d], epoch) /\ v.completed
        BY <1>1, <2>1, <2>2, <2>3 DEF v
      <3> HIDE DEF don
      <3> QED BY <3>1, CarriedLater
    <2> QED BY <2>4, <2>5, <2>6
  <1>2. DonorVoiceInv => \A x \in Wallets : enrolled[x] \in Nat /\ epoch + VetoDuration \in Nat
    BY DonorVoiceAssumption DEF DonorVoiceInv, TypeOK
  <1>3. DonorVoiceInv /\ [Next]_vars => AllCarried
    <2> SUFFICES ASSUME DonorVoiceInv, [Next]_vars,
                        NEW w \in Wallets, NEW p \in vetoed'[w] \ vetoed[w]
                 PROVE  Carried(w, p)
      OBVIOUS
    <2>1. PICK x \in Wallets, d \in Donors, id \in 1 .. MaxPayments :
             ProposeVeto(d, x, id) \/ VoteVeto(d, x, id)
      BY DEF Next, vars, Donate, Schedule, ProposeLiquidation, VoteLiquidation,
             EpochBoundary, payments
    <2>2. CASE ProposeVeto(d, x, id)
      <3> DEFINE t == NewTally(enrolled[x], epoch + VetoDuration)
      <3>1. enrolled[x] \in Nat /\ epoch + VetoDuration \in Nat
        BY <1>2
      <3>2. BallotSound(t, donated[x]) /\ VetoHandler(d, x, id, t)
        BY <2>2, <3>1, BallotOpened DEF ProposeVeto
      <3>3. t.provisional = 0
        BY DEF NewTally
      <3> HIDE DEF t
      <3>4. t.provisional \in 1 .. epoch - 1
        BY <1>1, <3>2
      <3> QED BY <3>3, <3>4
    <2>3. CASE VoteVeto(d, x, id)
      <3> DEFINE t == vetoes[x][id]
      <3>1. id \in DOMAIN vetoes[x] /\ VetoHandler(d, x, id, t)
        BY <2>3 DEF VoteVeto
      <3>2. BallotSound(t, donated[x])
        BY <3>1 DEF DonorVoiceInv, BallotsSound
      <3>3. /\ w = x /\ p.id = id
            /\ t.provisional \in 1 .. epoch - 1
            /\ t.voters # {}
            /\ vetoes'[w][id].voters \ t.voters # {}
            /\ 8 * vetoes'[w][id].approve > vetoes'[w][id].max
        <4> HIDE DEF t
        <4> QED BY <1>1, <3>1, <3>2
      <3> QED BY <3>1, <3>3
    <2> QED BY <2>1, <2>2, <2>3
  <1>4. DonorVoiceInv /\ [Next]_vars => [AllCarried]_vars
    BY <1>3
  <1> QED BY <1>4, DonorVoiceInvariant, PTL DEF Spec, VetoesWereCarried

\* No vote counts for more than its donor gave, nor a ballot for more than was
\* enrolled when it was opened (vote, assert_authorized).
THEOREM VotesAreBacked == Spec => []VotesAreDonations
  <1>1. DonorVoiceInv => VotesAreDonations
    BY DEF DonorVoiceInv, BallotsSound, BallotSound, VotesAreDonations
  <1> QED BY <1>1, DonorVoiceInvariant, PTL

\* A wallet is frozen by a liquidation or three vetoes (maybe_freeze,
\* liquidation_handler).
THEOREM FreezesHaveAReason == Spec => []FrozenForAReason
  <1>1. DonorVoiceInv => FrozenForAReason
    BY DEF DonorVoiceInv, QueueSound, FrozenForAReason
  <1> QED BY <1>1, DonorVoiceInvariant, PTL

\* The coins of a wallet are conserved by payments, refunds and sweeps, and the
\* refunds never exceed what is left (maybe_pay_deadline, get_pro_rata,
\* vm_liquidate).
THEOREM FundsAreConserved == Spec => []FundsAreAccountedFor
  <1>1. DonorVoiceInv => FundsAreAccountedFor
    BY DEF DonorVoiceInv, TypeOK, FundsSound, FundsAreAccountedFor, Value
  <1> QED BY <1>1, DonorVoiceInvariant, PTL

\* A step other than the boundary pays nothing.
LEMMA OnlyBoundariesPay ==
    ASSUME [Next]_vars, ~EpochBoundary
    PROVE  paid' = paid
  BY DEF Next, vars, Donate, Schedule, ProposeVeto, VoteVeto, VetoHandler,
         ProposeLiquidation, VoteLiquidation, payments

\* What joins the list in such a step has its deadline PaymentDelay epochs on.
LEMMA NewPaymentsWait ==
    ASSUME DonorVoiceInv, [Next]_vars, ~EpochBoundary, NEW w \in Wallets,
           NEW p \in Range(scheduled'[w])
    PROVE  \/ p \in Range(scheduled[w])
           \/ p.id > made[w] /\ p.deadline = epoch + PaymentDelay
  <1>1. TypeOK /\ scheduled[w] \in Seq(Payments) /\ Distinct(scheduled[w])
    BY DEF DonorVoiceInv, TypeOK, PaymentsSound
  <1>2. ASSUME NEW x \in Wallets, NEW v \in Values, Schedule(x, v)
        PROVE  \/ p \in Range(scheduled[w])
               \/ p.id > made[w] /\ p.deadline = epoch + PaymentDelay
    <2> DEFINE q == [id |-> made'[x], value |-> v, deadline |-> epoch + PaymentDelay]
    <2>1. scheduled' = [scheduled EXCEPT ![x] = Append(scheduled[x], q)]
      BY <1>2 DEF Schedule
    <2>2. q.deadline = epoch + PaymentDelay /\ q.id > made[x]
      <3>1. made'[x] = made[x] + 1 /\ made[x] \in Nat
        BY <1>1, <1>2 DEF TypeOK, Schedule
      <3> QED BY <3>1
    <2>3. q \in Payments
      <3>1. made'[x] = made[x] + 1 /\ made[x] \in Nat /\ epoch \in Nat
        BY <1>1, <1>2 DEF TypeOK, Schedule
      <3> QED BY <3>1, DonorVoiceAssumption DEF Payments
    <2> HIDE DEF q
    <2>4. scheduled'[w] = IF w = x THEN Append(scheduled[w], q) ELSE scheduled[w]
      BY <1>1, <2>1 DEF TypeOK
    <2>5. Range(Append(scheduled[w], q)) = Range(scheduled[w]) \cup {q}
      BY <1>1, <2>3, RangeAppend
    <2> QED BY <2>2, <2>4, <2>5
  <1>3. ASSUME NEW x \in Wallets, NEW id, Reject(x, id)
        PROVE  p \in Range(scheduled[w])
    <2>1. scheduled'[w] = IF w = x THEN Front(scheduled[w]) ELSE scheduled[w]
      BY <1>1, <1>3 DEF Reject, TypeOK
    <2>2. CASE w = x
      <3>1. scheduled[w] # <<>>
        BY <1>3, <2>2 DEF Reject
      <3> QED BY <1>1, <2>1, <2>2, <3>1, FrontPayment
    <2> QED BY <2>1, <2>2
  <1>4. ASSUME NEW x \in Wallets, NEW d \in Donors, NEW id \in 1 .. MaxPayments,
               ProposeVeto(d, x, id) \/ VoteVeto(d, x, id)
        PROVE  p \in Range(scheduled[w])
    <2>1. Reject(x, id) \/ scheduled' = scheduled
      BY <1>4 DEF ProposeVeto, VoteVeto, VetoHandler
    <2> QED BY <1>3, <2>1
  <1>5. CASE scheduled' = scheduled
    BY <1>5
  <1>6. \/ \E x \in Wallets, v \in Values : Schedule(x, v)
        \/ \E x \in Wallets, d \in Donors, id \in 1 .. MaxPayments :
              ProposeVeto(d, x, id) \/ VoteVeto(d, x, id)
        \/ scheduled' = scheduled
    BY DEF Next, vars, Donate, ProposeLiquidation, VoteLiquidation, payments
  <1> QED BY <1>2, <1>4, <1>5, <1>6

\* A payment waits for PaymentDelay epochs at least, is never brought forward,
\* and is paid from the list, as approved (schedule, filter_scheduled_due).
THEOREM NothingIsPaidEarly == Spec => PaymentsWait
  <1> DEFINE Kept(w, p) == \E q \in Range(scheduled[w]) :
                             p.id = q.id /\ p.value = q.value /\ p.deadline >= q.deadline
             Waits == \A w \in Wallets :
                        /\ \A p \in Range(scheduled'[w]) :
                             \/ Kept(w, p)
                             \/ p.id > made[w] /\ p.deadline >= epoch + PaymentDelay
                        /\ \A p \in paid'[w] \ paid[w] :
                             p \in Range(scheduled[w]) /\ p.deadline <= epoch
  <1>1. ASSUME DonorVoiceInv, NEW w \in Wallets, NEW p \in Range(scheduled[w])
        PROVE  Kept(w, p)
    <2>1. p \in Payments
      BY <1>1 DEF DonorVoiceInv, TypeOK, Range
    <2>2. p.deadline >= p.deadline
      BY <2>1 DEF Payments
    <2> QED BY <1>1, <2>2
  <1>2. DonorVoiceInv /\ [Next]_vars => Waits
    <2> SUFFICES ASSUME DonorVoiceInv, [Next]_vars, NEW w \in Wallets
                 PROVE  /\ \A p \in Range(scheduled'[w]) :
                             \/ Kept(w, p)
                             \/ p.id > made[w] /\ p.deadline >= epoch + PaymentDelay
                        /\ \A p \in paid'[w] \ paid[w] :
                             p \in Range(scheduled[w]) /\ p.deadline <= epoch
      OBVIOUS
    <2>1. CASE EpochBoundary
      <3>1. /\ Range(scheduled'[w]) \cup (paid'[w] \ paid[w]) = Range(scheduled[w])
            /\ \A p \in paid'[w] \ paid[w] : Due(p)
        BY <2>1, BoundaryPayments
      <3> QED BY <1>1, <3>1 DEF Due
    <2>2. CASE ~EpochBoundary
      <3>1. epoch + PaymentDelay \in Nat
        BY DonorVoiceAssumption DEF DonorVoiceInv, TypeOK
      <3>2. ASSUME NEW p \in Range(scheduled'[w])
            PROVE  Kept(w, p) \/ (p.id > made[w] /\ p.deadline >= epoch + PaymentDelay)
        <4>1. \/ p \in Range(scheduled[w])
              \/ p.id > made[w] /\ p.deadline = epoch + PaymentDelay
          BY <2>2, NewPaymentsWait
        <4> HIDE DEF Kept
        <4> QED BY <1>1, <3>1, <4>1
      <3> QED BY <2>2, <3>2, OnlyBoundariesPay
    <2> QED BY <2>1, <2>2
  <1>3. DonorVoiceInv /\ [Next]_vars => [Waits]_vars
    BY <1>2
  <1> QED BY <1>3, DonorVoiceInvariant, PTL DEF Spec, PaymentsWait

\* From the vote to liquidate on, a wallet pays nobody (vm_liquidate comes
\* before process_donor_voice_accounts).
THEOREM LiquidatedPayNobody == Spec => LiquidatedWalletsDoNotPay
  <1> DEFINE PaysNobody == \A w \in Wallets : Queued(w) =>
                              \A p \in paid'[w] \ paid[w] : p.value = 0
  <1>1. DonorVoiceInv /\ [Next]_vars => PaysNobody
    <2> SUFFICES ASSUME DonorVoiceInv, [Next]_vars, NEW w \in Wallets, Queued(w),
                        NEW p \in paid'[w] \ paid[w]
                 PROVE  p.value = 0
      OBVIOUS
    <2>1. EpochBoundary
      BY OnlyBoundariesPay
    <2>2. Available(w) = 0
      BY DEF Available
    <2> QED BY <2>1, <2>2, BoundaryPayments
  <1>2. DonorVoiceInv /\ [Next]_vars => [PaysNobody]_vars
    BY <1>1
  <1> QED BY <1>2, DonorVoiceInvariant, PTL DEF Spec, LiquidatedWalletsDoNotPay
=============================================================================
