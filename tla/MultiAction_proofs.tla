------------------------- MODULE MultiAction_proofs -------------------------
(***************************************************************************)
(* Proofs about MultiAction, for every set of authorities, offers and      *)
(* proposals: the account stays able to act, keeps one open proposal per   *)
(* transaction, gains authorities only by vote, and its decisions stand.   *)
(***************************************************************************)
EXTENDS MultiAction, FiniteSetTheorems, SequenceTheorems, TLAPS

(* Whoever stands in the offer of a caged account was voted for: what      *)
(* AuthoritiesWereVoted needs when a candidate claims.                     *)
OfferWasVoted == caged => Addrs(offer) \subseteq founders \cup VotedIn

Inv ==
    /\ TypeOK
    /\ QuorumIsPossible
    /\ OneOpenProposalPerData
    /\ AuthoritiesWereVoted
    /\ OfferWasVoted

OfferEntries == [addr : Auth, exp : Nat]

(* No two open proposals of `ps` have the same data.                       *)
OneOpenIn(ps) ==
    \A i, j \in DOMAIN ps :
        /\ ps[i].status = "pending"
        /\ ps[j].status = "pending"
        /\ ps[i].data = ps[j].data
        => i = j

(* What the cleanup and propose_new may do to the proposals on behalf of   *)
(* `d`: close or add some, and reopen, rewrite or approve none.            *)
Follows(ps, d) ==
    /\ ps \in Seq(Proposals)
    /\ \A i \in DOMAIN props :
         /\ i \in DOMAIN ps
         /\ ps[i].data = props[i].data
         /\ ps[i].exp = props[i].exp
         /\ ps[i].votes = props[i].votes
         /\ props[i].status # "pending" => ps[i] = props[i]
         /\ props[i].status = "pending" => ps[i].status # "approved"
         /\ ps[i].status = "pending" /\ SameTracker(props[i].data, d)
              => epoch <= props[i].exp
    /\ OneOpenIn(ps)

-----------------------------------------------------------------------------
(* Removing one element of a sequence leaves a sequence of its elements    *)
(* (vector::remove in claim_offer).                                        *)
LEMMA RemoveAtElements ==
  ASSUME NEW S, NEW s \in Seq(S), NEW i \in DOMAIN s
  PROVE  /\ RemoveAt(s, i) \in Seq(S)
         /\ \A j \in DOMAIN RemoveAt(s, i) : \E k \in DOMAIN s : RemoveAt(s, i)[j] = s[k]
<1> DEFINE head == SubSeq(s, 1, i - 1)
           tail == SubSeq(s, i + 1, Len(s))
<1>1. i \in 1 .. Len(s) /\ Len(s) \in Nat
  OBVIOUS
<1>2. /\ head \in Seq(S) /\ Len(head) = i - 1
      /\ \A j \in 1 .. Len(head) : head[j] = s[j]
  BY <1>1, SubSeqProperties
<1>3. /\ tail \in Seq(S) /\ Len(tail) = Len(s) - i
      /\ \A j \in 1 .. Len(tail) : tail[j] = s[j + i]
  BY <1>1, SubSeqProperties
<1>4. /\ head \o tail \in Seq(S) /\ Len(head \o tail) = Len(s) - 1
      /\ \A j \in 1 .. Len(head \o tail) :
            (head \o tail)[j] = IF j <= Len(head) THEN head[j] ELSE tail[j - Len(head)]
  <2> HIDE DEF head, tail
  <2> QED
    BY <1>1, <1>2, <1>3, ConcatProperties
<1>5. RemoveAt(s, i) = head \o tail
  BY DEF RemoveAt
<1>6. \A j \in 1 .. Len(s) - 1 : \E k \in DOMAIN s : (head \o tail)[j] = s[k]
  <2> SUFFICES ASSUME NEW j \in 1 .. Len(s) - 1
               PROVE  \E k \in DOMAIN s : (head \o tail)[j] = s[k]
    OBVIOUS
  <2> HIDE DEF head, tail
  <2>1. CASE j <= i - 1
    BY <1>1, <1>2, <1>4, <2>1
  <2>2. CASE ~(j <= i - 1)
    <3>1. j - (i - 1) \in 1 .. Len(tail) /\ (j - (i - 1)) + i = j + 1
      BY <1>1, <1>3, <2>2
    <3>2. (head \o tail)[j] = tail[j - (i - 1)]
      BY <1>1, <1>2, <1>4, <2>2
    <3>3. tail[j - (i - 1)] = s[j + 1]
      BY <1>3, <3>1
    <3>4. j + 1 \in DOMAIN s
      BY <1>1, <2>2
    <3>5. QED
      BY <3>2, <3>3, <3>4
  <2>3. QED
    BY <2>1, <2>2
<1>7. DOMAIN (head \o tail) = 1 .. Len(s) - 1
  <2> HIDE DEF head, tail
  <2> QED
    BY <1>4
<1>8. QED
  <2> HIDE DEF head, tail
  <2> QED
    BY <1>4, <1>5, <1>6, <1>7, Zenon

(* Sets of accounts are finite and their sizes are numbers.                *)
LEMMA AuthFinite ==
  ASSUME NEW S \in SUBSET Auth
  PROVE  IsFiniteSet(S) /\ Cardinality(S) \in Nat
  BY MultiActionAssumption, FS_Subset, FS_CardinalityType

(* Every set of natural numbers has a least element.                       *)
LEMMA LeastNatural ==
  ASSUME NEW S \in SUBSET Nat, S # {}
  PROVE  \E i \in S : \A j \in S : i <= j
<1> DEFINE R == {ss \in Nat \X Nat : ss[1] < ss[2]}
<1>1. IsWellFoundedOn(R, Nat)
  BY NatLessThanWellFounded DEF OpToRel
<1>2. \E x \in S : \A y \in S : <<y, x>> \notin R
  <2> HIDE DEF R
  <2> QED
    BY <1>1, WFMin
<1>3. \A x, y \in Nat : <<y, x>> \in R <=> y < x
  OBVIOUS
<1>4. PICK x \in S : \A y \in S : ~(y < x)
  <2> HIDE DEF R
  <2> QED
    BY <1>2, <1>3, Zenon
<1>5. \A y \in S : x <= y
  <2> SUFFICES ASSUME NEW y \in S
               PROVE  x <= y
    OBVIOUS
  <2>1. ~(y < x)
    BY <1>4
  <2>2. QED
    BY <2>1
<1>6. QED
  BY <1>5

(* A claim looks at an entry of the claiming address (validate_claim_offer)*)
LEMMA FirstEntryExists ==
  ASSUME TypeOK, NEW a \in Addrs(offer)
  PROVE  FirstEntry(a) \in DOMAIN offer /\ offer[FirstEntry(a)].addr = a
<1> DEFINE P(i) == i \in DOMAIN offer /\ offer[i].addr = a
<1>1. DOMAIN offer = 1 .. Len(offer) /\ Len(offer) \in Nat
  BY DEF TypeOK
<1>2. PICK k \in DOMAIN offer : offer[k].addr = a
  BY DEF Addrs
<1>3. \E i \in DOMAIN offer : P(i) /\ \A j \in DOMAIN offer : P(j) => i <= j
  <2> DEFINE S == {i \in DOMAIN offer : offer[i].addr = a}
  <2>1. S # {} /\ S \subseteq Nat
    BY <1>1, <1>2
  <2>2. \E i \in S : \A j \in S : i <= j
    BY <2>1, LeastNatural DEF TypeOK
  <2>3. QED
    BY <2>2
<1>4. QED
  BY <1>3 DEF FirstEntry

(* The cleanup (lazy_cleanup_expired) closes expired proposals only.       *)
LEMMA CleanedUpFollows ==
  ASSUME Inv, NEW d
  PROVE  Follows(CleanedUp(d), d) /\ DOMAIN CleanedUp(d) = DOMAIN props
<1> DEFINE ps == CleanedUp(d)
<1>1. props \in Seq(Proposals) /\ DOMAIN props = 1 .. Len(props) /\ Len(props) \in Nat
  BY DEF Inv, TypeOK
<1>2. DOMAIN ps = 1 .. Len(props)
  BY <1>1 DEF CleanedUp
<1>3. \A i \in DOMAIN props :
        /\ ps[i] \in Proposals
        /\ ps[i].data = props[i].data
        /\ ps[i].exp = props[i].exp
        /\ ps[i].votes = props[i].votes
        /\ props[i].status # "pending" => ps[i] = props[i]
        /\ props[i].status = "pending" => ps[i].status # "approved"
        /\ ps[i].status = "pending" => props[i].status = "pending"
        /\ ps[i].status = "pending" /\ SameTracker(props[i].data, d)
             => epoch <= props[i].exp
  <2> SUFFICES ASSUME NEW i \in DOMAIN props
               PROVE  /\ ps[i] \in Proposals
                      /\ ps[i].data = props[i].data
                      /\ ps[i].exp = props[i].exp
                      /\ ps[i].votes = props[i].votes
                      /\ props[i].status # "pending" => ps[i] = props[i]
                      /\ props[i].status = "pending" => ps[i].status # "approved"
                      /\ ps[i].status = "pending" => props[i].status = "pending"
                      /\ ps[i].status = "pending" /\ SameTracker(props[i].data, d)
                           => epoch <= props[i].exp
    OBVIOUS
  <2>1. props[i] \in Proposals
    BY <1>1
  <2>2. epoch \in Nat /\ props[i].exp \in Nat
    BY <2>1 DEF Proposals, Inv, TypeOK
  <2>3. CASE ps[i] = props[i]
    <3>1. CASE /\ SameTracker(props[i].data, d)
               /\ props[i].status = "pending"
               /\ epoch > props[i].exp
      <4>1. ps[i] = [props[i] EXCEPT !.status = "rejected"]
        BY <3>1 DEF CleanedUp
      <4>2. QED
        BY <2>1, <2>3, <3>1, <4>1 DEF Proposals
    <3>2. CASE ~(/\ SameTracker(props[i].data, d)
                 /\ props[i].status = "pending"
                 /\ epoch > props[i].exp)
      <4> HIDE DEF ps
      <4> QED
        BY <2>1, <2>2, <2>3, <3>2
    <3>3. QED
      BY <3>1, <3>2
  <2>4. CASE ps[i] = [props[i] EXCEPT !.status = "rejected"] /\ props[i].status = "pending"
    <3> HIDE DEF ps
    <3> QED
      BY <2>1, <2>4 DEF Proposals, Statuses
  <2>5. QED
    BY <2>3, <2>4 DEF CleanedUp
<1>4. ps \in Seq(Proposals)
  <2>1. ps \in [1 .. Len(props) -> Proposals]
    BY <1>1, <1>2, <1>3 DEF CleanedUp
  <2>2. QED
    BY <1>1, <2>1, SeqDef
<1>5. OneOpenIn(ps)
  <2> HIDE DEF ps
  <2> QED
    BY <1>1, <1>2, <1>3 DEF OneOpenIn, Inv, OneOpenProposalPerData
<1>6. QED
  <2> HIDE DEF ps
  <2>1. Follows(ps, d)
    BY <1>1, <1>2, <1>3, <1>4, <1>5 DEF Follows
  <2>2. QED
    BY <1>1, <1>2, <2>1 DEF ps

(* propose_new opens a proposal only when none with its data is open.      *)
LEMMA ProposedFollows ==
  ASSUME Inv, NEW d \in GovProposals \cup Payments, NEW x \in Nat
  PROVE  Follows(Proposed(d, x), d)
<1> DEFINE ps == CleanedUp(d)
           new == [data |-> d, votes |-> {}, exp |-> x, status |-> "pending"]
<1>1. Follows(ps, d) /\ DOMAIN ps = DOMAIN props
  BY CleanedUpFollows
<1>2. CASE PendingWith(ps, d) # {}
  BY <1>1, <1>2 DEF Proposed
<1>3. CASE PendingWith(ps, d) = {}
  <2>1. Proposed(d, x) = Append(ps, new)
    BY <1>3 DEF Proposed
  <2>2. new \in Proposals
    BY DEF Proposals, Statuses
  <2> HIDE DEF ps, new
  <2>3. ps \in Seq(Proposals)
    BY <1>1 DEF Follows
  <2>4. /\ Append(ps, new) \in Seq(Proposals)
        /\ Len(Append(ps, new)) = Len(ps) + 1
        /\ \A j \in 1 .. Len(ps) : Append(ps, new)[j] = ps[j]
        /\ Append(ps, new)[Len(ps) + 1] = new
    BY <2>2, <2>3, AppendProperties
  <2>5. \A j \in DOMAIN ps : ps[j].status = "pending" => ps[j].data # new.data
    BY <1>3 DEF PendingWith, new
  <2>6. OneOpenIn(Append(ps, new))
    <3> SUFFICES ASSUME NEW j \in DOMAIN Append(ps, new),
                        NEW k \in DOMAIN Append(ps, new),
                        Append(ps, new)[j].status = "pending",
                        Append(ps, new)[k].status = "pending",
                        Append(ps, new)[j].data = Append(ps, new)[k].data
                 PROVE  j = k
      BY DEF OneOpenIn
    <3>1. /\ DOMAIN ps = 1 .. Len(ps) /\ Len(ps) \in Nat
          /\ j \in 1 .. Len(ps) + 1 /\ k \in 1 .. Len(ps) + 1
      BY <2>3, <2>4
    <3>2. CASE j \in DOMAIN ps /\ k \in DOMAIN ps
      BY <1>1, <2>4, <3>1, <3>2 DEF Follows, OneOpenIn
    <3>3. CASE j \in DOMAIN ps /\ k = Len(ps) + 1
      BY <2>4, <2>5, <3>1, <3>3
    <3>4. CASE k \in DOMAIN ps /\ j = Len(ps) + 1
      BY <2>4, <2>5, <3>1, <3>4
    <3>5. QED
      BY <3>1, <3>2, <3>3, <3>4
  <2>7. \A j \in DOMAIN props : j \in DOMAIN Append(ps, new) /\ Append(ps, new)[j] = ps[j]
    BY <1>1, <2>3, <2>4
  <2>8. QED
    BY <1>1, <2>1, <2>4, <2>6, <2>7 DEF Follows
<1>4. QED
  BY <1>2, <1>3

(* What the vote of an authority does to the proposals (vote_impl).        *)
LEMMA VoteOnProposals ==
  ASSUME Inv, NEW s \in Auth, NEW d, NEW ps, Follows(ps, d), NEW i, Vote(s, i, ps)
  PROVE  /\ props' \in Seq(Proposals)
         /\ i \in DOMAIN ps
         /\ DOMAIN props' = DOMAIN ps
         /\ \A j \in DOMAIN ps : j # i => props'[j] = ps[j]
         /\ props'[i].data = ps[i].data
         /\ ps[i].status = "pending"
         /\ props'[i].status \in {"pending", "approved"}
         /\ s \notin ps[i].votes /\ props'[i].votes = ps[i].votes \cup {s}
<1> DEFINE votes == ps[i].votes \cup {s}
           status == IF Cardinality(votes) >= threshold THEN "approved" ELSE "pending"
<1>1. /\ i \in DOMAIN ps /\ ps[i].status = "pending" /\ s \notin ps[i].votes
      /\ props' = [ps EXCEPT ![i].votes = votes, ![i].status = status]
  BY DEF Vote
<1>2. ps \in Seq(Proposals) /\ ps[i] \in Proposals
  BY <1>1 DEF Follows
<1>3. status \in {"pending", "approved"} /\ votes \in SUBSET Auth
  BY <1>2 DEF Proposals
<1> HIDE DEF votes, status
<1>4. props' = [ps EXCEPT ![i] = [ps[i] EXCEPT !.votes = votes, !.status = status]]
  BY <1>1, <1>2
<1>5. [ps[i] EXCEPT !.votes = votes, !.status = status] \in Proposals
  BY <1>2, <1>3 DEF Proposals, Statuses
<1>6. props' \in Seq(Proposals)
  <2> DEFINE e == [ps[i] EXCEPT !.votes = votes, !.status = status]
  <2>0. i \in 1 .. Len(ps)
    BY <1>1, <1>2
  <2>1. i \in 1 .. Len(ps) /\ e \in Proposals /\ props' = [ps EXCEPT ![i] = e]
    BY <1>4, <1>5, <2>0, Zenon
  <2> HIDE DEF e
  <2>2. [ps EXCEPT ![i] = e] \in Seq(Proposals)
    BY <1>2, <2>1, ExceptSeq
  <2>3. QED
    BY <2>1, <2>2
<1>7. props'[i] = [ps[i] EXCEPT !.votes = votes, !.status = status]
  BY <1>1, <1>2, <1>4
<1>8. props'[i].data = ps[i].data /\ props'[i].status = status /\ props'[i].votes = votes
  BY <1>2, <1>7 DEF Proposals
<1>9. QED
  BY <1>1, <1>2, <1>3, <1>4, <1>6, <1>8 DEF votes

(* A threshold change keeps the threshold between 1 and the number of      *)
(* owners (multi_auth_helper_update_signatures_required).                  *)
LEMMA UpdateThresholdBounds ==
  ASSUME NEW n \in Thresholds, NEW own \in SUBSET Auth,
         threshold \in Nat, threshold > 0, threshold <= Cardinality(own),
         offerN \in Thresholds, UpdateThreshold(n, own)
  PROVE  /\ threshold' \in Nat /\ threshold' > 0 /\ threshold' <= Cardinality(own)
         /\ offerN' \in Thresholds
  BY DEF UpdateThreshold, Thresholds, None

(* Handlers keep the quorum and put only voted candidates in the offer     *)
(* (vote_governance).                                                      *)
LEMMA ExecuteEffect ==
  ASSUME Inv, caged, NEW data \in GovProposals \cup Payments, Execute(data)
  PROVE  /\ owners' \in SUBSET owners
         /\ threshold' \in Nat /\ threshold' > 0 /\ threshold' <= Cardinality(owners')
         /\ offer' \in Seq(OfferEntries)
         /\ offerN' \in Thresholds
         /\ \A a \in Addrs(offer)' :
               \/ a \in Addrs(offer)
               \/ data \notin Payments /\ data.add /\ a \in Range(data.addrs)
<1>1. /\ owners \in SUBSET Auth /\ threshold \in Nat /\ threshold > 0
      /\ threshold <= Cardinality(owners) /\ offer \in Seq(OfferEntries)
      /\ offerN \in Thresholds /\ epoch \in Nat
  BY DEF Inv, TypeOK, QuorumIsPossible, OfferEntries
<1>2. data \notin Payments => data \in GovData
  BY MultiActionAssumption
<1>3. CASE data \in Payments /\ UNCHANGED <<owners, threshold, offer, offerN>>
  BY <1>1, <1>3 DEF Addrs
<1>4. CASE /\ data \notin Payments
           /\ data.addrs = <<>>
           /\ UpdateThreshold(data.n, owners)
           /\ UNCHANGED <<owners, offer>>
  <2>1. data.n \in Thresholds
    BY <1>2, <1>4 DEF GovData
  <2>2. /\ threshold' \in Nat /\ threshold' > 0 /\ threshold' <= Cardinality(owners)
        /\ offerN' \in Thresholds
    BY <1>1, <1>4, <2>1, UpdateThresholdBounds
  <2>3. QED
    BY <1>1, <1>4, <2>2 DEF Addrs
<1>5. CASE /\ data \notin Payments
           /\ data.addrs # <<>>
           /\ data.add
           /\ offer' = offer \o [i \in DOMAIN data.addrs |->
                          [addr |-> data.addrs[i], exp |-> epoch + OfferDuration]]
           /\ offerN' = IF data.n # None /\ data.n # threshold THEN data.n ELSE offerN
           /\ UNCHANGED <<owners, threshold>>
  <2> DEFINE new == [i \in DOMAIN data.addrs |->
                       [addr |-> data.addrs[i], exp |-> epoch + OfferDuration]]
  <2>1. data.addrs \in Seq(Auth) /\ data.n \in Thresholds /\ OfferDuration \in Nat
    BY <1>2, <1>5, MultiActionAssumption DEF GovData
  <2>2. /\ new \in Seq(OfferEntries) /\ DOMAIN new = DOMAIN data.addrs
        /\ \A i \in DOMAIN new : new[i].addr = data.addrs[i]
    <3>1. DOMAIN data.addrs = 1 .. Len(data.addrs) /\ Len(data.addrs) \in Nat
      BY <2>1
    <3>2. new \in [1 .. Len(data.addrs) -> OfferEntries]
      BY <1>1, <2>1, <3>1 DEF OfferEntries
    <3>3. QED
      BY <3>1, <3>2, SeqDef
  <2>3. offer' = offer \o new
    BY <1>5
  <2> HIDE DEF new
  <2>4. /\ offer' \in Seq(OfferEntries)
        /\ Len(offer') = Len(offer) + Len(new)
        /\ \A i \in 1 .. Len(offer) + Len(new) :
              offer'[i] = IF i <= Len(offer) THEN offer[i] ELSE new[i - Len(offer)]
    BY <1>1, <2>2, <2>3, ConcatProperties
  <2>5. ASSUME NEW a \in Addrs(offer)'
        PROVE  a \in Addrs(offer) \/ a \in Range(data.addrs)
    <3>1. PICK i \in DOMAIN offer' : offer'[i].addr = a
      BY <2>5 DEF Addrs
    <3>2. i \in 1 .. Len(offer) + Len(new) /\ Len(offer) \in Nat /\ Len(new) \in Nat
      BY <1>1, <2>2, <2>4, <3>1
    <3>3. CASE i <= Len(offer)
      BY <1>1, <2>4, <3>1, <3>2, <3>3 DEF Addrs
    <3>4. CASE ~(i <= Len(offer))
      <4>1. i - Len(offer) \in DOMAIN new
        BY <2>2, <3>2, <3>4
      <4>2. offer'[i] = new[i - Len(offer)]
        BY <2>4, <3>2, <3>4
      <4>3. a = data.addrs[i - Len(offer)]
        BY <2>2, <3>1, <4>1, <4>2
      <4>4. QED
        BY <2>2, <4>1, <4>3 DEF Range
    <3>5. QED
      BY <3>3, <3>4
  <2>6. offerN' \in Thresholds
    BY <1>1, <1>5, <2>1
  <2>7. QED
    BY <1>1, <1>5, <2>4, <2>5, <2>6
<1>6. CASE /\ data \notin Payments
           /\ data.addrs # <<>>
           /\ ~data.add
           /\ owners' = owners \ Range(data.addrs)
           /\ Cardinality(owners') >= threshold
           /\ UpdateThreshold(data.n, owners')
           /\ UNCHANGED offer
  <2>1. data.n \in Thresholds
    BY <1>2, <1>6 DEF GovData
  <2>2. owners' \in SUBSET Auth /\ owners' \in SUBSET owners
    BY <1>1, <1>6
  <2>3. threshold <= Cardinality(owners')
    BY <1>1, <1>6, <2>2, AuthFinite
  <2>4. /\ threshold' \in Nat /\ threshold' > 0 /\ threshold' <= Cardinality(owners')
        /\ offerN' \in Thresholds
    BY <1>1, <1>6, <2>1, <2>2, <2>3, UpdateThresholdBounds
  <2>5. QED
    BY <1>1, <1>6, <2>2, <2>4 DEF Addrs
<1>7. QED
  BY <1>3, <1>4, <1>5, <1>6 DEF Execute

(* What is voted in stays voted in: approved proposals are never rewritten *)
LEMMA VotedInGrows ==
  ASSUME \A j \in DOMAIN props : props[j].status = "approved" =>
            /\ j \in DOMAIN props'
            /\ props'[j].status = "approved"
            /\ props'[j].data = props[j].data
  PROVE  VotedIn \subseteq VotedIn'
<1> SUFFICES ASSUME NEW a \in VotedIn
             PROVE  a \in VotedIn'
  OBVIOUS
<1>1. PICK j \in DOMAIN props : /\ props[j].status = "approved"
                                /\ props[j].data \notin Payments
                                /\ props[j].data.add
                                /\ a \in Range(props[j].data.addrs)
  BY DEF VotedIn
<1>2. /\ j \in DOMAIN props' /\ props'[j].status = "approved"
      /\ props'[j].data = props[j].data
  BY <1>1
<1>3. QED
  BY <1>1, <1>2 DEF VotedIn

(* A vote, with the handler it may run, keeps the invariant.               *)
LEMMA VoteInv ==
  ASSUME Inv, NEW s \in Auth, NEW d, NEW ps, Follows(ps, d), NEW i, Vote(s, i, ps)
  PROVE  Inv'
<1> DEFINE data == ps[i].data
           passed == Cardinality(ps[i].votes \cup {s}) >= threshold
<1>1. /\ props' \in Seq(Proposals)
      /\ i \in DOMAIN ps
      /\ DOMAIN props' = DOMAIN ps
      /\ \A j \in DOMAIN ps : j # i => props'[j] = ps[j]
      /\ props'[i].data = ps[i].data
      /\ ps[i].status = "pending"
      /\ props'[i].status \in {"pending", "approved"}
  BY VoteOnProposals
<1>2. /\ ps \in Seq(Proposals) /\ OneOpenIn(ps)
      /\ \A j \in DOMAIN props :
            /\ j \in DOMAIN ps
            /\ props[j].status # "pending" => ps[j] = props[j]
  BY DEF Follows
<1>3. /\ caged /\ UNCHANGED <<epoch, caged, claimed, founders>>
      /\ IF passed THEN Execute(data) ELSE UNCHANGED <<owners, threshold, offer, offerN>>
  BY DEF Vote
<1>4. data \in GovProposals \cup Payments
  <2>1. ps[i] \in Proposals
    BY <1>1, <1>2
  <2>2. QED
    BY <2>1 DEF Proposals
<1>5. OneOpenProposalPerData'
  BY <1>1, <1>2 DEF OneOpenProposalPerData, OneOpenIn
<1>6. VotedIn \subseteq VotedIn'
  <2>1. \A j \in DOMAIN props : props[j].status = "approved" =>
          j \in DOMAIN ps /\ ps[j] = props[j] /\ j # i
    BY <1>1, <1>2
  <2>2. QED
    BY <1>1, <2>1, VotedInGrows
<1>7. CASE ~passed
  <2>1. UNCHANGED <<owners, threshold, offer, offerN>>
    BY <1>3, <1>7
  <2>2. TypeOK'
    BY <1>1, <1>3, <2>1 DEF Inv, TypeOK
  <2>3. QuorumIsPossible' /\ AuthoritiesWereVoted' /\ OfferWasVoted'
    BY <1>3, <1>6, <2>1
    DEF Inv, QuorumIsPossible, AuthoritiesWereVoted, OfferWasVoted, Addrs
  <2>4. QED
    BY <1>5, <2>2, <2>3 DEF Inv
<1>8. CASE passed
  <2>1. Execute(data)
    BY <1>3, <1>8
  <2>2. /\ owners' \in SUBSET owners
        /\ threshold' \in Nat /\ threshold' > 0 /\ threshold' <= Cardinality(owners')
        /\ offer' \in Seq(OfferEntries)
        /\ offerN' \in Thresholds
        /\ \A a \in Addrs(offer)' :
              \/ a \in Addrs(offer)
              \/ data \notin Payments /\ data.add /\ a \in Range(data.addrs)
    <3> HIDE DEF data
    <3> QED
      BY <1>3, <1>4, <2>1, ExecuteEffect
  <2>3. props'[i].status = "approved"
    <3>1. props' = [ps EXCEPT ![i].votes = ps[i].votes \cup {s}, ![i].status = "approved"]
      BY <1>8 DEF Vote
    <3>2. ps[i] \in Proposals
      BY <1>1, <1>2
    <3>3. QED
      BY <1>1, <1>2, <3>1, <3>2 DEF Proposals
  <2>4. ASSUME NEW a, data \notin Payments, data.add, a \in Range(data.addrs)
        PROVE  a \in VotedIn'
    BY <1>1, <2>3, <2>4 DEF VotedIn
  <2>5. TypeOK'
    BY <1>1, <1>3, <2>2 DEF Inv, TypeOK, OfferEntries
  <2>6. QuorumIsPossible'
    BY <2>2 DEF QuorumIsPossible
  <2>7. AuthoritiesWereVoted'
    BY <1>3, <1>6, <2>2 DEF Inv, AuthoritiesWereVoted
  <2>8. OfferWasVoted'
    <3> HIDE DEF data
    <3> QED
      BY <1>3, <1>6, <2>2, <2>4 DEF Inv, OfferWasVoted
  <2>9. QED
    BY <1>5, <2>5, <2>6, <2>7, <2>8 DEF Inv
<1>9. QED
  BY <1>7, <1>8

(* The sponsor's offer stays well-typed (update_offer).                    *)
LEMMA UpdateOfferType ==
  ASSUME TypeOK, NEW new \in Seq(Auth), NEW x \in Nat, UpdateOffer(new, x)
  PROVE  claimed' \in SUBSET Auth /\ offer' \in Seq(OfferEntries)
<1> DEFINE have  == claimed \cap Range(new)
           fresh == DropAlreadyClaimed(new, have)
           S == {[addr |-> a, exp |-> x] : a \in fresh}
<1>1. claimed' = have /\ offer' = SetToSeq(S)
  BY DEF UpdateOffer
<1>2. fresh \in SUBSET Range(new) /\ Range(new) \in SUBSET Auth
  BY DEF DropAlreadyClaimed, Range
<1>3. IsFiniteSet(S) /\ S \in SUBSET OfferEntries
  <2>1. IsFiniteSet(fresh)
    BY <1>2, AuthFinite
  <2> HIDE DEF fresh
  <2>2. IsFiniteSet(S)
    <3> DEFINE f == [a \in fresh |-> [addr |-> a, exp |-> x]]
    <3>1. f \in Surjection(fresh, S)
      BY DEF Surjection
    <3>2. QED
      BY <2>1, <3>1, FS_Surjection DEF ExistsSurjection
  <2>3. QED
    BY <1>2, <2>2 DEF OfferEntries
<1>4. SetToSeq(S) \in Seq(OfferEntries)
  <2> HIDE DEF S
  <2>1. PICK f \in [1 .. Cardinality(S) -> S] : IsInjective(f)
    BY <1>3, FS_CardinalityType
    DEF ExistsBijection, Bijection, Injection, IsInjective
  <2>2. SetToSeq(S) \in [1 .. Cardinality(S) -> S]
    BY <2>1 DEF SetToSeq
  <2>3. Cardinality(S) \in Nat
    BY <1>3, FS_CardinalityType
  <2>4. QED
    BY <1>3, <2>2, <2>3, SeqDef
<1>5. have \in SUBSET Auth
  BY DEF TypeOK
<1>6. QED
  BY <1>1, <1>4, <1>5

(* A step that keeps the proposals and the offer's candidates among the    *)
(* voted keeps the parts of the invariant about them.                      *)
LEMMA SameProposals ==
  ASSUME OneOpenProposalPerData, props' = props
  PROVE  OneOpenProposalPerData' /\ VotedIn' = VotedIn
  BY DEF OneOpenProposalPerData, VotedIn

(* The sponsor's offers keep the invariant.                                *)
LEMMA ProposeOfferInv ==
  ASSUME Inv, NEW new \in OfferLists, NEW d \in Nat, ProposeOffer(new, d)
  PROVE  Inv'
<1>1. new \in Seq(Auth) /\ epoch + d \in Nat
  BY MultiActionAssumption DEF Inv, TypeOK
<1>2. /\ ~caged /\ UpdateOffer(new, epoch + d)
      /\ UNCHANGED <<epoch, caged, owners, threshold, offerN, props, founders>>
  BY DEF ProposeOffer
<1>3. claimed' \in SUBSET Auth /\ offer' \in Seq(OfferEntries)
  BY <1>1, <1>2, UpdateOfferType DEF Inv
<1>4. OneOpenProposalPerData' /\ VotedIn' = VotedIn
  BY <1>2, SameProposals DEF Inv
<1>5. TypeOK'
  BY <1>2, <1>3 DEF Inv, TypeOK, OfferEntries
<1>6. QuorumIsPossible' /\ AuthoritiesWereVoted' /\ OfferWasVoted'
  BY <1>2, <1>4 DEF Inv, QuorumIsPossible, AuthoritiesWereVoted, OfferWasVoted
<1>7. QED
  BY <1>4, <1>5, <1>6 DEF Inv

(* Claims before the cage keep the invariant.                              *)
LEMMA ClaimInitialOfferInv ==
  ASSUME Inv, NEW a \in Auth, ClaimInitialOffer(a)
  PROVE  Inv'
<1>1. /\ ~caged /\ a \in Addrs(offer)
      /\ offer' = RemoveAt(offer, FirstEntry(a)) /\ claimed' = claimed \cup {a}
      /\ UNCHANGED <<epoch, caged, owners, threshold, offerN, props, founders>>
  BY DEF ClaimInitialOffer, CanClaim
<1>2. offer' \in Seq(OfferEntries)
  BY <1>1, FirstEntryExists, RemoveAtElements DEF Inv, TypeOK, OfferEntries
<1>3. OneOpenProposalPerData' /\ VotedIn' = VotedIn
  BY <1>1, SameProposals DEF Inv
<1>4. TypeOK'
  BY <1>1, <1>2 DEF Inv, TypeOK, OfferEntries
<1>5. QuorumIsPossible' /\ AuthoritiesWereVoted' /\ OfferWasVoted'
  BY <1>1, <1>3 DEF Inv, QuorumIsPossible, AuthoritiesWereVoted, OfferWasVoted
<1>6. QED
  BY <1>3, <1>4, <1>5 DEF Inv

(* The cage hands the account to the claimers (finalize_and_cage).         *)
LEMMA FinalizeInv ==
  ASSUME Inv, NEW n \in Nat, FinalizeAndCage(n)
  PROVE  Inv'
<1>1. /\ n > 0 /\ n <= Cardinality(claimed)
      /\ owners' = claimed /\ founders' = claimed /\ threshold' = n
      /\ offer' = <<>> /\ claimed' = {} /\ offerN' = None
      /\ UNCHANGED <<epoch, props>>
  BY DEF FinalizeAndCage
<1>2. caged' \in BOOLEAN
  BY Zenon DEF FinalizeAndCage
<1>3. OneOpenProposalPerData' /\ VotedIn' = VotedIn
  BY <1>1, SameProposals DEF Inv
<1>4. TypeOK'
  BY <1>1, <1>2 DEF Inv, TypeOK, Thresholds
<1>5. QuorumIsPossible' /\ AuthoritiesWereVoted'
  BY <1>1 DEF QuorumIsPossible, AuthoritiesWereVoted
<1>6. Addrs(offer)' = {}
  BY <1>1 DEF Addrs
<1>7. QED
  BY <1>3, <1>4, <1>5, <1>6 DEF Inv, OfferWasVoted

(* A voted candidate who claims keeps the invariant: there is one more     *)
(* owner, and a threshold that waited is checked against it.               *)
LEMMA ClaimVotedOfferInv ==
  ASSUME Inv, NEW a \in Auth, ClaimVotedOffer(a)
  PROVE  Inv'
<1>1. /\ caged /\ a \in Addrs(offer) /\ a \notin owners
      /\ owners' = owners \cup {a}
      /\ offer' = RemoveAt(offer, FirstEntry(a))
      /\ IF offer' = <<>>
         THEN UpdateThreshold(offerN, owners') /\ claimed' = {}
         ELSE UNCHANGED <<threshold, offerN, claimed>>
      /\ UNCHANGED <<epoch, caged, props, founders>>
  BY DEF ClaimVotedOffer, CanClaim
<1>2. /\ offer \in Seq(OfferEntries) /\ owners \in SUBSET Auth /\ threshold \in Nat
      /\ threshold > 0 /\ threshold <= Cardinality(owners) /\ offerN \in Thresholds
  BY <1>1 DEF Inv, TypeOK, QuorumIsPossible, OfferEntries
<1>3. FirstEntry(a) \in DOMAIN offer
  BY <1>1, FirstEntryExists DEF Inv
<1>4. /\ offer' \in Seq(OfferEntries)
      /\ \A j \in DOMAIN offer' : \E k \in DOMAIN offer : offer'[j] = offer[k]
  BY <1>1, <1>2, <1>3, RemoveAtElements
<1>5. Addrs(offer)' \subseteq Addrs(offer)
  BY <1>4 DEF Addrs
<1>6. owners' \in SUBSET Auth /\ threshold <= Cardinality(owners')
  <2>1. IsFiniteSet(owners) /\ Cardinality(owners) \in Nat
    BY <1>2, AuthFinite
  <2>2. Cardinality(owners \cup {a}) = Cardinality(owners) + 1
    BY <1>1, <2>1, FS_AddElement
  <2>3. QED
    BY <1>1, <1>2, <2>1, <2>2
<1>7. /\ threshold' \in Nat /\ threshold' > 0 /\ threshold' <= Cardinality(owners')
      /\ offerN' \in Thresholds /\ claimed' \in SUBSET Auth
  <2>1. CASE offer' = <<>>
    <3>1. UpdateThreshold(offerN, owners') /\ claimed' = {}
      BY <1>1, <2>1
    <3>2. QED
      BY <1>2, <1>6, <3>1, UpdateThresholdBounds
  <2>2. CASE offer' # <<>>
    <3>1. UNCHANGED <<threshold, offerN, claimed>>
      BY <1>1, <2>2
    <3>2. QED
      BY <1>2, <1>6, <3>1 DEF Inv, TypeOK
  <2>3. QED
    BY <2>1, <2>2
<1>8. OneOpenProposalPerData' /\ VotedIn' = VotedIn
  BY <1>1, SameProposals DEF Inv
<1>9. TypeOK'
  BY <1>1, <1>4, <1>6, <1>7 DEF Inv, TypeOK, OfferEntries
<1>10. QuorumIsPossible'
  BY <1>7 DEF QuorumIsPossible
<1>11. AuthoritiesWereVoted' /\ OfferWasVoted'
  BY <1>1, <1>5, <1>8 DEF Inv, AuthoritiesWereVoted, OfferWasVoted
<1>12. QED
  BY <1>8, <1>9, <1>10, <1>11 DEF Inv

(* A vote changes the decision on one proposal only, open and unexpired in *)
(* its own tracker.                                                        *)
LEMMA VoteDecides ==
  ASSUME Inv, NEW s \in Auth, NEW d, NEW ps, Follows(ps, d),
         NEW i, Vote(s, i, ps), SameTracker(ps[i].data, d)
  PROVE  \A j \in DOMAIN props :
            /\ j \in DOMAIN props'
            /\ props[j].status # "pending" => props'[j] = props[j]
            /\ props[j].status = "pending" /\ props'[j].status = "approved"
                  => epoch <= props[j].exp
<1>1. /\ i \in DOMAIN ps
      /\ DOMAIN props' = DOMAIN ps
      /\ \A j \in DOMAIN ps : j # i => props'[j] = ps[j]
      /\ ps[i].status = "pending"
  BY VoteOnProposals
<1> SUFFICES ASSUME NEW j \in DOMAIN props
             PROVE  /\ j \in DOMAIN props'
                    /\ props[j].status # "pending" => props'[j] = props[j]
                    /\ props[j].status = "pending" /\ props'[j].status = "approved"
                          => epoch <= props[j].exp
  OBVIOUS
<1>2. /\ j \in DOMAIN ps
      /\ ps[j].data = props[j].data
      /\ props[j].status # "pending" => ps[j] = props[j]
      /\ props[j].status = "pending" => ps[j].status # "approved"
      /\ ps[j].status = "pending" /\ SameTracker(props[j].data, d)
           => epoch <= props[j].exp
  BY DEF Follows
<1>3. CASE j = i
  BY <1>1, <1>2, <1>3
<1>4. CASE j # i
  BY <1>1, <1>2, <1>4
<1>5. QED
  BY <1>3, <1>4

(* What a step does to decisions already made.                             *)
Stands ==
    \A i \in DOMAIN props :
        /\ i \in DOMAIN props'
        /\ props[i].status # "pending" => props'[i] = props[i]
        /\ props[i].status = "pending" /\ props'[i].status = "approved"
              => epoch <= props[i].exp

(* A proposal with the vote of its author keeps the invariant and the      *)
(* decisions (propose_new, then vote_with_id or vote_governance).          *)
LEMMA ProposeInv ==
  ASSUME Inv, NEW s \in Auth, NEW data \in GovProposals \cup Payments,
         NEW d \in Nat, Propose(s, data, d)
  PROVE  Inv' /\ Stands
<1> DEFINE ps == Proposed(data, epoch + d)
<1>1. epoch + d \in Nat
  BY MultiActionAssumption DEF Inv, TypeOK
<1>2. Follows(ps, data)
  BY <1>1, ProposedFollows
<1>3. PICK i \in PendingWith(ps, data) : Vote(s, i, ps)
  BY DEF Propose
<1>4. SameTracker(ps[i].data, data)
  BY <1>3 DEF PendingWith, SameTracker
<1> HIDE DEF ps
<1>5. QED
  BY <1>2, <1>3, <1>4, VoteInv, VoteDecides DEF Stands

(* So does a vote on a proposal of someone else.                           *)
LEMMA VoteWithIdInv ==
  ASSUME Inv, NEW s \in Auth, NEW i, VoteWithId(s, i)
  PROVE  Inv' /\ Stands
<1> DEFINE d == props[i].data
           ps == CleanedUp(d)
<1>1. i \in DOMAIN props /\ Vote(s, i, ps)
  BY DEF VoteWithId
<1>2. Follows(ps, d)
  BY CleanedUpFollows
<1>3. SameTracker(ps[i].data, d)
  <2> HIDE DEF ps
  <2> QED
    BY <1>1, <1>2 DEF Follows, SameTracker
<1> HIDE DEF ps, d
<1>4. QED
  BY <1>1, <1>2, <1>3, VoteInv, VoteDecides DEF Stands

(* Steps that leave the proposals alone leave the decisions alone.         *)
LEMMA UnchangedStands ==
  ASSUME props' = props, TypeOK
  PROVE  Stands
  BY DEF Stands

(* Every step keeps the invariant and the decisions.                       *)
LEMMA NextInv ==
  ASSUME Inv, [Next]_vars
  PROVE  Inv' /\ Stands
<1>0. TypeOK
  BY DEF Inv
<1>1. CASE UNCHANGED vars
  <2>1. props' = props /\ UNCHANGED <<epoch, caged, owners, threshold, offer, claimed, offerN, founders>>
    BY <1>1 DEF vars
  <2>2. QED
    BY <1>0, <2>1, UnchangedStands
    DEF Inv, TypeOK, QuorumIsPossible, OneOpenProposalPerData,
        AuthoritiesWereVoted, OfferWasVoted, VotedIn, Addrs
<1>2. CASE AdvanceEpoch
  <2>1. /\ epoch' = epoch + 1
        /\ props' = props /\ UNCHANGED <<caged, owners, threshold, offer, claimed, offerN, founders>>
    BY <1>2 DEF AdvanceEpoch
  <2>2. QED
    BY <1>0, <2>1, UnchangedStands
    DEF Inv, TypeOK, QuorumIsPossible, OneOpenProposalPerData,
        AuthoritiesWereVoted, OfferWasVoted, VotedIn, Addrs
<1>3. CASE \E new \in OfferLists, d \in Durations : ProposeOffer(new, d)
  <2>1. PICK new \in OfferLists, d \in Durations : ProposeOffer(new, d)
    BY <1>3
  <2>2. props' = props
    BY <2>1 DEF ProposeOffer
  <2>3. QED
    BY <1>0, <2>1, <2>2, ProposeOfferInv, UnchangedStands, MultiActionAssumption
<1>4. CASE \E a \in Auth : ClaimInitialOffer(a)
  <2>1. PICK a \in Auth : ClaimInitialOffer(a)
    BY <1>4
  <2>2. props' = props
    BY <2>1 DEF ClaimInitialOffer
  <2>3. QED
    BY <1>0, <2>1, <2>2, ClaimInitialOfferInv, UnchangedStands
<1>5. CASE \E n \in 1 .. Cardinality(Auth) : FinalizeAndCage(n)
  <2>1. PICK n \in 1 .. Cardinality(Auth) : FinalizeAndCage(n)
    BY <1>5
  <2>2. n \in Nat
    BY <2>1, AuthFinite
  <2>3. props' = props
    BY <2>1 DEF FinalizeAndCage
  <2>4. QED
    BY <1>0, <2>1, <2>2, <2>3, FinalizeInv, UnchangedStands
<1>6. CASE \E a \in Auth : ClaimVotedOffer(a)
  <2>1. PICK a \in Auth : ClaimVotedOffer(a)
    BY <1>6
  <2>2. props' = props
    BY <2>1 DEF ClaimVotedOffer
  <2>3. QED
    BY <1>0, <2>1, <2>2, ClaimVotedOfferInv, UnchangedStands
<1>7. CASE \E s \in Auth, g \in GovProposals, d \in Durations :
             ProposeGovernance(s, g, d) /\ Len(props') <= MaxProposals
  BY <1>7, ProposeInv, MultiActionAssumption DEF ProposeGovernance
<1>8. CASE \E s \in Auth, p \in Payments, d \in Durations :
             Propose(s, p, d) /\ Len(props') <= MaxProposals
  BY <1>8, ProposeInv, MultiActionAssumption
<1>9. CASE \E s \in Auth, i \in 1 .. MaxProposals : VoteWithId(s, i)
  BY <1>9, VoteWithIdInv
<1>10. QED
  BY <1>1, <1>2, <1>3, <1>4, <1>5, <1>6, <1>7, <1>8, <1>9 DEF Next

(* The account starts uncaged, with no authorities and no proposals.       *)
LEMMA InitInv == Init => Inv
<1> SUFFICES ASSUME Init
             PROVE  Inv
  OBVIOUS
<1>1. caged \in BOOLEAN /\ ~caged
  BY Zenon DEF Init
<1>2. /\ epoch = 0 /\ owners = {} /\ threshold = 0 /\ offer = <<>> /\ claimed = {}
      /\ offerN = None /\ props = <<>> /\ founders = {}
  BY DEF Init
<1>3. TypeOK
  BY <1>1, <1>2 DEF TypeOK, Thresholds
<1>4. QuorumIsPossible /\ OfferWasVoted
  BY <1>1 DEF QuorumIsPossible, OfferWasVoted
<1>5. OneOpenProposalPerData /\ AuthoritiesWereVoted
  BY <1>2 DEF OneOpenProposalPerData, AuthoritiesWereVoted
<1>6. QED
  BY <1>3, <1>4, <1>5 DEF Inv

(* The invariant of the multi-action account.                              *)
THEOREM MultiActionInvariant == Spec => []Inv
<1>1. Inv /\ [Next]_vars => Inv'
  BY NextInv
<1>2. QED
  BY InitInv, <1>1, PTL DEF Spec

(* Offers, claims, proposals and the threshold of multi_action keep their  *)
(* types through every transaction.                                        *)
THEOREM MultiActionTypes == Spec => []TypeOK
<1>1. Inv => TypeOK
  BY DEF Inv
<1>2. QED
  BY <1>1, MultiActionInvariant, PTL

(* Whatever is voted, claimed or left to expire, enough authorities remain *)
(* to reach the threshold (vote_governance, claim_offer).                  *)
THEOREM QuorumAlwaysPossible == Spec => []QuorumIsPossible
<1>1. Inv => QuorumIsPossible
  BY DEF Inv
<1>2. QED
  BY <1>1, MultiActionInvariant, PTL

(* propose_new never leaves two open proposals for the same transaction.   *)
THEOREM NoDuplicateProposals == Spec => []OneOpenProposalPerData
<1>1. Inv => OneOpenProposalPerData
  BY DEF Inv
<1>2. QED
  BY <1>1, MultiActionInvariant, PTL

(* No authority joins a caged account except through an approved proposal. *)
THEOREM AuthorityNeedsVote == Spec => []AuthoritiesWereVoted
<1>1. Inv => AuthoritiesWereVoted
  BY DEF Inv
<1>2. QED
  BY <1>1, MultiActionInvariant, PTL

(* Approved and rejected proposals stay as they are, and none is approved  *)
(* after its expiration (vote_impl after lazy_cleanup_expired).            *)
THEOREM DecisionsStand == Spec => DecisionsAreFinal
<1>1. Inv /\ [Next]_vars =>
        [\A i \in DOMAIN props :
            /\ i \in DOMAIN props'
            /\ props[i].status # "pending" => props'[i] = props[i]
            /\ props[i].status = "pending" /\ props'[i].status = "approved"
                  => epoch <= props[i].exp]_vars
  BY NextInv DEF Stands
<1>2. QED
  BY <1>1, MultiActionInvariant, PTL DEF Spec, DecisionsAreFinal

(* A threshold that waits with an offer was voted: what ThresholdsWereVoted  *)
(* needs when the last candidate claims.                                   *)
WaitingWasVoted == offerN # None => offerN \in VotedThresholds

(* What was voted stays voted, since decisions are final.                  *)
LEMMA VotedThresholdsGrow ==
  ASSUME Inv, [Next]_vars
  PROVE  VotedThresholds \subseteq VotedThresholds'
<1>1. Stands
  BY NextInv
<1>2. ASSUME NEW n \in VotedThresholds
      PROVE  n \in VotedThresholds'
  <2>1. PICK i \in DOMAIN props : /\ props[i].status = "approved"
                                  /\ props[i].data \notin Payments
                                  /\ n = props[i].data.n /\ n # None
    BY <1>2 DEF VotedThresholds
  <2>2. i \in DOMAIN props' /\ props'[i] = props[i]
    BY <1>1, <2>1 DEF Stands
  <2>3. QED
    BY <2>1, <2>2 DEF VotedThresholds
<1>3. QED
  BY <1>2

(* The handler of a proposal sets the threshold, or the one that waits, to *)
(* the one of the proposal or leaves them (vote_governance).               *)
LEMMA ExecuteThresholds ==
  ASSUME NEW data, Execute(data)
  PROVE  /\ \/ threshold' = threshold
            \/ threshold' = data.n /\ data.n # None /\ data \notin Payments
         /\ \/ offerN' \in {offerN, None}
            \/ offerN' = data.n /\ data.n # None /\ data \notin Payments
  BY DEF Execute, UpdateThreshold

(* So a vote changes them only to what is voted then, or was before.       *)
LEMMA VoteThresholds ==
  ASSUME Inv, NEW s \in Auth, NEW d, NEW ps, Follows(ps, d), NEW i, Vote(s, i, ps)
  PROVE  /\ threshold' # threshold => threshold' \in VotedThresholds'
         /\ offerN' \in {offerN, None} \/ offerN' \in VotedThresholds'
<1> DEFINE votes == ps[i].votes \cup {s}
           passed == Cardinality(votes) >= threshold
           status == IF passed THEN "approved" ELSE "pending"
<1>1. /\ props' = [ps EXCEPT ![i].votes = votes, ![i].status = status]
      /\ IF passed THEN Execute(ps[i].data)
         ELSE UNCHANGED <<owners, threshold, offer, offerN>>
      /\ i \in DOMAIN ps
  BY DEF Vote
<1>2. ps \in Seq(Proposals) /\ ps[i] \in Proposals
  BY <1>1 DEF Follows
<1>3. i \in DOMAIN props' /\ props'[i].data = ps[i].data
  BY VoteOnProposals
<1>4. passed => props'[i].status = "approved"
  <2> HIDE DEF votes, passed
  <2>1. props'[i].status = status
    <3> HIDE DEF status
    <3>1. props'[i] = [ps[i] EXCEPT !.votes = votes, !.status = status]
      BY <1>1, <1>2
    <3>2. QED
      BY <1>2, <3>1 DEF Proposals
  <2>2. QED
    BY <2>1
<1> HIDE DEF votes, passed, status
<1>5. CASE ~passed
  BY <1>1, <1>5
<1>6. CASE passed
  <2>1. ps[i].data \notin Payments /\ ps[i].data.n # None => ps[i].data.n \in VotedThresholds'
    BY <1>3, <1>4, <1>6 DEF VotedThresholds
  <2>2. Execute(ps[i].data)
    BY <1>1, <1>6
  <2>3. QED
    BY <2>1, <2>2, ExecuteThresholds
<1>7. QED
  BY <1>5, <1>6

(* Every step changes the threshold in force, after the cage, and the one  *)
(* that waits only to voted ones.                                          *)
LEMMA StepThresholds ==
  ASSUME Inv, WaitingWasVoted, [Next]_vars
  PROVE  /\ caged /\ threshold' # threshold => threshold' \in VotedThresholds'
         /\ WaitingWasVoted'
<1> DEFINE Goal == /\ caged /\ threshold' # threshold => threshold' \in VotedThresholds'
                   /\ WaitingWasVoted'
<1>1. VotedThresholds \subseteq VotedThresholds'
  BY VotedThresholdsGrow
<1>2. ASSUME NEW s \in Auth, NEW d, NEW ps, Follows(ps, d), NEW i, Vote(s, i, ps)
      PROVE  Goal
  <2>1. /\ threshold' # threshold => threshold' \in VotedThresholds'
        /\ offerN' \in {offerN, None} \/ offerN' \in VotedThresholds'
    BY <1>2, VoteThresholds
  <2>2. QED
    BY <1>1, <2>1 DEF WaitingWasVoted
<1>3. ASSUME NEW s \in Auth, NEW data \in GovProposals \cup Payments, NEW d \in Nat,
             Propose(s, data, d)
      PROVE  Goal
  <2> DEFINE ps == Proposed(data, epoch + d)
  <2>1. epoch + d \in Nat
    BY MultiActionAssumption DEF Inv, TypeOK
  <2>2. Follows(ps, data)
    BY <2>1, ProposedFollows
  <2>3. PICK i \in PendingWith(ps, data) : Vote(s, i, ps)
    BY <1>3 DEF Propose
  <2> HIDE DEF ps, Goal
  <2>4. QED
    BY <1>2, <2>2, <2>3
<1>4. ASSUME NEW s \in Auth, NEW i, VoteWithId(s, i)
      PROVE  Goal
  <2> DEFINE ps == CleanedUp(props[i].data)
  <2>1. Vote(s, i, ps) /\ Follows(ps, props[i].data)
    BY <1>4, CleanedUpFollows DEF VoteWithId
  <2> HIDE DEF ps, Goal
  <2>2. QED
    BY <1>2, <2>1
<1>5. ASSUME NEW a \in Auth, ClaimVotedOffer(a)
      PROVE  Goal
  <2>1. \/ threshold' = threshold /\ offerN' = offerN
        \/ threshold' = offerN /\ offerN # None /\ offerN' = None
    BY <1>5 DEF ClaimVotedOffer, UpdateThreshold
  <2>2. QED
    BY <1>1, <2>1 DEF WaitingWasVoted
<1>6. ASSUME NEW n, FinalizeAndCage(n)
      PROVE  Goal
  BY <1>6 DEF FinalizeAndCage, WaitingWasVoted
<1>7. ASSUME threshold' = threshold, offerN' = offerN
      PROVE  Goal
  BY <1>1, <1>7 DEF WaitingWasVoted
<1>8. \/ threshold' = threshold /\ offerN' = offerN
      \/ \E n : FinalizeAndCage(n)
      \/ \E a \in Auth : ClaimVotedOffer(a)
      \/ \E s \in Auth, data \in GovProposals \cup Payments, d \in Nat : Propose(s, data, d)
      \/ \E s \in Auth : \E i : VoteWithId(s, i)
  BY MultiActionAssumption
  DEF Next, vars, AdvanceEpoch, ProposeOffer, ClaimInitialOffer, ProposeGovernance
<1> HIDE DEF Goal
<1>9. Goal
  BY <1>3, <1>4, <1>5, <1>6, <1>7, <1>8
<1>10. QED
  BY <1>9 DEF Goal

(* The threshold of a caged account changes only to one that was voted,    *)
(* when it is voted or when the last candidate claims (vote_governance,    *)
(* claim_offer).                                                           *)
THEOREM ThresholdsNeedVotes == Spec => ThresholdsWereVoted
<1> DEFINE Voted == caged /\ threshold' # threshold => threshold' \in VotedThresholds'
<1>1. Init => WaitingWasVoted
  BY DEF Init, WaitingWasVoted
<1>2. Inv /\ WaitingWasVoted /\ [Next]_vars => WaitingWasVoted' /\ [Voted]_vars
  BY StepThresholds
<1>3. QED
  BY <1>1, <1>2, MultiActionInvariant, PTL DEF Spec, ThresholdsWereVoted
=============================================================================
