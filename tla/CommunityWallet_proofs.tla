----------------------- MODULE CommunityWallet_proofs -----------------------
(***************************************************************************)
(* Proofs about community wallets, on top of the invariant of the          *)
(* multi-action account: the wallet keeps its quorum, and the batches its  *)
(* authorities run report what the chain did and, cut off and run again,   *)
(* vote once for the first payment.                                        *)
(***************************************************************************)
EXTENDS CommunityWallet, CommunityBatch, MultiAction_proofs

(* A threshold that waits for a claim is as large as one that is voted at  *)
(* once: without this a late claim could undercut the minimum.             *)
OfferedIsEnough == caged => offerN = None \/ offerN >= MinSigs

WalletInv ==
    /\ Inv
    /\ WalletStaysQuorate
    /\ OfferedIsEnough

(* A proposal or a repeated one either runs its handler or leaves the      *)
(* authorities alone (vote_impl).                                          *)
LEMMA ProposeEffect ==
  ASSUME Inv, NEW s \in Auth, NEW data \in GovProposals \cup Payments,
         NEW d \in Nat, Propose(s, data, d)
  PROVE  /\ caged /\ caged' = caged
         /\ Execute(data) \/ UNCHANGED <<owners, threshold, offer, offerN>>
<1> DEFINE ps == Proposed(data, epoch + d)
<1>1. PICK i \in PendingWith(ps, data) : Vote(s, i, ps)
  BY DEF Propose
<1>2. ps[i].data = data
  BY DEF PendingWith
<1> HIDE DEF ps
<1>3. QED
  BY <1>1, <1>2 DEF Vote

(* The checks of change_signer_community_multisig, made when the deciding  *)
(* vote is cast, are enough for the handler it runs.                       *)
LEMMA ChangeSignerKeeps ==
  ASSUME WalletInv, caged, NEW g \in GovProposals, NEW a \in Auth,
         g.addrs = <<a>>, g.n \in Nat, g.n >= MinSigs,
         ~g.add => Cardinality(owners) - 1 >= MinAuth,
         caged' = caged, Execute(g)
  PROVE  WalletStaysQuorate' /\ OfferedIsEnough'
<1>1. g \notin Payments /\ g.addrs # <<>> /\ g.n # None
  BY MultiActionAssumption DEF None
<1>2. owners \in SUBSET Auth /\ IsFiniteSet(owners) /\ Cardinality(owners) \in Nat
  BY AuthFinite DEF WalletInv, Inv, TypeOK
<1>3. CASE g.add
  <2>1. /\ offerN' = (IF g.n # None /\ g.n # threshold THEN g.n ELSE offerN)
        /\ owners' = owners /\ threshold' = threshold
    BY <1>1, <1>3 DEF Execute
  <2>2. QED
    BY <1>1, <2>1 DEF WalletInv, WalletStaysQuorate, OfferedIsEnough
<1>4. CASE ~g.add
  <2>1. owners' = owners \ Range(g.addrs) /\ UpdateThreshold(g.n, owners')
    BY <1>1, <1>4 DEF Execute
  <2>2. Range(g.addrs) = {a}
    BY DEF Range
  <2>3. Cardinality(owners \ {a}) \in {Cardinality(owners), Cardinality(owners) - 1}
    BY <1>2, FS_RemoveElement
  <2>4. Cardinality(owners') >= MinAuth
    BY <1>2, <1>4, <2>1, <2>2, <2>3, WalletAssumption
  <2>5. threshold' = g.n /\ offerN' = None
    BY <1>1, <2>1 DEF UpdateThreshold
  <2>6. QED
    BY <2>4, <2>5 DEF WalletStaysQuorate, OfferedIsEnough
<1>5. QED
  BY <1>3, <1>4

(* A late claim adds an authority and may apply the threshold that was     *)
(* voted with it (claim_offer).                                            *)
LEMMA ClaimKeeps ==
  ASSUME WalletInv, NEW a \in Auth, ClaimVotedOffer(a)
  PROVE  WalletStaysQuorate' /\ OfferedIsEnough'
<1>1. /\ caged /\ caged' = caged /\ a \notin owners /\ owners' = owners \cup {a}
      /\ UpdateThreshold(offerN, owners') \/ UNCHANGED <<threshold, offerN>>
  BY DEF ClaimVotedOffer
<1>2. owners \in SUBSET Auth /\ IsFiniteSet(owners) /\ Cardinality(owners) \in Nat
  BY AuthFinite DEF WalletInv, Inv, TypeOK
<1>3. Cardinality(owners') = Cardinality(owners) + 1
  BY <1>1, <1>2, FS_AddElement
<1>4. threshold' >= MinSigs /\ (offerN' = None \/ offerN' = offerN)
  BY <1>1 DEF UpdateThreshold, WalletInv, WalletStaysQuorate, OfferedIsEnough
<1>5. QED
  BY <1>1, <1>2, <1>3, <1>4, WalletAssumption
  DEF WalletInv, WalletStaysQuorate, OfferedIsEnough

(* The wallet's proposals name one signer, so each is a proposal of the    *)
(* multi-action account.                                                   *)
LEMMA OneSigner ==
  ASSUME NEW g \in GovProposals
  PROVE  /\ [add |-> g.add, addrs |-> <<Head(g.addrs)>>, n |-> g.n] = g
         /\ g.addrs = <<Head(g.addrs)>> /\ Head(g.addrs) \in Auth
         /\ g.n \in Thresholds
<1>1. g \in GovData /\ Len(g.addrs) = 1
  BY MultiActionAssumption, WalletAssumption
<1>2. g.addrs \in Seq(Auth) /\ g.n \in Thresholds
  BY <1>1 DEF GovData
<1>3. g.addrs = <<Head(g.addrs)>> /\ Head(g.addrs) \in Auth
  BY <1>1, <1>2
<1>4. QED
  BY <1>1, <1>2, <1>3 DEF GovData

(* Every transaction on the wallet keeps its invariant.                    *)
LEMMA WalletNextKeeps ==
  ASSUME WalletInv, [WalletNext]_vars
  PROVE  WalletInv'
<1>0. Inv
  BY DEF WalletInv
<1>1. CASE UNCHANGED vars
  <2>1. Inv'
    BY <1>0, <1>1, NextInv
  <2>2. QED
    BY <1>1, <2>1 DEF vars, WalletInv, WalletStaysQuorate, OfferedIsEnough
<1>2. CASE epoch < MaxEpoch /\ AdvanceEpoch
  <2>1. Inv'
    BY <1>0, <1>2, NextInv DEF Next
  <2>2. QED
    BY <1>2, <2>1 DEF AdvanceEpoch, WalletInv, WalletStaysQuorate, OfferedIsEnough
<1>3. CASE \E new \in OfferLists, n \in 1 .. Cardinality(Auth) : WalletOffer(new, n)
  <2>1. PICK new \in OfferLists : ProposeOffer(new, OfferDuration)
    BY <1>3 DEF WalletOffer
  <2>2. Inv'
    BY <1>0, <2>1, ProposeOfferInv, MultiActionAssumption
  <2>3. ~caged'
    BY <2>1 DEF ProposeOffer
  <2>4. QED
    BY <2>2, <2>3 DEF WalletInv, WalletStaysQuorate, OfferedIsEnough
<1>4. CASE \E a \in Auth : ClaimInitialOffer(a)
  <2>1. PICK a \in Auth : ClaimInitialOffer(a)
    BY <1>4
  <2>2. ~caged'
    BY <2>1 DEF ClaimInitialOffer
  <2>3. QED
    BY <1>0, <2>1, <2>2, ClaimInitialOfferInv DEF WalletInv, WalletStaysQuorate, OfferedIsEnough
<1>5. CASE \E n \in 1 .. Cardinality(Auth) : WalletFinalize(n)
  <2>1. PICK n \in 1 .. Cardinality(Auth) : WalletFinalize(n)
    BY <1>5
  <2>2. n \in Nat /\ FinalizeAndCage(n) /\ MultisigThresh(n, Cardinality(owners'))
    BY <2>1, AuthFinite DEF WalletFinalize
  <2>3. Inv'
    BY <1>0, <2>2, FinalizeInv
  <2>4. threshold' = n /\ offerN' = None
    BY <2>2 DEF FinalizeAndCage
  <2>5. QED
    BY <2>2, <2>3, <2>4 DEF MultisigThresh, WalletInv, WalletStaysQuorate, OfferedIsEnough
<1>6. CASE \E a \in Auth : ClaimVotedOffer(a)
  BY <1>0, <1>6, ClaimVotedOfferInv, ClaimKeeps DEF WalletInv
<1>7. CASE \E s \in Auth, g \in GovProposals, d \in Durations :
             ChangeSigner(s, Head(g.addrs), g.add, g.n, d) /\ Len(props') <= MaxProposals
  <2>1. PICK s \in Auth, g \in GovProposals, d \in Durations :
             ChangeSigner(s, Head(g.addrs), g.add, g.n, d)
    BY <1>7
  <2>2. /\ g.n >= MinSigs /\ (~g.add => Cardinality(owners) - 1 >= MinAuth)
        /\ Propose(s, g, d) /\ d \in Nat
    BY <2>1, OneSigner, MultiActionAssumption DEF ChangeSigner, ProposeGovernance
  <2>3. Inv'
    BY <1>0, <2>2, ProposeInv
  <2>4. /\ caged /\ caged' = caged
        /\ Execute(g) \/ UNCHANGED <<owners, threshold, offer, offerN>>
    BY <1>0, <2>2, ProposeEffect
  <2>5. g.n \in Nat
    BY <2>2, OneSigner, WalletAssumption DEF Thresholds, None
  <2>6. CASE Execute(g)
    BY <2>2, <2>3, <2>4, <2>5, <2>6, OneSigner, ChangeSignerKeeps DEF WalletInv
  <2>7. CASE UNCHANGED <<owners, threshold, offer, offerN>>
    BY <2>3, <2>4, <2>7 DEF WalletInv, WalletStaysQuorate, OfferedIsEnough
  <2>8. QED
    BY <2>4, <2>6, <2>7
<1>8. CASE \E s \in Auth, p \in Payments :
             Propose(s, p, DefaultDuration) /\ Len(props') <= MaxProposals
  <2>1. PICK s \in Auth, p \in Payments : Propose(s, p, DefaultDuration)
    BY <1>8
  <2>2. Inv'
    BY <1>0, <2>1, ProposeInv, WalletAssumption
  <2>3. caged' = caged /\ UNCHANGED <<owners, threshold, offerN>>
    BY <1>0, <2>1, ProposeEffect, WalletAssumption DEF Execute
  <2>4. QED
    BY <2>2, <2>3 DEF WalletInv, WalletStaysQuorate, OfferedIsEnough
<1>9. QED
  BY <1>1, <1>2, <1>3, <1>4, <1>5, <1>6, <1>7, <1>8 DEF WalletNext

(* A community wallet never falls below the threshold and the number of    *)
(* authorities that finalize_and_cage demanded, for any minima, relatives, *)
(* proposals and delays between a vote and a claim.                        *)
THEOREM WalletAlwaysQuorate == WalletSpec => []WalletStaysQuorate
<1>1. Init => WalletInv
  <2> SUFFICES ASSUME Init
               PROVE  WalletInv
    OBVIOUS
  <2>1. ~caged
    BY Zenon DEF Init
  <2>2. QED
    BY <2>1, InitInv DEF WalletInv, WalletStaysQuorate, OfferedIsEnough
<1>2. WalletInv /\ [WalletNext]_vars => WalletInv'
  BY WalletNextKeeps
<1>3. WalletInv => WalletStaysQuorate
  BY DEF WalletInv
<1>4. QED
  BY <1>1, <1>2, <1>3, PTL DEF WalletSpec

-----------------------------------------------------------------------------
(* The batch tool. What it knows is kept per authority; the parts of the   *)
(* invariant take the values of the variables, so that what another        *)
(* authority does preserves them at once.                                  *)

(* A running batch: one transaction at most is waited for, and it is the   *)
(* one of the payment in turn. Before the first payment is sent the Sender *)
(* is not ahead of the chain.                                              *)
Tools == [pc : {"off", "connected", "working", "waiting"}, list : Lists \cup {<<>>},
          at : 1 .. Len(Batch) + 1, ahead : -(MaxAhead + 1) .. MaxAhead + 1,
          tx : SUBSET Txs, result : {"none", "ok", "failed"}]

ToolSound(t) ==
    /\ t \in Tools
    /\ t.pc = "off" => t = Off
    /\ t.pc = "connected" => t.at = 1
    /\ t.pc \in {"connected", "working"} /\ t.at = 1 => t.ahead <= 0
    /\ t.pc \in {"working", "waiting"} => t.list \in Lists
    /\ t.pc = "waiting" => /\ t.at <= Len(Batch)
                           /\ \E x \in Txs : t.tx = {x} /\ x.pay = Batch[t.at]
    /\ t.pc # "waiting" => t.tx = {} /\ t.result = "none"

(* The transactions that may still execute are of payments of the file,    *)
(* and not far ahead of the Sender.                                        *)
PoolSound(pool, t) ==
    /\ pool \subseteq Txs
    /\ \A x \in pool : /\ x.n >= 0
                       /\ x.pay \in Range(Batch)
                       /\ t.pc # "off" => x.n <= t.ahead + MaxAhead

(* What the ballots say of a payment.                                      *)
HasBallot(ps, pay) == \E i \in DOMAIN ps : ps[i].data = pay

HasApproved(ps, pay) == \E i \in DOMAIN ps : ps[i].data = pay /\ ps[i].status = "approved"

(* What a list reports of its payments is true of the ballots.             *)
Backed(l, ps) ==
    \A k \in DOMAIN Batch : /\ l[k].proposed = "yes" => HasBallot(ps, Batch[k])
                            /\ l[k].approved => HasApproved(ps, Batch[k])

(* One authority's file, batch and transactions.                           *)
AgentSound(f, t, pool, ps) ==
    /\ f \in Lists /\ Backed(f, ps)
    /\ ToolSound(t) /\ PoolSound(pool, t)
    /\ t.pc \in {"working", "waiting"} => Backed(t.list, ps)
    /\ t.result = "ok" => HasBallot(ps, Batch[t.at])

(* The ballots are of payments of the file, and an approved one has the    *)
(* signatures it needs.                                                    *)
BallotsSound(ps) ==
    \A i \in DOMAIN ps : /\ ps[i].data \in Range(Batch)
                         /\ ps[i].status = "approved" => Cardinality(ps[i].votes) >= Sigs

ChainSound == Inv /\ caged /\ threshold = Sigs /\ BallotsSound(props)

Facts ==
    /\ Batch \in Seq(Payments) /\ Distinct(Batch)
    /\ Len(Batch) \in Nat /\ DOMAIN Batch = 1 .. Len(Batch)
    /\ MaxAhead \in Nat /\ MaxFaults \in Nat /\ PayDuration \in Nat

(* What is assumed of the constants.                                       *)
LEMMA BatchFacts == Facts
<1>1. Batch \in Seq(Payments)
  BY BatchAssumption
<1>2. Len(Batch) \in Nat /\ DOMAIN Batch = 1 .. Len(Batch)
  BY <1>1, LenProperties
<1>3. QED
  BY <1>1, <1>2, BatchAssumption DEF Facts

(* A tool record, field by field.                                          *)
LEMMA ToolFields ==
  ASSUME NEW t \in Tools
  PROVE  /\ t = [pc |-> t.pc, list |-> t.list, at |-> t.at, ahead |-> t.ahead,
                 tx |-> t.tx, result |-> t.result]
         /\ t.at \in 1 .. Len(Batch) + 1
         /\ t.ahead \in -(MaxAhead + 1) .. MaxAhead + 1
         /\ t.tx \subseteq Txs
         /\ t.list \in Lists \cup {<<>>}
         /\ t.pc \in {"off", "connected", "working", "waiting"}
         /\ t.result \in {"none", "ok", "failed"}
         /\ t.at \in Nat /\ t.ahead \in Int
  BY BatchFacts DEF Tools, Facts

(* No batch is running.                                                    *)
LEMMA OffSound == ToolSound(Off) /\ Off.pc = "off" /\ Off.result = "none"
<1>1. Off = [pc |-> "off", list |-> <<>>, at |-> 1, ahead |-> 0, tx |-> {}, result |-> "none"]
  BY DEF Off
<1>2. Off \in Tools
  BY <1>1, BatchFacts DEF Tools, Facts
<1>3. QED
  BY <1>1, <1>2 DEF ToolSound

(* The entry in turn is recorded and the next payment is taken.            *)
LEMMA RecordedSound ==
  ASSUME NEW t, ToolSound(t), t.pc \in {"working", "waiting"}, t.at <= Len(Batch),
         NEW e \in Entries
  PROVE  LET r == Recorded(t, e)
         IN  /\ ToolSound(r) /\ r.pc = "working" /\ r.at = t.at + 1
             /\ r.list = [t.list EXCEPT ![t.at] = e] /\ r.ahead = t.ahead
             /\ r.result = "none"
<1> DEFINE r == Recorded(t, e)
<1>1. t \in Tools /\ t.list \in Lists
  BY DEF ToolSound
<1>2. r = [pc |-> "working", list |-> [t.list EXCEPT ![t.at] = e], at |-> t.at + 1,
           ahead |-> t.ahead, tx |-> {}, result |-> "none"]
  <2>1. r = [t EXCEPT !.pc = "working", !.list = [t.list EXCEPT ![t.at] = e],
                      !.at = t.at + 1, !.tx = {}, !.result = "none"]
    BY DEF Recorded
  <2>2. t = [pc |-> t.pc, list |-> t.list, at |-> t.at, ahead |-> t.ahead,
             tx |-> t.tx, result |-> t.result]
    BY <1>1, ToolFields
  <2> DEFINE l == [t.list EXCEPT ![t.at] = e]
             n == t.at + 1
  <2> HIDE DEF r, l, n
  <2>3. r = [t EXCEPT !.pc = "working", !.list = l, !.at = n, !.tx = {}, !.result = "none"]
    BY <2>1 DEF l, n
  <2>4. r = [pc |-> "working", list |-> l, at |-> n, ahead |-> t.ahead, tx |-> {},
             result |-> "none"]
    BY <2>2, <2>3, Zenon
  <2>5. QED
    BY <2>4 DEF l, n
<1> HIDE DEF r
<1>3. t.at \in Nat /\ t.at >= 1 /\ t.at + 1 \in 1 .. Len(Batch) + 1 /\ t.at \in DOMAIN Batch
  BY <1>1, ToolFields, BatchFacts DEF Facts
<1>4. [t.list EXCEPT ![t.at] = e] \in Lists
  BY <1>1, <1>3 DEF Lists
<1>5. r \in Tools
  BY <1>1, <1>2, <1>3, <1>4, ToolFields DEF Tools
<1>6. QED
  BY <1>2, <1>3, <1>4, <1>5 DEF ToolSound, r

(* What is left in the mempool was behind the number that is used.         *)
LEMMA ConsumedPool ==
  ASSUME NEW pool \in SUBSET Txs
  PROVE  \A y \in Consumed(pool) :
           \E x \in pool : x.n > 0 /\ y = [n |-> x.n - 1, pay |-> x.pay]
<1> SUFFICES ASSUME NEW x \in pool, x.n > 0
             PROVE  [x EXCEPT !.n = @ - 1] = [n |-> x.n - 1, pay |-> x.pay]
  BY DEF Consumed
<1>1. x = [n |-> x.n, pay |-> x.pay]
  BY DEF Txs
<1>2. QED
  BY <1>1

(* A number of the account is used.                                        *)
LEMMA ConsumedSound ==
  ASSUME NEW t, ToolSound(t), NEW pool, PoolSound(pool, t),
         t.pc = "off" \/ t.ahead >= -MaxAhead
  PROVE  LET r == AfterConsumed(t)
         IN  /\ ToolSound(r) /\ PoolSound(Consumed(pool), r)
             /\ r.pc = t.pc /\ r.at = t.at /\ r.list = t.list /\ r.result = t.result
             /\ r.pc # "off" => r.ahead = t.ahead - 1
<1> DEFINE r == AfterConsumed(t)
           moved(x) == [x EXCEPT !.n = Behind(@)]
           txs == {moved(u) : u \in t.tx}
<1>1. t \in Tools
  BY DEF ToolSound
<1>2. r = [pc |-> t.pc, list |-> t.list, at |-> t.at,
           ahead |-> IF t.pc = "off" THEN 0 ELSE t.ahead - 1, tx |-> txs,
           result |-> t.result]
  <2>1. r = [t EXCEPT !.ahead = IF t.pc = "off" THEN 0 ELSE t.ahead - 1, !.tx = txs]
    BY DEF AfterConsumed
  <2>2. t = [pc |-> t.pc, list |-> t.list, at |-> t.at, ahead |-> t.ahead,
             tx |-> t.tx, result |-> t.result]
    BY <1>1, ToolFields
  <2> DEFINE n == IF t.pc = "off" THEN 0 ELSE t.ahead - 1
  <2> HIDE DEF r, txs, n
  <2>3. r = [t EXCEPT !.ahead = n, !.tx = txs]
    BY <2>1 DEF n
  <2>4. r = [pc |-> t.pc, list |-> t.list, at |-> t.at, ahead |-> n, tx |-> txs,
             result |-> t.result]
    BY <2>2, <2>3
  <2>5. QED
    BY <2>4 DEF n
<1> HIDE DEF r
<1>3. \A x \in Txs : moved(x) \in Txs /\ moved(x).pay = x.pay
  <2> SUFFICES ASSUME NEW x \in Txs PROVE moved(x) \in Txs /\ moved(x).pay = x.pay
    OBVIOUS
  <2>1. x = [n |-> x.n, pay |-> x.pay] /\ x.n \in -1 .. MaxAhead /\ x.pay \in Payments
    BY DEF Txs
  <2>2. moved(x) = [n |-> Behind(x.n), pay |-> x.pay]
    BY <2>1
  <2>3. Behind(x.n) \in -1 .. MaxAhead
    BY <2>1, BatchFacts DEF Behind, Facts
  <2>4. QED
    BY <2>1, <2>2, <2>3 DEF Txs
<1> HIDE DEF moved
<1>4. txs \subseteq Txs
  BY <1>1, <1>3, ToolFields
<1>5. t.tx = {} => txs = {}
  OBVIOUS
<1>6. \A x \in Txs : t.tx = {x} => txs = {moved(x)}
  OBVIOUS
<1> HIDE DEF txs
<1>7. (IF t.pc = "off" THEN 0 ELSE t.ahead - 1) \in -(MaxAhead + 1) .. MaxAhead + 1
  BY <1>1, ToolFields, BatchFacts DEF Facts
<1>8. r \in Tools
  BY <1>1, <1>2, <1>4, <1>7, ToolFields DEF Tools
<1>9. r.pc = "off" => r = Off
  <2> SUFFICES ASSUME r.pc = "off" PROVE r = Off
    OBVIOUS
  <2>1. t.pc = "off"
    BY <1>2
  <2>2. t = Off
    BY <2>1 DEF ToolSound
  <2>3. /\ t.list = <<>> /\ t.at = 1 /\ t.tx = {} /\ t.result = "none"
    BY <2>2 DEF Off
  <2>4. QED
    BY <1>2, <1>5, <2>1, <2>3 DEF Off
<1>10. t.pc = "waiting" => \E x \in Txs : txs = {x} /\ x.pay = Batch[t.at]
  <2> SUFFICES ASSUME t.pc = "waiting" PROVE \E x \in Txs : txs = {x} /\ x.pay = Batch[t.at]
    OBVIOUS
  <2>1. PICK x \in Txs : t.tx = {x} /\ x.pay = Batch[t.at]
    BY DEF ToolSound
  <2>2. QED
    BY <1>3, <1>6, <2>1
<1>11. r.pc \in {"connected", "working"} /\ r.at = 1 => r.ahead <= 0
  <2>1. t.ahead \in Int
    BY <1>1, ToolFields
  <2>2. t.pc \in {"connected", "working"} /\ t.at = 1 => t.ahead <= 0
    BY DEF ToolSound
  <2>3. QED
    BY <1>2, <2>1, <2>2
<1>12. ToolSound(r)
  BY <1>2, <1>5, <1>8, <1>9, <1>10, <1>11 DEF ToolSound
<1>13. \A y \in Consumed(pool) :
         \E x \in pool : x.n > 0 /\ y = [n |-> x.n - 1, pay |-> x.pay]
  BY ConsumedPool DEF PoolSound
<1>14. PoolSound(Consumed(pool), r)
  <2> SUFFICES ASSUME NEW y \in Consumed(pool)
               PROVE  /\ y \in Txs /\ y.n >= 0 /\ y.pay \in Range(Batch)
                      /\ r.pc # "off" => y.n <= r.ahead + MaxAhead
    BY DEF PoolSound
  <2>1. PICK x \in pool : x.n > 0 /\ y = [n |-> x.n - 1, pay |-> x.pay]
    BY <1>13
  <2>2. /\ x \in Txs /\ x.pay \in Range(Batch)
        /\ t.pc # "off" => x.n <= t.ahead + MaxAhead
    BY DEF PoolSound
  <2>3. x.n \in -1 .. MaxAhead /\ x.pay \in Payments /\ MaxAhead \in Nat /\ t.ahead \in Int
    BY <1>1, <2>2, ToolFields, BatchFacts DEF Txs, Facts
  <2>4. y.n = x.n - 1 /\ y.pay = x.pay
    BY <2>1
  <2>5. y \in Txs
    BY <2>1, <2>3 DEF Txs
  <2>6. r.pc # "off" => y.n <= r.ahead + MaxAhead
    BY <1>2, <2>2, <2>3, <2>4
  <2>7. QED
    BY <2>1, <2>2, <2>3, <2>4, <2>5, <2>6
<1>15. QED
  BY <1>2, <1>12, <1>14 DEF r

(* A vote of `a` for the first payment that counts or may still count.     *)
Live(ps, i, a) ==
    /\ ps[i].data = Batch[1]
    /\ ps[i].status # "rejected"
    /\ a \in ps[i].votes

VotedOnce(ps, a) == \A i, j \in DOMAIN ps : Live(ps, i, a) /\ Live(ps, j, a) => i = j

(* `a` may vote: it has no live vote, or the payment was approved without  *)
(* it, and then what it voted for never is.                                *)
MayVote(ps, a) ==
    \/ \A i \in DOMAIN ps : ~Live(ps, i, a)
    \/ \E i \in DOMAIN ps : /\ ps[i].data = Batch[1] /\ ps[i].status = "approved"
                            /\ a \notin ps[i].votes

(* Transactions for the first payment, in flight or about to be signed.    *)
VoteSound(t, pool, ps, a) ==
    /\ VotedOnce(ps, a)
    /\ \A x \in pool : x.pay = Batch[1] => x.n = 0 /\ MayVote(ps, a)
    /\ t.pc = "working" /\ t.at = 1 /\ t.ahead = 0 /\ Len(Batch) > 0
         => a \in t.list[1].voters \/ MayVote(ps, a)

(* The ballots are kept by recipient: no other payment of the file goes to *)
(* the recipient of the first one.                                         *)
FirstPayeeOnce == \A k \in DOMAIN Batch : Batch[k].payee = Batch[1].payee => k = 1

(* What holds of one authority, and of the whole. The votes for the first  *)
(* payment are counted when the file has no other for its recipient.       *)
AgentInv(f, t, pool, ps, a) ==
    /\ AgentSound(f, t, pool, ps)
    /\ FirstPayeeOnce => VoteSound(t, pool, ps, a)

BatchInv ==
    /\ ChainSound
    /\ faults \in 0 .. MaxFaults
    /\ file = [a \in Auth |-> file[a]]
    /\ tool = [a \in Auth |-> tool[a]]
    /\ mempool = [a \in Auth |-> mempool[a]]
    /\ \A a \in Auth : AgentInv(file[a], tool[a], mempool[a], props, a)

-----------------------------------------------------------------------------
(* `a` votes for `pay` in ballot `i` of `qs`, the ballots that `ps` become: *)
(* an open one of `ps`, or a new one. The others are at most closed as     *)
(* expired, and no other one of the payment stays open.                    *)
VotesIn(a, pay, i, ps, qs) ==
    /\ i \in DOMAIN qs
    /\ DOMAIN ps \subseteq DOMAIN qs
    /\ qs[i].data = pay
    /\ qs[i].status = "approved" => Cardinality(qs[i].votes) >= Sigs
    /\ \/ /\ i \in DOMAIN ps
          /\ ps[i].data = pay /\ ps[i].status = "pending"
          /\ a \notin ps[i].votes /\ qs[i].votes = ps[i].votes \cup {a}
       \/ i \notin DOMAIN ps /\ qs[i].votes = {a}
    /\ \A j \in DOMAIN qs \ {i} :
          /\ j \in DOMAIN ps
          /\ qs[j].data = ps[j].data /\ qs[j].votes = ps[j].votes
          /\ qs[j].status = ps[j].status \/ qs[j].status = "rejected"
          /\ ps[j].status # "pending" => qs[j].status = ps[j].status
          /\ qs[j].data = pay => qs[j].status # "pending"

(* propose_payment_tx, as the ballots show it.                             *)
LEMMA ProposeVotes ==
  ASSUME ChainSound, NEW a \in Auth, NEW pay \in Payments, Propose(a, pay, PayDuration)
  PROVE  \E i : VotesIn(a, pay, i, props, props')
<1> DEFINE ps == Proposed(pay, epoch + PayDuration)
           cs == CleanedUp(pay)
           new == [data |-> pay, votes |-> {}, exp |-> epoch + PayDuration,
                   status |-> "pending"]
<1>1. Inv /\ threshold = Sigs /\ epoch + PayDuration \in Nat
  BY BatchFacts DEF ChainSound, Inv, TypeOK, Facts
<1>2. Follows(ps, pay) /\ Follows(cs, pay) /\ DOMAIN cs = DOMAIN props
  BY <1>1, ProposedFollows, CleanedUpFollows
<1>3. PICK i \in PendingWith(ps, pay) : Vote(a, i, ps)
  BY DEF Propose
<1>4. i \in DOMAIN ps /\ ps[i].status = "pending" /\ ps[i].data = pay
  BY <1>3 DEF PendingWith
<1>5. \/ ps = cs
      \/ ps = Append(cs, new) /\ PendingWith(cs, pay) = {}
  BY DEF Proposed
<1>6. \A j \in DOMAIN props :
        /\ j \in DOMAIN ps /\ ps[j].data = props[j].data /\ ps[j].votes = props[j].votes
        /\ props[j].status # "pending" => ps[j] = props[j]
        /\ props[j].status = "pending" => ps[j].status # "approved"
  <2> HIDE DEF ps
  <2> QED
    BY <1>2 DEF Follows
<1>7. \A j \in DOMAIN ps : j \notin DOMAIN props => ps[j] = new
  <2> HIDE DEF new
  <2>1. cs \in Seq(Proposals)
    <3> HIDE DEF cs
    <3> QED
      BY <1>2 DEF Follows
  <2> HIDE DEF cs, ps
  <2>2. QED
    BY <1>2, <1>5, <2>1
<1>8. \A j \in DOMAIN ps : ps[j].status \in Statuses
  <2> HIDE DEF ps
  <2>1. ps \in Seq(Proposals)
    BY <1>2 DEF Follows
  <2>2. \A j \in DOMAIN ps : ps[j] \in Proposals
    BY <2>1
  <2>3. QED
    BY <2>2 DEF Proposals
<1>9. \A j \in DOMAIN ps : ps[j].status = "pending" /\ ps[j].data = pay => j = i
  <2> HIDE DEF ps
  <2> QED
    BY <1>2, <1>4 DEF Follows, OneOpenIn
<1>10. /\ DOMAIN props' = DOMAIN ps
       /\ \A j \in DOMAIN ps : j # i => props'[j] = ps[j]
       /\ props'[i].data = ps[i].data
       /\ props'[i].votes = ps[i].votes \cup {a} /\ a \notin ps[i].votes
  <2> HIDE DEF ps
  <2> QED
    BY <1>1, <1>2, <1>3, VoteOnProposals
<1>11. props'[i].status = "approved" => Cardinality(props'[i].votes) >= Sigs
  <2> DEFINE votes == ps[i].votes \cup {a}
             status == IF Cardinality(votes) >= threshold THEN "approved" ELSE "pending"
  <2>1. props' = [ps EXCEPT ![i].votes = votes, ![i].status = status]
    BY <1>3 DEF Vote
  <2>2. ps \in Seq(Proposals)
    <3> HIDE DEF ps
    <3> QED
      BY <1>2 DEF Follows
  <2> HIDE DEF ps, status
  <2>3. ps[i] \in Proposals
    BY <1>4, <2>2
  <2>4. props'[i].status = status
    BY <1>4, <2>1, <2>2, <2>3 DEF Proposals
  <2>5. QED
    BY <1>1, <1>10, <2>4 DEF status
<1> HIDE DEF ps, cs
<1>12. \/ /\ i \in DOMAIN props
          /\ props[i].data = pay /\ props[i].status = "pending"
          /\ a \notin props[i].votes /\ props'[i].votes = props[i].votes \cup {a}
       \/ i \notin DOMAIN props /\ props'[i].votes = {a}
  <2>1. CASE i \in DOMAIN props
    BY <1>4, <1>6, <1>10, <2>1
  <2>2. CASE i \notin DOMAIN props
    <3>1. ps[i].votes = {}
      BY <1>4, <1>7, <2>2
    <3>2. QED
      BY <1>10, <2>2, <3>1
  <2>3. QED
    BY <2>1, <2>2
<1>13. ASSUME NEW j \in DOMAIN props' \ {i}
       PROVE  /\ j \in DOMAIN props
              /\ props'[j].data = props[j].data /\ props'[j].votes = props[j].votes
              /\ props'[j].status = props[j].status \/ props'[j].status = "rejected"
              /\ props[j].status # "pending" => props'[j].status = props[j].status
              /\ props'[j].data = pay => props'[j].status # "pending"
  <2>1. j \in DOMAIN ps /\ props'[j] = ps[j]
    BY <1>10, <1>13
  <2>2. j \in DOMAIN props
    BY <1>7, <1>9, <1>13, <2>1
  <2>3. QED
    BY <1>6, <1>8, <1>9, <1>13, <2>1, <2>2 DEF Statuses
<1>14. DOMAIN props \subseteq DOMAIN props' /\ i \in DOMAIN props' /\ props'[i].data = pay
  BY <1>4, <1>6, <1>10
<1>15. VotesIn(a, pay, i, props, props')
  BY <1>11, <1>12, <1>13, <1>14 DEF VotesIn
<1>16. QED
  BY <1>15

(* Ballots are never dropped and an approved one stays approved, so what   *)
(* was reported stays true.                                                *)
LEMMA ReportsStay ==
  ASSUME NEW ps, NEW qs, NEW a, NEW pay, NEW i, VotesIn(a, pay, i, ps, qs)
  PROVE  /\ HasBallot(qs, pay)
         /\ \A x : HasBallot(ps, x) => HasBallot(qs, x)
         /\ \A x : HasApproved(ps, x) => HasApproved(qs, x)
         /\ \A l : Backed(l, ps) => Backed(l, qs)
         /\ \A f, t, pool : AgentSound(f, t, pool, ps) => AgentSound(f, t, pool, qs)
<1>1. \A j \in DOMAIN ps : /\ j \in DOMAIN qs /\ qs[j].data = ps[j].data
                           /\ ps[j].status = "approved" => qs[j].status = "approved"
  BY DEF VotesIn
<1>2. HasBallot(qs, pay)
  BY DEF VotesIn, HasBallot
<1>3. \A x : HasBallot(ps, x) => HasBallot(qs, x)
  BY <1>1 DEF HasBallot
<1>4. \A x : HasApproved(ps, x) => HasApproved(qs, x)
  BY <1>1 DEF HasApproved
<1>5. \A l : Backed(l, ps) => Backed(l, qs)
  BY <1>3, <1>4 DEF Backed
<1>6. \A f, t, pool : AgentSound(f, t, pool, ps) => AgentSound(f, t, pool, qs)
  BY <1>3, <1>5 DEF AgentSound
<1>7. QED
  BY <1>2, <1>3, <1>4, <1>5, <1>6

(* The ballots stay those of the file.                                     *)
LEMMA BallotsStaySound ==
  ASSUME NEW ps, NEW qs, NEW a, NEW pay \in Range(Batch), NEW i,
         VotesIn(a, pay, i, ps, qs), BallotsSound(ps)
  PROVE  BallotsSound(qs)
<1> SUFFICES ASSUME NEW j \in DOMAIN qs
             PROVE  /\ qs[j].data \in Range(Batch)
                    /\ qs[j].status = "approved" => Cardinality(qs[j].votes) >= Sigs
  BY DEF BallotsSound
<1>1. CASE j = i
  BY <1>1 DEF VotesIn
<1>2. CASE j # i
  BY <1>2 DEF VotesIn, BallotsSound
<1>3. QED
  BY <1>1, <1>2

(* The votes of the others stay theirs: only the one who votes adds one.   *)
LEMMA OthersVotes ==
  ASSUME NEW ps, NEW qs, NEW a, NEW pay, NEW i, VotesIn(a, pay, i, ps, qs),
         NEW b, b # a
  PROVE  /\ VotedOnce(ps, b) => VotedOnce(qs, b)
         /\ MayVote(ps, b) => MayVote(qs, b)
<1>1. \A j \in DOMAIN qs : Live(qs, j, b) => j \in DOMAIN ps /\ Live(ps, j, b)
  <2> SUFFICES ASSUME NEW j \in DOMAIN qs, Live(qs, j, b)
               PROVE  j \in DOMAIN ps /\ Live(ps, j, b)
    OBVIOUS
  <2>1. CASE j = i
    BY <2>1 DEF VotesIn, Live
  <2>2. CASE j # i
    BY <2>2 DEF VotesIn, Live
  <2>3. QED
    BY <2>1, <2>2
<1>2. VotedOnce(ps, b) => VotedOnce(qs, b)
  BY <1>1 DEF VotedOnce
<1>3. \A j \in DOMAIN ps : ps[j].status = "approved" =>
        /\ j \in DOMAIN qs /\ qs[j].data = ps[j].data /\ qs[j].votes = ps[j].votes
        /\ qs[j].status = "approved"
  <2> SUFFICES ASSUME NEW j \in DOMAIN ps, ps[j].status = "approved"
               PROVE  /\ j \in DOMAIN qs /\ qs[j].data = ps[j].data
                      /\ qs[j].votes = ps[j].votes /\ qs[j].status = "approved"
    OBVIOUS
  <2>1. j # i
    BY DEF VotesIn
  <2>2. QED
    BY <2>1 DEF VotesIn
<1>4. MayVote(ps, b) => MayVote(qs, b)
  BY <1>1, <1>3 DEF MayVote
<1>5. QED
  BY <1>2, <1>4

(* Two approved ballots of the first payment would have a voter in common. *)
LEMMA OneApproval ==
  ASSUME NEW ps \in Seq(Proposals), BallotsSound(ps), \A c \in Auth : VotedOnce(ps, c),
         NEW i \in DOMAIN ps, NEW j \in DOMAIN ps,
         ps[i].data = Batch[1], ps[i].status = "approved",
         ps[j].data = Batch[1], ps[j].status = "approved"
  PROVE  i = j
<1> DEFINE v == ps[i].votes
           w == ps[j].votes
<1>1. ps[i] \in Proposals /\ ps[j] \in Proposals
  OBVIOUS
<1>2. v \in SUBSET Auth /\ w \in SUBSET Auth
  BY <1>1 DEF Proposals
<1>3. Cardinality(v) >= Sigs /\ Cardinality(w) >= Sigs
  BY DEF BallotsSound
<1> HIDE DEF v, w
<1>4. Cardinality(v) \in Nat /\ Cardinality(w) \in Nat /\ Cardinality(Auth) \in Nat
  BY <1>2, AuthFinite
<1>5. Cardinality(v) + Cardinality(w) > Cardinality(Auth)
  BY <1>3, <1>4, BatchAssumption
<1>6. v \cap w # {}
  BY <1>2, <1>5, FS_MajoritiesIntersect, MultiActionAssumption
<1>7. PICK c \in Auth : c \in v /\ c \in w
  BY <1>2, <1>6
<1>8. QED
  BY <1>7 DEF VotedOnce, Live, v, w

(* A vote that may be cast is the only live one of its authority.          *)
LEMMA VoterVotesOnce ==
  ASSUME NEW ps \in Seq(Proposals), BallotsSound(ps), \A c \in Auth : VotedOnce(ps, c),
         NEW qs, NEW a \in Auth, NEW pay, NEW i, VotesIn(a, pay, i, ps, qs),
         pay = Batch[1] => MayVote(ps, a)
  PROVE  VotedOnce(qs, a)
<1>1. \A j \in DOMAIN qs : j # i /\ Live(qs, j, a) => j \in DOMAIN ps /\ Live(ps, j, a)
  BY DEF VotesIn, Live
<1>2. CASE pay # Batch[1]
  <2>1. ~Live(qs, i, a)
    BY <1>2 DEF VotesIn, Live
  <2>2. QED
    BY <1>1, <2>1 DEF VotedOnce
<1>3. CASE pay = Batch[1]
  <2> SUFFICES ASSUME NEW j \in DOMAIN qs, j # i, Live(qs, j, a)
               PROVE  FALSE
    <3>1. \A j, k \in DOMAIN qs : Live(qs, j, a) /\ Live(qs, k, a) => j = i /\ k = i
      OBVIOUS
    <3>2. QED
      BY <3>1 DEF VotedOnce
  <2>1. j \in DOMAIN ps /\ Live(ps, j, a)
    BY <1>1
  <2>2. PICK k \in DOMAIN ps : /\ ps[k].data = Batch[1] /\ ps[k].status = "approved"
                               /\ a \notin ps[k].votes
    BY <1>3, <2>1 DEF MayVote
  <2>3. qs[j].data = Batch[1] /\ qs[j].status # "rejected" /\ a \in ps[j].votes
    BY <2>1 DEF Live
  <2>4. qs[j].status = ps[j].status /\ qs[j].status # "pending"
    BY <1>3, <2>3 DEF VotesIn
  <2>5. ps[j].status = "approved" /\ ps[j].data = Batch[1]
    <3>1. ps[j] \in Proposals
      BY <2>1
    <3>2. ps[j].status \in Statuses
      BY <3>1 DEF Proposals
    <3>3. QED
      BY <2>1, <2>3, <2>4, <3>2 DEF Statuses, Live
  <2>6. j = k
    BY <2>1, <2>2, <2>5, OneApproval
  <2>7. QED
    BY <2>2, <2>3, <2>6
<1>4. QED
  BY <1>2, <1>3

(* What an entry reports is true of the ballots.                           *)
EntryBacked(e, pay, ps) ==
    /\ e.proposed = "yes" => HasBallot(ps, pay)
    /\ e.approved => HasApproved(ps, pay)

(* An entry marked from the ballots of its recipient: the amount tells     *)
(* whether the ballot found is the one of the payment.                     *)
LEMMA MarkedSound ==
  ASSUME ChainSound, NEW pay \in Payments, NEW e \in Entries, EntryBacked(e, pay, props),
         NEW m \in Marked(pay, e)
  PROVE  m \in Entries /\ EntryBacked(m, pay, props)
<1>1. CASE m = e
  BY <1>1
<1>2. CASE m # e
  <2>1. PICK i \in Listed(pay.payee) :
           /\ props[i].data.value = pay.value
           /\ m = [proposed |-> "yes", approved |-> props[i].status = "approved",
                   voters |-> props[i].votes]
    BY <1>2 DEF Marked
  <2>2. /\ i \in DOMAIN props /\ props[i].data \in Payments
        /\ props[i].data.payee = pay.payee
    BY <2>1 DEF Listed, IsLast
  <2>3. props[i].data = pay
    <3> DEFINE d == props[i].data
    <3>1. d \in Payments /\ d.value = pay.value /\ d.payee = pay.payee
      BY <2>1, <2>2
    <3> HIDE DEF d
    <3>2. /\ d \in [payee : {p.payee : p \in Payments}, value : Nat]
          /\ pay \in [payee : {p.payee : p \in Payments}, value : Nat]
      BY <3>1, BatchAssumption
    <3>3. d = pay
      BY <3>1, <3>2
    <3>4. QED
      BY <3>3 DEF d
  <2>4. props[i].votes \in SUBSET Auth
    <3>1. props \in Seq(Proposals)
      BY DEF ChainSound, Inv, TypeOK
    <3>2. props[i] \in Proposals
      BY <2>2, <3>1
    <3>3. QED
      BY <3>2 DEF Proposals
  <2>5. m \in Entries
    <3> DEFINE v == props[i].votes
               y == props[i].status = "approved"
    <3>1. v \in SUBSET Auth /\ y \in BOOLEAN
      BY <2>4
    <3>2. m = [proposed |-> "yes", approved |-> y, voters |-> v]
      BY <2>1
    <3> HIDE DEF v, y
    <3>3. QED
      BY <3>1, <3>2 DEF Entries
  <2>6. HasBallot(props, pay)
    BY <2>2, <2>3 DEF HasBallot
  <2>7. props[i].status = "approved" => HasApproved(props, pay)
    BY <2>2, <2>3 DEF HasApproved
  <2>8. m.approved => props[i].status = "approved"
    BY <2>1
  <2>9. QED
    BY <2>5, <2>6, <2>7, <2>8 DEF EntryBacked
<1>3. QED
  BY <1>1, <1>2

(* The list of the file, marked.                                           *)
LEMMA MarkedListSound ==
  ASSUME ChainSound, NEW f \in Lists, Backed(f, props), NEW l \in MarkedLists(f)
  PROVE  /\ l \in Lists /\ Backed(l, props)
         /\ \A k \in DOMAIN Batch : l[k] \in Marked(Batch[k], f[k])
<1>1. \A k \in DOMAIN Batch : l[k] \in Marked(Batch[k], f[k])
  BY DEF MarkedLists
<1>2. ASSUME NEW k \in DOMAIN Batch
      PROVE  l[k] \in Entries /\ EntryBacked(l[k], Batch[k], props)
  <2>1. Batch[k] \in Payments /\ f[k] \in Entries
    BY <1>2, BatchFacts DEF Lists, Facts
  <2>2. EntryBacked(f[k], Batch[k], props)
    BY <1>2 DEF Backed, EntryBacked
  <2>3. QED
    BY <1>1, <1>2, <2>1, <2>2, MarkedSound
<1>3. l = [k \in DOMAIN Batch |-> l[k]]
  BY DEF MarkedLists
<1>4. l \in Lists
  BY <1>2, <1>3 DEF Lists
<1>5. QED
  BY <1>1, <1>2, <1>4 DEF Backed, EntryBacked

(* The ballots that could be found for the first payment are its own, so   *)
(* an authority that is not among the voters of the one found may vote.    *)
LEMMA UnmarkedMayVote ==
  ASSUME ChainSound, FirstPayeeOnce, 1 \in DOMAIN Batch, NEW e, NEW m \in Marked(Batch[1], e),
         NEW a, a \notin m.voters
  PROVE  MayVote(props, a)
<1> DEFINE p == Batch[1].payee
           of(s) == {j \in DOMAIN props : /\ props[j].data \in Payments
                                          /\ props[j].data.payee = p
                                          /\ props[j].status = s}
<1>1. \A i : IsLast(p, i) <=>
         \/ i \in of("approved")
         \/ of("approved") = {} /\ i \in of("pending") /\ \A j \in of("pending") : j <= i
  BY DEF IsLast
<1>2. Batch[1] \in Payments
  BY BatchFacts DEF Facts
<1>3. \A j \in DOMAIN props : props[j].data.payee = p => props[j].data = Batch[1]
  <2> SUFFICES ASSUME NEW j \in DOMAIN props, props[j].data.payee = p
               PROVE  props[j].data = Batch[1]
    OBVIOUS
  <2>1. PICK k \in DOMAIN Batch : props[j].data = Batch[k]
    BY DEF ChainSound, BallotsSound, Range
  <2>2. QED
    BY <2>1 DEF FirstPayeeOnce
<1>4. props \in Seq(Proposals)
  BY DEF ChainSound, Inv, TypeOK
<1>5. \A j \in DOMAIN props : j \in Nat /\ props[j].status \in Statuses
  <2>1. \A j \in DOMAIN props : j \in Nat /\ props[j] \in Proposals
    BY <1>4
  <2>2. QED
    BY <2>1 DEF Proposals
<1>6. \A i, j \in of("pending") : i = j
  BY <1>3 DEF ChainSound, Inv, OneOpenProposalPerData
<1>7. \A s, j : j \in of(s) <=> /\ j \in DOMAIN props
                                /\ props[j].data = Batch[1] /\ props[j].status = s
  BY <1>2, <1>3
<1> HIDE DEF of, p
<1>8. CASE of("approved") = {} /\ \A i \in of("pending") : a \notin props[i].votes
  <2>1. \A i \in DOMAIN props : ~Live(props, i, a)
    BY <1>5, <1>7, <1>8 DEF Live, Statuses
  <2>2. QED
    BY <2>1 DEF MayVote
<1>9. CASE \E i \in of("approved") : a \notin props[i].votes
  BY <1>7, <1>9 DEF MayVote
<1>10. CASE Listed(p) = {}
  <2>1. \A i : i \in DOMAIN props => ~IsLast(p, i)
    BY <1>10 DEF Listed
  <2>2. of("approved") = {}
    BY <1>1, <1>7, <2>1
  <2>3. \A i, j \in of("pending") : j <= i
    BY <1>5, <1>6, <1>7
  <2>4. of("pending") = {}
    BY <1>1, <1>7, <2>1, <2>2, <2>3
  <2>5. QED
    BY <1>8, <2>2, <2>4
<1>11. CASE Listed(p) # {}
  <2>1. PICK i \in Listed(p) :
           props[i].data.value = Batch[1].value => m.voters = props[i].votes
    BY <1>11 DEF Marked, p
  <2>2. i \in DOMAIN props /\ IsLast(p, i)
    BY <2>1 DEF Listed
  <2>3. i \in of("approved") \/ (of("approved") = {} /\ i \in of("pending"))
    BY <1>1, <2>2
  <2>4. a \notin props[i].votes
    BY <1>7, <2>1, <2>3
  <2>5. QED
    BY <1>6, <1>8, <1>9, <2>3, <2>4
<1>12. QED
  BY <1>10, <1>11

-----------------------------------------------------------------------------
(* The steps of one authority's batch, on its own values.                  *)

(* A batch that does not sign for the first payment.                       *)
LEMMA VoteSoundKept ==
  ASSUME NEW t, NEW u, NEW pool, NEW rest \in SUBSET pool, NEW ps, NEW a,
         FirstPayeeOnce => VoteSound(t, pool, ps, a),
         ~(u.pc = "working" /\ u.at = 1 /\ u.ahead = 0)
  PROVE  FirstPayeeOnce => VoteSound(u, rest, ps, a)
  BY DEF VoteSound

(* The payment in turn is done with (Skip, Answered, Expired, Lost).       *)
LEMMA RecordedKeeps ==
  ASSUME NEW f, NEW t, NEW pool, NEW rest \in SUBSET pool, NEW ps, NEW a,
         AgentInv(f, t, pool, ps, a), t.pc \in {"working", "waiting"}, t.at <= Len(Batch),
         NEW e \in Entries, EntryBacked(e, Batch[t.at], ps)
  PROVE  /\ AgentInv(f, Recorded(t, e), rest, ps, a)
         /\ Recorded(t, e).pc = "working" /\ Recorded(t, e).at > 1
<1> DEFINE r == Recorded(t, e)
<1>1. AgentSound(f, t, pool, ps) /\ ToolSound(t) /\ PoolSound(pool, t) /\ t.list \in Lists
  BY DEF AgentInv, AgentSound, ToolSound
<1>2. /\ ToolSound(r) /\ r.pc = "working" /\ r.at = t.at + 1
      /\ r.list = [t.list EXCEPT ![t.at] = e] /\ r.ahead = t.ahead
      /\ r.result = "none"
  BY <1>1, RecordedSound
<1> HIDE DEF r
<1>3. t.at \in Nat /\ t.at >= 1
  BY <1>1, ToolFields, BatchFacts DEF ToolSound, Facts
<1>4. PoolSound(rest, r)
  BY <1>1, <1>2 DEF PoolSound
<1>5. Backed(r.list, ps)
  <2>1. Backed(t.list, ps)
    BY DEF AgentInv, AgentSound
  <2>2. QED
    BY <1>1, <1>2, <2>1 DEF Backed, EntryBacked, Lists
<1>6. AgentSound(f, r, rest, ps)
  BY <1>1, <1>2, <1>4, <1>5 DEF AgentSound
<1>7. FirstPayeeOnce => VoteSound(r, rest, ps, a)
  BY <1>2, <1>3, VoteSoundKept DEF AgentInv
<1>8. QED
  BY <1>2, <1>3, <1>6, <1>7 DEF AgentInv, r

(* A number is stepped over (sign_with_transaction_builder).               *)
LEMMA SteppedOverKeeps ==
  ASSUME NEW f, NEW t, NEW pool, NEW ps, NEW a, AgentInv(f, t, pool, ps, a),
         t.pc = "working", t.at > 1
  PROVE  AgentInv(f, SteppedOver(t), pool, ps, a)
<1> DEFINE n == IF t.ahead <= MaxAhead THEN t.ahead + 1 ELSE t.ahead
           r == [t EXCEPT !.ahead = n]
<1>1. AgentSound(f, t, pool, ps) /\ ToolSound(t) /\ PoolSound(pool, t) /\ t \in Tools
  BY DEF AgentInv, AgentSound, ToolSound
<1>2. n \in -(MaxAhead + 1) .. MaxAhead + 1 /\ n >= t.ahead /\ n \in Int /\ t.ahead \in Int
  BY <1>1, ToolFields, BatchFacts DEF Facts
<1> HIDE DEF n
<1>3. r = [pc |-> t.pc, list |-> t.list, at |-> t.at, ahead |-> n, tx |-> t.tx,
           result |-> t.result]
  BY <1>1, ToolFields
<1>4. r \in Tools
  BY <1>1, <1>2, <1>3, ToolFields DEF Tools
<1> HIDE DEF r
<1>5. ToolSound(r)
  BY <1>1, <1>3, <1>4 DEF ToolSound
<1>6. PoolSound(pool, r)
  <2> SUFFICES ASSUME NEW x \in pool PROVE x.n <= r.ahead + MaxAhead
    BY <1>1, <1>3 DEF PoolSound
  <2>1. x.n <= t.ahead + MaxAhead /\ x.n \in Int /\ MaxAhead \in Nat
    BY <1>1, BatchFacts DEF PoolSound, Txs, Facts
  <2>2. QED
    BY <1>2, <1>3, <2>1
<1>7. AgentSound(f, r, pool, ps)
  BY <1>1, <1>3, <1>5, <1>6 DEF AgentSound
<1>8. FirstPayeeOnce => VoteSound(r, pool, ps, a)
  BY <1>3, VoteSoundKept DEF AgentInv
<1>9. QED
  BY <1>7, <1>8 DEF AgentInv, SteppedOver, n, r

(* The batch ends, by itself or not (Finish, Crash).                       *)
LEMMA OffKeeps ==
  ASSUME NEW f, NEW t, NEW pool, NEW ps, NEW a, AgentInv(f, t, pool, ps, a),
         NEW g \in Lists, Backed(g, ps)
  PROVE  AgentInv(g, Off, pool, ps, a)
<1>1. ToolSound(Off) /\ Off.pc = "off" /\ Off.result = "none"
  BY OffSound
<1>2. PoolSound(pool, Off)
  BY <1>1 DEF AgentInv, AgentSound, PoolSound
<1>3. FirstPayeeOnce => VoteSound(Off, pool, ps, a)
  BY <1>1, VoteSoundKept DEF AgentInv
<1>4. QED
  BY <1>1, <1>2, <1>3 DEF AgentInv, AgentSound

(* Sender::new: what is in flight is at most MaxAhead ahead of the number. *)
LEMMA ConnectKeeps ==
  ASSUME NEW f, NEW t, NEW pool, NEW ps, NEW a, AgentInv(f, t, pool, ps, a)
  PROVE  AgentInv(f, [Off EXCEPT !.pc = "connected"], pool, ps, a)
<1> DEFINE r == [Off EXCEPT !.pc = "connected"]
<1>1. r = [pc |-> "connected", list |-> <<>>, at |-> 1, ahead |-> 0, tx |-> {},
           result |-> "none"]
  BY DEF Off
<1>2. r \in Tools
  BY <1>1, BatchFacts DEF Tools, Facts
<1> HIDE DEF r
<1>3. ToolSound(r)
  BY <1>1, <1>2 DEF ToolSound
<1>4. PoolSound(pool, r)
  <2>1. PoolSound(pool, t)
    BY DEF AgentInv, AgentSound
  <2>2. \A x \in pool : x.n <= MaxAhead /\ x.n \in Int /\ MaxAhead \in Int
    BY <2>1, BatchFacts DEF PoolSound, Txs, Facts
  <2>3. \A x \in pool : x.n <= r.ahead + MaxAhead
    BY <1>1, <2>2
  <2>4. QED
    BY <2>1, <2>3 DEF PoolSound
<1>5. AgentSound(f, r, pool, ps)
  BY <1>1, <1>3, <1>4 DEF AgentInv, AgentSound
<1>6. FirstPayeeOnce => VoteSound(r, pool, ps, a)
  BY <1>1, VoteSoundKept DEF AgentInv
<1>7. QED
  BY <1>5, <1>6 DEF AgentInv, r

(* BatchTx::run reads the ballots after the number was read: an authority  *)
(* whose number is still fresh is among the voters or may vote.            *)
LEMMA FetchKeeps ==
  ASSUME ChainSound, NEW f, NEW t, NEW pool, NEW a, AgentInv(f, t, pool, props, a),
         t.pc = "connected", NEW l \in MarkedLists(f)
  PROVE  AgentInv(f, [t EXCEPT !.pc = "working", !.list = l], pool, props, a)
<1> DEFINE r == [t EXCEPT !.pc = "working", !.list = l]
<1>1. /\ AgentSound(f, t, pool, props) /\ ToolSound(t) /\ PoolSound(pool, t)
      /\ t \in Tools /\ f \in Lists /\ Backed(f, props)
  BY DEF AgentInv, AgentSound, ToolSound
<1>2. r = [pc |-> "working", list |-> l, at |-> t.at, ahead |-> t.ahead, tx |-> t.tx,
           result |-> t.result]
  <2>1. t = [pc |-> t.pc, list |-> t.list, at |-> t.at, ahead |-> t.ahead,
             tx |-> t.tx, result |-> t.result]
    BY <1>1, ToolFields
  <2>2. r = [t EXCEPT !.pc = "working", !.list = l]
    OBVIOUS
  <2> HIDE DEF r
  <2>3. QED
    BY <2>1, <2>2
<1>3. /\ l \in Lists /\ Backed(l, props)
      /\ \A k \in DOMAIN Batch : l[k] \in Marked(Batch[k], f[k])
  BY <1>1, MarkedListSound
<1> HIDE DEF r
<1>4. r \in Tools
  BY <1>1, <1>2, <1>3, ToolFields DEF Tools
<1>5. ToolSound(r)
  BY <1>1, <1>2, <1>3, <1>4 DEF ToolSound
<1>6. PoolSound(pool, r)
  BY <1>1, <1>2 DEF PoolSound
<1>7. AgentSound(f, r, pool, props)
  BY <1>1, <1>2, <1>3, <1>5, <1>6 DEF AgentSound, ToolSound
<1>8. FirstPayeeOnce => VoteSound(r, pool, props, a)
  <2> SUFFICES ASSUME FirstPayeeOnce PROVE VoteSound(r, pool, props, a)
    OBVIOUS
  <2>1. VoteSound(t, pool, props, a)
    BY DEF AgentInv
  <2>2. Len(Batch) > 0 /\ a \notin r.list[1].voters => MayVote(props, a)
    <3> SUFFICES ASSUME Len(Batch) > 0, a \notin l[1].voters PROVE MayVote(props, a)
      BY <1>2
    <3>1. 1 \in DOMAIN Batch
      BY BatchFacts DEF Facts
    <3>2. l[1] \in Marked(Batch[1], f[1])
      BY <1>3, <3>1
    <3>3. QED
      BY <3>1, <3>2, UnmarkedMayVote
  <2>3. QED
    BY <2>1, <2>2 DEF VoteSound
<1>9. QED
  BY <1>7, <1>8 DEF AgentInv, r

(* sign_submit_wait: only a fresh number signs for the first payment, and  *)
(* only for an authority that may vote.                                    *)
LEMMA SendKeeps ==
  ASSUME NEW f, NEW t, NEW pool, NEW ps, NEW a, AgentInv(f, t, pool, ps, a),
         t.pc = "working", t.at <= Len(Batch), a \notin t.list[t.at].voters,
         t.ahead \in 0 .. MaxAhead
  PROVE  LET tx == [n |-> t.ahead, pay |-> Batch[t.at]]
         IN  AgentInv(f, [t EXCEPT !.pc = "waiting", !.tx = {tx}, !.ahead = tx.n + 1],
                      pool \cup {tx}, ps, a)
<1> DEFINE tx == [n |-> t.ahead, pay |-> Batch[t.at]]
           r == [t EXCEPT !.pc = "waiting", !.tx = {tx}, !.ahead = tx.n + 1]
<1>1. /\ AgentSound(f, t, pool, ps) /\ ToolSound(t) /\ PoolSound(pool, t)
      /\ t \in Tools /\ t.list \in Lists
  BY DEF AgentInv, AgentSound, ToolSound
<1>2. /\ t.at \in DOMAIN Batch /\ Batch[t.at] \in Payments /\ Batch[t.at] \in Range(Batch)
      /\ MaxAhead \in Nat /\ t.ahead \in Int /\ t.at \in Nat
  BY <1>1, ToolFields, BatchFacts DEF Facts, Range
<1>3. tx \in Txs /\ tx.n = t.ahead /\ tx.pay = Batch[t.at]
  BY <1>2 DEF Txs
<1> HIDE DEF tx
<1>4. t.ahead + 1 \in -(MaxAhead + 1) .. MaxAhead + 1 /\ t.ahead + 1 \in Int
  BY <1>2
<1>5. r = [pc |-> "waiting", list |-> t.list, at |-> t.at, ahead |-> t.ahead + 1,
           tx |-> {tx}, result |-> t.result]
  <2> DEFINE n == t.ahead + 1
  <2>1. r = [t EXCEPT !.pc = "waiting", !.tx = {tx}, !.ahead = n]
    BY <1>3
  <2> HIDE DEF n, r
  <2>2. t = [pc |-> t.pc, list |-> t.list, at |-> t.at, ahead |-> t.ahead,
             tx |-> t.tx, result |-> t.result]
    BY <1>1, ToolFields
  <2>3. r = [pc |-> "waiting", list |-> t.list, at |-> t.at, ahead |-> n,
             tx |-> {tx}, result |-> t.result]
    BY <2>1, <2>2
  <2>4. QED
    BY <2>3 DEF n
<1> HIDE DEF r
<1>6. r \in Tools
  BY <1>1, <1>3, <1>4, <1>5, ToolFields DEF Tools
<1>7. ToolSound(r)
  BY <1>1, <1>2, <1>3, <1>5, <1>6 DEF ToolSound
<1>8. PoolSound(pool \cup {tx}, r)
  <2> SUFFICES ASSUME NEW x \in pool \cup {tx}
               PROVE  /\ x \in Txs /\ x.n >= 0 /\ x.pay \in Range(Batch)
                      /\ x.n <= r.ahead + MaxAhead
    BY DEF PoolSound
  <2>1. CASE x = tx
    BY <1>2, <1>3, <1>5, <2>1
  <2>2. CASE x \in pool
    <3>1. x \in Txs /\ x.n >= 0 /\ x.pay \in Range(Batch) /\ x.n <= t.ahead + MaxAhead
      BY <1>1, <2>2 DEF PoolSound
    <3>2. x.n \in Int
      BY <3>1, BatchFacts DEF Txs, Facts
    <3>3. QED
      BY <1>2, <1>5, <3>1, <3>2
  <2>3. QED
    BY <2>1, <2>2
<1>9. AgentSound(f, r, pool \cup {tx}, ps)
  <2>1. t.result = "none"
    BY <1>1 DEF ToolSound
  <2>2. QED
    BY <1>1, <1>5, <1>7, <1>8, <2>1 DEF AgentSound
<1>10. FirstPayeeOnce => VoteSound(r, pool \cup {tx}, ps, a)
  <2> SUFFICES ASSUME FirstPayeeOnce PROVE VoteSound(r, pool \cup {tx}, ps, a)
    OBVIOUS
  <2>1. VoteSound(t, pool, ps, a)
    BY DEF AgentInv
  <2>2. tx.pay = Batch[1] => tx.n = 0 /\ MayVote(ps, a)
    <3> SUFFICES ASSUME tx.pay = Batch[1] PROVE tx.n = 0 /\ MayVote(ps, a)
      OBVIOUS
    <3>1. t.at = 1
      <4>1. 1 \in DOMAIN Batch /\ Batch[t.at] = Batch[1]
        BY <1>2, <1>3, BatchFacts DEF Facts
      <4>2. Distinct(Batch)
        BY BatchFacts DEF Facts
      <4>3. QED
        BY <1>2, <4>1, <4>2 DEF Distinct
    <3>2. t.ahead = 0 /\ Len(Batch) > 0
      BY <1>1, <1>2, <3>1, BatchFacts DEF ToolSound, Facts
    <3>3. QED
      BY <1>3, <2>1, <3>1, <3>2 DEF VoteSound
  <2>3. QED
    BY <1>5, <2>1, <2>2 DEF VoteSound
<1>11. QED
  BY <1>9, <1>10 DEF AgentInv, r, tx

(* A number of the account is used: nothing in flight is for the first     *)
(* payment any more, and a batch not past it has a stale number.           *)
LEMMA ConsumedKeeps ==
  ASSUME NEW f, NEW t, NEW pool, NEW ps, NEW qs, NEW a,
         AgentInv(f, t, pool, ps, a), AgentSound(f, t, pool, qs),
         t.pc = "off" \/ t.ahead >= -MaxAhead, FirstPayeeOnce => VotedOnce(qs, a)
  PROVE  LET r == AfterConsumed(t)
         IN  /\ AgentInv(f, r, Consumed(pool), qs, a)
             /\ r.pc = t.pc /\ r.at = t.at /\ r.list = t.list /\ r.result = t.result
<1> DEFINE r == AfterConsumed(t)
<1>1. ToolSound(t) /\ PoolSound(pool, t) /\ t \in Tools
  BY DEF AgentSound, ToolSound
<1>2. /\ ToolSound(r) /\ PoolSound(Consumed(pool), r)
      /\ r.pc = t.pc /\ r.at = t.at /\ r.list = t.list /\ r.result = t.result
      /\ r.pc # "off" => r.ahead = t.ahead - 1
  BY <1>1, ConsumedSound
<1> HIDE DEF r
<1>3. AgentSound(f, r, Consumed(pool), qs)
  BY <1>2 DEF AgentSound
<1>4. FirstPayeeOnce => VoteSound(r, Consumed(pool), qs, a)
  <2> SUFFICES ASSUME FirstPayeeOnce PROVE VoteSound(r, Consumed(pool), qs, a)
    OBVIOUS
  <2>1. ASSUME NEW y \in Consumed(pool) PROVE y.pay # Batch[1]
    <3>1. pool \in SUBSET Txs
      BY <1>1 DEF PoolSound
    <3>2. PICK x \in pool : x.n > 0 /\ y = [n |-> x.n - 1, pay |-> x.pay]
      BY <2>1, <3>1, ConsumedPool
    <3>3. x.pay = Batch[1] => x.n = 0
      BY DEF AgentInv, VoteSound
    <3>4. QED
      BY <3>2, <3>3
  <2>2. ~(r.pc = "working" /\ r.at = 1 /\ r.ahead = 0)
    <3>1. t.pc = "working" /\ t.at = 1 => t.ahead <= 0
      BY <1>1 DEF ToolSound
    <3>2. t.ahead \in Int
      BY <1>1, ToolFields
    <3>3. QED
      BY <1>2, <3>1, <3>2
  <2>3. QED
    BY <2>1, <2>2 DEF VoteSound
<1>5. QED
  BY <1>2, <1>3, <1>4 DEF AgentInv, r

(* The entry in turn, as it is and with what came of its transaction.      *)
LEMMA EntryInTurn ==
  ASSUME NEW f, NEW t, NEW pool, NEW ps, NEW a, AgentInv(f, t, pool, ps, a),
         t.pc = "waiting" \/ (t.pc = "working" /\ t.at <= Len(Batch))
  PROVE  LET e == t.list[t.at]
         IN  /\ t.pc \in {"working", "waiting"} /\ t.at <= Len(Batch)
             /\ e \in Entries /\ EntryBacked(e, Batch[t.at], ps)
             /\ \A s \in {"yes", "no"} :
                   (s = "yes" => t.result = "ok") =>
                      /\ [e EXCEPT !.proposed = s] \in Entries
                      /\ EntryBacked([e EXCEPT !.proposed = s], Batch[t.at], ps)
<1> DEFINE e == t.list[t.at]
<1>1. /\ ToolSound(t) /\ t \in Tools /\ t.pc \in {"working", "waiting"}
      /\ t.at <= Len(Batch) /\ t.list \in Lists /\ Backed(t.list, ps)
      /\ t.result = "ok" => HasBallot(ps, Batch[t.at])
  BY DEF AgentInv, AgentSound, ToolSound
<1>2. t.at \in DOMAIN Batch
  BY <1>1, ToolFields, BatchFacts DEF Facts
<1>3. e \in Entries /\ EntryBacked(e, Batch[t.at], ps)
  BY <1>1, <1>2 DEF Lists, Backed, EntryBacked
<1> HIDE DEF e
<1>4. ASSUME NEW s \in {"yes", "no"}, s = "yes" => t.result = "ok"
      PROVE  /\ [e EXCEPT !.proposed = s] \in Entries
             /\ EntryBacked([e EXCEPT !.proposed = s], Batch[t.at], ps)
  <2> DEFINE m == [e EXCEPT !.proposed = s]
  <2>1. m = [proposed |-> s, approved |-> e.approved, voters |-> e.voters]
    <3>1. e = [proposed |-> e.proposed, approved |-> e.approved, voters |-> e.voters]
      BY <1>3 DEF Entries
    <3>2. m = [e EXCEPT !.proposed = s]
      OBVIOUS
    <3> HIDE DEF m
    <3>3. QED
      BY <3>1, <3>2
  <2>2. e.approved \in BOOLEAN /\ e.voters \in SUBSET Auth
    BY <1>3 DEF Entries
  <2> HIDE DEF m
  <2>3. m \in Entries
    BY <1>4, <2>1, <2>2 DEF Entries
  <2>4. m.proposed = s /\ m.approved = e.approved
    BY <2>1
  <2>5. EntryBacked(m, Batch[t.at], ps)
    BY <1>1, <1>3, <1>4, <2>4 DEF EntryBacked
  <2>6. QED
    BY <2>3, <2>5 DEF m
<1>5. QED
  BY <1>1, <1>3, <1>4 DEF e

-----------------------------------------------------------------------------
(* A step of one authority, put back into the whole.                       *)
LEMMA AgentStep ==
  ASSUME BatchInv, NEW a \in Auth, NEW f, NEW t, NEW pool,
         ChainSound', faults' \in 0 .. MaxFaults,
         file' = [file EXCEPT ![a] = f], tool' = [tool EXCEPT ![a] = t],
         mempool' = [mempool EXCEPT ![a] = pool],
         AgentInv(f, t, pool, props', a),
         \A b \in Auth \ {a} : AgentInv(file[b], tool[b], mempool[b], props', b)
  PROVE  BatchInv'
<1>1. /\ file = [b \in Auth |-> file[b]] /\ tool = [b \in Auth |-> tool[b]]
      /\ mempool = [b \in Auth |-> mempool[b]]
  BY DEF BatchInv
<1>2. /\ file' = [b \in Auth |-> file'[b]] /\ tool' = [b \in Auth |-> tool'[b]]
      /\ mempool' = [b \in Auth |-> mempool'[b]]
  BY <1>1
<1>3. \A b \in Auth : AgentInv(file'[b], tool'[b], mempool'[b], props', b)
  <2> SUFFICES ASSUME NEW b \in Auth
               PROVE  AgentInv(file'[b], tool'[b], mempool'[b], props', b)
    OBVIOUS
  <2>1. CASE b = a
    <3>1. file'[b] = f /\ tool'[b] = t /\ mempool'[b] = pool
      BY <1>1, <2>1
    <3>2. QED
      BY <2>1, <3>1
  <2>2. CASE b # a
    <3>1. file'[b] = file[b] /\ tool'[b] = tool[b] /\ mempool'[b] = mempool[b]
      BY <1>1, <2>2
    <3>2. QED
      BY <2>2, <3>1
  <2>3. QED
    BY <2>1, <2>2
<1>4. QED
  BY <1>2, <1>3 DEF BatchInv

(* The chain stands still.                                                 *)
LEMMA ChainUnchanged ==
  ASSUME ChainSound, UNCHANGED vars
  PROVE  ChainSound' /\ props' = props
<1>1. Inv'
  BY NextInv DEF ChainSound
<1>2. QED
  BY <1>1 DEF ChainSound, BallotsSound, vars

LEMMA QuietStep ==
  ASSUME BatchInv, NEW a \in Auth, NEW f, NEW t, NEW pool,
         UNCHANGED vars, faults' \in 0 .. MaxFaults,
         file' = [file EXCEPT ![a] = f], tool' = [tool EXCEPT ![a] = t],
         mempool' = [mempool EXCEPT ![a] = pool],
         AgentInv(f, t, pool, props, a)
  PROVE  BatchInv'
<1>1. ChainSound' /\ props' = props
  BY ChainUnchanged DEF BatchInv
<1>2. \A b \in Auth \ {a} : AgentInv(file[b], tool[b], mempool[b], props', b)
  BY <1>1 DEF BatchInv
<1>3. QED
  BY <1>1, <1>2, AgentStep

(* What a step leaves alone.                                               *)
LEMMA Untouched ==
  ASSUME BatchInv, NEW a \in Auth
  PROVE  /\ file = [file EXCEPT ![a] = file[a]]
         /\ tool = [tool EXCEPT ![a] = tool[a]]
         /\ mempool = [mempool EXCEPT ![a] = mempool[a]]
         /\ AgentInv(file[a], tool[a], mempool[a], props, a)
         /\ file[a] \in Lists /\ Backed(file[a], props) /\ ToolSound(tool[a])
         /\ faults \in 0 .. MaxFaults /\ ChainSound
         /\ a \in DOMAIN file /\ a \in DOMAIN tool /\ a \in DOMAIN mempool
<1>1. /\ file = [b \in Auth |-> file[b]] /\ tool = [b \in Auth |-> tool[b]]
      /\ mempool = [b \in Auth |-> mempool[b]] /\ faults \in 0 .. MaxFaults /\ ChainSound
      /\ AgentInv(file[a], tool[a], mempool[a], props, a)
  BY DEF BatchInv
<1>2. /\ file = [file EXCEPT ![a] = file[a]]
      /\ tool = [tool EXCEPT ![a] = tool[a]]
      /\ mempool = [mempool EXCEPT ![a] = mempool[a]]
      /\ a \in DOMAIN file /\ a \in DOMAIN tool /\ a \in DOMAIN mempool
  BY <1>1
<1>3. QED
  BY <1>1, <1>2 DEF AgentInv, AgentSound

(* One more fault.                                                         *)
LEMMA FaultCounted ==
  ASSUME faults \in 0 .. MaxFaults, Fault
  PROVE  faults' \in 0 .. MaxFaults
  BY BatchFacts DEF Fault, Facts

(* The steps of the batch tool and of the network keep the invariant.      *)
LEMMA StepKeeps ==
  ASSUME BatchInv, NEW a \in Auth, Step(a)
  PROVE  BatchInv'
<1> DEFINE f == file[a]
           t == tool[a]
           pool == mempool[a]
<1>0. /\ file = [file EXCEPT ![a] = f] /\ tool = [tool EXCEPT ![a] = t]
      /\ mempool = [mempool EXCEPT ![a] = pool] /\ AgentInv(f, t, pool, props, a)
      /\ f \in Lists /\ Backed(f, props) /\ ToolSound(t)
      /\ faults \in 0 .. MaxFaults /\ ChainSound /\ a \in DOMAIN tool
  BY Untouched
<1>1. CASE Connect(a)
  <2> DEFINE r == [Off EXCEPT !.pc = "connected"]
  <2>1. tool' = [tool EXCEPT ![a] = r] /\ UNCHANGED <<vars, file, mempool, faults>>
    BY <1>1 DEF Connect
  <2>2. AgentInv(f, r, pool, props, a)
    BY <1>0, ConnectKeeps
  <2> HIDE DEF r, f, pool
  <2>3. QED
    BY <1>0, <2>1, <2>2, QuietStep
<1>2. CASE Fetch(a)
  <2>1. PICK l \in MarkedLists(f) :
           /\ tool' = [tool EXCEPT ![a].pc = "working", ![a].list = l]
           /\ t.pc = "connected" /\ UNCHANGED <<vars, file, mempool, faults>>
    BY <1>2 DEF Fetch
  <2> DEFINE r == [t EXCEPT !.pc = "working", !.list = l]
  <2>2. tool' = [tool EXCEPT ![a] = r]
    BY <1>0, <2>1
  <2>3. AgentInv(f, r, pool, props, a)
    BY <1>0, <2>1, FetchKeeps
  <2> HIDE DEF r, f, pool
  <2>4. QED
    BY <1>0, <2>1, <2>2, <2>3, QuietStep
<1>3. CASE Skip(a)
  <2> DEFINE r == Recorded(t, t.list[t.at])
  <2>1. /\ tool' = [tool EXCEPT ![a] = r] /\ UNCHANGED <<vars, file, mempool, faults>>
        /\ t.pc = "working" /\ t.at <= Len(Batch)
    BY <1>3 DEF Skip, Entry, Working
  <2>2. t.list[t.at] \in Entries /\ EntryBacked(t.list[t.at], Batch[t.at], props)
    BY <1>0, <2>1, EntryInTurn
  <2>3. AgentInv(f, r, pool, props, a)
    BY <1>0, <2>1, <2>2, RecordedKeeps
  <2> HIDE DEF r, f, pool
  <2>4. QED
    BY <1>0, <2>1, <2>3, QuietStep
<1>4. CASE Send(a)
  <2> DEFINE tx == [n |-> t.ahead, pay |-> Batch[t.at]]
             r == [t EXCEPT !.pc = "waiting", !.tx = {tx}, !.ahead = tx.n + 1]
             more == pool \cup {tx}
  <2>1. /\ t.pc = "working" /\ t.at <= Len(Batch) /\ a \notin t.list[t.at].voters
        /\ t.ahead \in 0 .. MaxAhead
        /\ mempool' = [mempool EXCEPT ![a] = more]
        /\ tool' = [tool EXCEPT ![a].pc = "waiting", ![a].tx = {tx}, ![a].ahead = tx.n + 1]
        /\ UNCHANGED <<vars, file, faults>>
    BY <1>4 DEF Send, Working, MustSend, Entry, Pay, Number
  <2>2. AgentInv(f, r, more, props, a)
    BY <1>0, <2>1, SendKeeps
  <2>3. tool' = [tool EXCEPT ![a] = r]
    <3> HIDE DEF tx
    <3> QED
      BY <1>0, <2>1
  <2> HIDE DEF r, f, more
  <2>4. QED
    BY <1>0, <2>1, <2>2, <2>3, QuietStep
<1>5. CASE Reject(a)
  <2> DEFINE e == [t.list[t.at] EXCEPT !.proposed = "no"]
             u == Recorded(t, e)
             r == SteppedOver(u)
  <2>1. /\ t.pc = "working" /\ t.at <= Len(Batch)
        /\ tool' = [tool EXCEPT ![a] = r] /\ UNCHANGED <<vars, file, mempool>>
        /\ UNCHANGED faults \/ Fault
    BY <1>5 DEF Reject, Working, Entry
  <2>2. e \in Entries /\ EntryBacked(e, Batch[t.at], props)
    BY <1>0, <2>1, EntryInTurn
  <2>3. AgentInv(f, u, pool, props, a) /\ u.pc = "working" /\ u.at > 1
    <3> HIDE DEF e, f, t, pool
    <3> QED
      BY <1>0, <2>1, <2>2, RecordedKeeps
  <2>4. AgentInv(f, r, pool, props, a)
    <3> HIDE DEF u
    <3> QED
      BY <2>3, SteppedOverKeeps
  <2>5. faults' \in 0 .. MaxFaults
    BY <1>0, <2>1, FaultCounted
  <2> HIDE DEF r, f, pool
  <2>6. QED
    BY <1>0, <2>1, <2>4, <2>5, QuietStep
<1>6. CASE Answered(a)
  <2> DEFINE s == IF t.result = "ok" THEN "yes" ELSE "no"
             e == [t.list[t.at] EXCEPT !.proposed = s]
             r == Recorded(t, e)
  <2>1. /\ t.pc = "waiting" /\ tool' = [tool EXCEPT ![a] = r]
        /\ UNCHANGED <<vars, file, mempool, faults>>
    BY <1>6 DEF Answered, Entry
  <2>2. s \in {"yes", "no"} /\ (s = "yes" => t.result = "ok")
    OBVIOUS
  <2>3. /\ e \in Entries /\ EntryBacked(e, Batch[t.at], props)
        /\ t.pc \in {"working", "waiting"} /\ t.at <= Len(Batch)
    <3> HIDE DEF s
    <3> QED
      BY <1>0, <2>1, <2>2, EntryInTurn
  <2>4. AgentInv(f, r, pool, props, a)
    <3> HIDE DEF e, f, t, pool
    <3> QED
      BY <1>0, <2>3, RecordedKeeps
  <2> HIDE DEF r, f, pool
  <2>5. QED
    BY <1>0, <2>1, <2>4, QuietStep
<1>7. CASE Expired(a)
  <2> DEFINE e == [t.list[t.at] EXCEPT !.proposed = "no"]
             r == Recorded(t, e)
  <2>1. /\ t.pc = "waiting" /\ tool' = [tool EXCEPT ![a] = r]
        /\ UNCHANGED <<vars, file>>
    BY <1>7 DEF Expired, Entry
  <2>2. PICK x \in t.tx : /\ UNCHANGED faults \/ Fault
                          /\ mempool' = [mempool EXCEPT ![a] = @ \ {x}]
    BY <1>7 DEF Expired
  <2> DEFINE rest == pool \ {x}
  <2>3. mempool' = [mempool EXCEPT ![a] = rest]
    BY <2>2
  <2>4. /\ e \in Entries /\ EntryBacked(e, Batch[t.at], props)
        /\ t.pc \in {"working", "waiting"} /\ t.at <= Len(Batch)
    BY <1>0, <2>1, EntryInTurn
  <2>5. rest \in SUBSET pool
    OBVIOUS
  <2>6. AgentInv(f, r, rest, props, a)
    <3> HIDE DEF e, f, t, pool, rest
    <3> QED
      BY <1>0, <2>4, <2>5, RecordedKeeps
  <2>7. faults' \in 0 .. MaxFaults
    BY <1>0, <2>2, FaultCounted
  <2> HIDE DEF r, f, rest
  <2>8. QED
    BY <1>0, <2>1, <2>3, <2>6, <2>7, QuietStep
<1>8. CASE Finish(a)
  <2> DEFINE g == t.list
  <2>1. /\ t.pc = "working" /\ file' = [file EXCEPT ![a] = g]
        /\ tool' = [tool EXCEPT ![a] = Off] /\ UNCHANGED <<vars, mempool, faults>>
    BY <1>8 DEF Finish
  <2>2. g \in Lists /\ Backed(g, props)
    BY <1>0, <2>1 DEF AgentInv, AgentSound, ToolSound
  <2> HIDE DEF g
  <2>3. AgentInv(g, Off, pool, props, a)
    BY <1>0, <2>2, OffKeeps
  <2> HIDE DEF pool
  <2>4. QED
    BY <1>0, <2>1, <2>3, QuietStep
<1>9. QED
  BY <1>1, <1>2, <1>3, <1>4, <1>5, <1>6, <1>7, <1>8 DEF Step

(* A lost connection, a killed tool, a read-only run, a transaction of     *)
(* another tool, an expired one.                                           *)
LEMMA DisturbanceKeeps ==
  ASSUME BatchInv, NEW a \in Auth,
         Lost(a) \/ Crash(a) \/ Check(a) \/ OtherTx(a) \/ Evict(a)
  PROVE  BatchInv'
<1> DEFINE f == file[a]
           t == tool[a]
           pool == mempool[a]
<1>0. /\ file = [file EXCEPT ![a] = f] /\ tool = [tool EXCEPT ![a] = t]
      /\ mempool = [mempool EXCEPT ![a] = pool] /\ AgentInv(f, t, pool, props, a)
      /\ f \in Lists /\ Backed(f, props) /\ ToolSound(t)
      /\ faults \in 0 .. MaxFaults /\ ChainSound
  BY Untouched
<1>1. CASE Lost(a)
  <2> DEFINE e == [t.list[t.at] EXCEPT !.proposed = "no"]
             r == Recorded(t, e)
  <2>1. /\ t.pc = "waiting" /\ tool' = [tool EXCEPT ![a] = r]
        /\ UNCHANGED <<vars, file, mempool>> /\ faults' \in 0 .. MaxFaults
    BY <1>0, <1>1, FaultCounted DEF Lost, Entry
  <2>2. /\ e \in Entries /\ EntryBacked(e, Batch[t.at], props)
        /\ t.pc \in {"working", "waiting"} /\ t.at <= Len(Batch)
    BY <1>0, <2>1, EntryInTurn
  <2>3. AgentInv(f, r, pool, props, a)
    <3> HIDE DEF e, f, t, pool
    <3> QED
      BY <1>0, <2>2, RecordedKeeps
  <2> HIDE DEF r, f, pool
  <2>4. QED
    BY <1>0, <2>1, <2>3, QuietStep
<1>2. CASE Crash(a)
  <2>1. /\ tool' = [tool EXCEPT ![a] = Off]
        /\ UNCHANGED <<vars, file, mempool>> /\ faults' \in 0 .. MaxFaults
    BY <1>0, <1>2, FaultCounted DEF Crash
  <2>2. AgentInv(f, Off, pool, props, a)
    BY <1>0, OffKeeps
  <2> HIDE DEF f, pool
  <2>3. QED
    BY <1>0, <2>1, <2>2, QuietStep
<1>3. CASE Check(a)
  <2>1. PICK l \in MarkedLists(f) : /\ file' = [file EXCEPT ![a] = l]
                                    /\ UNCHANGED <<vars, tool, mempool, faults>>
    BY <1>3 DEF Check
  <2>2. l \in Lists /\ Backed(l, props)
    BY <1>0, MarkedListSound
  <2>3. AgentInv(l, t, pool, props, a)
    BY <1>0, <2>2 DEF AgentInv, AgentSound
  <2> HIDE DEF t, pool
  <2>4. QED
    BY <1>0, <2>1, <2>3, QuietStep
<1>4. CASE OtherTx(a)
  <2> DEFINE r == AfterConsumed(t)
             rest == Consumed(pool)
  <2>1. /\ t.ahead >= -MaxAhead
        /\ mempool' = [mempool EXCEPT ![a] = rest] /\ tool' = [tool EXCEPT ![a] = r]
        /\ UNCHANGED <<vars, file>> /\ faults' \in 0 .. MaxFaults
    BY <1>0, <1>4, FaultCounted DEF OtherTx
  <2>2. AgentSound(f, t, pool, props) /\ (FirstPayeeOnce => VotedOnce(props, a))
    BY <1>0 DEF AgentInv, VoteSound
  <2>3. AgentInv(f, r, rest, props, a)
    <3> HIDE DEF f, t, pool
    <3> QED
      BY <1>0, <2>1, <2>2, ConsumedKeeps
  <2> HIDE DEF r, f, rest
  <2>4. QED
    BY <1>0, <2>1, <2>3, QuietStep
<1>5. CASE Evict(a)
  <2>1. PICK x \in pool : /\ mempool' = [mempool EXCEPT ![a] = @ \ {x}]
                          /\ UNCHANGED <<vars, file, tool, faults>>
    BY <1>5 DEF Evict
  <2> DEFINE rest == pool \ {x}
  <2>2. mempool' = [mempool EXCEPT ![a] = rest]
    BY <2>1
  <2>3. AgentInv(f, t, rest, props, a)
    <3> HIDE DEF f, t, pool
    <3>1. AgentSound(f, t, rest, props)
      BY <1>0 DEF AgentInv, AgentSound, PoolSound
    <3>2. FirstPayeeOnce => VoteSound(t, rest, props, a)
      BY <1>0 DEF AgentInv, VoteSound
    <3>3. QED
      BY <3>1, <3>2 DEF AgentInv
  <2> HIDE DEF t, f, rest
  <2>4. QED
    BY <1>0, <2>1, <2>2, <2>3, QuietStep
<1>6. QED
  BY <1>1, <1>2, <1>3, <1>4, <1>5

(* What wait_for_transaction_bcs will answer.                              *)
LEMMA ResultKept ==
  ASSUME NEW f, NEW t, NEW pool, NEW ps, NEW a, AgentInv(f, t, pool, ps, a),
         t.pc = "waiting", NEW res \in {"ok", "failed"},
         res = "ok" => HasBallot(ps, Batch[t.at])
  PROVE  AgentInv(f, [t EXCEPT !.result = res], pool, ps, a)
<1> DEFINE r == [t EXCEPT !.result = res]
<1>1. AgentSound(f, t, pool, ps) /\ ToolSound(t) /\ PoolSound(pool, t) /\ t \in Tools
  BY DEF AgentInv, AgentSound, ToolSound
<1>2. r = [pc |-> t.pc, list |-> t.list, at |-> t.at, ahead |-> t.ahead, tx |-> t.tx,
           result |-> res]
  <2>1. t = [pc |-> t.pc, list |-> t.list, at |-> t.at, ahead |-> t.ahead,
             tx |-> t.tx, result |-> t.result]
    BY <1>1, ToolFields
  <2>2. r = [t EXCEPT !.result = res]
    OBVIOUS
  <2> HIDE DEF r
  <2>3. QED
    BY <2>1, <2>2
<1> HIDE DEF r
<1>3. r \in Tools
  BY <1>1, <1>2, ToolFields DEF Tools
<1>4. ToolSound(r)
  BY <1>1, <1>2, <1>3 DEF ToolSound
<1>5. PoolSound(pool, r)
  BY <1>1, <1>2 DEF PoolSound
<1>6. AgentSound(f, r, pool, ps)
  BY <1>1, <1>2, <1>4, <1>5 DEF AgentSound
<1>7. FirstPayeeOnce => VoteSound(r, pool, ps, a)
  BY <1>2, VoteSoundKept DEF AgentInv
<1>8. QED
  BY <1>6, <1>7 DEF AgentInv, r

(* A transaction that is next in its account executes or aborts.           *)
LEMMA CommitKeeps ==
  ASSUME BatchInv, NEW a \in Auth, Commit(a)
  PROVE  BatchInv'
<1> DEFINE f == file[a]
           t == tool[a]
           pool == mempool[a]
           u == AfterConsumed(t)
           rest == Consumed(pool)
<1>0. /\ file = [file EXCEPT ![a] = f] /\ AgentInv(f, t, pool, props, a)
      /\ ToolSound(t) /\ faults \in 0 .. MaxFaults /\ ChainSound
  BY Untouched
<1>1. PICK x \in pool :
        /\ x.n = 0
        /\ \/ CanPropose(a, x.pay) /\ Propose(a, x.pay, PayDuration)
           \/ ~CanPropose(a, x.pay) /\ UNCHANGED vars
        /\ mempool' = [mempool EXCEPT ![a] = Consumed(@)]
        /\ tool' = [tool EXCEPT ![a] =
              IF tool[a].tx = {x} /\ tool[a].result = "none"
              THEN [AfterConsumed(@) EXCEPT
                       !.result = IF CanPropose(a, x.pay) THEN "ok" ELSE "failed"]
              ELSE AfterConsumed(@)]
        /\ UNCHANGED <<file, faults>>
  BY DEF Commit
<1> DEFINE res == IF CanPropose(a, x.pay) THEN "ok" ELSE "failed"
           r == IF t.tx = {x} /\ t.result = "none" THEN [u EXCEPT !.result = res] ELSE u
<1>2. /\ mempool' = [mempool EXCEPT ![a] = rest] /\ tool' = [tool EXCEPT ![a] = r]
      /\ file' = [file EXCEPT ![a] = f] /\ faults' \in 0 .. MaxFaults
  BY <1>0, <1>1
<1>3. /\ PoolSound(pool, t) /\ x.pay \in Range(Batch) /\ x.pay \in Payments
      /\ t.pc = "off" \/ t.ahead >= -MaxAhead
  <2>1. PoolSound(pool, t)
    BY <1>0 DEF AgentInv, AgentSound
  <2>2. x \in Txs /\ x.pay \in Range(Batch) /\ (t.pc # "off" => 0 <= t.ahead + MaxAhead)
    BY <1>1, <2>1 DEF PoolSound
  <2>3. t.ahead \in Int /\ MaxAhead \in Int /\ x.pay \in Payments
    BY <1>0, <2>2, ToolFields, BatchFacts DEF ToolSound, Facts, Txs
  <2>4. QED
    BY <2>1, <2>2, <2>3
<1>4. /\ ChainSound'
      /\ AgentSound(f, t, pool, props') /\ (FirstPayeeOnce => VotedOnce(props', a))
      /\ res = "ok" => HasBallot(props', x.pay)
      /\ \A b \in Auth \ {a} : AgentInv(file[b], tool[b], mempool[b], props', b)
  <2>1. CASE CanPropose(a, x.pay) /\ Propose(a, x.pay, PayDuration)
    <3>1. PICK i : VotesIn(a, x.pay, i, props, props')
      BY <1>0, <1>3, <2>1, ProposeVotes
    <3>2. ChainSound'
      <4>1. Inv /\ PayDuration \in Nat
        BY <1>0, BatchFacts DEF ChainSound, Facts
      <4>2. Inv'
        BY <1>3, <2>1, <4>1, ProposeInv
      <4>3. caged' /\ threshold' = threshold
        BY <1>3, <2>1 DEF Propose, Vote, Execute, PendingWith
      <4>4. BallotsSound(props')
        BY <1>0, <1>3, <3>1, BallotsStaySound DEF ChainSound
      <4>5. QED
        BY <1>0, <4>2, <4>3, <4>4 DEF ChainSound
    <3>3. /\ HasBallot(props', x.pay)
          /\ \A g, v, p : AgentSound(g, v, p, props) => AgentSound(g, v, p, props')
      BY <3>1, ReportsStay
    <3>4. AgentSound(f, t, pool, props')
      BY <1>0, <3>3 DEF AgentInv
    <3>5. FirstPayeeOnce => VotedOnce(props', a)
      <4> SUFFICES ASSUME FirstPayeeOnce PROVE VotedOnce(props', a)
        OBVIOUS
      <4>1. \A c \in Auth : VotedOnce(props, c)
        BY DEF BatchInv, AgentInv, VoteSound
      <4>2. x.pay = Batch[1] => MayVote(props, a)
        BY <1>0 DEF AgentInv, VoteSound
      <4>3. props \in Seq(Proposals) /\ BallotsSound(props)
        BY <1>0 DEF ChainSound, Inv, TypeOK
      <4>4. QED
        BY <3>1, <4>1, <4>2, <4>3, VoterVotesOnce
    <3>6. ASSUME NEW b \in Auth \ {a}
          PROVE  AgentInv(file[b], tool[b], mempool[b], props', b)
      <4>1. AgentInv(file[b], tool[b], mempool[b], props, b)
        BY DEF BatchInv
      <4>2. AgentSound(file[b], tool[b], mempool[b], props')
        BY <3>3, <4>1 DEF AgentInv
      <4>3. /\ VotedOnce(props, b) => VotedOnce(props', b)
            /\ MayVote(props, b) => MayVote(props', b)
        BY <3>1, OthersVotes
      <4>4. FirstPayeeOnce => VoteSound(tool[b], mempool[b], props', b)
        BY <4>1, <4>3 DEF AgentInv, VoteSound
      <4>5. QED
        BY <4>2, <4>4 DEF AgentInv
    <3>7. QED
      BY <3>2, <3>3, <3>4, <3>5, <3>6
  <2>2. CASE ~CanPropose(a, x.pay) /\ UNCHANGED vars
    <3>1. ChainSound' /\ props' = props
      BY <1>0, <2>2, ChainUnchanged
    <3>2. res # "ok"
      BY <2>2
    <3>3. QED
      BY <1>0, <3>1, <3>2 DEF BatchInv, AgentInv, VoteSound
  <2>3. QED
    BY <1>1, <2>1, <2>2
<1>5. AgentInv(f, u, rest, props', a) /\ u.pc = t.pc /\ u.at = t.at
  <2> HIDE DEF f, t, pool
  <2> QED
    BY <1>0, <1>3, <1>4, ConsumedKeeps
<1>6. AgentInv(f, r, rest, props', a)
  <2>1. CASE t.tx = {x} /\ t.result = "none"
    <3>1. t.pc = "waiting" /\ x.pay = Batch[t.at]
      BY <1>0, <2>1 DEF ToolSound
    <3>2. res \in {"ok", "failed"}
      OBVIOUS
    <3> HIDE DEF u, rest, f, res
    <3>3. AgentInv(f, [u EXCEPT !.result = res], rest, props', a)
      BY <1>4, <1>5, <3>1, <3>2, ResultKept
    <3>4. QED
      BY <2>1, <3>3
  <2>2. CASE ~(t.tx = {x} /\ t.result = "none")
    BY <1>5, <2>2
  <2>3. QED
    BY <2>1, <2>2
<1> HIDE DEF r, f, rest
<1>7. QED
  BY <1>2, <1>4, <1>6, AgentStep

(* Nobody has run the batch, and the wallet has no ballot.                 *)
LEMMA BatchInitInv == BatchInit => BatchInv
<1> SUFFICES ASSUME BatchInit
             PROVE  BatchInv
  OBVIOUS
<1>1. /\ epoch = 0 /\ owners = Auth /\ threshold = Sigs /\ offer = <<>> /\ claimed = {}
      /\ offerN = None /\ props = <<>> /\ founders = Auth /\ faults = 0
  BY DEF BatchInit
<1>2. caged = TRUE
  BY Zenon DEF BatchInit
<1>3. Cardinality(Auth) \in Nat /\ Sigs \in Nat /\ Sigs > 0 /\ Sigs <= Cardinality(Auth)
  BY AuthFinite, BatchAssumption
<1>4. TypeOK
  BY <1>1, <1>2, <1>3 DEF TypeOK, Thresholds
<1>5. QuorumIsPossible /\ OneOpenProposalPerData
  BY <1>1, <1>3 DEF QuorumIsPossible, OneOpenProposalPerData
<1>6. AuthoritiesWereVoted /\ OfferWasVoted
  BY <1>1 DEF AuthoritiesWereVoted, OfferWasVoted, Addrs
<1>7. ChainSound
  BY <1>1, <1>2, <1>4, <1>5, <1>6 DEF ChainSound, Inv, BallotsSound
<1> DEFINE fresh == [proposed |-> "unset", approved |-> FALSE, voters |-> {}]
           l == [k \in DOMAIN Batch |-> fresh]
<1>8. fresh \in Entries
  BY DEF Entries
<1>9. fresh.proposed # "yes" /\ ~fresh.approved
  OBVIOUS
<1>10. /\ file = [a \in Auth |-> l] /\ tool = [a \in Auth |-> Off]
       /\ mempool = [a \in Auth |-> {}]
  BY DEF BatchInit
<1> HIDE DEF fresh
<1>11. l \in Lists /\ Backed(l, props)
  BY <1>8, <1>9 DEF Lists, Backed
<1> HIDE DEF l
<1>12. ASSUME NEW a
       PROVE  AgentInv(l, Off, {}, props, a)
  <2>1. ToolSound(Off) /\ Off.pc = "off" /\ Off.result = "none"
    BY OffSound
  <2>2. AgentSound(l, Off, {}, props)
    BY <1>11, <2>1 DEF AgentSound, PoolSound
  <2>3. VoteSound(Off, {}, props, a)
    BY <1>1, <2>1 DEF VoteSound, VotedOnce
  <2>4. QED
    BY <2>2, <2>3 DEF AgentInv
<1>13. \A a \in Auth : AgentInv(file[a], tool[a], mempool[a], props, a)
  BY <1>10, <1>12
<1>14. /\ file = [a \in Auth |-> file[a]] /\ tool = [a \in Auth |-> tool[a]]
       /\ mempool = [a \in Auth |-> mempool[a]]
  BY <1>10
<1>15. QED
  BY <1>1, <1>7, <1>13, <1>14, BatchFacts DEF BatchInv, Facts

(* Every step keeps the invariant.                                         *)
LEMMA BatchNextInv ==
  ASSUME BatchInv, [BatchNext]_allVars
  PROVE  BatchInv'
<1>0. ChainSound
  BY DEF BatchInv
<1>1. CASE UNCHANGED allVars
  <2>1. ChainSound' /\ props' = props
    BY <1>0, <1>1, ChainUnchanged DEF allVars
  <2>2. UNCHANGED <<file, tool, mempool, faults>>
    BY <1>1 DEF allVars, batchVars
  <2>3. QED
    BY <2>1, <2>2 DEF BatchInv
<1>2. CASE NewEpoch
  <2>1. /\ epoch < MaxEpoch /\ AdvanceEpoch /\ props' = props /\ caged' = caged
        /\ threshold' = threshold /\ UNCHANGED <<file, tool, mempool, faults>>
    BY <1>2 DEF NewEpoch, AdvanceEpoch, batchVars
  <2>2. Inv'
    BY <1>0, <2>1, NextInv DEF ChainSound, Next
  <2>3. ChainSound'
    BY <1>0, <2>1, <2>2 DEF ChainSound
  <2>4. QED
    BY <2>1, <2>3 DEF BatchInv
<1>3. ASSUME NEW a \in Auth, Step(a)
      PROVE  BatchInv'
  BY <1>3, StepKeeps
<1>4. ASSUME NEW a \in Auth, Commit(a)
      PROVE  BatchInv'
  BY <1>4, CommitKeeps
<1>5. ASSUME NEW a \in Auth, Lost(a) \/ Crash(a) \/ Check(a) \/ OtherTx(a) \/ Evict(a)
      PROVE  BatchInv'
  BY <1>5, DisturbanceKeeps
<1>6. QED
  BY <1>1, <1>2, <1>3, <1>4, <1>5 DEF BatchNext

(* The invariant of the batches: files, running tools, transactions in     *)
(* flight and ballots fit together whatever is lost, killed or run again.  *)
THEOREM BatchInvariant == BatchSpec => []BatchInv
<1>1. BatchInv /\ [BatchNext]_allVars => BatchInv'
  BY BatchNextInv
<1>2. QED
  BY BatchInitInv, <1>1, PTL DEF BatchSpec

(* Numbers stay within the bounds: a Sender is never further from the      *)
(* chain than the transactions that may still execute allow, and waits for *)
(* exactly one transaction (sign_submit_wait).                             *)
THEOREM BatchTypes == BatchSpec => []BatchTypeOK
<1>1. BatchInv => BatchTypeOK
  <2> SUFFICES ASSUME BatchInv PROVE BatchTypeOK
    OBVIOUS
  <2>1. ASSUME NEW a \in Auth
        PROVE  /\ tool[a].pc \in {"off", "connected", "working", "waiting"}
               /\ tool[a].pc \in {"working", "waiting"} => tool[a].list \in Lists
               /\ tool[a].at \in 1 .. Len(Batch) + 1
               /\ tool[a].ahead \in -(MaxAhead + 1) .. MaxAhead + 1
               /\ tool[a].tx \subseteq Txs
               /\ Cardinality(tool[a].tx) = (IF tool[a].pc = "waiting" THEN 1 ELSE 0)
               /\ tool[a].result \in {"none", "ok", "failed"}
               /\ \A t \in mempool[a] : t \in Txs /\ t.n >= 0
               /\ file[a] \in Lists
    <3> DEFINE t == tool[a]
    <3>1. /\ AgentSound(file[a], t, mempool[a], props) /\ ToolSound(t)
          /\ PoolSound(mempool[a], t) /\ t \in Tools /\ file[a] \in Lists
      BY <2>1 DEF BatchInv, AgentInv, AgentSound, ToolSound
    <3> HIDE DEF t
    <3>2. Cardinality(t.tx) = (IF t.pc = "waiting" THEN 1 ELSE 0)
      BY <3>1, FS_EmptySet, FS_Singleton DEF ToolSound
    <3>3. \A x \in mempool[a] : x \in Txs /\ x.n >= 0
      BY <3>1 DEF PoolSound
    <3>4. t.pc \in {"working", "waiting"} => t.list \in Lists
      BY <3>1 DEF ToolSound
    <3>5. QED
      BY <3>1, <3>2, <3>3, <3>4, ToolFields DEF t
  <2>2. file \in [Auth -> Lists]
    BY <2>1 DEF BatchInv
  <2>3. faults \in 0 .. MaxFaults
    BY DEF BatchInv
  <2>4. QED
    BY <2>1, <2>2, <2>3 DEF BatchTypeOK
<1>2. QED
  BY <1>1, BatchInvariant, PTL

(* A saved file reports only what the chain did (BatchTx::run).            *)
THEOREM FilesAlwaysBacked == BatchSpec => []FilesAreBacked
<1>1. BatchInv => FilesAreBacked
  BY DEF BatchInv, AgentInv, AgentSound, Backed, HasBallot, HasApproved, FilesAreBacked
<1>2. QED
  BY <1>1, BatchInvariant, PTL

(* A batch may be cut off and run again as often as one likes: nobody      *)
(* votes twice for its first payment, as long as no other payment of the   *)
(* file goes to the same recipient. BatchTx::run keeps the ballots in a    *)
(* map by recipient, so with a second one it may find the wrong ballot.    *)
THEOREM FirstPaymentIsVotedOnce ==
  ASSUME FirstPayeeOnce
  PROVE  BatchSpec => []FirstPaymentVotedOnce
<1>1. BatchInv => FirstPaymentVotedOnce
  <2> SUFFICES ASSUME BatchInv, NEW a \in Auth
               PROVE  ~VotedTwice(a, Batch[1])
    BY DEF FirstPaymentVotedOnce
  <2>1. VotedOnce(props, a)
    BY DEF BatchInv, AgentInv, VoteSound
  <2>2. QED
    BY <2>1 DEF VotedTwice, VotedOnce, Live
<1>2. QED
  BY <1>1, BatchInvariant, PTL
=============================================================================
