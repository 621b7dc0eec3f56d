---------------------------- MODULE MultiAction ----------------------------
(***************************************************************************)
(* One multi-action account (multi_action.move): the offer by which a      *)
(* sponsor gathers authorities, the cage that hands the account to them    *)
(* (multisig_account.move), and the proposals on which they vote, kept in  *)
(* the ballot trackers of ballot.move.                                     *)
(*                                                                         *)
(* An abort rolls a transaction back, so a failed assertion is an action   *)
(* that is not enabled. A guid is the index of its proposal in `props`;    *)
(* the tracker's three lists are the three values of `status`.             *)
(***************************************************************************)
EXTENDS Integers, Sequences, FiniteSets, SequencesExt

CONSTANTS
    Auth,           \* accounts that may become authorities
    Payments,       \* payloads of Action<T> for types other than PropGovSigners
    OfferDuration,  \* DEFAULT_EPOCHS_OFFER_EXPIRE
    MinClaims,      \* MIN_OFFER_CLAIMS_TO_CAGE
    MaxOffer,       \* MAX_OFFER_ADDRESSES
    OfferLists,     \* lists of addresses a sponsor offers authority to
    GovProposals,   \* governance proposals the authorities make
    Durations,      \* durations, in epochs, that senders choose
    MaxEpoch,       \* bound on the epoch
    MaxProposals    \* bound on the proposals made

\* option::none() for a threshold.
None == -1

Thresholds == Nat \cup {None}

\* PropGovSigners: whom to add or remove, and the threshold to change to.
GovData == [add : BOOLEAN, addrs : Seq(Auth), n : Thresholds]

ASSUME MultiActionAssumption ==
    /\ IsFiniteSet(Auth)
    /\ OfferDuration \in Nat \ {0}
    /\ MinClaims \in Nat \ {0}
    /\ MaxOffer \in Nat \ {0}
    /\ OfferLists \subseteq Seq(Auth)
    /\ GovProposals \subseteq GovData
    /\ GovProposals \cap Payments = {}
    /\ Durations \subseteq Nat
    /\ MaxEpoch \in Nat
    /\ MaxProposals \in Nat

VARIABLES
    epoch,      \* epoch_helper::get_current_epoch()
    caged,      \* multisig_account::is_multisig
    owners,     \* MultisigAccount.owners, a vector without duplicates
    threshold,  \* MultisigAccount.num_signatures_required
    offer,      \* Offer.proposed with Offer.expiration_epoch
    claimed,    \* Offer.claimed
    offerN,     \* Offer.proposed_n_of_m
    props,      \* every proposal made, by creation number
    founders    \* history: the authorities at the time of the cage

vars == <<epoch, caged, owners, threshold, offer, claimed, offerN, props, founders>>

Statuses == {"pending", "approved", "rejected"}

Proposals == [data : GovProposals \cup Payments, votes : SUBSET Auth,
              exp : Nat, status : Statuses]

TypeOK ==
    /\ epoch \in Nat
    /\ caged \in BOOLEAN
    /\ owners \in SUBSET Auth
    /\ threshold \in Nat
    /\ offer \in Seq([addr : Auth, exp : Nat])
    /\ claimed \in SUBSET Auth
    /\ offerN \in Thresholds
    /\ props \in Seq(Proposals)
    /\ founders \in SUBSET Auth

\* The sponsor has called init_gov and init_type.
Init ==
    /\ epoch = 0
    /\ caged = FALSE
    /\ owners = {}
    /\ threshold = 0
    /\ offer = <<>>
    /\ claimed = {}
    /\ offerN = None
    /\ props = <<>>
    /\ founders = {}

-----------------------------------------------------------------------------
\* Offers before the cage.

Addrs(o) == {o[i].addr : i \in DOMAIN o}

Distinct(s) == \A i, j \in DOMAIN s : s[i] = s[j] => i = j

\* update_offer step 2: the loop that drops the addresses already claimed
\* advances past the element that took the place of a removed one.
DropAlreadyClaimed(new, have) ==
    LET dropped[i \in 0 .. Len(new)] ==
            i > 0 /\ new[i] \in have /\ ~dropped[i - 1]
    IN  {new[i] : i \in {j \in DOMAIN new : ~dropped[j]}}

\* update_offer: the claims of addresses no longer proposed are dropped, and
\* the offer becomes the remaining new addresses, all with the new expiration.
\* They are distinct, so their order cannot be told before the cage, which
\* empties the offer.
UpdateOffer(new, expiration) ==
    LET have  == claimed \cap Range(new)
        fresh == DropAlreadyClaimed(new, have)
    IN  /\ claimed' = have
        /\ offer' = SetToSeq({[addr |-> a, exp |-> expiration] : a \in fresh})

\* Mutant of ProposeOffer: also after the cage.
ProposeOfferAnytime(new, duration) ==
    /\ Len(new) > 0
    /\ Len(new) <= MaxOffer
    /\ Distinct(new)
    /\ duration > 0
    /\ UpdateOffer(new, epoch + duration)
    /\ UNCHANGED <<epoch, caged, owners, threshold, offerN, props, founders>>

\* propose_offer_internal, by the sponsor.
ProposeOffer(new, duration) ==
    /\ ~caged
    /\ Len(new) > 0
    /\ Len(new) <= MaxOffer
    /\ Distinct(new)
    /\ duration > 0
    /\ UpdateOffer(new, epoch + duration)
    /\ UNCHANGED <<epoch, caged, owners, threshold, offerN, props, founders>>

\* finalize_and_cage, by the sponsor: migrate_with_owners, then clean_offer.
FinalizeAndCage(n) ==
    /\ ~caged
    /\ Cardinality(claimed) >= MinClaims
    /\ n > 0
    /\ n <= Cardinality(claimed)
    /\ caged' = TRUE
    /\ owners' = claimed
    /\ founders' = claimed
    /\ threshold' = n
    /\ offer' = <<>>
    /\ claimed' = {}
    /\ offerN' = None
    /\ UNCHANGED <<epoch, props>>

-----------------------------------------------------------------------------
\* Mutant of UpdateThreshold: an absent threshold is applied as well.
UpdateThresholdUnset(n, own) ==
    /\ n = threshold \/ n <= Cardinality(own)
    /\ threshold' = n
    /\ offerN' = None

\* Mutant of UpdateThreshold: an absent threshold is taken for all the owners.
UpdateThresholdToAll(n, own) ==
    LET k == IF n = None THEN Cardinality(own) ELSE n
    IN  /\ k = threshold \/ (k > 0 /\ k <= Cardinality(own))
        /\ threshold' = k
        /\ offerN' = None

\* Mutant of UpdateThreshold: no comparison with the number of owners.
UpdateThresholdUnbounded(n, own) ==
    IF n = None
    THEN UNCHANGED <<threshold, offerN>>
    ELSE /\ threshold' = n
         /\ offerN' = None

\* maybe_update_threshold, on an account whose owners are `own`; it forgets
\* the threshold an offer was waiting to apply.
UpdateThreshold(n, own) ==
    IF n = None
    THEN UNCHANGED <<threshold, offerN>>
    ELSE /\ n = threshold \/ (n > 0 /\ n <= Cardinality(own))
         /\ threshold' = n
         /\ offerN' = None

\* The entry of the offer that claim_offer and is_offer_expired look at: the
\* first one of the address.
FirstEntry(a) ==
    CHOOSE i \in DOMAIN offer :
        offer[i].addr = a /\ \A j \in DOMAIN offer : offer[j].addr = a => i <= j

\* validate_claim_offer.
CanClaim(a) ==
    /\ a \in Addrs(offer)
    /\ epoch < offer[FirstEntry(a)].exp
    /\ a \notin claimed

\* claim_offer before the cage.
ClaimInitialOffer(a) ==
    /\ ~caged
    /\ CanClaim(a)
    /\ offer' = RemoveAt(offer, FirstEntry(a))
    /\ claimed' = claimed \cup {a}
    /\ UNCHANGED <<epoch, caged, owners, threshold, offerN, props, founders>>

\* claim_offer on a caged account: the sender becomes an owner; the last one
\* to claim applies the voted threshold and cleans the offer.
ClaimVotedOffer(a) ==
    /\ caged
    /\ CanClaim(a)
    /\ a \notin owners
    /\ owners' = owners \cup {a}
    /\ offer' = RemoveAt(offer, FirstEntry(a))
    /\ IF offer' = <<>>
       THEN /\ UpdateThreshold(offerN, owners')
            /\ claimed' = {}
       ELSE UNCHANGED <<threshold, offerN, claimed>>
    /\ UNCHANGED <<epoch, caged, props, founders>>

-----------------------------------------------------------------------------
\* Proposals and votes.

\* Action<PropGovSigners> and Action<T> keep separate trackers.
SameTracker(d, e) == (d \in Payments) = (e \in Payments)

\* Mutant of CleanedUp: nothing is cleaned up.
NotCleanedUp(data) == props

\* lazy_cleanup_expired on the tracker of `data`.
CleanedUp(data) ==
    [i \in DOMAIN props |->
        IF /\ SameTracker(props[i].data, data)
           /\ props[i].status = "pending"
           /\ epoch > props[i].exp
        THEN [props[i] EXCEPT !.status = "rejected"]
        ELSE props[i]]

\* find_index_of_ballot_by_data in the pending list.
PendingWith(ps, data) ==
    {i \in DOMAIN ps : ps[i].status = "pending" /\ ps[i].data = data}

\* Mutant of Proposed: no search for a duplicate.
AlwaysProposed(data, expiration) ==
    Append(CleanedUp(data), [data |-> data, votes |-> {}, exp |-> expiration,
                             status |-> "pending"])

\* propose_new: the pending proposal with the same data, or a new one.
\* The result has at least one pending proposal with the data.
Proposed(data, expiration) ==
    LET ps == CleanedUp(data)
    IN  IF PendingWith(ps, data) # {}
        THEN ps
        ELSE Append(ps, [data |-> data, votes |-> {}, exp |-> expiration,
                         status |-> "pending"])

\* The handler of a proposal that passed: propose_voted_offer,
\* maybe_update_authorities and maybe_update_threshold in vote_governance;
\* a payment's handler is in the module that made the proposal.
Execute(data) ==
    \/ /\ data \in Payments
       /\ UNCHANGED <<owners, threshold, offer, offerN>>
    \/ /\ data \notin Payments
       /\ data.addrs = <<>>
       /\ UpdateThreshold(data.n, owners)
       /\ UNCHANGED <<owners, offer>>
    \/ /\ data \notin Payments
       /\ data.addrs # <<>>
       /\ data.add
       /\ offer' = offer \o [i \in DOMAIN data.addrs |->
                        [addr |-> data.addrs[i], exp |-> epoch + OfferDuration]]
       /\ offerN' = IF data.n # None /\ data.n # threshold THEN data.n ELSE offerN
       /\ UNCHANGED <<owners, threshold>>
    \/ /\ data \notin Payments
       /\ data.addrs # <<>>
       /\ ~data.add
       /\ owners' = owners \ Range(data.addrs)
       /\ Cardinality(owners') >= threshold
       /\ UpdateThreshold(data.n, owners')
       /\ UNCHANGED offer

\* vote_impl and the handler, on the proposals `ps` left by the cleanup.
Vote(sender, i, ps) ==
    /\ caged
    /\ sender \in owners
    /\ i \in DOMAIN ps
    /\ ps[i].status = "pending"
    /\ sender \notin ps[i].votes
    /\ LET votes  == ps[i].votes \cup {sender}
           passed == Cardinality(votes) >= threshold
       IN  /\ props' = [ps EXCEPT ![i].votes = votes,
                                  ![i].status = IF passed THEN "approved" ELSE "pending"]
           /\ IF passed
              THEN Execute(ps[i].data)
              ELSE UNCHANGED <<owners, threshold, offer, offerN>>
    /\ UNCHANGED <<epoch, caged, claimed, founders>>

\* validate_owners of multi_action.move: only newcomers are added and only
\* authorities are removed, each named once.
ValidOwners(data) ==
    /\ \A a \in Range(data.addrs) : (a \in owners) = ~data.add
    /\ Distinct(data.addrs)

\* propose_new followed by a vote: what safe.move, donor_voice_txs.move and
\* propose_governance do in one transaction.
Propose(sender, data, duration) ==
    LET ps == Proposed(data, epoch + duration)
    IN  \E i \in PendingWith(ps, data) : Vote(sender, i, ps)

\* propose_governance.
ProposeGovernance(sender, data, duration) ==
    /\ ValidOwners(data)
    /\ Propose(sender, data, duration)

\* vote_governance and vote_with_id, by creation number.
VoteWithId(sender, i) ==
    /\ i \in DOMAIN props
    /\ Vote(sender, i, CleanedUp(props[i].data))

AdvanceEpoch ==
    /\ epoch' = epoch + 1
    /\ UNCHANGED <<caged, owners, threshold, offer, claimed, offerN, props, founders>>

Next ==
    \/ epoch < MaxEpoch /\ AdvanceEpoch
    \/ \E new \in OfferLists, d \in Durations : ProposeOffer(new, d)
    \/ \E a \in Auth : ClaimInitialOffer(a)
    \/ \E n \in 1 .. Cardinality(Auth) : FinalizeAndCage(n)
    \/ \E a \in Auth : ClaimVotedOffer(a)
    \/ \E s \in Auth, g \in GovProposals, d \in Durations :
          ProposeGovernance(s, g, d) /\ Len(props') <= MaxProposals
    \/ \E s \in Auth, p \in Payments, d \in Durations :
          Propose(s, p, d) /\ Len(props') <= MaxProposals
    \/ \E s \in Auth, i \in 1 .. MaxProposals : VoteWithId(s, i)

Spec == Init /\ [][Next]_vars

-----------------------------------------------------------------------------
\* A caged account can always act: the threshold is positive and there are
\* enough authorities to reach it, whatever additions, removals and threshold
\* changes were voted or are waiting in an offer.
QuorumIsPossible == caged => threshold > 0 /\ threshold <= Cardinality(owners)

\* "you cannot have two open proposals for the same transaction"
\* (multi_action.move, propose_new): a duplicate becomes a vote.
OneOpenProposalPerData ==
    \A i, j \in DOMAIN props :
        /\ props[i].status = "pending"
        /\ props[j].status = "pending"
        /\ props[i].data = props[j].data
        => i = j

\* Everyone the authorities have voted to add.
VotedIn ==
    UNION {Range(props[i].data.addrs) :
             i \in {j \in DOMAIN props : /\ props[j].status = "approved"
                                         /\ props[j].data \notin Payments
                                         /\ props[j].data.add}}

\* After the cage nobody becomes an authority (claim_offer) without an approved
\* proposal to add them.
AuthoritiesWereVoted == owners \subseteq founders \cup VotedIn

\* A closed proposal never changes, and an open one closes as approved only
\* before its expiration (vote_impl with lazy_cleanup_expired).
DecisionsAreFinal ==
    [][\A i \in DOMAIN props :
          /\ i \in DOMAIN props'
          /\ props[i].status # "pending" => props'[i] = props[i]
          /\ props[i].status = "pending" /\ props'[i].status = "approved"
                => epoch <= props[i].exp]_vars

\* The thresholds the authorities have voted for.
VotedThresholds ==
    {props[i].data.n : i \in {j \in DOMAIN props : /\ props[j].status = "approved"
                                                  /\ props[j].data \notin Payments}}
    \ {None}

\* After the cage the threshold changes only to one that an approved proposal
\* asked for, also when a claim applies it epochs after the vote, among votes,
\* removals and offers that came in between (vote_governance, claim_offer).
ThresholdsWereVoted ==
    [][caged /\ threshold' # threshold => threshold' \in VotedThresholds']_vars
=============================================================================
