--------------------------- MODULE CommunityWallet ---------------------------
(***************************************************************************)
(* A community wallet (community_wallet_init.move): a multi-action account *)
(* whose authorities must be numerous enough and unrelated. Its governance *)
(* runs only through change_signer_community_multisig, where a repeated    *)
(* proposal is a vote.                                                     *)
(***************************************************************************)
EXTENDS MultiAction

CONSTANTS
    MinSigs,            \* MINIMUM_SIGS
    MinAuth,            \* MINIMUM_AUTH
    Kin,                \* pairs of relatives, as ancestry.move finds them
    DefaultDuration     \* DEFAULT_EPOCHS_EXPIRE, of payment proposals

ASSUME WalletAssumption ==
    /\ MinSigs \in Nat \ {0}
    /\ MinAuth \in Nat \ {0}
    /\ MinSigs <= MinAuth
    /\ Kin \subseteq Auth \X Auth
    /\ DefaultDuration \in Nat
    /\ \A g \in GovProposals : Len(g.addrs) = 1     \* one signer at a time

\* ancestry::any_family_in_list finds no relatives.
Unrelated(S) == \A x, y \in S : <<x, y>> \notin Kin

\* propose_offer: check_proposed_auths, then the offer with its default
\* duration.
WalletOffer(new, n) ==
    /\ n >= MinSigs
    /\ Len(new) >= MinAuth
    /\ Unrelated(Range(new))
    /\ ProposeOffer(new, OfferDuration)

\* multisig_thresh: the ratio in whole percent.
MultisigThresh(n, m) ==
    /\ n >= MinSigs
    /\ m >= MinAuth
    /\ (100 * n) \div m >= (100 * MinSigs) \div MinAuth

\* finalize_and_cage: the checks follow the cage and abort it as a whole.
WalletFinalize(n) ==
    /\ FinalizeAndCage(n)
    /\ MultisigThresh(n, Cardinality(owners'))
    /\ Unrelated(owners')

\* Mutant of ChangeSigner: the authority to remove is counted.
ChangeSignerCountsRemoved(sender, a, add, n, duration) ==
    /\ n >= MinSigs
    /\ add => \A o \in owners : <<a, o>> \notin Kin
    /\ ~add => Cardinality(owners) >= MinAuth
    /\ ProposeGovernance(sender, [add |-> add, addrs |-> <<a>>, n |-> n], duration)

\* change_signer_community_multisig.
ChangeSigner(sender, a, add, n, duration) ==
    /\ n >= MinSigs
    /\ add => \A o \in owners : <<a, o>> \notin Kin
    /\ ~add => Cardinality(owners) - 1 >= MinAuth
    /\ ProposeGovernance(sender, [add |-> add, addrs |-> <<a>>, n |-> n], duration)

WalletNext ==
    \/ epoch < MaxEpoch /\ AdvanceEpoch
    \/ \E new \in OfferLists, n \in 1 .. Cardinality(Auth) : WalletOffer(new, n)
    \/ \E a \in Auth : ClaimInitialOffer(a)
    \/ \E n \in 1 .. Cardinality(Auth) : WalletFinalize(n)
    \/ \E a \in Auth : ClaimVotedOffer(a)
    \/ \E s \in Auth, g \in GovProposals, d \in Durations :
          /\ ChangeSigner(s, Head(g.addrs), g.add, g.n, d)
          /\ Len(props') <= MaxProposals
    \/ \E s \in Auth, p \in Payments :
          Propose(s, p, DefaultDuration) /\ Len(props') <= MaxProposals

WalletSpec == Init /\ [][WalletNext]_vars

-----------------------------------------------------------------------------
\* The wallet keeps the minimum threshold and the minimum number of
\* authorities of finalize_and_cage through every later change: the checks of
\* change_signer_community_multisig, made when a proposal is made or voted,
\* are enough although the change happens when a candidate claims.
WalletStaysQuorate ==
    caged => threshold >= MinSigs /\ Cardinality(owners) >= MinAuth
=============================================================================
