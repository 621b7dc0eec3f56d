\* Nobody is obliged to propose, vote or claim: the account may fall silent.
CHECK_DEADLOCK FALSE
SPECIFICATION Spec
CONSTANTS
    a = a
    b = b
    c = c
    pay = pay
    Auth <- MCAuth
    Payments <- MCPayments
    OfferDuration = 1
    MinClaims = 2
    MaxOffer = 10
    OfferLists <- MCOfferLists
    GovProposals <- MCGovProposals
    Durations <- MCDurations
    MaxEpoch = 2
    MaxProposals = 2
INVARIANTS
    TypeOK
    QuorumIsPossible
    OneOpenProposalPerData
    AuthoritiesWereVoted
PROPERTIES
    DecisionsAreFinal
    ThresholdsWereVoted
