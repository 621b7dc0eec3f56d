\* Nobody is obliged to propose, vote or claim: the account may fall silent.
CHECK_DEADLOCK FALSE
SPECIFICATION WalletSpec
CONSTANTS
    a = a
    b = b
    c = c
    d = d
    e = e
    pay = pay
    Auth <- MCAuth
    Payments <- MCPayments
    OfferDuration = 1
    MinClaims = 2
    MaxOffer = 10
    OfferLists <- MCOfferLists
    GovProposals <- MCChanges
    Durations <- MCDurations
    MaxEpoch = 2
    MaxProposals = 3
    MinSigs = 2
    MinAuth = 3
    Kin <- MCKin
    DefaultDuration = 2
INVARIANTS
    WalletStaysQuorate
