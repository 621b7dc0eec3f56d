\* Bounds end a behaviour; nobody is obliged to run the batch.
CHECK_DEADLOCK FALSE
SPECIFICATION BatchSpec
SYMMETRY MCSymmetry
CONSTANTS
    a = a
    b = b
    p = p
    q = q
    Auth <- MCAuth
    Payments <- MCPayments
    OfferDuration = 1
    MinClaims = 2
    MaxOffer = 10
    OfferLists = {}
    GovProposals = {}
    Durations = {}
    MaxEpoch = 1
    MaxProposals = 4
    Batch <- MCBatch
    Slow = {p, q}
    Sigs = 2
    PayDuration = 0
    MaxFaults = 1
    MaxAhead = 1
INVARIANTS
    BatchTypeOK
    FilesAreBacked
    FirstPaymentVotedOnce
