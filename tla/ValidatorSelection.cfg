SPECIFICATION Spec
CONSTANTS
    v1 = v1
    v2 = v2
    v3 = v3
    v4 = v4
    Validators = {v1, v2, v3, v4}
    Vouches <- AllVouch
    MinSeats = 2
    HealthyThreshold = 2
    BootUpThreshold = 4
    PctReduction = 25
    FirstEval = 2
    FixedOne = 65536
    Performances <- MCPerformances
    Bids = {1000, 1200}
    Durations = {1}
    GenesisBid = 900
    GenesisExpiry = 1000
    GenesisSets <- Genesis
    MaxEpoch = 4
SYMMETRY ValidatorSymmetry
INVARIANT TypeOK
INVARIANT SetStaysViable
PROPERTY EntrantsAreQualified
PROPERTY JailedSitOut
PROPERTY NewcomersAreFew
CHECK_DEADLOCK FALSE
