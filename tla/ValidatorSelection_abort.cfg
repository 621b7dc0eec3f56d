SPECIFICATION Spec
CONSTANTS
    v1 = v1
    v2 = v2
    v3 = v3
    v4 = v4
    Validators = {v1, v2, v3, v4}
    Vouches <- AllVouch
    MinSeats = 4
    HealthyThreshold = 9
    BootUpThreshold = 21
    PctReduction = 10
    FirstEval = 2
    FixedOne = 65536
    Performances <- AllOrNothing
    Bids = {1000, 1200}
    Durations = {1}
    GenesisBid = 900
    GenesisExpiry = 1000
    GenesisSets <- Genesis
    MaxEpoch = 4
SYMMETRY ValidatorSymmetry
CHECK_DEADLOCK FALSE
INVARIANT BoundaryCompletes
