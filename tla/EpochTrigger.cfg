SPECIFICATION Spec
CONSTANTS
    Interval = 3
    MaxTime = 9
    MaxEpoch = 6
INVARIANTS
    TypeOK
    EpochsAgree
PROPERTIES
    BoundaryClosesOneEpoch
    BoundariesAreSpaced
    ClockSpec
