SPECIFICATION FairSpec
CONSTANTS
    Interval = 20
PROPERTIES
    ReadyIsConsumed
    BoundariesRecur
