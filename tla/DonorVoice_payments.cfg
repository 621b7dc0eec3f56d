SPECIFICATION FairSpec
CONSTANTS
    alice = alice
    bob = bob
    w1 = w1
    w2 = w2
    FixedOne = 65536
    Voters = {alice, bob}
    Wallets = {w1, w2}
    ToMatchIndex = {w2}
    PaymentDelay = 0
    VetoDuration = 1
    LiquidateDuration = 1
    Values = {10}
    InitialDonations <- FirstMayGrow
    Gifts = {4}
    MaxEpoch = 3
    MaxPayments = 1
    MaxDonated = 12
PROPERTY PaymentsComplete
CHECK_DEADLOCK FALSE
