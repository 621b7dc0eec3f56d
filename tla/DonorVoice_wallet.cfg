SPECIFICATION Spec
CONSTANTS
    alice = alice
    bob = bob
    w1 = w1
    w2 = w2
    FixedOne = 65536
    Voters = {alice, bob}
    Wallets = {w1}
    ToMatchIndex = {}
    PaymentDelay = 1
    VetoDuration = 2
    LiquidateDuration = 3
    Values = {4}
    InitialDonations <- EqualOrUnequal
    Gifts = {4}
    MaxEpoch = 4
    MaxPayments = 3
    MaxDonated = 12
SYMMETRY DonorSymmetry
INVARIANT TypeOK
INVARIANT PaymentsSettleOnce
INVARIANT VotesAreDonations
INVARIANT FrozenForAReason
INVARIANT FundsAreAccountedFor
PROPERTY VetoesWereCarried
PROPERTY PaymentsWait
PROPERTY LiquidatedWalletsDoNotPay
CHECK_DEADLOCK FALSE
