CONSTANTS
    u1 = u1
    u2 = u2
    v1 = v1
    v2 = v2
    wrong = wrong
    donor = donor
    wallet = wallet
    None = None
    Bootstrap = 2
    Addresses = {v1, donor, wallet}
    Wallets = {wallet}
    Users <- MCUsers
    Account <- MCAccount
    Inputs <- MCInputs
    MaxVersion = 1
    MaxFaults = 2
SPECIFICATION Spec
INVARIANTS  BlobsAgree GenesisIsFaithful
PROPERTY RegistrationCompletes
