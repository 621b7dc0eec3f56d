CONSTANTS
    val = val
    usr = usr
    com = com
    safe = safe
    new = new
    p1 = p1
    p2 = p2
    Accounts = {val, usr, com, safe, new}
    Caged = {com}
    Safes = {safe}
    Pledgers = {p1, p2}
    StartBalance <- MCStartBalance
    StartUnlocked <- MCStartUnlocked
    StartPledge <- MCStartPledge
    Amounts = {1, 2}
    GasFees = {1}
    EntryFees = {1}
    Rewards = {2}
    FirstPrice = 1
    Drip = 1
    InitLimit = 1
    SafeFee = 8
    One = 16
    MaxU64 = 16
    MaxEpoch = 2
SPECIFICATION Spec
INVARIANT UnlockedWithinTotal
CHECK_DEADLOCK FALSE
