SPECIFICATION Spec
CONSTANTS
    a1 = a1
    a2 = a2
    b1 = b1
    b2 = b2
    m1 = m1
    m2 = m2
    starter = starter
    medal = medal
    prize = prize
    Accounts = {a1, a2}
    Batches = {b1, b2}
    Missions = {m1, m2}
    NoMission = NoMission
    Items = {starter, medal, prize}
    RankItems = {starter, medal}
    Transactions = {t1}
    Codes = {c1}
    Gain <- MCGain
    UnlockAt <- MCUnlockAt
    NextMission <- MCNextMission
    RewardItem <- MCRewardItem
    RewardXp <- MCRewardXp
    Keep = 1
    MaxXp = 3
    LocalXp = {1}
    StartCoins = 1
    MaxChanges = 3
CONSTRAINT Bounded
SYMMETRY Symmetry
INVARIANT Resumable
INVARIANT AwardsFollow
INVARIANT OneActive
INVARIANT Ledger
PROPERTY AtomicUpdates
