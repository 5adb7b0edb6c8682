\* Two requests in progress at once.  A service may run out of what its bounds
\* allow, and a settled trade or request has no next step.
SPECIFICATION Spec
CONSTANTS
    Requests = {r1, r2}
    r1 = r1
    r2 = r2
    \* Two payments of each kind would only repeat each other: they share
    \* nothing but useDatabase.
    StellarPayments = {"transaction"}
    BasePayments = {"authorization"}
    MaxServed = 2
    \* Two addresses and room for one challenge, so that one pushes out the other.
    Addresses = {"alice", "bob"}
    MaxChallenges = 1
    MaxIssued = 2
    MaxTokens = 1
    \* Each limit is reached by the trades there are.
    MaxTrades = 3
    BuyerMax = 1
    SellerCap = 2
    MonthlyCeiling = 1
    MaxVolume = 3
    MaxDeals = 2
    PauseThreshold = 2
    Codes = {"first", "second"}
    SignIds = {"sign"}
    \* A session of each level.
    DiditIds = {"low", "high"}
    HighDiditIds = {"high"}
    \* One id more than there can be requests.
    EtherfuseIds = {"id1", "id2", "id3"}
    NoId = "none"
    \* A lock, a release and a transaction too many.
    Times = {1, 2}
    LastSequence = 3
    \* Enough locks for both requests and one more.
    Intents = {"intent1", "intent2"}
    MaxLocks = 3
    MaxBroadcasts = 2
    Circuits = {"access"}
    Circuit = "access"
    Keys = {"key"}
    Nullifiers = {"n"}
    Provable <- ProvableByTheKey
    Roots = {"pool", "other"}
    PoolRoot = "pool"
    NoKey = "none"
    NoRoot = "none"
    Stamps = {1, 2}
    MaxSequence = 2
    Recipients = {"alice", "bob"}
    BadgeIds = {1, 2, 3, 4, 5}
SYMMETRY Symmetry
INVARIANTS
    ServedPaid
    BaseServedOnce
    ChallengesBounded
    LogoutHolds
    MonthlyCap
    DailyLimit
    PauseNotMissed
    TradesBlockDeletion
    BurntCodesFail
    OutcomesBounded
    LevelFollowsSessions
    FewCustomerIds
    RowBacked
    LocksBounded
    HistoryCounts
    SoldOnce
    AnsweredBySpend
    ReadersAgree
PROPERTIES
    ChallengeSpent
CHECK_DEADLOCK FALSE
