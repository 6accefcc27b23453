\* Two concurrent requests of one token with a spend limit, two providers, and
\* the reaper under fairness; three transactions that meet in the locks of one token.
SPECIFICATION MCSpec
CONSTANTS
    t1 = t1  t2 = t2  k1 = k1  k2 = k2  x1 = x1  cheap = cheap  dear = dear
    Tokens = {k1, k2}
    NumCredits = 1
    MaxUsage = 2
    CreditAmounts = {3}
    BatchLimit = 1
    SpendLimit <- LimitOfTwo
    ModelOf <- OwnModel
    Charge <- SmallPrices
    Prepared <- DearMeters
    NoUsage = NoUsage  NoTenant = NoTenant  NoModel = NoModel  NoChannel = NoChannel
    Tenants = {t1}
    Channels = {cheap, dear}
    Models = {cheap, dear}
    ZeroUsageModels = {dear}
    NumRequests = 2
    TokenOf <- OneToken
    TenantOf <- OneTenant
    Transactions = {x1, x2, x3}  Keys = {1, 2}  ApiTokens = {k1, k2}  ApiProjects = {p1}
    KeyToken <- TokenPerKey
    KeyAccount <- AccountPerKey
INVARIANTS
    TypeOK
    MoneyIsConserved
    PricedByChannel
    RowsAgree
    BillsDeadlockOverMembersOnly
PROPERTIES
    DecidedOnce
    AdmittedWithinLimits
    ImplementsAccount
    OverdueHoldsAreSwept
\* Every request closed and every key used: the instance has no more work.
CHECK_DEADLOCK FALSE
