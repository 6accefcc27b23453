\* A claim of the documentation that the code does not keep.
SPECIFICATION MCSpec
CONSTANTS
    t1 = t1  t2 = t2  k1 = k1  k2 = k2  x1 = x1  cheap = cheap  dear = dear
    Tokens = {k1, k2}
    NumCredits = 1
    MaxUsage = 2
    CreditAmounts = {3}
    BatchLimit = 1
    SpendLimit <- LimitOfTwo
    ModelOf <- OwnModel
    Charge <- SmallPrices
    Prepared <- DearMeters
    NoUsage = NoUsage  NoTenant = NoTenant  NoModel = NoModel  NoChannel = NoChannel
    Tenants = {t1}
    Channels = {cheap, dear}
    Models = {cheap, dear}
    ZeroUsageModels = {dear}
    NumRequests = 2
    TokenOf <- OneToken
    TenantOf <- OneTenant
    Transactions = {x1}  Keys = {1, 2}  ApiTokens = {k1, k2}  ApiProjects = {p1}
    KeyToken <- TokenPerKey
    KeyAccount <- AccountPerKey
INVARIANT
    ReservedWithinSpendLimit
CHECK_DEADLOCK FALSE
