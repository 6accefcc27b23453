\* A claim of the code's comments that the code does not keep.
SPECIFICATION RelaySpec
CONSTANTS
    t1 = t1  k1 = k1  cheap = cheap  dear = dear  first = first  retry = retry
    Tenants = {t1}  Tokens = {k1}  Channels = {cheap, dear}  Models = {cheap, dear}
    NumRequests = 1  NumCredits = 1  MaxUsage = 1  CreditAmounts = {3}  BatchLimit = 1
    TokenOf <- OneKey  TenantOf <- OneTenant  SpendLimit <- NoLimit
    ModelOf <- OwnModel  Charge <- SmallPrices  Prepared <- AllMeters  ZeroUsageModels = {dear}
    NoUsage = NoUsage  NoTenant = NoTenant  NoModel = NoModel  NoChannel = NoChannel
    Calls = {first}  Streams = {first}  BillingTypes = {"prepaid"}
    KeyOf <- SameKey  EstimateOf <- EstimateOne
    Priority <- CheapFirst  Weight <- SameWeight
    Unpriced = {}  MaxStreamAttempts = 2
INVARIANT
    ServedIsNeverFree
\* The only key is used and every call has ended: no more work.
CHECK_DEADLOCK FALSE
