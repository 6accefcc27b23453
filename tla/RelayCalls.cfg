\* A stream and a buffered retry with the same key, paid or free; the price of
\* dear may be missing.
SPECIFICATION RelayFairSpec
CONSTANTS
    t1 = t1  k1 = k1  cheap = cheap  dear = dear  first = first  retry = retry
    Tenants = {t1}  Tokens = {k1}  Channels = {cheap, dear}  Models = {cheap, dear}
    NumRequests = 1  NumCredits = 1  MaxUsage = 1  CreditAmounts = {3}  BatchLimit = 1
    TokenOf <- OneKey  TenantOf <- OneTenant  SpendLimit <- NoLimit
    ModelOf <- OwnModel  Charge <- SmallPrices  Prepared <- AllMeters  ZeroUsageModels = {dear}
    NoUsage = NoUsage  NoTenant = NoTenant  NoModel = NoModel  NoChannel = NoChannel
    Calls = {first, retry}  Streams = {first}  BillingTypes = {"prepaid", "free"}
    KeyOf <- SameKey  EstimateOf <- EstimateOne
    Priority <- CheapFirst  Weight <- SameWeight
    Unpriced = {dear}  MaxStreamAttempts = 2
INVARIANTS
    CallTypeOK
    ServedIsBilledOnce
    RefundsAreForTheUnserved
PROPERTIES
    NoFailoverAfterOutput
    HoldsAreResolved
\* The only key is used and every call has ended: no more work.
CHECK_DEADLOCK FALSE
