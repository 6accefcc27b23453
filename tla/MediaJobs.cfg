\* One paid or free video: a handler that creates and polls, the reconciler and
\* the reaper; failover between two channels.  Or three videos in sweeps of two.
SPECIFICATION MCSpec
CONSTANTS
    t1 = t1  k1 = k1  c1 = c1
    Tenants = {t1}  Tokens = {k1}  Channels = {c1, c2}  Models = {c1, c2}
    NumRequests = 3  NumCredits = 0  MaxUsage = 1  CreditAmounts = {}  BatchLimit = 1
    TokenOf <- OneKey  TenantOf <- OneTenant  SpendLimit <- NoLimit
    ModelOf <- OwnModel  Charge <- NoPrices  Prepared <- AllMeters  ZeroUsageModels = {}
    NoUsage = NoUsage  NoTenant = NoTenant  NoModel = NoModel  NoChannel = NoChannel
    Handlers = {h1}  Reconcilers = {s}  JobLimit = 2
    BillingTypes = {"prepaid", "free"}  EstimateOf <- EstimateOne
    Unpriced = {c2}  Unverifiable = {c2}
INVARIANTS
    MediaTypeOK
    AcceptedKeepsItsBill
PROPERTIES
    ChargedAsDone
    PendingIsSettled
\* The reconciler has nothing to do and no job is left to create.
CHECK_DEADLOCK FALSE
