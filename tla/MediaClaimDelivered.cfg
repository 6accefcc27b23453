\* One paid video on one channel.
SPECIFICATION OneSpec
CONSTANTS
    t1 = t1  k1 = k1  c1 = c1
    Tenants = {t1}  Tokens = {k1}  Channels = {c1}  Models = {c1}
    NumRequests = 1  NumCredits = 0  MaxUsage = 1  CreditAmounts = {}  BatchLimit = 1
    TokenOf <- OneKey  TenantOf <- OneTenant  SpendLimit <- NoLimit
    ModelOf <- OwnModel  Charge <- NoPrices  Prepared <- AllMeters  ZeroUsageModels = {}
    NoUsage = NoUsage  NoTenant = NoTenant  NoModel = NoModel  NoChannel = NoChannel
    Handlers = {h1}  Reconcilers = {s}  JobLimit = 1
    BillingTypes = {"prepaid"}  EstimateOf <- NoEstimate
    Unpriced = {}  Unverifiable = {}
PROPERTY
    ChargedIsDelivered
CHECK_DEADLOCK FALSE
