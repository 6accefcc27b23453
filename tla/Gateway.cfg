SPECIFICATION MCSpec
CONSTANTS
    Channels = {a, b}  Models = {m, n}  Providers = {p, q}  Calls = {k1, k2}
    Spare = b  SpareProvider = p  Main = m  First = k1
    Settings <- MCSettings  FailureThreshold = 2  CircuitDuration = 1
    Requests = {r1, r2, r3}  GroupRPM = 2  MaxLost = 1
    Policies <- MCPolicies  Sizes = {1, 3}
    Probers = {p1, p2}  Interval = 1  LeaseTime = 2  Never = Never  None = None
    Unbounded = Unbounded  Prices <- MCPrices  Groups <- MCGroups  Estimates <- MCEstimates
    Reports <- MCReports  Services = {"", "flex"}
    Syncs = {s1, s2}  Alone = s1  Listings <- MCListings  ListingKeys <- MCKeys
    Currencies = {"USD", "EUR"}  MaxPublished = 3  MaxOfficial = 2  LastTime = 2
INVARIANTS
    AmountsAreRight
    PricesAreCurrent
    CircuitsProtect
    StatusMatchesRouting
    LimitsHold
PROPERTIES
    MonitorsAreProbed
