\* Two or three requests about one account at a time; two administrators
\* change each other's status, bindings and roles.
SPECIFICATION MCSpec
CONSTANTS
    Procs = {p1, p2, p3}  Links = {l1, l2}  Creds = {c1, c2}
    VerifyMail = TRUE  MaxChanges = 2
    MaxFailures = 2  MaxRequests = 2  Window = 1  LockFor = 1  MaxTime = 3
    Third = p3
    Users = {u1, u2}  Roles = {owner, support}  Owner = owner
    Kinds = {"status", "bind", "role"}  Nothing = Nothing  Nobody = Nobody
    NoRequest = NoRequest  None = None
INVARIANTS
    AccountTypeOK
    SurvivorsAreNewer
    GuessesAreBounded
    AdminRemains
PROPERTIES
    OneTimeSecretsWorkOnce
    NewBindingsAreActive
\* Sessions, links and changes are used up; when no owner is left to act, nothing
\* happens any more.
CHECK_DEADLOCK FALSE
