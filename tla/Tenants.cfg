\* Three members change each other, two projects and one token.
SPECIFICATION MCSpec
CONSTANTS
    Users = {founder, other, third}  Third = third  Projects = {main, side}  Tokens = {k}
    Founder = founder  DefaultProject = main
    Nobody = Nobody  Nothing = Nothing
INVARIANTS
    TenantTypeOK
    OwnerRemains
PROPERTIES
    ManagersAreChangedByOwners
    CutOffIsFinal
