\* Two administrators and their status changes, under fairness.
SPECIFICATION FairSpec
CONSTANTS
    Users = {u1, u2}  Roles = {owner}  Owner = owner
    Kinds = {"status"}
    Nobody = Nobody  Nothing = Nothing
PROPERTY
    StatusChangesTakeEffect
\* When no owner is left to act, nothing happens any more.
CHECK_DEADLOCK FALSE
