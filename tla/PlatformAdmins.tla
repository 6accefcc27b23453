-------------------------- MODULE PlatformAdmins --------------------------
(***************************************************************************)
(* Platform administrators: internal/users/admin.go and roles.go.          *)
(*                                                                         *)
(* Administrators change each other's account status, role bindings and    *)
(* the status of roles, each in a READ COMMITTED transaction that takes an *)
(* advisory lock, judges what it reads and writes at its commit.  Status   *)
(* changes and role changes take different locks; that the actor is a      *)
(* platform owner is judged before the transaction of a role change, but   *)
(* inside that of a status change.                                         *)
(*                                                                         *)
(* A status change never writes: its UPDATE passes three arguments and     *)
(* names $2 and $3 only, and PostgreSQL refuses a statement with a         *)
(* parameter whose type nothing determines.  What it judges is modelled,   *)
(* and that it is then rolled back.                                        *)
(*                                                                         *)
(* Abstractions: permissions of a role, profile fields, MFA; the reads of  *)
(* one transaction are one step; an actor runs one operation at a time.    *)
(***************************************************************************)
EXTENDS Naturals, FiniteSets

CONSTANTS
    Users,
    Roles,
    Owner,      \* the role platform_owner
    Kinds,      \* the operations in use, a subset of {"status", "bind", "role"}
    Nobody, Nothing

ASSUME RolesAssumption ==
    /\ Owner \in Roles
    /\ Kinds \subseteq {"status", "bind", "role"}
    /\ Nobody \notin Users
    /\ IsFiniteSet(Users)

VARIABLES
    status,      \* users.status
    roleStatus,  \* platform_roles.status, "absent" before the role is created
    bound,       \* platform_user_roles
    holder,      \* who holds which advisory lock
    tx           \* the operation each administrator is running

vars == <<status, roleStatus, bound, holder, tx>>

UserStatus == {"pending", "active", "locked", "disabled"}
RoleStatus == {"absent", "active", "disabled"}
LockNames  == {"platform-admin-status", "platform-role-bindings"}

Operations ==
         [kind : {"status"}, target : Users, to : UserStatus \ {"pending"}]
    \cup [kind : {"bind"}, target : Users, to : SUBSET Roles]
    \cup [kind : {"role"}, target : Roles, to : {"active", "disabled"}]

Idle == [pc |-> "idle", op |-> Nothing]

LockOf(op) == IF op.kind = "status" THEN "platform-admin-status"
                                    ELSE "platform-role-bindings"

-----------------------------------------------------------------------------
ActiveRoles(u) == {r \in Roles : <<u, r>> \in bound /\ roleStatus[r] = "active"}

\* A user with an active role, whatever the status of the account.
HasActiveRole(u) == ActiveRoles(u) # {}

\* COUNT(DISTINCT u.id) of active users with an active role
ActiveAdmins == {u \in Users : status[u] = "active" /\ HasActiveRole(u)}

\* requirePlatformOwner
IsOwner(u) == status[u] = "active" /\ Owner \in ActiveRoles(u)

\* ensurePlatformOwnerMutation: only owners touch the account of an owner.
MayMutate(a, u) == Owner \in ActiveRoles(u) => IsOwner(a)

\* Mutant: the role that is being disabled is counted.
AnAdminRemains(r) == ActiveAdmins # {}

\* ensurePlatformAdminRemains, when role r is being disabled
AdminRemainsWithout(r) ==
    \E u \in Users : status[u] = "active" /\ ActiveRoles(u) \ {r} # {}

\* What the transaction of an operation checks after it has its lock.
Allowed(a, op) ==
    CASE op.kind = "status" ->
            /\ MayMutate(a, op.target)
            /\ status[op.target] # "pending"
            /\ op.to # "active" /\ HasActiveRole(op.target) => Cardinality(ActiveAdmins) > 1
      [] op.kind = "bind" ->
            /\ status[op.target] = "active"
            /\ \A r \in op.to : roleStatus[r] = "active"
            /\ HasActiveRole(op.target) /\ op.to = {} => ActiveAdmins \ {op.target} # {}
      [] op.kind = "role" ->
            /\ op.target # Owner
            /\ roleStatus[op.target] # "absent"
            /\ roleStatus[op.target] = "active" /\ op.to # "active" =>
                  AdminRemainsWithout(op.target)

-----------------------------------------------------------------------------
Init ==
    /\ status \in [Users -> UserStatus]
    /\ roleStatus \in {f \in [Roles -> RoleStatus] : f[Owner] = "active"}
    /\ bound \in {b \in SUBSET (Users \X Roles) :
                    /\ \A p \in b : roleStatus[p[2]] # "absent"
                    /\ \E u \in Users : status[u] = "active" /\ <<u, Owner>> \in b}
    /\ holder = [l \in LockNames |-> Nobody]
    /\ tx = [a \in Users |-> Idle]

\* A request of an administrator is authenticated; a role change requires a
\* platform owner; nobody changes the own account.
Begin(a, op) ==
    /\ tx[a].pc = "idle"
    /\ a \in ActiveAdmins
    /\ op.kind # "role" => op.target # a
    /\ op.kind # "status" => IsOwner(a)
    /\ tx' = [tx EXCEPT ![a] = [pc |-> "waiting", op |-> op]]
    /\ UNCHANGED <<status, roleStatus, bound, holder>>

\* Mutant: the lock is not taken.
Proceed(a) ==
    /\ tx[a].pc = "waiting"
    /\ tx' = [tx EXCEPT ![a].pc = "locked"]
    /\ UNCHANGED <<status, roleStatus, bound, holder>>

\* pg_advisory_xact_lock
Lock(a) ==
    /\ tx[a].pc = "waiting"
    /\ holder[LockOf(tx[a].op)] = Nobody
    /\ holder' = [holder EXCEPT ![LockOf(tx[a].op)] = a]
    /\ tx' = [tx EXCEPT ![a].pc = "locked"]
    /\ UNCHANGED <<status, roleStatus, bound>>

Judge(a) ==
    /\ tx[a].pc = "locked"
    /\ Allowed(a, tx[a].op)
    /\ tx' = [tx EXCEPT ![a].pc = "judged"]
    /\ UNCHANGED <<status, roleStatus, bound, holder>>

\* The transaction ends and its lock is free.
End(a) ==
    /\ tx' = [tx EXCEPT ![a] = Idle]
    /\ holder' = [l \in LockNames |-> IF holder[l] = a THEN Nobody ELSE holder[l]]

CommitBindings(a, op) ==
    /\ op.kind = "bind"
    /\ bound' = {p \in bound : p[1] # op.target} \cup ({op.target} \X op.to)
    /\ UNCHANGED <<status, roleStatus>>

CommitRole(a, op) ==
    /\ op.kind = "role"
    /\ roleStatus' = [roleStatus EXCEPT ![op.target] = op.to]
    /\ UNCHANGED <<status, bound>>

\* Nothing is written for a judged status change: its UPDATE fails.
Commit(a) ==
    /\ tx[a].pc = "judged"
    /\ LET op == tx[a].op IN CommitBindings(a, op) \/ CommitRole(a, op)
    /\ End(a)

\* An operation that is refused, fails or loses its server is rolled back.
Rollback(a) ==
    /\ tx[a].pc # "idle"
    /\ End(a)
    /\ UNCHANGED <<status, roleStatus, bound>>

\* CreatePlatformRole takes no lock: a new role has no members.  Its check of
\* the actor and its insert are one step here.
CreateRole(a, r, s) ==
    /\ "role" \in Kinds
    /\ IsOwner(a)
    /\ roleStatus[r] = "absent"
    /\ roleStatus' = [roleStatus EXCEPT ![r] = s]
    /\ UNCHANGED <<status, bound, holder, tx>>

\* The owner of an account confirms its e-mail address.
Verify(u) ==
    /\ status[u] = "pending"
    /\ status' = [status EXCEPT ![u] = "active"]
    /\ UNCHANGED <<roleStatus, bound, holder, tx>>

Next ==
    \E a \in Users :
        \/ \E op \in Operations : op.kind \in Kinds /\ Begin(a, op)
        \/ Lock(a) \/ Judge(a) \/ Commit(a) \/ Rollback(a) \/ Verify(a)
        \/ \E r \in Roles, s \in {"active", "disabled"} : CreateRole(a, r, s)

Spec == Init /\ [][Next]_vars

\* An operation that is allowed to commit again and again does: refusals and
\* failures do not go on for ever.
Fairness ==
    \A op \in {o \in Operations : o.kind \in Kinds} :
        SF_vars(\E a \in Users : tx[a].op = op /\ Commit(a))

FairSpec == Spec /\ Fairness

-----------------------------------------------------------------------------
\* The types; who has judged still has the lock; and bindings are to roles
\* that exist.
TypeOK ==
    /\ status \in [Users -> UserStatus]
    /\ roleStatus \in [Roles -> RoleStatus]
    /\ bound \subseteq Users \X Roles
    /\ holder \in [LockNames -> Users \cup {Nobody}]
    /\ tx \in [Users -> [pc : {"idle", "waiting", "locked", "judged"},
                         op : Operations \cup {Nothing}]]
    /\ \A a \in Users : tx[a].pc \in {"locked", "judged"} => holder[LockOf(tx[a].op)] = a
    /\ \A p \in bound : roleStatus[p[2]] # "absent"

\* The platform is never left without an administrator who can sign in: two
\* administrators who act at the same time cannot both be allowed to remove
\* what each of them takes for the other one.
AdminRemains == ActiveAdmins # {}

\* An administrator who is allowed again and again to give another account a
\* status succeeds with it in the end, as profile_integration_test.go:204-206
\* expects of disabling one of two platform administrators.
StatusChangesTakeEffect ==
    \A u \in Users, s \in UserStatus \ {"pending"} :
        []<>(\E a \in Users : tx[a].pc = "judged"
                              /\ tx[a].op = [kind |-> "status", target |-> u, to |-> s])
            => []<>(status[u] = s)

\* A binding that is being made is to a role that is active at that moment,
\* although roles are disabled concurrently.
NewBindingsAreActive ==
    [][\A p \in bound' \ bound : roleStatus[p[2]] = "active"]_vars
=============================================================================
