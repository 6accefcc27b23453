------------------------------ MODULE Tenants ------------------------------
(***************************************************************************)
(* One tenant: members, projects, project members and API tokens.          *)
(* internal/users/tenant.go, internal/tokens/{issuer,console}.go and the   *)
(* resolver that admits a token, internal/auth/sql_resolver.go.            *)
(*                                                                         *)
(* A member or project operation is a READ COMMITTED transaction under an  *)
(* advisory lock, of the tenant's members or of one project.  Permissions  *)
(* come from the session and, for projects, from a read before the         *)
(* transaction.  Its UPDATE or DELETE of many rows sees the rows there are *)
(* when it runs, locks them until the commit, and misses those that come   *)
(* later.  Token operations take no lock: issuing and moving a token check *)
(* first and write later.                                                  *)
(*                                                                         *)
(* Abstractions: names, scopes, limits, expiry and groups of tokens; the   *)
(* tenant itself stays active; the reads of a transaction are one step, so *)
(* are its writes; tokens are limited by the set Tokens, projects by       *)
(* Projects; changes of accounts succeed (see PlatformAdmins).             *)
(***************************************************************************)
EXTENDS Naturals, FiniteSets

CONSTANTS
    Users, Projects, Tokens,
    Founder,         \* registered the tenant and its default project
    DefaultProject,
    Nobody, Nothing

ASSUME TenantsAssumption ==
    /\ Founder \in Users /\ DefaultProject \in Projects
    /\ Nobody \notin Users

VARIABLES
    account,   \* users.status
    member,    \* tenant_members: role_code and status
    project,   \* projects.status, "deleted" once deleted_at is set
    prole,     \* project_members.role_code
    token,     \* api_tokens: created_by, project_id, status
    holder,    \* who holds which advisory lock
    tx         \* the operation each user is running

tenantVars == <<account, member, project, prole, token, holder, tx>>

Managers      == {"tenant_owner", "tenant_admin"}
MemberRole    == Managers \cup {"developer", "viewer"}
ProjectRole   == {"project_admin", "developer", "viewer"}
MemberKinds   == {"add", "update", "remove"}
ProjectKinds  == {"setProject", "deleteProject"}
PMemberKinds  == {"addTo", "changeIn", "removeFrom"}
CutKinds      == {"update", "remove", "changeIn", "removeFrom"} \cup ProjectKinds
TokenKinds    == {"issue", "move"}
Kinds == MemberKinds \cup {"create"} \cup ProjectKinds \cup PMemberKinds \cup TokenKinds

\* cut: the tokens the transaction is revoking; rows: the projects whose rows of
\* a member it is deleting
Idle == [pc |-> "idle", kind |-> Nothing, project |-> Nothing, input |-> Nothing, cut |-> {}, rows |-> {}]

\* The operation t, further on.
Running(t, pc, input, cut, rows) ==
    [pc |-> pc, kind |-> t.kind, project |-> t.project, input |-> input, cut |-> cut, rows |-> rows]

\* Past the lock and the checks
Judged(t) == t.pc \in {"judged", "written"}

\* CreateProject locks the members of the tenant, like the member operations;
\* token operations lock nothing.
TenantLock == "tenant-members"
LockOf(t) == IF t.kind \in MemberKinds \cup {"create"} THEN TenantLock ELSE t.project

-----------------------------------------------------------------------------
\* tenantRole: the role of an active member whose account is active
RoleOf(u) == IF account[u] = "active" /\ member[u].status = "active"
             THEN member[u].role ELSE "none"

IsActiveOwner(u) == member[u].role = "tenant_owner" /\ member[u].status = "active"

\* Mutant: administrators manage administrators and owners.
ManagersManageAll(actorRole, role) == actorRole \in Managers

\* canManageRole
CanManageRole(actorRole, role) ==
    \/ actorRole = "tenant_owner"
    \/ actorRole = "tenant_admin" /\ role \notin Managers

\* requireProjectManager
ManagesProject(u, p) ==
    \/ RoleOf(u) \in Managers
    \/ RoleOf(u) # "none" /\ project[p] = "active" /\ prole[<<u, p>>] = "project_admin"

\* Who may issue a token for a project, and whose tokens the resolver admits.
MayUse(u, p) ==
    /\ project[p] = "active"
    /\ \/ RoleOf(u) \in Managers
       \/ RoleOf(u) # "none" /\ prole[<<u, p>>] \in {"project_admin", "developer"}

\* SQLResolver.Resolve
Admitted(k) == token[k].status = "active" /\ MayUse(token[k].by, token[k].project)

\* The permissions of a session are those of the role at authentication.
Permitted(u, kind) ==
    \/ RoleOf(u) \in Managers
    \/ kind \in TokenKinds /\ RoleOf(u) = "developer"
    \/ kind \in ProjectKinds \cup PMemberKinds \cup {"create"} /\ RoleOf(u) # "none"
          /\ \E p \in Projects : project[p] = "active" /\ prole[<<u, p>>] = "project_admin"

-----------------------------------------------------------------------------
Init ==
    /\ account = [u \in Users |-> "active"]
    /\ member  = [u \in Users |-> IF u = Founder
                                  THEN [role |-> "tenant_owner", status |-> "active"]
                                  ELSE [role |-> "none", status |-> "none"]]
    /\ project = [p \in Projects |-> IF p = DefaultProject THEN "active" ELSE "none"]
    /\ prole   = [up \in Users \X Projects |->
                     IF up = <<Founder, DefaultProject>> THEN "project_admin" ELSE "none"]
    /\ token   = [k \in Tokens |-> [by |-> Nobody, project |-> Nothing, status |-> "none"]]
    /\ holder  = [l \in Projects \cup {TenantLock} |-> Nobody]
    /\ tx      = [u \in Users |-> Idle]

\* The tokens of S are revoked in the same transaction.
Revoked(S) == [k \in Tokens |-> IF k \in S /\ token[k].status = "active"
                                THEN [token[k] EXCEPT !.status = "revoked"] ELSE token[k]]
TokensBy(u) == {k \in Tokens : token[k].by = u}
TokensIn(p) == {k \in Tokens : token[k].project = p}

\* A request is authenticated and passes the checks before its transaction.
Begin(a, kind, p) ==
    /\ tx[a].pc = "idle"
    /\ Permitted(a, kind)
    /\ kind \in {"create"} \cup ProjectKinds => RoleOf(a) \in Managers
    /\ kind \in PMemberKinds => ManagesProject(a, p)
    /\ tx' = [tx EXCEPT ![a] = [Idle EXCEPT !.pc = "begun", !.kind = kind, !.project = p]]
    /\ UNCHANGED <<account, member, project, prole, token, holder>>

\* Mutant: the transaction does not take its lock.
JudgeUnlocked(a, kind, input) ==
    /\ tx[a].pc = "begun" /\ tx[a].kind = kind
    /\ holder' = holder
    /\ tx' = [tx EXCEPT ![a] = Running(tx[a], "judged", input, {}, {})]
    /\ UNCHANGED <<account, member, project, prole, token>>

\* The transaction takes its lock and judges what it reads.
Judge(a, kind, input) ==
    /\ tx[a].pc = "begun" /\ tx[a].kind = kind
    /\ holder[LockOf(tx[a])] = Nobody
    /\ holder' = [holder EXCEPT ![LockOf(tx[a])] = a]
    /\ tx' = [tx EXCEPT ![a] = Running(tx[a], "judged", input, {}, {})]
    /\ UNCHANGED <<account, member, project, prole, token>>

\* The tokens the operation is to revoke
ToCut(t) ==
    CASE t.kind = "update" /\ (t.input.status # "active" \/ t.input.role = "viewer") -> TokensBy(t.input.user)
      [] t.kind = "remove" -> TokensBy(t.input.user)
      [] t.kind \in ProjectKinds /\ t.input.status # "active" -> TokensIn(t.project)
      [] t.kind = "removeFrom" \/ (t.kind = "changeIn" /\ t.input.role = "viewer") ->
            TokensBy(t.input.user) \cap TokensIn(t.project)
      [] OTHER -> {}

\* The row of project_members another transaction has selected FOR UPDATE
RowLocked(u, p) ==
    \E b \in Users : /\ Judged(tx[b]) /\ tx[b].kind \in {"changeIn", "removeFrom"}
                     /\ tx[b].project = p /\ tx[b].input.user = u

\* UPDATE api_tokens, and DELETE FROM project_members when a member is removed:
\* the rows that are there now are locked, and change with the commit.
Write(a) ==
    /\ tx[a].pc = "judged" /\ tx[a].kind \in CutKinds
    /\ LET u == tx[a].input.user
           cut  == {k \in ToCut(tx[a]) : token[k].status = "active"}
           rows == IF tx[a].kind = "remove" THEN {p \in Projects : prole[<<u, p>>] # "none"} ELSE {}
       IN  /\ \A p \in rows : ~ RowLocked(u, p)
           /\ tx' = [tx EXCEPT ![a] = Running(tx[a], "written", tx[a].input, cut, rows)]
    /\ UNCHANGED <<account, member, project, prole, token, holder>>

\* No transaction is deleting the row of u in p.
RowStays(u, p) == \A b \in Users : p \in tx[b].rows => tx[b].input.user # u

\* No transaction is revoking the token: an UPDATE of its row does not wait.
TokenFree(k) == \A b \in Users : k \notin tx[b].cut

Finishing(a, kind) ==
    /\ tx[a].pc = (IF kind \in CutKinds THEN "written" ELSE "judged") /\ tx[a].kind = kind
    /\ tx' = [tx EXCEPT ![a] = Idle]
    /\ holder' = [l \in DOMAIN holder |-> IF holder[l] = a THEN Nobody ELSE holder[l]]

\* A request that is refused, fails or loses its server changes nothing.
Rollback(a) ==
    /\ tx[a].pc # "idle"
    /\ tx' = [tx EXCEPT ![a] = Idle]
    /\ holder' = [l \in DOMAIN holder |-> IF holder[l] = a THEN Nobody ELSE holder[l]]
    /\ UNCHANGED <<account, member, project, prole, token>>

-----------------------------------------------------------------------------
(* Members *)

\* Mutant: the user to be demoted or removed is counted.
AnyOwners(u) == {o \in Users : IsActiveOwner(o)}

\* The owners the last-owner check counts; it does not look at their accounts.
OtherOwners(u) == {o \in Users \ {u} : IsActiveOwner(o)}

JudgeAdd(a, u, role) ==
    /\ CanManageRole(RoleOf(a), role)
    /\ account[u] = "active"
    /\ member[u].status \in {"none", "removed"}
    /\ Judge(a, "add", [user |-> u, role |-> role])

AddMember(a) ==
    /\ Finishing(a, "add")
    /\ LET in == tx[a].input
       IN  member' = [member EXCEPT ![in.user] = [role |-> in.role, status |-> "active"]]
    /\ UNCHANGED <<account, project, prole, token>>

JudgeUpdate(a, u, role, status) ==
    /\ CanManageRole(RoleOf(a), role)
    /\ member[u].status \in {"active", "suspended"}
    /\ RoleOf(a) # "tenant_owner" => member[u].role \notin Managers
    /\ member[u].role = "tenant_owner" /\ (role # "tenant_owner" \/ status # "active") =>
          OtherOwners(u) # {}
    /\ Judge(a, "update", [user |-> u, role |-> role, status |-> status])

UpdateMember(a) ==
    /\ Finishing(a, "update")
    /\ LET in == tx[a].input
       IN  /\ member' = [member EXCEPT ![in.user] = [role |-> in.role, status |-> in.status]]
           /\ token' = Revoked(tx[a].cut)
    /\ UNCHANGED <<account, project, prole>>

JudgeRemove(a, u) ==
    /\ RoleOf(a) # "none" /\ a # u
    /\ member[u].status \notin {"none", "removed"}
    /\ RoleOf(a) # "tenant_owner" => member[u].role \notin Managers
    /\ member[u].role = "tenant_owner" => OtherOwners(u) # {}
    /\ Judge(a, "remove", [user |-> u])

\* Mutant: the tokens of who leaves are kept.
RemoveMemberOnly(a) ==
    /\ Finishing(a, "remove")
    /\ LET u == tx[a].input.user
       IN  /\ member' = [member EXCEPT ![u].status = "removed"]
           /\ prole' = [up \in Users \X Projects |-> IF up \in {u} \X tx[a].rows THEN "none" ELSE prole[up]]
    /\ UNCHANGED <<account, project, token>>

\* The member's rows in the projects go too, and the member's active tokens, as
\* the transaction's statements saw them.
RemoveMember(a) ==
    /\ Finishing(a, "remove")
    /\ LET u == tx[a].input.user
       IN  /\ member' = [member EXCEPT ![u].status = "removed"]
           /\ prole' = [up \in Users \X Projects |-> IF up \in {u} \X tx[a].rows THEN "none" ELSE prole[up]]
           /\ token' = Revoked(tx[a].cut)
    /\ UNCHANGED <<account, project>>

-----------------------------------------------------------------------------
(* Projects *)

CreateProject(a, p) ==
    /\ tx[a].pc = "begun" /\ tx[a].kind = "create" /\ tx[a].project = p
    /\ holder[TenantLock] = Nobody
    /\ project[p] = "none"
    /\ project' = [project EXCEPT ![p] = "active"]
    /\ prole' = [prole EXCEPT ![<<a, p>>] = "project_admin"]
    /\ tx' = [tx EXCEPT ![a] = Idle]
    /\ UNCHANGED <<account, member, token, holder>>

\* UPDATE projects fails for a project that is not there.
JudgeProject(a, kind, status) ==
    /\ Judge(a, kind, [status |-> status])
    /\ project[tx[a].project] \in {"active", "disabled"}

ChangeProject(a, kind) ==
    /\ Finishing(a, kind)
    /\ project' = [project EXCEPT ![tx[a].project] = tx[a].input.status]
    /\ token' = Revoked(tx[a].cut)
    /\ UNCHANGED <<account, member, prole>>

UpdateProject(a) == ChangeProject(a, "setProject")
DeleteProject(a) == ChangeProject(a, "deleteProject")

\* The administrators of p the last-administrator check counts.
OtherAdmins(u, p) ==
    {v \in Users \ {u} : prole[<<v, p>>] = "project_admin" /\ RoleOf(v) # "none"}

JudgeAddTo(a, u, role) ==
    LET p == tx[a].project
    IN  /\ Judge(a, "addTo", [user |-> u, role |-> role])
        /\ RoleOf(u) # "none"
        /\ project[p] = "active"
        /\ prole[<<u, p>>] = "none"

AddProjectMember(a) ==
    /\ Finishing(a, "addTo")
    /\ LET in == tx[a].input
       IN  prole' = [prole EXCEPT ![<<in.user, tx[a].project>>] = in.role]
    /\ UNCHANGED <<account, member, project, token>>

JudgeChangeIn(a, u, role) ==
    LET p == tx[a].project
    IN  /\ Judge(a, "changeIn", [user |-> u, role |-> role])
        /\ project[p] = "active"
        /\ prole[<<u, p>>] # "none" /\ RowStays(u, p)
        /\ prole[<<u, p>>] = "project_admin" /\ role # "project_admin" => OtherAdmins(u, p) # {}

UpdateProjectMember(a) ==
    /\ Finishing(a, "changeIn")
    /\ LET in == tx[a].input
           p  == tx[a].project
       IN  /\ prole' = [prole EXCEPT ![<<in.user, p>>] = in.role]
           /\ token' = Revoked(tx[a].cut)
    /\ UNCHANGED <<account, member, project>>

JudgeRemoveFrom(a, u) ==
    LET p == tx[a].project
    IN  /\ Judge(a, "removeFrom", [user |-> u])
        /\ project[p] = "active"
        /\ prole[<<u, p>>] # "none" /\ RowStays(u, p)
        /\ prole[<<u, p>>] = "project_admin" => OtherAdmins(u, p) # {}

RemoveProjectMember(a) ==
    /\ Finishing(a, "removeFrom")
    /\ LET u == tx[a].input.user
           p == tx[a].project
       IN  /\ prole' = [prole EXCEPT ![<<u, p>>] = "none"]
           /\ token' = Revoked(tx[a].cut)
    /\ UNCHANGED <<account, member, project>>

-----------------------------------------------------------------------------
(* Tokens *)

\* A token refers to its project, whose row a member operation has selected
\* FOR UPDATE: the insert waits for it.
ProjectFree(p) ==
    ~ \E b \in Users : Judged(tx[b]) /\ tx[b].kind \in {"changeIn", "removeFrom"} /\ tx[b].project = p

\* IssueInGroupWithSpendLimit: the creator is checked in one statement ...
CheckIssue(a) ==
    /\ tx[a].pc = "begun" /\ tx[a].kind = "issue"
    /\ MayUse(a, tx[a].project)
    /\ tx' = [tx EXCEPT ![a].pc = "judged"]
    /\ UNCHANGED <<account, member, project, prole, token, holder>>

\* ... and the token is inserted in another one.
InsertToken(a, k) ==
    /\ Finishing(a, "issue")
    /\ ProjectFree(tx[a].project)
    /\ token[k].status = "none"
    /\ token' = [token EXCEPT ![k] = [by |-> a, project |-> tx[a].project, status |-> "active"]]
    /\ UNCHANGED <<account, member, project, prole>>

\* UpdateOwned moves an own token to another active project of the tenant.
CheckMove(a) ==
    /\ tx[a].pc = "begun" /\ tx[a].kind = "move"
    /\ project[tx[a].project] = "active"
    /\ tx' = [tx EXCEPT ![a].pc = "judged"]
    /\ UNCHANGED <<account, member, project, prole, token, holder>>

UpdateOwned(a, k) ==
    /\ Finishing(a, "move")
    /\ ProjectFree(tx[a].project)
    /\ token[k].by = a /\ token[k].status \in {"active", "disabled"} /\ TokenFree(k)
    /\ token' = [token EXCEPT ![k].project = tx[a].project]
    /\ UNCHANGED <<account, member, project, prole>>

\* SetStatusOwned and DeleteOwned are single statements.
SetStatusOwned(a, k, status) ==
    /\ token[k].by = a /\ TokenFree(k)
    /\ RoleOf(a) \in Managers \cup {"developer"}
    /\ \/ status = "active"   /\ token[k].status = "disabled"
       \/ status = "disabled" /\ token[k].status = "active"
       \/ status = "revoked"  /\ token[k].status \in {"active", "disabled"}
    /\ token' = [token EXCEPT ![k].status = status]
    /\ UNCHANGED <<account, member, project, prole, holder, tx>>

\* A platform administrator pauses a token: AdminService.Pause.
Pause(k) ==
    /\ token[k].status = "active" /\ TokenFree(k)
    /\ token' = [token EXCEPT ![k].status = "disabled"]
    /\ UNCHANGED <<account, member, project, prole, holder, tx>>

\* A platform administrator changes the status of an account: AdminService.SetStatus.
SetAccountStatus(u, status) ==
    /\ status # "active" => \A k \in TokensBy(u) : TokenFree(k)
    /\ account' = [account EXCEPT ![u] = status]
    /\ token' = IF status # "active" THEN Revoked(TokensBy(u)) ELSE token
    /\ UNCHANGED <<member, project, prole, holder, tx>>

-----------------------------------------------------------------------------
MemberStep(a) ==
    \/ \E u \in Users, role \in MemberRole :
          JudgeAdd(a, u, role) \/ \E s \in {"active", "suspended"} : JudgeUpdate(a, u, role, s)
    \/ \E u \in Users : JudgeRemove(a, u)
    \/ AddMember(a) \/ UpdateMember(a) \/ RemoveMember(a)

ProjectStep(a) ==
    \/ \E p \in Projects : CreateProject(a, p)
    \/ \E s \in {"active", "disabled"} : JudgeProject(a, "setProject", s)
    \/ JudgeProject(a, "deleteProject", "deleted")
    \/ UpdateProject(a) \/ DeleteProject(a)
    \/ \E u \in Users, role \in ProjectRole : JudgeAddTo(a, u, role) \/ JudgeChangeIn(a, u, role)
    \/ \E u \in Users : JudgeRemoveFrom(a, u)
    \/ AddProjectMember(a) \/ UpdateProjectMember(a) \/ RemoveProjectMember(a)

TokenStep(a) ==
    \/ CheckIssue(a) \/ CheckMove(a)
    \/ \E k \in Tokens :
          \/ InsertToken(a, k) \/ UpdateOwned(a, k)
          \/ \E s \in {"active", "disabled", "revoked"} : SetStatusOwned(a, k, s)

Next ==
    \/ \E a \in Users :
          \/ \E kind \in MemberKinds : Begin(a, kind, Nothing)
          \/ \E kind \in Kinds \ MemberKinds, p \in Projects : Begin(a, kind, p)
          \/ MemberStep(a) \/ ProjectStep(a) \/ Write(a) \/ TokenStep(a) \/ Rollback(a)
    \/ \E u \in Users, s \in {"active", "disabled"} : SetAccountStatus(u, s)
    \/ \E k \in Tokens : Pause(k)

Spec == Init /\ [][Next]_tenantVars

-----------------------------------------------------------------------------
(* Properties *)

\* The types; whoever judged under a lock still has it, until the commit.
TenantTypeOK ==
    /\ account \in [Users -> {"active", "disabled"}]
    /\ member \in [Users -> [role : MemberRole \cup {"none"},
                             status : {"none", "active", "suspended", "removed"}]]
    /\ project \in [Projects -> {"none", "active", "disabled", "deleted"}]
    /\ prole \in [Users \X Projects -> ProjectRole \cup {"none"}]
    /\ token \in [Tokens -> [by : Users \cup {Nobody}, project : Projects \cup {Nothing},
                            status : {"none", "active", "disabled", "revoked"}]]
    /\ holder \in [Projects \cup {TenantLock} -> Users \cup {Nobody}]
    /\ \A a \in Users : Judged(tx[a]) /\ tx[a].kind \notin TokenKinds =>
                          holder[LockOf(tx[a])] = a

\* ErrLastTenantOwner: two owners who demote, suspend or remove each other at
\* the same time leave one owner of the tenant.
OwnerRemains == \E u \in Users : IsActiveOwner(u)

\* Owners and administrators are made, changed and removed by someone who is an
\* owner at that very moment: the role that was judged cannot be taken away
\* between the judgement and the commit.
ManagersAreChangedByOwners ==
    [][\A u \in Users :
          /\ member'[u] # member[u]
          /\ \/ member[u].role \in Managers /\ member[u].status \in {"active", "suspended"}
             \/ member'[u].role \in Managers /\ member'[u].status = "active"
          => \E a \in Users : IsActiveOwner(a) /\ Judged(tx[a]) /\ tx'[a].pc = "idle"]_tenantVars

\* A token that works when the UPDATE of an operation against its creator or its
\* project sees it is revoked with that operation, although its owner and the
\* platform's administrators pause, enable and move it at the same time; and a
\* revoked token never works again: neither its creator, who may come back, nor
\* a concurrent update of the token revives it.
CutOffIsFinal ==
    [][\A k \in Tokens :
          /\ token[k].status = "revoked" => token'[k] = token[k]
          /\ \A a \in Users :
                k \in tx[a].cut /\ tx'[a].pc = "idle" /\ <<member, project, prole>>' # <<member, project, prole>>
                    => token'[k].status = "revoked"]_tenantVars
=============================================================================
