--------------------------- MODULE TenantsProofs ---------------------------
(***************************************************************************)
(* For any sets of users, projects and tokens: a tenant keeps an owner,    *)
(* managers are changed by owners only, and what was cut off stays so.     *)
(*                                                                         *)
(* What a member operation has judged must still be true when it commits:  *)
(* the lock of the members keeps every other member operation away, and    *)
(* nothing else changes members.  Accounts are disabled without that lock, *)
(* which is why the argument never speaks of them.                         *)
(***************************************************************************)
EXTENDS Tenants, TLAPS

\* What an operation remembers while it runs.
TxOK(t) ==
    /\ t = [pc |-> t.pc, kind |-> t.kind, project |-> t.project, input |-> t.input,
            cut |-> t.cut, rows |-> t.rows]
    /\ t.pc \in {"idle", "begun", "judged", "written"}
    /\ t.pc # "written" => t.cut = {} /\ t.rows = {}
    /\ t.pc = "written" => t.kind \in CutKinds
    /\ t.pc # "idle" => /\ t.kind \in Kinds
                        /\ t.kind \notin MemberKinds => t.project \in Projects
    /\ Judged(t) =>
          /\ t.kind = "add"    => t.input \in [user : Users, role : MemberRole]
          /\ t.kind = "update" => t.input \in [user : Users, role : MemberRole,
                                               status : {"active", "suspended"}]
          /\ t.kind \in {"addTo", "changeIn"} => t.input \in [user : Users, role : ProjectRole]
          /\ t.kind \in {"remove", "removeFrom"} => t.input \in [user : Users]
          /\ t.kind \in ProjectKinds => t.input \in [status : {"active", "disabled", "deleted"}]

AllTxOK == tx = [a \in Users |-> tx[a]] /\ \A a \in Users : TxOK(tx[a])

\* Committing what a has judged takes no last owner away, and touches managers
\* only if a is an owner.
Safe(a, kind, in) ==
    /\ kind = "add" =>
          /\ member[in.user].status \in {"none", "removed"}
          /\ in.role \in Managers => IsActiveOwner(a)
    /\ kind = "update" =>
          /\ in.role \in Managers \/ member[in.user].role \in Managers => IsActiveOwner(a)
          /\ member[in.user].role = "tenant_owner"
                /\ (in.role # "tenant_owner" \/ in.status # "active") => OtherOwners(in.user) # {}
    /\ kind = "remove" =>
          /\ member[in.user].role \in Managers => IsActiveOwner(a)
          /\ member[in.user].role = "tenant_owner" => OtherOwners(in.user) # {}

JudgedHolds ==
    \A a \in Users : Judged(tx[a]) => Safe(a, tx[a].kind, tx[a].input)

\* A token that is being revoked was active, and its row is locked: at most it
\* has been revoked by another operation.
CutsHold ==
    \A a \in Users : \A k \in tx[a].cut : k \in Tokens /\ token[k].status \in {"active", "revoked"}

Inv == TenantTypeOK /\ AllTxOK /\ JudgedHolds /\ CutsHold /\ OwnerRemains

-----------------------------------------------------------------------------
(* Shapes of steps *)

\* a begins an operation or has checked a token: no lock, no judgement to keep.
Goes(a) ==
    /\ tx' = [tx EXCEPT ![a] = tx'[a]]
    /\ TxOK(tx'[a])
    /\ tx'[a].pc = "begun" \/ (tx'[a].pc = "judged" /\ tx'[a].kind \in TokenKinds)
    /\ holder' = holder

Judges(a) == \E kind \in Kinds : \E in : Judge(a, kind, in) /\ TxOK(tx'[a]) /\ Safe(a, kind, in)

\* The statements that revoke: what was judged is kept.
Writes(a) ==
    /\ tx' = [tx EXCEPT ![a] = tx'[a]]
    /\ TxOK(tx'[a])
    /\ Judged(tx[a]) /\ Judged(tx'[a])
    /\ tx'[a].kind = tx[a].kind /\ tx'[a].project = tx[a].project /\ tx'[a].input = tx[a].input
    /\ \A k \in tx'[a].cut : k \in Tokens /\ token'[k].status = "active"
    /\ holder' = holder

Ends(a) ==
    /\ tx' = [tx EXCEPT ![a] = Idle]
    /\ \/ holder' = holder
       \/ holder' = [l \in DOMAIN holder |-> IF holder[l] = a THEN Nobody ELSE holder[l]]

\* The member operations that commit.
CommitsMember(a) == AddMember(a) \/ UpdateMember(a) \/ RemoveMember(a)

\* What a judgement accepts is safe to commit at once.
LEMMA AcceptedIsSafe ==
    ASSUME Inv, NEW a \in Users, NEW u \in Users
    PROVE  /\ \A role \in MemberRole : JudgeAdd(a, u, role) => Judges(a)
           /\ \A role \in MemberRole, s \in {"active", "suspended"} :
                 JudgeUpdate(a, u, role, s) => Judges(a)
           /\ JudgeRemove(a, u) => Judges(a)
           /\ \A role \in ProjectRole : JudgeAddTo(a, u, role) \/ JudgeChangeIn(a, u, role) => Judges(a)
           /\ JudgeRemoveFrom(a, u) => Judges(a)
           /\ \A kind \in ProjectKinds, s \in {"active", "disabled", "deleted"} :
                 JudgeProject(a, kind, s) => Judges(a)
<1>1. RoleOf(a) = "tenant_owner" => IsActiveOwner(a)
  BY DEF RoleOf, IsActiveOwner
<1>2. ASSUME NEW kind \in Kinds, NEW in, Judge(a, kind, in)
      PROVE  /\ tx'[a] = [pc |-> "judged", kind |-> kind, project |-> tx[a].project, input |-> in,
                          cut |-> {}, rows |-> {}]
             /\ kind \notin MemberKinds => tx[a].project \in Projects
  <2>1. tx = [b \in Users |-> tx[b]] /\ TxOK(tx[a])
    BY DEF Inv, AllTxOK
  <2>2. tx[a] = [pc |-> "begun", kind |-> kind, project |-> tx[a].project, input |-> tx[a].input,
                cut |-> {}, rows |-> {}]
    BY <1>2, <2>1 DEF Judge, TxOK
  <2>3. tx' = [tx EXCEPT ![a] = Running(tx[a], "judged", in, {}, {})]
    BY <1>2 DEF Judge
  <2>4. tx'[a] = [pc |-> "judged", kind |-> kind, project |-> tx[a].project, input |-> in,
                 cut |-> {}, rows |-> {}]
    <3>1. Running(tx[a], "judged", in, {}, {}) =
             [pc |-> "judged", kind |-> kind, project |-> tx[a].project, input |-> in,
              cut |-> {}, rows |-> {}]
      BY <1>2 DEF Running, Judge
    <3> QED BY <2>1, <2>3, <3>1
  <2>5. kind \notin MemberKinds => tx[a].project \in Projects
    BY <2>1, <2>2 DEF TxOK
  <2> QED BY <2>4, <2>5
<1>3. ASSUME NEW role \in MemberRole, JudgeAdd(a, u, role)
      PROVE  Judges(a)
  <2> DEFINE in == [user |-> u, role |-> role]
  <2>1. Judge(a, "add", in) /\ "add" \in Kinds
    BY <1>3 DEF JudgeAdd, Kinds, MemberKinds
  <2>2. TxOK(tx'[a])
    <3>1. /\ tx'[a] = [pc |-> "judged", kind |-> "add", project |-> tx[a].project, input |-> in,
                        cut |-> {}, rows |-> {}]
          /\ "add" \notin MemberKinds => tx[a].project \in Projects
      BY <1>2, <2>1
    <3> QED BY <3>1, <2>1 DEF TxOK, Judged, Kinds, MemberKinds, PMemberKinds, ProjectKinds
  <2>3. Safe(a, "add", in)
    BY <1>1, <1>3 DEF JudgeAdd, CanManageRole, Safe
  <2> HIDE DEF in
  <2> QED BY <2>1, <2>2, <2>3 DEF Judges
<1>4. ASSUME NEW role \in MemberRole, NEW s \in {"active", "suspended"}, JudgeUpdate(a, u, role, s)
      PROVE  Judges(a)
  <2> DEFINE in == [user |-> u, role |-> role, status |-> s]
  <2>1. Judge(a, "update", in) /\ "update" \in Kinds
    BY <1>4 DEF JudgeUpdate, Kinds, MemberKinds
  <2>2. TxOK(tx'[a])
    <3>1. /\ tx'[a] = [pc |-> "judged", kind |-> "update", project |-> tx[a].project, input |-> in,
                        cut |-> {}, rows |-> {}]
          /\ "update" \notin MemberKinds => tx[a].project \in Projects
      BY <1>2, <2>1
    <3> QED BY <3>1, <2>1 DEF TxOK, Judged, Kinds, MemberKinds, PMemberKinds, ProjectKinds
  <2>3. Safe(a, "update", in)
    BY <1>1, <1>4 DEF JudgeUpdate, CanManageRole, Safe
  <2> HIDE DEF in
  <2> QED BY <2>1, <2>2, <2>3 DEF Judges
<1>5. ASSUME JudgeRemove(a, u)
      PROVE  Judges(a)
  <2> DEFINE in == [user |-> u]
  <2>1. Judge(a, "remove", in) /\ "remove" \in Kinds
    BY <1>5 DEF JudgeRemove, Kinds, MemberKinds
  <2>2. TxOK(tx'[a])
    <3>1. /\ tx'[a] = [pc |-> "judged", kind |-> "remove", project |-> tx[a].project, input |-> in,
                        cut |-> {}, rows |-> {}]
          /\ "remove" \notin MemberKinds => tx[a].project \in Projects
      BY <1>2, <2>1
    <3> QED BY <3>1, <2>1 DEF TxOK, Judged, Kinds, MemberKinds, PMemberKinds, ProjectKinds
  <2>3. Safe(a, "remove", in)
    BY <1>1, <1>5 DEF JudgeRemove, Safe
  <2> HIDE DEF in
  <2> QED BY <2>1, <2>2, <2>3 DEF Judges
<1>6. ASSUME NEW role \in ProjectRole, JudgeAddTo(a, u, role) \/ JudgeChangeIn(a, u, role)
      PROVE  Judges(a)
  <2> DEFINE in == [user |-> u, role |-> role]
  <2>1. PICK kind \in {"addTo", "changeIn"} : Judge(a, kind, in)
    BY <1>6 DEF JudgeAddTo, JudgeChangeIn
  <2>2. kind \in Kinds /\ kind \notin MemberKinds
    BY DEF Kinds, MemberKinds, PMemberKinds
  <2>3. TxOK(tx'[a])
    <3>1. /\ tx'[a] = [pc |-> "judged", kind |-> kind, project |-> tx[a].project, input |-> in,
                        cut |-> {}, rows |-> {}]
          /\ kind \notin MemberKinds => tx[a].project \in Projects
      BY <1>2, <2>1, <2>2
    <3> QED BY <3>1, <2>1, <2>2 DEF TxOK, Judged, Kinds, MemberKinds, PMemberKinds, ProjectKinds
  <2>4. Safe(a, kind, in)
    BY <2>2 DEF Safe
  <2> HIDE DEF in
  <2> QED BY <2>1, <2>2, <2>3, <2>4 DEF Judges
<1>7. ASSUME JudgeRemoveFrom(a, u)
      PROVE  Judges(a)
  <2> DEFINE in == [user |-> u]
  <2>1. Judge(a, "removeFrom", in)
    BY <1>7 DEF JudgeRemoveFrom
  <2>2. "removeFrom" \in Kinds /\ "removeFrom" \notin MemberKinds
    BY DEF Kinds, MemberKinds, PMemberKinds
  <2>3. TxOK(tx'[a])
    <3>1. /\ tx'[a] = [pc |-> "judged", kind |-> "removeFrom", project |-> tx[a].project, input |-> in,
                        cut |-> {}, rows |-> {}]
          /\ "removeFrom" \notin MemberKinds => tx[a].project \in Projects
      BY <1>2, <2>1, <2>2
    <3> QED BY <3>1, <2>1, <2>2 DEF TxOK, Judged, Kinds, MemberKinds, PMemberKinds, ProjectKinds
  <2>4. Safe(a, "removeFrom", in)
    BY DEF Safe
  <2> HIDE DEF in
  <2> QED BY <2>1, <2>2, <2>3, <2>4 DEF Judges
<1>8. ASSUME NEW kind \in ProjectKinds, NEW s \in {"active", "disabled", "deleted"},
             JudgeProject(a, kind, s)
      PROVE  Judges(a)
  <2> DEFINE in == [status |-> s]
  <2>1. Judge(a, kind, in)
    BY <1>8 DEF JudgeProject
  <2>2. kind \in Kinds /\ kind \notin MemberKinds
    BY DEF Kinds, MemberKinds, ProjectKinds
  <2>3. TxOK(tx'[a])
    <3>1. /\ tx'[a] = [pc |-> "judged", kind |-> kind, project |-> tx[a].project, input |-> in,
                        cut |-> {}, rows |-> {}]
          /\ kind \notin MemberKinds => tx[a].project \in Projects
      BY <1>2, <2>1, <2>2
    <3> QED BY <3>1, <2>1, <2>2 DEF TxOK, Judged, MemberKinds, PMemberKinds, ProjectKinds
  <2>4. Safe(a, kind, in)
    BY <2>2 DEF Safe, MemberKinds
  <2> HIDE DEF in
  <2> QED BY <2>1, <2>2, <2>3, <2>4 DEF Judges
<1> QED BY <1>3, <1>4, <1>5, <1>6, <1>7, <1>8

\* A transaction that writes keeps what it has judged.
LEMMA WriteKeeps ==
    ASSUME Inv, NEW a \in Users, Write(a)
    PROVE  Writes(a) /\ member' = member
<1>1. tx = [b \in Users |-> tx[b]] /\ TxOK(tx[a])
  BY DEF Inv, AllTxOK
<1> DEFINE in == tx[a].input
           rows == IF tx[a].kind = "remove" THEN {p \in Projects : prole[<<in.user, p>>] # "none"} ELSE {}
           cut  == {k \in ToCut(tx[a]) : token[k].status = "active"}
<1>2. /\ tx[a].pc = "judged" /\ tx[a].kind \in CutKinds /\ holder' = holder /\ member' = member
      /\ tx' = [tx EXCEPT ![a] = Running(tx[a], "written", tx[a].input, cut, rows)]
  BY DEF Write
<1> HIDE DEF in, rows, cut
<1>4. tx'[a] = [pc |-> "written", kind |-> tx[a].kind, project |-> tx[a].project, input |-> in,
               cut |-> cut, rows |-> rows]
  BY <1>1, <1>2 DEF Running, in
<1>5. tx' = [tx EXCEPT ![a] = tx'[a]]
  BY <1>1, <1>2
<1>6. TxOK(tx'[a])
  BY <1>1, <1>2, <1>4 DEF TxOK, Judged, in
<1>7. \A k \in cut : k \in Tokens /\ token[k].status = "active"
  BY DEF cut, ToCut, TokensBy, TokensIn
<1>8. token' = token
  BY DEF Write
<1>9. tx[a].input = in
  BY DEF in
<1>10. tx'[a].kind = tx[a].kind /\ tx'[a].project = tx[a].project /\ tx'[a].input = in /\ tx'[a].cut = cut
       /\ Judged(tx'[a])
  BY <1>4 DEF Judged
<1>11. Judged(tx[a])
  BY <1>2 DEF Judged
<1> QED BY <1>2, <1>5, <1>6, <1>7, <1>8, <1>9, <1>10, <1>11 DEF Writes

\* Every step has one of six shapes, and only that of a commit changes members.
LEMMA StepShapes ==
    ASSUME Inv, [Next]_tenantVars
    PROVE  \/ \E a \in Users : (Goes(a) \/ Judges(a) \/ Writes(a)) /\ member' = member
           \/ \E a \in Users : CommitsMember(a) /\ Ends(a)
           \/ \E a \in Users : Ends(a) /\ member' = member
           \/ tx' = tx /\ holder' = holder /\ member' = member
<1> DEFINE Shape ==
           \/ \E a \in Users : (Goes(a) \/ Judges(a) \/ Writes(a)) /\ member' = member
           \/ \E a \in Users : CommitsMember(a) /\ Ends(a)
           \/ \E a \in Users : Ends(a) /\ member' = member
           \/ tx' = tx /\ holder' = holder /\ member' = member
<1>1. ASSUME NEW a \in Users, NEW kind \in Kinds, NEW p, p \in Projects \/ kind \in MemberKinds,
             Begin(a, kind, p)
      PROVE  Shape
  <2>1. tx'[a] = [pc |-> "begun", kind |-> kind, project |-> p, input |-> Nothing,
                 cut |-> {}, rows |-> {}]
    BY <1>1 DEF Begin, Idle, Inv, AllTxOK
  <2>2. TxOK(tx'[a]) /\ tx'[a].pc = "begun"
    BY <1>1, <2>1 DEF TxOK, Judged
  <2>3. tx' = [tx EXCEPT ![a] = tx'[a]] /\ holder' = holder /\ member' = member
    BY <1>1, <2>1 DEF Begin, Idle
  <2> QED BY <2>2, <2>3 DEF Goes
<1>2. ASSUME NEW a \in Users, MemberStep(a)
      PROVE  Shape
  <2>1. ASSUME CommitsMember(a)
        PROVE  Shape
    BY <2>1 DEF CommitsMember, AddMember, UpdateMember, RemoveMember, Finishing, Ends
  <2>2. ASSUME NEW u \in Users, NEW role \in MemberRole, JudgeAdd(a, u, role)
        PROVE  Shape
    BY <2>2, AcceptedIsSafe DEF JudgeAdd, Judge
  <2>3. ASSUME NEW u \in Users, NEW role \in MemberRole, NEW s \in {"active", "suspended"},
               JudgeUpdate(a, u, role, s)
        PROVE  Shape
    BY <2>3, AcceptedIsSafe DEF JudgeUpdate, Judge
  <2>4. ASSUME NEW u \in Users, JudgeRemove(a, u)
        PROVE  Shape
    BY <2>4, AcceptedIsSafe DEF JudgeRemove, Judge
  <2> HIDE DEF Shape
  <2> QED BY <1>2, <2>1, <2>2, <2>3, <2>4, Zenon DEF MemberStep, CommitsMember
<1>3. ASSUME NEW a \in Users, ProjectStep(a)
      PROVE  Shape
  <2>1. ASSUME NEW u \in Users, NEW role \in ProjectRole,
               JudgeAddTo(a, u, role) \/ JudgeChangeIn(a, u, role)
        PROVE  Shape
    BY <2>1, AcceptedIsSafe DEF JudgeAddTo, JudgeChangeIn, Judge
  <2>2. ASSUME NEW u \in Users, JudgeRemoveFrom(a, u)
        PROVE  Shape
    BY <2>2, AcceptedIsSafe DEF JudgeRemoveFrom, Judge
  <2>3. ASSUME NEW p \in Projects, CreateProject(a, p)
        PROVE  Shape
    BY <2>3 DEF CreateProject, Ends
  <2>4. ASSUME UpdateProject(a) \/ DeleteProject(a)
        PROVE  Shape
    BY <2>4 DEF UpdateProject, DeleteProject, ChangeProject, Finishing, Ends
  <2>5. ASSUME AddProjectMember(a) \/ UpdateProjectMember(a) \/ RemoveProjectMember(a)
        PROVE  Shape
    BY <2>5 DEF AddProjectMember, UpdateProjectMember, RemoveProjectMember, Finishing, Ends
  <2>6. ASSUME NEW kind \in ProjectKinds, NEW s \in {"active", "disabled", "deleted"},
               JudgeProject(a, kind, s)
        PROVE  Shape
    BY <2>6, AcceptedIsSafe, TenantsAssumption DEF JudgeProject, Judge
  <2>7. ASSUME NEW s \in {"active", "disabled"}, JudgeProject(a, "setProject", s)
        PROVE  Shape
    BY <2>6, <2>7 DEF ProjectKinds
  <2>8. ASSUME JudgeProject(a, "deleteProject", "deleted")
        PROVE  Shape
    BY <2>6, <2>8 DEF ProjectKinds
  <2> HIDE DEF Shape
  <2> QED BY <1>3, <2>1, <2>2, <2>3, <2>4, <2>5, <2>7, <2>8, Zenon DEF ProjectStep
<1>4. ASSUME NEW a \in Users, TokenStep(a)
      PROVE  Shape
  <2>1. ASSUME CheckIssue(a) \/ CheckMove(a)
        PROVE  Shape
    <3>1. /\ tx' = [tx EXCEPT ![a].pc = "judged"] /\ holder' = holder /\ member' = member
          /\ tx[a].pc = "begun" /\ tx[a].kind \in TokenKinds
      BY <2>1 DEF CheckIssue, CheckMove, TokenKinds
    <3>2. tx'[a] = [pc |-> "judged", kind |-> tx[a].kind, project |-> tx[a].project,
                    input |-> tx[a].input, cut |-> {}, rows |-> {}]
      BY <3>1 DEF Inv, AllTxOK, TxOK
    <3>3. tx' = [tx EXCEPT ![a] = tx'[a]]
      BY <3>1 DEF Inv, AllTxOK
    <3>4. TxOK(tx[a])
      BY DEF Inv, AllTxOK
    <3>5. TxOK(tx'[a]) /\ tx'[a].pc = "judged" /\ tx'[a].kind \in TokenKinds
      BY <3>1, <3>2, <3>4 DEF TxOK, Judged, TokenKinds, ProjectKinds
    <3> QED BY <3>1, <3>3, <3>5 DEF Goes
  <2>2. ASSUME NEW k \in Tokens, InsertToken(a, k) \/ UpdateOwned(a, k)
        PROVE  Shape
    BY <2>2 DEF InsertToken, UpdateOwned, Finishing, Ends
  <2>3. ASSUME NEW k \in Tokens, NEW s \in {"active", "disabled", "revoked"}, SetStatusOwned(a, k, s)
        PROVE  Shape
    BY <2>3 DEF SetStatusOwned
  <2> HIDE DEF Shape
  <2> QED BY <1>4, <2>1, <2>2, <2>3, Zenon DEF TokenStep
<1>5. ASSUME NEW a \in Users, Rollback(a)
      PROVE  Shape
  BY <1>5 DEF Rollback, Ends
<1>6. ASSUME NEW u \in Users, NEW s \in {"active", "disabled"}, SetAccountStatus(u, s)
      PROVE  Shape
  BY <1>6 DEF SetAccountStatus
<1>7. ASSUME NEW k \in Tokens, Pause(k)
      PROVE  Shape
  BY <1>7 DEF Pause
<1>8. ASSUME UNCHANGED tenantVars
      PROVE  Shape
  BY <1>8 DEF tenantVars
<1>9. ASSUME NEW a \in Users, NEW kind \in MemberKinds, Begin(a, kind, Nothing)
      PROVE  Shape
  BY <1>1, <1>9 DEF Kinds
<1>10. ASSUME NEW a \in Users, NEW kind \in Kinds \ MemberKinds, NEW p \in Projects, Begin(a, kind, p)
       PROVE  Shape
  BY <1>1, <1>10
<1>11. ASSUME NEW a \in Users, Write(a)
       PROVE  Shape
  BY <1>11, WriteKeeps
<1> HIDE DEF Shape
<1>12. Shape
  BY <1>2, <1>3, <1>4, <1>5, <1>6, <1>7, <1>8, <1>9, <1>10, <1>11, Zenon DEF Next
<1> QED BY <1>12 DEF Shape

-----------------------------------------------------------------------------
(* Types and locks *)

\* The rows keep their types.
LEMMA RowTypes ==
    ASSUME Inv, [Next]_tenantVars
    PROVE  /\ account' \in [Users -> {"active", "disabled"}]
           /\ member' \in [Users -> [role : MemberRole \cup {"none"},
                                     status : {"none", "active", "suspended", "removed"}]]
           /\ project' \in [Projects -> {"none", "active", "disabled", "deleted"}]
           /\ prole' \in [Users \X Projects -> ProjectRole \cup {"none"}]
           /\ token' \in [Tokens -> [by : Users \cup {Nobody}, project : Projects \cup {Nothing},
                                     status : {"none", "active", "disabled", "revoked"}]]
<1> DEFINE Rows ==
           /\ account \in [Users -> {"active", "disabled"}]
           /\ member \in [Users -> [role : MemberRole \cup {"none"},
                                    status : {"none", "active", "suspended", "removed"}]]
           /\ project \in [Projects -> {"none", "active", "disabled", "deleted"}]
           /\ prole \in [Users \X Projects -> ProjectRole \cup {"none"}]
           /\ token \in [Tokens -> [by : Users \cup {Nobody}, project : Projects \cup {Nothing},
                                    status : {"none", "active", "disabled", "revoked"}]]
<1>1. Rows /\ \A a \in Users : TxOK(tx[a])
  BY DEF Inv, TenantTypeOK, AllTxOK
<1>2. ASSUME NEW S
      PROVE  Revoked(S) \in [Tokens -> [by : Users \cup {Nobody}, project : Projects \cup {Nothing},
                                        status : {"none", "active", "disabled", "revoked"}]]
  <2>1. ASSUME NEW k \in Tokens
        PROVE  [token[k] EXCEPT !.status = "revoked"] \in
                  [by : Users \cup {Nobody}, project : Projects \cup {Nothing},
                   status : {"none", "active", "disabled", "revoked"}]
    <3>1. token[k] \in [by : Users \cup {Nobody}, project : Projects \cup {Nothing},
                        status : {"none", "active", "disabled", "revoked"}]
      BY <1>1
    <3> QED BY <3>1
  <2> QED BY <1>1, <2>1 DEF Revoked
<1>3. ASSUME NEW a \in Users, MemberStep(a)
      PROVE  Rows'
  <2>1. TxOK(tx[a])
    BY <1>1
  <2>2. ASSUME AddMember(a)
        PROVE  Rows'
    <3>1. tx[a].input \in [user : Users, role : MemberRole]
      BY <2>1, <2>2 DEF AddMember, Finishing, TxOK, Judged, CutKinds, ProjectKinds
    <3> QED BY <1>1, <2>2, <3>1 DEF AddMember
  <2>3. ASSUME UpdateMember(a)
        PROVE  Rows'
    <3>1. tx[a].input \in [user : Users, role : MemberRole, status : {"active", "suspended"}]
      BY <2>1, <2>3 DEF UpdateMember, Finishing, TxOK, Judged, CutKinds
    <3>2. /\ member' = [member EXCEPT ![tx[a].input.user] =
                           [role |-> tx[a].input.role, status |-> tx[a].input.status]]
          /\ token' = Revoked(tx[a].cut)
          /\ UNCHANGED <<account, project, prole>>
      BY <2>3 DEF UpdateMember
    <3> QED BY <1>1, <1>2, <3>1, <3>2
  <2>4. ASSUME RemoveMember(a)
        PROVE  Rows'
    <3>1. tx[a].input.user \in Users
      BY <2>1, <2>4 DEF RemoveMember, Finishing, TxOK, Judged, CutKinds
    <3>2. /\ member' = [member EXCEPT ![tx[a].input.user].status = "removed"]
          /\ prole' = [up \in Users \X Projects |->
                          IF up \in {tx[a].input.user} \X tx[a].rows THEN "none" ELSE prole[up]]
          /\ token' = Revoked(tx[a].cut)
          /\ UNCHANGED <<account, project>>
      BY <2>4 DEF RemoveMember
    <3>3. member' \in [Users -> [role : MemberRole \cup {"none"},
                                 status : {"none", "active", "suspended", "removed"}]]
      <4> DEFINE row == [member[tx[a].input.user] EXCEPT !.status = "removed"]
      <4>1. member \in [Users -> [role : MemberRole \cup {"none"},
                                  status : {"none", "active", "suspended", "removed"}]]
        BY <1>1
      <4>2. row \in [role : MemberRole \cup {"none"},
                     status : {"none", "active", "suspended", "removed"}]
        BY <3>1, <4>1
      <4>3. member' = [member EXCEPT ![tx[a].input.user] = row]
        BY <3>1, <3>2, <4>1
      <4> HIDE DEF row
      <4> QED BY <3>1, <4>1, <4>2, <4>3
    <3>4. prole' \in [Users \X Projects -> ProjectRole \cup {"none"}]
      <4>1. prole \in [Users \X Projects -> ProjectRole \cup {"none"}]
        BY <1>1
      <4> QED BY <3>2, <4>1
    <3>5. token' \in [Tokens -> [by : Users \cup {Nobody}, project : Projects \cup {Nothing},
                                 status : {"none", "active", "disabled", "revoked"}]]
      BY <1>2, <3>2
    <3> QED BY <1>1, <3>2, <3>3, <3>4, <3>5
  <2>5. ASSUME NEW u \in Users, NEW role \in MemberRole,
               JudgeAdd(a, u, role) \/ JudgeRemove(a, u)
                  \/ \E s \in {"active", "suspended"} : JudgeUpdate(a, u, role, s)
        PROVE  Rows'
    BY <1>1, <2>5 DEF JudgeAdd, JudgeUpdate, JudgeRemove, Judge
  <2>6. MemberRole # {}
    BY DEF MemberRole
  <2> HIDE DEF Rows
  <2> QED BY <1>3, <2>2, <2>3, <2>4, <2>5, <2>6, Zenon DEF MemberStep
<1>4. ASSUME NEW a \in Users, ProjectStep(a)
      PROVE  Rows'
  <2>1. TxOK(tx[a])
    BY <1>1
  <2>2. ASSUME NEW p \in Projects, CreateProject(a, p)
        PROVE  Rows'
    BY <1>1, <2>2 DEF CreateProject, ProjectRole
  <2>3. ASSUME UpdateProject(a) \/ DeleteProject(a)
        PROVE  Rows'
    <3>1. PICK kind \in ProjectKinds : ChangeProject(a, kind)
      BY <2>3 DEF UpdateProject, DeleteProject, ProjectKinds
    <3>2. tx[a].project \in Projects /\ tx[a].input.status \in {"active", "disabled", "deleted"}
      BY <2>1, <3>1 DEF ChangeProject, Finishing, TxOK, Judged, ProjectKinds, MemberKinds, CutKinds
    <3>3. /\ project' = [project EXCEPT ![tx[a].project] = tx[a].input.status]
          /\ token' = Revoked(tx[a].cut)
          /\ UNCHANGED <<account, member, prole>>
      BY <3>1 DEF ChangeProject
    <3> QED BY <1>1, <1>2, <3>2, <3>3
  <2>4. ASSUME AddProjectMember(a)
        PROVE  Rows'
    <3>1. tx[a].input \in [user : Users, role : ProjectRole] /\ tx[a].project \in Projects
      BY <2>1, <2>4 DEF AddProjectMember, Finishing, TxOK, Judged, MemberKinds, CutKinds, ProjectKinds
    <3>2. prole' \in [Users \X Projects -> ProjectRole \cup {"none"}]
      BY <1>1, <2>4, <3>1 DEF AddProjectMember
    <3> QED BY <1>1, <2>4, <3>2 DEF AddProjectMember
  <2>5. ASSUME UpdateProjectMember(a)
        PROVE  Rows'
    <3>1. tx[a].input \in [user : Users, role : ProjectRole] /\ tx[a].project \in Projects
      BY <2>1, <2>5 DEF UpdateProjectMember, Finishing, TxOK, Judged, MemberKinds, CutKinds
    <3>2. /\ prole' = [prole EXCEPT ![<<tx[a].input.user, tx[a].project>>] = tx[a].input.role]
          /\ token' = Revoked(tx[a].cut)
          /\ UNCHANGED <<account, member, project>>
      BY <2>5 DEF UpdateProjectMember
    <3> QED BY <1>1, <1>2, <3>1, <3>2
  <2>6. ASSUME RemoveProjectMember(a)
        PROVE  Rows'
    <3>1. /\ prole' = [prole EXCEPT ![<<tx[a].input.user, tx[a].project>>] = "none"]
          /\ token' = Revoked(tx[a].cut)
          /\ UNCHANGED <<account, member, project>>
      BY <2>6 DEF RemoveProjectMember
    <3> QED BY <1>1, <1>2, <3>1
  <2>7. ASSUME NEW u \in Users, NEW role \in ProjectRole,
               JudgeAddTo(a, u, role) \/ JudgeChangeIn(a, u, role) \/ JudgeRemoveFrom(a, u)
        PROVE  Rows'
    BY <1>1, <2>7 DEF JudgeAddTo, JudgeChangeIn, JudgeRemoveFrom, Judge
  <2>8. ProjectRole # {}
    BY DEF ProjectRole
  <2>9. ASSUME \E kind, s : JudgeProject(a, kind, s)
        PROVE  Rows'
    BY <1>1, <2>9 DEF JudgeProject, Judge
  <2> HIDE DEF Rows
  <2> QED BY <1>4, <2>2, <2>3, <2>4, <2>5, <2>6, <2>7, <2>8, <2>9, Zenon DEF ProjectStep
<1>5. ASSUME NEW a \in Users, TokenStep(a)
      PROVE  Rows'
  <2>1. TxOK(tx[a])
    BY <1>1
  <2>2. ASSUME NEW k \in Tokens, InsertToken(a, k)
        PROVE  Rows'
    <3>1. tx[a].project \in Projects
      BY <2>1, <2>2 DEF InsertToken, Finishing, TxOK, MemberKinds
    <3> QED BY <1>1, <2>2, <3>1 DEF InsertToken
  <2>3. ASSUME NEW k \in Tokens, UpdateOwned(a, k)
        PROVE  Rows'
    <3>1. tx[a].project \in Projects
      BY <2>1, <2>3 DEF UpdateOwned, Finishing, TxOK, MemberKinds
    <3> QED BY <1>1, <2>3, <3>1 DEF UpdateOwned
  <2>4. ASSUME NEW k \in Tokens, NEW s \in {"active", "disabled", "revoked"}, SetStatusOwned(a, k, s)
        PROVE  Rows'
    <3>1. token \in [Tokens -> [by : Users \cup {Nobody}, project : Projects \cup {Nothing},
                                status : {"none", "active", "disabled", "revoked"}]]
      BY <1>1
    <3>2. token' \in [Tokens -> [by : Users \cup {Nobody}, project : Projects \cup {Nothing},
                                 status : {"none", "active", "disabled", "revoked"}]]
      BY <2>4, <3>1 DEF SetStatusOwned
    <3> QED BY <1>1, <2>4, <3>2 DEF SetStatusOwned
  <2>5. ASSUME CheckIssue(a) \/ CheckMove(a)
        PROVE  Rows'
    BY <1>1, <2>5 DEF CheckIssue, CheckMove
  <2> HIDE DEF Rows
  <2> QED BY <1>5, <2>2, <2>3, <2>4, <2>5, Zenon DEF TokenStep
<1>6. ASSUME NEW u \in Users, NEW s \in {"active", "disabled"}, SetAccountStatus(u, s)
      PROVE  Rows'
  <2>1. /\ account' = [account EXCEPT ![u] = s]
        /\ token' = Revoked(TokensBy(u)) \/ token' = token
        /\ UNCHANGED <<member, project, prole>>
    BY <1>6 DEF SetAccountStatus
  <2> QED BY <1>1, <1>2, <2>1
<1>7. ASSUME NEW k \in Tokens, Pause(k)
      PROVE  Rows'
  <2>1. token \in [Tokens -> [by : Users \cup {Nobody}, project : Projects \cup {Nothing},
                              status : {"none", "active", "disabled", "revoked"}]]
    BY <1>1
  <2>2. token' \in [Tokens -> [by : Users \cup {Nobody}, project : Projects \cup {Nothing},
                               status : {"none", "active", "disabled", "revoked"}]]
    BY <1>7, <2>1 DEF Pause
  <2> QED BY <1>1, <1>7, <2>2 DEF Pause
<1>8. ASSUME UNCHANGED tenantVars
      PROVE  Rows'
  BY <1>1, <1>8 DEF tenantVars
<1>9. ASSUME NEW a \in Users,
             Rollback(a) \/ Write(a) \/ \E kind, p : Begin(a, kind, p)
      PROVE  Rows'
  BY <1>1, <1>9 DEF Rollback, Write, Begin
<1> HIDE DEF Rows
<1>10. Rows'
  BY <1>3, <1>4, <1>5, <1>6, <1>7, <1>8, <1>9, Zenon DEF Next
<1> QED BY <1>10 DEF Rows

\* Two member operations are never judged at the same time.
LEMMA OneJudged ==
    ASSUME Inv, NEW a \in Users, NEW b \in Users,
           Judged(tx[a]), tx[a].kind \in MemberKinds,
           Judged(tx[b]), tx[b].kind \in MemberKinds
    PROVE  a = b
<1>1. LockOf(tx[a]) = TenantLock /\ LockOf(tx[b]) = TenantLock
  BY DEF LockOf
<1>2. tx[a].kind \notin TokenKinds /\ tx[b].kind \notin TokenKinds
  BY DEF MemberKinds, TokenKinds
<1>3. holder[LockOf(tx[a])] = a /\ holder[LockOf(tx[b])] = b
  BY <1>2 DEF Inv, TenantTypeOK
<1> QED BY <1>1, <1>3

\* A lock that is not token business exists.
LEMMA LockExists ==
    ASSUME NEW t, TxOK(t), t.pc # "idle"
    PROVE  LockOf(t) \in Projects \cup {TenantLock}
BY DEF TxOK, LockOf

\* Running operations stay well formed, and whoever judged keeps the lock.
LEMMA LockStep ==
    ASSUME Inv, [Next]_tenantVars
    PROVE  /\ AllTxOK'
           /\ holder' \in [Projects \cup {TenantLock} -> Users \cup {Nobody}]
           /\ \A a \in Users : Judged(tx'[a]) /\ tx'[a].kind \notin TokenKinds =>
                                  holder'[LockOf(tx'[a])] = a
<1> DEFINE Holds(b) == Judged(tx[b]) /\ tx[b].kind \notin TokenKinds => holder[LockOf(tx[b])] = b
           Locks == Projects \cup {TenantLock}
           Good == /\ AllTxOK
                   /\ holder \in [Locks -> Users \cup {Nobody}]
                   /\ \A b \in Users : Holds(b)
<1>1. Good
  BY DEF Inv, TenantTypeOK
<1>2. tx = [b \in Users |-> tx[b]] /\ \A b \in Users : TxOK(tx[b])
  BY <1>1 DEF AllTxOK
<1>3. ASSUME NEW a \in Users, Goes(a)
      PROVE  Good'
  <2>1. tx' = [tx EXCEPT ![a] = tx'[a]] /\ TxOK(tx'[a]) /\ holder' = holder
    BY <1>3 DEF Goes
  <2>2. tx' = [b \in Users |-> tx'[b]] /\ \A b \in Users \ {a} : tx'[b] = tx[b]
    BY <1>2, <2>1
  <2>3. AllTxOK'
    BY <1>2, <2>1, <2>2 DEF AllTxOK
  <2>4. tx'[a].pc = "begun" \/ (tx'[a].pc = "judged" /\ tx'[a].kind \in TokenKinds)
    BY <1>3 DEF Goes
  <2>5. \A b \in Users : Holds(b)'
    BY <1>1, <2>1, <2>2, <2>4 DEF Judged
  <2> QED BY <1>1, <2>1, <2>3, <2>5
<1>4. ASSUME NEW a \in Users, Judges(a)
      PROVE  Good'
  <2>0. PICK kind \in Kinds : \E in : Judge(a, kind, in) /\ TxOK(tx'[a])
    BY <1>4 DEF Judges
  <2>1. PICK in : Judge(a, kind, in) /\ TxOK(tx'[a])
    BY <2>0
  <2> DEFINE l == LockOf(tx[a])
  <2>2. l \in Locks
    BY <1>2, <2>1, LockExists DEF Judge
  <2>3. /\ holder[l] = Nobody /\ holder' = [holder EXCEPT ![l] = a]
        /\ tx' = [tx EXCEPT ![a] = Running(tx[a], "judged", in, {}, {})]
        /\ tx[a].kind = kind
    BY <2>1 DEF Judge
  <2>4. /\ tx' = [b \in Users |-> tx'[b]] /\ \A b \in Users \ {a} : tx'[b] = tx[b]
        /\ tx'[a].kind = tx[a].kind /\ tx'[a].project = tx[a].project
    BY <1>2, <2>3 DEF Running
  <2>5. LockOf(tx'[a]) = l
    BY <2>4 DEF LockOf
  <2>6. AllTxOK'
    BY <1>2, <2>1, <2>4 DEF AllTxOK
  <2> HIDE DEF l
  <2>7. ASSUME NEW b \in Users, Judged(tx'[b]), tx'[b].kind \notin TokenKinds
        PROVE  holder'[LockOf(tx'[b])] = b
    <3>1. CASE b = a
      BY <1>1, <2>2, <2>3, <2>5, <3>1
    <3>2. CASE b # a
      <4>1. tx'[b] = tx[b] /\ holder[LockOf(tx[b])] = b /\ LockOf(tx[b]) \in Locks
        BY <1>1, <1>2, <2>4, <2>7, <3>2, LockExists DEF Judged
      <4>2. b # Nobody
        BY TenantsAssumption
      <4> QED BY <1>1, <2>3, <4>1, <4>2
    <3> QED BY <3>1, <3>2
  <2> QED BY <1>1, <2>2, <2>3, <2>6, <2>7
<1>5. ASSUME NEW a \in Users, Ends(a)
      PROVE  Good'
  <2>1. tx' = [tx EXCEPT ![a] = Idle]
    BY <1>5 DEF Ends
  <2>2. /\ tx' = [b \in Users |-> tx'[b]] /\ \A b \in Users \ {a} : tx'[b] = tx[b]
        /\ tx'[a] = Idle
    BY <1>2, <2>1
  <2>3. TxOK(Idle) /\ Idle.pc = "idle"
    BY DEF Idle, TxOK, Judged
  <2>4. AllTxOK'
    BY <1>2, <2>2, <2>3 DEF AllTxOK
  <2>5. holder' \in [Locks -> Users \cup {Nobody}]
    BY <1>1, <1>5 DEF Ends
  <2>6. ASSUME NEW b \in Users, Judged(tx'[b]), tx'[b].kind \notin TokenKinds
        PROVE  holder'[LockOf(tx'[b])] = b
    <3>1. b # a /\ tx'[b] = tx[b]
      BY <2>2, <2>3, <2>6 DEF Judged
    <3>2. holder[LockOf(tx[b])] = b /\ LockOf(tx[b]) \in Locks
      BY <1>1, <1>2, <2>6, <3>1, LockExists DEF Judged
    <3> QED BY <1>1, <1>5, <3>1, <3>2 DEF Ends
  <2> QED BY <2>4, <2>5, <2>6
<1>6. ASSUME tx' = tx, holder' = holder
      PROVE  Good'
  BY <1>1, <1>6 DEF AllTxOK
<1>8. ASSUME NEW a \in Users, Writes(a)
      PROVE  Good'
  <2>1. /\ tx' = [tx EXCEPT ![a] = tx'[a]] /\ TxOK(tx'[a]) /\ holder' = holder
        /\ tx'[a].kind = tx[a].kind /\ tx'[a].project = tx[a].project /\ Judged(tx[a])
    BY <1>8 DEF Writes
  <2>2. tx' = [b \in Users |-> tx'[b]] /\ \A b \in Users \ {a} : tx'[b] = tx[b]
    BY <1>2, <2>1
  <2>3. AllTxOK'
    BY <1>2, <2>1, <2>2 DEF AllTxOK
  <2>4. LockOf(tx'[a]) = LockOf(tx[a])
    BY <2>1 DEF LockOf
  <2>5. \A b \in Users : Holds(b)'
    BY <1>1, <2>1, <2>2, <2>4
  <2> QED BY <1>1, <2>1, <2>3, <2>5
<1> HIDE DEF Good
<1>7. Good'
  <2>1. ASSUME NEW a \in Users, CommitsMember(a) /\ Ends(a)
        PROVE  Good'
    BY <1>5, <2>1
  <2> QED BY <1>3, <1>4, <1>5, <1>6, <1>8, <2>1, StepShapes, Zenon
<1> QED BY <1>7 DEF Good

-----------------------------------------------------------------------------
(* Judgements and the last owner *)

\* What the three member operations write.
LEMMA CommitWrites ==
    ASSUME Inv, NEW a \in Users, CommitsMember(a)
    PROVE  /\ Judged(tx[a]) /\ tx[a].kind \in MemberKinds /\ tx[a].input.user \in Users
           /\ \A v \in Users \ {tx[a].input.user} : member'[v] = member[v]
           /\ tx[a].kind = "remove" =>
                 /\ member'[tx[a].input.user].status = "removed"
                 /\ member'[tx[a].input.user].role = member[tx[a].input.user].role
           /\ tx[a].kind = "add" =>
                 member'[tx[a].input.user] = [role |-> tx[a].input.role, status |-> "active"]
           /\ tx[a].kind = "update" =>
                 member'[tx[a].input.user] = [role |-> tx[a].input.role, status |-> tx[a].input.status]
<1>1. TxOK(tx[a])
  BY DEF Inv, AllTxOK
<1>2. member \in [Users -> [role : MemberRole \cup {"none"},
                            status : {"none", "active", "suspended", "removed"}]]
  BY DEF Inv, TenantTypeOK
<1>3. ASSUME AddMember(a)
      PROVE  /\ Judged(tx[a]) /\ tx[a].kind = "add" /\ tx[a].input.user \in Users
             /\ member' = [member EXCEPT ![tx[a].input.user] =
                              [role |-> tx[a].input.role, status |-> "active"]]
  BY <1>1, <1>3 DEF AddMember, Finishing, TxOK, Judged, CutKinds
<1>4. ASSUME UpdateMember(a)
      PROVE  /\ Judged(tx[a]) /\ tx[a].kind = "update" /\ tx[a].input.user \in Users
             /\ member' = [member EXCEPT ![tx[a].input.user] =
                              [role |-> tx[a].input.role, status |-> tx[a].input.status]]
  BY <1>1, <1>4 DEF UpdateMember, Finishing, TxOK, Judged, CutKinds
<1>5. ASSUME RemoveMember(a)
      PROVE  /\ Judged(tx[a]) /\ tx[a].kind = "remove" /\ tx[a].input.user \in Users
             /\ member' = [member EXCEPT ![tx[a].input.user].status = "removed"]
  BY <1>1, <1>5 DEF RemoveMember, Finishing, TxOK, Judged, CutKinds
<1> QED BY <1>2, <1>3, <1>4, <1>5 DEF CommitsMember, MemberKinds

\* A safe commit leaves an owner: the user it writes is still one, or never
\* was, or another one was counted.
LEMMA OwnerStays ==
    ASSUME Inv, NEW a \in Users, CommitsMember(a)
    PROVE  OwnerRemains'
<1> DEFINE kind == tx[a].kind
           in   == tx[a].input
<1>1. PICK u \in Users : u = in.user /\ kind \in {"add", "update", "remove"}
  BY CommitWrites DEF MemberKinds
<1>2. /\ \A v \in Users \ {u} : member'[v] = member[v]
      /\ kind = "update" => member'[u] = [role |-> in.role, status |-> in.status]
  BY <1>1, CommitWrites
<1>3. Safe(a, kind, in)
  BY <1>1, CommitWrites DEF Inv, JudgedHolds
<1>4. \A v \in Users \ {u} : IsActiveOwner(v) => IsActiveOwner(v)'
  BY <1>2 DEF IsActiveOwner
<1>5. CASE OtherOwners(u) # {}
  BY <1>4, <1>5 DEF OtherOwners, OwnerRemains
<1>6. CASE OtherOwners(u) = {}
  <2>1. IsActiveOwner(u)
    BY <1>6 DEF Inv, OwnerRemains, OtherOwners
  <2>2. kind = "update" /\ in.role = "tenant_owner" /\ in.status = "active"
    BY <1>1, <1>3, <1>6, <2>1 DEF Safe, IsActiveOwner
  <2>3. IsActiveOwner(u)'
    BY <1>2, <2>2 DEF IsActiveOwner
  <2> QED BY <2>3 DEF OwnerRemains
<1> QED BY <1>5, <1>6

\* Who commits a change of a manager is an owner.
LEMMA OwnerCommits ==
    ASSUME Inv, NEW a \in Users, CommitsMember(a), NEW u \in Users, member'[u] # member[u],
           \/ member[u].role \in Managers /\ member[u].status \in {"active", "suspended"}
           \/ member'[u].role \in Managers /\ member'[u].status = "active"
    PROVE  IsActiveOwner(a)
<1> DEFINE kind == tx[a].kind
           in   == tx[a].input
<1>1. kind \in {"add", "update", "remove"}
  BY CommitWrites DEF MemberKinds
<1>2. u = in.user
  BY <1>1, CommitWrites
<1>3. Safe(a, kind, in)
  BY <1>1, CommitWrites DEF Inv, JudgedHolds
<1>4. CASE kind = "add"
  <2>1. member'[u] = [role |-> in.role, status |-> "active"]
    BY <1>1, <1>2, <1>4, CommitWrites
  <2> QED BY <1>2, <1>3, <1>4, <2>1 DEF Safe
<1>5. CASE kind = "update"
  <2>1. member'[u] = [role |-> in.role, status |-> in.status]
    BY <1>1, <1>2, <1>5, CommitWrites
  <2> QED BY <1>2, <1>3, <1>5, <2>1 DEF Safe
<1>6. CASE kind = "remove"
  <2>1. member'[u].status = "removed"
    BY <1>1, <1>2, <1>6, CommitWrites
  <2> QED BY <1>2, <1>3, <1>6, <2>1 DEF Safe
<1> QED BY <1>1, <1>4, <1>5, <1>6

\* What others have judged stays safe, for nobody else can change members.
LEMMA JudgementStep ==
    ASSUME Inv, [Next]_tenantVars
    PROVE  JudgedHolds' /\ OwnerRemains'
<1> DEFINE Good == JudgedHolds /\ OwnerRemains
<1>1. /\ tx = [b \in Users |-> tx[b]] /\ \A b \in Users : TxOK(tx[b])
      /\ \A b \in Users : Judged(tx[b]) => Safe(b, tx[b].kind, tx[b].input)
      /\ OwnerRemains
  BY DEF Inv, AllTxOK, JudgedHolds
<1>2. ASSUME member' = member
      PROVE  /\ OwnerRemains'
             /\ \A b, kind, in : Safe(b, kind, in)' <=> Safe(b, kind, in)
  BY <1>1, <1>2 DEF OwnerRemains, IsActiveOwner, OtherOwners, Safe
<1>3. ASSUME NEW a \in Users, Goes(a), member' = member
      PROVE  Good'
  <2>1. tx' = [tx EXCEPT ![a] = tx'[a]]
        /\ (tx'[a].pc = "begun" \/ (tx'[a].pc = "judged" /\ tx'[a].kind \in TokenKinds))
    BY <1>3 DEF Goes
  <2>2. \A b \in Users \ {a} : tx'[b] = tx[b]
    BY <1>1, <2>1
  <2>3. Judged(tx'[a]) => Safe(a, tx'[a].kind, tx'[a].input)
    BY <2>1 DEF Safe, Judged, TokenKinds
  <2>4. JudgedHolds'
    BY <1>1, <1>2, <1>3, <2>2, <2>3 DEF JudgedHolds
  <2> QED BY <1>2, <1>3, <2>4
<1>4. ASSUME NEW a \in Users, Judges(a), member' = member
      PROVE  Good'
  <2>0. PICK kind \in Kinds : \E in : Judge(a, kind, in) /\ Safe(a, kind, in)
    BY <1>4 DEF Judges
  <2>1. PICK in : Judge(a, kind, in) /\ Safe(a, kind, in)
    BY <2>0
  <2>2. tx' = [tx EXCEPT ![a] = Running(tx[a], "judged", in, {}, {})] /\ tx[a].kind = kind
    BY <2>1 DEF Judge
  <2>3. /\ \A b \in Users \ {a} : tx'[b] = tx[b]
        /\ tx'[a].kind = kind /\ tx'[a].input = in
    BY <1>1, <2>2 DEF Running
  <2>4. JudgedHolds'
    BY <1>1, <1>2, <1>4, <2>1, <2>3 DEF JudgedHolds
  <2> QED BY <1>2, <1>4, <2>4
<1>5. ASSUME NEW a \in Users, Ends(a), member' = member
      PROVE  Good'
  <2>1. tx' = [tx EXCEPT ![a] = Idle]
    BY <1>5 DEF Ends
  <2>2. tx'[a].pc = "idle" /\ \A b \in Users \ {a} : tx'[b] = tx[b]
    BY <1>1, <2>1 DEF Idle
  <2>3. JudgedHolds'
    BY <1>1, <1>2, <1>5, <2>2 DEF JudgedHolds, Judged
  <2> QED BY <1>2, <1>5, <2>3
<1>6. ASSUME NEW a \in Users, CommitsMember(a), Ends(a)
      PROVE  Good'
  <2>1. tx' = [tx EXCEPT ![a] = Idle]
    BY <1>6 DEF Ends
  <2>2. tx'[a].pc = "idle" /\ \A b \in Users \ {a} : tx'[b] = tx[b]
    BY <1>1, <2>1 DEF Idle
  <2>3. ASSUME NEW b \in Users, Judged(tx'[b])
        PROVE  Safe(b, tx[b].kind, tx[b].input)'
    <3>1. b # a /\ tx'[b] = tx[b]
      BY <2>2, <2>3 DEF Judged
    <3>2. tx[b].kind \notin MemberKinds
      BY <1>6, <2>3, <3>1, OneJudged, CommitWrites
    <3> QED BY <3>1, <3>2 DEF Safe, MemberKinds
  <2>4. OwnerRemains'
    BY <1>6, OwnerStays
  <2> QED BY <2>3, <2>4 DEF JudgedHolds
<1>7. ASSUME tx' = tx, member' = member
      PROVE  Good'
  <2>1. JudgedHolds'
    BY <1>1, <1>2, <1>7 DEF JudgedHolds
  <2> QED BY <1>2, <1>7, <2>1
<1>8. ASSUME NEW a \in Users, Writes(a), member' = member
      PROVE  Good'
  <2>1. /\ \A b \in Users \ {a} : tx'[b] = tx[b]
        /\ tx'[a].kind = tx[a].kind /\ tx'[a].input = tx[a].input /\ Judged(tx[a])
    BY <1>1, <1>8 DEF Writes
  <2>2. JudgedHolds'
    BY <1>1, <1>2, <1>8, <2>1 DEF JudgedHolds
  <2> QED BY <1>2, <1>8, <2>2
<1> HIDE DEF Good
<1>9. Good'
  BY <1>3, <1>4, <1>5, <1>6, <1>7, <1>8, StepShapes, Zenon
<1> QED BY <1>9 DEF Good

-----------------------------------------------------------------------------
(* Tokens that are being revoked *)

\* Revoking keeps what is revoked, and revokes what was being revoked.
LEMMA RevokedTokens ==
    ASSUME Inv, NEW S, NEW k \in Tokens
    PROVE  /\ token[k].status = "revoked" => Revoked(S)[k] = token[k]
           /\ token[k].status \in {"active", "revoked"} =>
                 /\ Revoked(S)[k].status \in {"active", "revoked"}
                 /\ k \in S => Revoked(S)[k].status = "revoked"
BY DEF Revoked, Inv, TenantTypeOK

\* A token is revoked by a transaction, or its row, which nobody is revoking,
\* is updated by itself.
LEMMA TokenShapes ==
    ASSUME Inv, [Next]_tenantVars
    PROVE  \/ token' = token
           \/ \E S : token' = Revoked(S)
           \/ \E k \in Tokens : /\ \A j \in Tokens \ {k} : token'[j] = token[j]
                                /\ token[k].status # "revoked"
                                /\ token[k].status = "none" \/ TokenFree(k)
<1> DEFINE Shape ==
           \/ token' = token
           \/ \E S : token' = Revoked(S)
           \/ \E k \in Tokens : /\ \A j \in Tokens \ {k} : token'[j] = token[j]
                                /\ token[k].status # "revoked"
                                /\ token[k].status = "none" \/ TokenFree(k)
<1>1. token = [j \in Tokens |-> token[j]]
  BY DEF Inv, TenantTypeOK
<1>2. ASSUME NEW a \in Users, MemberStep(a)
      PROVE  Shape
  BY <1>2 DEF MemberStep, JudgeAdd, JudgeUpdate, JudgeRemove, Judge, AddMember, UpdateMember,
              RemoveMember
<1>3. ASSUME NEW a \in Users, ProjectStep(a)
      PROVE  Shape
  BY <1>3 DEF ProjectStep, CreateProject, JudgeProject, UpdateProject, DeleteProject, ChangeProject,
              JudgeAddTo, JudgeChangeIn, JudgeRemoveFrom, Judge, AddProjectMember,
              UpdateProjectMember, RemoveProjectMember
<1>4. ASSUME NEW a \in Users, TokenStep(a)
      PROVE  Shape
  <2>1. CheckIssue(a) \/ CheckMove(a) => Shape
    BY DEF CheckIssue, CheckMove
  <2>2. ASSUME NEW k \in Tokens, InsertToken(a, k)
        PROVE  Shape
    BY <1>1, <2>2 DEF InsertToken
  <2>3. ASSUME NEW k \in Tokens, UpdateOwned(a, k)
        PROVE  Shape
    BY <1>1, <2>3 DEF UpdateOwned
  <2>4. ASSUME NEW k \in Tokens, NEW s \in {"active", "disabled", "revoked"},
               SetStatusOwned(a, k, s)
        PROVE  Shape
    BY <1>1, <2>4 DEF SetStatusOwned
  <2> HIDE DEF Shape
  <2> QED BY <1>4, <2>1, <2>2, <2>3, <2>4, Zenon DEF TokenStep
<1>5. ASSUME NEW u \in Users, NEW s \in {"active", "disabled"}, SetAccountStatus(u, s)
      PROVE  Shape
  BY <1>5 DEF SetAccountStatus
<1>6. ASSUME NEW k \in Tokens, Pause(k)
      PROVE  Shape
  BY <1>1, <1>6 DEF Pause
<1>7. ASSUME NEW a \in Users, Rollback(a) \/ Write(a) \/ \E kind, p : Begin(a, kind, p)
      PROVE  Shape
  BY <1>7 DEF Rollback, Write, Begin
<1>8. ASSUME UNCHANGED tenantVars
      PROVE  Shape
  BY <1>8 DEF tenantVars
<1> HIDE DEF Shape
<1>9. Shape
  BY <1>2, <1>3, <1>4, <1>5, <1>6, <1>7, <1>8, Zenon DEF Next
<1> QED BY <1>9 DEF Shape

\* A token that a transaction is revoking stays active until it is revoked.
LEMMA CutStep ==
    ASSUME Inv, [Next]_tenantVars
    PROVE  CutsHold'
<1>1. tx = [b \in Users |-> tx[b]] /\ \A b \in Users : TxOK(tx[b])
  BY DEF Inv, AllTxOK
<1>2. ASSUME NEW a \in Users, NEW k \in tx[a].cut
      PROVE  k \in Tokens /\ token'[k].status \in {"active", "revoked"}
  <2>1. k \in Tokens /\ token[k].status \in {"active", "revoked"} /\ ~ TokenFree(k)
    BY <1>2 DEF Inv, CutsHold, TokenFree
  <2>2. ASSUME NEW S, token' = Revoked(S)
        PROVE  token'[k].status \in {"active", "revoked"}
    BY <2>1, <2>2, RevokedTokens
  <2> QED BY <2>1, <2>2, TokenShapes
<1>3. ASSUME NEW a \in Users, NEW k \in tx'[a].cut
      PROVE  k \in tx[a].cut \/ (k \in Tokens /\ token'[k].status = "active")
  <2>1. ASSUME NEW b \in Users, Goes(b) \/ Judges(b)
        PROVE  \A c \in Users : tx'[c] = tx[c] \/ tx'[c].cut = {}
    <3>1. CASE Goes(b)
      BY <1>1, <3>1 DEF Goes, TxOK
    <3>2. CASE Judges(b)
      <4>1. PICK kind \in Kinds : \E in : Judge(b, kind, in) /\ TxOK(tx'[b])
        BY <3>2 DEF Judges
      <4>2. PICK in : tx' = [tx EXCEPT ![b] = Running(tx[b], "judged", in, {}, {})]
        BY <4>1 DEF Judge
      <4> QED BY <1>1, <4>2 DEF Running
    <3> QED BY <2>1, <3>1, <3>2
  <2>2. ASSUME NEW b \in Users, Writes(b)
        PROVE  \A c \in Users : \/ tx'[c] = tx[c]
                                \/ \A j \in tx'[c].cut : j \in Tokens /\ token'[j].status = "active"
    BY <1>1, <2>2 DEF Writes
  <2>3. ASSUME NEW b \in Users, Ends(b)
        PROVE  \A c \in Users : tx'[c] = tx[c] \/ tx'[c].cut = {}
    BY <1>1, <2>3 DEF Ends, Idle
  <2>4. \/ tx' = tx \/ \E b \in Users : Ends(b) \/ Writes(b) \/ Goes(b) \/ Judges(b)
    BY StepShapes, Zenon
  <2> QED BY <1>3, <2>1, <2>2, <2>3, <2>4
<1> QED BY <1>2, <1>3 DEF CutsHold

\* The invariant is inductive.
LEMMA TenantStep ==
    ASSUME Inv, [Next]_tenantVars
    PROVE  Inv'
<1>1. TenantTypeOK'
  BY RowTypes, LockStep DEF TenantTypeOK
<1> QED BY <1>1, LockStep, JudgementStep, CutStep DEF Inv

\* A tenant starts with its founder as the only member.
LEMMA TenantInit == ASSUME Init PROVE Inv
<1>1. TenantTypeOK
  BY TenantsAssumption DEF Init, TenantTypeOK, Idle, Judged, MemberRole, Managers, ProjectRole
<1>2. AllTxOK
  BY DEF Init, AllTxOK, TxOK, Judged, Idle
<1>3. JudgedHolds /\ CutsHold
  BY DEF Init, JudgedHolds, CutsHold, Judged, Idle
<1>4. OwnerRemains
  BY TenantsAssumption DEF Init, OwnerRemains, IsActiveOwner
<1> QED BY <1>1, <1>2, <1>3, <1>4 DEF Inv

\* It holds in every reachable state.
LEMMA AlwaysInv == Spec => []Inv
BY TenantInit, TenantStep, PTL DEF Spec

\* Rows keep their types, and whoever has judged under a lock keeps the lock
\* until the end of the transaction.
THEOREM TenantTypesHold == Spec => []TenantTypeOK
<1>1. Inv => TenantTypeOK
  BY DEF Inv
<1> QED BY <1>1, AlwaysInv, PTL

\* However many owners demote, suspend or remove each other at the same time,
\* the tenant keeps an owner (ErrLastTenantOwner).
THEOREM AnOwnerRemains == Spec => []OwnerRemains
<1>1. Inv => OwnerRemains
  BY DEF Inv
<1> QED BY <1>1, AlwaysInv, PTL

\* Owners and administrators of a tenant are changed only by a request whose
\* author is an owner at the moment of the commit (canManageRole).
THEOREM OnlyOwnersChangeManagers == Spec => ManagersAreChangedByOwners
<1> DEFINE Ok ==
       \A u \in Users :
          /\ member'[u] # member[u]
          /\ \/ member[u].role \in Managers /\ member[u].status \in {"active", "suspended"}
             \/ member'[u].role \in Managers /\ member'[u].status = "active"
          => \E a \in Users : IsActiveOwner(a) /\ Judged(tx[a]) /\ tx'[a].pc = "idle"
<1>1. ASSUME Inv, [Next]_tenantVars
      PROVE  Ok
  <2>1. CASE member' = member
    BY <2>1
  <2>2. ASSUME NEW a \in Users, CommitsMember(a), Ends(a), NEW u \in Users,
               member'[u] # member[u],
               \/ member[u].role \in Managers /\ member[u].status \in {"active", "suspended"}
               \/ member'[u].role \in Managers /\ member'[u].status = "active"
        PROVE  IsActiveOwner(a) /\ Judged(tx[a]) /\ tx'[a].pc = "idle"
    <3>1. IsActiveOwner(a)
      BY <1>1, <2>2, OwnerCommits
    <3>2. Judged(tx[a])
      BY <1>1, <2>2, CommitWrites
    <3>3. tx'[a].pc = "idle"
      BY <1>1, <2>2 DEF Ends, Idle, Inv, AllTxOK
    <3> QED BY <3>1, <3>2, <3>3
  <2>3. CASE \E a \in Users : CommitsMember(a) /\ Ends(a)
    BY <2>2, <2>3, Zenon
  <2> QED BY <1>1, <2>1, <2>3, StepShapes, Zenon
<1> QED BY <1>1, AlwaysInv, PTL DEF ManagersAreChangedByOwners, Spec

-----------------------------------------------------------------------------
(* Tokens that were cut off *)

\* Who revokes tokens and commits a change revokes all of them.
LEMMA CommitCuts ==
    ASSUME Inv, [Next]_tenantVars, NEW a \in Users, NEW k \in tx[a].cut, tx'[a].pc = "idle",
           <<member, project, prole>>' # <<member, project, prole>>
    PROVE  token' = Revoked(tx[a].cut)
<1>1. tx = [b \in Users |-> tx[b]] /\ tx[a].pc = "written" /\ tx[a].kind \in CutKinds
  BY DEF Inv, AllTxOK, TxOK
<1> DEFINE Cuts == token' = Revoked(tx[a].cut)
<1>2. ASSUME NEW b \in Users, NEW t, tx' = [tx EXCEPT ![b] = t]
      PROVE  b = a
  BY <1>1, <1>2
<1>3. ASSUME NEW b \in Users, MemberStep(b)
      PROVE  Cuts
  <2>1. ~ AddMember(b)
    BY <1>1, <1>2 DEF AddMember, Finishing, CutKinds, ProjectKinds
  <2>2. UpdateMember(b) \/ RemoveMember(b) => Cuts
    BY <1>2 DEF UpdateMember, RemoveMember, Finishing
  <2> QED BY <1>3, <2>1, <2>2 DEF MemberStep, JudgeAdd, JudgeUpdate, JudgeRemove, Judge
<1>4. ASSUME NEW b \in Users, ProjectStep(b)
      PROVE  Cuts
  <2>1. ~ AddProjectMember(b)
    BY <1>1, <1>2 DEF AddProjectMember, Finishing, CutKinds, ProjectKinds
  <2>2. \A p \in Projects : ~ CreateProject(b, p)
    BY <1>1, <1>2 DEF CreateProject
  <2>3. UpdateProject(b) \/ DeleteProject(b) \/ UpdateProjectMember(b) \/ RemoveProjectMember(b) => Cuts
    BY <1>2 DEF UpdateProject, DeleteProject, ChangeProject, UpdateProjectMember,
                RemoveProjectMember, Finishing
  <2> QED BY <1>4, <2>1, <2>2, <2>3 DEF ProjectStep, JudgeProject, JudgeAddTo, JudgeChangeIn,
                                        JudgeRemoveFrom, Judge
<1>5. ASSUME NEW b \in Users, TokenStep(b)
      PROVE  Cuts
  BY <1>5 DEF TokenStep, CheckIssue, CheckMove, InsertToken, UpdateOwned, SetStatusOwned
<1>6. ASSUME NEW b \in Users, Rollback(b) \/ Write(b) \/ \E kind, p : Begin(b, kind, p)
      PROVE  Cuts
  BY <1>6 DEF Rollback, Write, Begin
<1>7. (\E u, s : SetAccountStatus(u, s)) \/ (\E j : Pause(j)) => Cuts
  BY DEF SetAccountStatus, Pause
<1>8. ~ UNCHANGED tenantVars
  BY DEF tenantVars
<1> HIDE DEF Cuts
<1>9. Cuts
  BY <1>3, <1>4, <1>5, <1>6, <1>7, <1>8, Zenon DEF Next
<1> QED BY <1>9 DEF Cuts

\* A token that was revoked never works again, and an operation against its
\* creator or its project revokes every token its UPDATE saw (RemoveMember,
\* UpdateMember, RemoveProjectMember, UpdateProject), whatever is done to the
\* token at the same time.  Of tokens that come later it says nothing.
THEOREM CutOffStays == Spec => CutOffIsFinal
<1> DEFINE Ok ==
       \A k \in Tokens :
          /\ token[k].status = "revoked" => token'[k] = token[k]
          /\ \A a \in Users :
                k \in tx[a].cut /\ tx'[a].pc = "idle"
                      /\ <<member, project, prole>>' # <<member, project, prole>>
                    => token'[k].status = "revoked"
<1>1. ASSUME Inv, [Next]_tenantVars, NEW k \in Tokens, token[k].status = "revoked"
      PROVE  token'[k] = token[k]
  <2>1. ASSUME NEW S, token' = Revoked(S)
        PROVE  token'[k] = token[k]
    BY <1>1, <2>1, RevokedTokens
  <2> QED BY <1>1, <2>1, TokenShapes
<1>2. ASSUME Inv, [Next]_tenantVars, NEW k \in Tokens, NEW a \in Users, k \in tx[a].cut,
             tx'[a].pc = "idle", <<member, project, prole>>' # <<member, project, prole>>
      PROVE  token'[k].status = "revoked"
  <2>1. token' = Revoked(tx[a].cut)
    BY <1>2, CommitCuts
  <2>2. token[k].status \in {"active", "revoked"}
    BY <1>2 DEF Inv, CutsHold
  <2> QED BY <1>2, <2>1, <2>2, RevokedTokens
<1>3. ASSUME Inv, [Next]_tenantVars
      PROVE  Ok
  BY <1>1, <1>2, <1>3
<1> QED BY <1>3, AlwaysInv, PTL DEF CutOffIsFinal, Spec
=============================================================================
