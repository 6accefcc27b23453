----------------------------- MODULE LockOrder -----------------------------
(***************************************************************************)
(* The row locks of the transactions that meet in the rows of tokens,       *)
(* accounts and projects: internal/billing/service.go, the member and       *)
(* project operations of internal/users/tenant.go and the updates of        *)
(* internal/tokens.  Elsewhere such a transaction is one step; here it      *)
(* takes its locks one by one and keeps them to its end.                    *)
(*                                                                         *)
(* An operation is the sequence of the locks it takes.  PostgreSQL: SELECT  *)
(* FOR UPDATE locks a row for "update", an UPDATE that changes no key for   *)
(* "noKey"; an insert locks each row it refers to for "share", and waits for *)
(* whoever is writing a row with its unique key.                            *)
(*                                                                         *)
(* Abstractions: an operation may end early whatever its rows say; an       *)
(* UPDATE of many tokens meets any of them, in any order; rows that these   *)
(* transactions only share.                                                 *)
(***************************************************************************)
EXTENDS Integers, Sequences, FiniteSets

CONSTANTS
    Transactions,
    Keys,             \* idempotency keys: a request and its reservation
    ApiTokens, ApiProjects,
    KeyToken,         \* scopedBillingIdempotencyKey: a key belongs to one token ...
    KeyAccount        \* ... whose tenant pays from this account

ASSUME LockOrderAssumption == KeyToken \in [Keys -> ApiTokens] /\ IsFiniteSet(ApiTokens)

VARIABLES
    known,            \* the requests that exist: "none", "paid", "free"
    work              \* per transaction: operation, key, project, tokens, locks taken

Token(x)   == <<"api_tokens", x>>
Project(p) == <<"projects", p>>
Ledger(k)  == <<"ledger_accounts", KeyAccount[k]>>
Revenue    == <<"system accounts", "revenue">>
Topup      == <<"system accounts", "topup">>
Reservation(k) == <<"billing_reservations", k>>
Request(k)     == <<"model_requests", k>>

Lock(row, mode) == [row |-> row, mode |-> mode]

\* An insert waits for another one and for an update of the row, not for a lock.
Conflict(m, n) ==
    IF "insert" \in {m, n} THEN {m, n} \subseteq {"insert", "noKey"}
                           ELSE "update" \in {m, n} \/ (m = "noKey" /\ n = "noKey")

lockVars == <<known, work>>

-----------------------------------------------------------------------------
(* What each operation locks, in this order                                *)

ReserveLocks(k, p) ==
    <<Lock(Token(KeyToken[k]), "update"), Lock(Ledger(k), "update"), Lock(Request(k), "insert"),
      Lock(Project(p), "share")>>

StartFreeLocks(k, p) ==
    <<Lock(Request(k), "insert"), Lock(Project(p), "share"), Lock(Token(KeyToken[k]), "share")>>

\* Mutant: FOR UPDATE OF mr, the reservation is locked when it is written.
SettleRequestFirst(k) ==
    <<Lock(Request(k), "update"), Lock(Token(KeyToken[k]), "update"), Lock(Ledger(k), "noKey"),
      Lock(Revenue, "noKey"), Lock(Reservation(k), "noKey"), Lock(Request(k), "noKey")>>

SettleLocks(k) ==
    <<Lock(Reservation(k), "update"), Lock(Request(k), "update"), Lock(Token(KeyToken[k]), "update"),
      Lock(Ledger(k), "noKey"), Lock(Revenue, "noKey"), Lock(Request(k), "noKey")>>

PendLocks(k) == <<Lock(Reservation(k), "update"), Lock(Request(k), "noKey")>>

RebindLocks(k) ==
    <<Lock(Reservation(k), "update"), Lock(Request(k), "update"), Lock(Ledger(k), "noKey"),
      Lock(Request(k), "noKey")>>

\* releaseReservation takes the account before the request.
ReleaseLocks(k) ==
    <<Lock(Reservation(k), "update"), Lock(Ledger(k), "noKey"), Lock(Request(k), "noKey")>>

ExtendLocks(k) == <<Lock(Reservation(k), "noKey")>>

\* RebindRequestChannel, CompleteFreeRequest and FailFreeRequest
FreeLocks(k) == <<Lock(Request(k), "update"), Lock(Request(k), "noKey")>>

\* Credit on the account of k
CreditLocks(k) == <<Lock(Ledger(k), "update"), Lock(Topup, "noKey")>>

\* UPDATE api_tokens of the tokens ts, after the lock of the project if there is one
TokenRows(first, ts) ==
    [i \in 1 .. Len(ts) + 1 |-> IF i = 1 THEN first ELSE Lock(Token(ts[i - 1]), "noKey")]

\* UpdateProjectMember and RemoveProjectMember select the project with the member.
MemberLocks(p, ts) == TokenRows(Lock(Project(p), "update"), ts)

\* UpdateProject and DeleteProject
ProjectLocks(p, ts) == TokenRows(Lock(Project(p), "noKey"), ts)

\* RemoveMember, UpdateMember, SetStatus of an account; with one token Revoke,
\* Pause, SetStatusOwned and DeleteOwned
RevokeLocks(ts) == [i \in 1 .. Len(ts) |-> Lock(Token(ts[i]), "noKey")]

\* IssueInGroupWithSpendLimit refers to the project; UpdateOwned moves a token to it.
IssueLocks(p)    == <<Lock(Project(p), "share")>>
MoveLocks(p, ts) == Append(RevokeLocks(ts), Lock(Project(p), "share"))

Operations == {"reserve", "startFree", "settle", "pend", "rebind", "release", "extend", "free",
               "credit", "member", "project", "issue", "move", "revoke"}

Locks(op, k, p, ts) ==
    CASE op = "reserve"   -> ReserveLocks(k, p)
      [] op = "startFree" -> StartFreeLocks(k, p)
      [] op = "settle"    -> SettleLocks(k)
      [] op = "pend"      -> PendLocks(k)
      [] op = "rebind"    -> RebindLocks(k)
      [] op = "release"   -> ReleaseLocks(k)
      [] op = "extend"    -> ExtendLocks(k)
      [] op = "free"      -> FreeLocks(k)
      [] op = "credit"    -> CreditLocks(k)
      [] op = "member"    -> MemberLocks(p, ts)
      [] op = "project"   -> ProjectLocks(p, ts)
      [] op = "issue"     -> IssueLocks(p)
      [] op = "move"      -> MoveLocks(p, ts)
      [] op = "revoke"    -> RevokeLocks(ts)
      [] OTHER            -> <<>>

\* The tokens an UPDATE meets, one after the other
TokenLists ==
    {ts \in UNION {[1 .. n -> ApiTokens] : n \in 0 .. Cardinality(ApiTokens)} :
        \A i, j \in DOMAIN ts : ts[i] = ts[j] => i = j}

\* The operations that open a request, and those on a paid or a free one
Opening == {"reserve", "startFree"}
Paid    == {"settle", "pend", "rebind", "release", "extend"}
Free    == {"free"}

-----------------------------------------------------------------------------
NoWork == [op |-> "none", key |-> "none", project |-> "none", tokens |-> <<>>, taken |-> 0]

LockInit ==
    /\ known \in [Keys -> {"none", "paid", "free"}]
    /\ work = [t \in Transactions |-> NoWork]

LocksOf(t) == Locks(work[t].op, work[t].key, work[t].project, work[t].tokens)
More(t)    == work[t].taken + 1 \in DOMAIN LocksOf(t)
Wanted(t)  == LocksOf(t)[work[t].taken + 1]

\* t waits for u, which has a lock that conflicts with the next one of t.
WaitsFor(t, u) ==
    /\ t # u /\ More(t)
    /\ \E i \in 1 .. work[u].taken : /\ LocksOf(u)[i].row = Wanted(t).row
                                     /\ Conflict(LocksOf(u)[i].mode, Wanted(t).mode)

\* Reserve and StartFreeRequest look for the key first; the others have found
\* their row.
Begins(op, k) ==
    /\ op \in Opening => known[k] = "none"
    /\ op \in Paid => known[k] = "paid"
    /\ op \in Free => known[k] = "free"

BeginWork(t, op, k, p, ts) ==
    /\ work[t] = NoWork
    /\ Begins(op, k)
    /\ op = "move" => Len(ts) = 1
    /\ op \notin {"member", "project", "move", "revoke"} => ts = <<>>
    /\ work' = [work EXCEPT ![t] = [op |-> op, key |-> k, project |-> p, tokens |-> ts, taken |-> 0]]
    /\ UNCHANGED known

TakeLock(t) ==
    /\ More(t) /\ ~ \E u \in Transactions : WaitsFor(t, u)
    /\ Wanted(t).mode = "insert" => known[work[t].key] = "none"
    /\ work' = [work EXCEPT ![t].taken = @ + 1]
    /\ UNCHANGED known

CommitWork(t) ==
    /\ work[t] # NoWork /\ ~ More(t)
    /\ known' = [known EXCEPT ![work[t].key] = CASE work[t].op = "reserve"   -> "paid"
                                                [] work[t].op = "startFree" -> "free"
                                                [] OTHER -> @]
    /\ work' = [work EXCEPT ![t] = NoWork]

\* An early return, a failure, or the victim of the deadlock detector.
RollbackWork(t) ==
    /\ work[t] # NoWork
    /\ work' = [work EXCEPT ![t] = NoWork]
    /\ UNCHANGED known

LockNext ==
    \E t \in Transactions :
       \/ \E op \in Operations, k \in Keys, p \in ApiProjects, ts \in TokenLists :
             BeginWork(t, op, k, p, ts)
       \/ TakeLock(t) \/ CommitWork(t) \/ RollbackWork(t)

LockSpec == LockInit /\ [][LockNext]_lockVars

-----------------------------------------------------------------------------
\* Transactions that wait for each other in a circle
Circle(D) ==
    /\ D # {} /\ \A t \in D : \E u \in D : WaitsFor(t, u)
    /\ \A E \in (SUBSET D) \ {D, {}} : \E t \in E : ~ \E u \in E : WaitsFor(t, u)

\* The operations on a bill and on the tokens of a tenant never wait for each
\* other in a circle, although a release locks the account before the request and
\* a settlement after it, with two exceptions: a paid and a free call under one
\* key, and changes that revoke the same tokens.  Every other deadlock, and so
\* every one that can cost a served call its settlement, has a change of a
\* project's members in it, which locks the project before the tokens.
BillsDeadlockOverMembersOnly ==
    \A D \in SUBSET Transactions :
       Circle(D) => \/ \E t \in D : work[t].op = "member"
                    \/ \A t \in D : work[t].op \in Opening
                    \/ \A t \in D : work[t].op \in {"project", "revoke"}
=============================================================================
