--------------------------- MODULE AccountsProofs ---------------------------
(***************************************************************************)
(* The safety of one account (Accounts), for any number of requests, links *)
(* and authenticators, and of the administrators (PlatformAdmins), for any *)
(* number of users and roles.                                              *)
(***************************************************************************)
EXTENDS Accounts, PlatformAdmins, FiniteSetTheorems, TLAPS

-----------------------------------------------------------------------------
(* One account.  Sessions are inserted while nobody holds the row, so a    *)
(* change with the lock sees every session that it has to end; a link is   *)
(* looked at under the lock, so it is live until the change commits; and a *)
(* lock of the throttle counts down the guesses that were let through.     *)

Steps   == {"idle", "password", "mfa", "wrong", "issue", "clear", "identity", "lock", "revoke", "commit",
            "void", "mail", "revokePending", "insert", "credential"}
Changes == {"password", "email", "edit", "enable", "disable", "reset", "confirm"}
Operation == {None, "login", "oauth", "enroll", "verify", "activate", "deactivate", "stepUp"} \cup Changes

UserRow  == [status : {"none", "pending", "active", "disabled"}, email : {"old", "new"}, since : 0 .. MaxChanges]
LinkRow  == [kind : {"none", "reset", "verify"}, state : {"none", "live", "used"}, uses : Nat]
OAuthRow == [state : {"none", "live", "used"}, uses : 0 .. 1, linked : BOOLEAN]
Throttle == [count : Nat, first : Nat, locked : Nat]
Request  == [op : Operation, pc : Steps, link : Links \cup {None}, cred : Creds \cup {None},
             ends : SUBSET Procs, voids : SUBSET Links]

\* What the program counter says about the rest of a request.
RequestOK(f) ==
    /\ f \in Request
    /\ f.pc \in {"password", "mfa"} => f.op = "login"
    /\ f.pc = "void" => f.op = "verify"
    /\ f.pc = "mail" => f.op \in {"reset", "verify"}
    /\ f.pc = "lock" => f.op \in {"password", "email"}
    /\ f.pc = "credential" => f.cred \in Creds
    /\ f.pc \in {"revoke", "commit"} =>
          /\ f.op \in Changes
          /\ f.op \in {"reset", "confirm"} <=> f.link # None
          /\ f.pc = "commit" /\ f.link # None => f.link \in f.voids

\* The row is locked by the transaction that changes it.
RequestsOK ==
    /\ proc \in [Procs -> Request]
    /\ \A p \in Procs : RequestOK(proc[p])
    /\ rowLock \in Procs \cup {NoRequest}
    /\ \A p \in Procs : proc[p].pc \in {"revoke", "commit"} <=> rowLock = p

\* A change that has the lock still has the room that was there, and no session
\* has come to those it is about to end.
SessionsOK ==
    /\ user \in UserRow /\ cuts \in 0 .. MaxChanges /\ user.since <= cuts
    /\ session \in [Procs -> [status : {"none", "live", "revoked"}, born : Nat]]
    /\ \A p \in Procs : session[p].status = "live" => user.since <= session[p].born
    /\ \A p \in Procs : NewCredentials(proc[p].op) =>
          /\ proc[p].pc = "revoke" => cuts < MaxChanges
          /\ proc[p].pc = "commit" => LiveSessions \subseteq proc[p].ends

\* A link that a transaction with the lock is using is live, and a live link was
\* not used.
LinksOK ==
    /\ link \in [Links -> LinkRow]
    /\ \A l \in Links : link[l].uses <= 1 /\ (link[l].state # "used" => link[l].uses = 0)
    /\ \A p \in Procs : proc[p].pc \in {"revoke", "commit"} /\ proc[p].link # None =>
          /\ link[proc[p].link].state = "live"
          /\ link[proc[p].link].kind = IF proc[p].op = "reset" THEN "reset" ELSE "verify"
    /\ oauth \in OAuthRow /\ (oauth.state # "used" => oauth.uses = 0)

\* At most one authenticator is active, and a row that was seen is there.
CredsOK ==
    /\ cred \in [Creds -> {"none", "pending", "active", "revoked"}]
    /\ \A c, d \in Active : c = d
    /\ \A p \in Procs : proc[p].pc = "credential" => cred[proc[p].cred] # "none"

\* Requests that were let through and may still turn out to be a wrong guess.
Guessing(k) == {p \in Procs : IF k = "login" THEN proc[p].op = "login" /\ proc[p].pc \in {"password", "mfa", "wrong"}
                                             ELSE proc[p].op # "login" /\ proc[p].pc = "wrong"}

\* A row counts what was answered, and a lock counts down what had been let through.
GuessesOK(k) ==
    /\ answered[k] = throttle[k].count
    /\ throttle[k].locked = 0 => throttle[k].count < MaxFailures \/ throttle[k].count = 1
    /\ late[k] < Cardinality(Procs)
    /\ Throttled(k) => late[k] + Cardinality(Guessing(k)) < Cardinality(Procs)

ThrottlesOK ==
    /\ now \in Nat
    /\ throttle \in [{"login", "code", "reset"} -> Throttle]
    /\ answered \in [{"login", "code", "reset"} -> Nat] /\ late \in [{"login", "code"} -> Nat]
    /\ \A k \in {"login", "code"} : GuessesOK(k)
    /\ answered["reset"] <= throttle["reset"].count /\ throttle["reset"].count <= MaxRequests

AccountInv == RequestsOK /\ SessionsOK /\ LinksOK /\ CredsOK /\ ThrottlesOK

-----------------------------------------------------------------------------
\* The transactions that lock the row, and all other steps of a request but the
\* one that ends the sessions.
Locking(p) ==
    \/ ChangePassword(p) \/ ChangeEmail(p) \/ Administration(p)
    \/ \E l \in Links : Confirm(p, l) \/ ConfirmEmail(p, l)

Moving(p) ==
    \/ SignIn(p) \/ SignInOAuth(p) \/ \E kind \in {"password", "email"} : AskChange(p, kind)
    \/ AskReset(p) \/ Register(p) \/ AskVerification(p) \/ VoidLinks(p) \/ MailLink(p)
    \/ Enroll(p) \/ CommitChange(p) \/ Abort(p)

\* Nothing becomes of a transaction with the lock but its end.
Quiet == \A q \in Procs : proc'[q].pc \in {"revoke", "commit"} => proc'[q] = proc[q]

\* Every step is one of a request under the row lock, or of no request.
LEMMA AccountSteps ==
    [AccountNext]_accountVars =>
       \/ \E p \in Procs : Locking(p) \/ Moving(p) \/ EndSessions(p)
       \/ StartOAuth \/ Tick \/ UNCHANGED accountVars
  BY DEF AccountNext, Locking, Moving, Profile, Reset, Verification

\* What is locked, and what for.
LEMMA LockingStep ==
    ASSUME RequestsOK, LinksOK, NEW p \in Procs, Locking(p)
    PROVE  \E kind \in Changes : \E l \in Links \cup {None} :
              /\ LockRow(p, kind, l) /\ proc[p].pc \in {"idle", "lock"}
              /\ kind \in {"reset", "confirm"} <=> l # None
              /\ l # None => link[l].state = "live" /\ link[l].kind = IF kind = "reset" THEN "reset" ELSE "verify"
<1>1. CASE ChangePassword(p)
  BY <1>1 DEF ChangePassword, At, Changes
<1>2. CASE ChangeEmail(p)
  BY <1>2 DEF ChangeEmail, At, Changes
<1>3. CASE Administration(p)
  BY <1>3 DEF Administration, Update, SetStatus, At, Changes
<1>4. ASSUME NEW l \in Links, Confirm(p, l) \/ ConfirmEmail(p, l)
      PROVE  \E kind \in {"reset", "confirm"} :
                /\ LockRow(p, kind, l) /\ proc[p].pc \in {"idle", "lock"} /\ l # None
                /\ link[l].state = "live" /\ link[l].kind = IF kind = "reset" THEN "reset" ELSE "verify"
  <2>1. l # None
    BY AccountsAssumption
  <2>2. CASE Confirm(p, l)
    BY <2>1, <2>2 DEF Confirm, At, Live
  <2>3. CASE ConfirmEmail(p, l)
    BY <2>1, <2>3 DEF ConfirmEmail, At, Live
  <2>4. QED
    BY <1>4, <2>2, <2>3
<1>5. QED
  BY <1>1, <1>2, <1>3, <1>4 DEF Locking, Changes

\* Every step that neither locks the row nor ends sessions leaves a request that
\* is in order, and the lock with whoever has it.
LEMMA MovingStep ==
    ASSUME RequestsOK, LinksOK, NEW p \in Procs, Moving(p)
    PROVE  RequestsOK' /\ Quiet
<1>a. proc \in [Procs -> Request] /\ RequestOK(proc[p]) /\ None \notin Links \cup Creds /\ NoRequest \notin Procs
  BY AccountsAssumption DEF RequestsOK
<1>b. ASSUME NEW f, RequestOK(f), f.pc \notin {"revoke", "commit"}, proc' = [proc EXCEPT ![p] = f],
             rowLock' = IF rowLock = p THEN NoRequest ELSE rowLock
      PROVE  RequestsOK' /\ Quiet
  <2>1. \A q \in Procs : proc'[q] = IF q = p THEN f ELSE proc[q]
    BY <1>a, <1>b
  <2>2. proc' \in [Procs -> Request]
    BY <1>a, <1>b DEF RequestOK
  <2>3. \A q \in Procs : RequestOK(proc'[q])
    BY <1>b, <2>1 DEF RequestsOK
  <2>4. rowLock' \in Procs \cup {NoRequest}
    BY <1>b DEF RequestsOK
  <2>5. \A q \in Procs : proc'[q].pc \in {"revoke", "commit"} <=> rowLock' = q
    BY <1>a, <1>b, <2>1 DEF RequestsOK
  <2>6. QED
    BY <1>b, <2>1, <2>2, <2>3, <2>4, <2>5 DEF RequestsOK, Quiet
<1>c. ASSUME proc[p].pc \notin {"revoke", "commit"}, UNCHANGED rowLock
      PROVE  rowLock' = IF rowLock = p THEN NoRequest ELSE rowLock
  BY <1>c DEF RequestsOK
<1>d. RequestOK(IdleRequest) /\ IdleRequest.pc = "idle"
  BY DEF RequestOK, Request, IdleRequest, Steps, Operation
<1>e. ASSUME NEW op \in Operation, NEW pc \in Steps \ {"revoke", "commit", "mfa", "credential"},
             pc = "password" => op = "login", pc = "void" => op = "verify", pc = "mail" => op = "reset",
             pc = "lock" => op \in {"password", "email"}
      PROVE  /\ RequestOK([IdleRequest EXCEPT !.op = op, !.pc = pc])
             /\ [IdleRequest EXCEPT !.op = op, !.pc = pc].pc = pc
  BY <1>e DEF RequestOK, Request, IdleRequest
<1>f. ASSUME NEW pc \in {"mfa", "wrong", "issue", "clear", "insert", "mail"},
             pc = "mfa" => proc[p].op = "login", pc = "mail" => proc[p].op = "verify"
      PROVE  /\ RequestOK([proc[p] EXCEPT !.pc = pc])
             /\ [proc[p] EXCEPT !.pc = pc].pc = pc
  <2>1. proc[p] \in Request /\ pc \in Steps
    BY <1>a DEF Steps
  <2>2. [proc[p] EXCEPT !.pc = pc] \in Request /\ [proc[p] EXCEPT !.pc = pc].pc = pc
        /\ [proc[p] EXCEPT !.pc = pc].op = proc[p].op
    BY <2>1 DEF Request
  <2>3. QED
    BY <1>f, <2>2 DEF RequestOK
<1>g. ASSUME Finish(p), rowLock' = IF rowLock = p THEN NoRequest ELSE rowLock PROVE RequestsOK' /\ Quiet
  BY <1>b, <1>d, <1>g DEF Finish
<1>h. ASSUME NEW op, Ready(p, op), UNCHANGED rowLock,
             op[1] \in Operation, op[2] \in Steps \ {"revoke", "commit", "mfa", "credential"},
             op[2] = "password" => op[1] = "login", op[2] = "void" => op[1] = "verify",
             op[2] = "mail" => op[1] = "reset", op[2] = "lock" => op[1] \in {"password", "email"}
      PROVE  RequestsOK' /\ Quiet
  <2> DEFINE f == [IdleRequest EXCEPT !.op = op[1], !.pc = op[2]]
  <2>1. RequestOK(f) /\ f.pc = op[2]
    BY <1>e, <1>h
  <2>2. proc' = [proc EXCEPT ![p] = f] /\ proc[p].pc = "idle"
    BY <1>h DEF Ready
  <2> HIDE DEF f
  <2>3. QED
    BY <1>b, <1>c, <1>h, <2>1, <2>2
<1>i. ASSUME NEW pc \in {"mfa", "wrong", "issue", "clear", "insert", "mail"}, Goto(p, pc),
             proc[p].pc \notin {"revoke", "commit"}, UNCHANGED rowLock,
             pc = "mfa" => proc[p].op = "login", pc = "mail" => proc[p].op = "verify"
      PROVE  RequestsOK' /\ Quiet
  <2> DEFINE f == [proc[p] EXCEPT !.pc = pc]
  <2>1. RequestOK(f) /\ f.pc = pc
    BY <1>f, <1>i
  <2>2. proc' = [proc EXCEPT ![p] = f]
    BY <1>a, <1>i DEF Goto
  <2> HIDE DEF f
  <2>3. QED
    BY <1>b, <1>c, <1>i, <2>1, <2>2
<1>j. ASSUME UNCHANGED <<proc, rowLock>> PROVE RequestsOK' /\ Quiet
  BY <1>j DEF RequestsOK, Quiet
<1>1. CASE SignIn(p)
  <2>1. CASE AskLogin(p)
    BY <1>h, <2>1 DEF AskLogin, Operation, Steps
  <2>2. CASE PasswordRight(p)
    <3>1. proc[p].op = "login" /\ proc[p].pc = "password" /\ UNCHANGED rowLock
      BY <1>a, <2>2 DEF PasswordRight, At, RequestOK
    <3>2. QED
      BY <1>c, <1>g, <1>i, <2>2, <3>1 DEF PasswordRight
  <2>3. CASE PasswordWrong(p) \/ PassMFA(p) \/ WrongCode(p)
    BY <1>i, <2>3 DEF PasswordWrong, PassMFA, WrongCode, At
  <2>4. CASE RecordFailure(p) \/ ClearThrottle(p)
    BY <1>c, <1>g, <2>4 DEF RecordFailure, ClearThrottle, At
  <2>5. CASE Issue(p)
    BY <1>c, <1>g, <1>i, <2>5 DEF Issue, At
  <2>6. CASE Logout(p)
    BY <1>j, <2>6 DEF Logout
  <2>7. QED
    BY <1>1, <2>1, <2>2, <2>3, <2>4, <2>5, <2>6 DEF SignIn
<1>2. CASE SignInOAuth(p)
  <2>1. CASE TakeState(p)
    BY <1>h, <2>1 DEF TakeState, Operation, Steps
  <2>2. CASE ResolveIdentity(p)
    BY <1>i, <2>2 DEF ResolveIdentity, At
  <2>3. QED
    BY <1>2, <2>1, <2>2 DEF SignInOAuth
<1>3. ASSUME NEW kind \in {"password", "email"}, AskChange(p, kind) PROVE RequestsOK' /\ Quiet
  BY <1>h, <1>3 DEF AskChange, Operation, Changes, Steps
<1>4. CASE AskReset(p)
  <2>1. proc[p].pc = "idle" /\ UNCHANGED rowLock
    BY <1>4 DEF AskReset
  <2>2. proc' = proc \/ proc' = [proc EXCEPT ![p] = [IdleRequest EXCEPT !.op = "reset", !.pc = "mail"]]
    BY <1>4 DEF AskReset
  <2>3. /\ RequestOK([IdleRequest EXCEPT !.op = "reset", !.pc = "mail"])
        /\ [IdleRequest EXCEPT !.op = "reset", !.pc = "mail"].pc = "mail"
    BY <1>e DEF Operation, Changes, Steps
  <2>4. QED
    BY <1>b, <1>c, <1>j, <2>1, <2>2, <2>3
<1>5. CASE Register(p)
  BY <1>h, <1>j, <1>5 DEF Register, Operation, Steps
<1>6. CASE AskVerification(p)
  BY <1>h, <1>6 DEF AskVerification, Operation, Steps
<1>7. CASE VoidLinks(p)
  BY <1>a, <1>i, <1>7 DEF VoidLinks, At, RequestOK
<1>8. CASE MailLink(p)
  BY <1>c, <1>g, <1>8 DEF MailLink, At
<1>9. CASE Enroll(p)
  <2>1. CASE BeginEnrollment(p)
    BY <1>h, <2>1 DEF BeginEnrollment, Operation, Steps
  <2>2. CASE RevokePending(p)
    BY <1>i, <2>2 DEF RevokePending, At
  <2>3. CASE InsertPending(p)
    BY <1>c, <1>g, <2>3 DEF InsertPending, At
  <2>4. CASE SetCredential(p)
    BY <1>c, <1>g, <1>i, <2>4 DEF SetCredential, At
  <2>5. ASSUME NEW op \in {"activate", "deactivate", "stepUp"}, NEW c \in Creds, CheckCode(p, op, c)
        PROVE  RequestsOK' /\ Quiet
    <3>1. PICK pc \in {"credential", "wrong"} :
             proc' = [proc EXCEPT ![p] = [IdleRequest EXCEPT !.op = op, !.pc = pc, !.cred = c]]
      BY <2>5 DEF CheckCode
    <3>2. /\ RequestOK([IdleRequest EXCEPT !.op = op, !.pc = pc, !.cred = c])
          /\ [IdleRequest EXCEPT !.op = op, !.pc = pc, !.cred = c].pc = pc
      BY DEF RequestOK, Request, IdleRequest, Operation, Steps
    <3>3. QED
      BY <1>b, <1>c, <2>5, <3>1, <3>2 DEF CheckCode, At
  <2>6. QED
    BY <1>9, <2>1, <2>2, <2>3, <2>4, <2>5 DEF Enroll, ConfirmEnrollment, Disable, VerifyStepUp
<1>10. CASE CommitChange(p)
  BY <1>a, <1>g, <1>10 DEF CommitChange, At, RequestsOK
<1>11. CASE Abort(p)
  BY <1>g, <1>11 DEF Abort
<1>12. QED
  BY <1>1, <1>2, <1>3, <1>4, <1>5, <1>6, <1>7, <1>8, <1>9, <1>10, <1>11 DEF Moving

\* A transaction that takes the lock, and one that has ended the sessions.
LEMMA LockedStep ==
    ASSUME RequestsOK, NEW p \in Procs, NEW f, RequestOK(f), f.pc \in {"revoke", "commit"},
           proc' = [proc EXCEPT ![p] = f], rowLock' = p, rowLock \in {p, NoRequest}
    PROVE  RequestsOK' /\ \A q \in Procs : proc'[q] = IF q = p THEN f ELSE proc[q]
<1>1. \A q \in Procs : proc'[q] = IF q = p THEN f ELSE proc[q]
  BY DEF RequestsOK
<1>2. proc' \in [Procs -> Request] /\ rowLock' \in Procs \cup {NoRequest}
  BY DEF RequestsOK, RequestOK
<1>3. \A q \in Procs : RequestOK(proc'[q])
  BY <1>1 DEF RequestsOK
<1>4. \A q \in Procs : proc'[q].pc \in {"revoke", "commit"} <=> rowLock' = q
  BY <1>1, AccountsAssumption DEF RequestsOK
<1>5. QED
  BY <1>1, <1>2, <1>3, <1>4 DEF RequestsOK

\* A change of credentials that got the row lock goes on to end the sessions.
LEMMA LockRowStep ==
    ASSUME RequestsOK, NEW p \in Procs, NEW kind \in Changes, NEW l \in Links \cup {None},
           LockRow(p, kind, l), kind \in {"reset", "confirm"} <=> l # None
    PROVE  /\ RequestsOK' /\ rowLock = NoRequest
           /\ proc'[p].op = kind /\ proc'[p].pc = "revoke" /\ proc'[p].link = l
           /\ \A q \in Procs \ {p} : proc'[q] = proc[q]
<1> DEFINE f == [IdleRequest EXCEPT !.op = kind, !.pc = "revoke", !.link = l]
<1>1. RequestOK(f) /\ f.op = kind /\ f.pc = "revoke" /\ f.link = l
  BY DEF RequestOK, Request, IdleRequest, Steps, Operation
<1>2. proc' = [proc EXCEPT ![p] = f] /\ rowLock' = p /\ rowLock = NoRequest
  BY DEF LockRow
<1> HIDE DEF f
<1>3. RequestsOK' /\ \A q \in Procs : proc'[q] = IF q = p THEN f ELSE proc[q]
  BY <1>1, <1>2, LockedStep
<1>4. QED
  BY <1>1, <1>2, <1>3

\* It ends the live sessions and voids the links, before it commits.
LEMMA EndSessionsStep ==
    ASSUME RequestsOK, LinksOK, NEW p \in Procs, EndSessions(p)
    PROVE  /\ RequestsOK' /\ rowLock = p /\ rowLock' = p /\ proc[p].pc = "revoke" /\ proc'[p].pc = "commit"
           /\ proc'[p].op = proc[p].op /\ proc'[p].link = proc[p].link
           /\ NewCredentials(proc[p].op) => proc'[p].ends = LiveSessions
           /\ \A q \in Procs \ {p} : proc'[q] = proc[q]
<1> DEFINE kind == proc[p].op
           voids == CASE kind = "confirm" -> Live("verify")
                      [] kind = "reset"   -> {proc[p].link}
                      [] kind = "edit" /\ user.status = "pending" -> Live("verify")
                      [] OTHER            -> {}
           ends == IF NewCredentials(kind) THEN LiveSessions ELSE {}
           f == [proc[p] EXCEPT !.pc = "commit", !.ends = ends, !.voids = voids]
<1>1. proc[p] \in Request /\ RequestOK(proc[p]) /\ proc[p].pc = "revoke" /\ rowLock = p /\ UNCHANGED rowLock
  BY DEF RequestsOK, EndSessions, At
<1>2. proc' = [proc EXCEPT ![p] = f]
  BY DEF EndSessions, RequestsOK
<1>3. ends \subseteq Procs
  BY DEF LiveSessions
<1>4. kind \in Changes /\ (kind \in {"reset", "confirm"} <=> proc[p].link # None)
  BY <1>1 DEF RequestOK
<1>5. proc[p].link # None => proc[p].link \in Links /\ proc[p].link \in voids
  <2> SUFFICES ASSUME proc[p].link # None PROVE proc[p].link \in Links /\ proc[p].link \in voids
    OBVIOUS
  <2>1. proc[p].link \in Links
    BY <1>1 DEF Request
  <2>2. CASE kind = "reset"
    BY <2>1, <2>2
  <2>3. CASE kind = "confirm"
    BY <1>1, <2>1, <2>3 DEF LinksOK, Live
  <2>4. QED
    BY <1>4, <2>2, <2>3
<1>6. voids \subseteq Links
  BY <1>4, <1>5 DEF Live
<1> HIDE DEF voids, ends
<1>7. f \in Request /\ f.pc = "commit" /\ f.op = kind /\ f.link = proc[p].link /\ f.ends = ends /\ f.voids = voids
  <2>1. "commit" \in Steps
    BY DEF Steps
  <2>2. QED
    BY <1>1, <1>3, <1>6, <2>1 DEF Request
<1> HIDE DEF f
<1>8. RequestOK(f)
  BY <1>1, <1>4, <1>5, <1>7 DEF RequestOK
<1>9. RequestsOK' /\ \A q \in Procs : proc'[q] = IF q = p THEN f ELSE proc[q]
  BY <1>1, <1>2, <1>7, <1>8, LockedStep
<1>10. QED
  BY <1>1, <1>7, <1>9 DEF ends

-----------------------------------------------------------------------------
\* Every step preserves what sessions and changes say about each other.
LEMMA AccountKeepsSessions ==
    AccountInv /\ [AccountNext]_accountVars => RequestsOK' /\ SessionsOK'
<1> SUFFICES ASSUME AccountInv, [AccountNext]_accountVars PROVE RequestsOK' /\ SessionsOK'
  OBVIOUS
<1>a. RequestsOK /\ SessionsOK /\ LinksOK /\ MaxChanges \in Nat
  BY AccountsAssumption DEF AccountInv
\* What is left alone.
<1>b. ASSUME Quiet, UNCHANGED <<user, cuts, session>> PROVE SessionsOK'
  <2>1. LiveSessions' = LiveSessions
    BY <1>b DEF LiveSessions
  <2>2. QED
    BY <1>a, <1>b, <2>1 DEF SessionsOK, Quiet
<1>1. ASSUME NEW p \in Procs, Locking(p) PROVE RequestsOK' /\ SessionsOK'
  <2>1. PICK kind \in Changes : \E l \in Links \cup {None} :
              /\ LockRow(p, kind, l) /\ proc[p].pc \in {"idle", "lock"}
              /\ kind \in {"reset", "confirm"} <=> l # None
    BY <1>a, <1>1, LockingStep
  <2>2. PICK l \in Links \cup {None} : LockRow(p, kind, l) /\ (kind \in {"reset", "confirm"} <=> l # None)
    BY <2>1
  <2>3. /\ RequestsOK' /\ proc'[p].op = kind /\ proc'[p].pc = "revoke" /\ rowLock = NoRequest
        /\ \A q \in Procs \ {p} : proc'[q] = proc[q]
    BY <1>a, <2>2, LockRowStep
  <2>4. UNCHANGED <<user, cuts, session>> /\ (NewCredentials(kind) => cuts < MaxChanges)
    BY <2>2 DEF LockRow
  <2>5. LiveSessions' = LiveSessions
    BY <2>4 DEF LiveSessions
  <2>6. SessionsOK'
    BY <1>a, <2>3, <2>4, <2>5 DEF SessionsOK
  <2>7. QED
    BY <2>3, <2>6
<1>2. ASSUME NEW p \in Procs, EndSessions(p) PROVE RequestsOK' /\ SessionsOK'
  <2>1. /\ RequestsOK' /\ proc[p].pc = "revoke" /\ proc'[p].pc = "commit" /\ proc'[p].op = proc[p].op
        /\ NewCredentials(proc[p].op) => proc'[p].ends = LiveSessions
        /\ \A q \in Procs \ {p} : proc'[q] = proc[q]
        /\ rowLock = p
    BY <1>a, <1>2, EndSessionsStep
  <2>2. /\ cuts' = IF NewCredentials(proc[p].op) THEN cuts + 1 ELSE cuts
        /\ UNCHANGED <<user, session>>
    BY <1>2 DEF EndSessions
  <2>3. LiveSessions' = LiveSessions
    BY <2>2 DEF LiveSessions
  <2>4. cuts' \in 0 .. MaxChanges /\ user.since <= cuts'
    <3>1. NewCredentials(proc[p].op) => cuts < MaxChanges
      BY <1>a, <2>1 DEF SessionsOK
    <3>2. user.since \in Nat
      BY <1>a DEF SessionsOK, UserRow
    <3>3. QED
      BY <1>a, <2>2, <3>1, <3>2 DEF SessionsOK
  <2>5. \A q \in Procs \ {p} : proc[q].pc \notin {"revoke", "commit"}
    BY <1>a, <2>1 DEF RequestsOK
  <2>6. SessionsOK'
    BY <1>a, <2>1, <2>2, <2>3, <2>4, <2>5 DEF SessionsOK
  <2>7. QED
    BY <2>1, <2>6
<1>3. ASSUME NEW p \in Procs, Moving(p) PROVE RequestsOK' /\ SessionsOK'
  <2>1. RequestsOK' /\ Quiet
    BY <1>a, <1>3, MovingStep
  <2>2. CASE Issue(p)
    <3>1. rowLock' = NoRequest /\ UNCHANGED <<user, cuts>>
      BY <2>2 DEF Issue
    <3>2. \A q \in Procs : proc'[q].pc \notin {"revoke", "commit"}
      BY <2>1, <3>1, AccountsAssumption DEF RequestsOK
    <3>3. session' = [session EXCEPT ![p] = [status |-> "live", born |-> cuts]]
      BY <2>2 DEF Issue
    <3>4. SessionsOK'
      BY <1>a, <3>1, <3>2, <3>3 DEF SessionsOK
    <3>5. QED
      BY <2>1, <3>4
  <2>3. CASE Logout(p)
    <3>1. session' = [session EXCEPT ![p].status = "revoked"] /\ UNCHANGED <<user, cuts>>
      BY <2>3 DEF Logout
    <3>2. /\ session' \in [Procs -> [status : {"none", "live", "revoked"}, born : Nat]]
          /\ \A q \in Procs : session'[q].status = "live" => session'[q] = session[q]
      BY <1>a, <3>1 DEF SessionsOK
    <3>3. LiveSessions' \subseteq LiveSessions
      BY <3>2 DEF LiveSessions
    <3>4. SessionsOK'
      BY <1>a, <2>1, <3>1, <3>2, <3>3 DEF SessionsOK, Quiet
    <3>5. QED
      BY <2>1, <3>4
  <2>4. ASSUME UNCHANGED <<cuts, session>>, NEW s \in {"pending", "active"},
               user' = [user EXCEPT !.status = s]
        PROVE  SessionsOK'
    <3>1. LiveSessions' = LiveSessions
      BY <2>4 DEF LiveSessions
    <3>2. user' \in UserRow /\ user'.since = user.since
      BY <1>a, <2>4 DEF SessionsOK, UserRow
    <3>3. QED
      BY <1>a, <2>1, <2>4, <3>1, <3>2 DEF SessionsOK, Quiet
  <2>5. CASE ResolveIdentity(p)
    <3>1. UNCHANGED <<cuts, session>> /\ (user' = user \/ user' = [user EXCEPT !.status = "active"])
      BY <2>5 DEF ResolveIdentity
    <3>2. QED
      BY <1>b, <2>1, <2>4, <3>1
  <2>6. CASE Register(p)
    BY <2>1, <2>4, <2>6 DEF Register
  \* No session is left when new credentials are committed.
  <2>7. CASE CommitChange(p)
    <3>1. /\ proc[p].pc = "commit" /\ user' = Changed(proc[p].op) /\ UNCHANGED cuts /\ rowLock' = NoRequest
          /\ session' = [q \in Procs |-> IF q \in proc[p].ends THEN [session[q] EXCEPT !.status = "revoked"]
                                                               ELSE session[q]]
      BY <2>7 DEF CommitChange, At
    <3>2. \A q \in Procs : proc'[q].pc \notin {"revoke", "commit"}
      BY <2>1, <3>1, AccountsAssumption DEF RequestsOK
    <3>3. /\ session' \in [Procs -> [status : {"none", "live", "revoked"}, born : Nat]]
          /\ \A q \in Procs : session'[q].status = "live" => session'[q] = session[q] /\ q \notin proc[p].ends
      BY <1>a, <3>1 DEF SessionsOK
    <3>4. user' \in UserRow /\ user'.since = IF NewCredentials(proc[p].op) THEN cuts ELSE user.since
      <4>1. proc[p].op \in Changes
        BY <1>a, <3>1 DEF RequestsOK, RequestOK
      <4>2. QED
        BY <1>a, <3>1, <4>1 DEF Changed, Changes, SessionsOK, UserRow, NewCredentials
    <3>5. NewCredentials(proc[p].op) => \A q \in Procs : session'[q].status # "live"
      BY <1>a, <3>1, <3>3 DEF SessionsOK, LiveSessions
    <3>6. \A q \in Procs : session'[q].status = "live" => user'.since <= session'[q].born
      BY <1>a, <3>3, <3>4, <3>5 DEF SessionsOK
    <3>7. user'.since <= cuts'
      BY <1>a, <3>1, <3>4 DEF SessionsOK
    <3>8. SessionsOK'
      BY <1>a, <3>1, <3>2, <3>3, <3>4, <3>6, <3>7 DEF SessionsOK
    <3>9. QED
      BY <2>1, <3>8
  <2>8. CASE UNCHANGED <<user, cuts, session>>
    BY <1>b, <2>1, <2>8
  <2>9. QED
    BY <1>3, <2>1, <2>2, <2>3, <2>5, <2>6, <2>7, <2>8
       DEF Moving, SignIn, SignInOAuth, Enroll, AskLogin, PasswordRight, PasswordWrong, RecordFailure, PassMFA,
           WrongCode, ClearThrottle, TakeState, AskChange, AskReset, AskVerification, VoidLinks, MailLink,
           BeginEnrollment, RevokePending, InsertPending, SetCredential, ConfirmEnrollment, Disable,
           VerifyStepUp, CheckCode, Abort
<1>4. CASE UNCHANGED <<user, cuts, session, rowLock, proc>>
  BY <1>a, <1>b, <1>4 DEF Quiet, RequestsOK
<1>5. QED
  BY <1>1, <1>2, <1>3, <1>4, AccountSteps DEF StartOAuth, Tick, accountVars

\* Every step preserves that a link and an OAuth state are used once.
LEMMA AccountKeepsLinks ==
    AccountInv /\ [AccountNext]_accountVars => LinksOK'
<1> SUFFICES ASSUME AccountInv, [AccountNext]_accountVars PROVE LinksOK'
  OBVIOUS
<1>a. RequestsOK /\ LinksOK /\ RequestsOK'
  BY AccountKeepsSessions DEF AccountInv
<1> DEFINE Right(p) == LET l == proc[p].link
                       IN  /\ link[l].state = "live"
                           /\ link[l].kind = IF proc[p].op = "reset" THEN "reset" ELSE "verify"
           Locked(p) == proc[p].pc \in {"revoke", "commit"} /\ proc[p].link # None
           Once(row) == /\ row \in LinkRow /\ row.uses <= 1 /\ (row.state # "used" => row.uses = 0)
           OAuthOnce == oauth \in OAuthRow /\ (oauth.state # "used" => oauth.uses = 0)
<1>b. /\ link \in [Links -> LinkRow] /\ OAuthOnce
      /\ \A l \in Links : Once(link[l])
      /\ \A p \in Procs : Locked(p) => Right(p) /\ proc[p].link \in Links
  BY <1>a DEF LinksOK, RequestsOK, Request
<1>c. ASSUME DOMAIN link' = Links, \A l \in Links : Once(link'[l]), link' = [l \in Links |-> link'[l]],
             OAuthOnce', \A p \in Procs : Locked(p)' => Right(p)'
      PROVE  LinksOK'
  <2>1. link' \in [Links -> LinkRow]
    BY <1>c
  <2>2. QED
    BY <1>c, <2>1 DEF LinksOK
<1>d. ASSUME NEW row, Once(row) PROVE Once([row EXCEPT !.state = "used"])
  <2>1. row \in LinkRow
    BY <1>d
  <2>2. /\ [row EXCEPT !.state = "used"] \in LinkRow /\ [row EXCEPT !.state = "used"].state = "used"
        /\ [row EXCEPT !.state = "used"].uses = row.uses
    BY <2>1 DEF LinkRow
  <2>3. QED
    BY <1>d, <2>2
<1>e. ASSUME NEW row, Once(row), row.state = "live"
      PROVE  Once([[row EXCEPT !.state = "used"] EXCEPT !.uses = @ + 1])
  <2> DEFINE used == [row EXCEPT !.state = "used"]
  <2>1. row \in LinkRow /\ row.uses = 0
    BY <1>e
  <2>2. used \in LinkRow /\ used.state = "used" /\ used.uses = 0
    BY <2>1 DEF LinkRow
  <2> HIDE DEF used
  <2>3. [used EXCEPT !.uses = @ + 1] = [used EXCEPT !.uses = 1]
    BY <2>2
  <2>4. /\ [used EXCEPT !.uses = 1] \in LinkRow /\ [used EXCEPT !.uses = 1].uses = 1
        /\ [used EXCEPT !.uses = 1].state = "used"
    BY <2>2 DEF LinkRow
  <2>5. Once([used EXCEPT !.uses = 1])
    BY <2>4
  <2> HIDE DEF Once
  <2>6. QED
    BY <2>3, <2>5 DEF used
<1>1. ASSUME NEW p \in Procs, Locking(p) PROVE LinksOK'
  <2>1. PICK kind \in Changes : \E l \in Links \cup {None} :
              /\ LockRow(p, kind, l) /\ (kind \in {"reset", "confirm"} <=> l # None)
              /\ l # None => link[l].state = "live" /\ link[l].kind = IF kind = "reset" THEN "reset" ELSE "verify"
    BY <1>a, <1>1, LockingStep
  <2>2. PICK l \in Links \cup {None} :
              /\ LockRow(p, kind, l) /\ (kind \in {"reset", "confirm"} <=> l # None)
              /\ l # None => link[l].state = "live" /\ link[l].kind = IF kind = "reset" THEN "reset" ELSE "verify"
    BY <2>1
  <2>3. /\ proc'[p].op = kind /\ proc'[p].link = l
        /\ \A q \in Procs \ {p} : proc'[q] = proc[q]
    BY <1>a, <2>2, LockRowStep
  <2>4. UNCHANGED <<link, oauth>>
    BY <2>2 DEF LockRow
  <2>5. \A q \in Procs : Locked(q)' => Right(q)'
    BY <1>b, <2>2, <2>3, <2>4
  <2>6. QED
    BY <1>b, <1>c, <2>4, <2>5
<1>2. ASSUME NEW p \in Procs, EndSessions(p) PROVE LinksOK'
  <2>1. /\ proc[p].pc = "revoke" /\ proc'[p].op = proc[p].op /\ proc'[p].link = proc[p].link
        /\ \A q \in Procs \ {p} : proc'[q] = proc[q]
    BY <1>a, <1>2, EndSessionsStep
  <2>2. UNCHANGED <<link, oauth>>
    BY <1>2 DEF EndSessions
  <2>3. \A q \in Procs : Locked(q)' => Right(q)'
    BY <1>b, <2>1, <2>2
  <2>4. QED
    BY <1>b, <1>c, <2>2, <2>3
<1>3. ASSUME NEW p \in Procs, Moving(p) PROVE LinksOK'
  <2>1. Quiet
    BY <1>a, <1>3, MovingStep
  <2>2. CASE UNCHANGED link /\ (TakeState(p) \/ ResolveIdentity(p) \/ UNCHANGED oauth)
    <3>1. OAuthOnce'
      <4>1. CASE TakeState(p)
        <5>1. oauth' = [oauth EXCEPT !.state = "used", !.uses = @ + 1] /\ oauth.uses = 0 /\ oauth \in OAuthRow
          BY <1>b, <4>1 DEF TakeState
        <5>2. oauth.uses + 1 = 1
          BY <5>1
        <5>3. oauth' = [oauth EXCEPT !.state = "used", !.uses = 1]
          BY <5>1, <5>2
        <5>4. oauth' \in OAuthRow /\ oauth'.state = "used"
          <6> DEFINE used == [oauth EXCEPT !.state = "used"]
          <6>1. used \in OAuthRow /\ used.state = "used"
            BY <5>1 DEF OAuthRow
          <6>2. oauth' = [used EXCEPT !.uses = 1]
            BY <5>1, <5>3 DEF OAuthRow
          <6> HIDE DEF used
          <6>3. QED
            BY <6>1, <6>2 DEF OAuthRow
        <5>5. QED
          BY <5>4
      <4>2. CASE ResolveIdentity(p)
        <5>1. oauth' = [oauth EXCEPT !.linked = TRUE] /\ oauth \in OAuthRow
          BY <1>b, <4>2 DEF ResolveIdentity
        <5>2. oauth' \in OAuthRow /\ oauth'.state = oauth.state /\ oauth'.uses = oauth.uses
          BY <5>1 DEF OAuthRow
        <5>3. QED
          BY <1>b, <5>2
      <4>3. QED
        BY <1>b, <2>2, <4>1, <4>2
    <3>2. \A q \in Procs : Locked(q)' => Right(q)'
      BY <1>b, <2>1, <2>2 DEF Quiet
    <3>3. QED
      BY <1>b, <1>c, <2>2, <3>1, <3>2
  \* A newer link voids older ones, but none that a transaction has locked.
  <2>3. CASE VoidLinks(p)
    <3>1. /\ link' = Used(Live("verify")) /\ UNCHANGED <<oauth, rowLock>>
          /\ rowLock # NoRequest => proc[rowLock].op # "confirm"
      BY <2>3 DEF VoidLinks
    <3>2. \A l \in Links : link'[l] = IF l \in Live("verify") THEN [link[l] EXCEPT !.state = "used"] ELSE link[l]
      BY <3>1 DEF Used
    <3>3. ASSUME NEW l \in Links PROVE Once(link'[l])
      <4>1. Once(link[l])
        BY <1>b
      <4>2. Once([link[l] EXCEPT !.state = "used"])
        BY <1>d, <4>1
      <4> HIDE DEF Once
      <4>3. QED
        BY <3>2, <4>1, <4>2
    <3>4. ASSUME NEW q \in Procs, Locked(q)' PROVE Right(q)'
      <4>1. proc'[q] = proc[q] /\ Locked(q) /\ rowLock = q
        BY <1>a, <2>1, <3>4 DEF Quiet, RequestsOK
      <4>2. proc[q].op = "reset"
        BY <1>a, <3>1, <4>1, AccountsAssumption DEF RequestsOK, RequestOK
      <4>3. proc[q].link \notin Live("verify") /\ proc[q].link \in Links
        BY <1>b, <4>1, <4>2 DEF Live
      <4>4. QED
        BY <1>b, <3>2, <4>1, <4>3
    <3>5. QED
      BY <1>b, <1>c, <3>1, <3>3, <3>4 DEF Used
  <2>4. CASE MailLink(p)
    <3>1. PICK l \in Links : link' = [link EXCEPT ![l] = [kind |-> proc[p].op, state |-> "live", uses |-> 0]]
      BY <2>4 DEF MailLink
    <3>2. proc[p].op \in {"reset", "verify"} /\ rowLock' = NoRequest /\ UNCHANGED oauth
      BY <1>a, <2>4 DEF MailLink, At, RequestsOK, RequestOK
    <3>3. [kind |-> proc[p].op, state |-> "live", uses |-> 0] \in LinkRow
      BY <3>2 DEF LinkRow
    <3>4. \A k \in Links : Once(link'[k])
      BY <1>b, <3>1, <3>3
    <3>5. \A q \in Procs : ~ Locked(q)'
      BY <1>a, <3>2, AccountsAssumption DEF RequestsOK
    <3>6. QED
      BY <1>b, <1>c, <3>1, <3>2, <3>4, <3>5
  \* The link is used up with the change it was for.
  <2>5. CASE CommitChange(p)
    <3> DEFINE old == Used(proc[p].voids)
               l == proc[p].link
    <3>1. /\ link' = IF l = None THEN old ELSE [old EXCEPT ![l].uses = @ + 1]
          /\ proc[p].pc = "commit" /\ UNCHANGED oauth /\ rowLock' = NoRequest
      BY <2>5 DEF CommitChange, At
    <3>2. /\ DOMAIN old = Links
          /\ \A k \in Links : old[k] = IF k \in proc[p].voids THEN [link[k] EXCEPT !.state = "used"] ELSE link[k]
      BY DEF Used
    <3>3. ASSUME NEW k \in Links PROVE Once(old[k])
      <4>1. Once(link[k])
        BY <1>b
      <4>2. Once([link[k] EXCEPT !.state = "used"])
        BY <1>d, <4>1
      <4> HIDE DEF Once, old
      <4>3. QED
        BY <3>2, <4>1, <4>2
    <3>4. l # None => l \in proc[p].voids /\ l \in Links /\ Once(link[l]) /\ link[l].state = "live"
      BY <1>a, <1>b, <3>1 DEF RequestsOK, RequestOK
    <3>5. l # None => Once([old[l] EXCEPT !.uses = @ + 1])
      <4>1. l # None => old[l] = [link[l] EXCEPT !.state = "used"]
        BY <3>2, <3>4
      <4>2. QED
        BY <1>e, <3>4, <4>1
    <3> HIDE DEF old
    <3>6. \A k \in Links : Once(link'[k])
      BY <3>1, <3>2, <3>3, <3>5
    <3>7. link' = [k \in Links |-> link'[k]]
      <4>1. old = [k \in Links |-> old[k]]
        BY DEF old, Used
      <4>2. QED
        BY <3>1, <4>1
    <3>8. \A q \in Procs : ~ Locked(q)'
      BY <1>a, <3>1, AccountsAssumption DEF RequestsOK
    <3>9. QED
      BY <1>b, <1>c, <3>1, <3>6, <3>7, <3>8
  <2>6. QED
    BY <1>3, <2>2, <2>3, <2>4, <2>5
       DEF Moving, SignIn, SignInOAuth, Enroll, AskLogin, PasswordRight, PasswordWrong, RecordFailure, PassMFA,
           WrongCode, Issue, ClearThrottle, Logout, TakeState, ResolveIdentity, AskChange, AskReset, Register,
           AskVerification, BeginEnrollment, RevokePending, InsertPending, SetCredential, ConfirmEnrollment,
           Disable, VerifyStepUp, CheckCode, Abort
<1>4. CASE UNCHANGED <<link, proc>> /\ (StartOAuth \/ UNCHANGED oauth)
  <2>1. OAuthOnce'
    BY <1>b, <1>4 DEF StartOAuth, OAuthRow
  <2>2. QED
    BY <1>b, <1>c, <1>4, <2>1
<1>5. QED
  BY <1>1, <1>2, <1>3, <1>4, AccountSteps DEF StartOAuth, Tick, accountVars
\* Where a request may go: a guess is let through by the throttle, or was before;
\* and an authenticator is one that was read.
Onward(p, f) ==
    \/ f = proc[p]
    \/ f.pc \notin {"password", "mfa", "wrong", "credential"}
    \/ f.op = "login" /\ f.pc \in {"mfa", "wrong"} /\ p \in Guessing("login")
    \/ f.op = "login" /\ f.pc = "password" /\ ~ Throttled("login")
    \/ f.op # "login" /\ f.pc \in {"credential", "wrong"} /\ ~ Throttled("code") /\ cred[f.cred] # "none"

\* Every step of a request takes it onward.
LEMMA RequestGoesOnward ==
    ASSUME RequestsOK, LinksOK, NEW p \in Procs, Locking(p) \/ Moving(p) \/ EndSessions(p)
    PROVE  \E f : proc' = [proc EXCEPT ![p] = f] /\ Onward(p, f)
<1>a. proc \in [Procs -> Request] /\ RequestOK(proc[p])
  BY DEF RequestsOK
<1>b. UNCHANGED proc => proc' = [proc EXCEPT ![p] = proc[p]] /\ Onward(p, proc[p])
  BY <1>a DEF Onward
<1>c. ASSUME Finish(p) PROVE proc' = [proc EXCEPT ![p] = IdleRequest] /\ Onward(p, IdleRequest)
  BY <1>c DEF Finish, Onward, IdleRequest
<1>d. ASSUME NEW op, Ready(p, op), op[2] \notin {"password", "mfa", "wrong", "credential"}
      PROVE  \E f : proc' = [proc EXCEPT ![p] = f] /\ Onward(p, f)
  <2>1. [IdleRequest EXCEPT !.op = op[1], !.pc = op[2]].pc = op[2]
    BY DEF IdleRequest
  <2>2. QED
    BY <1>d, <2>1 DEF Ready, Onward
<1>e. ASSUME NEW pc, Goto(p, pc), pc \notin {"password", "mfa", "wrong", "credential"}
      PROVE  \E f : proc' = [proc EXCEPT ![p] = f] /\ Onward(p, f)
  <2>1. [proc[p] EXCEPT !.pc = pc].pc = pc
    BY <1>a DEF Request
  <2>2. proc' = [proc EXCEPT ![p] = [proc[p] EXCEPT !.pc = pc]]
    BY <1>a, <1>e DEF Goto
  <2>3. QED
    BY <1>e, <2>1, <2>2 DEF Onward
<1>1. CASE Locking(p)
  <2>1. PICK kind \in Changes, l \in Links \cup {None} : LockRow(p, kind, l)
    BY <1>1, LockingStep
  <2>2. [IdleRequest EXCEPT !.op = kind, !.pc = "revoke", !.link = l].pc = "revoke"
    BY DEF IdleRequest
  <2>3. QED
    BY <2>1, <2>2 DEF LockRow, Onward
<1>2. CASE EndSessions(p)
  <2>1. RequestsOK' /\ proc'[p].pc = "commit" /\ \A q \in Procs \ {p} : proc'[q] = proc[q]
    BY <1>2, EndSessionsStep
  <2>2. proc' = [proc EXCEPT ![p] = proc'[p]]
    BY <1>a, <2>1 DEF RequestsOK
  <2>3. QED
    BY <2>1, <2>2 DEF Onward
<1>3. CASE Moving(p)
  <2>1. CASE AskLogin(p)
    <3>1. /\ proc' = [proc EXCEPT ![p] = [IdleRequest EXCEPT !.op = "login", !.pc = "password"]]
          /\ ~ Throttled("login")
      BY <2>1 DEF AskLogin, Ready
    <3>2. /\ [IdleRequest EXCEPT !.op = "login", !.pc = "password"].pc = "password"
          /\ [IdleRequest EXCEPT !.op = "login", !.pc = "password"].op = "login"
      BY DEF IdleRequest
    <3>3. QED
      BY <3>1, <3>2 DEF Onward
  <2>2. ASSUME NEW pc \in {"mfa", "wrong"}, Goto(p, pc), proc[p].pc \in {"password", "mfa"}
        PROVE  \E f : proc' = [proc EXCEPT ![p] = f] /\ Onward(p, f)
    <3>1. proc' = [proc EXCEPT ![p] = [proc[p] EXCEPT !.pc = pc]] /\ proc[p].op = "login" /\ p \in Guessing("login")
      BY <1>a, <2>2 DEF Goto, RequestOK, Guessing
    <3>2. [proc[p] EXCEPT !.pc = pc].pc = pc /\ [proc[p] EXCEPT !.pc = pc].op = proc[p].op
      BY <1>a DEF Request
    <3>3. QED
      BY <3>1, <3>2 DEF Onward
  <2>3. CASE PasswordRight(p) \/ PasswordWrong(p) \/ WrongCode(p)
    BY <1>c, <2>2, <2>3 DEF PasswordRight, PasswordWrong, WrongCode, At
  <2>4. CASE RecordFailure(p) \/ PassMFA(p) \/ Issue(p) \/ ClearThrottle(p) \/ Logout(p)
    BY <1>b, <1>c, <1>e, <2>4 DEF RecordFailure, PassMFA, Issue, ClearThrottle, Logout
  <2>5. CASE SignInOAuth(p)
    BY <1>d, <1>e, <2>5 DEF SignInOAuth, TakeState, ResolveIdentity
  <2>6. ASSUME NEW kind \in {"password", "email"}, AskChange(p, kind)
        PROVE  \E f : proc' = [proc EXCEPT ![p] = f] /\ Onward(p, f)
    BY <1>d, <2>6 DEF AskChange
  <2>7. CASE AskReset(p)
    <3>1. proc' = proc \/ proc' = [proc EXCEPT ![p] = [IdleRequest EXCEPT !.op = "reset", !.pc = "mail"]]
      BY <2>7 DEF AskReset
    <3>2. [IdleRequest EXCEPT !.op = "reset", !.pc = "mail"].pc = "mail"
      BY DEF IdleRequest
    <3>3. QED
      BY <1>b, <3>1, <3>2 DEF Onward
  <2>8. CASE Register(p) \/ AskVerification(p) \/ VoidLinks(p) \/ MailLink(p)
    BY <1>b, <1>c, <1>d, <1>e, <2>8 DEF Register, AskVerification, VoidLinks, MailLink
  <2>9. ASSUME NEW op \in {"activate", "deactivate", "stepUp"}, NEW c \in Creds, CheckCode(p, op, c), cred[c] # "none"
        PROVE  \E f : proc' = [proc EXCEPT ![p] = f] /\ Onward(p, f)
    <3>1. PICK pc \in {"credential", "wrong"} :
             proc' = [proc EXCEPT ![p] = [IdleRequest EXCEPT !.op = op, !.pc = pc, !.cred = c]]
      BY <2>9 DEF CheckCode
    <3> DEFINE f == [IdleRequest EXCEPT !.op = op, !.pc = pc, !.cred = c]
    <3>2. f.op = op /\ f.pc = pc /\ f.cred = c
      BY DEF IdleRequest
    <3> HIDE DEF f
    <3>3. ~ Throttled("code") /\ op # "login"
      BY <2>9 DEF CheckCode
    <3>4. Onward(p, f)
      BY <2>9, <3>2, <3>3 DEF Onward
    <3>5. QED
      BY <3>1, <3>4 DEF f
  <2>10. CASE Enroll(p)
    <3>1. CASE BeginEnrollment(p) \/ RevokePending(p) \/ InsertPending(p) \/ SetCredential(p)
      BY <1>c, <1>d, <1>e, <3>1 DEF BeginEnrollment, RevokePending, InsertPending, SetCredential
    <3>2. ASSUME NEW c \in Creds, ConfirmEnrollment(p, c) \/ Disable(p, c) \/ VerifyStepUp(p, c)
          PROVE  \E f : proc' = [proc EXCEPT ![p] = f] /\ Onward(p, f)
      BY <2>9, <3>2 DEF ConfirmEnrollment, Disable, VerifyStepUp, Active
    <3>3. QED
      BY <2>10, <3>1, <3>2 DEF Enroll
  <2>11. CASE CommitChange(p) \/ Abort(p)
    BY <1>c, <2>11 DEF CommitChange, Abort
  <2>12. QED
    BY <1>3, <2>1, <2>3, <2>4, <2>5, <2>6, <2>7, <2>8, <2>10, <2>11 DEF Moving, SignIn
<1>4. QED
  BY <1>1, <1>2, <1>3

\* Every step preserves what is known of the authenticators.
LEMMA AccountKeepsCreds ==
    AccountInv /\ [AccountNext]_accountVars => CredsOK'
<1> SUFFICES ASSUME AccountInv, [AccountNext]_accountVars PROVE CredsOK'
  OBVIOUS
<1>a. RequestsOK /\ LinksOK /\ CredsOK /\ proc \in [Procs -> Request]
  BY DEF AccountInv, RequestsOK
<1> DEFINE Status == {"none", "pending", "active", "revoked"}
           CredStep == /\ cred' \in [Creds -> Status]
                       /\ \A c \in Creds : cred[c] # "none" => cred'[c] # "none"
                       /\ \A c, d \in Active' : c = d
<1>b. ASSUME UNCHANGED cred PROVE CredStep
  BY <1>a, <1>b DEF CredsOK, Active
<1>1. ASSUME NEW p \in Procs, Locking(p) \/ Moving(p) \/ EndSessions(p) PROVE CredStep
  <2>1. CASE RevokePending(p)
    <3>1. cred' = [c \in Creds |-> IF cred[c] = "pending" THEN "revoked" ELSE cred[c]]
      BY <2>1 DEF RevokePending
    <3>2. cred' \in [Creds -> Status] /\ Active' = Active
      BY <1>a, <3>1 DEF CredsOK, Active
    <3>3. QED
      BY <1>a, <3>1, <3>2 DEF CredsOK
  <2>2. CASE InsertPending(p)
    <3>1. PICK c \in Creds : cred[c] = "none" /\ cred' = [cred EXCEPT ![c] = "pending"]
      BY <2>2 DEF InsertPending
    <3>2. cred' \in [Creds -> Status] /\ Active' = Active
      BY <1>a, <3>1 DEF CredsOK, Active
    <3>3. QED
      BY <1>a, <3>1, <3>2 DEF CredsOK
  <2>3. CASE SetCredential(p)
    <3> DEFINE c == proc[p].cred
    <3>1. c \in Creds
      BY <1>a, <2>3 DEF SetCredential, At, RequestsOK, RequestOK
    <3> HIDE DEF c
    <3>2. CASE cred[c] = "pending" /\ Active = {} /\ cred' = [cred EXCEPT ![c] = "active"]
      BY <1>a, <3>1, <3>2 DEF CredsOK, Active
    <3>3. CASE cred[c] = "active" /\ cred' = [cred EXCEPT ![c] = "revoked"]
      BY <1>a, <3>1, <3>3 DEF CredsOK, Active
    <3>4. QED
      BY <1>b, <2>3, <3>2, <3>3 DEF SetCredential, c
  <2>4. CASE UNCHANGED cred
    BY <1>b, <2>4
  <2>5. QED
    BY <1>1, <2>1, <2>2, <2>3, <2>4
       DEF Locking, Moving, SignIn, SignInOAuth, Administration, Enroll, LockRow, ChangePassword, ChangeEmail, Update,
           SetStatus, Confirm, ConfirmEmail, AskLogin, PasswordRight, PasswordWrong, RecordFailure, PassMFA,
           WrongCode, Issue, ClearThrottle, Logout, TakeState, ResolveIdentity, AskChange, AskReset, Register,
           AskVerification, VoidLinks, MailLink, BeginEnrollment, ConfirmEnrollment, Disable,
           VerifyStepUp, CheckCode, EndSessions, CommitChange, Abort
<1>2. ASSUME NEW p \in Procs, Locking(p) \/ Moving(p) \/ EndSessions(p) PROVE CredsOK'
  <2>1. CredStep
    BY <1>1, <1>2
  <2>2. PICK f : proc' = [proc EXCEPT ![p] = f] /\ Onward(p, f)
    BY <1>a, <1>2, RequestGoesOnward
  <2>3. RequestsOK'
    BY AccountKeepsSessions
  <2>4. ASSUME NEW q \in Procs, proc'[q].pc = "credential" PROVE cred'[proc'[q].cred] # "none"
    <3>1. proc'[q].cred \in Creds
      BY <2>3, <2>4 DEF RequestsOK, RequestOK
    <3>2. cred[proc'[q].cred] # "none"
      <4>1. CASE proc'[q] = proc[q]
        BY <1>a, <2>4, <4>1 DEF CredsOK
      <4>2. CASE q = p /\ f # proc[p]
        BY <1>a, <2>2, <2>4, <4>2 DEF Onward
      <4>3. QED
        BY <1>a, <2>2, <4>1, <4>2
    <3>3. QED
      BY <2>1, <3>1, <3>2
  <2>5. QED
    BY <2>1, <2>4 DEF CredsOK
<1>3. CASE UNCHANGED <<cred, proc>>
  BY <1>a, <1>3 DEF CredsOK, Active
<1>4. QED
  BY <1>2, <1>3, AccountSteps DEF StartOAuth, Tick, accountVars
\* With one request less, or with some of them, no more are guessing.
LEMMA GuessesCounted ==
    ASSUME NEW S \in SUBSET Procs
    PROVE  /\ IsFiniteSet(Procs) /\ IsFiniteSet(S)
           /\ Cardinality(Procs) \in Nat \ {0} /\ Cardinality(S) \in Nat /\ Cardinality(S) <= Cardinality(Procs)
           /\ \A T \in SUBSET S : Cardinality(T) \in Nat /\ Cardinality(T) <= Cardinality(S)
           /\ \A p \in S : Cardinality(S \ {p}) = Cardinality(S) - 1
<1>1. IsFiniteSet(Procs) /\ Procs # {}
  BY AccountsAssumption
<1>2. IsFiniteSet(S) /\ Cardinality(S) <= Cardinality(Procs)
  BY <1>1, FS_Subset
<1>3. Cardinality(Procs) \in Nat /\ Cardinality(S) \in Nat /\ Cardinality(Procs) # 0
  BY <1>1, <1>2, FS_CardinalityType, FS_EmptySet
<1>4. ASSUME NEW T \in SUBSET S PROVE Cardinality(T) \in Nat /\ Cardinality(T) <= Cardinality(S)
  BY <1>2, FS_Subset, FS_CardinalityType
<1>5. ASSUME NEW p \in S PROVE Cardinality(S \ {p}) = Cardinality(S) - 1
  BY <1>2, FS_RemoveElement
<1>6. QED
  BY <1>1, <1>2, <1>3, <1>4, <1>5

\* A failure counts one more answer, and locks the row with the last that is
\* allowed.
LEMMA FailedRow ==
    ASSUME NEW row \in Throttle, now \in Nat, row.locked = 0 => row.count < MaxFailures \/ row.count = 1
    PROVE  /\ Failed(row) \in Throttle
           /\ Failed(row).locked = 0 => Failed(row).count < MaxFailures \/ Failed(row).count = 1
           /\ Failed(row).count = IF Failed(row).count = 1 THEN 1 ELSE row.count + 1
<1>1. MaxFailures \in Nat \ {0} /\ LockFor \in Nat \ {0} /\ row.count \in Nat
  BY AccountsAssumption DEF Throttle
<1>2. CASE row.count = 0 \/ row.first < now - Window
  BY <1>1, <1>2 DEF Failed, Throttle
<1>3. CASE ~ (row.count = 0 \/ row.first < now - Window)
  <2> DEFINE n == row.count + 1
             t == IF n >= MaxFailures THEN now + LockFor ELSE row.locked
  <2>1. Failed(row) = [row EXCEPT !.count = n, !.locked = t]
    BY <1>3 DEF Failed
  <2>2. n \in Nat /\ n # 1 /\ t \in Nat /\ (t = 0 => n < MaxFailures)
    BY <1>1, <1>3 DEF Throttle
  <2> HIDE DEF n, t
  <2>3. PICK more : more = [row EXCEPT !.count = n] /\ Failed(row) = [more EXCEPT !.locked = t]
    BY <2>1
  <2>4. more \in Throttle /\ more.count = n
    BY <2>2, <2>3 DEF Throttle
  <2>5. Failed(row) \in Throttle /\ Failed(row).count = n /\ Failed(row).locked = t
    BY <2>2, <2>3, <2>4 DEF Throttle
  <2>6. QED
    BY <2>2, <2>5 DEF n
<1>4. QED
  BY <1>2, <1>3

\* A request that is admitted counts, and no more than MaxRequests do.
LEMMA CountedRow ==
    ASSUME NEW row \in Throttle, now \in Nat, NEW n \in Nat, n <= row.count, row.count <= MaxRequests
    PROVE  /\ Counted(row) \in Throttle /\ Counted(row).count <= MaxRequests
           /\ (IF ~ Admitted(row) THEN n ELSE IF Counted(row).count = 1 THEN 1 ELSE n + 1) <= Counted(row).count
<1>1. MaxRequests \in Nat \ {0} /\ LockFor \in Nat \ {0} /\ row.count \in Nat /\ row.locked \in Nat
  BY AccountsAssumption DEF Throttle
<1>2. CASE row.count = 0 \/ (now >= row.locked /\ row.first < now - Window)
  <2>1. Counted(row) = [count |-> 1, first |-> now, locked |-> 0]
    BY <1>2 DEF Counted
  <2>2. Counted(row) \in Throttle /\ Counted(row).count = 1 /\ Counted(row).locked = 0
    BY <2>1 DEF Throttle
  <2>3. ~ Admitted(row) => row.count = 1
    BY <2>2 DEF Admitted
  <2>4. QED
    BY <1>1, <2>2, <2>3
<1>3. CASE ~ (row.count = 0 \/ (now >= row.locked /\ row.first < now - Window)) /\ now < row.locked
  <2>1. Counted(row) = row
    BY <1>3 DEF Counted
  <2>2. QED
    BY <1>1, <2>1 DEF Admitted
<1>4. CASE /\ ~ (row.count = 0 \/ (now >= row.locked /\ row.first < now - Window)) /\ ~ (now < row.locked)
           /\ row.count >= MaxRequests
  <2>1. Counted(row) = [row EXCEPT !.locked = now + LockFor]
    BY <1>4 DEF Counted
  <2>2. now + LockFor \in Nat \ {0}
    BY <1>1
  <2>3. Counted(row) \in Throttle /\ Counted(row).count = row.count /\ Counted(row).locked # 0
    BY <2>1, <2>2 DEF Throttle
  <2>4. QED
    BY <1>1, <2>3 DEF Admitted
<1>5. CASE /\ ~ (row.count = 0 \/ (now >= row.locked /\ row.first < now - Window)) /\ ~ (now < row.locked)
           /\ row.count < MaxRequests
  <2> DEFINE m == row.count + 1
  <2>1. Counted(row) = [row EXCEPT !.count = m]
    BY <1>1, <1>5 DEF Counted
  <2>2. m \in Nat /\ m <= MaxRequests /\ m # 1 /\ n + 1 <= m
    BY <1>1, <1>5
  <2> HIDE DEF m
  <2>3. Counted(row) \in Throttle /\ Counted(row).count = m
    BY <2>1, <2>2 DEF Throttle
  <2>4. QED
    BY <1>1, <2>2, <2>3
<1>6. QED
  BY <1>1, <1>2, <1>3, <1>4, <1>5

\* Every step preserves what the throttle rows say about the guesses in progress.
LEMMA AccountKeepsThrottles ==
    AccountInv /\ [AccountNext]_accountVars => ThrottlesOK'
<1> SUFFICES ASSUME AccountInv, [AccountNext]_accountVars PROVE ThrottlesOK'
  OBVIOUS
<1>a. RequestsOK /\ LinksOK /\ ThrottlesOK /\ proc \in [Procs -> Request] /\ now \in Nat
  BY DEF AccountInv, RequestsOK, ThrottlesOK
<1>b. \A k \in {"login", "code"} : Guessing(k) \in SUBSET Procs /\ Guessing(k)' \in SUBSET Procs
  BY DEF Guessing
<1> DEFINE Fewer(k) == Guessing(k)' \subseteq Guessing(k) \/ ~ Throttled(k)
\* Nobody is let through while the row is locked.
<1>c. ASSUME NEW p \in Procs, Locking(p) \/ Moving(p) \/ EndSessions(p), NEW k \in {"login", "code"} PROVE Fewer(k)
  <2>1. PICK f : proc' = [proc EXCEPT ![p] = f] /\ Onward(p, f)
    BY <1>a, <1>c, RequestGoesOnward
  <2>2. \A q \in Procs : proc'[q] = IF q = p THEN f ELSE proc[q]
    BY <1>a, <2>1
  <2>3. CASE k = "login"
    BY <2>1, <2>2, <2>3 DEF Onward, Guessing
  <2>4. CASE k = "code"
    BY <2>1, <2>2, <2>4 DEF Onward, Guessing
  <2>5. QED
    BY <2>3, <2>4
\* A row that is left alone.
<1>d. ASSUME NEW k \in {"login", "code"}, throttle'[k] = throttle[k], answered'[k] = answered[k], late'[k] = late[k],
             Fewer(k), now' \in {now, now + 1}
      PROVE  GuessesOK(k)'
  <2>1. Throttled(k)' => Throttled(k) /\ Guessing(k)' \subseteq Guessing(k)
    <3>1. throttle[k].locked \in Nat
      BY <1>a DEF ThrottlesOK, Throttle
    <3>2. QED
      BY <1>a, <1>d, <3>1 DEF Throttled
  <2>2. Guessing(k)' \subseteq Guessing(k) => Cardinality(Guessing(k)') <= Cardinality(Guessing(k))
    BY <1>b, GuessesCounted
  <2>3. /\ Cardinality(Guessing(k)) \in Nat /\ Cardinality(Guessing(k)') \in Nat /\ Cardinality(Procs) \in Nat
        /\ late[k] \in Nat /\ GuessesOK(k)
    BY <1>a, <1>b, GuessesCounted DEF ThrottlesOK
  <2>4. Throttled(k)' => late'[k] + Cardinality(Guessing(k)') < Cardinality(Procs)
    BY <1>d, <2>1, <2>2, <2>3 DEF GuessesOK
  <2>5. QED
    BY <1>d, <2>3, <2>4 DEF GuessesOK
\* A row that is cleared.
<1>e. ASSUME NEW k \in {"login", "code"}, throttle'[k] = NoRow, answered'[k] = 0, late'[k] = 0, UNCHANGED now
      PROVE  GuessesOK(k)'
  <2>1. ~ Throttled(k)'
    BY <1>a, <1>e DEF Throttled, NoRow
  <2>2. Cardinality(Procs) \in Nat \ {0} /\ MaxFailures \in Nat \ {0}
    BY GuessesCounted, AccountsAssumption
  <2>3. QED
    BY <1>e, <2>1, <2>2 DEF GuessesOK, NoRow
<1>f. ASSUME now' \in {now, now + 1}, UNCHANGED <<throttle, answered, late>>, \A k \in {"login", "code"} : Fewer(k)
      PROVE  ThrottlesOK'
  <2>1. \A k \in {"login", "code"} : GuessesOK(k)'
    BY <1>d, <1>f
  <2>2. now' \in Nat
    BY <1>a, <1>f
  <2>3. QED
    BY <1>a, <1>f, <2>1, <2>2 DEF ThrottlesOK
<1>g. ASSUME NEW k \in {"login", "code"}, throttle' = [throttle EXCEPT ![k] = NoRow],
             answered' = [answered EXCEPT ![k] = 0], late' = [late EXCEPT ![k] = 0], UNCHANGED now,
             \A j \in {"login", "code"} : Fewer(j)
      PROVE  ThrottlesOK'
  <2>1. NoRow \in Throttle
    BY DEF NoRow, Throttle
  <2>2. /\ throttle' \in [{"login", "code", "reset"} -> Throttle]
        /\ answered' \in [{"login", "code", "reset"} -> Nat] /\ late' \in [{"login", "code"} -> Nat]
    BY <1>a, <1>g, <2>1 DEF ThrottlesOK
  <2>3. throttle'[k] = NoRow /\ answered'[k] = 0 /\ late'[k] = 0
    BY <1>a, <1>g DEF ThrottlesOK
  <2>4. \A j \in {"login", "code", "reset"} \ {k} : throttle'[j] = throttle[j] /\ answered'[j] = answered[j]
    BY <1>a, <1>g DEF ThrottlesOK
  <2>5. \A j \in {"login", "code"} \ {k} : late'[j] = late[j]
    BY <1>a, <1>g DEF ThrottlesOK
  <2>6. \A j \in {"login", "code"} : GuessesOK(j)'
    BY <1>d, <1>e, <1>g, <2>3, <2>4, <2>5
  <2>7. answered'["reset"] <= throttle'["reset"].count /\ throttle'["reset"].count <= MaxRequests
    BY <1>a, <2>4 DEF ThrottlesOK
  <2>8. now' \in Nat
    BY <1>a, <1>g
  <2>9. QED
    BY <2>2, <2>6, <2>7, <2>8 DEF ThrottlesOK
<1>1. ASSUME NEW p \in Procs, Locking(p) \/ Moving(p) \/ EndSessions(p) PROVE ThrottlesOK'
  <2>1. \A k \in {"login", "code"} : Fewer(k)
    BY <1>c, <1>1
  \* The guess that is answered was among those that had been let through.
  <2>2. CASE RecordFailure(p)
    <3>k. PICK k \in {"login", "code"} : k = Row(p)
      BY DEF Row
    <3> DEFINE new == Failed(throttle[k])
    <3>1. p \in Guessing(k)
      BY <2>2, <3>k DEF Row, RecordFailure, At, Guessing
    <3>2. /\ throttle' = [throttle EXCEPT ![k] = new]
          /\ answered' = [answered EXCEPT ![k] = IF new.count = 1 THEN 1 ELSE @ + 1]
          /\ late' = [late EXCEPT ![k] = IF Throttled(k) THEN @ + 1 ELSE 0]
          /\ UNCHANGED now /\ proc' = [proc EXCEPT ![p] = IdleRequest]
      BY <2>2, <3>k DEF RecordFailure, Finish
    <3>3. /\ throttle[k] \in Throttle /\ answered[k] = throttle[k].count /\ late[k] \in Nat /\ answered[k] \in Nat
          /\ throttle[k].locked = 0 => throttle[k].count < MaxFailures \/ throttle[k].count = 1
          /\ late[k] < Cardinality(Procs)
          /\ Throttled(k) => late[k] + Cardinality(Guessing(k)) < Cardinality(Procs)
      BY <1>a, <3>1 DEF ThrottlesOK, GuessesOK
    <3>4. /\ new \in Throttle /\ (new.locked = 0 => new.count < MaxFailures \/ new.count = 1)
          /\ new.count = IF new.count = 1 THEN 1 ELSE throttle[k].count + 1
      BY <1>a, <3>3, FailedRow
    <3>5. Guessing(k)' = Guessing(k) \ {p}
      <4>1. \A q \in Procs : proc'[q] = IF q = p THEN IdleRequest ELSE proc[q]
        BY <1>a, <3>2
      <4>2. IdleRequest.pc \notin {"password", "mfa", "wrong"}
        BY DEF IdleRequest
      <4>3. QED
        BY <4>1, <4>2 DEF Guessing
    <3>6. /\ Cardinality(Guessing(k)') = Cardinality(Guessing(k)) - 1 /\ Cardinality(Guessing(k)) \in Nat
          /\ Cardinality(Guessing(k)) <= Cardinality(Procs) /\ Cardinality(Procs) \in Nat \ {0}
          /\ Cardinality(Guessing(k)') \in Nat
      <4>1. Cardinality(Guessing(k) \ {p}) = Cardinality(Guessing(k)) - 1 /\ Cardinality(Guessing(k) \ {p}) \in Nat
        BY <1>b, <3>1, GuessesCounted
      <4>2. QED
        BY <1>b, <3>1, <3>5, <4>1, GuessesCounted
    <3> HIDE DEF new
    <3>7. /\ throttle'[k] = new /\ answered'[k] = new.count
          /\ late'[k] = IF Throttled(k) THEN late[k] + 1 ELSE 0
      BY <1>a, <3>1, <3>2, <3>3, <3>4 DEF ThrottlesOK
    <3>8. GuessesOK(k)'
      <4>1. late'[k] + Cardinality(Guessing(k)') < Cardinality(Procs) /\ late'[k] \in Nat
        BY <3>3, <3>6, <3>7
      <4>2. QED
        BY <3>4, <3>6, <3>7, <4>1 DEF GuessesOK
    <3>9. /\ \A j \in {"login", "code", "reset"} \ {k} : throttle'[j] = throttle[j] /\ answered'[j] = answered[j]
          /\ \A j \in {"login", "code"} \ {k} : late'[j] = late[j]
      BY <1>a, <3>2 DEF ThrottlesOK
    <3>10. \A j \in {"login", "code"} : GuessesOK(j)'
      BY <1>d, <2>1, <3>2, <3>8, <3>9
    <3>11. /\ throttle' \in [{"login", "code", "reset"} -> Throttle]
           /\ answered' \in [{"login", "code", "reset"} -> Nat] /\ late' \in [{"login", "code"} -> Nat]
      <4>1. new.count \in Nat /\ throttle[k].count \in Nat
        BY <3>3, <3>4 DEF Throttle
      <4>2. (IF new.count = 1 THEN 1 ELSE answered[k] + 1) \in Nat /\ (IF Throttled(k) THEN late[k] + 1 ELSE 0) \in Nat
        BY <3>3
      <4>3. QED
        BY <1>a, <3>1, <3>2, <3>4, <4>2 DEF ThrottlesOK
    <3>12. answered'["reset"] <= throttle'["reset"].count /\ throttle'["reset"].count <= MaxRequests
      BY <1>a, <3>1, <3>9 DEF ThrottlesOK
    <3>13. QED
      BY <1>a, <3>2, <3>10, <3>11, <3>12 DEF ThrottlesOK
  <2>3. CASE ClearThrottle(p)
    BY <1>g, <2>1, <2>3 DEF ClearThrottle, Row
  <2>4. CASE CommitChange(p)
    <3>1. CASE proc[p].op = "reset"
      BY <1>g, <2>1, <2>4, <3>1 DEF CommitChange
    <3>2. CASE proc[p].op # "reset"
      BY <1>f, <2>1, <2>4, <3>2 DEF CommitChange
    <3>3. QED
      BY <3>1, <3>2
  <2>5. CASE AskReset(p)
    <3> DEFINE row == throttle["reset"]
               n == IF ~ Admitted(row) THEN answered["reset"]
                    ELSE IF Counted(row).count = 1 THEN 1 ELSE answered["reset"] + 1
    <3>1. /\ throttle' = [throttle EXCEPT !["reset"] = Counted(row)]
          /\ answered' = [answered EXCEPT !["reset"] = n] /\ UNCHANGED <<late, now>>
      BY <2>5 DEF AskReset
    <3>2. row \in Throttle /\ answered["reset"] \in Nat /\ answered["reset"] <= row.count /\ row.count <= MaxRequests
      BY <1>a DEF ThrottlesOK
    <3>3. Counted(row) \in Throttle /\ Counted(row).count <= MaxRequests /\ n <= Counted(row).count
      BY <1>a, <3>2, CountedRow
    <3>4. n \in Nat
      BY <3>2
    <3> HIDE DEF n, row
    <3>5. /\ throttle' \in [{"login", "code", "reset"} -> Throttle] /\ throttle'["reset"] = Counted(row)
          /\ answered' \in [{"login", "code", "reset"} -> Nat] /\ answered'["reset"] = n
          /\ \A k \in {"login", "code"} : throttle'[k] = throttle[k] /\ answered'[k] = answered[k]
      BY <1>a, <3>1, <3>3, <3>4 DEF ThrottlesOK
    <3>6. \A k \in {"login", "code"} : GuessesOK(k)'
      BY <1>d, <2>1, <3>1, <3>5
    <3>7. QED
      BY <1>a, <3>1, <3>3, <3>5, <3>6 DEF ThrottlesOK
  <2>6. CASE UNCHANGED <<throttle, answered, late, now>>
    BY <1>f, <2>1, <2>6
  <2>7. QED
    BY <1>1, <2>2, <2>3, <2>4, <2>5, <2>6
       DEF Locking, Moving, SignIn, SignInOAuth, Administration, Enroll, LockRow, ChangePassword, ChangeEmail, Update,
           SetStatus, Confirm, ConfirmEmail, AskLogin, PasswordRight, PasswordWrong, PassMFA,
           WrongCode, Issue, Logout, TakeState, ResolveIdentity, AskChange, Register,
           AskVerification, VoidLinks, MailLink, BeginEnrollment, RevokePending, InsertPending, SetCredential,
           ConfirmEnrollment, Disable, VerifyStepUp, CheckCode, EndSessions, Abort
<1>2. CASE UNCHANGED <<proc, throttle, answered, late>> /\ now' \in {now, now + 1}
  <2>1. \A k \in {"login", "code"} : Fewer(k)
    BY <1>2 DEF Guessing
  <2>2. QED
    BY <1>2, <1>f, <2>1
<1>3. QED
  BY <1>1, <1>2, AccountSteps DEF StartOAuth, Tick, accountVars
\* What holds when the program starts.
LEMMA AccountStarts == AccountInit => AccountInv
<1> SUFFICES ASSUME AccountInit PROVE AccountInv
  OBVIOUS
<1>a. MaxChanges \in Nat /\ MaxFailures \in Nat \ {0} /\ MaxRequests \in Nat \ {0}
      /\ None \notin Links \cup Creds /\ NoRequest \notin Procs
  BY AccountsAssumption
<1>1. RequestsOK
  <2>1. RequestOK(IdleRequest) /\ IdleRequest.pc = "idle"
    BY DEF RequestOK, Request, IdleRequest, Steps, Operation
  <2>2. QED
    BY <1>a, <2>1 DEF AccountInit, RequestsOK, RequestOK
<1>2. SessionsOK
  BY <1>a DEF AccountInit, SessionsOK, UserRow, IdleRequest
<1>3. LinksOK
  BY DEF AccountInit, LinksOK, LinkRow, NoLink, OAuthRow, IdleRequest
<1>4. CredsOK
  BY DEF AccountInit, CredsOK, Active, IdleRequest
<1>5. ThrottlesOK
  <2>1. NoRow \in Throttle /\ NoRow.count = 0 /\ NoRow.locked = 0
    BY DEF NoRow, Throttle
  <2>2. Cardinality(Procs) \in Nat \ {0}
    BY GuessesCounted
  <2>3. \A k \in {"login", "code"} : GuessesOK(k)
    BY <1>a, <2>1, <2>2 DEF AccountInit, GuessesOK, Throttled
  <2>4. QED
    BY <1>a, <2>1, <2>3 DEF AccountInit, ThrottlesOK
<1>6. QED
  BY <1>1, <1>2, <1>3, <1>4, <1>5 DEF AccountInv

\* The inductive invariant of the account, of which the theorems below are
\* consequences.
THEOREM AccountInvariant == AccountSpec => []AccountInv
<1>1. AccountInv /\ [AccountNext]_accountVars => AccountInv'
  BY AccountKeepsSessions, AccountKeepsLinks, AccountKeepsCreds, AccountKeepsThrottles DEF AccountInv
<1>2. QED
  BY AccountStarts, <1>1, PTL DEF AccountSpec

\* The row of the user is locked by the transaction that changes it, and at most
\* one authenticator is active (internal/users/profile.go, internal/mfa).
THEOREM AccountTypes == AccountSpec => []AccountTypeOK
<1>1. AccountInv => AccountTypeOK
  <2> SUFFICES ASSUME AccountInv PROVE AccountTypeOK
    OBVIOUS
  <2>1. Cardinality(Active) <= 1
    <3>1. CASE Active = {}
      BY <3>1, FS_EmptySet
    <3>2. CASE Active # {}
      <4>1. PICK c \in Active : TRUE
        BY <3>2
      <4>2. Active = {c}
        BY <4>1 DEF AccountInv, CredsOK
      <4>3. Cardinality({c}) = 1
        BY FS_Singleton
      <4>4. QED
        BY <4>2, <4>3
    <3>3. QED
      BY <3>1, <3>2
  <2>2. \A l \in Links : link[l].state \in {"none", "live", "used"}
    BY DEF AccountInv, LinksOK, LinkRow
  <2>3. QED
    BY <2>1, <2>2 DEF AccountInv, AccountTypeOK, RequestsOK, SessionsOK, CredsOK, UserRow
<1>2. QED
  BY <1>1, AccountInvariant, PTL

\* No session outlives a change of the password, the address or the status that
\* was made after it, whatever logins are in progress (SessionIssuer.Issue,
\* profile.go, password_reset.go, admin.go).
THEOREM SessionsEndWithChanges == AccountSpec => []SurvivorsAreNewer
<1>1. AccountInv => SurvivorsAreNewer
  BY DEF AccountInv, SessionsOK, SurvivorsAreNewer
<1>2. QED
  BY <1>1, AccountInvariant, PTL

\* Guesses of passwords and codes are bounded by the failures allowed and the
\* requests that are in progress when the lock begins (request_throttle.go).
THEOREM GuessesAlwaysBounded == AccountSpec => []GuessesAreBounded
<1>1. AccountInv => GuessesAreBounded
  <2> SUFFICES ASSUME AccountInv PROVE GuessesAreBounded
    OBVIOUS
  <2>1. \A k \in {"login", "code"} : GuessesOK(k)
    BY DEF AccountInv, ThrottlesOK
  <2>2. answered["reset"] <= MaxRequests
    <3>1. answered["reset"] \in Nat /\ throttle["reset"].count \in Nat /\ MaxRequests \in Nat
      BY AccountsAssumption DEF AccountInv, ThrottlesOK, Throttle
    <3>2. QED
      BY <3>1 DEF AccountInv, ThrottlesOK
  <2>3. QED
    BY <2>1, <2>2 DEF GuessesOK, GuessesAreBounded
<1>2. QED
  BY <1>1, AccountInvariant, PTL

\* A link and an OAuth state work once, and a link that was used or replaced and
\* an authenticator that was revoked stay so (password_reset.go,
\* email_verification.go, oauth.go, enrollment.go).
THEOREM SecretsWorkOnce == AccountSpec => OneTimeSecretsWorkOnce
<1>1. AccountInv => oauth.uses <= 1 /\ \A l \in Links : link[l].uses <= 1
  BY DEF AccountInv, LinksOK, OAuthRow
<1>2. AccountInv /\ [AccountNext]_accountVars =>
         [\A l \in Links : link[l].state = "used" => link'[l] = link[l]]_accountVars
  <2> SUFFICES ASSUME AccountInv, [AccountNext]_accountVars, NEW l \in Links, link[l].state = "used"
               PROVE  link'[l] = link[l] \/ UNCHANGED accountVars
    OBVIOUS
  <2>a. link \in [Links -> LinkRow] /\ link[l] \in LinkRow /\ LinksOK /\ RequestsOK
    BY DEF AccountInv, LinksOK
  <2>b. [link[l] EXCEPT !.state = "used"] = link[l]
    BY <2>a DEF LinkRow
  <2>c. \A S \in SUBSET Links : Used(S)[l] = link[l]
    BY <2>b DEF Used
  <2>1. ASSUME NEW p \in Procs, VoidLinks(p) PROVE link'[l] = link[l]
    BY <2>1, <2>c DEF VoidLinks, Live
  <2>2. ASSUME NEW p \in Procs, MailLink(p) PROVE link'[l] = link[l]
    <3>1. PICK k \in Links : Fresh(k) /\ link' = [link EXCEPT ![k] = [kind |-> proc[p].op, state |-> "live", uses |-> 0]]
      BY <2>2 DEF MailLink
    <3>2. k # l
      BY <3>1 DEF Fresh, NoLink
    <3>3. QED
      BY <2>a, <3>1, <3>2
  <2>3. ASSUME NEW p \in Procs, CommitChange(p) PROVE link'[l] = link[l]
    <3>1. proc[p].pc = "commit" /\ proc[p].voids \in SUBSET Links
      BY <2>a, <2>3 DEF CommitChange, At, RequestsOK, Request
    <3>2. proc[p].link # None => proc[p].link # l
      BY <2>a, <3>1 DEF LinksOK
    <3>3. link' = LET old == Used(proc[p].voids)
                  IN  IF proc[p].link = None THEN old ELSE [old EXCEPT ![proc[p].link].uses = @ + 1]
      BY <2>3 DEF CommitChange
    <3>4. Used(proc[p].voids)[l] = link[l] /\ l \in DOMAIN Used(proc[p].voids)
      BY <2>c, <3>1 DEF Used
    <3> HIDE DEF Used
    <3>5. QED
      BY <3>2, <3>3, <3>4
  <2>4. \/ \E p \in Procs : VoidLinks(p) \/ MailLink(p) \/ CommitChange(p)
        \/ UNCHANGED link
    <3>1. ASSUME NEW p \in Procs, Locking(p) \/ Moving(p) \/ EndSessions(p)
          PROVE  VoidLinks(p) \/ MailLink(p) \/ CommitChange(p) \/ UNCHANGED link
      BY <3>1
         DEF Locking, Moving, SignIn, SignInOAuth, Administration, Enroll, LockRow, ChangePassword, ChangeEmail,
             Update, SetStatus, Confirm, ConfirmEmail, AskLogin, PasswordRight, PasswordWrong, RecordFailure,
             PassMFA, WrongCode, Issue, ClearThrottle, Logout, TakeState, ResolveIdentity, AskChange, AskReset,
             Register, AskVerification, BeginEnrollment, RevokePending, InsertPending, SetCredential,
             ConfirmEnrollment, Disable, VerifyStepUp, CheckCode, EndSessions, Abort
    <3>2. QED
      BY <3>1, AccountSteps DEF StartOAuth, Tick, accountVars
  <2>5. QED
    BY <2>1, <2>2, <2>3, <2>4
<1>3. AccountInv /\ [AccountNext]_accountVars =>
         [\A c \in Creds : cred[c] = "revoked" => cred'[c] = "revoked"]_accountVars
  <2> SUFFICES ASSUME AccountInv, [AccountNext]_accountVars, NEW c \in Creds, cred[c] = "revoked"
               PROVE  cred'[c] = "revoked" \/ UNCHANGED accountVars
    OBVIOUS
  <2>a. cred \in [Creds -> {"none", "pending", "active", "revoked"}] /\ RequestsOK
    BY DEF AccountInv, CredsOK
  <2>1. ASSUME NEW p \in Procs, RevokePending(p) PROVE cred'[c] = "revoked"
    BY <2>1 DEF RevokePending
  <2>2. ASSUME NEW p \in Procs, InsertPending(p) PROVE cred'[c] = "revoked"
    <3>1. PICK d \in Creds : cred[d] = "none" /\ cred' = [cred EXCEPT ![d] = "pending"]
      BY <2>2 DEF InsertPending
    <3>2. QED
      BY <2>a, <3>1
  <2>3. ASSUME NEW p \in Procs, SetCredential(p) PROVE cred'[c] = "revoked"
    <3>1. \/ UNCHANGED cred
          \/ \E d : cred[d] \in {"pending", "active"} /\ \E s : cred' = [cred EXCEPT ![d] = s]
      BY <2>3 DEF SetCredential
    <3>2. QED
      BY <2>a, <3>1
  <2>4. \/ \E p \in Procs : RevokePending(p) \/ InsertPending(p) \/ SetCredential(p)
        \/ UNCHANGED cred
    <3>1. ASSUME NEW p \in Procs, Locking(p) \/ Moving(p) \/ EndSessions(p)
          PROVE  RevokePending(p) \/ InsertPending(p) \/ SetCredential(p) \/ UNCHANGED cred
      BY <3>1
         DEF Locking, Moving, SignIn, SignInOAuth, Administration, Enroll, LockRow, ChangePassword, ChangeEmail,
             Update, SetStatus, Confirm, ConfirmEmail, AskLogin, PasswordRight, PasswordWrong, RecordFailure,
             PassMFA, WrongCode, Issue, ClearThrottle, Logout, TakeState, ResolveIdentity, AskChange, AskReset,
             Register, AskVerification, VoidLinks, MailLink, BeginEnrollment, ConfirmEnrollment, Disable,
             VerifyStepUp, CheckCode, EndSessions, CommitChange, Abort
    <3>2. QED
      BY <3>1, AccountSteps DEF StartOAuth, Tick, accountVars
  <2>5. QED
    BY <2>1, <2>2, <2>3, <2>4
<1>4. QED
  BY <1>1, <1>2, <1>3, AccountInvariant, PTL DEF AccountSpec, OneTimeSecretsWorkOnce

-----------------------------------------------------------------------------
(* The administrators.  An administrator always remains, for any number of *)
(* users and roles, because what writes shares one advisory lock: changes  *)
(* of status, which take another one, never get past their UPDATE.         *)
(*                                                                         *)
(* What an operation has judged must still be true when it commits: the    *)
(* lock keeps every other committing operation away; the creation of a     *)
(* role, which takes no lock, changes nobody's active roles, and a         *)
(* confirmed e-mail address only adds an active account.  So bindings are  *)
(* to active roles as well.                                                *)

\* Committing op now leaves an administrator.
Safe(op) ==
    /\ op.kind = "bind" =>
          /\ status[op.target] = "active"
          /\ \A r \in op.to : roleStatus[r] = "active"
          /\ HasActiveRole(op.target) /\ op.to = {} => ActiveAdmins \ {op.target} # {}
    /\ op.kind = "role" =>
          /\ roleStatus[op.target] # "absent"
          /\ roleStatus[op.target] = "active" /\ op.to # "active" =>
                AdminRemainsWithout(op.target)

\* Running operations are of the kinds in use, and what was judged holds.
RunningOK ==
    /\ \A a \in Users : tx[a].pc # "idle" => tx[a].op \in Operations /\ tx[a].op.kind \in Kinds
    /\ \A a \in Users : tx[a].pc = "judged" => Safe(tx[a].op)

Inv == TypeOK /\ RunningOK /\ AdminRemains

-----------------------------------------------------------------------------
\* What the transaction of an operation accepts is safe to commit at once.
LEMMA AllowedIsSafe ==
    ASSUME NEW a, NEW op \in Operations, Allowed(a, op)
    PROVE  Safe(op)
<1>1. CASE op.kind = "status"
  BY <1>1 DEF Safe
<1>2. CASE op.kind = "bind"
  BY <1>2 DEF Safe, Allowed
<1>3. CASE op.kind = "role"
  BY <1>3 DEF Safe, Allowed
<1> QED BY <1>1, <1>2, <1>3 DEF Operations

\* Two operations that can write are never past the lock together.
LEMMA OnePastLock ==
    ASSUME TypeOK, NEW a \in Users, NEW b \in Users,
           tx[a].pc \in {"locked", "judged"}, tx[b].pc \in {"locked", "judged"},
           tx[a].op.kind # "status", tx[b].op.kind # "status"
    PROVE  a = b
<1>1. LockOf(tx[a].op) = LockOf(tx[b].op)
  BY DEF LockOf
<1>2. holder[LockOf(tx[a].op)] = a /\ holder[LockOf(tx[b].op)] = b
  BY DEF TypeOK
<1> QED BY <1>1, <1>2

\* The bindings and statuses that Safe depends on do not change when a role
\* is created: it has no members yet and nobody was judged to bind it.
LEMMA CreationHarmsNothing ==
    ASSUME Inv, NEW a \in Users, NEW r \in Roles, NEW s \in {"active", "disabled"},
           CreateRole(a, r, s)
    PROVE  RunningOK' /\ AdminRemains'
<1>1. /\ roleStatus[r] = "absent"
      /\ \A q \in Roles \ {r} : roleStatus'[q] = roleStatus[q]
      /\ status' = status /\ bound' = bound /\ tx' = tx
  BY DEF CreateRole, Inv, TypeOK
<1>2. \A u \in Users : <<u, r>> \notin bound
  BY <1>1 DEF Inv, TypeOK
<1>3. \A u \in Users : ActiveRoles(u)' = ActiveRoles(u)
  BY <1>1, <1>2 DEF ActiveRoles
<1>4. ActiveAdmins' = ActiveAdmins
  BY <1>1, <1>3 DEF ActiveAdmins, HasActiveRole
<1>5. \A q \in Roles : AdminRemainsWithout(q)' = AdminRemainsWithout(q)
  BY <1>1, <1>3 DEF AdminRemainsWithout
<1>6. ASSUME NEW op \in Operations, Safe(op)
      PROVE  Safe(op)'
  <2>1. CASE op.kind = "status"
    BY <2>1 DEF Safe
  <2>2. CASE op.kind = "bind"
    <3>1. op.target \in Users /\ op.to \subseteq Roles
      BY <2>2 DEF Operations
    <3>2. r \notin op.to
      BY <2>2, <1>1, <1>6 DEF Safe
    <3> QED BY <2>2, <3>1, <3>2, <1>1, <1>3, <1>4, <1>6 DEF Safe, HasActiveRole
  <2>3. CASE op.kind = "role"
    <3>1. op.target \in Roles
      BY <2>3 DEF Operations
    <3>2. op.target # r
      BY <2>3, <1>1, <1>6 DEF Safe
    <3> QED BY <2>3, <3>1, <3>2, <1>1, <1>5, <1>6 DEF Safe
  <2> QED BY <2>1, <2>2, <2>3 DEF Operations
<1>7. RunningOK'
  BY <1>1, <1>6 DEF RunningOK, Inv
<1>8. AdminRemains'
  BY <1>4 DEF AdminRemains, Inv
<1> QED BY <1>7, <1>8

\* A confirmed e-mail address makes an account active and harms nothing.
LEMMA ConfirmationHarmsNothing ==
    ASSUME Inv, NEW u \in Users, Verify(u)
    PROVE  RunningOK' /\ AdminRemains'
<1>1. /\ roleStatus' = roleStatus /\ bound' = bound /\ tx' = tx
      /\ \A v \in Users : status[v] = "active" => status'[v] = "active"
  BY DEF Verify, Inv, TypeOK
<1>2. \A v \in Users : ActiveRoles(v)' = ActiveRoles(v)
  BY <1>1 DEF ActiveRoles
<1>3. ActiveAdmins \subseteq ActiveAdmins'
  BY <1>1, <1>2 DEF ActiveAdmins, HasActiveRole
<1>4. \A r \in Roles : AdminRemainsWithout(r) => AdminRemainsWithout(r)'
  BY <1>1, <1>2 DEF AdminRemainsWithout
<1>5. ASSUME NEW op \in Operations, Safe(op)
      PROVE  Safe(op)'
  <2>1. CASE op.kind = "status"
    BY <2>1 DEF Safe
  <2>2. CASE op.kind = "bind"
    <3>1. op.target \in Users
      BY <2>2 DEF Operations
    <3> QED BY <2>2, <3>1, <1>1, <1>2, <1>3, <1>5 DEF Safe, HasActiveRole
  <2>3. CASE op.kind = "role"
    <3>1. op.target \in Roles
      BY <2>3 DEF Operations
    <3> QED BY <2>3, <3>1, <1>1, <1>4, <1>5 DEF Safe
  <2> QED BY <2>1, <2>2, <2>3 DEF Operations
<1>6. RunningOK'
  BY <1>1, <1>5 DEF RunningOK, Inv
<1> QED BY <1>3, <1>6 DEF AdminRemains, Inv

\* Committing a safe operation leaves an administrator.
LEMMA SafeCommit ==
    ASSUME TypeOK, AdminRemains, NEW a \in Users, NEW op \in Operations, Safe(op),
           CommitBindings(a, op) \/ CommitRole(a, op)
    PROVE  AdminRemains'
<1>1. CASE CommitBindings(a, op)
  <2>1. op.target \in Users /\ op.to \subseteq Roles /\ op.kind = "bind"
    BY <1>1 DEF Operations, CommitBindings
  <2>2. /\ roleStatus' = roleStatus /\ status' = status
        /\ bound' = {p \in bound : p[1] # op.target} \cup ({op.target} \X op.to)
    BY <1>1 DEF CommitBindings
  <2>3. CASE op.to # {}
    <3>1. PICK r \in op.to : roleStatus[r] = "active"
      BY <2>1, <2>3 DEF Safe
    <3>2. <<op.target, r>> \in bound'
      BY <2>2, <3>1
    <3>3. r \in ActiveRoles(op.target)'
      BY <2>1, <2>2, <3>1, <3>2 DEF ActiveRoles
    <3>4. status'[op.target] = "active"
      BY <2>1, <2>2 DEF Safe
    <3>5. op.target \in ActiveAdmins'
      BY <2>1, <3>3, <3>4 DEF ActiveAdmins, HasActiveRole
    <3> QED BY <3>5 DEF AdminRemains
  <2>4. CASE op.to = {}
    <3>1. PICK u \in ActiveAdmins : u # op.target
      BY <2>1, <2>4 DEF Safe, AdminRemains, ActiveAdmins
    <3>2. u \in Users /\ status[u] = "active" /\ HasActiveRole(u)
      BY <3>1 DEF ActiveAdmins
    <3>3. PICK r \in Roles : <<u, r>> \in bound /\ roleStatus[r] = "active"
      BY <3>2 DEF HasActiveRole, ActiveRoles
    <3>4. <<u, r>> \in bound'
      BY <2>2, <3>1, <3>3
    <3>5. r \in ActiveRoles(u)'
      BY <2>2, <3>3, <3>4 DEF ActiveRoles
    <3>6. u \in ActiveAdmins'
      BY <2>2, <3>2, <3>5 DEF ActiveAdmins, HasActiveRole
    <3> QED BY <3>6 DEF AdminRemains
  <2> QED BY <2>3, <2>4
<1>2. CASE CommitRole(a, op)
  <2>1. op.target \in Roles /\ op.kind = "role"
    BY <1>2 DEF Operations, CommitRole
  <2>2. /\ status' = status /\ bound' = bound
        /\ \A q \in Roles \ {op.target} : roleStatus'[q] = roleStatus[q]
        /\ roleStatus'[op.target] = op.to
    BY <1>2, <2>1 DEF CommitRole, TypeOK
  <2>3. PICK u \in Users, r \in Roles :
           /\ status[u] = "active" /\ <<u, r>> \in bound /\ roleStatus[r] = "active"
           /\ r # op.target \/ op.to = "active"
    <3>1. CASE roleStatus[op.target] = "active" /\ op.to # "active"
      BY <2>1, <3>1 DEF Safe, AdminRemainsWithout, ActiveRoles
    <3>2. CASE roleStatus[op.target] # "active" \/ op.to = "active"
      BY <3>2 DEF AdminRemains, ActiveAdmins, HasActiveRole, ActiveRoles
    <3> QED BY <3>1, <3>2
  <2>4. roleStatus'[r] = "active"
    BY <2>2, <2>3
  <2>5. r \in ActiveRoles(u)'
    BY <2>2, <2>3, <2>4 DEF ActiveRoles
  <2>6. u \in ActiveAdmins'
    BY <2>2, <2>3, <2>5 DEF ActiveAdmins, HasActiveRole
  <2> QED BY <2>6 DEF AdminRemains
<1> QED BY <1>1, <1>2

-----------------------------------------------------------------------------
\* Types, lock discipline and bindings to existing roles are kept.
LEMMA TypeStep ==
    ASSUME TypeOK, RunningOK, [Next]_vars
    PROVE  TypeOK'
<1>1. ASSUME NEW a \in Users, NEW op \in Operations, Begin(a, op)
      PROVE  TypeOK'
  BY <1>1 DEF Begin, TypeOK
<1>2. ASSUME NEW a \in Users, Lock(a)
      PROVE  TypeOK'
  <2>1. tx[a].op \in Operations /\ LockOf(tx[a].op) \in LockNames
    BY <1>2 DEF Lock, RunningOK, LockOf, LockNames
  <2>2. tx[a] = [pc |-> "waiting", op |-> tx[a].op]
    BY <1>2 DEF Lock, TypeOK
  <2>3. tx'[a] = [pc |-> "locked", op |-> tx[a].op] /\ \A b \in Users \ {a} : tx'[b] = tx[b]
    BY <1>2, <2>2 DEF Lock, TypeOK
  <2>4. tx' \in [Users -> [pc : {"idle", "waiting", "locked", "judged"},
                            op : Operations \cup {Nothing}]]
    BY <1>2, <2>1, <2>2 DEF Lock, TypeOK
  <2>5. /\ holder' \in [LockNames -> Users \cup {Nobody}]
        /\ holder'[LockOf(tx[a].op)] = a
        /\ \A l \in LockNames : holder[l] # Nobody => holder'[l] = holder[l]
    BY <1>2, <2>1 DEF Lock, TypeOK
  <2>6. ASSUME NEW b \in Users, tx'[b].pc \in {"locked", "judged"}
        PROVE  holder'[LockOf(tx'[b].op)] = b
    <3>1. CASE b = a
      BY <3>1, <2>3, <2>5
    <3>2. CASE b # a
      <4>1. tx[b].pc \in {"locked", "judged"} /\ holder[LockOf(tx[b].op)] = b
        BY <3>2, <2>3, <2>6 DEF TypeOK
      <4>2. LockOf(tx[b].op) \in LockNames
        BY DEF LockOf, LockNames
      <4> QED BY <3>2, <4>1, <4>2, <2>3, <2>5, RolesAssumption
    <3> QED BY <3>1, <3>2
  <2> QED BY <1>2, <2>4, <2>5, <2>6 DEF Lock, TypeOK
<1>3. ASSUME NEW a \in Users, Judge(a)
      PROVE  TypeOK'
  <2>1. tx[a].op \in Operations
    BY <1>3 DEF Judge, RunningOK
  <2>2. tx[a] = [pc |-> "locked", op |-> tx[a].op]
    BY <1>3 DEF Judge, TypeOK
  <2>3. tx'[a] = [pc |-> "judged", op |-> tx[a].op] /\ \A b \in Users \ {a} : tx'[b] = tx[b]
    BY <1>3, <2>2 DEF Judge, TypeOK
  <2> QED BY <1>3, <2>1, <2>2, <2>3 DEF Judge, TypeOK
<1>4. ASSUME NEW a \in Users, End(a)
      PROVE  /\ holder' \in [LockNames -> Users \cup {Nobody}]
             /\ tx' \in [Users -> [pc : {"idle", "waiting", "locked", "judged"},
                                    op : Operations \cup {Nothing}]]
             /\ \A b \in Users : tx'[b].pc \in {"locked", "judged"} =>
                                     holder'[LockOf(tx'[b].op)] = b
  <2>1. tx'[a].pc = "idle" /\ \A b \in Users \ {a} : tx'[b] = tx[b]
    BY <1>4 DEF End, Idle, TypeOK
  <2>2. ASSUME NEW b \in Users, tx'[b].pc \in {"locked", "judged"}
        PROVE  holder'[LockOf(tx'[b].op)] = b
    <3>1. b # a /\ tx'[b] = tx[b]
      BY <2>1, <2>2
    <3>2. holder[LockOf(tx[b].op)] = b
      BY <2>2, <3>1 DEF TypeOK
    <3>3. LockOf(tx[b].op) \in LockNames
      BY DEF LockOf, LockNames
    <3> QED BY <1>4, <3>1, <3>2, <3>3 DEF End
  <2> QED BY <1>4, <2>2 DEF End, Idle, TypeOK
<1>5. ASSUME NEW a \in Users, Commit(a)
      PROVE  TypeOK'
  <2>1. tx[a].op \in Operations /\ tx[a].pc = "judged" /\ Safe(tx[a].op)
    BY <1>5 DEF Commit, RunningOK
  <2>2. /\ status' \in [Users -> UserStatus]
        /\ roleStatus' \in [Roles -> RoleStatus]
        /\ bound' \subseteq Users \X Roles
        /\ \A p \in bound' : roleStatus'[p[2]] # "absent"
    <3> DEFINE op == tx[a].op
    <3>1. CASE CommitBindings(a, op)
      <4>1. op.target \in Users /\ op.to \subseteq Roles
        BY <3>1, <2>1 DEF CommitBindings, Operations
      <4>2. \A r \in op.to : roleStatus[r] = "active"
        BY <3>1, <2>1 DEF CommitBindings, Safe
      <4> QED BY <3>1, <4>1, <4>2 DEF CommitBindings, TypeOK
    <3>2. CASE CommitRole(a, op)
      <4>1. op.target \in Roles /\ op.to \in {"active", "disabled"}
        BY <3>2, <2>1 DEF CommitRole, Operations
      <4> QED BY <3>2, <4>1 DEF CommitRole, TypeOK, RoleStatus
    <3> QED BY <1>5, <3>1, <3>2 DEF Commit
  <2>3. End(a)
    BY <1>5 DEF Commit
  <2> QED BY <1>4, <2>2, <2>3 DEF TypeOK
<1>6. ASSUME NEW a \in Users, Rollback(a)
      PROVE  TypeOK'
  BY <1>4, <1>6 DEF Rollback, TypeOK
<1>7. ASSUME NEW a \in Users, NEW r \in Roles, NEW s \in {"active", "disabled"},
             CreateRole(a, r, s)
      PROVE  TypeOK'
  BY <1>7 DEF CreateRole, TypeOK, RoleStatus
<1>8. ASSUME NEW u \in Users, Verify(u)
      PROVE  TypeOK'
  BY <1>8 DEF Verify, TypeOK, UserStatus
<1>9. CASE UNCHANGED vars
  BY <1>9 DEF vars, TypeOK
<1> QED BY <1>1, <1>2, <1>3, <1>5, <1>6, <1>7, <1>8, <1>9 DEF Next

\* The inductive step: a committing operation is the only one past the lock,
\* and of those that can write the only one that has judged.
LEMMA AdminStep ==
    ASSUME Inv, [Next]_vars
    PROVE  Inv'
<1>1. TypeOK'
  BY TypeStep DEF Inv
<1>2. ASSUME NEW a \in Users, NEW op \in Operations, op.kind \in Kinds, Begin(a, op)
      PROVE  RunningOK' /\ AdminRemains'
  <2>1. /\ status' = status /\ roleStatus' = roleStatus /\ bound' = bound
        /\ tx'[a] = [pc |-> "waiting", op |-> op]
        /\ \A b \in Users \ {a} : tx'[b] = tx[b]
    BY <1>2 DEF Begin, Inv, TypeOK
  <2>2. ActiveAdmins' = ActiveAdmins /\ \A o : Safe(o)' <=> Safe(o)
    BY <2>1 DEF ActiveAdmins, HasActiveRole, ActiveRoles, Safe, AdminRemainsWithout
  <2>3. RunningOK'
    BY <1>2, <2>1, <2>2 DEF RunningOK, Inv
  <2> QED BY <2>2, <2>3 DEF Inv, AdminRemains
<1>3. ASSUME NEW a \in Users, Lock(a) \/ Judge(a)
      PROVE  RunningOK' /\ AdminRemains'
  <2>1. /\ status' = status /\ roleStatus' = roleStatus /\ bound' = bound
        /\ \A b \in Users : tx'[b].op = tx[b].op
        /\ \A b \in Users \ {a} : tx'[b].pc = tx[b].pc
        /\ tx[a].pc # "idle"
        /\ tx'[a].pc = "judged" => Allowed(a, tx[a].op)
    BY <1>3 DEF Lock, Judge, Inv, TypeOK
  <2>2. ActiveAdmins' = ActiveAdmins /\ \A o : Safe(o)' <=> Safe(o)
    BY <2>1 DEF ActiveAdmins, HasActiveRole, ActiveRoles, Safe, AdminRemainsWithout
  <2>3. tx'[a].pc = "judged" => Safe(tx[a].op)
    BY <2>1, AllowedIsSafe DEF RunningOK, Inv
  <2>4. RunningOK'
    BY <2>1, <2>2, <2>3 DEF RunningOK, Inv
  <2> QED BY <2>2, <2>4 DEF Inv, AdminRemains
<1>4. ASSUME NEW a \in Users, Commit(a)
      PROVE  RunningOK' /\ AdminRemains'
  <2>1. tx[a].pc = "judged" /\ tx[a].op \in Operations /\ Safe(tx[a].op)
    BY <1>4 DEF Commit, Inv, RunningOK
  <2>2. tx'[a].pc = "idle" /\ \A b \in Users \ {a} : tx'[b] = tx[b]
    BY <1>4 DEF Commit, End, Idle, Inv, TypeOK
  <2>3. \A b \in Users \ {a} : tx[b].pc = "judged" => tx[b].op.kind = "status"
    BY <1>4, <2>1, OnePastLock DEF Inv, Commit, CommitBindings, CommitRole
  <2>4. RunningOK'
    BY <2>2, <2>3 DEF RunningOK, Inv, Safe
  <2>5. AdminRemains'
    BY <1>4, <2>1, SafeCommit DEF Commit, Inv
  <2> QED BY <2>4, <2>5
<1>5. ASSUME NEW a \in Users, Rollback(a)
      PROVE  RunningOK' /\ AdminRemains'
  <2>1. /\ status' = status /\ roleStatus' = roleStatus /\ bound' = bound
        /\ tx'[a].pc = "idle" /\ \A b \in Users \ {a} : tx'[b] = tx[b]
    BY <1>5 DEF Rollback, End, Idle, Inv, TypeOK
  <2>2. ActiveAdmins' = ActiveAdmins /\ \A o : Safe(o)' <=> Safe(o)
    BY <2>1 DEF ActiveAdmins, HasActiveRole, ActiveRoles, Safe, AdminRemainsWithout
  <2> QED BY <2>1, <2>2 DEF RunningOK, Inv, AdminRemains
<1>6. ASSUME UNCHANGED vars
      PROVE  RunningOK' /\ AdminRemains'
  <2>1. /\ status' = status /\ roleStatus' = roleStatus /\ bound' = bound /\ tx' = tx
    BY <1>6 DEF vars
  <2>2. ActiveAdmins' = ActiveAdmins /\ \A o : Safe(o)' <=> Safe(o)
    BY <2>1 DEF ActiveAdmins, HasActiveRole, ActiveRoles, Safe, AdminRemainsWithout
  <2> QED BY <2>1, <2>2 DEF RunningOK, Inv, AdminRemains
<1>7. RunningOK' /\ AdminRemains'
  <2>1. ASSUME NEW a \in Users, NEW r \in Roles, NEW s \in {"active", "disabled"},
               CreateRole(a, r, s)
        PROVE  RunningOK' /\ AdminRemains'
    BY <2>1, CreationHarmsNothing
  <2>2. ASSUME NEW u \in Users, Verify(u)
        PROVE  RunningOK' /\ AdminRemains'
    BY <2>2, ConfirmationHarmsNothing
  <2>3. CASE Next
    <3> HIDE DEF Inv, RunningOK, AdminRemains
    <3> QED BY <1>2, <1>3, <1>4, <1>5, <2>1, <2>2, <2>3, Zenon DEF Next
  <2> QED BY <1>6, <2>3
<1> QED BY <1>1, <1>7 DEF Inv

\* Initially a platform owner can act and nothing is running.
LEMMA AdminInit == ASSUME Init PROVE Inv
<1>1. TypeOK
  BY DEF Init, TypeOK, Idle
<1>2. RunningOK
  BY DEF Init, RunningOK, Idle
<1>3. AdminRemains
  <2>1. PICK u \in Users : status[u] = "active" /\ <<u, Owner>> \in bound
    BY DEF Init
  <2>2. Owner \in ActiveRoles(u)
    BY <2>1, RolesAssumption DEF Init, ActiveRoles
  <2> QED BY <2>1, <2>2 DEF AdminRemains, ActiveAdmins, HasActiveRole
<1> QED BY <1>1, <1>2, <1>3 DEF Inv

\* Administrators who change each other's bindings, roles and status never
\* remove the last administrator, however many they are.
THEOREM AnAdministratorRemains == Spec => []AdminRemains
<1>1. Init => Inv
  BY AdminInit
<1>2. Inv /\ [Next]_vars => Inv'
  BY AdminStep
<1>3. Inv => AdminRemains
  BY DEF Inv
<1> QED BY <1>1, <1>2, <1>3, PTL DEF Spec

-----------------------------------------------------------------------------
\* A binding is made to a role that is active when the binding is committed.
THEOREM BindingsAreToActiveRoles == Spec => NewBindingsAreActive
<1> DEFINE A == \A p \in bound' \ bound : roleStatus[p[2]] = "active"
<1>1. Init => Inv
  BY AdminInit
<1>2. Inv /\ [Next]_vars => Inv'
  BY AdminStep
<1>3. ASSUME Inv, [Next]_vars
      PROVE  [A]_vars
  <2>1. SUFFICES ASSUME NEW p \in bound' \ bound
                 PROVE  roleStatus[p[2]] = "active"
    OBVIOUS
  <2>2. PICK a \in Users : Commit(a)
    BY <1>3, <2>1 DEF Next, Begin, Lock, Judge, Rollback, CreateRole, Verify, vars
  <2>3. CommitBindings(a, tx[a].op) /\ tx[a].pc = "judged"
    BY <2>1, <2>2 DEF Commit, CommitRole
  <2>4. \A r \in tx[a].op.to : roleStatus[r] = "active"
    BY <1>3, <2>3 DEF Inv, RunningOK, Safe, CommitBindings
  <2> QED BY <2>1, <2>3, <2>4 DEF CommitBindings
<1> QED BY <1>1, <1>2, <1>3, PTL DEF Spec, NewBindingsAreActive
=============================================================================
