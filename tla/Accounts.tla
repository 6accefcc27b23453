------------------------------ MODULE Accounts ------------------------------
(***************************************************************************)
(* One account and its credentials: internal/auth (login, session_issuer,   *)
(* registration, email_verification, password_reset, oauth,                 *)
(* request_throttle), internal/mfa/enrollment.go, internal/users/profile.go *)
(* and the account operations of internal/users/admin.go.                   *)
(*                                                                         *)
(* Every operation is a process that runs it statement by statement: what   *)
(* was read may be stale when it is used.  The transactions that change the *)
(* users row lock it FOR UPDATE: reads of others do not wait, but rows that *)
(* refer to the user are inserted before or after.                          *)
(*                                                                         *)
(* SetStatus is modelled as if its UPDATE could run; PostgreSQL refuses it   *)
(* as it is written (see PlatformAdmins): "disable" and "enable" only add    *)
(* behaviours.                                                             *)
(*                                                                         *)
(* Abstractions: passwords are told apart by the change that set them, the  *)
(* e-mail address is "old" or "new"; "locked" is as "disabled"; an expired  *)
(* session or link is one that is not used again; roles and memberships are *)
(* those of PlatformAdmins and Tenants; one of the three throttle rows of a *)
(* login stands for all; secrets are unguessable.                           *)
(***************************************************************************)
EXTENDS Integers, FiniteSets

CONSTANTS
    Procs,         \* requests in progress, one operation at a time each
    Links,         \* rows of password_reset_tokens and email_verification_tokens
    Creds,         \* rows of mfa_credentials
    VerifyMail,    \* email verification is on
    MaxChanges,    \* bound on the changes that end sessions
    MaxFailures, MaxRequests, Window, LockFor, MaxTime,
    NoRequest, None

ASSUME AccountsAssumption ==
    /\ IsFiniteSet(Procs) /\ Procs # {} /\ NoRequest \notin Procs /\ None \notin Links \cup Creds
    /\ VerifyMail \in BOOLEAN
    /\ MaxChanges \in Nat /\ MaxFailures \in Nat \ {0} /\ MaxRequests \in Nat \ {0}
    /\ Window \in Nat /\ LockFor \in Nat \ {0} /\ MaxTime \in Nat

VARIABLES
    user,        \* users: status, e-mail, and the last change that ended sessions
    rowLock,     \* who holds FOR UPDATE on the row
    cuts,        \* statements that ended sessions, also of changes rolled back
    session,     \* web_sessions, one per process, and cuts when it was inserted
    link,        \* one-time links: kind, state, times used
    cred,        \* mfa_credentials.status
    oauth,       \* an oauth_states row, times used, and whether the identity is linked
    throttle,    \* login_throttles rows: logins, codes, requests of reset links
    answered,    \* answers since a throttle row began
    late,        \* answers to guesses while they are locked out
    proc,        \* the operation of each process
    now

accountVars == <<user, rowLock, cuts, session, link, cred, oauth, throttle, answered, late, proc, now>>

NoRow  == [count |-> 0, first |-> 0, locked |-> 0]
IdleRequest   == [op |-> None, pc |-> "idle", link |-> None, cred |-> None, ends |-> {}, voids |-> {}]
NoLink == [kind |-> "none", state |-> "none", uses |-> 0]

AccountInit ==
    /\ user \in [status : {"none", "active"}, email : {"old"}, since : {0}]
    /\ rowLock = NoRequest /\ cuts = 0
    /\ session \in [Procs -> [status : {"none", "live"}, born : {0}]]
    /\ \E c \in Creds \cup {None} : cred = [d \in Creds |-> IF d = c THEN "active" ELSE "none"]
    /\ user.status = "none" => /\ \A p \in Procs : session[p].status = "none"
                               /\ \A c \in Creds : cred[c] = "none"
    /\ link = [l \in Links |-> NoLink]
    /\ oauth = [state |-> "none", uses |-> 0, linked |-> FALSE]
    /\ throttle = [k \in {"login", "code", "reset"} |-> NoRow]
    /\ answered = [k \in {"login", "code", "reset"} |-> 0]
    /\ late = [k \in {"login", "code"} |-> 0]
    /\ proc = [p \in Procs |-> IdleRequest]
    /\ now = 0

-----------------------------------------------------------------------------
Ready(p, op) == proc[p].pc = "idle" /\ proc' = [proc EXCEPT ![p] = [IdleRequest EXCEPT !.op = op[1], !.pc = op[2]]]
At(p, pc)    == proc[p].pc = pc
Goto(p, pc)  == proc' = [proc EXCEPT ![p].pc = pc]
Finish(p)       == proc' = [proc EXCEPT ![p] = IdleRequest]

Live(k)     == {l \in Links : link[l].kind = k /\ link[l].state = "live"}
Used(ls)    == [l \in Links |-> IF l \in ls THEN [link[l] EXCEPT !.state = "used"] ELSE link[l]]
Active      == {c \in Creds : cred[c] = "active"}
LiveSessions == {p \in Procs : session[p].status = "live"}

\* isThrottled, stepUpThrottled
Throttled(k) == now < throttle[k].locked

\* ResolveSession: the session of a request is live and its user is active.
Resolves(p) == session[p].status = "live" /\ user.status = "active"

-----------------------------------------------------------------------------
(* Login                                                                   *)

\* loginHandler: the throttle is looked at first, and not again.
AskLogin(p) ==
    /\ Ready(p, <<"login", "password">>)
    /\ session[p].status = "none"
    /\ ~ Throttled("login")
    /\ UNCHANGED <<user, rowLock, cuts, session, link, cred, oauth, throttle, answered, late, now>>

\* The password is compared with the row as it is now.
PasswordRight(p) ==
    /\ At(p, "password")
    /\ user.status # "none"
    /\ IF user.status = "active" THEN Goto(p, "mfa") ELSE Finish(p)
    /\ UNCHANGED <<user, rowLock, cuts, session, link, cred, oauth, throttle, answered, late, now>>

PasswordWrong(p) ==
    /\ At(p, "password")
    /\ Goto(p, "wrong")
    /\ UNCHANGED <<user, rowLock, cuts, session, link, cred, oauth, throttle, answered, late, now>>

\* Mutant: the lock begins with the failure after the last one allowed.
FailedOnceMore(row) ==
    IF row.count = 0 \/ row.first < now - Window
    THEN [count |-> 1, first |-> now, locked |-> 0]
    ELSE [row EXCEPT !.count = @ + 1,
                     !.locked = IF row.count >= MaxFailures THEN now + LockFor ELSE @]

\* The row after a failure: a new window, or one more in this one.
Failed(row) ==
    IF row.count = 0 \/ row.first < now - Window
    THEN [count |-> 1, first |-> now, locked |-> 0]
    ELSE [row EXCEPT !.count = @ + 1,
                     !.locked = IF row.count + 1 >= MaxFailures THEN now + LockFor ELSE @]

Row(p) == IF proc[p].op = "login" THEN "login" ELSE "code"

\* recordFailure, one upsert; then the answer that the guess is wrong.
RecordFailure(p) ==
    /\ At(p, "wrong")
    /\ LET k   == Row(p)
           new == Failed(throttle[k])
       IN  /\ throttle' = [throttle EXCEPT ![k] = new]
           /\ answered' = [answered EXCEPT ![k] = IF new.count = 1 THEN 1 ELSE @ + 1]
           /\ late' = [late EXCEPT ![k] = IF Throttled(k) THEN @ + 1 ELSE 0]
    /\ Finish(p)
    /\ UNCHANGED <<user, rowLock, cuts, session, link, cred, oauth, now>>

\* hasConfiguredMFA
Configured == Active # {}

\* The role or membership is there, and the code is right if one is asked for.
PassMFA(p) ==
    /\ At(p, "mfa")
    /\ Goto(p, "issue")
    /\ UNCHANGED <<user, rowLock, cuts, session, link, cred, oauth, throttle, answered, late, now>>

\* verifyConfiguredMFA: a wrong code counts as a wrong password.
WrongCode(p) ==
    /\ At(p, "mfa") /\ Configured
    /\ Goto(p, "wrong")
    /\ UNCHANGED <<user, rowLock, cuts, session, link, cred, oauth, throttle, answered, late, now>>

\* SessionIssuer.Issue
Issue(p) ==
    /\ At(p, "issue") /\ rowLock = NoRequest
    /\ session' = [session EXCEPT ![p] = [status |-> "live", born |-> cuts]]
    /\ IF proc[p].op = "login" THEN Goto(p, "clear") ELSE Finish(p)
    /\ UNCHANGED <<user, rowLock, cuts, link, cred, oauth, throttle, answered, late, now>>

\* clearThrottle, clearStepUpFailures
ClearThrottle(p) ==
    /\ At(p, "clear")
    /\ LET k == Row(p)
       IN  /\ throttle' = [throttle EXCEPT ![k] = NoRow]
           /\ answered' = [answered EXCEPT ![k] = 0]
           /\ late' = [late EXCEPT ![k] = 0]
    /\ Finish(p)
    /\ UNCHANGED <<user, rowLock, cuts, session, link, cred, oauth, now>>

\* SessionIssuer.Revoke
Logout(p) ==
    /\ session[p].status = "live"
    /\ session' = [session EXCEPT ![p].status = "revoked"]
    /\ UNCHANGED <<user, rowLock, cuts, link, cred, oauth, throttle, answered, late, proc, now>>

-----------------------------------------------------------------------------
(* Sign-in with an external provider                                       *)

StartOAuth ==
    /\ oauth.state = "none"
    /\ oauth' = [oauth EXCEPT !.state = "live"]
    /\ UNCHANGED <<user, rowLock, cuts, session, link, cred, throttle, answered, late, proc, now>>

\* Callback: the state is deleted as it is read.
TakeState(p) ==
    /\ oauth.state = "live"
    /\ session[p].status = "none"
    /\ Ready(p, <<"oauth", "identity">>)
    /\ oauth' = [oauth EXCEPT !.state = "used", !.uses = @ + 1]
    /\ UNCHANGED <<user, rowLock, cuts, session, link, cred, throttle, answered, late, now>>

\* createOAuthAccount, or the user of the identity or of the provider's address,
\* whose pending account it activates.
ResolveIdentity(p) ==
    /\ At(p, "identity")
    /\ oauth.linked \/ (rowLock = NoRequest /\ (user.status = "none" \/ user.email = "old"))
    /\ user' = IF ~ oauth.linked /\ user.status \in {"none", "pending"}
               THEN [user EXCEPT !.status = "active"] ELSE user
    /\ oauth' = [oauth EXCEPT !.linked = TRUE]
    /\ Goto(p, "issue")
    /\ UNCHANGED <<rowLock, cuts, session, link, cred, throttle, answered, late, now>>

-----------------------------------------------------------------------------
(* Changes of the account                                                  *)

NewCredentials(kind) == kind \notin {"enable", "confirm"}

\* What the transactions below have in common: SELECT ... FOR UPDATE, and a look
\* at the row.
LockRow(p, kind, l) ==
    /\ rowLock = NoRequest
    /\ NewCredentials(kind) => cuts < MaxChanges
    /\ proc' = [proc EXCEPT ![p] = [IdleRequest EXCEPT !.op = kind, !.pc = "revoke", !.link = l]]
    /\ rowLock' = p
    /\ UNCHANGED <<user, cuts, session, link, cred, oauth, throttle, answered, late, now>>

\* The profile handlers resolve the session before they begin.
AskChange(p, kind) ==
    /\ kind \in {"password", "email"} /\ Resolves(p)
    /\ Ready(p, <<kind, "lock">>)
    /\ UNCHANGED <<user, rowLock, cuts, session, link, cred, oauth, throttle, answered, late, now>>

\* The current password is right.
ChangePassword(p) ==
    /\ At(p, "lock") /\ proc[p].op = "password"
    /\ user.status = "active"
    /\ LockRow(p, "password", None)

ChangeEmail(p) ==
    /\ At(p, "lock") /\ proc[p].op = "email"
    /\ user.status = "active" /\ user.email = "old"
    /\ LockRow(p, "email", None)

\* Update: an administrator sets a new address.
Update(p) ==
    /\ At(p, "idle")
    /\ user.status # "none" /\ user.email = "old"
    /\ LockRow(p, "edit", None)

SetStatus(p, kind) ==
    /\ At(p, "idle") /\ kind \in {"disable", "enable"}
    /\ user.status \notin {"none", "pending"}
    /\ LockRow(p, kind, None)

\* Mutant: that the link is live is not looked at under the lock.
ConfirmAnyLink(p, l) ==
    /\ At(p, "idle")
    /\ link[l].kind = "reset" /\ user.status = "active"
    /\ LockRow(p, "reset", l)

\* Confirm of a reset link
Confirm(p, l) ==
    /\ At(p, "idle")
    /\ l \in Live("reset") /\ user.status = "active"
    /\ LockRow(p, "reset", l)

ConfirmEmail(p, l) ==
    /\ At(p, "idle")
    /\ l \in Live("verify") /\ user.status = "pending"
    /\ LockRow(p, "confirm", l)

\* The statements that end the sessions and links the transaction sees.
EndSessions(p) ==
    /\ At(p, "revoke")
    /\ LET kind == proc[p].op
       IN  /\ cuts' = IF NewCredentials(kind) THEN cuts + 1 ELSE cuts
           /\ proc' = [proc EXCEPT
                ![p].pc    = "commit",
                ![p].ends  = IF NewCredentials(kind) THEN LiveSessions ELSE {},
                ![p].voids = CASE kind = "confirm" -> Live("verify")
                               [] kind = "reset"   -> {proc[p].link}
                               [] kind = "edit" /\ user.status = "pending" -> Live("verify")
                               [] OTHER            -> {}]
    /\ UNCHANGED <<user, rowLock, session, link, cred, oauth, throttle, answered, late, now>>

Changed(kind) ==
    LET u == IF NewCredentials(kind) THEN [user EXCEPT !.since = cuts] ELSE user
    IN  CASE kind \in {"email", "edit"} -> [u EXCEPT !.email = "new"]
          [] kind = "disable"           -> [u EXCEPT !.status = "disabled"]
          [] kind \in {"enable", "confirm"} -> [u EXCEPT !.status = "active"]
          [] OTHER                      -> u

\* Mutant: the session that asks for the change is kept.
CommitForOthers(p) ==
    /\ At(p, "commit")
    /\ user' = Changed(proc[p].op)
    /\ session' = [q \in Procs |-> IF q \in proc[p].ends \ {p} THEN [session[q] EXCEPT !.status = "revoked"]
                                                               ELSE session[q]]
    /\ link' = LET old == Used(proc[p].voids)
               IN  IF proc[p].link = None THEN old ELSE [old EXCEPT ![proc[p].link].uses = @ + 1]
    /\ UNCHANGED <<throttle, answered, late>>
    /\ rowLock' = NoRequest
    /\ Finish(p)
    /\ UNCHANGED <<cuts, cred, oauth, now>>

\* A reset also lets the account sign in at once.
CommitChange(p) ==
    /\ At(p, "commit")
    /\ user' = Changed(proc[p].op)
    /\ session' = [q \in Procs |-> IF q \in proc[p].ends THEN [session[q] EXCEPT !.status = "revoked"]
                                                         ELSE session[q]]
    /\ link' = LET old == Used(proc[p].voids)
               IN  IF proc[p].link = None THEN old ELSE [old EXCEPT ![proc[p].link].uses = @ + 1]
    /\ IF proc[p].op = "reset"
         THEN /\ throttle' = [throttle EXCEPT !["login"] = NoRow]
              /\ answered' = [answered EXCEPT !["login"] = 0]
              /\ late' = [late EXCEPT !["login"] = 0]
         ELSE UNCHANGED <<throttle, answered, late>>
    /\ rowLock' = NoRequest
    /\ Finish(p)
    /\ UNCHANGED <<cuts, cred, oauth, now>>

-----------------------------------------------------------------------------
(* Registration, verification and reset links                              *)

\* Register commits the account; its verification link follows after that.
Register(p) ==
    /\ user.status = "none"
    /\ user' = [user EXCEPT !.status = IF VerifyMail THEN "pending" ELSE "active"]
    /\ IF VerifyMail THEN Ready(p, <<"verify", "void">>) ELSE UNCHANGED proc
    /\ UNCHANGED <<rowLock, cuts, session, link, cred, oauth, throttle, answered, late, now>>

\* RequestEmailVerification finds the pending user of an address.
AskVerification(p) ==
    /\ VerifyMail /\ user.status = "pending"
    /\ Ready(p, <<"verify", "void">>)
    /\ UNCHANGED <<user, rowLock, cuts, session, link, cred, oauth, throttle, answered, late, now>>

\* issueEmailVerificationToken: two statements, and the mail.  The first waits
\* for a transaction that has locked a link.
VoidLinks(p) ==
    /\ At(p, "void")
    /\ rowLock # NoRequest => (proc[rowLock].op # "confirm" /\ proc[rowLock].voids = {})
    /\ link' = Used(Live("verify"))
    /\ Goto(p, "mail")
    /\ UNCHANGED <<user, rowLock, cuts, session, cred, oauth, throttle, answered, late, now>>

\* The first link not yet used.
Fresh(l) == link[l] = NoLink

MailLink(p) ==
    /\ At(p, "mail") /\ rowLock = NoRequest
    /\ \E l \in Links :
          /\ Fresh(l)
          /\ link' = [link EXCEPT ![l] = [kind |-> proc[p].op, state |-> "live", uses |-> 0]]
    /\ Finish(p)
    /\ UNCHANGED <<user, rowLock, cuts, session, cred, oauth, throttle, answered, late, now>>

\* Allow: the row after a request, and whether it is admitted.
Counted(row) ==
    IF row.count = 0 \/ (now >= row.locked /\ row.first < now - Window)
    THEN [count |-> 1, first |-> now, locked |-> 0]
    ELSE IF now < row.locked           THEN row
    ELSE IF row.count >= MaxRequests   THEN [row EXCEPT !.locked = now + LockFor]
                                       ELSE [row EXCEPT !.count = @ + 1]

Admitted(row) == LET new == Counted(row) IN new # row /\ new.locked = 0

\* Request of a reset link: throttled, and only for an active user.
AskReset(p) ==
    /\ proc[p].pc = "idle"
    /\ LET row == throttle["reset"]
       IN  /\ throttle' = [throttle EXCEPT !["reset"] = Counted(row)]
           /\ answered' = [answered EXCEPT !["reset"] =
                              IF ~ Admitted(row) THEN @ ELSE IF Counted(row).count = 1 THEN 1 ELSE @ + 1]
           /\ proc' = IF Admitted(row) /\ user.status = "active"
                        THEN [proc EXCEPT ![p] = [IdleRequest EXCEPT !.op = "reset", !.pc = "mail"]]
                        ELSE proc
    /\ UNCHANGED <<user, rowLock, cuts, session, link, cred, oauth, late, now>>

-----------------------------------------------------------------------------
(* Authenticators                                                          *)

\* Begin: nothing is active; what is pending is revoked; a new one is inserted.
BeginEnrollment(p) ==
    /\ Active = {} /\ Resolves(p)
    /\ Ready(p, <<"enroll", "revokePending">>)
    /\ UNCHANGED <<user, rowLock, cuts, session, link, cred, oauth, throttle, answered, late, now>>

RevokePending(p) ==
    /\ At(p, "revokePending")
    /\ cred' = [c \in Creds |-> IF cred[c] = "pending" THEN "revoked" ELSE cred[c]]
    /\ Goto(p, "insert")
    /\ UNCHANGED <<user, rowLock, cuts, session, link, oauth, throttle, answered, late, now>>

InsertPending(p) ==
    /\ At(p, "insert") /\ rowLock = NoRequest
    /\ \E c \in Creds : cred[c] = "none" /\ cred' = [cred EXCEPT ![c] = "pending"]
    /\ Finish(p)
    /\ UNCHANGED <<user, rowLock, cuts, session, link, oauth, throttle, answered, late, now>>

\* Confirm, Disable and Verify look at the throttle, read their row and check
\* the code.
CheckCode(p, op, c) ==
    /\ Resolves(p) /\ ~ Throttled("code")
    /\ At(p, "idle")
    /\ \E pc \in {"credential", "wrong"} :
          proc' = [proc EXCEPT ![p] = [IdleRequest EXCEPT !.op = op, !.pc = pc, !.cred = c]]
    /\ UNCHANGED <<user, rowLock, cuts, session, link, cred, oauth, throttle, answered, late, now>>

ConfirmEnrollment(p, c) == cred[c] = "pending" /\ CheckCode(p, "activate", c)
Disable(p, c)           == c \in Active /\ CheckCode(p, "deactivate", c)
VerifyStepUp(p, c)      == c \in Active /\ CheckCode(p, "stepUp", c)

\* Their updates are conditional, and one row of a user can be active; the step
\* up only notes that the code was used.
SetCredential(p) ==
    /\ At(p, "credential")
    /\ LET c  == proc[p].cred
           op == proc[p].op
       IN  \/ /\ op = "activate" /\ cred[c] = "pending" /\ Active = {}
              /\ cred' = [cred EXCEPT ![c] = "active"] /\ Goto(p, "clear")
           \/ /\ op = "deactivate" /\ cred[c] = "active"
              /\ cred' = [cred EXCEPT ![c] = "revoked"] /\ Goto(p, "clear")
           \/ /\ op = "stepUp" /\ cred' = cred /\ Goto(p, "clear")
           \/ /\ op = "activate" => cred[c] # "pending" \/ Active # {}
              /\ op = "deactivate" => cred[c] # "active"
              /\ op # "stepUp"
              /\ cred' = cred /\ Finish(p)
    /\ UNCHANGED <<user, rowLock, cuts, session, link, oauth, throttle, answered, late, now>>

-----------------------------------------------------------------------------
\* Mutant: a transaction that fails keeps its lock.
AbortLocked(p) ==
    /\ proc[p].pc # "idle"
    /\ Finish(p)
    /\ UNCHANGED <<user, rowLock, cuts, session, link, cred, oauth, throttle, answered, late, now>>

\* A request fails, is given up by its client, or its server stops.
Abort(p) ==
    /\ proc[p].pc # "idle"
    /\ rowLock' = IF rowLock = p THEN NoRequest ELSE rowLock
    /\ Finish(p)
    /\ UNCHANGED <<user, cuts, session, link, cred, oauth, throttle, answered, late, now>>

Tick ==
    /\ now < MaxTime
    /\ now' = now + 1
    /\ UNCHANGED <<user, rowLock, cuts, session, link, cred, oauth, throttle, answered, late, proc>>

SignIn(p) ==
    \/ AskLogin(p) \/ PasswordRight(p) \/ PasswordWrong(p) \/ RecordFailure(p)
    \/ PassMFA(p) \/ WrongCode(p) \/ Issue(p) \/ ClearThrottle(p) \/ Logout(p)

SignInOAuth(p) == TakeState(p) \/ ResolveIdentity(p)

Profile(p) ==
    \/ \E kind \in {"password", "email"} : AskChange(p, kind)
    \/ ChangePassword(p) \/ ChangeEmail(p)

Administration(p) == Update(p) \/ \E kind \in {"disable", "enable"} : SetStatus(p, kind)

Reset(p)        == AskReset(p) \/ \E l \in Links : Confirm(p, l)
Verification(p) == Register(p) \/ AskVerification(p) \/ VoidLinks(p) \/ MailLink(p)
                     \/ \E l \in Links : ConfirmEmail(p, l)

Enroll(p) ==
    \/ BeginEnrollment(p) \/ RevokePending(p) \/ InsertPending(p) \/ SetCredential(p)
    \/ \E c \in Creds : ConfirmEnrollment(p, c) \/ Disable(p, c) \/ VerifyStepUp(p, c)

AccountNext ==
    \/ \E p \in Procs :
          \/ SignIn(p) \/ SignInOAuth(p) \/ Profile(p) \/ Administration(p) \/ Reset(p)
          \/ Verification(p) \/ Enroll(p) \/ EndSessions(p) \/ CommitChange(p) \/ Abort(p)
    \/ StartOAuth \/ Tick

AccountSpec == AccountInit /\ [][AccountNext]_accountVars

-----------------------------------------------------------------------------
\* Types; the row is locked by a transaction that has not ended; and a process
\* knows the authenticator or link it works on.
AccountTypeOK ==
    /\ user \in [status : {"none", "pending", "active", "disabled"}, email : {"old", "new"},
                 since : 0 .. MaxChanges]
    /\ rowLock \in Procs \cup {NoRequest}
    /\ \A p \in Procs : proc[p].pc \in {"revoke", "commit"} <=> rowLock = p
    /\ \A p \in Procs : session[p].status \in {"none", "live", "revoked"}
    /\ \A l \in Links : link[l].state \in {"none", "live", "used"}
    /\ \A c \in Creds : cred[c] \in {"none", "pending", "active", "revoked"}
    /\ Cardinality(Active) <= 1
    /\ \A p \in Procs : proc[p].pc = "credential" => cred[proc[p].cred] # "none"

\* A change of the password, the address or the status ends every session that
\* was there when the change was made.  A session that lives is newer than the
\* revocation of every change, although logins judge the password, and insert
\* the session, without a look at the changes between the two.
SurvivorsAreNewer ==
    \A p \in Procs : session[p].status = "live" => user.since <= session[p].born

\* However many guesses of a password or code run at the same time, once
\* MaxFailures were answered no more is begun, and only those that had passed
\* the throttle before are still answered; reset requests are admitted
\* MaxRequests times a window.  The first failure of a window never locks, so
\* that MaxFailures = 1 allows as many guesses as 2.
GuessesAreBounded ==
    /\ \A k \in {"login", "code"} :
          /\ throttle[k].locked = 0 => answered[k] < MaxFailures \/ answered[k] = 1
          /\ late[k] < Cardinality(Procs)
    /\ answered["reset"] <= MaxRequests

\* What works once works once: a reset or verification link and an OAuth state
\* that are presented twice at the same time, a verification link that a newer
\* one replaces, and an enrollment that is begun again while it is confirmed.
OneTimeSecretsWorkOnce ==
    /\ [](oauth.uses <= 1 /\ \A l \in Links : link[l].uses <= 1)
    /\ [][\A l \in Links : link[l].state = "used" => link'[l] = link[l]]_accountVars
    /\ [][\A c \in Creds : cred[c] = "revoked" => cred'[c] = "revoked"]_accountVars
=============================================================================
