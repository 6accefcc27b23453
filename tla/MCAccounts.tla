----------------------------- MODULE MCAccounts -----------------------------
(***************************************************************************)
(* Small instances of Accounts and PlatformAdmins for TLC.  A behaviour uses *)
(* the operations of one slice, fixed in its initial state: those that meet  *)
(* in the same rows.  In the slice administrators, two of them change each   *)
(* other's bindings, roles and status; in the others, requests meet in one   *)
(* account.                                                                 *)
(***************************************************************************)
EXTENDS Accounts, PlatformAdmins

CONSTANT Third   \* a request: the sessions at the start are all like its own

VARIABLE slice

Slices ==
    [sessions |-> {"login", "oauth", "password", "disable", "enable"},
     guesses  |-> {"login"},
     requests |-> {"reset"},
     codes    |-> {"stepUp"},
     links    |-> {"verify", "confirm", "edit", "oauth"},
     resets   |-> {"reset", "email"},
     enroll   |-> {"enroll", "activate", "deactivate", "login"}]

AdminSlices == {"administrators"}

\* The other component rests.
Resting ==
    /\ user.status = "active" /\ Active = {}
    /\ \A p \in Procs : session[p].status = "none"
AdminsResting ==
    /\ status = [u \in Users |-> "active"]
    /\ roleStatus = [r \in Roles |-> "active"]
    /\ bound = Users \X {Owner}

MCInit ==
    /\ AccountInit /\ Init
    /\ \/ slice \in AdminSlices /\ Resting
       \/ slice \in DOMAIN Slices /\ AdminsResting
    /\ slice # "links" => user.status = "active"
    /\ slice \notin {"guesses", "codes", "enroll"} => Active = {}
    /\ \A p \in Procs : session[p].status = session[Third].status
    /\ slice \in {"guesses", "links"} => session[Third].status = "none"
    /\ slice \in {"codes", "enroll"} => session[Third].status = "live"

\* Only guesses and requests need the clock and wrong answers; the links are
\* those of the slices links and resets.
InSlice ==
    /\ \A p \in Procs : proc'[p].op \in Slices[slice] \cup {None}
    /\ slice \notin {"guesses", "codes", "requests"} =>
          (now' = 0 /\ \A p \in Procs : proc'[p].pc # "wrong")
    /\ slice \notin {"guesses", "codes", "requests", "resets"} => throttle' = throttle
    /\ slice \notin {"links", "resets"} => link' = link
    /\ slice \in {"codes", "requests", "links", "enroll"} => session' = session
    /\ slice = "guesses" => \A p \in Procs : session'[p].status # "revoked"

MCNext ==
    /\ UNCHANGED slice
    /\ \/ slice \in DOMAIN Slices /\ AccountNext /\ InSlice /\ UNCHANGED vars
       \/ slice \in AdminSlices /\ Next /\ UNCHANGED accountVars

MCSpec == MCInit /\ [][MCNext]_<<accountVars, vars, slice>>
=============================================================================
