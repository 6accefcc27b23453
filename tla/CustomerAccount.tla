-------------------------- MODULE CustomerAccount --------------------------
(***************************************************************************)
(* What the billing core promises a customer, without reservations, ledger *)
(* rows or reaper: the tenant's funds are what was posted to the account   *)
(* less what was charged; a request is opened once and then closed once,   *)
(* by one charge or by none; nothing else moves money.                     *)
(***************************************************************************)
EXTENDS Integers

CONSTANTS
    Tenants,
    Requests,
    Owner,      \* the tenant a request is charged to
    Charges,    \* amounts a request may be charged
    Postings    \* signed amounts an operator may post

VARIABLES
    funds,      \* posted less charged, whether available or held
    outcome     \* what became of each request

accountVars == <<funds, outcome>>

Outcomes == {"absent", "open", "charged", "free"}

Init ==
    /\ funds = [t \in Tenants |-> 0]
    /\ outcome = [r \in Requests |-> "absent"]

PostTo(t) ==
    /\ \E a \in Postings : funds' = [funds EXCEPT ![t] = @ + a]
    /\ UNCHANGED outcome

OpenRequest(r) ==
    /\ outcome[r] = "absent"
    /\ outcome' = [outcome EXCEPT ![r] = "open"]
    /\ UNCHANGED funds

ChargeRequest(r) ==
    /\ outcome[r] = "open"
    /\ outcome' = [outcome EXCEPT ![r] = "charged"]
    /\ \E a \in Charges : funds' = [funds EXCEPT ![Owner[r]] = @ - a]

CloseFree(r) ==
    /\ outcome[r] = "open"
    /\ outcome' = [outcome EXCEPT ![r] = "free"]
    /\ UNCHANGED funds

Next ==
    \/ \E t \in Tenants : PostTo(t)
    \/ \E r \in Requests : OpenRequest(r) \/ ChargeRequest(r) \/ CloseFree(r)

Spec == Init /\ [][Next]_accountVars
=============================================================================
