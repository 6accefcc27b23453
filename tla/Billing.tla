------------------------------ MODULE Billing ------------------------------
(***************************************************************************)
(* The prepaid billing core: internal/billing/service.go.                  *)
(*                                                                         *)
(* Every operation of SQLService is one PostgreSQL transaction that locks  *)
(* the rows it decides on, so each is one atomic action here.  The two     *)
(* operations that are not one transaction, the sweep of expired           *)
(* reservations and the operator's reconciliation, keep the steps the code *)
(* has.  Callers (relay handlers, the reaper, operators, payments) are not *)
(* constrained: any caller may call any operation on any request at any    *)
(* time, which is what retries and races between goroutines amount to.     *)
(*                                                                         *)
(* Abstractions: a request is named by its idempotency key; the price of   *)
(* a usage is the constant table Charge (the metering arithmetic and the   *)
(* group multiplier); the clock is reduced to the set of reservations whose*)
(* expires_at has passed; one currency; amounts are integers.              *)
(***************************************************************************)
EXTENDS Integers, FiniteSets, Sums

CONSTANTS
    Tenants,        \* tenants, each with one prepaid account
    Tokens,         \* API tokens
    Channels,       \* upstream channels, all active and mapped to the model
    Models,         \* provider-specific model rows that share one name
    NumRequests,    \* requests (idempotency keys) are 1 .. NumRequests
    NumCredits,     \* top-up idempotency keys are 1 .. NumCredits
    MaxUsage,       \* usage quantities are 0 .. MaxUsage
    CreditAmounts,  \* amounts an operator or a payment may post
    BatchLimit,     \* LIMIT of the reaper's query
    TokenOf,        \* the token that issues a request
    TenantOf,       \* the tenant a token belongs to
    SpendLimit,     \* api_tokens.spend_limit, 0 = unlimited
    ModelOf,        \* the model row a channel is mapped to
    Charge,         \* Charge[m][u]: customer price of usage u on model m
    Prepared,       \* Prepared[m][u]: estimate u without the meters m has no price for
    ZeroUsageModels,\* models whose price allows a zero usage to settle
    NoUsage, NoTenant, NoModel, NoChannel

Requests   == 1 .. NumRequests
CreditKeys == 1 .. NumCredits
Usages     == 0 .. MaxUsage

\* The sizes are naturals; the bounds of the model, not of the program.
ASSUME SizesAssumption ==
    /\ NumRequests \in Nat /\ NumCredits \in Nat
    /\ MaxUsage \in Nat    /\ BatchLimit \in Nat \ {0}

\* A charge is never negative: every price component is a non-negative
\* decimal; a top-up is a positive decimal.
ASSUME AmountsAssumption ==
    /\ Charge \in [Models -> [Usages -> Nat]]
    /\ Prepared \in [Models -> [Usages -> Usages]]
    /\ SpendLimit \in [Tokens -> Nat]
    /\ CreditAmounts \subseteq Nat \ {0}

\* Ownership and mapping are fixed while requests are in flight.
ASSUME OwnershipAssumption ==
    /\ TokenOf \in [Requests -> Tokens]
    /\ TenantOf \in [Tokens -> Tenants]
    /\ ModelOf \in [Channels -> Models]
    /\ ZeroUsageModels \subseteq Models

ASSUME SentinelsAssumption ==
    /\ NoTenant \notin Tenants
    /\ NoModel \notin Models
    /\ NoChannel \notin Channels
    /\ NoUsage \notin Usages

VARIABLES
    balance,      \* ledger_accounts.balance of each tenant's prepaid account
    revenue,      \* balance of the system:revenue account
    topup,        \* balance of the system:topup account
    creditTx,     \* ledger transaction posted under each top-up key
    chargeTx,     \* amount posted under billing:charge:<request>, 0 = none
    spent,        \* api_tokens.spent_amount
    activeTokens, \* tokens with status active, not deleted, not expired
    request,      \* model_requests, by idempotency key
    reservation,  \* billing_reservations, one per paid request
    lapsed,       \* reservations whose expires_at <= now()
    batch         \* ids the running ExpireReservations has yet to release

vars == <<balance, revenue, topup, creditTx, chargeTx, spent, activeTokens,
          request, reservation, lapsed, batch>>

ledgerVars == <<creditTx, chargeTx, revenue, topup>>

RequestStatus     == {"none", "started", "settlement_pending", "settled", "failed"}
ReservationStatus == {"none", "held", "pending", "settled", "released", "expired"}

Open   == {"held", "pending"}
Closed == {"settled", "released", "expired"}

NoRequest == [status |-> "none", channel |-> NoChannel, model |-> NoModel,
              usage |-> NoUsage, settled |-> 0]
NoReservation == [status |-> "none", reserved |-> 0, settled |-> 0,
                  released |-> 0, estimate |-> 0]
NoCredit == [tenant |-> NoTenant, amount |-> 0]

TenantOfRequest(r) == TenantOf[TokenOf[r]]

\* Mutant: GREATEST forgotten.
NotClamped(a, b) == a

\* GREATEST(a, b)
Larger(a, b) == IF a >= b THEN a ELSE b

\* What the spend-limit query adds up: held and pending amounts of a token.
OpenReserved(k) ==
    Total([r \in Requests |-> IF TokenOf[r] = k /\ reservation[r].status \in Open
                              THEN reservation[r].reserved ELSE 0], NumRequests)

\* Mutant: the sum of open holds is left out.
SpentWithinLimit(k, amount) ==
    SpendLimit[k] # 0 => spent[k] + amount <= SpendLimit[k]

\* checkTokenSpendLimit
WithinSpendLimit(k, amount) ==
    SpendLimit[k] # 0 => spent[k] + OpenReserved(k) + amount <= SpendLimit[k]

\* priceAllowsZeroUsage at the price the request is bound to
CanSettleWithoutUsage(r) == request[r].model \in ZeroUsageModels

-----------------------------------------------------------------------------
Init ==
    /\ balance = [t \in Tenants |-> 0]
    /\ revenue = 0
    /\ topup = 0
    /\ creditTx = [k \in CreditKeys |-> NoCredit]
    /\ chargeTx = [r \in Requests |-> 0]
    /\ spent = [k \in Tokens |-> 0]
    /\ activeTokens = Tokens
    /\ request = [r \in Requests |-> NoRequest]
    /\ reservation = [r \in Requests |-> NoReservation]
    /\ lapsed = {}
    /\ batch = {}

-----------------------------------------------------------------------------
(* Accounts: operators and payment callbacks.                              *)

\* Post amount a to tenant t under idempotency key k.  A key that was used
\* before, for any tenant, is ErrDuplicateTransaction.
Post(t, k, accountDelta, a) ==
    /\ creditTx[k] = NoCredit
    /\ balance' = [balance EXCEPT ![t] = @ + accountDelta]
    /\ creditTx' = [creditTx EXCEPT ![k] = [tenant |-> t, amount |-> accountDelta]]
    /\ topup' = topup + a
    /\ UNCHANGED <<revenue, chargeTx, spent, activeTokens, request,
                   reservation, lapsed, batch>>

\* The ledger lines change sides for a debit, the system account's cached
\* balance is increased by the amount in both directions.
Credit(t, k, a) == Post(t, k, a, a)
Debit(t, k, a)  == Post(t, k, -a, a)

\* A token is paused, disabled, revoked, deleted or reaches its expiry.
DeactivateToken(k) ==
    /\ k \in activeTokens
    /\ activeTokens' = activeTokens \ {k}
    /\ UNCHANGED <<balance, ledgerVars, spent, request, reservation, lapsed, batch>>

\* The owner enables a disabled token again.
ReactivateToken(k) ==
    /\ k \notin activeTokens
    /\ activeTokens' = activeTokens \cup {k}
    /\ UNCHANGED <<balance, ledgerVars, spent, request, reservation, lapsed, batch>>

-----------------------------------------------------------------------------
(* Paid requests.                                                          *)

\* The rows Reserve writes: the hold is taken from the balance, the request
\* row and the reservation are inserted.
Hold(r, c, e, amount) ==
    /\ balance' = [balance EXCEPT ![TenantOfRequest(r)] = @ - amount]
    /\ request' = [request EXCEPT ![r] =
                     [status |-> "started", channel |-> c, model |-> ModelOf[c],
                      usage |-> NoUsage, settled |-> 0]]
    /\ reservation' = [reservation EXCEPT ![r] =
                         [status |-> "held", reserved |-> amount, settled |-> 0,
                          released |-> 0, estimate |-> e]]
    /\ UNCHANGED <<ledgerVars, spent, activeTokens, lapsed, batch>>

\* Mutant: the balance is not compared with the hold.
ReserveOnCredit(r, c, e) ==
    LET k      == TokenOf[r]
        kept   == Prepared[ModelOf[c]][e]
        amount == Charge[ModelOf[c]][kept]
    IN  /\ request[r].status = "none"
        /\ k \in activeTokens
        /\ WithinSpendLimit(k, amount)
        /\ Hold(r, c, kept, amount)

\* A key that was used before is ErrDuplicateRequest; meters without a price are
\* dropped from the estimate; the token row is locked while the spend limit is
\* judged; the balance is compared and reduced in one UPDATE.
Reserve(r, c, e) ==
    LET k      == TokenOf[r]
        kept   == Prepared[ModelOf[c]][e]
        amount == Charge[ModelOf[c]][kept]
    IN  /\ request[r].status = "none"
        /\ k \in activeTokens
        /\ WithinSpendLimit(k, amount)
        /\ balance[TenantOf[k]] >= amount
        /\ Hold(r, c, kept, amount)

\* Failover to a channel that serves the model row already priced: only the
\* channel changes.
RebindSameModel(r, c) ==
    /\ request[r].model = ModelOf[c]
    /\ request' = [request EXCEPT ![r].channel = c]
    /\ UNCHANGED <<balance, reservation>>

\* Mutant: the request keeps the price of the first channel.
RebindKeepsPrice(r, c, e) ==
    LET amount == Charge[ModelOf[c]][e]
        t      == TenantOfRequest(r)
    IN  /\ request[r].model # ModelOf[c]
        /\ balance[t] + reservation[r].reserved >= amount
        /\ balance' = [balance EXCEPT ![t] = @ + reservation[r].reserved - amount]
        /\ reservation' = [reservation EXCEPT ![r].reserved = amount, ![r].estimate = e]
        /\ request' = [request EXCEPT ![r].channel = c]

\* Mutant: the estimate keeps the meters that the other model has no price for.
RebindKeepsMeters(r, c, e) ==
    LET amount == Charge[ModelOf[c]][e]
        t      == TenantOfRequest(r)
    IN  /\ request[r].model # ModelOf[c]
        /\ balance[t] + reservation[r].reserved >= amount
        /\ balance' = [balance EXCEPT ![t] = @ + reservation[r].reserved - amount]
        /\ reservation' = [reservation EXCEPT ![r].reserved = amount]
        /\ request' = [request EXCEPT ![r].channel = c, ![r].model = ModelOf[c]]

\* Failover to another provider's model row: the hold is re-priced for what is left
\* of the estimate, e, and the account pays or gets back the difference.  The
\* token's spend limit is not looked at.
RebindOtherModel(r, c, e) ==
    LET amount == Charge[ModelOf[c]][e]
        t      == TenantOfRequest(r)
    IN  /\ request[r].model # ModelOf[c]
        /\ balance[t] + reservation[r].reserved >= amount
        /\ balance' = [balance EXCEPT ![t] = @ + reservation[r].reserved - amount]
        /\ reservation' = [reservation EXCEPT ![r].reserved = amount, ![r].estimate = e]
        /\ request' = [request EXCEPT ![r].channel = c, ![r].model = ModelOf[c]]

RebindReservationChannel(r, c) ==
    /\ reservation[r].status \in Open
    /\ \/ RebindSameModel(r, c)
       \/ RebindOtherModel(r, c, Prepared[ModelOf[c]][reservation[r].estimate])
    /\ UNCHANGED <<ledgerVars, spent, activeTokens, lapsed, batch>>

\* Mutant: an overrun of the hold is not charged to the balance.
ChargeUpToHold(r, u, actual) ==
    LET hold == reservation[r].reserved
    IN  /\ spent' = [spent EXCEPT ![TokenOf[r]] = @ + actual]
        /\ balance' = [balance EXCEPT ![TenantOfRequest(r)] = @ + Larger(hold - actual, 0)]
        /\ chargeTx' = [chargeTx EXCEPT ![r] = @ + actual]
        /\ revenue' = revenue + actual
        /\ reservation' = [reservation EXCEPT ![r].status = "settled",
                                              ![r].settled = actual,
                                              ![r].released = Larger(hold - actual, 0)]
        /\ request' = [request EXCEPT ![r].status = "settled", ![r].usage = u,
                                      ![r].settled = actual]

\* Mutant: the token is charged what was held for it.
SpendTheHold(r, u, actual) ==
    LET hold == reservation[r].reserved
    IN  /\ spent' = [spent EXCEPT ![TokenOf[r]] = @ + hold]
        /\ balance' = [balance EXCEPT ![TenantOfRequest(r)] = @ + hold - actual]
        /\ chargeTx' = [chargeTx EXCEPT ![r] = @ + actual]
        /\ revenue' = revenue + actual
        /\ reservation' = [reservation EXCEPT ![r].status = "settled",
                                              ![r].settled = actual,
                                              ![r].released = Larger(hold - actual, 0)]
        /\ request' = [request EXCEPT ![r].status = "settled", ![r].usage = u,
                                      ![r].settled = actual]

\* The rows Settle writes.  The whole amount is charged even when it exceeds
\* the hold; a zero amount posts no ledger transaction.
ChargeAndClose(r, u, actual) ==
    LET hold == reservation[r].reserved
    IN  /\ spent' = [spent EXCEPT ![TokenOf[r]] = @ + actual]
        /\ balance' = [balance EXCEPT ![TenantOfRequest(r)] = @ + hold - actual]
        /\ chargeTx' = [chargeTx EXCEPT ![r] = @ + actual]
        /\ revenue' = revenue + actual
        /\ reservation' = [reservation EXCEPT ![r].status = "settled",
                                              ![r].settled = actual,
                                              ![r].released = Larger(hold - actual, 0)]
        /\ request' = [request EXCEPT ![r].status = "settled", ![r].usage = u,
                                      ![r].settled = actual]

\* Mutant: only a settled reservation is refused.
SettleReleasedToo(r, u) ==
    LET actual == Charge[request[r].model][u]
    IN  /\ reservation[r].status \notin {"none", "settled"}
        /\ u > 0 \/ CanSettleWithoutUsage(r)
        /\ actual # 0 => chargeTx[r] = 0
        /\ ChargeAndClose(r, u, actual)
        /\ UNCHANGED <<creditTx, topup, activeTokens, lapsed, batch>>

\* Charge the actual usage u at the price the request is bound to.  The key
\* billing:charge:<request> must be unused when there is an amount to post.
Settle(r, u) ==
    LET actual == Charge[request[r].model][u]
    IN  /\ reservation[r].status \in Open
        /\ u > 0 \/ CanSettleWithoutUsage(r)
        /\ actual # 0 => chargeTx[r] = 0
        /\ ChargeAndClose(r, u, actual)
        /\ UNCHANGED <<creditTx, topup, activeTokens, lapsed, batch>>

\* The operator's entry point settles pending requests only.  The status is
\* read before the settling transaction; a pending reservation can only
\* become settled meanwhile, and settling it again changes nothing.
SettleByModelRequestID(r, u) ==
    /\ reservation[r].status = "pending"
    /\ Settle(r, u)

\* Keep the hold for reconciliation, with the usage the provider reported
\* (u) or without one (NoUsage: what was recorded before is kept).
MarkSettlementPending(r, u) ==
    /\ reservation[r].status \in Open
    /\ reservation' = [reservation EXCEPT ![r].status = "pending"]
    /\ request' = [request EXCEPT ![r].status = "settlement_pending",
                                  ![r].usage = IF u = NoUsage THEN @ ELSE u]
    /\ UNCHANGED <<balance, ledgerVars, spent, activeTokens, lapsed, batch>>

\* The rows a release writes: the whole hold goes back.
GiveBack(r, target) ==
    /\ balance' = [balance EXCEPT ![TenantOfRequest(r)] = @ + reservation[r].reserved]
    /\ reservation' = [reservation EXCEPT ![r].status = target,
                                          ![r].released = reservation[r].reserved]
    /\ request' = [request EXCEPT ![r].status = "failed"]
    /\ UNCHANGED <<ledgerVars, spent, activeTokens, lapsed>>

\* Mutant: a pending reservation is released like a held one.
ReleaseOpen(r, target) ==
    /\ reservation[r].status \in Open
    /\ GiveBack(r, target)

\* Mutant: the status is not looked at again under the row lock.
ReleaseUnchecked(r, target) ==
    /\ reservation[r].status \notin {"none", "settled"}
    /\ GiveBack(r, target)

\* Mutant: the request row is left started.
ReleaseReservationOnly(r, target) ==
    /\ reservation[r].status = "held"
    /\ balance' = [balance EXCEPT ![TenantOfRequest(r)] = @ + reservation[r].reserved]
    /\ reservation' = [reservation EXCEPT ![r].status = target,
                                          ![r].released = reservation[r].reserved]
    /\ UNCHANGED <<request, ledgerVars, spent, activeTokens, lapsed>>

\* releaseReservation: closed reservations are left alone, pending ones are
\* ErrReservationClosed.
Release(r, target) ==
    /\ reservation[r].status = "held"
    /\ GiveBack(r, target)

Fail(r) ==
    /\ Release(r, "released")
    /\ UNCHANGED batch

ExtendReservation(r) ==
    /\ reservation[r].status \in Open
    /\ lapsed' = lapsed \ {r}
    /\ UNCHANGED <<balance, ledgerVars, spent, activeTokens, request,
                   reservation, batch>>

-----------------------------------------------------------------------------
(* The reaper: RunReaper calls ExpireReservations every minute.            *)

\* Time passes the expires_at of a hold.
Lapse(r) ==
    /\ reservation[r].status = "held"
    /\ r \notin lapsed
    /\ lapsed' = lapsed \cup {r}
    /\ UNCHANGED <<balance, ledgerVars, spent, activeTokens, request,
                   reservation, batch>>

\* Mutant: the query asks for the wrong status.
OverduePending == {r \in lapsed : reservation[r].status = "pending"}

\* WHERE status = 'held' AND expires_at <= now()
Overdue == {r \in lapsed : reservation[r].status = "held"}

\* The query of ExpireReservations: as many overdue holds as the limit allows.
ReaperScan(ids) ==
    /\ batch = {}
    /\ ids # {}
    /\ ids \subseteq Overdue
    /\ ids = Overdue \/ Cardinality(ids) = BatchLimit
    /\ Cardinality(ids) <= BatchLimit
    /\ batch' = ids
    /\ UNCHANGED <<balance, ledgerVars, spent, activeTokens, request,
                   reservation, lapsed>>

\* One iteration of its loop: the release looks at the status again, not at
\* the deadline.
ReaperExpire(r) ==
    /\ r \in batch
    /\ batch' = batch \ {r}
    /\ Release(r, "expired")

\* The hold was closed or became pending since the query: nothing to do.
ReaperSkip(r) ==
    /\ r \in batch
    /\ reservation[r].status # "held"
    /\ batch' = batch \ {r}
    /\ UNCHANGED <<balance, ledgerVars, spent, activeTokens, request,
                   reservation, lapsed>>

\* Any other error ends the sweep, and so does a crash of the server.
ReaperAbort ==
    /\ batch # {}
    /\ batch' = {}
    /\ UNCHANGED <<balance, ledgerVars, spent, activeTokens, request,
                   reservation, lapsed>>

-----------------------------------------------------------------------------
(* Requests of a free group: a request row without a reservation.          *)

StartFreeRequest(r, c) ==
    /\ request[r].status = "none"
    /\ request' = [request EXCEPT ![r] =
                     [status |-> "started", channel |-> c, model |-> ModelOf[c],
                      usage |-> NoUsage, settled |-> 0]]
    /\ UNCHANGED <<balance, ledgerVars, spent, activeTokens, reservation,
                   lapsed, batch>>

\* Callers pass the request row of a free request only.
FreeStarted(r) ==
    /\ request[r].status = "started"
    /\ reservation[r].status = "none"

RebindRequestChannel(r, c) ==
    /\ FreeStarted(r)
    /\ request' = [request EXCEPT ![r].channel = c, ![r].model = ModelOf[c]]
    /\ UNCHANGED <<balance, ledgerVars, spent, activeTokens, reservation,
                   lapsed, batch>>

CompleteFreeRequest(r, u) ==
    /\ FreeStarted(r)
    /\ request' = [request EXCEPT ![r].status = "settled", ![r].usage = u]
    /\ UNCHANGED <<balance, ledgerVars, spent, activeTokens, reservation,
                   lapsed, batch>>

FailFreeRequest(r) ==
    /\ FreeStarted(r)
    /\ request' = [request EXCEPT ![r].status = "failed"]
    /\ UNCHANGED <<balance, ledgerVars, spent, activeTokens, reservation,
                   lapsed, batch>>

-----------------------------------------------------------------------------
AccountStep ==
    \/ \E t \in Tenants, k \in CreditKeys, a \in CreditAmounts :
          Credit(t, k, a) \/ Debit(t, k, a)
    \/ \E k \in Tokens : DeactivateToken(k) \/ ReactivateToken(k)

PaidStep(r) ==
    \/ \E c \in Channels, e \in Usages : Reserve(r, c, e)
    \/ \E c \in Channels : RebindReservationChannel(r, c)
    \/ \E u \in Usages : Settle(r, u)
    \/ \E u \in Usages : SettleByModelRequestID(r, u)
    \/ \E u \in (Usages \ {0}) \cup {NoUsage} : MarkSettlementPending(r, u)
    \/ Fail(r)
    \/ ExtendReservation(r)

FreeStep(r) ==
    \/ \E c \in Channels : StartFreeRequest(r, c)
    \/ \E c \in Channels : RebindRequestChannel(r, c)
    \/ \E u \in Usages : CompleteFreeRequest(r, u)
    \/ FailFreeRequest(r)

ReaperStep ==
    \/ \E ids \in SUBSET Requests : ReaperScan(ids)
    \/ \E r \in Requests : ReaperExpire(r) \/ ReaperSkip(r)
    \/ ReaperAbort

Next ==
    \/ AccountStep
    \/ \E r \in Requests : PaidStep(r) \/ FreeStep(r) \/ Lapse(r)
    \/ ReaperStep

Spec == Init /\ [][Next]_vars

\* The reaper's ticker fires every minute for as long as the server runs, and
\* a release that is retried on every tick does not fail for ever.
Fairness ==
    /\ WF_vars(\E ids \in SUBSET Requests : ReaperScan(ids))
    /\ \A r \in Requests : SF_vars(ReaperExpire(r)) /\ WF_vars(ReaperSkip(r))

FairSpec == Spec /\ Fairness

-----------------------------------------------------------------------------
(* Invariants                                                              *)

TypeOK ==
    /\ balance \in [Tenants -> Int]
    /\ revenue \in Nat
    /\ topup \in Nat
    /\ creditTx \in [CreditKeys -> [tenant : Tenants \cup {NoTenant}, amount : Int]]
    /\ chargeTx \in [Requests -> Nat]
    /\ spent \in [Tokens -> Nat]
    /\ activeTokens \subseteq Tokens
    /\ request \in [Requests -> [status : RequestStatus,
                                channel : Channels \cup {NoChannel},
                                model : Models \cup {NoModel},
                                usage : Usages \cup {NoUsage},
                                settled : Nat]]
    /\ reservation \in [Requests -> [status : ReservationStatus, reserved : Nat,
                                    settled : Nat, released : Nat,
                                    estimate : Usages]]
    /\ lapsed \subseteq Requests
    /\ batch \subseteq Requests

\* Money of tenant t that is held for open requests.
Held(t) ==
    Total([r \in Requests |-> IF /\ TenantOfRequest(r) = t
                                /\ reservation[r].status \in Open
                             THEN reservation[r].reserved ELSE 0], NumRequests)

\* The tenant's ledger: what was posted to the account less what was charged.
LedgerNet(t) ==
      Total([k \in CreditKeys |-> IF creditTx[k].tenant = t
                                 THEN creditTx[k].amount ELSE 0], NumCredits)
    - Total([r \in Requests |-> IF TenantOfRequest(r) = t
                               THEN chargeTx[r] ELSE 0], NumRequests)

\* The balance column is only a cache (docs/04, ledger_accounts): at every
\* moment the append-only ledger explains it, up to the money on hold.  No
\* interleaving of reserve, rebind, settle, release and sweep creates or
\* loses money.
LedgerExplainsBalance ==
    \A t \in Tenants : balance[t] = LedgerNet(t) - Held(t)

\* spent_amount, which the spend limit is judged by, is what the ledger says
\* was charged to the token's requests, however they were settled.
SpentMatchesLedger ==
    \A k \in Tokens :
        spent[k] = Total([r \in Requests |-> IF TokenOf[r] = k THEN chargeTx[r] ELSE 0],
                         NumRequests)

\* The final bill follows the channel that served the request: whatever
\* rebinding and pending steps came before, a settled reservation carries the
\* price of the last bound channel for the recorded usage, and the ledger, the
\* request row and the reservation all show that amount; a request that was
\* not settled has no charge in the ledger.
BillFollowsChannel ==
    \A r \in Requests :
        IF reservation[r].status = "settled"
        THEN /\ reservation[r].settled = Charge[ModelOf[request[r].channel]][request[r].usage]
             /\ chargeTx[r] = reservation[r].settled
             /\ request[r].settled = reservation[r].settled
        ELSE chargeTx[r] = 0

\* The hold of an open request is its estimate at the price of the channel it is
\* bound to, whatever meters the channels before had a price for, and the estimate
\* has none that this channel's model does not price.
HoldMatchesChannel ==
    \A r \in Requests : reservation[r].status \in Open =>
        LET m == ModelOf[request[r].channel]
        IN  /\ reservation[r].reserved = Charge[m][reservation[r].estimate]
            /\ reservation[r].estimate \in {Prepared[m][u] : u \in Usages}

\* The request row that users see and the internal reservation tell the same
\* story, although different operations write them, and a closed hold is split
\* exactly into what was charged and what was given back.
RowsAgree ==
    \A r \in Requests :
        /\ reservation[r].status = "held" => request[r].status = "started"
        /\ reservation[r].status = "pending" => request[r].status = "settlement_pending"
        /\ reservation[r].status = "settled" => request[r].status = "settled"
        /\ reservation[r].status = "none" => request[r].status # "settlement_pending"
        /\ reservation[r].status \in {"released", "expired"} =>
              /\ request[r].status = "failed"
              /\ reservation[r].released = reservation[r].reserved
        /\ reservation[r].status = "settled" /\ reservation[r].settled <= reservation[r].reserved =>
              reservation[r].released = reservation[r].reserved - reservation[r].settled

\* Conservation: what left an account was charged or is on hold, and the sum the
\* spend limit of a token is judged by is the sum of its charges.
MoneyIsConserved == LedgerExplainsBalance /\ SpentMatchesLedger

\* After any number of failovers, hold and bill are those of the channel the
\* request is bound to.
PricedByChannel == HoldMatchesChannel /\ BillFollowsChannel

-----------------------------------------------------------------------------
(* Action properties                                                       *)

\* A closed request is never reopened, charged or refunded again, by a late
\* settlement, a second release, a sweep or a reused idempotency key.
ClosedIsFinal ==
    [][\A r \in Requests :
          request[r].status \in {"settled", "failed"} =>
              /\ request'[r] = request[r]
              /\ reservation'[r] = reservation[r]
              /\ chargeTx'[r] = chargeTx[r]]_vars

\* A request awaiting reconciliation keeps its hold until it is settled: the
\* reaper and a late failure report only release ordinary held reservations.
PendingOnlySettles ==
    [][\A r \in Requests :
          reservation[r].status = "pending" =>
              reservation'[r].status \in {"pending", "settled"}]_vars

OverdraftIsExplained ==
    \A t \in Tenants :
        balance'[t] < balance[t] /\ balance'[t] < 0 =>
            \/ \E r \in Requests : /\ TenantOfRequest(r) = t
                                    /\ reservation[r].status \in Open
                                    /\ reservation'[r].status = "settled"
            \/ creditTx' # creditTx

\* Only the settlement of a successful request or an operator's debit takes
\* an account below zero, and an overdrawn account lends to no new request.
OnlySettlementOverdraws == [][OverdraftIsExplained]_vars

\* A hold that is being created fits the spend limit of its token together
\* with everything charged and everything else on hold at that moment.
NewHoldWithinSpendLimit ==
    [][\A r \in Requests :
          reservation[r].status = "none" /\ reservation'[r].status = "held" =>
              LET k == TokenOf[r]
              IN  SpendLimit[k] # 0 => (spent[k] + OpenReserved(k))' <= SpendLimit[k]]_vars

\* A request is decided once: late settlements, releases, sweeps and retries
\* change nothing that is closed and give nothing back that is to be settled.
DecidedOnce == ClosedIsFinal /\ PendingOnlySettles

\* Reserve is judged by the balance and by the limit at once: only settlements
\* and operators overdraw an account, and no hold is admitted over the limit.
AdmittedWithinLimits == OnlySettlementOverdraws /\ NewHoldWithinSpendLimit

-----------------------------------------------------------------------------
(* Refinement: billing implements the customer's account.                  *)

OutcomeOf(r) ==
    CASE request[r].status = "none" -> "absent"
      [] request[r].status \in {"started", "settlement_pending"} -> "open"
      [] request[r].status = "settled" /\ reservation[r].status = "settled" -> "charged"
      [] OTHER -> "free"

Account == INSTANCE CustomerAccount WITH
    Owner    <- [r \in Requests |-> TenantOfRequest(r)],
    Charges  <- UNION {{Charge[m][u] : u \in Usages} : m \in Models},
    Postings <- CreditAmounts \cup {-a : a \in CreditAmounts},
    funds    <- [t \in Tenants |-> balance[t] + Held(t)],
    outcome  <- [r \in Requests |-> OutcomeOf(r)]

\* Seen by a customer, every operation of the billing core either does nothing
\* or is one of: a posting, the opening of a request, its only charge, its
\* closing without charge.
ImplementsAccount == Account!Spec

-----------------------------------------------------------------------------
(* Liveness                                                                *)

\* A hold whose deadline has passed is given back (or settled, or kept for
\* reconciliation, or extended): a request that timed out does not keep the
\* customer's money for ever.
OverdueHoldsAreSwept ==
    \A r \in Requests :
        (reservation[r].status = "held" /\ r \in lapsed)
            ~> (reservation[r].status # "held" \/ r \notin lapsed)

-----------------------------------------------------------------------------
(* A claim of the documentation that the code does not keep.               *)

\* Reserve: requests cannot reserve more than the token's configured limit.
ReservedWithinSpendLimit ==
    \A k \in Tokens : SpendLimit[k] # 0 => OpenReserved(k) <= SpendLimit[k]
=============================================================================
