# Formal verification of ModelBridge

ModelBridge is a multi-tenant AI API gateway: clients call OpenAI-compatible
endpoints with API tokens, the gateway picks an upstream channel, relays the
call, meters the usage and bills a prepaid account in PostgreSQL. This
directory holds TLA+ models of its protocols, the TLC instances that check
them, and TLAPS proofs of the properties that matter most.

`PROJECT.json` lists the components, the runs, the mutants that show each
property can fail, the hazards, the theorems, and for every definition the
source lines it stands for.

## 1. The system

One Go process (`cmd/server`) serves HTTP; several may run against the same
database. All durable state is in PostgreSQL; every service is a struct over
`*sql.DB`, so two requests interact only through rows, row locks and advisory
locks. Background goroutines: the reservation reaper (every minute), media-job
reconciliation, model monitors, the price-catalog sync, upstream account
snapshots.

| Component | State it keeps | Operations | What is hard |
|---|---|---|---|
| Billing core `internal/billing/service.go` | `ledger_accounts`, `ledger_transactions`, `ledger_entries`, `billing_reservations`, `model_requests`, `usage_records`, `api_tokens.spent_amount` | `Credit`, `Reserve`, `RebindReservationChannel`, `Settle`, `MarkSettlementPending(WithUsage)`, `Fail`, `ExtendReservation`, `ExpireReservations`, the free-request operations | operations of relay handlers, operators and the reaper on the same hold in any order; retries with the same idempotency key; failover that re-prices a hold; charges above the hold |
| Relay `internal/relay/types.go`, `advanced.go` | a stack frame per HTTP request | `ChatCompletions`, `StreamChatCompletions`, `CreateEmbeddings`, helpers around the billing calls | failover against delivered bytes; the client's context ends in the middle; billing writes fail after the upstream has answered; a stream that outlives its hold |
| Media jobs `internal/relay/media.go`, `media_sql.go` | `media_jobs` | create, poll, finish, reconcile | reconciler against poller, crash between settlement and job update, hold extension that fails |
| Channel routing and health `internal/relay/sql_router.go` | `channels`, `channel_models`: status, priority, weight, failures, open circuits | candidate query, failure and success records, administration of channels | a call works through candidates it read once; concurrent failures, successes and probes; two statements of one change |
| API tokens `internal/tokens` | `api_tokens`, rate windows, concurrency counters | issue, move, set status, delete, `AcquireToken` and its release | check and insert in two statements, slots leaked by a crash, limits that change in the middle |
| Metering and prices `internal/billing/metering.go`, `metering_sql.go`, `service.go` | `price_versions`, price components | `PublishPrice`, `resolvePrice`, the charge of a usage | details that exceed or lack their total, tiers, estimates in place of usage, backdated and future versions |
| Payments `internal/payments` | `payment_orders`, provider configuration | create order, provider callbacks, capture, administration of providers | duplicate and late callbacks (an order expires only when a late callback is judged), two settlements at once, crash between credit and order update |
| Login and sessions `internal/auth` | `user_sessions`, login throttles, one-time tokens | login, MFA step, logout, register, verify e-mail, reset password, OAuth | a session issued while the password changes, throttle read and write in separate statements, several live reset tokens |
| MFA `internal/mfa` | enrolment rows, used steps | begin, confirm, verify, disable | two enrolments at once, replay of a code |
| Users, roles, tenants `internal/users` | `users`, role bindings, `tenant_members` | status changes, role changes, invitations, ownership | last administrator and last owner under concurrent changes |
| Groups and model monitors `internal/groups` | `routing_groups`, `model_monitor_configs` | CRUD, claim, complete, status report | leases of probes that are lost, late completions, a report that must agree with the selection |
| Enterprise verification `internal/enterprise` | `enterprise_verifications` | submit, review | two reviews, resubmission during review |
| Official price catalog `internal/modelprices` | `official_model_price_versions` | fetch, normalize, upsert | thresholds that become limits, two synchronizations at once |
| Admin settings, catalog, announcements | single rows, CRUD | get, update | little: one statement each |
| Audit `internal/audit` | append-only rows | middleware | nothing depends on it |
| HTTP API `internal/httpapi` | none | decoding, authorisation, wiring | covered through the services it calls |
| Web front end `web/` | browser state only | React | no server state |

Calls between components: `httpapi` authenticates with `auth`, limits with
`tokens`, calls `relay`; `relay` calls `billing` before and after the upstream
call and `sql_router` for candidates and health; `payments` calls
`billing.Credit`; `media` calls `billing` from a handler and from a background
loop; the reaper calls `billing.ExpireReservations`.

Per component, what correctness means: *billing* — money is conserved, a
request is charged at most once and at the right price, holds do not leak;
*relay* — what was served is billed, what failed is given back, no failover
after output was delivered; *media jobs* — a finished job is charged once and
an unfinished one keeps its hold; *payments* — a paid order is credited exactly
once, an expired one never silently; *tokens* — limits hold under concurrency
and slots come back; *sessions* — a change of a credential ends the sessions that
were there, guesses are bounded, a one-time secret works once; *users* — there
is always an active administrator, every tenant keeps an owner, and a token
that was cut off stays so; *monitors* — probes go on whatever server stops;
*channel health* — a broken channel leaves rotation and returns, and nothing
else leaves with it; *prices* — a bill adds up unit by unit, and the price of a
call is the one in effect.

## 2. Plan

Order is by what a defect would cost. All of it is done, except for the last
line.

| | Modules | Promise |
|---|---|---|
| 1 | `Billing`, with `CustomerAccount` as its abstract specification; proofs in `BillingProofs`, `BillingMoneyProofs` | money is conserved, a request is charged once, at the right price |
| 2 | `LockOrder`; proofs in `BillingMoneyProofs` | an operation that decides a bill meets a deadlock only over a change of a project's members |
| 3 | `Relay`, on top of `Billing`; proofs in `RelayProofs` | what is served is billed, what is not is given back |
| 4 | `MediaJobs`, on top of `Billing`; proofs in `MediaJobsProofs` | a finished video is billed, a billed one is finished |
| 5 | `Payments`; proofs in `PaymentsProofs` | a paid order is credited once |
| 6 | `PlatformAdmins`; proofs in `AccountsProofs` | an administrator remains |
| 7 | `Tenants`; proofs in `TenantsProofs` | an owner remains, what is cut off stays cut off |
| 8 | `Accounts`; proofs in `AccountsProofs` | sessions, guesses, one-time secrets |
| 9 | `Routing`, `TokenLimiter`, `ModelMonitors`; proofs about the first two in `GatewayProofs` | circuits, limits, probes |
| 10 | `Metering`, `PriceSource`, `PriceCatalog`; proofs in `GatewayProofs` | a bill adds up, a price is current |
| left | `Enterprise`; types of `ModelMonitors` as theorems | |

`MCBilling`, `MCRelay`, `MCMediaJobs`, `MCPayments`, `MCTenants`, `MCAccounts`
and `MCGateway` are the instances for TLC. Components that share no state are
checked side by side in one instance: its variable `slice`, fixed in the initial
state, says which of them, or which part of one, a behaviour runs. That keeps a
run to one question about one component while its state space is the sum of
the slices and not their product.

## 3. Billing (`Billing.tla`)

### State

| Variable | Code |
|---|---|
| `balance[t]` | `ledger_accounts.balance` of the tenant's prepaid account |
| `revenue`, `topup` | balances of `system:revenue` and `system:topup` |
| `creditTx[k]` | the ledger transaction under top-up idempotency key `k` |
| `chargeTx[r]` | the amount posted under `billing:charge:<request>` |
| `spent[k]` | `api_tokens.spent_amount` |
| `activeTokens` | tokens with status active, not deleted, not expired |
| `request[r]` | the `model_requests` row: status, bound channel and model row, usage, settled amount |
| `reservation[r]` | the `billing_reservations` row: status, reserved, settled, released, estimate |
| `lapsed` | reservations with `expires_at <= now()` |
| `batch` | ids that the running `ExpireReservations` has read and not yet released |

A request is named by its idempotency key. A price is the constant table
`Charge[model][usage]`: metering, group multiplier and minimum charge are data to
this module and computed in section 11. Channels map to provider-specific model rows
(`ModelOf`), so that a failover may or may not re-price. A model row need not
price every meter: `Prepared[model][estimate]` is what `prepareReservationMetrics`
leaves of an estimate (metering.go:761-799), any function from estimates to
estimates here, and a reservation keeps what is left of its own. It is what a
failover stores in place of the estimate before, so that a later failover prices
what all models on the way have left.

### Actions

Every operation of `SQLService` is one transaction that locks the rows it
decides on (`FOR UPDATE` on the reservation, token, account), so it is one
action; guards are the early returns, in the code's order. Two operations are
not one transaction and are several actions: the sweep (`ReaperScan`, then one
`ReaperExpire` or `ReaperSkip` per id, or `ReaperAbort`), and the operator's
settlement, whose status read precedes the settling transaction (a pending
reservation can only become settled in between, so the read and the settlement
are one action without loss). Callers are unconstrained: any operation may be
called on any request at any time. That is more than the relay does, and it is
what the module is about: the core must be safe whatever its callers race.

`Reserve` and `RebindReservationChannel` lock the token and the account at
different moments, so two of them may interleave inside their transactions;
every outcome equals that of one of the serial orders (the rebind never looks
at the token's limit, and both re-read the account in the `UPDATE` that moves
the money), which is why both are atomic here.

### Abstract specification

`CustomerAccount` is what a customer is promised: funds are what was posted
less what was charged; a request is opened once, and closed once, by one charge
or by none. `Billing!ImplementsAccount` maps funds to `balance + Held` and the
outcome of a request to its two statuses.

### Runs

| Run | Instance | Question |
|---|---|---|
| `billing` | slice `rows`: 2 requests of one token with spend limit 2, 2 channels of 2 prices, of which one prices fewer meters, batch limit 1, fairness; slice `locks`: 3 transactions, 2 keys of 2 tokens that one account pays for, one project | do rows, bills, holds and limits stay consistent under every interleaving of handlers, failovers, operators and the reaper; is the hold what is left of the estimate at the last channel's price; is money conserved, does nothing but a settlement or a debit overdraw, is the abstract account implemented; is every overdue hold resolved although sweeps abort, find their ids stale, and take one id at a time; in which deadlocks can the transaction that decides a bill be? |
| `claim_spend_limit` | the same | the spend limit of a token against holds that a failover re-prices (section 13) |

Bounds. Two requests of one token are needed for one hold to be judged against
another. Two channels of different prices give both directions of a re-pricing
failover. Usage 0..2 gives an actual charge below, at and above the hold (the
dear model has a minimum charge, so that a zero usage costs something); an
estimate of 2 stands for two meters, of which only the dear model prices the
second one, so that a failover to the cheap model and back holds less than
before. One posting of 3 is below, at or above what two holds need, so the
balance check both passes and fails; a debit drives the balance negative.
`BatchLimit = 1` with two overdue holds exercises the `LIMIT`. More requests
and tokens of other tenants meet only in sums, which the proofs cover for any
number of them; the bounds disappear there.

Fairness. `RunReaper` is a ticker that runs as long as the server does:
`WF(ReaperScan)`. A release that is retried by every later tick does not fail
each time: `SF(ReaperExpire(r))`; strong, since an aborted sweep disables it.
The loop goes past stale ids: `WF(ReaperSkip(r))`. Nothing is assumed of
handlers, operators or clients.

`CHECK_DEADLOCK FALSE`: with every key used and every request closed the
instance has nothing left to do.

### Row locks (`LockOrder.tla`)

What `Billing` takes as one step is a transaction that locks its rows one by
one and keeps them to its end. `work[t]` is the operation of transaction `t`,
its key, project and tokens and how many of its locks it has; `known` says which
requests exist. `BeginWork`, `TakeLock`, `CommitWork` and `RollbackWork` are the
life of a transaction. An operation is the sequence of its locks in the code's
order, `Locks` has one per operation (`ReserveLocks`, `SettleLocks` ...); it
includes what PostgreSQL locks by itself: the rows an insert refers to, for
"share", and the unique key it waits for. `Conflict` is PostgreSQL's table for
the four modes used. A key belongs to one token (`KeyToken`) and its tenant pays
from one account (`KeyAccount`): several tokens share an account and a project.
Besides the billing core, the operations on members, projects and tokens take
part. They lock many tokens with one `UPDATE`, which meets any of them in any
order (`TokenLists`), after the project if the code locks it first
(`MemberLocks` for "update", `ProjectLocks` for "noKey").

`BillsDeadlockOverMembersOnly` names the circles there are. A settlement can be
in one: it has token A (service.go:2457) and waits for the account (:2646);
a reservation of token B has the account (:1517-1525) and waits for the
project (:1555); a change of a project member has the project (tenant.go:547,
:599) and waits for token A. PostgreSQL aborts one of the three, maybe the
settlement. Without such a change in it, no circle contains an operation on a
bill, although a release locks the account before the request and a settlement
after it: what remains are a paid and a free call that open one key, and
changes that revoke the same tokens in different orders. Three transactions on
two tokens are enough for the circle above; that more transactions, tokens,
projects or accounts bring no further kind is a theorem (section 12).

## 4. Relay (`Relay.tla`)

A call is the goroutine of one HTTP request: `call[i]` is its stack frame
(`pc`, the channels tried, the channel it is on, the stream attempt, whether it
owns a reservation or a free request row, whether bytes were delivered, which
channel answered, the usage reported, whether the client is still connected).
`trouble` is history: some database access of the call failed.

`Relay` EXTENDS `Billing` and drives its actions: each billing call of a
handler is `Access(i, A, acknowledged, failed)`, where `A` is the billing
action. The access is acknowledged; or it fails, and may have been committed
all the same. Every access runs under the request's context, so none is
acknowledged after `Disconnect`. `Crash` ends all running handlers and the
sweep. `OthersStep` is what the rest of the system does to the same rows:
postings, token status, the clock, the reaper, an operator's settlement.

| Actions | Code |
|---|---|
| `Arrive`, `PickChannel`, `Exhausted` | the candidate loop; `pickWeightedChannel` is `Preferred` |
| `StartPaid`, `StartFree`, `Bind` | `Reserve`, `StartFreeRequest`, `bindReservationToCandidate`, with the channels passed over for want of a price or a credential |
| `SyncAnswers`, `SyncFails`, `StreamDelivers`, `StreamEnds`, `StreamBreaks` | the upstream call, the stream's events, retry on the same channel, failover |
| `AskPolicy`, `Rebind`, `SettlePaid`, `CompleteFree`, `Pend`, `PendPlain`, `FailCall` | `canSettleWithoutUsage`, `completeRelayBilling`, the two tries of the pending marker, `failRelayBilling` |

| Run | Instance | Question |
|---|---|---|
| `relay` | a stream and a buffered retry under one key, two channels of two prices, two stream attempts per channel, fairness | is success always on the books, is only an unserved call refunded, and to which channel is it billed; can a retry be served twice; is every hold resolved although handlers hang, crash and lose clients? |
| `claim_served_free` | one paid stream | a comment the code does not keep (section 13) |

One request key is enough, since calls with different keys meet only in the
account and the token, which the `billing` run covers; two calls with the same
key are the interesting pair. Whether the group is free is read once per call
and may change between a call and its retry; the price of the dear channel may
be missing at any look. `dear` is the fallback of `cheap`: a failover re-prices
the hold upwards, and the channels of a call without price are passed over.
Fairness: the clock (`WF(Lapse)`) and the reaper as in `billing`; nothing of
handlers, clients or providers.

## 5. Payments (`Payments.tla`)

A recharge order is named after the `CreateOrder` call that places it; several
calls may carry one idempotency key. `order[c]` is its `payment_orders` row,
`checkout[c]` the provider's side of it (external, as the code uses it:
opened by a request whose answer may be lost, then paid, or for PayPal
approved and later captured), `credited[c]` the sum of the credits posted for
it in the ledger, `call[c]` and `handler[h]` the stack frames of the
goroutines, `rate` the recharge rate an administrator may change at any time.

| Actions | Code |
|---|---|
| `Quote`, `Place`, `AnswerExisting`, `OpenCheckout`, `ProviderRefuses`, `MarkFailed`, `SaveCheckout`, `AbortCall` | `CreateOrder`: configuration read, insert under the unique key, checkout at the provider, its link saved or the order failed |
| `BeginCapture`, `Capture` | `CapturePayPal`, up to the provider's answer |
| `Deliver`, `FindPending`, `FindClosed`, `InTime`, `TooLate`, `Post`, `MarkPaid`, `AbortSettlement` | the verified callback and `settleCallback`: look-up, age, credit, mark |
| `Pay`, `SetRate`, `Tick` | the customer, the administrator, the clock |

No step of a settlement shares a transaction with another one, so each is an
action and `AbortSettlement` may come after any of them. `Post` and the
`UPDATE ... WHERE status = 'pending'` are what makes that safe, and the mutants
drop exactly those.

| Run | Instance | Question |
|---|---|---|
| `payments` | 2 calls under one key, one of them paid by capture, 2 settlements at a time, 2 rates, fairness | can a retry open a second checkout, can a failed order take money; is an order credited once, as promised, and only when paid; is whoever paid told so, although settlements stop in the middle? |

Bounds: `Lifetime = 1`, `MaxTime = 2` give a callback that is in time, one that
is late, and one that is judged in time while another is late. Two settlements
at a time are a capture and its callback, or a callback and its repetition; a
handler that has ended serves the next one. `Eventful` lets the rate rise only
between the quotation and the insert of a call, and the clock run only once
there is an order: at other times neither makes a difference. Orders of
different keys never meet. Fairness: a provider repeats its callback until it
is acknowledged and what makes a settlement fail does not last for ever, hence
`SF` of `Deliver` and of the settlement's steps; a capture that PayPal does not
answer ends with the client's time-out (`WF`, service.go:203); nothing is
assumed of customers, `CreateOrder` calls or the clock.

## 6. Platform administrators (`PlatformAdmins.tla`)

`status`, `roleStatus` and `bound` are the columns that say who is an
administrator; `holder` is the two advisory locks, `tx[a]` the operation that
administrator `a` is running.

| Actions | Code |
|---|---|
| `Begin` | authentication, `requirePlatformOwner` of role changes (before their transaction), the refusal to change one's own account |
| `Lock` | `pg_advisory_xact_lock`: `platform-admin-status` for status changes, `platform-role-bindings` for role changes |
| `Judge` | what the transaction reads and checks: `ensurePlatformOwnerMutation`, the count of active administrators, `ensurePlatformAdminRemains` |
| `Commit`, `Rollback` | the writes of a role change, visible at the commit (READ COMMITTED), and the release of the lock |
| `CreateRole` | `CreatePlatformRole`, which takes no lock |
| `Verify` | an account that was pending becomes active when its address is confirmed |

A status change is judged and then rolled back: the `UPDATE` of `SetStatus`
(admin.go:358-362) gets three arguments and names `$2` and `$3` only, so that
PostgreSQL cannot determine the type of `$1` and refuses the statement. That is
why `Commit` has no case for it.

| Run | Instance | Question |
|---|---|---|
| `accounts`, slice `administrators` | 2 users, 2 roles, all three kinds of operations | does an administrator who can sign in remain; is a new binding to an active role? |
| `claim_status_change` | 2 users, status changes, under fairness | does a status change that is allowed take effect? (section 13) |

Two users are the smallest number that can remove each other, and two roles the
smallest with which disabling a role and changing a binding both count. The
instance may stop: owners can demote each other (section 13), and when none is
left no role change is possible. Fairness of `claim_status_change`: an
operation that is allowed to commit again and again does (`SF` of `Commit`, per
operation).

What would follow if the statement were repaired is not claimed: status changes
and role changes take different advisory locks, so one could then disable an
administrator while the other unbinds the one it counts on.

## 7. Media jobs (`MediaJobs.tla`)

A video is created by one request, worked on by the provider for minutes, and
finished by whoever sees first that it is done: the handler of a poll, or the
reconciler. Nothing locks a job; what keeps its charge single is the billing
core, what its row says is decided by the last write. A job is named by the
idempotency key of its request.

| Variable | Code |
|---|---|
| `job[r]` | the `media_jobs` row: status and channel; `queued` and `processing` are `running`, `cancelled` is `failed`, as the code treats them alike |
| `updated` | the jobs by `updated_at`, oldest first |
| `upstream[r]` | what the provider would answer about the job (external) |
| `worker[w]` | the stack frame of a handler or reconciler: phase, job, channels tried, status and usage as last seen, the rest of its sweep (`todo`) |

`MediaJobs` EXTENDS `Billing` and drives its actions, with accesses that fail
before or after the commit, as `Relay` does.

| Actions | Code |
|---|---|
| `Arrive`, `PickChannel`, `Exhausted`, `Start`, `Bind`, `Submit`, `Persist`, `FailBilling` | `CreateVideo`: candidates, hold, rebinding, the provider's acceptance, the row |
| `Poll`, `ListPendingMediaJobs`, `Extend`, `Ask`, `Update` | `GetVideo` and `ReconcileMediaJobs` up to the provider's answer, and their last write |
| `Finish`, `Rebind`, `SettleJob`, `PendPlain`, `Pend`, `PendAgain`, `CompleteFree`, `FailFree` | `finishVideoJob`: what usage counts (`FinalUsage`), settlement, the pending marker and its second try |
| `Progress` | the provider ends a job, with or without usage |
| `Disconnect`, `Stop`, `Restart` | a client that leaves, a server that stops between two steps and starts again |
| `OthersStep` | the account, the clock, the reaper, an operator's settlement |

| Run | Instance | Question |
|---|---|---|
| `media`, slice `one` | one video, paid or free, two channels, one handler, one reconciler, fairness | is a finished video on the books, is none charged before its end, is none refunded once the provider has it, and billed where it runs; is a pending charge settled once its usage is known? |
| slice `many` | three videos that providers have accepted, in any order of `updated_at`, one of them stuck; sweeps of two, fairness | is a pending charge settled although videos compete for the places of a sweep? |
| `claim_video_delivered` | one paid video, one channel | is a charged video deliverable? (section 13) |

Bounds. One video suffices for the races of its poller and the reconciler. A
video is `Stuck` when its hold is closed while its row says running: each visit
fails at the extension and leaves `updated_at` alone, so that it takes a place
of every sweep. With three videos and sweeps of two, one is stuck, and the two
others share the place that is left; one that failed without usage stays on the
list for good, and takes its turn there. `PendingIsSettled` assumes that the
stuck ones do not fill a sweep for ever: with that hypothesis left out, TLC finds
the starvation of section 13 (an operator settles a second video early).
The price of one channel may be missing and its reports are not authoritative;
a request carries an estimate. Prices are zero: what a settlement charges is the business of `Billing`.

Fairness. The reconciler is a loop of its own and none of its calls hangs
(clients have time-outs): `WF` of its work and of the restart. In the end the
server stays up and what it asks of the database and the provider no longer
fails (`<>[][~Stop /\ ~GivesUp]`): a visit that fails ever again would leave its
job at the head of the list. A refused extension of a closed hold is not among
these failures, it happens whenever a stuck video is visited. Nothing is assumed
of handlers, clients or the reaper, nor that a provider ever ends a video.
`CHECK_DEADLOCK FALSE`: with its video finished the instance has nothing left to
do.

## 8. Tenants (`Tenants.tla`)

| Variable | Code |
|---|---|
| `account[u]` | `users.status` |
| `member[u]` | `tenant_members`: role and status |
| `project[p]`, `prole[u, p]` | `projects.status` with `deleted_at`, `project_members` |
| `token[k]` | `api_tokens`: creator, project, status |
| `holder` | the advisory locks: one for the members of the tenant, one per project |
| `tx[a]` | the operation that user `a` is running: phase, kind, project, input; the tokens it is revoking (`cut`) and the project roles it is deleting (`rows`) |

A request is answered in steps: `Begin` is what comes before the transaction,
the session's permissions and the read of `requireProjectManager`; `Judge...`
is what the transaction reads and checks once it has its lock; `Write` is the
statement that revokes tokens; the action named after the function is the
commit; `Rollback` any other end.

An `UPDATE api_tokens` (tenant.go:226-234, :293-297) sees the tokens that were
committed before it. `Write(a)` therefore notes them in `tx[a].cut`; they are
locked until the commit, when they become revoked (`TokenFree`: statements on one
of them wait). A token that is inserted between the statement and the commit,
or is disabled just then, is not among them. `RemoveMember` deletes the
member's project roles in the same way (`rows`, `RowStays`).

| Actions | Code |
|---|---|
| `AddMember`, `UpdateMember`, `RemoveMember`, `CreateProject` | under the lock of the tenant's members; removal revokes the member's tokens and project roles |
| `UpdateProject`, `DeleteProject`, `AddProjectMember`, `UpdateProjectMember`, `RemoveProjectMember` | under the lock of the project; a project that closes, a member who loses the right to use it, take tokens along |
| `Write` | the `UPDATE api_tokens` and the `DELETE FROM project_members` of these operations |
| `CheckIssue`, `InsertToken`, `CheckMove`, `UpdateOwned`, `SetStatusOwned` | tokens: a check, then a write, without a lock |
| `Pause`, `SetAccountStatus` | what a platform administrator does to tokens and accounts (that a change of an account succeeds, which section 13 doubts, only adds behaviours) |

`Admitted(k)` is the resolver's query: which tokens may call.

| Run | Instance | Question |
|---|---|---|
| `tenants`, slice `members` | 3 users, all member operations | do owners who demote, suspend or remove each other leave one; do only owners touch owners and administrators? |
| slice `projects` | 2 users, 2 projects, project and project-member operations | may two locks that do not exclude each other revive a token? |
| slice `tokens` | 2 users, 2 projects, 1 token, issue and move against removals | is a token that was cut off cut off for good? |

At most two users run a transaction at a time: a third one would wait for a
lock, or do what one of the two could have done before. A slice leaves out the
roles and states that only the other slices tell apart: there are no developers
in `members`; accounts stay as they are in `projects`; in `tokens` the second
user is an administrator or not a member, and works on tokens and projects only.

`CutOffIsFinal` speaks of the tokens that the `UPDATE` saw: whatever their
owner and the administrators do to them at the same time, they are revoked with
the commit, and a revoked token does not come back. It does not say that a
removal leaves no token at all: one inserted after the statement, or
disabled when it ran, stays. The resolver refuses both while their creator is
away, not when the creator comes back (section 13).

## 9. Accounts and sessions (`Accounts.tla`)

One user account and the requests about it: logins, second factor, OAuth,
changes of password, address and status, registration, links by mail,
authenticators. Each request `proc[p]` is a sequence of statements, because
what makes these operations hard is that few of them share a transaction.

| Variable | Code |
|---|---|
| `user`, `rowLock`, `cuts` | `users`: status, address, the last change that ended sessions; who holds the row `FOR UPDATE`; how many statements have ended sessions (history) |
| `session[p]` | the `web_sessions` row that request `p` inserts, and what `cuts` was then (history) |
| `link[l]` | one-time tokens of verification and reset: kind, state, times used |
| `cred[c]` | `mfa_credentials.status` |
| `oauth` | an `oauth_states` row and whether the identity is linked |
| `throttle`, `answered`, `late` | `login_throttles` of passwords, codes and reset requests; answers since a row began, and answers given while it was locked (history) |

| Actions | Code |
|---|---|
| `AskLogin`, `PasswordRight`, `PasswordWrong`, `RecordFailure`, `PassMFA`, `WrongCode`, `Issue`, `ClearThrottle`, `Logout` | `Login`, the second step, the session issuer |
| `StartOAuth`, `TakeState`, `ResolveIdentity` | the OAuth redirect and callback |
| `AskChange`, `ChangePassword`, `ChangeEmail`, `Update`, `SetStatus`, `EndSessions`, `CommitChange`, `CommitForOthers` | profile, administration, and the revocation of sessions that belongs to it |
| `Register`, `AskVerification`, `VoidLinks`, `MailLink`, `Confirm`, `ConfirmEmail`, `AskReset` | registration, verification and reset by mail |
| `BeginEnrollment`, `RevokePending`, `InsertPending`, `ConfirmEnrollment`, `Disable`, `VerifyStepUp`, `SetCredential` | authenticators |
| `AbortLocked`, `Abort`, `Tick` | a request that fails after any statement, the clock |

The run `accounts` has seven slices of it beside `administrators` of section 6:
`sessions`, `guesses`, `requests`, `codes`, `links`, `resets`, `enroll`, each
the operations that meet in the same rows. Three requests are two that race and
one that comes between; each may have a session from before. Two links and two credentials are the old
and the new one. `MaxFailures = 2` lets one guess be in flight when the other
one locks; `MaxRequests = 2`, `Window = LockFor = 1` and `MaxTime = 3` give a
window that ends and begins again; `MaxChanges = 2` a change after a change.

`SurvivorsAreNewer` says what a change of a credential achieves: a session that
lives was inserted after the revocation of every change. It does not say that
its password was judged after it, which does not hold (section 13).
`GuessesAreBounded` bounds what the gap between reading and writing the
throttle lets through by the number of requests that were in the gap. The
first failure of a window inserts a row that is not locked, so that a limit of
one, which the configuration accepts, lets two guesses through, as a limit of
two does; the property says so, for any `MaxFailures >= 1`.

`SetStatus` is modelled as a change that may succeed, although its statement
fails (section 6): that adds behaviours in which sessions are ended.

## 10. Channels, limits and probes (`Routing.tla`, `TokenLimiter.tla`, `ModelMonitors.tla`)

`Routing` has the rows of `channels` and `channel_models` (status, provider,
priority, weight, failure counts, how long the circuit stays open), the group,
and the calls and probes in flight. A channel lists names of models, each
standing for the row of its own provider in `models`; a route may be switched
off (`Rows(c, listed, on)`). A call reads `Candidates` once (`StartCall`), by the name of
the model whatever its provider, and works through them by weighted choice
(`Attempt`, `Answer`, `Continue`); what
it learns is recorded for the channel, for the route, or for both
(`RecordChannelSuccess`, `RecordChannelModelFailure` ...). An administrator
creates, changes, switches and deletes channels and groups; `SetChannelStatus`
is two statements (`resetting`). `wide` and `late` are history.

The status report is another query: it counts routes per row of `models`, that
is per provider and name (`Routes`, `Available`, `ModelStatus`), shows the models
that have a route switched on (`Shown`), and sums them up for the group
(`GroupStatus`). `StatusMatchesRouting` says how the two agree.

`TokenLimiter` is `AcquireToken`: the limits are read, then windows and slots
are taken in one transaction, then the group's window; `Release` may fail, and
a server that stops leaves its slots (`lost`).

`ModelMonitors` is the lease protocol of probes: `ClaimDue`, the probe a save
starts (`ProbeAfterSave`), one asked for by hand, `Complete`, and `LoseProbe`
for a server that stops or a completion that fails.

All three, and section 11, are slices of the run `gateway`:

| Slice | Instance | Question |
|---|---|---|
| `calls` | 2 calls on one model, 2 channels in rotation of which one fails, threshold 2 | does a circuit open only after enough failures, and does an open circuit keep all but the calls in flight away? |
| `config` | 2 models of 2 providers, 2 channels, one of which may change its provider and have routes switched off, the administrator's operations around one probe | do the status report and the selection, two separate queries, agree? |
| `limiter` | 3 requests of sizes 1 and 3, policies of 1 or 2 calls, 2 or 3 tokens, 1 or 2 slots, a group limit of 2 | do the limits hold at the border of a window, for its first call, when limits change in the middle and when slots are lost? |
| `monitors` | 2 probers, interval 1, lease 2, fairness | do probes go on, whatever stops? |

Fairness of `MonitorFairness`: the prober's ticker claims what is due
(`WF(ClaimDue)`), a probe ends since each of its calls has a time-out
(`WF(Complete)`), time passes. Nothing is assumed of administrators.

## 11. Metering and prices (`Metering.tla`, `PriceSource.tla`, `PriceCatalog.tla`)

`Metering` has the algorithms as operators: `UsageOf` a report (its meters,
completed from its legacy fields), `Normalize` (`EnsureParents` fills in a total
that is missing, `LimitChildren` cuts details to what is left of theirs, of
the totals before the modalities within them), `CustomerUsage` by the group's
mode, `ComponentsFor` a price, `Found` (a meter's component, or that of one of
its `Heirs`), `TieredAmount`, `Lines` and `MeteredCharge`, `SettlementTier`,
`UpstreamCost`. The loops of the code are written as what they leave behind: the
part of a meter before this one, the tiers that are reached. `Hold` and `Settle`
are the pricing of `Reserve` and of `Settle` for one request (`bill`), and
`MeteringSpec` is that request. The reference they are checked against,
`ByUnits`, goes through a usage unit by unit. `PriceSource` is
how a listing of the price source becomes components and tiers, and its
reference `ListedPrice` reads the listing directly: of the `Thresholds` of a
field, the highest below a quantity decides. `SetTiers` goes through the fields
as the code does, `Encode` turns thresholds `InOrder` into tiers that end at the
next. `IsRecord` says what a record that can be read is: prices and thresholds
are naturals, a threshold of a field and tier is listed once, a field has steps
of the quantity or ranges of the context but not both. `PriceCatalog` is who
publishes: `PublishPrice` for a scope, synchronizations as their statements
(`Fetch`, `Begin`, `FindCurrent`, `CloseCurrent`, `InsertVersion`,
`CommitSync`), `ResolvePrice` and the price matrix `ShownPrice`.

| Slice of `gateway` | Instance | Question |
|---|---|---|
| `bills` | every combination of reported and missing details of the input and the output with quantities 0..2, estimates, 4 shapes of price, every mode of a group, service tiers | does a charge add up, unit by unit, and equal the hold for what was estimated? |
| `prices` | 2 currencies, at most 3 publications for 3 scopes, some ahead of time, `LastTime` 2 | is a price that was replaced never charged again? |
| `syncs` | 2 synchronizations of a source with 2 listings | is at most one official price open at any time, and the one that is charged the same that is shown? |
| `listings` | each of 6 shapes of a listing read once | does the official price charge what the listing says, for every number of units up to 4? |
| `claim_current_price` | slice `prices`, one currency | is the price in effect found? (section 13) |

Quantities up to 2 under tiers that end at 1 and 2 put a quantity below, at and
above each border; a total of 3 with details up to 4 gives details that exceed
their total.

## 12. What is proved

For any number of tenants, tokens, channels, models, requests, any prices and
limits, under the `ASSUME`s of `Billing` (sizes are naturals, charges are
naturals, ownership and mapping are functions, the sentinels are not members):

- `BillingProofs` — the inductive invariant `RowInv` says for each request in
  isolation what its request row, reservation row and ledger charge may look
  like together (`RowOK`). The run's invariants alone are not inductive: that a
  charge of an open request is zero, that an open request is bound to a channel
  whose model is the recorded one, and that a free request has no hold are what
  `Settle` and `Rebind` need. `TypeCorrect`, `RowsAlwaysAgree` and
  `PricesFollowTheChannel` follow from it, `RequestsAreDecidedOnce` is read off
  the steps.
- `BillingMoneyProofs`, first part — `Total(f, n)` is a recursive function, so
  its properties need induction. The library's induction theorems take an
  operator parameter; the module instead proves induction *for sets* from the
  existence of minimal elements of a well-founded relation, shows that prefix
  sums exist and agree (`TotalByPrefix`), and derives `TotalAfterChange`:
  changing one entry changes the sum by the difference.
- `BillingMoneyProofs`, second part — every step moves money in one of three
  ways (a posting, a hold that changes, a settlement); with `TotalAfterChange`,
  `MoneyInv` (`RowInv` and the two ledger invariants) is inductive:
  `MoneyIsNeverLost`. `AdmissionIsWithinLimits` follows from its steps.
- `BillingMoneyProofs`, third part — initial states map to initial states, every
  step to a step of `CustomerAccount` or a stutter: `BillingImplementsAccount`.

For any transactions, keys, tokens, projects and accounts, under
`LockOrderAssumption`:

- `BillingMoneyProofs`, last part — `LockInv` says that transactions never have
  locks in conflict (`Exclusive`) and that each finds its request as it needs it
  until it ends (`KeyOK`): the second is what makes the first hold for the rows
  an insert creates (`LocksAreExclusive`). For deadlocks, `Placed` tabulates
  which operation takes which lock at which place (`LocksInOrder`), whatever
  tokens its `UPDATE` meets and however many, and `MayWait` which operation can
  wait for which other, where. In a circle each waits and, since no smaller set
  is one, each is waited for (`EveryoneIsWaitedFor`), so everyone has a lock and
  lacks one (`BetweenInCircle`). Without a change of members, a settlement could
  only be waited for by changes of tokens or stand before an account that a
  reservation has; that one waits for a free call which has inserted the request
  of its key, and the two are a circle by themselves (`ReserveMeetsFreeCall`).
  What is left is in `CirclesWithoutMembers`, and with it
  `CirclesHaveMemberChanges`.

For any sets of calls, channels, keys, prices, priorities and stream attempts,
under the assumptions of `Billing` and `Relay`:

- `RelayProofs` — `CallsInv` relates each stack frame to the rows of its key
  phase by phase: `FrameOK` says what a frame in that phase holds, `RowsFit`
  what the request and the reservation of its key look like, given what the
  frame remembers of them. Only one call owns a key (`OneOwner`). Every step of
  a call is `Local`: it changes that call and, of the rows, those of its own
  key; `LocalKeeps` shows that the other calls keep their part. Everybody else
  only settles what is pending or expires what is held (`OthersStep`), which
  `RowsFit` allows for. `CallsTyped`, `ServedCallsAreBilledOnce`,
  `RefundsGoToTheUnserved` and `StreamsStayWhereTheyBegan` follow.
  `RelayImplementsBilling` is the composition: `RelaySpec => Spec`. Every access
  of a call is an operation of `Billing` with arguments `Billing` allows (that
  they are is what `FrameOK` says of channels and usages), or nothing, so all
  that is proved of `Spec`, conservation of money and the abstract account
  included, holds of relayed calls with their lost answers and crashes.

For any sets of calls, handlers and keys, any amounts and rates, lifetime and
clock bound, under `PaymentsAssumption`:

- `PaymentsProofs` — the inductive invariant has a part per actor: `CallsOK`
  (what a `CreateOrder` call has done so far is what its order and checkout
  show), `OrdersOK` (the life of an order and its checkout together),
  `HandlersOK` (a settlement past its look-up is of money the provider took;
  past the credit, of an order that is credited) and `KeysOK` (one order per
  key). From it `PaymentTypesHold`, `OneCreditForMoney`, `NoCheckoutIsStray`
  and `ClosedOrdersStay`.

For any sets of jobs, handlers, reconcilers, channels, models and prices, under
the assumptions of `Billing` and `MediaJobs`:

- `MediaJobsProofs` — `JobsInv` has a part per actor and one per job. `FrameOK`
  says what a stack frame looks like in each phase. `Fits` relates a frame to the
  job, to the two rows of its request and to the provider's answer; `Known`
  relates those four to each other; jobs that wait in a sweep exist
  (`Waiting`); one creating handler owns a key (`OneOwner`). Several workers may
  be at one job, so each step is shown to change the four only as `Go` allows
  (a provider that is done stays done, a decided hold stays decided, a job
  keeps its channel ...), and whatever fits before fits after (`FitsOnward`);
  a lemma per action gives the new frame, and `DriftKeeps` covers everybody
  else. `JobTypes`, `AcceptedJobsKeepTheirBill` and `DoneAndChargedTogether`
  follow, and `MediaImplementsBilling`: `MediaSpec => Spec`, as for the relay.

For any sets of requests, links and authenticators, any limits, windows and
times, under the assumption of `Accounts`:

- `AccountsProofs`, first part — `AccountInv` is a conjunction of five parts,
  each kept by every step: `RequestsOK` (the row is locked by the request that
  is changing it, and by no other), `SessionsOK` (when a change commits, every
  session that is alive is among those its statement ended: none is inserted
  while it has the row), `LinksOK`, `CredsOK`, `ThrottlesOK`. The last counts:
  while a throttle is locked, the late answers and the guesses that are still
  to be answered (`Guessing`) are together fewer than the requests, which the run's
  invariant does not say and cannot be shown without. `AccountTypes`,
  `SessionsEndWithChanges`, `GuessesAlwaysBounded` and `SecretsWorkOnce` follow.

For any finite set of users, any roles and kinds of operations, under
`RolesAssumption`:

- `AccountsProofs`, second part — an administrator always remains
  (`AnAdministratorRemains`) and a binding is to an active role
  (`BindingsAreToActiveRoles`). The operations that write share one lock
  (`OnePastLock`), and the invariant says that whatever was judged under it is
  still safe to commit (`Safe`): nobody else can have committed since. Both
  theorems rest on status changes being rolled back (section 6).

For any users, projects and tokens, under `TenantsAssumption`:

- `TenantsProofs` — `TenantTypesHold`, `AnOwnerRemains`,
  `OnlyOwnersChangeManagers`, `CutOffStays`. Here what was judged stays true
  because all operations on members take one lock; but accounts are disabled
  without it, so the invariant may speak of roles and memberships and never of
  accounts. For tokens it says that those an operation is
  revoking are active, or revoked already, until it commits (`CutsHold`). That is also why an owner remains, and not an owner who can sign
  in (section 13).

For any sets of channels, providers, models and calls, any settings and
threshold; any requests, policies and limits; any scopes, currencies, listings and
synchronizations; any prices, groups, estimates and reports; under the
assumptions of `Routing`, `TokenLimiter`, `PriceCatalog` and `Metering` (a usage
maps finitely many meters to naturals, prices and limits are naturals, the records
of every listing satisfy `IsRecord`):

- `GatewayProofs`, channels — `RoutingInv`: the failures of a route decide its
  health, and its circuit (`RoutesOK`). For the circuit of a channel two counts
  are kept (`ChannelOK`): the failures it has recorded and those that calls have
  met and not yet recorded (`Failing`) are no more than have happened; while it
  is open, the calls that tried it late and those that have it left to try
  (`MayTry`) are fewer than all calls, since the one that opened it is neither.
  `CallsOK` is why a late try moves a call from the second to the first: what is
  left to try has each channel once. `CircuitsAlwaysProtect` follows.
  `ReportMatchesRouting` compares the two queries in every state: what a call
  finds by name is what the reports of all providers call available
  (`FoundIsAvailable`), and each channel found has a provider
  (`RoutingKeepsProviders`) whose model is shown (`FoundIsShown`), on which the
  status of the group rests.
- `GatewayProofs`, limits — `LimiterInv` strengthens `LimitsHold`: it is the
  slots with the lost ones that stay within the limit, and the limits a call
  has read, maybe long ago, are one of the policies. `CountAfterChange` is the
  lemma about cardinalities that all of these counts rest on.
  `LimitsAlwaysHold`.
- `GatewayProofs`, prices — `CatalogInv`: an active version starts no earlier
  than those published after it, and a retired one has an active successor that
  starts later (`VersionsReplace`); if there are official versions exactly one
  is open, and a synchronization about to insert has closed it (`OneIsOpen`,
  `SyncsClose`). So the newest version in effect of a scope is the last
  published of those in effect (`ManualIsCurrent`): `PricesStayCurrent`.
- `GatewayProofs`, charges — `ChargesAlwaysAddUp`: a charge of `MeteringSpec`
  adds up (`ChargesAddUp`), whatever was reported. `UnitsAreOnOneLine`: sums are
  over finite sets, in any order (`SumOfNaturals`, from `SubsetInduction`);
  after `Normalize` the parts of a meter fit in it (`NormalizedFits`, and that
  they stay so when `Settle` normalizes again), hence what is charged for a
  total and for its details is the total (`LinesHoldTotals`).
  `UnitsArePriced`: tiers that a charge accepts follow each other, so the tier
  by tier amount is the sum of what each unit costs (`QuantityTiersAddUp`,
  `ChargeAddsUp`, by induction on the number of tiers). `HoldIsKept`: the
  estimate was stored without the meters that have no price; a usage equal to
  what was asked, if it can be charged, has none of these, and dropping them
  changes no line (`EstimateCostsTheSame`). The invariant `MeteringInv` adds to
  `ChargesAddUp` what a held bill remembers of its estimate (`HeldAsEstimated`):
  its price, its metrics and its amount are those computed from what was asked.
- `GatewayProofs`, listings — `AmountsAreAlwaysRight`: beside `ChargesAddUp`, what
  input tokens cost by an official version is what its listing says of each of
  them (`AsListed`). Thresholds have an order (`BoundsInOrder`, by counting those
  below each); the tiers that `Encode` makes of them have growing limits, the
  last none, and at every quantity the price of the highest threshold below it
  (`EncodedTiers`). The first field sets the component of the input
  and of its `priority` tier, with tiers exactly where the record has thresholds
  (`InputOfField`); the other five touch neither (`InputStays`,
  `CollectedAsRecorded`). A call with n input tokens then has one line
  (`InputHasOneLine`), the component of its tier is found, its tiers reach every
  quantity (`LimitsReach`), and `UnitsAddUp` sums the units (`TokensAsListed`).
  The invariant that carries this to every state is `PricesAreRead`: the price of
  a version, and of one that a synchronization is about to write, is what
  `FindPrice` made of the listing it fetched, whatever the source says since.

Only model-checked:

- Liveness — `OverdueHoldsAreSwept`, `HoldsAreResolved`, `TakenIsDecided`,
  `PendingIsSettled`, `MonitorsAreProbed`: under fairness, hence ENABLED, they
  are out of the prover's reach.

Every safety invariant and action property that a passing run checks is stated by
a theorem.

## 13. Findings

Each is a counterexample of a run that PROJECT.json expects to fail, with the
sentence of the repository it contradicts under "findings".

1. `ReservedWithinSpendLimit` — a failover to a dearer provider re-prices the
   hold without looking at the token's spend limit.
2. `ServedIsNeverFree` — a served call whose accounting writes fail (always so
   when the client has disconnected in the middle of a stream) leaves a held
   reservation, which the reaper refunds.
3. `StatusChangesTakeEffect` — the `UPDATE` of `SetStatus` (admin.go:358-362)
   gets three arguments and names `$2` and `$3` only; PostgreSQL cannot
   determine the type of `$1` and refuses it (42P18), so that no account status
   is ever changed by an administrator. The integration test that would show it
   runs only with a database.
4. `ChargedIsDelivered` — a video is settled while its row says processing: the
   server stops between the two writes, or a poll with an older answer writes
   its row last, or an operator settles it. Polls and sweeps both extend the
   hold first, a settled hold cannot be extended, and so the row never says
   completed and the download is refused.
5. `CurrentPriceIsFound` — publishing a price ahead of time retires the one in
   effect at once (service.go:1245, :1257); until the new one starts, calls are
   charged by a broader scope or the official price, or refused.

Met while modelling and visible in the models, but without a run of their own.

*Billing and locks*

- An `ExtendReservation` that commits between the reaper's query and its
  release reports success and does not keep the hold (`ReaperExpire` does not
  look at `lapsed` again).
- Deadlocks exist, and PostgreSQL aborts one of those concerned. Removing a
  project member, or making one a viewer, locks the project `FOR UPDATE`
  (tenant.go:547, :599) and then updates tokens, while `Reserve` holds the token
  and its insert needs a key share of the project; moving a token has the same
  order as `Reserve`. With a second token of the tenant a settlement joins the
  circle: it holds its token and waits for the account, the reservation of the
  other token has the account and waits for the project, the member change has
  the project and waits for the first token. If the settlement is the one
  aborted, its call depends on the pending marker. A paid and a free request
  with one idempotency key take token and key in opposite orders; two changes
  that revoke the same tokens may meet them in different orders.

*Media jobs*

- A video whose hold has expired can no longer be extended; every sweep gives
  it up without touching `updated_at` (media.go:491), so it stays at the head of
  the list. As many of them as the `LIMIT` (media_sql.go:152) keep all other
  videos off the list.
- `GetMediaJob` and `ListPendingMediaJobs` do not read `model_request_id`: the
  request row of a free video that is finished by a poll or a sweep stays
  `started` (`Finish`).
- A video whose provider answers the creation with a final status is saved with
  that status; if its settlement and the pending write fail, it is not listed
  while its hold is only `held`, and the hold expires.

*Payments*

- Two callbacks of one order, one judged in time and one late: the late one
  marks the order expired while the other one's credit is on its way, and the
  order is shown as expired although it is credited.

*Users and tenants*

- Status changes and role changes take different advisory locks. As no status
  change is ever written (finding 3), nothing comes of it; once the statement is
  repaired, one may disable an administrator while the other unbinds the
  administrator it counts on, and nobody is left.
- That the actor of a role change is a platform owner is read before the
  transaction and its lock; an owner who was demoted while waiting still
  changes roles, so two owners can demote each other.
- `RemoveMember` does not look for the last project administrator, and takes
  another lock than the operations on project members: a project may be left
  without one, and a project role may be inserted for a member on the way out.
- The last-owner check counts members and ignores `users.status`.
- A token `disabled` when its creator leaves is not revoked; when the creator
  returns it can be enabled again (tenant.go:293-297). A token whose issue was
  checked before the removal and that is inserted after its `UPDATE`, even before
  its commit, survives as well, against the comment at tenant.go:291. The
  resolver refuses both while the creator is away.

*Accounts*

- A password that was verified before it was changed still gets its session, if
  the session is inserted after the change has committed.
- A verification link asked for before a change of the address and inserted
  after it stays live for the old address (users/admin.go:265).
- A failure in flight that is recorded after the window restarts the row, and
  cuts a lock short (login.go:377-402). With a limit of one failure the first
  one inserts a row that is not locked, so that a second guess is answered.
- A failure is recorded under the client's context and is lost when the client
  hangs up.
- The OAuth callback issues a session for a disabled account, which
  `ResolveSession` then refuses.

*Channels, limits, monitors*

- Saving a monitor clears `probe_started_at` (model_monitors.go:215): the probe
  that the save starts can run beside the scheduler's, which server.go:3683
  excludes in a comment. `CompleteActiveModelMonitor` does not look whose lease
  it ends.
- Concurrency slots of a server that stopped are never given back. The first
  call of a minute is admitted whatever its size.
- The two statements of `SetChannelStatus` share no transaction;
  `consecutive_failures` is not reset when a circuit's time is up, so one more
  failure opens it again.

*Prices*

- `resolvePrice` takes the highest version of a scope whatever its currency: an
  EUR price hides the active USD price (the comment at service.go:3501 says
  otherwise). The matrix orders versions by `effective_from`, the runtime by
  `version`.
- A price without components for tokens charges tokens nothing, since the
  legacy columns become components of price 0. A total reported as 0 makes its
  details free. Tiers that details inherit start at zero for each of them.
- With a group price per unit, an upstream usage with a meter that the official
  price lacks blocks the settlement (service.go:2603).
- Overlapping synchronizations may replace a newer listing by an older one.

## 14. Not modelled

Of the components: enterprise verification (a submission is a check and an
insert under an advisory lock per tenant, a review one guarded update of its
row; what was seen reading it is that `submitted_at` is when the submission's
transaction began, so one that began first and got the lock after a later one
had been rejected is not the latest row, the next submission does not see it,
and two are pending: enterprise/service.go:180);
reports and dashboards (read only); settings, catalog and announcements (one
statement each); the audit log, upstream account snapshots (no decision reads
them); wire formats of the provider adapters (stateless, their answers are
inputs of the models); HTTP decoding, start-up and the front end.

Of the modelled ones: `RecordRequestMetrics` (a latency column), what the cached
total of the system top-up account is for (the code adds debits to it as well),
several currencies of an account (it has one), decimal rounding (quantities and
prices are whole units); the synchronous image and audio calls, which have the
shape of a chat call, and the download; signatures, currencies and the
comparison of a callback's amount with its order; the permissions inside a role;
scopes and network rules of tokens, idle time-outs of sessions, the mail server
and the OAuth providers.
