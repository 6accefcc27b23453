------------------------------ MODULE MediaJobs ------------------------------
(***************************************************************************)
(* Asynchronous video jobs: internal/relay/media.go and media_sql.go.      *)
(*                                                                         *)
(* A handler creates a job (CreateVideo) or polls one (GetVideo), and the  *)
(* reconciler sweeps all of them every thirty seconds (ReconcileMediaJobs);*)
(* all three finish a job in the same way (finishVideoJob), on the same    *)
(* rows of Billing, without a lock between them.  Each database access and *)
(* each upstream call is a step; a worker may stop before any of them.     *)
(*                                                                         *)
(* Abstractions: a job is named by the idempotency key of its request;     *)
(* queued and processing are "running", cancelled is "failed" (the code    *)
(* treats them alike); admission is one step; candidates come in any order;*)
(* jobs whose id never reached us are not followed upstream.               *)
(***************************************************************************)
EXTENDS Billing, SequencesExt

CONSTANTS
    Handlers,       \* goroutines that serve HTTP requests
    Reconcilers,    \* runMediaJobReconciler of each server
    JobLimit,       \* the 50 of ListPendingMediaJobs
    BillingTypes,   \* the billing types a token's group may have
    EstimateOf,     \* videoEstimatedMetrics of a request, 0 = none
    Unpriced,       \* models whose price may be missing
    Unverifiable    \* channels whose reported usage is not authoritative

ASSUME JobsAssumption ==
    /\ Handlers \cap Reconcilers = {}
    /\ JobLimit \in Nat \ {0}
    /\ BillingTypes \subseteq {"prepaid", "free"}
    /\ EstimateOf \in [Requests -> Usages]
    /\ Unpriced \subseteq Models /\ Unverifiable \subseteq Channels

VARIABLES
    job,        \* the media_jobs row of each request
    updated,    \* the jobs by updated_at, oldest first
    upstream,   \* what the provider answers about each job
    worker      \* the stack frame of each handler and reconciler

mediaVars == <<vars, job, updated, upstream, worker>>
jobVars   == <<job, updated>>

Workers  == Handlers \cup Reconcilers
Terminal == {"completed", "failed"}

NoJob    == [status |-> "none", channel |-> NoChannel]
NoAnswer == [status |-> "none", usage |-> NoUsage]

Phases == {"idle", "down", "pick", "start", "bind", "submit", "persist", "fail",
           "extend", "ask", "finish", "rebind", "settle", "pendPlain",
           "pend", "pendAgain", "completeFree", "failFree", "update"}

Idle == [op |-> "none", pc |-> "idle", row |-> 0, paid |-> TRUE, tried |-> {},
         via |-> NoChannel,
         owns |-> FALSE,     \* reservation.ID or freeID is set
         status |-> "none",  \* of the job as this worker knows it
         usage |-> NoUsage, todo |-> <<>>]

Row(w)       == worker[w].row
At(w, phase) == [worker[w] EXCEPT !.pc = phase]
Step(w, f)   == worker' = [worker EXCEPT ![w] = f]

\* media_jobs.reservation_id is set.
PaidJob(r) == reservation[r].status # "none"

\* The frame that begins the work on job r; a poll extends the hold of a
\* running job only, the reconciler that of every job it has listed.
Visit(op, r, rest) ==
    [Idle EXCEPT !.op = op, !.row = r, !.todo = rest, !.paid = PaidJob(r),
                 !.via = job[r].channel, !.status = job[r].status,
                 !.pc = IF PaidJob(r) /\ (op = "sweep" \/ job[r].status = "running")
                        THEN "extend" ELSE "ask"]

\* Return from the handler, or go on to the next job of the sweep.
Leave(w) ==
    IF worker[w].todo = <<>> THEN Idle
    ELSE Visit("sweep", Head(worker[w].todo), Tail(worker[w].todo))

\* finishVideoJob returned nil.  CreateVideo has written the final status.
Finished(w) == IF worker[w].op = "create" THEN Leave(w) ELSE At(w, "update")

\* A database access A of worker w: acknowledged, or failed; then it may have
\* been committed all the same.
Access(w, A, acknowledged, failed) ==
    \/ A /\ Step(w, acknowledged)
    \/ A /\ Step(w, failed)
    \/ UNCHANGED <<vars, jobVars>> /\ Step(w, failed)

BillingAccess(w, A, acknowledged, failed) ==
    /\ Access(w, A /\ UNCHANGED jobVars, acknowledged, failed)
    /\ UNCHANGED upstream

Nothing(condition) == condition /\ UNCHANGED vars

Local == UNCHANGED <<vars, jobVars, upstream>>

-----------------------------------------------------------------------------
(* CreateVideo                                                             *)

Arrive(w, r) ==
    /\ worker[w].pc = "idle" /\ w \in Handlers
    /\ \E type \in BillingTypes :
          Step(w, [Idle EXCEPT !.op = "create", !.pc = "pick", !.row = r,
                               !.paid = type # "free"])
    /\ Local

\* The next candidate, unless it has no video provider or no credential.
PickChannel(w) ==
    /\ worker[w].pc = "pick"
    /\ \E c \in Channels \ worker[w].tried :
         LET frame == [worker[w] EXCEPT !.tried = @ \cup {c}, !.via = c]
         IN  \/ Step(w, frame)
             \/ Step(w, [frame EXCEPT !.pc = IF ~worker[w].owns THEN "start"
                                             ELSE IF worker[w].paid THEN "bind" ELSE "submit"])
    /\ Local

Exhausted(w) ==
    /\ worker[w].pc = "pick"
    /\ worker[w].tried = Channels
    /\ Step(w, At(w, "fail"))
    /\ Local

\* A paid request passes over a channel without a price.
PassOver(w) ==
    /\ worker[w].paid /\ ModelOf[worker[w].via] \in Unpriced
    /\ Step(w, At(w, "pick"))
    /\ Local

Start(w) ==
    /\ worker[w].pc = "start"
    /\ \/ BillingAccess(w,
             IF worker[w].paid THEN Reserve(Row(w), worker[w].via, EstimateOf[Row(w)])
                               ELSE StartFreeRequest(Row(w), worker[w].via),
             [At(w, IF worker[w].paid THEN "bind" ELSE "submit") EXCEPT !.owns = TRUE],
             Leave(w))
       \/ request[Row(w)].status = "none" /\ PassOver(w)

\* A reservation that is settled already is left alone.
BindChannel(w) ==
    \/ RebindReservationChannel(Row(w), worker[w].via)
    \/ Nothing(reservation[Row(w)].status = "settled")

\* Mutant: a failover submits at once.
BindNothing(w) ==
    /\ worker[w].pc = "bind"
    /\ Step(w, At(w, "submit"))
    /\ Local

Bind(w) ==
    /\ worker[w].pc = "bind"
    /\ \/ BillingAccess(w, BindChannel(w), At(w, "submit"), At(w, "fail"))
       \/ reservation[Row(w)].status \in Open /\ PassOver(w)

\* What a provider may say of a job: usage comes with its end, if at all.
Answers == [status : {"running"}, usage : {NoUsage}]
           \cup [status : Terminal, usage : (Usages \ {0}) \cup {NoUsage}]

\* The provider accepts the job; or accepts it without naming it, which keeps
\* a paid request for reconciliation; or fails, with or without a failover.
Submit(w) ==
    /\ worker[w].pc = "submit"
    /\ \/ \E a \in Answers :
             /\ upstream' = [upstream EXCEPT ![Row(w)] = a]
             /\ Step(w, [At(w, "persist") EXCEPT !.status = a.status, !.usage = a.usage])
       \/ \E u \in (Usages \ {0}) \cup {NoUsage} :
             /\ Step(w, [At(w, IF worker[w].paid THEN "pend" ELSE "fail") EXCEPT !.usage = u])
             /\ UNCHANGED upstream
       \/ \E phase \in {"pick", "fail"} : Step(w, At(w, phase)) /\ UNCHANGED upstream
    /\ UNCHANGED <<vars, jobVars>>

\* INSERT INTO media_jobs; model_request_id is unique.
CreateMediaJob(r, status, c) ==
    /\ job[r] = NoJob
    /\ job' = [job EXCEPT ![r] = [status |-> status, channel |-> c]]
    /\ updated' = Append(updated, r)
    /\ UNCHANGED vars

\* Mutant: a job that cannot be saved gives its hold back.
PersistOrRelease(w) ==
    /\ worker[w].pc = "persist"
    /\ Access(w, CreateMediaJob(Row(w), worker[w].status, worker[w].via),
              IF worker[w].status \in Terminal THEN At(w, "finish") ELSE Leave(w),
              At(w, "fail"))
    /\ UNCHANGED upstream

Persist(w) ==
    /\ worker[w].pc = "persist"
    /\ Access(w, CreateMediaJob(Row(w), worker[w].status, worker[w].via),
              IF worker[w].status \in Terminal THEN At(w, "finish") ELSE Leave(w),
              At(w, IF worker[w].paid THEN "pend" ELSE "fail"))
    /\ UNCHANGED upstream

\* failRelayBilling
FailBilling(w) ==
    /\ worker[w].pc = "fail"
    /\ \/ ~worker[w].owns /\ Step(w, Leave(w)) /\ Local
       \/ /\ worker[w].owns /\ worker[w].paid
          /\ BillingAccess(w, Fail(Row(w)) \/ Nothing(reservation[Row(w)].status \in Closed),
                           Leave(w), Leave(w))
       \/ /\ worker[w].owns /\ ~worker[w].paid
          /\ BillingAccess(w, FailFreeRequest(Row(w)) \/ Nothing(~FreeStarted(Row(w))),
                           Leave(w), Leave(w))

-----------------------------------------------------------------------------
(* GetVideo and ReconcileMediaJobs                                         *)

\* A client asks for its job.
Poll(w, r) ==
    /\ worker[w].pc = "idle" /\ w \in Handlers
    /\ job[r] # NoJob
    /\ Step(w, Visit("poll", r, <<>>))
    /\ Local

\* Mutant: jobs with a final status are never listed.
ListedRunning(r) == job[r].status = "running"

\* The WHERE clause of ListPendingMediaJobs.
Listed(r) ==
    \/ job[r].status = "running"
    \/ job[r].status \in Terminal /\ reservation[r].status = "pending"

\* Mutant: the jobs most recently updated come first.
Newest(n, place) ==
    /\ \A i \in 1 .. n : Listed(updated[place[i]]) /\ \A k \in 1 .. i - 1 : place[i] < place[k]
    /\ \A k \in DOMAIN updated : Listed(updated[k]) =>
          k \in Range(place) \/ (n = JobLimit /\ k < place[n])

\* The places in updated of the first n listed jobs; more only if n is the limit.
Oldest(n, place) ==
    /\ \A i \in 1 .. n : Listed(updated[place[i]]) /\ \A k \in 1 .. i - 1 : place[k] < place[i]
    /\ \A k \in DOMAIN updated : Listed(updated[k]) =>
          k \in Range(place) \/ (n = JobLimit /\ place[n] < k)

\* One sweep: the jobs least recently updated.
ListPendingMediaJobs(w) ==
    /\ worker[w].pc = "idle" /\ w \in Reconcilers
    /\ \E n \in 1 .. JobLimit : \E place \in [1 .. n -> DOMAIN updated] :
          /\ Oldest(n, place)
          /\ LET batch50 == [i \in 1 .. n |-> updated[place[i]]]
             IN  Step(w, Visit("sweep", Head(batch50), Tail(batch50)))
    /\ Local

\* A hold that cannot be renewed ends the visit; updated_at stays.
Extend(w) ==
    /\ worker[w].pc = "extend"
    /\ BillingAccess(w, ExtendReservation(Row(w)), At(w, "ask"), Leave(w))

\* Mutant: whatever the provider says finishes the job.
AskOnce(w) ==
    /\ worker[w].pc = "ask"
    /\ Step(w, [At(w, "finish") EXCEPT !.status = "completed",
                                       !.usage = upstream[Row(w)].usage])
    /\ Local

\* The provider's answer; without a status a poll keeps the one it has read
\* and the reconciler leaves the job.
Ask(w) ==
    /\ worker[w].pc = "ask"
    /\ \/ LET a == upstream[Row(w)]
          IN  Step(w, [At(w, IF a.status \in Terminal THEN "finish" ELSE "update")
                         EXCEPT !.status = a.status, !.usage = a.usage])
       \/ /\ worker[w].op = "poll"
          /\ Step(w, At(w, IF worker[w].status \in Terminal THEN "finish" ELSE "update"))
       \/ Step(w, Leave(w))
    /\ Local

\* Mutant: updated_at orders the job twice.
UpdateAgain(r, status) ==
    /\ job' = [job EXCEPT ![r].status = status]
    /\ updated' = Append(updated, r)
    /\ UNCHANGED vars

\* UpdateMediaJob: whatever the row says by now.
UpdateMediaJob(r, status) ==
    /\ job' = [job EXCEPT ![r].status = status]
    /\ \E i \in DOMAIN updated : updated[i] = r /\ updated' = Append(RemoveAt(updated, i), r)
    /\ UNCHANGED vars

Update(w) ==
    /\ worker[w].pc = "update"
    /\ Access(w, UpdateMediaJob(Row(w), worker[w].status), Leave(w), Leave(w))
    /\ UNCHANGED upstream

-----------------------------------------------------------------------------
(* finishVideoJob                                                          *)

\* The usage a finished job is billed by: for a completed one the estimate
\* stands in for a missing report and a report that is not authoritative
\* counts for nothing; 0 = no usable quantity.
FinalUsage(status, u, r, c) ==
    CASE status = "failed"                    -> IF u = NoUsage THEN 0 ELSE u
      [] status # "failed" /\ u = NoUsage     -> EstimateOf[r]
      [] status # "failed" /\ c \in Unverifiable /\ u # NoUsage -> 0
      [] OTHER -> u

\* Only the creating handler knows the request row of a free job: the two
\* queries that load a job do not select model_request_id.
Finish(w) ==
    /\ worker[w].pc = "finish"
    /\ LET u == FinalUsage(worker[w].status, worker[w].usage, Row(w), worker[w].via)
       IN  Step(w, IF worker[w].paid
                   THEN [At(w, IF u = 0 THEN "pendPlain" ELSE "rebind") EXCEPT !.usage = u]
                   ELSE IF worker[w].op # "create" THEN Finished(w)
                   ELSE IF worker[w].status = "failed" THEN At(w, "failFree")
                   ELSE [At(w, "completeFree") EXCEPT !.usage = u])
    /\ Local

Rebind(w) ==
    /\ worker[w].pc = "rebind"
    /\ BillingAccess(w, BindChannel(w), At(w, "settle"), At(w, "pend"))

\* Mutant: the failure is written down, and the job finished all the same.
SettleOrFinish(w) ==
    /\ worker[w].pc = "settle"
    /\ BillingAccess(w, \/ Settle(Row(w), worker[w].usage)
                        \/ Nothing(reservation[Row(w)].status = "settled"),
                     Finished(w), Finished(w))

SettleJob(w) ==
    /\ worker[w].pc = "settle"
    /\ BillingAccess(w, \/ Settle(Row(w), worker[w].usage)
                        \/ Nothing(reservation[Row(w)].status = "settled"),
                     Finished(w), At(w, "pend"))

MarkPending(w, u) ==
    \/ MarkSettlementPending(Row(w), u)
    \/ Nothing(reservation[Row(w)].status = "settled")

\* No usage to settle by: the hold is kept and the job is finished.
PendPlain(w) ==
    /\ worker[w].pc = "pendPlain"
    /\ BillingAccess(w, MarkPending(w, NoUsage), Finished(w), Leave(w))

\* markRelayBillingPendingWithUsage after a failure: with the usage, then
\* without; the caller returns the error either way.
Pend(w) ==
    /\ worker[w].pc = "pend"
    /\ BillingAccess(w, MarkPending(w, worker[w].usage), Leave(w), At(w, "pendAgain"))

PendAgain(w) ==
    /\ worker[w].pc = "pendAgain"
    /\ BillingAccess(w, MarkPending(w, NoUsage), Leave(w), Leave(w))

\* CompleteFreeRequest; if that fails, FailFreeRequest.
CompleteFree(w) ==
    /\ worker[w].pc = "completeFree"
    /\ BillingAccess(w, CompleteFreeRequest(Row(w), worker[w].usage),
                     Leave(w), At(w, "failFree"))

FailFree(w) ==
    /\ worker[w].pc = "failFree"
    /\ BillingAccess(w, FailFreeRequest(Row(w)) \/ Nothing(~FreeStarted(Row(w))),
                     Leave(w), Leave(w))

-----------------------------------------------------------------------------
(* The environment                                                         *)

\* The provider works on a job it has named.
Progress(r) ==
    /\ upstream[r].status = "running"
    /\ \E a \in Answers : a.status \in Terminal /\ upstream' = [upstream EXCEPT ![r] = a]
    /\ UNCHANGED <<vars, jobVars, worker>>

\* A handler loses its client, or a server stops, at any point.
Disconnect(w) ==
    /\ w \in Handlers /\ worker[w].pc # "idle"
    /\ Step(w, Idle)
    /\ Local

Stop(w) ==
    /\ w \in Reconcilers /\ worker[w].pc # "down"
    /\ Step(w, [Idle EXCEPT !.pc = "down"])
    /\ Local

Restart(w) ==
    /\ worker[w].pc = "down"
    /\ Step(w, Idle)
    /\ Local

OthersStep ==
    /\ \/ AccountStep
       \/ \E r \in Requests : Lapse(r)
       \/ \E r \in Requests, u \in Usages : SettleByModelRequestID(r, u)
       \/ ReaperStep
    /\ UNCHANGED <<jobVars, upstream, worker>>

Create(w) ==
    \/ \E r \in Requests : Arrive(w, r)
    \/ PickChannel(w) \/ Exhausted(w) \/ Start(w) \/ Bind(w) \/ Submit(w)
    \/ Persist(w) \/ FailBilling(w)

Observe(w) ==
    \/ \E r \in Requests : Poll(w, r)
    \/ ListPendingMediaJobs(w) \/ Extend(w) \/ Ask(w) \/ Update(w)

FinishVideoJob(w) ==
    \/ Finish(w) \/ Rebind(w) \/ SettleJob(w) \/ PendPlain(w) \/ Pend(w)
    \/ PendAgain(w) \/ CompleteFree(w) \/ FailFree(w)

MediaInit ==
    /\ Init
    /\ job = [r \in Requests |-> NoJob]
    /\ updated = <<>>
    /\ upstream = [r \in Requests |-> NoAnswer]
    /\ worker = [w \in Workers |-> Idle]

MediaNext ==
    \/ \E w \in Workers : Create(w) \/ Observe(w) \/ FinishVideoJob(w)
                         \/ Disconnect(w) \/ Stop(w) \/ Restart(w)
    \/ \E r \in Requests : Progress(r)
    \/ OthersStep

MediaSpec == MediaInit /\ [][MediaNext]_mediaVars

\* A visit that reconciler w gives up, though the hold was open, because the
\* database or the provider fails.
GivesUp(w) ==
    /\ worker[w].op = "sweep"
    /\ \/ /\ worker[w].pc = "extend" => reservation[Row(w)].status \in Open
          /\ worker[w].pc \in {"extend", "ask", "pendPlain"} /\ worker'[w] = Leave(w)
       \/ worker[w].pc \in {"rebind", "settle"} /\ worker'[w].pc = "pend"
       \/ worker[w].pc = "update" /\ updated'[Len(updated)] # Row(w)

\* The reconciler's ticker fires for as long as a server runs and none of its
\* calls hangs; in the end the server stays up, and the database and the
\* provider answer it.  Nothing is assumed of clients.
MediaFairness ==
    \A w \in Reconcilers :
        /\ WF_mediaVars(Restart(w) \/ Observe(w) \/ FinishVideoJob(w))
        /\ <>[][~Stop(w) /\ ~GivesUp(w)]_mediaVars

MediaFairSpec == MediaSpec /\ MediaFairness

-----------------------------------------------------------------------------
(* Properties                                                              *)

\* Types; the jobs in updated are those that exist, and work goes on only for
\* a job or request that exists.
MediaTypeOK ==
    /\ job \in [Requests -> [status : {"none", "running"} \cup Terminal,
                            channel : Channels \cup {NoChannel}]]
    /\ IsInjective(updated)
    /\ ToSet(updated) = {r \in Requests : job[r] # NoJob}
    /\ upstream \in [Requests -> Answers \cup {NoAnswer}]
    /\ \A w \in Workers :
          /\ worker[w].pc \in Phases
          /\ worker[w].todo \in Seq(Requests)
          /\ worker[w].op \in {"poll", "sweep"} => job[Row(w)] # NoJob
          /\ worker[w].pc \in {"rebind", "settle"} => worker[w].usage \in Usages \ {0}

\* A video that was running becomes downloadable only with its charge on the
\* books: settled, or kept for reconciliation.  Polls and sweeps of one job
\* overlap, and its hold may expire in the middle of each.
DoneIsBilled ==
    [][\A r \in Requests :
          job[r].status = "running" /\ job'[r].status = "completed" /\ PaidJob(r) =>
              reservation[r].status \in {"pending", "settled"}]_mediaVars

\* Once a provider works on a job, no failure of the bookkeeping gives the
\* hold back: only its deadline does.
AcceptedIsNotReleased ==
    \A r \in Requests : job[r] # NoJob => reservation[r].status # "released"

\* docs/08: a video is settled when its job has ended.  Only an operator, who
\* settles pending requests, may charge for one that runs.
ChargedWhenDone ==
    [][\A r \in Requests :
          reservation[r].status = "held" /\ reservation'[r].status = "settled" =>
              upstream[r].status \in Terminal]_mediaVars

\* A paid job is billed at the price of the channel it runs on, the last one
\* the creating handler tried.
BilledWhereItRuns ==
    \A r \in Requests : job[r] # NoJob /\ PaidJob(r) => request[r].channel = job[r].channel

\* A video that a provider accepted keeps its hold, at the price of the channel
\* it runs on.
AcceptedKeepsItsBill == AcceptedIsNotReleased /\ BilledWhereItRuns

\* Done and charged go together: no free result, no charge for work in progress.
ChargedAsDone == DoneIsBilled /\ ChargedWhenDone

HasUsage(r) ==
    /\ upstream[r].status \in Terminal
    /\ FinalUsage(upstream[r].status, upstream[r].usage, r, job[r].channel) # 0

\* Its hold cannot be renewed any more: every visit fails, and updated_at stays.
Stuck(r) == job[r].status = "running" /\ reservation[r].status \in Closed

\* ReconcileMediaJobs settles terminal videos even when the client stops
\* polling: a hold that awaits reconciliation is settled without an operator
\* once the provider has reported the usage, however many other videos share
\* the batches of the sweep, unless those that are stuck fill a batch for ever.
PendingIsSettled ==
    []<>(Cardinality({r \in Requests : Stuck(r)}) < JobLimit) =>
        \A r \in Requests :
            job[r] # NoJob /\ reservation[r].status = "pending" /\ HasUsage(r)
                ~> reservation[r].status = "settled"

\* README: the caller queries and downloads the result.  A video that was
\* charged becomes downloadable.
ChargedIsDelivered ==
    \A r \in Requests :
        job[r] # NoJob /\ reservation[r].status = "settled" /\ upstream[r].status = "completed"
            ~> job[r].status = "completed"
=============================================================================
