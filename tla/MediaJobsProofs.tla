-------------------------- MODULE MediaJobsProofs --------------------------
(***************************************************************************)
(* A video that a provider accepted keeps its hold, at the price of the    *)
(* channel it runs on, is charged only when the provider is done, and is   *)
(* finished only with its charge on the books; for any number of jobs,     *)
(* handlers, reconcilers, channels and prices.                             *)
(***************************************************************************)
EXTENDS MediaJobs, BillingProofs, SequenceTheorems

Frame == [op : {"none", "create", "poll", "sweep"}, pc : Phases, row : Requests \cup {0}, paid : BOOLEAN,
          tried : SUBSET Channels, via : Channels \cup {NoChannel}, owns : BOOLEAN,
          status : {"none", "running"} \cup Terminal, usage : Usages \cup {NoUsage}, todo : Seq(Requests)]

\* The phases of a creating handler until the job is saved, and those in which
\* a job that is saved is finished.
Creating  == {"pick", "start", "bind", "submit", "persist", "fail"}
Finishing == {"finish", "rebind", "settle", "pendPlain"}
Observers == {"poll", "sweep"}

\* What a stack frame looks like in each phase.
FrameOK(f) ==
    /\ f \in Frame
    /\ f.op = "none" <=> f.pc \in {"idle", "down"}
    /\ IF f.op = "none" THEN f.status = "none" ELSE f.row \in Requests
    /\ f.owns => f.op = "create"
    /\ f.op = "create" => f.pc \notin {"extend", "ask", "update"}
    /\ f.op = "create" /\ ~ f.owns => f.pc \in {"pick", "start", "fail"} /\ f.status = "none"
    /\ f.pc \in Creating => f.op = "create"
    /\ f.pc \in {"start", "bind", "submit", "persist"} => f.via \in Channels
    /\ f.op \in Observers \/ f.pc = "persist" => f.status # "none"
    /\ f.pc \in Finishing => f.status \in Terminal
    /\ f.pc \in {"persist", "rebind", "settle", "pend"} => f.usage # 0
    /\ f.pc \in {"rebind", "settle", "completeFree"} => f.usage # NoUsage
    /\ f.pc \in {"bind", "rebind", "settle", "pendPlain"} => f.paid

\* How a frame f fits the job j, the rows q and v of its request, and what the
\* provider says, u.
Fits(f, j, q, v, u) ==
    /\ f.status \in Terminal => u.status \in Terminal
    /\ f.op \in Observers \/ f.pc \in Finishing => j # NoJob /\ f.via = j.channel
    /\ f.op \in Observers \/ f.owns => q.status # "none" /\ (f.paid <=> v.status # "none")
    /\ f.owns /\ f.pc \in Creating /\ (f.paid \/ f.pc # "fail") => j = NoJob
    /\ f.owns /\ f.pc \in Creating /\ f.paid => v.status \in {"held", "expired"}
    /\ f.pc \in {"submit", "persist"} /\ f.paid => q.channel = f.via
    /\ f.pc = "persist" => u.status # "none"
    /\ f.pc = "update" /\ f.paid /\ f.status \in Terminal => v.status \in {"pending", "settled"}

\* What is known of a job j that is saved, its rows and its provider.
Known(j, q, v, u) ==
    j # NoJob =>
       /\ j.status # "none" /\ j.channel \in Channels
       /\ u.status # "none" /\ (j.status \in Terminal => u.status \in Terminal)
       /\ q.status # "none" /\ v.status # "released"
       /\ v.status # "none" => q.channel = j.channel

\* The rest of a sweep.
Waiting(f) == \A i \in DOMAIN f.todo : job[f.todo[i]] # NoJob

\* A frame and what it refers to.
WorkerOK(f) ==
    /\ FrameOK(f) /\ Waiting(f)
    /\ f.op # "none" => Fits(f, job[f.row], request[f.row], reservation[f.row], upstream[f.row])

\* A request has at most one handler that creates its job.
OneOwner == \A w, x \in Workers : worker[w].owns /\ worker[x].owns /\ Row(w) = Row(x) => w = x

JobRow == [status : {"none", "running"} \cup Terminal, channel : Channels \cup {NoChannel}]

TablesOK == /\ job \in [Requests -> JobRow]
            /\ upstream \in [Requests -> Answers \cup {NoAnswer}]
            /\ updated \in Seq(Requests) /\ IsInjective(updated)
            /\ ToSet(updated) = {r \in Requests : job[r] # NoJob}

JobsInv ==
    /\ RowInv /\ TablesOK
    /\ \A r \in Requests : Known(job[r], request[r], reservation[r], upstream[r])
    /\ worker \in [Workers -> Frame]
    /\ \A w \in Workers : WorkerOK(worker[w])
    /\ OneOwner

-----------------------------------------------------------------------------
(* Steps of one worker                                                     *)

\* A saved job stays on its channel, a request that was admitted stays paid or
\* free, and what was charged or is to be charged stays so.
Go(j, q, v, u, j2, q2, v2, u2) ==
    /\ j # NoJob => j2 # NoJob /\ j2.channel = j.channel
    /\ j # NoJob /\ u.status \in Terminal => u2.status \in Terminal
    /\ q.status # "none" => q2.status # "none" /\ (v2.status = "none" <=> v.status = "none")
    /\ v.status \in {"pending", "settled"} => v2.status \in {"pending", "settled"}

RowsGo(r) == Go(job[r], request[r], reservation[r], upstream[r],
                job'[r], request'[r], reservation'[r], upstream'[r])

RowsKept(r) == /\ job'[r] = job[r] /\ request'[r] = request[r]
               /\ reservation'[r] = reservation[r] /\ upstream'[r] = upstream[r]

\* What is done and what is charged in a step.
DoneAndCharged(r) ==
    /\ job[r].status = "running" /\ job'[r].status = "completed" /\ PaidJob(r) =>
          reservation[r].status \in {"pending", "settled"}
    /\ reservation[r].status = "held" /\ reservation'[r].status = "settled" =>
          upstream[r].status \in Terminal

\* What a step of worker w does to the tables: it may change the rows of a
\* request that it admits, that it creates the job of, or whose job is saved.
Effect(w) ==
    /\ [Next]_vars /\ TablesOK'
    /\ \A r \in Requests \ {Row(w)} : RowsKept(r)
    /\ \A r \in Requests : r = Row(w) =>
          /\ RowsGo(r) /\ DoneAndCharged(r)
          /\ Known(job'[r], request'[r], reservation'[r], upstream'[r])
          /\ RowsKept(r) \/ worker[w].owns \/ job[r] # NoJob \/ request[r].status = "none"

\* ... and how its new frame g fits them.
Settles(w, g) ==
    /\ FrameOK(g) /\ \A i \in DOMAIN g.todo : job'[g.todo[i]] # NoJob
    /\ g.op # "none" => Fits(g, job'[g.row], request'[g.row], reservation'[g.row], upstream'[g.row])
    /\ g.owns => g.row = Row(w) /\ (worker[w].owns \/ request[g.row].status = "none")

Keeps(w, g) == Effect(w) /\ Step(w, g) /\ Settles(w, g)

\* The invariant for one worker.
LEMMA OfWorker ==
    ASSUME JobsInv, NEW w \in Workers
    PROVE  /\ worker[w] \in Frame /\ FrameOK(worker[w]) /\ Waiting(worker[w])
           /\ worker[w].op # "none" =>
                 /\ Row(w) \in Requests
                 /\ Fits(worker[w], job[Row(w)], request[Row(w)], reservation[Row(w)], upstream[Row(w)])
                 /\ Known(job[Row(w)], request[Row(w)], reservation[Row(w)], upstream[Row(w)])
<1>1. WorkerOK(worker[w]) /\ worker[w] \in Frame
  BY DEF JobsInv
<1>2. worker[w].op # "none" => Row(w) \in Requests
  BY <1>1 DEF WorkerOK, FrameOK, Row
<1>3. QED
  BY <1>1, <1>2 DEF JobsInv, WorkerOK, Row

\* Rows that others move on still fit a frame that does not own them, or whose
\* job is saved.
LEMMA FitsOnward ==
    ASSUME NEW f, FrameOK(f), NEW j, NEW q, NEW v, NEW u, NEW j2, NEW q2, NEW v2, NEW u2,
           Fits(f, j, q, v, u), Go(j, q, v, u, j2, q2, v2, u2), ~ f.owns \/ j # NoJob
    PROVE  Fits(f, j2, q2, v2, u2)
<1>1. CASE f.op \in Observers
  BY <1>1 DEF Fits, Go, FrameOK, Creating, Finishing, Observers
<1>2. CASE f.op \notin Observers /\ ~ f.owns
  <2>1. f.op \in {"none", "create"}
    BY <1>2 DEF FrameOK, Frame, Observers
  <2>2. QED
    BY <1>2, <2>1 DEF Fits, FrameOK, Creating, Finishing, Observers, Terminal
<1>3. CASE f.op \notin Observers /\ f.owns
  BY <1>3 DEF Fits, Go, FrameOK, Creating, Finishing
<1>4. QED
  BY <1>1, <1>2, <1>3

\* Workers on other jobs do not see the step, and those on the same job do not
\* own its rows, or the job is saved.
LEMMA WorkerKeeps ==
    ASSUME JobsInv, NEW w \in Workers, NEW g, Keeps(w, g)
    PROVE  JobsInv'
<1>1. RowInv'
  BY NextRows DEF Keeps, Effect, JobsInv
<1>2. worker' = [worker EXCEPT ![w] = g] /\ worker \in [Workers -> Frame] /\ g \in Frame
  BY DEF Keeps, Step, Settles, FrameOK, JobsInv
<1>3. worker' \in [Workers -> Frame] /\ worker'[w] = g /\ \A x \in Workers \ {w} : worker'[x] = worker[x]
  BY <1>2
<1>4. \A r \in Requests : RowsGo(r) /\ Known(job'[r], request'[r], reservation'[r], upstream'[r])
  <2>1. ASSUME NEW r \in Requests, r # Row(w)
        PROVE  RowsGo(r) /\ Known(job'[r], request'[r], reservation'[r], upstream'[r])
    BY <2>1 DEF Keeps, Effect, RowsKept, RowsGo, Go, JobsInv
  <2>2. QED
    BY <2>1 DEF Keeps, Effect
<1>5. ASSUME NEW x \in Workers \ {w}, worker[x].op # "none"
      PROVE  Fits(worker[x], job'[Row(x)], request'[Row(x)], reservation'[Row(x)], upstream'[Row(x)])
  <2> DEFINE f == worker[x]
             r == Row(x)
  <2>1. /\ FrameOK(f) /\ r \in Requests
        /\ Fits(f, job[r], request[r], reservation[r], upstream[r])
    BY <1>5, OfWorker
  <2>2. CASE RowsKept(r)
    BY <2>1, <2>2 DEF RowsKept
  <2>3. CASE ~ RowsKept(r)
    <3>1. r = Row(w) /\ (worker[w].owns \/ job[r] # NoJob \/ request[r].status = "none")
      BY <2>1, <2>3 DEF Keeps, Effect
    <3>2. ~ f.owns \/ job[r] # NoJob
      BY <2>1, <3>1 DEF JobsInv, OneOwner, Fits
    <3>3. RowsGo(r)
      BY <1>4, <2>1
    <3>4. QED
      BY <2>1, <3>2, <3>3, FitsOnward DEF RowsGo
  <2>4. QED
    BY <2>2, <2>3
<1>6. ASSUME NEW x \in Workers PROVE WorkerOK(worker[x])'
  <2>1. CASE x = w
    BY <1>3, <2>1 DEF Keeps, Settles, WorkerOK, Waiting
  <2>2. CASE x # w
    <3>1. \A i \in DOMAIN worker[x].todo : worker[x].todo[i] \in Requests
      BY OfWorker DEF Frame
    <3>2. \A i \in DOMAIN worker[x].todo : job'[worker[x].todo[i]] # NoJob
      BY <1>4, <3>1, OfWorker DEF Waiting, RowsGo, Go
    <3>3. QED
      BY <1>3, <1>5, <2>2, <3>2, OfWorker DEF WorkerOK, Waiting, Row
  <2>3. QED
    BY <2>1, <2>2
<1>7. OneOwner'
  <2>1. SUFFICES ASSUME NEW x \in Workers, NEW y \in Workers, worker'[x].owns, worker'[y].owns,
                        worker'[x].row = worker'[y].row
                 PROVE  x = y
    BY DEF OneOwner, Row
  <2>2. ASSUME NEW z \in Workers, z # w, worker[z].owns, g.owns, worker[z].row = g.row
        PROVE  FALSE
    <3>1. g.row = Row(w) /\ (worker[w].owns \/ request[g.row].status = "none")
      BY <2>2 DEF Keeps, Settles
    <3>2. request[worker[z].row].status # "none"
      BY <2>2, OfWorker DEF FrameOK, Fits, Row
    <3>3. QED
      BY <2>2, <3>1, <3>2 DEF JobsInv, OneOwner, Row
  <2>3. CASE x # w /\ y # w
    BY <1>3, <2>1, <2>3 DEF JobsInv, OneOwner, Row
  <2>4. CASE x = w /\ y # w
    BY <1>3, <2>1, <2>2, <2>4
  <2>5. CASE x # w /\ y = w
    BY <1>3, <2>1, <2>2, <2>5
  <2>6. QED
    BY <2>3, <2>4, <2>5
<1>8. QED
  BY <1>1, <1>3, <1>4, <1>6, <1>7 DEF JobsInv, Keeps, Effect

-----------------------------------------------------------------------------
(* The tables after a step                                                 *)

\* A step that touches no row of a request, no job and no provider.
LEMMA QuietEffect ==
    ASSUME JobsInv, NEW w \in Workers, [Next]_vars,
           UNCHANGED <<request, reservation, jobVars, upstream>>
    PROVE  Effect(w)
<1>1. /\ job' = job /\ updated' = updated /\ upstream' = upstream
      /\ request' = request /\ reservation' = reservation
  BY DEF jobVars
<1>2. TablesOK'
  BY <1>1 DEF JobsInv, TablesOK
<1>3. ASSUME NEW r \in Requests
      PROVE  /\ RowsKept(r) /\ RowsGo(r) /\ DoneAndCharged(r)
             /\ Known(job'[r], request'[r], reservation'[r], upstream'[r])
  BY <1>1 DEF JobsInv, RowsKept, RowsGo, Go, DoneAndCharged
<1>4. QED
  BY <1>2, <1>3 DEF Effect

\* A step of a worker between two accesses.
LEMMA LocalEffect ==
    ASSUME JobsInv, NEW w \in Workers, UNCHANGED <<vars, jobVars, upstream>>
    PROVE  Effect(w)
<1>1. UNCHANGED vars /\ UNCHANGED <<request, reservation, jobVars, upstream>>
  BY DEF vars
<1>2. QED
  BY <1>1, QuietEffect

\* An operation of Billing on the rows of the worker's request.
LEMMA BillingEffect ==
    ASSUME JobsInv, NEW w \in Workers, Next, UNCHANGED <<jobVars, upstream>>,
           NEW r \in Requests, r = Row(w), NEW q, NEW v, NEW c, Becomes(r, q, v, c),
           q # "none", request[r].status # "none" => (v = "none" <=> reservation[r].status = "none"),
           reservation[r].status \in {"pending", "settled"} => v \in {"pending", "settled"},
           reservation[r].status = "held" /\ v = "settled" => upstream[r].status \in Terminal,
           job[r] # NoJob => v # "released" /\ (v # "none" => c = job[r].channel),
           worker[w].owns \/ job[r] # NoJob \/ request[r].status = "none"
    PROVE  Effect(w)
<1>1. job' = job /\ updated' = updated /\ upstream' = upstream
  BY DEF jobVars
<1>2. TablesOK'
  BY <1>1 DEF JobsInv, TablesOK
<1>3. \A s \in Requests \ {r} : RowsKept(s)
  BY <1>1 DEF Becomes, OthersKept, RowsKept
<1>4. request'[r].status = q /\ reservation'[r].status = v /\ request'[r].channel = c
  BY DEF Becomes
<1>5. RowsGo(r)
  BY <1>1, <1>4 DEF RowsGo, Go
<1>6. DoneAndCharged(r)
  <2>1. job'[r].status = job[r].status
    BY <1>1
  <2>2. ~ (job[r].status = "running" /\ job'[r].status = "completed")
    BY <2>1
  <2>3. QED
    BY <1>4, <2>2 DEF DoneAndCharged
<1>7. Known(job'[r], request'[r], reservation'[r], upstream'[r])
  <2>1. Known(job[r], request[r], reservation[r], upstream[r])
    BY DEF JobsInv
  <2>2. QED
    BY <1>1, <1>4, <2>1 DEF Known
<1>8. QED
  BY <1>2, <1>3, <1>5, <1>6, <1>7 DEF Effect

-----------------------------------------------------------------------------
(* The frame after a step                                                  *)

\* A frame that begins its work, or has none.
Resting(g) ==
    /\ FrameOK(g) /\ Waiting(g) /\ ~ g.owns
    /\ g.op # "none" => Fits(g, job[g.row], request[g.row], reservation[g.row], upstream[g.row])

\* It still fits after any step.
LEMMA RestingSettles ==
    ASSUME JobsInv, NEW w \in Workers, NEW g, Resting(g), Effect(w)
    PROVE  Settles(w, g)
<1>1. \A r \in Requests : RowsGo(r)
  BY DEF Effect, RowsKept, RowsGo, Go
<1>2. \A i \in DOMAIN g.todo : job'[g.todo[i]] # NoJob
  <2>1. \A i \in DOMAIN g.todo : g.todo[i] \in Requests
    BY DEF Resting, FrameOK, Frame
  <2>2. QED
    BY <1>1, <2>1 DEF Resting, Waiting, RowsGo, Go
<1>3. ASSUME g.op # "none"
      PROVE  Fits(g, job'[g.row], request'[g.row], reservation'[g.row], upstream'[g.row])
  <2>1. g.row \in Requests
    BY <1>3 DEF Resting, FrameOK
  <2>2. RowsGo(g.row)
    BY <1>1, <2>1
  <2>3. QED
    BY <1>3, <2>2, FitsOnward DEF Resting, RowsGo
<1>4. QED
  BY <1>2, <1>3 DEF Settles, Resting

\* No work, or a stopped server.
LEMMA IdleRests ==
    /\ Idle \in Frame /\ Resting(Idle)
    /\ Resting([Idle EXCEPT !.pc = "down"])
<1>1. Idle \in Frame
  <2>1. <<>> \in Seq(Requests)
    OBVIOUS
  <2>2. QED
    BY <2>1 DEF Idle, Frame, Phases
<1>2. ASSUME NEW g \in Frame, g.op = "none", g.pc \in {"idle", "down"}, g.via = NoChannel,
             ~ g.owns, g.status = "none", g.todo = <<>>
      PROVE  Resting(g)
  <2>1. FrameOK(g)
    BY <1>2 DEF FrameOK, Creating, Finishing, Observers
  <2>2. DOMAIN g.todo = {}
    BY <1>2
  <2>3. QED
    BY <1>2, <2>1, <2>2 DEF Resting, Waiting
<1>3. [Idle EXCEPT !.pc = "down"] \in Frame
  <2> HIDE DEF Idle
  <2>1. QED
    BY <1>1 DEF Frame, Phases
<1>4. QED
  BY <1>1, <1>2, <1>3 DEF Idle

\* The visit of a job that is saved.
LEMMA VisitRests ==
    ASSUME JobsInv, NEW op \in Observers, NEW r \in Requests, job[r] # NoJob,
           NEW rest \in Seq(Requests), \A i \in DOMAIN rest : job[rest[i]] # NoJob
    PROVE  Resting(Visit(op, r, rest))
<1> DEFINE g == Visit(op, r, rest)
<1>1. /\ job[r].status \in {"running"} \cup Terminal /\ job[r].channel \in Channels
      /\ Known(job[r], request[r], reservation[r], upstream[r])
  BY DEF JobsInv, TablesOK, JobRow, Known
<1>2. /\ g.op = op /\ g.row = r /\ g.todo = rest /\ g.paid = PaidJob(r) /\ g.tried = {}
      /\ g.via = job[r].channel /\ g.status = job[r].status /\ g.owns = FALSE /\ g.usage = NoUsage
      /\ g.pc \in {"extend", "ask"}
  BY DEF Visit, Idle
<1>3. g.paid \in BOOLEAN
  BY <1>2 DEF PaidJob
<1>4. PaidJob(r) \in BOOLEAN
  BY DEF PaidJob
<1>5. g \in Frame
  <2>1. ASSUME NEW f \in Frame, NEW paid \in BOOLEAN, NEW via \in Channels, NEW status \in {"running"} \cup Terminal,
               NEW pc \in {"extend", "ask"}
        PROVE  [f EXCEPT !.op = op, !.row = r, !.todo = rest, !.paid = paid, !.via = via,
                         !.status = status, !.pc = pc] \in Frame
    BY DEF Frame, Phases, Observers
  <2>2. QED
    BY <1>1, <1>4, <2>1, IdleRests, Zenon DEF Visit
<1> HIDE DEF g
<1>6. FrameOK(g)
  BY <1>1, <1>2, <1>5 DEF FrameOK, Creating, Finishing, Observers, Terminal
<1>7. Fits(g, job[r], request[r], reservation[r], upstream[r])
  BY <1>1, <1>2 DEF Fits, Known, PaidJob, Creating, Finishing, Observers, Terminal
<1>8. QED
  BY <1>2, <1>6, <1>7 DEF Resting, Waiting, g

\* The next job of a sweep, or nothing.
LEMMA LeaveRests ==
    ASSUME JobsInv, NEW w \in Workers
    PROVE  Resting(Leave(w))
<1>1. CASE worker[w].todo = <<>>
  BY <1>1, IdleRests DEF Leave
<1>2. CASE worker[w].todo # <<>>
  <2> DEFINE todo == worker[w].todo
  <2>1. todo \in Seq(Requests) /\ \A i \in DOMAIN todo : job[todo[i]] # NoJob
    BY OfWorker DEF Frame, Waiting
  <2> HIDE DEF todo
  <2>2. /\ Head(todo) \in Requests /\ Tail(todo) \in Seq(Requests) /\ Len(todo) \in Nat \ {0}
        /\ Head(todo) = todo[1] /\ 1 \in DOMAIN todo
        /\ \A i \in DOMAIN Tail(todo) : Tail(todo)[i] = todo[i + 1] /\ i + 1 \in DOMAIN todo
    BY <1>2, <2>1 DEF todo
  <2>3. job[Head(todo)] # NoJob /\ \A i \in DOMAIN Tail(todo) : job[Tail(todo)[i]] # NoJob
    BY <2>1, <2>2
  <2>4. Leave(w) = Visit("sweep", Head(todo), Tail(todo))
    BY <1>2 DEF Leave, todo
  <2>5. QED
    BY <2>2, <2>3, <2>4, VisitRests DEF Observers
<1>3. QED
  BY <1>1, <1>2

\* The frame at another phase.
LEMMA AtFields ==
    ASSUME JobsInv, NEW w \in Workers, NEW pc \in Phases
    PROVE  /\ At(w, pc) \in Frame /\ At(w, pc).pc = pc
           /\ At(w, pc).op = worker[w].op /\ At(w, pc).row = Row(w) /\ At(w, pc).paid = worker[w].paid
           /\ At(w, pc).tried = worker[w].tried /\ At(w, pc).via = worker[w].via
           /\ At(w, pc).owns = worker[w].owns /\ At(w, pc).status = worker[w].status
           /\ At(w, pc).usage = worker[w].usage /\ At(w, pc).todo = worker[w].todo
BY OfWorker DEF At, Row, Frame

\* A frame g that goes on with the same request.
Same(w, g) == /\ g.op = worker[w].op /\ g.row = Row(w) /\ g.paid = worker[w].paid
              /\ g.todo = worker[w].todo /\ (g.owns => worker[w].owns \/ request[g.row].status = "none")

\* A step that changes neither the worker's row nor its visit settles as the row says.
LEMMA SameSettles ==
    ASSUME JobsInv, NEW w \in Workers, worker[w].op # "none", Effect(w), NEW g, FrameOK(g), Same(w, g),
           Fits(g, job'[Row(w)], request'[Row(w)], reservation'[Row(w)], upstream'[Row(w)])
    PROVE  Settles(w, g)
<1>1. \A i \in DOMAIN g.todo : g.todo[i] \in Requests /\ job[g.todo[i]] # NoJob
  BY OfWorker DEF Frame, Same, Waiting
<1>2. \A r \in Requests : job[r] # NoJob => job'[r] # NoJob
  BY DEF Effect, RowsKept, RowsGo, Go
<1>3. QED
  BY <1>1, <1>2 DEF Settles, Same

\* When the job is saved, or a failure is being written down, the rows must
\* agree with the frame only in what no other worker changes.
LEMMA LaterSettles ==
    ASSUME JobsInv, NEW w \in Workers, Effect(w), NEW g, FrameOK(g), Same(w, g),
           g.op # "none", g.pc \notin Creating \cup {"update"},
           g.via = worker[w].via, g.owns = worker[w].owns,
           g.status \in Terminal => upstream'[Row(w)].status \in Terminal,
           g.pc \in Finishing => job'[Row(w)] # NoJob /\ g.via = job'[Row(w)].channel
    PROVE  Settles(w, g)
<1> DEFINE f == worker[w]
           r == Row(w)
<1>1. /\ FrameOK(f) /\ r \in Requests
      /\ Fits(f, job[r], request[r], reservation[r], upstream[r])
  BY OfWorker DEF Same
<1>2. Go(job[r], request[r], reservation[r], upstream[r], job'[r], request'[r], reservation'[r], upstream'[r])
  BY <1>1 DEF Effect, RowsGo
<1>3. f.op = g.op /\ f.paid = g.paid
  BY DEF Same
<1>4. Fits(g, job'[r], request'[r], reservation'[r], upstream'[r])
  BY <1>1, <1>2, <1>3 DEF Fits, Go, Creating
<1>5. QED
  BY <1>3, <1>4, SameSettles

\* Returning fits whatever the step did.
LEMMA LeaveKeeps ==
    ASSUME JobsInv, NEW w \in Workers, Effect(w), Step(w, Leave(w))
    PROVE  \E g : Keeps(w, g)
BY LeaveRests, RestingSettles DEF Keeps

-----------------------------------------------------------------------------
(* CreateVideo                                                             *)

\* A request for a video opens a hold or a free row, and its handler has it.
LEMMA ArriveKeeps ==
    ASSUME JobsInv, NEW w \in Workers, NEW r \in Requests, Arrive(w, r)
    PROVE  \E g : Keeps(w, g)
<1>1. PICK paid \in BOOLEAN :
         Step(w, [Idle EXCEPT !.op = "create", !.pc = "pick", !.row = r, !.paid = paid])
  <2>1. PICK type \in BillingTypes :
           Step(w, [Idle EXCEPT !.op = "create", !.pc = "pick", !.row = r, !.paid = type # "free"])
    BY DEF Arrive
  <2>2. (type # "free") \in BOOLEAN
    OBVIOUS
  <2>3. QED
    BY <2>1, <2>2
<1> DEFINE g == [Idle EXCEPT !.op = "create", !.pc = "pick", !.row = r, !.paid = paid]
<1>2. Effect(w)
  BY LocalEffect DEF Arrive, Local
<1>3. g \in Frame
  <2> HIDE DEF Idle
  <2>1. QED
    BY IdleRests DEF Frame, Phases
<1>4. /\ g.op = "create" /\ g.pc = "pick" /\ g.row = r /\ g.paid = paid /\ ~ g.owns
      /\ g.status = "none" /\ g.todo = <<>>
  BY DEF Idle
<1> HIDE DEF g
<1>5. FrameOK(g)
  BY <1>3, <1>4 DEF FrameOK, Creating, Finishing, Observers
<1>6. Fits(g, job[r], request[r], reservation[r], upstream[r])
  BY <1>4 DEF Fits, Creating, Finishing, Observers, Terminal
<1>7. DOMAIN g.todo = {}
  BY <1>4
<1>8. Resting(g)
  BY <1>4, <1>5, <1>6, <1>7 DEF Resting, Waiting
<1>9. QED
  BY <1>1, <1>2, <1>8, RestingSettles DEF Keeps, g

\* A channel is picked while the rows of the handler have no job yet.
LEMMA PickChannelKeeps ==
    ASSUME JobsInv, NEW w \in Workers, PickChannel(w)
    PROVE  \E g : Keeps(w, g)
<1> DEFINE f == worker[w]
           r == Row(w)
<1>1. Effect(w)
  BY LocalEffect DEF PickChannel, Local
<1>2. f.pc = "pick" /\ f.op = "create" /\ f.op # "none"
  BY OfWorker DEF PickChannel, FrameOK, Creating
<1>3. /\ f \in Frame /\ FrameOK(f) /\ r \in Requests
      /\ Fits(f, job[r], request[r], reservation[r], upstream[r])
  BY <1>2, OfWorker
<1>4. /\ job' = job /\ request' = request /\ reservation' = reservation /\ upstream' = upstream
  BY DEF PickChannel, Local, vars, jobVars
<1>5. PICK c \in Channels, pc \in {"pick", "start", "bind", "submit"} :
         /\ Step(w, [[f EXCEPT !.tried = @ \cup {c}, !.via = c] EXCEPT !.pc = pc])
         /\ pc \in {"bind", "submit"} => f.owns /\ (f.paid <=> pc = "bind")
         /\ pc = "start" => ~ f.owns
  <2>1. PICK c \in Channels :
           LET frame == [f EXCEPT !.tried = @ \cup {c}, !.via = c]
           IN  \/ Step(w, frame)
               \/ Step(w, [frame EXCEPT !.pc = IF ~f.owns THEN "start"
                                               ELSE IF f.paid THEN "bind" ELSE "submit"])
    BY DEF PickChannel
  <2> DEFINE frame == [f EXCEPT !.tried = @ \cup {c}, !.via = c]
  <2>2. frame \in Frame /\ frame.pc = "pick"
    BY <1>2, <1>3 DEF Frame
  <2> HIDE DEF frame
  <2>3. frame = [frame EXCEPT !.pc = "pick"]
    BY <2>2 DEF Frame
  <2>4. \/ Step(w, [frame EXCEPT !.pc = "pick"])
        \/ Step(w, [frame EXCEPT !.pc = IF ~f.owns THEN "start"
                                        ELSE IF f.paid THEN "bind" ELSE "submit"])
    BY <2>1, <2>3 DEF frame
  <2>5. \E pc \in {"pick", "start", "bind", "submit"} :
           /\ Step(w, [frame EXCEPT !.pc = pc])
           /\ pc \in {"bind", "submit"} => f.owns /\ (f.paid <=> pc = "bind")
           /\ pc = "start" => ~ f.owns
    <3> HIDE DEF f
    <3>1. CASE ~ f.owns
      BY <2>4, <3>1
    <3>2. CASE f.owns
      BY <2>4, <3>2
    <3>3. QED
      BY <3>1, <3>2
  <2>6. QED
    BY <2>5 DEF frame
<1> DEFINE g == [[f EXCEPT !.tried = @ \cup {c}, !.via = c] EXCEPT !.pc = pc]
<1>6. /\ g \in Frame /\ g.op = f.op /\ g.row = r /\ g.paid = f.paid /\ g.owns = f.owns
      /\ g.status = f.status /\ g.usage = f.usage /\ g.todo = f.todo /\ g.via = c /\ g.pc = pc
  BY <1>3 DEF Frame, Phases, Row
<1> HIDE DEF g
<1>7. FrameOK(g)
  BY <1>2, <1>3, <1>5, <1>6 DEF FrameOK, Creating, Finishing, Observers
<1>8. Fits(g, job[r], request[r], reservation[r], upstream[r])
  BY <1>2, <1>3, <1>5, <1>6 DEF Fits, Creating, Finishing, Observers
<1>9. Same(w, g)
  BY <1>6 DEF Same
<1>10. QED
  BY <1>1, <1>2, <1>4, <1>5, <1>7, <1>8, <1>9, SameSettles DEF Keeps, g

\* The frame of a handler that has not saved its job.
LEMMA Creator ==
    ASSUME JobsInv, NEW w \in Workers, worker[w].pc \in Creating
    PROVE  /\ worker[w].op = "create" /\ worker[w] \in Frame /\ Row(w) \in Requests
           /\ FrameOK(worker[w])
           /\ Fits(worker[w], job[Row(w)], request[Row(w)], reservation[Row(w)], upstream[Row(w)])
           /\ Known(job[Row(w)], request[Row(w)], reservation[Row(w)], upstream[Row(w)])
BY OfWorker DEF FrameOK

\* It may try the next channel, or give up.
LEMMA BackKeeps ==
    ASSUME JobsInv, NEW w \in Workers, worker[w].pc \in Creating \ {"fail"}, Effect(w),
           NEW pc \in {"pick", "fail"}, Step(w, At(w, pc)),
           reservation'[Row(w)].status = reservation[Row(w)].status, upstream' = upstream,
           job'[Row(w)] = job[Row(w)] \/ (pc = "fail" /\ ~ worker[w].paid)
    PROVE  \E g : Keeps(w, g)
<1> DEFINE f == worker[w]
           r == Row(w)
           g == At(w, pc)
<1>1. /\ f.op = "create" /\ f \in Frame /\ r \in Requests /\ FrameOK(f)
      /\ Fits(f, job[r], request[r], reservation[r], upstream[r])
  BY Creator
<1>2. /\ g \in Frame /\ g.pc = pc /\ g.op = f.op /\ g.row = r /\ g.paid = f.paid /\ g.via = f.via
      /\ g.owns = f.owns /\ g.status = f.status /\ g.usage = f.usage /\ g.todo = f.todo
  BY AtFields DEF Phases
<1> HIDE DEF g
<1>3. FrameOK(g)
  BY <1>1, <1>2 DEF FrameOK, Creating, Finishing, Observers
<1>4. request[r].status # "none" => request'[r].status # "none"
  BY <1>1 DEF Effect, RowsGo, Go
<1>5. Fits(g, job'[r], request'[r], reservation'[r], upstream'[r])
  BY <1>1, <1>2, <1>4 DEF Fits, Creating, Finishing, Observers
<1>6. Same(w, g)
  BY <1>2 DEF Same
<1>7. QED
  BY <1>1, <1>3, <1>5, <1>6, SameSettles DEF Keeps, g

\* No channel is left: the handler goes to close its rows.
LEMMA ExhaustedKeeps ==
    ASSUME JobsInv, NEW w \in Workers, Exhausted(w)
    PROVE  \E g : Keeps(w, g)
<1>1. Effect(w) /\ worker[w].pc \in Creating \ {"fail"}
  BY LocalEffect DEF Exhausted, Local, Creating
<1>2. job' = job /\ reservation' = reservation /\ upstream' = upstream /\ Step(w, At(w, "fail"))
  BY DEF Exhausted, Local, vars, jobVars
<1>3. QED
  BY <1>1, <1>2, BackKeeps

\* A paid request passes over a channel without a price.
LEMMA PassOverKeeps ==
    ASSUME JobsInv, NEW w \in Workers, worker[w].pc \in Creating \ {"fail"}, PassOver(w)
    PROVE  \E g : Keeps(w, g)
<1>1. Effect(w)
  BY LocalEffect DEF PassOver, Local
<1>2. job' = job /\ reservation' = reservation /\ upstream' = upstream /\ Step(w, At(w, "pick"))
  BY DEF PassOver, Local, vars, jobVars
<1>3. QED
  BY <1>1, <1>2, BackKeeps

\* The admission, and the frame that owns its rows.
LEMMA StartKeeps ==
    ASSUME JobsInv, NEW w \in Workers, Start(w)
    PROVE  \E g : Keeps(w, g)
<1> DEFINE f == worker[w]
           r == Row(w)
           pc == IF f.paid THEN "bind" ELSE "submit"
           g == [At(w, pc) EXCEPT !.owns = TRUE]
           Admission == IF f.paid THEN Reserve(r, f.via, EstimateOf[r]) ELSE StartFreeRequest(r, f.via)
<1>1. /\ f.op = "create" /\ f \in Frame /\ r \in Requests /\ FrameOK(f) /\ f.pc = "start"
      /\ f.via \in Channels /\ Known(job[r], request[r], reservation[r], upstream[r])
      /\ Fits(f, job[r], request[r], reservation[r], upstream[r])
  BY Creator DEF Start, Creating, FrameOK
<1>2. ASSUME Admission, UNCHANGED <<jobVars, upstream>>
      PROVE  /\ Effect(w) /\ job' = job /\ upstream' = upstream /\ request[r].status = "none"
             /\ request'[r].status = "started" /\ request'[r].channel = f.via
             /\ reservation'[r].status = IF f.paid THEN "held" ELSE "none"
  <2> DEFINE v == IF f.paid THEN "held" ELSE "none"
  <2>1. EstimateOf[r] \in Usages /\ RowInv
    BY <1>1, JobsAssumption DEF JobsInv
  <2>2. Next /\ request[r].status = "none" /\ Becomes(r, "started", v, f.via)
    BY <1>1, <1>2, <2>1, PaidEffects, FreeEffects, OperationsAreSteps
  <2>3. job[r] = NoJob /\ reservation[r].status = "none"
    BY <1>1, <2>1, <2>2, StatusPairs DEF Known
  <2>4. Effect(w)
    BY <1>1, <1>2, <2>2, <2>3, BillingEffect
  <2>5. QED
    BY <1>2, <2>2, <2>4 DEF Becomes, jobVars
<1>3. CASE Admission /\ UNCHANGED <<jobVars, upstream>> /\ Step(w, g)
  <2>1. /\ At(w, pc) \in Frame /\ At(w, pc).pc = pc /\ At(w, pc).op = f.op /\ At(w, pc).row = r
        /\ At(w, pc).paid = f.paid /\ At(w, pc).via = f.via /\ At(w, pc).status = f.status
        /\ At(w, pc).todo = f.todo
    BY AtFields DEF Phases
  <2>2. /\ g \in Frame /\ g.pc = pc /\ g.op = f.op /\ g.row = r /\ g.paid = f.paid /\ g.via = f.via
        /\ g.owns = TRUE /\ g.status = f.status /\ g.todo = f.todo
    <3> DEFINE h == At(w, pc)
    <3> HIDE DEF h
    <3>1. [h EXCEPT !.owns = TRUE] \in Frame /\ h \in Frame
      BY <2>1 DEF Frame, h
    <3>2. QED
      BY <2>1, <3>1 DEF Frame, h
  <2> HIDE DEF g
  <2>3. FrameOK(g)
    BY <1>1, <2>2 DEF FrameOK, Creating, Finishing, Observers
  <2>4. job[r] = NoJob
    BY <1>1, <1>2, <1>3 DEF Known
  <2>5. Fits(g, job'[r], request'[r], reservation'[r], upstream'[r])
    BY <1>1, <1>2, <1>3, <2>2, <2>4 DEF Fits, Creating, Finishing, Observers
  <2>6. Same(w, g)
    BY <1>2, <1>3, <2>2 DEF Same
  <2>7. QED
    BY <1>1, <1>2, <1>3, <2>3, <2>5, <2>6, SameSettles DEF Keeps
<1>4. CASE Admission /\ UNCHANGED <<jobVars, upstream>> /\ Step(w, Leave(w))
  BY <1>2, <1>4, LeaveKeeps
<1>5. CASE UNCHANGED <<vars, jobVars, upstream>> /\ Step(w, Leave(w))
  BY <1>5, LocalEffect, LeaveKeeps
<1>6. CASE PassOver(w)
  BY <1>1, <1>6, PassOverKeeps DEF Creating
<1>7. QED
  BY <1>3, <1>4, <1>5, <1>6 DEF Start, BillingAccess, Access

\* What a binding to channel c does to the rows of a worker whose request is
\* held, or whose job runs on c.
LEMMA BindEffect ==
    ASSUME JobsInv, NEW w \in Workers, worker[w].op # "none", worker[w].via \in Channels,
           BindChannel(w), UNCHANGED <<jobVars, upstream>>,
           worker[w].owns \/ job[Row(w)] # NoJob,
           job[Row(w)] # NoJob => worker[w].via = job[Row(w)].channel
    PROVE  /\ Effect(w) /\ job' = job /\ upstream' = upstream
           /\ reservation'[Row(w)].status = reservation[Row(w)].status
           /\ reservation[Row(w)].status \in Open => request'[Row(w)].channel = worker[w].via
<1> DEFINE f == worker[w]
           r == Row(w)
<1>1. /\ r \in Requests /\ RowInv /\ Known(job[r], request[r], reservation[r], upstream[r])
  BY OfWorker DEF JobsInv
<1>2. job' = job /\ upstream' = upstream
  BY DEF jobVars
<1>3. CASE RebindReservationChannel(r, f.via)
  <2>1. /\ Next /\ reservation[r].status \in Open
        /\ Becomes(r, request[r].status, reservation[r].status, f.via)
    BY <1>1, <1>3, PaidEffects, OperationsAreSteps
  <2>2. request[r].status # "none"
    BY <1>1, <2>1, StatusPairs DEF Open
  <2>3. Effect(w)
    BY <1>1, <2>1, <2>2, BillingEffect DEF Open, Known
  <2>4. QED
    BY <1>2, <2>1, <2>3 DEF Becomes
<1>4. CASE Nothing(reservation[r].status = "settled")
  <2>1. UNCHANGED <<vars, jobVars, upstream>> /\ reservation' = reservation
    BY <1>4 DEF Nothing, vars
  <2>2. QED
    BY <1>2, <1>4, <2>1, LocalEffect DEF Nothing, Open
<1>5. QED
  BY <1>3, <1>4 DEF BindChannel

\* The hold follows the channel that is tried.
LEMMA BindKeeps ==
    ASSUME JobsInv, NEW w \in Workers, Bind(w)
    PROVE  \E g : Keeps(w, g)
<1> DEFINE f == worker[w]
           r == Row(w)
           g == At(w, "submit")
<1>1. /\ f.op = "create" /\ f \in Frame /\ r \in Requests /\ FrameOK(f) /\ f.pc = "bind"
      /\ f.pc \in Creating \ {"fail"} /\ f.via \in Channels /\ f.owns /\ f.paid
      /\ Fits(f, job[r], request[r], reservation[r], upstream[r])
  BY Creator DEF Bind, Creating, FrameOK
<1>2. job[r] = NoJob /\ reservation[r].status \in {"held", "expired"}
  BY <1>1 DEF Fits
<1>3. ASSUME BindChannel(w), UNCHANGED <<jobVars, upstream>>
      PROVE  /\ Effect(w) /\ job' = job /\ upstream' = upstream
             /\ reservation'[r].status = reservation[r].status
             /\ request'[r].channel = f.via
  <2>1. reservation[r].status \in Open
    BY <1>2, <1>3 DEF BindChannel, RebindReservationChannel, Nothing
  <2>2. QED
    BY <1>1, <1>2, <1>3, <2>1, BindEffect
<1>4. CASE BindChannel(w) /\ UNCHANGED <<jobVars, upstream>> /\ Step(w, g)
  <2>1. /\ g \in Frame /\ g.pc = "submit" /\ g.op = f.op /\ g.row = r /\ g.paid = f.paid /\ g.via = f.via
        /\ g.owns = f.owns /\ g.status = f.status /\ g.usage = f.usage /\ g.todo = f.todo
    BY AtFields DEF Phases
  <2> HIDE DEF g
  <2>2. FrameOK(g)
    BY <1>1, <2>1 DEF FrameOK, Creating, Finishing, Observers
  <2>3. request'[r].status # "none"
    BY <1>1, <1>3, <1>4 DEF Effect, RowsGo, Go, Fits
  <2>4. Fits(g, job'[r], request'[r], reservation'[r], upstream'[r])
    BY <1>1, <1>3, <1>4, <2>1, <2>3 DEF Fits, Creating, Finishing, Observers
  <2>5. Same(w, g)
    BY <2>1 DEF Same
  <2>6. QED
    BY <1>1, <1>3, <1>4, <2>2, <2>4, <2>5, SameSettles DEF Keeps, g
<1>5. CASE BindChannel(w) /\ UNCHANGED <<jobVars, upstream>> /\ Step(w, At(w, "fail"))
  BY <1>1, <1>3, <1>5, BackKeeps
<1>6. CASE UNCHANGED <<vars, jobVars, upstream>> /\ Step(w, At(w, "fail"))
  <2>1. Effect(w) /\ job' = job /\ upstream' = upstream /\ reservation' = reservation
    BY <1>6, LocalEffect DEF vars, jobVars
  <2>2. QED
    BY <1>1, <1>6, <2>1, BackKeeps
<1>7. CASE PassOver(w)
  BY <1>1, <1>7, PassOverKeeps
<1>8. QED
  BY <1>4, <1>5, <1>6, <1>7 DEF Bind, BillingAccess, Access

\* The provider's first answer about a job.
LEMMA SubmitKeeps ==
    ASSUME JobsInv, NEW w \in Workers, Submit(w)
    PROVE  \E g : Keeps(w, g)
<1> DEFINE f == worker[w]
           r == Row(w)
<1>1. /\ f.op = "create" /\ f \in Frame /\ r \in Requests /\ FrameOK(f) /\ f.pc = "submit"
      /\ f.pc \in Creating \ {"fail"} /\ f.via \in Channels /\ f.owns
      /\ Fits(f, job[r], request[r], reservation[r], upstream[r])
  BY Creator DEF Submit, Creating, FrameOK
<1>2. /\ job' = job /\ updated' = updated /\ request' = request /\ reservation' = reservation
      /\ UNCHANGED vars /\ UNCHANGED jobVars /\ job[r] = NoJob
  BY <1>1 DEF Submit, vars, jobVars, Fits
<1>3. ASSUME NEW a \in Answers, upstream' = [upstream EXCEPT ![r] = a],
             Step(w, [At(w, "persist") EXCEPT !.status = a.status, !.usage = a.usage])
      PROVE  \E g : Keeps(w, g)
  <2> DEFINE h == At(w, "persist")
             g == [h EXCEPT !.status = a.status, !.usage = a.usage]
  <2>1. /\ upstream \in [Requests -> Answers \cup {NoAnswer}] /\ upstream'[r] = a
        /\ \A s \in Requests \ {r} : upstream'[s] = upstream[s]
        /\ upstream' \in [Requests -> Answers \cup {NoAnswer}]
    BY <1>1, <1>3 DEF JobsInv, TablesOK
  <2>2. /\ a.status \in {"running"} \cup Terminal /\ a.usage \in Usages \cup {NoUsage} /\ a.usage # 0
    <3>1. NoUsage # 0
      BY SentinelsAssumption, SizesAssumption DEF Usages
    <3>2. QED
      BY <3>1 DEF Answers
  <2>3. Effect(w)
    <3>1. TablesOK'
      BY <1>2, <2>1 DEF JobsInv, TablesOK
    <3>2. RowsGo(r) /\ DoneAndCharged(r)
      BY <1>2 DEF RowsGo, Go, DoneAndCharged
    <3>3. Known(job'[r], request'[r], reservation'[r], upstream'[r])
      BY <1>2 DEF Known
    <3>4. \A s \in Requests \ {r} : RowsKept(s)
      BY <1>2, <2>1 DEF RowsKept
    <3>5. QED
      BY <1>1, <1>2, <3>1, <3>2, <3>3, <3>4 DEF Effect
  <2>4. /\ h \in Frame /\ h.pc = "persist" /\ h.op = f.op /\ h.row = r /\ h.paid = f.paid /\ h.via = f.via
        /\ h.owns = f.owns /\ h.todo = f.todo
    BY AtFields DEF Phases
  <2> HIDE DEF h
  <2>5. /\ g \in Frame /\ g.pc = "persist" /\ g.op = f.op /\ g.row = r /\ g.paid = f.paid /\ g.via = f.via
        /\ g.owns = f.owns /\ g.status = a.status /\ g.usage = a.usage /\ g.todo = f.todo
    BY <2>2, <2>4 DEF Frame
  <2> HIDE DEF g
  <2>6. FrameOK(g)
    BY <1>1, <2>2, <2>5 DEF FrameOK, Creating, Finishing, Observers, Terminal
  <2>7. Fits(g, job'[r], request'[r], reservation'[r], upstream'[r])
    BY <1>1, <1>2, <2>1, <2>2, <2>5 DEF Fits, Creating, Finishing, Observers, Terminal
  <2>8. Same(w, g)
    BY <2>5 DEF Same
  <2>9. QED
    BY <1>1, <1>3, <2>3, <2>6, <2>7, <2>8, SameSettles DEF Keeps, g, h
<1>4. ASSUME NEW u \in (Usages \ {0}) \cup {NoUsage}, f.paid, UNCHANGED upstream,
             Step(w, [At(w, "pend") EXCEPT !.usage = u])
      PROVE  \E g : Keeps(w, g)
  <2> DEFINE h == At(w, "pend")
             g == [h EXCEPT !.usage = u]
  <2>1. Effect(w)
    BY <1>2, <1>4, LocalEffect
  <2>2. /\ h \in Frame /\ h.pc = "pend" /\ h.op = f.op /\ h.row = r /\ h.paid = f.paid /\ h.via = f.via
        /\ h.owns = f.owns /\ h.status = f.status /\ h.todo = f.todo
    BY AtFields DEF Phases
  <2> HIDE DEF h
  <2>3. /\ g \in Frame /\ g.pc = "pend" /\ g.op = f.op /\ g.row = r /\ g.paid = f.paid /\ g.via = f.via
        /\ g.owns = f.owns /\ g.status = f.status /\ g.usage = u /\ g.todo = f.todo
    BY <2>2 DEF Frame
  <2> HIDE DEF g
  <2>4. u # 0
    BY SentinelsAssumption, SizesAssumption DEF Usages
  <2>5. FrameOK(g)
    BY <1>1, <2>3, <2>4 DEF FrameOK, Creating, Finishing, Observers
  <2>6. Same(w, g)
    BY <2>3 DEF Same
  <2>7. QED
    BY <1>1, <1>4, <2>1, <2>3, <2>5, <2>6, LaterSettles DEF Keeps, Fits, Creating, Finishing, g, h
<1>5. ASSUME NEW u \in (Usages \ {0}) \cup {NoUsage}, ~ f.paid, UNCHANGED upstream,
             Step(w, [At(w, "fail") EXCEPT !.usage = u])
      PROVE  \E g : Keeps(w, g)
  <2> DEFINE h == At(w, "fail")
             g == [h EXCEPT !.usage = u]
  <2>1. Effect(w)
    BY <1>2, <1>5, LocalEffect
  <2>2. /\ h \in Frame /\ h.pc = "fail" /\ h.op = f.op /\ h.row = r /\ h.paid = f.paid /\ h.via = f.via
        /\ h.owns = f.owns /\ h.status = f.status /\ h.todo = f.todo
    BY AtFields DEF Phases
  <2> HIDE DEF h
  <2>3. /\ g \in Frame /\ g.pc = "fail" /\ g.op = f.op /\ g.row = r /\ g.paid = f.paid /\ g.via = f.via
        /\ g.owns = f.owns /\ g.status = f.status /\ g.usage = u /\ g.todo = f.todo
    BY <2>2 DEF Frame
  <2> HIDE DEF g
  <2>4. FrameOK(g)
    BY <1>1, <2>3 DEF FrameOK, Creating, Finishing, Observers
  <2>5. Fits(g, job'[r], request'[r], reservation'[r], upstream'[r])
    BY <1>1, <1>2, <1>5, <2>3 DEF Fits, Creating, Finishing, Observers
  <2>6. Same(w, g)
    BY <2>3 DEF Same
  <2>7. QED
    BY <1>1, <1>5, <2>1, <2>4, <2>5, <2>6, SameSettles DEF Keeps, g, h
<1>6. ASSUME NEW phase \in {"pick", "fail"}, Step(w, At(w, phase)), UNCHANGED upstream
      PROVE  \E g : Keeps(w, g)
  <2>1. Effect(w)
    BY <1>2, <1>6, LocalEffect
  <2>2. QED
    BY <1>1, <1>2, <1>6, <2>1, BackKeeps
<1>7. QED
  <2>1. \/ \E a \in Answers :
             /\ upstream' = [upstream EXCEPT ![r] = a]
             /\ Step(w, [At(w, "persist") EXCEPT !.status = a.status, !.usage = a.usage])
        \/ \E u \in (Usages \ {0}) \cup {NoUsage} :
             /\ Step(w, [At(w, IF f.paid THEN "pend" ELSE "fail") EXCEPT !.usage = u])
             /\ UNCHANGED upstream
        \/ \E phase \in {"pick", "fail"} : Step(w, At(w, phase)) /\ UNCHANGED upstream
    BY DEF Submit
  <2>2. CASE f.paid
    BY <1>3, <1>4, <1>6, <2>1, <2>2
  <2>3. CASE ~ f.paid
    BY <1>3, <1>5, <1>6, <2>1, <2>3
  <2>4. QED
    BY <2>2, <2>3

\* The row of the job, on the channel that accepted it.
LEMMA CreateMediaJobEffect ==
    ASSUME JobsInv, NEW w \in Workers, worker[w].pc = "persist", UNCHANGED upstream,
           CreateMediaJob(Row(w), worker[w].status, worker[w].via)
    PROVE  /\ Effect(w)
           /\ job'[Row(w)] # NoJob /\ job'[Row(w)].channel = worker[w].via
           /\ reservation' = reservation
<1> DEFINE f == worker[w]
           r == Row(w)
           j == [status |-> f.status, channel |-> f.via]
<1>1. /\ f.op = "create" /\ f \in Frame /\ r \in Requests /\ FrameOK(f) /\ f.via \in Channels /\ f.owns
      /\ Fits(f, job[r], request[r], reservation[r], upstream[r])
  BY Creator DEF Creating, FrameOK
<1>2. f.status \in {"running"} \cup Terminal
  BY <1>1 DEF FrameOK, Frame
<1>3. /\ job \in [Requests -> JobRow] /\ job' = [job EXCEPT ![r] = j] /\ job[r] = NoJob
      /\ updated \in Seq(Requests) /\ updated' = Append(updated, r)
      /\ request' = request /\ reservation' = reservation /\ UNCHANGED vars
  BY DEF CreateMediaJob, JobsInv, TablesOK, vars
<1>4. j \in JobRow /\ j # NoJob /\ j.status = f.status /\ j.channel = f.via
  BY <1>1, <1>2 DEF JobRow, NoJob, Terminal
<1> HIDE DEF j
<1>5. /\ job' \in [Requests -> JobRow] /\ job'[r] = j
      /\ \A s \in Requests \ {r} : job'[s] = job[s]
  BY <1>1, <1>3, <1>4
<1>6. TablesOK'
  <2>1. /\ updated' \in Seq(Requests) /\ Len(updated) \in Nat
        /\ DOMAIN updated = 1 .. Len(updated) /\ DOMAIN updated' = 1 .. Len(updated) + 1
        /\ updated'[Len(updated) + 1] = r
        /\ \A i \in 1 .. Len(updated) : updated'[i] = updated[i]
    BY <1>1, <1>3
  <2>2. r \notin ToSet(updated) /\ IsInjective(updated) /\ ToSet(updated) = {s \in Requests : job[s] # NoJob}
    BY <1>3 DEF JobsInv, TablesOK
  <2>3. IsInjective(updated')
    BY <2>1, <2>2 DEF IsInjective, ToSet
  <2>4. ToSet(updated') = ToSet(updated) \cup {r}
    BY <2>1 DEF ToSet
  <2>5. QED
    BY <1>1, <1>4, <1>5, <2>1, <2>2, <2>3, <2>4 DEF JobsInv, TablesOK
<1>7. RowsGo(r) /\ DoneAndCharged(r)
  BY <1>3 DEF RowsGo, Go, DoneAndCharged, NoJob
<1>8. Known(job'[r], request'[r], reservation'[r], upstream'[r])
  <2>1. /\ upstream[r].status # "none" /\ (f.status \in Terminal => upstream[r].status \in Terminal)
        /\ request[r].status # "none" /\ (f.paid <=> reservation[r].status # "none")
        /\ f.paid => reservation[r].status \in {"held", "expired"} /\ request[r].channel = f.via
    BY <1>1 DEF Fits, Creating
  <2>2. f.paid \in BOOLEAN
    BY <1>1 DEF Frame
  <2> HIDE DEF f
  <2>3. QED
    BY <1>1, <1>2, <1>3, <1>4, <1>5, <2>1, <2>2 DEF Known, Terminal
<1>9. \A s \in Requests \ {r} : RowsKept(s)
  BY <1>3, <1>5 DEF RowsKept
<1>10. QED
  BY <1>1, <1>3, <1>4, <1>5, <1>6, <1>7, <1>8, <1>9 DEF Effect

\* The job is saved, or not although the provider has it.
LEMMA PersistKeeps ==
    ASSUME JobsInv, NEW w \in Workers, Persist(w)
    PROVE  \E g : Keeps(w, g)
<1> DEFINE f == worker[w]
           r == Row(w)
           Save == CreateMediaJob(r, f.status, f.via)
<1>1. /\ f.op = "create" /\ f \in Frame /\ r \in Requests /\ FrameOK(f) /\ f.pc = "persist"
      /\ f.pc \in Creating \ {"fail"} /\ f.owns /\ UNCHANGED upstream
      /\ Fits(f, job[r], request[r], reservation[r], upstream[r])
  BY Creator DEF Persist, Creating, FrameOK
<1>2. ASSUME Save
      PROVE  Effect(w) /\ job'[r] # NoJob /\ job'[r].channel = f.via /\ reservation' = reservation
  BY <1>1, <1>2, CreateMediaJobEffect
<1>3. ASSUME UNCHANGED <<vars, jobVars>>
      PROVE  Effect(w) /\ job' = job /\ reservation' = reservation
  BY <1>1, <1>3, LocalEffect DEF vars, jobVars
<1>4. ASSUME Save, f.status \in Terminal, Step(w, At(w, "finish"))
      PROVE  \E g : Keeps(w, g)
  <2> DEFINE g == At(w, "finish")
  <2>1. /\ g \in Frame /\ g.pc = "finish" /\ g.op = f.op /\ g.row = r /\ g.paid = f.paid /\ g.via = f.via
        /\ g.owns = f.owns /\ g.status = f.status /\ g.usage = f.usage /\ g.todo = f.todo
    BY AtFields DEF Phases
  <2> HIDE DEF g
  <2>2. FrameOK(g) /\ Same(w, g)
    BY <1>1, <1>4, <2>1 DEF FrameOK, Creating, Finishing, Observers, Same
  <2>3. QED
    BY <1>1, <1>2, <1>4, <2>1, <2>2, LaterSettles DEF Keeps, Fits, Creating, g
<1>5. ASSUME f.paid, Effect(w), Step(w, At(w, "pend"))
      PROVE  \E g : Keeps(w, g)
  <2> DEFINE g == At(w, "pend")
  <2>1. /\ g \in Frame /\ g.pc = "pend" /\ g.op = f.op /\ g.row = r /\ g.paid = f.paid /\ g.via = f.via
        /\ g.owns = f.owns /\ g.status = f.status /\ g.usage = f.usage /\ g.todo = f.todo
    BY AtFields DEF Phases
  <2> HIDE DEF g
  <2>2. FrameOK(g) /\ Same(w, g)
    BY <1>1, <2>1 DEF FrameOK, Creating, Finishing, Observers, Same
  <2>3. QED
    BY <1>1, <1>5, <2>1, <2>2, LaterSettles DEF Keeps, Fits, Creating, Finishing, g
<1>6. ASSUME ~ f.paid, Effect(w), Step(w, At(w, "fail")), reservation' = reservation
      PROVE  \E g : Keeps(w, g)
  BY <1>1, <1>6, BackKeeps
<1>7. CASE f.status \in Terminal
  BY <1>2, <1>3, <1>4, <1>5, <1>6, <1>7 DEF Persist, Access
<1>8. CASE f.status \notin Terminal
  BY <1>2, <1>3, <1>5, <1>6, <1>8, LeaveKeeps DEF Persist, Access
<1>9. QED
  BY <1>7, <1>8

\* A step on the rows of a free request.
LEMMA FreeEffect ==
    ASSUME JobsInv, NEW w \in Workers, worker[w].owns, UNCHANGED <<jobVars, upstream>>,
           \/ FailFreeRequest(Row(w)) \/ Nothing(~FreeStarted(Row(w)))
           \/ \E u \in Usages : CompleteFreeRequest(Row(w), u)
    PROVE  Effect(w)
<1> DEFINE r == Row(w)
<1>1. r \in Requests /\ RowInv /\ Known(job[r], request[r], reservation[r], upstream[r])
  BY OfWorker DEF JobsInv, FrameOK
<1>2. CASE Nothing(~FreeStarted(r))
  BY <1>2, LocalEffect DEF Nothing
<1>3. ASSUME NEW q \in {"settled", "failed"}, Next, FreeStarted(r), Becomes(r, q, "none", request[r].channel)
      PROVE  Effect(w)
  BY <1>1, <1>3, BillingEffect DEF FreeStarted
<1>4. CASE FailFreeRequest(r)
  <2>1. Next /\ FreeStarted(r) /\ Becomes(r, "failed", "none", request[r].channel)
    BY <1>1, <1>4, FreeEffects, OperationsAreSteps
  <2>2. QED
    BY <1>3, <2>1
<1>5. ASSUME NEW u \in Usages, CompleteFreeRequest(r, u)
      PROVE  Effect(w)
  <2>1. Next /\ FreeStarted(r) /\ Becomes(r, "settled", "none", request[r].channel)
    BY <1>1, <1>5, FreeEffects, OperationsAreSteps
  <2>2. QED
    BY <1>3, <2>1
<1>6. QED
  BY <1>2, <1>4, <1>5

\* The handler releases its hold, or leaves it when the release fails.
LEMMA FailBillingKeeps ==
    ASSUME JobsInv, NEW w \in Workers, FailBilling(w)
    PROVE  \E g : Keeps(w, g)
<1> DEFINE f == worker[w]
           r == Row(w)
<1>1. /\ f.pc = "fail" /\ r \in Requests /\ RowInv
      /\ Fits(f, job[r], request[r], reservation[r], upstream[r])
  BY Creator DEF FailBilling, Creating, JobsInv
<1>2. CASE ~ f.owns /\ Step(w, Leave(w)) /\ Local
  BY <1>2, LocalEffect, LeaveKeeps DEF Local
<1>3. CASE UNCHANGED <<vars, jobVars, upstream>> /\ Step(w, Leave(w))
  BY <1>3, LocalEffect, LeaveKeeps
<1>4. CASE /\ f.owns /\ f.paid /\ UNCHANGED <<jobVars, upstream>> /\ Step(w, Leave(w))
           /\ Fail(r) \/ Nothing(reservation[r].status \in Closed)
  <2>1. job[r] = NoJob /\ request[r].status # "none"
    BY <1>1, <1>4 DEF Fits, Creating
  <2>2. CASE Fail(r)
    <3>1. Next /\ reservation[r].status = "held" /\ Becomes(r, "failed", "released", request[r].channel)
      BY <1>1, <2>2, PaidEffects, OperationsAreSteps DEF Fail
    <3>2. Effect(w)
      BY <1>1, <1>4, <2>1, <3>1, BillingEffect
    <3>3. QED
      BY <1>4, <3>2, LeaveKeeps
  <2>3. CASE Nothing(reservation[r].status \in Closed)
    BY <1>4, <2>3, LocalEffect, LeaveKeeps DEF Nothing
  <2>4. QED
    BY <1>4, <2>2, <2>3
<1>5. CASE /\ f.owns /\ ~ f.paid /\ UNCHANGED <<jobVars, upstream>> /\ Step(w, Leave(w))
           /\ FailFreeRequest(r) \/ Nothing(~FreeStarted(r))
  BY <1>5, FreeEffect, LeaveKeeps
<1>6. QED
  BY <1>2, <1>3, <1>4, <1>5 DEF FailBilling, BillingAccess, Access

-----------------------------------------------------------------------------
(* GetVideo and ReconcileMediaJobs                                         *)

\* The frame of a worker that polls or sweeps.
LEMMA Observer ==
    ASSUME JobsInv, NEW w \in Workers, worker[w].pc \in {"extend", "ask", "update"}
    PROVE  /\ worker[w].op \in Observers /\ worker[w].op # "none"
           /\ worker[w] \in Frame /\ Row(w) \in Requests /\ FrameOK(worker[w])
           /\ Fits(worker[w], job[Row(w)], request[Row(w)], reservation[Row(w)], upstream[Row(w)])
           /\ Known(job[Row(w)], request[Row(w)], reservation[Row(w)], upstream[Row(w)])
           /\ job[Row(w)] # NoJob /\ worker[w].via = job[Row(w)].channel
<1>1. worker[w].op \in Observers
  BY OfWorker DEF FrameOK, Frame, Observers
<1>2. worker[w].op # "none"
  BY <1>1 DEF Observers
<1>3. QED
  BY <1>1, <1>2, OfWorker DEF Fits

\* A poll visits one job.
LEMMA PollKeeps ==
    ASSUME JobsInv, NEW w \in Workers, NEW r \in Requests, Poll(w, r)
    PROVE  \E g : Keeps(w, g)
<1>1. Effect(w)
  BY LocalEffect DEF Poll, Local
<1>2. <<>> \in Seq(Requests) /\ DOMAIN <<>> = {} /\ "poll" \in Observers
  BY DEF Observers
<1>3. \A i \in DOMAIN <<>> : job[<<>>[i]] # NoJob
  BY <1>2
<1>4. Resting(Visit("poll", r, <<>>))
  BY <1>2, <1>3, VisitRests DEF Poll
<1>5. QED
  BY <1>1, <1>4, RestingSettles DEF Keeps, Poll

\* A sweep visits the oldest jobs that it lists.
LEMMA ListPendingMediaJobsKeeps ==
    ASSUME JobsInv, NEW w \in Workers, ListPendingMediaJobs(w)
    PROVE  \E g : Keeps(w, g)
<1>1. Effect(w)
  BY LocalEffect DEF ListPendingMediaJobs, Local
<1>0. PICK n \in 1 .. JobLimit : \E place \in [1 .. n -> DOMAIN updated] :
         Step(w, Visit("sweep", Head([i \in 1 .. n |-> updated[place[i]]]),
                                Tail([i \in 1 .. n |-> updated[place[i]]])))
  BY DEF ListPendingMediaJobs
<1>2. PICK place \in [1 .. n -> DOMAIN updated] :
         Step(w, Visit("sweep", Head([i \in 1 .. n |-> updated[place[i]]]),
                                Tail([i \in 1 .. n |-> updated[place[i]]])))
  BY <1>0
<1> DEFINE all == [i \in 1 .. n |-> updated[place[i]]]
<1>3. n \in Nat \ {0}
  BY JobsAssumption
<1>4. \A i \in 1 .. n : updated[place[i]] \in Requests /\ job[updated[place[i]]] # NoJob
  <2>1. \A k \in DOMAIN updated : updated[k] \in {r \in Requests : job[r] # NoJob}
    BY DEF JobsInv, TablesOK, ToSet
  <2>2. QED
    BY <2>1
<1>5. /\ all \in Seq(Requests) /\ Len(all) = n /\ \A i \in 1 .. n : all[i] = updated[place[i]]
  <2>1. all \in [1 .. n -> Requests]
    BY <1>4
  <2>2. QED
    BY <1>3, <2>1
<1> HIDE DEF all
<1>6. /\ Head(all) \in Requests /\ Tail(all) \in Seq(Requests) /\ Head(all) = all[1]
      /\ \A i \in DOMAIN Tail(all) : Tail(all)[i] = all[i + 1] /\ i + 1 \in 1 .. n
  BY <1>3, <1>5
<1>7. job[Head(all)] # NoJob /\ \A i \in DOMAIN Tail(all) : job[Tail(all)[i]] # NoJob
  BY <1>3, <1>4, <1>5, <1>6
<1>8. Resting(Visit("sweep", Head(all), Tail(all)))
  BY <1>6, <1>7, VisitRests DEF Observers
<1>9. QED
  BY <1>1, <1>2, <1>8, RestingSettles DEF Keeps, all

\* The hold of the visited job is extended, unless it is closed.
LEMMA ExtendKeeps ==
    ASSUME JobsInv, NEW w \in Workers, Extend(w)
    PROVE  \E g : Keeps(w, g)
<1> DEFINE f == worker[w]
           r == Row(w)
           g == At(w, "ask")
<1>1. /\ f.op \in Observers /\ f.op # "none" /\ f \in Frame /\ r \in Requests /\ FrameOK(f)
      /\ Fits(f, job[r], request[r], reservation[r], upstream[r])
  BY Observer DEF Extend
<1>2. ASSUME ExtendReservation(r), UNCHANGED <<jobVars, upstream>>
      PROVE  Effect(w) /\ upstream' = upstream
  <2>1. Next
    BY <1>1, <1>2, Zenon DEF Next, PaidStep
  <2>2. UNCHANGED <<request, reservation, jobVars, upstream>>
    BY <1>2 DEF ExtendReservation
  <2>3. QED
    BY <2>1, <2>2, QuietEffect
<1>3. CASE ExtendReservation(r) /\ UNCHANGED <<jobVars, upstream>> /\ Step(w, g)
  <2>1. /\ g \in Frame /\ g.pc = "ask" /\ g.op = f.op /\ g.row = r /\ g.paid = f.paid /\ g.via = f.via
        /\ g.owns = f.owns /\ g.status = f.status /\ g.usage = f.usage /\ g.todo = f.todo
    BY AtFields DEF Phases
  <2> HIDE DEF g
  <2>2. FrameOK(g) /\ Same(w, g)
    BY <1>1, <2>1 DEF FrameOK, Creating, Finishing, Observers, Same
  <2>3. QED
    BY <1>1, <1>2, <1>3, <2>1, <2>2, LaterSettles DEF Keeps, Fits, Creating, Finishing, g
<1>4. CASE ExtendReservation(r) /\ UNCHANGED <<jobVars, upstream>> /\ Step(w, Leave(w))
  BY <1>2, <1>4, LeaveKeeps
<1>5. CASE UNCHANGED <<vars, jobVars, upstream>> /\ Step(w, Leave(w))
  BY <1>5, LocalEffect, LeaveKeeps
<1>6. QED
  BY <1>3, <1>4, <1>5 DEF Extend, BillingAccess, Access

\* An observer that has a status, the provider's or its own.
LEMMA AnsweredKeeps ==
    ASSUME JobsInv, NEW w \in Workers, worker[w].pc = "ask", Local,
           NEW pc \in {"finish", "update"},
           NEW status \in {"running"} \cup Terminal, NEW usage \in Usages \cup {NoUsage},
           status \in Terminal <=> pc = "finish",
           status \in Terminal => upstream[Row(w)].status \in Terminal,
           Step(w, [At(w, pc) EXCEPT !.status = status, !.usage = usage])
    PROVE  \E g : Keeps(w, g)
<1> DEFINE f == worker[w]
           r == Row(w)
           h == At(w, pc)
           g == [h EXCEPT !.status = status, !.usage = usage]
<1>1. /\ f.op \in Observers /\ f.op # "none" /\ f \in Frame /\ r \in Requests /\ FrameOK(f)
      /\ job[r] # NoJob /\ f.via = job[r].channel
      /\ Fits(f, job[r], request[r], reservation[r], upstream[r])
  BY Observer
<1>2. /\ Effect(w) /\ job' = job /\ upstream' = upstream
      /\ request' = request /\ reservation' = reservation
  BY LocalEffect DEF Local, vars, jobVars
<1>3. /\ h \in Frame /\ h.pc = pc /\ h.op = f.op /\ h.row = r /\ h.paid = f.paid /\ h.via = f.via
      /\ h.owns = f.owns /\ h.todo = f.todo
  BY AtFields DEF Phases
<1> HIDE DEF h
<1>4. /\ g \in Frame /\ g.pc = pc /\ g.op = f.op /\ g.row = r /\ g.paid = f.paid /\ g.via = f.via
      /\ g.owns = f.owns /\ g.status = status /\ g.todo = f.todo
  BY <1>3 DEF Frame
<1> HIDE DEF g
<1>5. FrameOK(g)
  BY <1>1, <1>4 DEF FrameOK, Creating, Finishing, Observers, Terminal
<1>6. Fits(g, job[r], request[r], reservation[r], upstream[r])
  BY <1>1, <1>4 DEF Fits, Creating, Finishing, Observers
<1>7. Same(w, g)
  BY <1>4 DEF Same
<1>8. QED
  BY <1>1, <1>2, <1>5, <1>6, <1>7, SameSettles DEF Keeps, g, h

\* The answer of the provider is what the visit then has.
LEMMA AskKeeps ==
    ASSUME JobsInv, NEW w \in Workers, Ask(w)
    PROVE  \E g : Keeps(w, g)
<1> DEFINE f == worker[w]
           r == Row(w)
           a == upstream[r]
<1>1. /\ f.op \in Observers /\ f \in Frame /\ r \in Requests /\ FrameOK(f) /\ f.pc = "ask" /\ Local
      /\ Fits(f, job[r], request[r], reservation[r], upstream[r])
      /\ job[r] # NoJob /\ Known(job[r], request[r], reservation[r], upstream[r])
  BY Observer DEF Ask
<1>2. a.status \in {"running"} \cup Terminal /\ a.usage \in Usages \cup {NoUsage}
  BY <1>1 DEF Known, JobsInv, TablesOK, Answers, NoAnswer
<1>3. f.status \in {"running"} \cup Terminal /\ f.usage \in Usages \cup {NoUsage}
      /\ (f.status \in Terminal => a.status \in Terminal)
  BY <1>1 DEF FrameOK, Frame, Fits
<1>4. CASE Step(w, [At(w, IF a.status \in Terminal THEN "finish" ELSE "update")
                       EXCEPT !.status = a.status, !.usage = a.usage])
  <2> HIDE DEF a
  <2>1. CASE a.status \in Terminal
    <3>1. Step(w, [At(w, "finish") EXCEPT !.status = a.status, !.usage = a.usage])
      BY <1>4, <2>1
    <3>2. QED
      BY <1>1, <1>2, <2>1, <3>1, AnsweredKeeps DEF a
  <2>2. CASE a.status \notin Terminal
    <3>1. Step(w, [At(w, "update") EXCEPT !.status = a.status, !.usage = a.usage])
      BY <1>4, <2>2
    <3>2. QED
      BY <1>1, <1>2, <2>2, <3>1, AnsweredKeeps DEF a
  <2>3. QED
    BY <2>1, <2>2
<1>5. CASE Step(w, At(w, IF f.status \in Terminal THEN "finish" ELSE "update"))
  <2>1. ASSUME NEW pc \in Phases
        PROVE  At(w, pc) = [At(w, pc) EXCEPT !.status = f.status, !.usage = f.usage]
    <3> DEFINE h == At(w, pc)
    <3>1. h \in Frame /\ h.status = f.status /\ h.usage = f.usage
      BY <2>1, AtFields
    <3> HIDE DEF h, f
    <3>2. h = [h EXCEPT !.status = f.status, !.usage = f.usage]
      BY <3>1 DEF Frame
    <3>3. QED
      BY <3>2 DEF h
  <2>2. "finish" \in Phases /\ "update" \in Phases
    BY DEF Phases
  <2>3. CASE f.status \in Terminal
    <3>1. Step(w, [At(w, "finish") EXCEPT !.status = f.status, !.usage = f.usage])
      BY <1>5, <2>1, <2>2, <2>3
    <3>2. QED
      BY <1>1, <1>3, <2>3, <3>1, AnsweredKeeps
  <2>4. CASE f.status \notin Terminal
    <3>1. Step(w, [At(w, "update") EXCEPT !.status = f.status, !.usage = f.usage])
      BY <1>5, <2>1, <2>2, <2>4
    <3>2. QED
      BY <1>1, <1>3, <2>4, <3>1, AnsweredKeeps
  <2>5. QED
    BY <2>3, <2>4
<1>6. CASE Step(w, Leave(w))
  BY <1>1, <1>6, LocalEffect, LeaveKeeps DEF Local
<1>7. QED
  BY <1>4, <1>5, <1>6 DEF Ask

\* updated_at = now() puts a job behind all others.
LEMMA MovedToTheEnd ==
    ASSUME NEW S, NEW s \in Seq(S), IsInjective(s), NEW i \in DOMAIN s,
           NEW t, t = Append(RemoveAt(s, i), s[i])
    PROVE  t \in Seq(S) /\ IsInjective(t) /\ ToSet(t) = ToSet(s)
<1> DEFINE n == Len(s)
           rest == RemoveAt(s, i)
<1>1. n \in Nat /\ DOMAIN s = 1 .. n /\ i \in 1 .. n /\ \A k \in 1 .. n : s[k] \in S
  OBVIOUS
<1>2. /\ SubSeq(s, 1, i - 1) \in Seq(S) /\ Len(SubSeq(s, 1, i - 1)) = i - 1
      /\ \A k \in 1 .. i - 1 : SubSeq(s, 1, i - 1)[k] = s[k]
  BY <1>1
<1>3. /\ SubSeq(s, i + 1, n) \in Seq(S) /\ Len(SubSeq(s, i + 1, n)) = n - i
      /\ \A k \in 1 .. n - i : SubSeq(s, i + 1, n)[k] = s[i + k]
  <2> DEFINE m == i + 1
  <2>1. m \in Int /\ n \in Int /\ \A k \in m .. n : s[k] \in S
    BY <1>1
  <2>2. n - m + 1 = n - i /\ \A k \in 1 .. n - i : m + k - 1 = i + k
    <3> HIDE DEF n
    <3>1. QED
      BY <1>1
  <2> HIDE DEF n, m
  <2>3. /\ SubSeq(s, m, n) \in Seq(S)
        /\ Len(SubSeq(s, m, n)) = IF m <= n THEN n - m + 1 ELSE 0
        /\ \A k \in 1 .. n - m + 1 : SubSeq(s, m, n)[k] = s[m + k - 1]
    BY <2>1, SubSeqProperties
  <2>4. (IF m <= n THEN n - m + 1 ELSE 0) = n - i
    BY <1>1 DEF m
  <2>5. QED
    BY <2>2, <2>3, <2>4 DEF m
<1>4. /\ rest \in Seq(S) /\ Len(rest) = n - 1
      /\ \A k \in 1 .. n - 1 : rest[k] = IF k < i THEN s[k] ELSE s[k + 1]
  <2> DEFINE a == SubSeq(s, 1, i - 1)
             b == SubSeq(s, i + 1, n)
  <2>1. rest = a \o b
    BY DEF RemoveAt
  <2> HIDE DEF a, b, rest
  <2>2. a \in Seq(S) /\ b \in Seq(S) /\ Len(a) = i - 1 /\ Len(b) = n - i
    BY <1>2, <1>3 DEF a, b
  <2>3. /\ rest \in Seq(S) /\ Len(rest) = n - 1
        /\ \A k \in 1 .. n - 1 : rest[k] = IF k <= i - 1 THEN a[k] ELSE b[k - (i - 1)]
    <3>1. Len(a) + Len(b) = n - 1
      BY <1>1, <2>2
    <3>2. /\ a \o b \in Seq(S) /\ Len(a \o b) = Len(a) + Len(b)
          /\ \A k \in 1 .. Len(a) + Len(b) : (a \o b)[k] = IF k <= Len(a) THEN a[k] ELSE b[k - Len(a)]
      BY <2>2, ConcatProperties
    <3>3. QED
      BY <2>1, <2>2, <3>1, <3>2
  <2>4. ASSUME NEW k \in 1 .. n - 1
        PROVE  rest[k] = IF k < i THEN s[k] ELSE s[k + 1]
    <3>1. CASE k < i
      BY <1>1, <1>2, <2>3, <3>1 DEF a
    <3>2. CASE ~ k < i
      <4>1. k - (i - 1) \in 1 .. n - i /\ i + (k - (i - 1)) = k + 1
        BY <1>1, <3>2
      <4>2. b[k - (i - 1)] = s[k + 1]
        BY <1>3, <4>1 DEF b
      <4>3. QED
        BY <1>1, <2>3, <3>2, <4>2
    <3>3. QED
      BY <3>1, <3>2
  <2>5. QED
    BY <2>3, <2>4
<1> HIDE DEF rest, n
<1>5. /\ t \in Seq(S) /\ Len(t) = n /\ DOMAIN t = 1 .. n
      /\ \A k \in 1 .. n : t[k] = IF k < i THEN s[k] ELSE IF k < n THEN s[k + 1] ELSE s[i]
  <2>1. t = Append(rest, s[i])
    BY DEF rest
  <2>2. t \in Seq(S) /\ Len(t) = n /\ DOMAIN t = 1 .. n /\ t[n] = s[i] /\ \A k \in 1 .. n - 1 : t[k] = rest[k]
    BY <1>1, <1>4, <2>1
  <2>3. QED
    BY <1>1, <1>4, <2>2
<1>6. IsInjective(t)
  <2>1. SUFFICES ASSUME NEW k \in 1 .. n, NEW m \in 1 .. n, t[k] = t[m] PROVE k = m
    BY <1>5 DEF IsInjective
  <2> DEFINE Place(x) == IF x < i THEN x ELSE IF x < n THEN x + 1 ELSE i
  <2>2. /\ Place(k) \in 1 .. n /\ Place(m) \in 1 .. n
        /\ t[k] = s[Place(k)] /\ t[m] = s[Place(m)]
    BY <1>1, <1>5, <2>1
  <2>3. Place(k) = Place(m)
    <3> HIDE DEF Place
    <3>1. QED
      BY <1>1, <2>1, <2>2 DEF IsInjective
  <2>4. \A x \in 1 .. n : /\ x < i => Place(x) = x
                          /\ ~ x < i /\ x < n => Place(x) = x + 1
                          /\ ~ x < i /\ x = n => Place(x) = i
    <3>1. ~ n < n
      BY <1>1
    <3>2. QED
      BY <3>1, Zenon
  <2>5. i \in Nat /\ k \in Nat /\ m \in Nat /\ n \in Nat /\ k <= n /\ m <= n /\ i <= n
    BY <1>1
  <2> HIDE DEF Place
  <2>6. CASE k < i
    BY <2>3, <2>4, <2>5, <2>6
  <2>7. CASE ~ k < i /\ k < n
    BY <2>3, <2>4, <2>5, <2>7
  <2>8. CASE ~ k < i /\ k = n
    BY <2>3, <2>4, <2>5, <2>8
  <2>9. QED
    BY <2>5, <2>6, <2>7, <2>8
<1>7. ToSet(t) = ToSet(s)
  <2>1. ASSUME NEW k \in 1 .. n PROVE \E m \in 1 .. n : t[k] = s[m]
    <3>1. n \in Nat /\ i \in 1 .. n /\ t[k] = IF k < i THEN s[k] ELSE IF k < n THEN s[k + 1] ELSE s[i]
      BY <1>1, <1>5
    <3>2. k < n => k + 1 \in 1 .. n
      BY <3>1
    <3>3. QED
      BY <3>1, <3>2
  <2>2. ASSUME NEW m \in 1 .. n PROVE \E k \in 1 .. n : t[k] = s[m]
    <3>1. CASE m < i
      BY <1>1, <1>5, <3>1
    <3>2. CASE m = i
      <4>1. n \in 1 .. n /\ t[n] = s[i]
        BY <1>1, <1>5
      <4>2. QED
        BY <3>2, <4>1
    <3>3. CASE m > i
      <4>1. m - 1 \in 1 .. n /\ t[m - 1] = s[m]
        BY <1>1, <1>5, <3>3
      <4>2. QED
        BY <4>1
    <3>4. m < i \/ m = i \/ m > i
      BY <1>1
    <3>5. QED
      BY <3>1, <3>2, <3>3, <3>4
  <2>3. ToSet(s) = {s[k] : k \in 1 .. n} /\ ToSet(t) = {t[k] : k \in 1 .. n}
    BY <1>1, <1>5 DEF ToSet
  <2>4. ASSUME NEW x \in ToSet(t) PROVE x \in ToSet(s)
    <3>1. PICK k \in 1 .. n : x = t[k]
      BY <2>3, <2>4
    <3>2. PICK m \in 1 .. n : t[k] = s[m]
      BY <2>1
    <3>3. QED
      BY <2>3, <3>1, <3>2
  <2>5. ASSUME NEW x \in ToSet(s) PROVE x \in ToSet(t)
    <3>1. PICK m \in 1 .. n : x = s[m]
      BY <2>3, <2>5
    <3>2. PICK k \in 1 .. n : t[k] = s[m]
      BY <2>2
    <3>3. QED
      BY <2>3, <3>1, <3>2
  <2>6. QED
    BY <2>4, <2>5
<1>8. QED
  BY <1>5, <1>6, <1>7

\* What the provider answered is saved, or the visit ends.
LEMMA UpdateKeeps ==
    ASSUME JobsInv, NEW w \in Workers, Update(w)
    PROVE  \E g : Keeps(w, g)
<1> DEFINE f == worker[w]
           r == Row(w)
<1>1. /\ f \in Frame /\ r \in Requests /\ FrameOK(f) /\ f.op \in Observers
      /\ f.pc = "update" /\ job[r] # NoJob /\ f.via = job[r].channel /\ UNCHANGED upstream
      /\ Fits(f, job[r], request[r], reservation[r], upstream[r])
      /\ Known(job[r], request[r], reservation[r], upstream[r])
  BY Observer DEF Update
<1>2. f.status \in {"running"} \cup Terminal /\ f.paid \in BOOLEAN
  BY <1>1 DEF FrameOK, Frame
<1>3. ASSUME UpdateMediaJob(r, f.status)
      PROVE  Effect(w)
  <2>1. /\ job \in [Requests -> JobRow] /\ job' = [job EXCEPT ![r].status = f.status]
        /\ request' = request /\ reservation' = reservation /\ UNCHANGED vars /\ upstream' = upstream
    BY <1>1, <1>3 DEF UpdateMediaJob, JobsInv, TablesOK, vars
  <2> DEFINE j == [job[r] EXCEPT !.status = f.status]
  <2>2. j \in JobRow /\ j.status = f.status /\ j.channel = job[r].channel /\ j # NoJob
    BY <1>1, <1>2, <2>1 DEF JobRow, NoJob, Terminal
  <2>3. job' = [job EXCEPT ![r] = j]
    BY <2>1
  <2> HIDE DEF j
  <2>4. /\ job' \in [Requests -> JobRow] /\ job'[r] = j
        /\ \A s \in Requests \ {r} : job'[s] = job[s]
    BY <1>1, <2>1, <2>2, <2>3
  <2>5. TablesOK'
    <3>1. updated \in Seq(Requests) /\ IsInjective(updated) /\ ToSet(updated) = {s \in Requests : job[s] # NoJob}
      BY DEF JobsInv, TablesOK
    <3>2. updated' \in Seq(Requests) /\ IsInjective(updated') /\ ToSet(updated') = ToSet(updated)
      <4>1. PICK i \in DOMAIN updated : updated[i] = r /\ updated' = Append(RemoveAt(updated, i), r)
        BY <1>3 DEF UpdateMediaJob
      <4>2. updated' = Append(RemoveAt(updated, i), updated[i])
        BY <4>1
      <4>3. QED
        BY <3>1, <4>2, MovedToTheEnd
    <3>3. {s \in Requests : job'[s] # NoJob} = {s \in Requests : job[s] # NoJob}
      BY <1>1, <2>2, <2>4
    <3>4. QED
      BY <2>1, <2>4, <3>1, <3>2, <3>3 DEF JobsInv, TablesOK
  <2>6. \A s \in Requests \ {r} : RowsKept(s)
    BY <2>1, <2>4 DEF RowsKept
  <2>7. RowsGo(r) /\ Known(job'[r], request'[r], reservation'[r], upstream'[r])
    <3>1. f.status \in Terminal => upstream[r].status \in Terminal
      BY <1>1 DEF Fits
    <3>2. RowsGo(r)
      BY <2>1, <2>2, <2>4 DEF RowsGo, Go
    <3> HIDE DEF f
    <3>3. QED
      BY <1>1, <1>2, <2>1, <2>2, <2>4, <3>1, <3>2 DEF Known, Terminal
  <2>8. DoneAndCharged(r)
    <3>1. f.status = "completed" /\ PaidJob(r) => reservation[r].status \in {"pending", "settled"}
      BY <1>1, <1>2 DEF Fits, PaidJob, Terminal
    <3>2. QED
      BY <2>1, <2>2, <2>4, <3>1 DEF DoneAndCharged
  <2>9. QED
    BY <1>1, <2>1, <2>5, <2>6, <2>7, <2>8 DEF Effect
<1>4. CASE UpdateMediaJob(r, f.status) /\ Step(w, Leave(w))
  BY <1>3, <1>4, LeaveKeeps
<1>5. CASE UNCHANGED <<vars, jobVars>> /\ Step(w, Leave(w))
  BY <1>1, <1>5, LocalEffect, LeaveKeeps
<1>6. QED
  BY <1>4, <1>5 DEF Update, Access

-----------------------------------------------------------------------------
(* finishVideoJob                                                          *)

Ending == {"finish", "rebind", "settle", "pendPlain", "pend", "pendAgain", "completeFree", "failFree"}

\* The frame of a worker that finishes a job, or writes down that it cannot.
LEMMA Finisher ==
    ASSUME JobsInv, NEW w \in Workers, worker[w].pc \in Ending
    PROVE  /\ worker[w].op # "none" /\ worker[w] \in Frame /\ Row(w) \in Requests /\ FrameOK(worker[w])
           /\ Fits(worker[w], job[Row(w)], request[Row(w)], reservation[Row(w)], upstream[Row(w)])
           /\ Known(job[Row(w)], request[Row(w)], reservation[Row(w)], upstream[Row(w)])
           /\ worker[w].owns \/ (worker[w].op \in Observers /\ job[Row(w)] # NoJob)
           /\ request[Row(w)].status # "none"
           /\ worker[w].op = "create" <=> worker[w].owns
           /\ worker[w].pc \in Finishing =>
                 /\ job[Row(w)] # NoJob /\ worker[w].via = job[Row(w)].channel
                 /\ worker[w].status \in Terminal /\ upstream[Row(w)].status \in Terminal
<1>1. worker[w].op # "none"
  BY OfWorker DEF FrameOK, Ending
<1>2. worker[w].op = "create" \/ worker[w].op \in Observers
  BY <1>1, OfWorker DEF Frame, Observers
<1>3. worker[w].op = "create" => worker[w].owns
  BY OfWorker DEF FrameOK, Ending
<1>4. worker[w].op \in Observers => worker[w].op # "create" /\ ~ worker[w].owns
  BY OfWorker DEF FrameOK, Observers
<1>5. QED
  BY <1>1, <1>2, <1>3, <1>4, OfWorker DEF Fits, FrameOK

\* The step that leads to another of these phases.
LEMMA EndingKeeps ==
    ASSUME JobsInv, NEW w \in Workers, worker[w].pc \in Ending, Effect(w), UNCHANGED upstream, NEW pc \in Ending,
           NEW usage \in Usages \cup {NoUsage}, Step(w, [At(w, pc) EXCEPT !.usage = usage]),
           pc \in Finishing => worker[w].pc \in Finishing,
           pc \in {"rebind", "settle", "pend"} => usage # 0,
           pc \in {"rebind", "settle", "completeFree"} => usage # NoUsage,
           pc \in {"rebind", "settle", "pendPlain"} => worker[w].paid
    PROVE  \E g : Keeps(w, g)
<1> DEFINE f == worker[w]
           r == Row(w)
           h == At(w, pc)
           g == [h EXCEPT !.usage = usage]
<1>1. /\ f.op # "none" /\ f \in Frame /\ r \in Requests /\ FrameOK(f)
      /\ Fits(f, job[r], request[r], reservation[r], upstream[r])
      /\ f.op = "create" <=> f.owns
      /\ f.pc \in Finishing => job[r] # NoJob /\ f.via = job[r].channel /\ f.status \in Terminal
  BY Finisher
<1>2. /\ h \in Frame /\ h.pc = pc /\ h.op = f.op /\ h.row = r /\ h.paid = f.paid /\ h.via = f.via
      /\ h.owns = f.owns /\ h.status = f.status /\ h.todo = f.todo
  BY AtFields DEF Phases, Ending
<1> HIDE DEF h
<1>3. /\ g \in Frame /\ g.pc = pc /\ g.op = f.op /\ g.row = r /\ g.paid = f.paid /\ g.via = f.via
      /\ g.owns = f.owns /\ g.status = f.status /\ g.usage = usage /\ g.todo = f.todo
  BY <1>2 DEF Frame
<1> HIDE DEF g
<1>4. FrameOK(g)
  BY <1>1, <1>3 DEF FrameOK, Creating, Finishing, Observers, Ending
<1>5. Same(w, g)
  BY <1>3 DEF Same
<1>6. /\ g.status \in Terminal => upstream'[r].status \in Terminal
      /\ g.pc \in Finishing => job'[r] # NoJob /\ g.via = job'[r].channel
  <2>1. RowsGo(r)
    BY <1>1 DEF Effect
  <2>2. g.status \in Terminal => upstream[r].status \in Terminal
    BY <1>1, <1>3 DEF Fits
  <2>3. QED
    BY <1>1, <1>3, <2>1, <2>2 DEF RowsGo, Go
<1>7. g.pc \notin Creating \cup {"update"}
  BY <1>3 DEF Ending, Creating
<1>8. QED
  BY <1>1, <1>3, <1>4, <1>5, <1>6, <1>7, LaterSettles DEF Keeps, g, h

\* The same with the usage it knows.
LEMMA EndingAgain ==
    ASSUME JobsInv, NEW w \in Workers, worker[w].pc \in Ending, Effect(w), UNCHANGED upstream, NEW pc \in Ending,
           Step(w, At(w, pc)),
           pc \in Finishing => worker[w].pc \in Finishing,
           pc \in {"rebind", "settle", "pend"} => worker[w].usage # 0,
           pc \in {"rebind", "settle", "completeFree"} => worker[w].usage # NoUsage,
           pc \in {"rebind", "settle", "pendPlain"} => worker[w].paid
    PROVE  \E g : Keeps(w, g)
<1> DEFINE h == At(w, pc)
<1>1. worker[w].usage \in Usages \cup {NoUsage}
  BY OfWorker DEF Frame
<1>2. h \in Frame /\ h.usage = worker[w].usage
  BY AtFields DEF Phases, Ending
<1>3. h = [h EXCEPT !.usage = worker[w].usage]
  <2> HIDE DEF h
  <2>1. QED
    BY <1>2 DEF Frame
<1>4. Step(w, [At(w, pc) EXCEPT !.usage = worker[w].usage])
  BY <1>3
<1> HIDE DEF h
<1>5. QED
  BY <1>1, <1>4, EndingKeeps

\* finishVideoJob returned nil: what the job's row may say next is charged.
LEMMA FinishedKeeps ==
    ASSUME JobsInv, NEW w \in Workers, worker[w].pc \in Finishing, Effect(w), Step(w, Finished(w)),
           worker[w].paid => reservation'[Row(w)].status \in {"pending", "settled"}
    PROVE  \E g : Keeps(w, g)
<1> DEFINE f == worker[w]
           r == Row(w)
           g == At(w, "update")
<1>1. worker[w].pc \in Ending
  BY DEF Finishing, Ending
<1>2. /\ f.op # "none" /\ f \in Frame /\ r \in Requests /\ FrameOK(f)
      /\ Fits(f, job[r], request[r], reservation[r], upstream[r])
      /\ f.op = "create" <=> f.owns
      /\ job[r] # NoJob /\ f.via = job[r].channel /\ f.status \in Terminal
      /\ upstream[r].status \in Terminal
  BY <1>1, Finisher
<1>3. CASE f.op = "create"
  BY <1>3, LeaveKeeps DEF Finished
<1>4. CASE f.op # "create"
  <2>1. f.op \in Observers /\ ~ f.owns /\ Step(w, g)
    BY <1>2, <1>4 DEF Frame, Observers, Finished
  <2>2. /\ g \in Frame /\ g.pc = "update" /\ g.op = f.op /\ g.row = r /\ g.paid = f.paid /\ g.via = f.via
        /\ g.owns = f.owns /\ g.status = f.status /\ g.usage = f.usage /\ g.todo = f.todo
    BY AtFields DEF Phases
  <2> HIDE DEF g
  <2>3. FrameOK(g)
    BY <1>2, <1>4, <2>1, <2>2 DEF FrameOK, Creating, Finishing, Observers, Terminal
  <2>4. RowsGo(r)
    BY <1>2 DEF Effect
  <2>5. Fits(g, job'[r], request'[r], reservation'[r], upstream'[r])
    BY <1>2, <2>1, <2>2, <2>4 DEF Fits, RowsGo, Go, Creating, Finishing
  <2>6. Same(w, g)
    BY <2>2 DEF Same
  <2>7. QED
    BY <1>2, <2>1, <2>3, <2>5, <2>6, SameSettles DEF Keeps, g
<1>5. QED
  BY <1>3, <1>4

\* The usage a job is billed by.
LEMMA FinalUsageType ==
    ASSUME NEW status \in Terminal, NEW u \in Usages \cup {NoUsage}, NEW r \in Requests, NEW c
    PROVE  FinalUsage(status, u, r, c) \in Usages
<1>1. EstimateOf[r] \in Usages /\ 0 \in Usages
  BY JobsAssumption, SizesAssumption DEF Usages
<1>2. CASE status = "failed"
  BY <1>1, <1>2 DEF FinalUsage
<1>3. CASE status # "failed" /\ u = NoUsage
  BY <1>1, <1>3 DEF FinalUsage
<1>4. CASE status # "failed" /\ u # NoUsage /\ c \in Unverifiable
  BY <1>1, <1>4 DEF FinalUsage
<1>5. CASE status # "failed" /\ u # NoUsage /\ c \notin Unverifiable
  BY <1>1, <1>5 DEF FinalUsage
<1>6. QED
  BY <1>2, <1>3, <1>4, <1>5

\* A finished job goes to be charged, released, completed or left pending.
LEMMA FinishKeeps ==
    ASSUME JobsInv, NEW w \in Workers, Finish(w)
    PROVE  \E g : Keeps(w, g)
<1> DEFINE f == worker[w]
           r == Row(w)
           u == FinalUsage(f.status, f.usage, r, f.via)
<1>1. /\ f.pc = "finish" /\ f.pc \in Ending /\ f.pc \in Finishing
  BY DEF Finish, Ending, Finishing
<1>2. /\ f \in Frame /\ r \in Requests /\ f.status \in Terminal
  BY <1>1, Finisher
<1>3. u \in Usages /\ u \in Usages \cup {NoUsage} /\ u # NoUsage
  BY <1>2, FinalUsageType, SentinelsAssumption DEF Frame
<1>4. Effect(w) /\ UNCHANGED upstream
  BY LocalEffect DEF Finish, Local
<1>5. Step(w, IF f.paid
              THEN [At(w, IF u = 0 THEN "pendPlain" ELSE "rebind") EXCEPT !.usage = u]
              ELSE IF f.op # "create" THEN Finished(w)
              ELSE IF f.status = "failed" THEN At(w, "failFree")
              ELSE [At(w, "completeFree") EXCEPT !.usage = u])
  BY DEF Finish
<1> HIDE DEF u
<1>6. CASE f.paid /\ u = 0
  <2>1. Step(w, [At(w, "pendPlain") EXCEPT !.usage = u])
    BY <1>5, <1>6
  <2>2. QED
    BY <1>1, <1>3, <1>4, <1>6, <2>1, EndingKeeps DEF Ending
<1>7. CASE f.paid /\ u # 0
  <2>1. Step(w, [At(w, "rebind") EXCEPT !.usage = u])
    BY <1>5, <1>7
  <2>2. QED
    BY <1>1, <1>3, <1>4, <1>7, <2>1, EndingKeeps DEF Ending
<1>8. CASE ~ f.paid /\ f.op # "create"
  BY <1>1, <1>4, <1>5, <1>8, FinishedKeeps
<1>9. CASE ~ f.paid /\ f.op = "create" /\ f.status = "failed"
  <2>1. Step(w, At(w, "failFree"))
    BY <1>5, <1>9
  <2>2. QED
    BY <1>1, <1>4, <2>1, EndingAgain DEF Ending, Finishing
<1>10. CASE ~ f.paid /\ f.op = "create" /\ f.status # "failed"
  <2>1. Step(w, [At(w, "completeFree") EXCEPT !.usage = u])
    BY <1>5, <1>10
  <2>2. QED
    BY <1>1, <1>3, <1>4, <2>1, EndingKeeps DEF Ending, Finishing
<1>11. QED
  BY <1>6, <1>7, <1>8, <1>9, <1>10

\* The hold moves to the channel that the job was delivered by.
LEMMA RebindKeeps ==
    ASSUME JobsInv, NEW w \in Workers, Rebind(w)
    PROVE  \E g : Keeps(w, g)
<1> DEFINE f == worker[w]
           r == Row(w)
<1>1. /\ f.pc = "rebind" /\ f.pc \in Ending /\ f.pc \in Finishing /\ f.usage # 0 /\ f.usage # NoUsage /\ f.paid
  BY OfWorker DEF Rebind, Ending, Finishing, FrameOK
<1>2. /\ f.op # "none" /\ job[r] # NoJob /\ f.via = job[r].channel /\ f.via \in Channels
  BY <1>1, Finisher DEF Known
<1>3. ASSUME BindChannel(w), UNCHANGED <<jobVars, upstream>>
      PROVE  Effect(w)
  BY <1>2, <1>3, BindEffect
<1>4. CASE BindChannel(w) /\ UNCHANGED <<jobVars, upstream>> /\ Step(w, At(w, "settle"))
  BY <1>1, <1>3, <1>4, EndingAgain DEF Ending
<1>5. CASE BindChannel(w) /\ UNCHANGED <<jobVars, upstream>> /\ Step(w, At(w, "pend"))
  BY <1>1, <1>3, <1>5, EndingAgain DEF Ending, Finishing
<1>6. CASE UNCHANGED <<vars, jobVars, upstream>> /\ Step(w, At(w, "pend"))
  BY <1>1, <1>6, LocalEffect, EndingAgain DEF Ending, Finishing
<1>7. QED
  BY <1>4, <1>5, <1>6 DEF Rebind, BillingAccess, Access

\* A delivered job is charged, or its hold is left to the next attempt.
LEMMA SettleJobKeeps ==
    ASSUME JobsInv, NEW w \in Workers, SettleJob(w)
    PROVE  \E g : Keeps(w, g)
<1> DEFINE f == worker[w]
           r == Row(w)
           Charged == Settle(r, f.usage) \/ Nothing(reservation[r].status = "settled")
<1>1. /\ f.pc = "settle" /\ f.pc \in Ending /\ f.pc \in Finishing /\ f.usage \in Usages /\ f.usage # 0
  BY OfWorker DEF SettleJob, Ending, Finishing, FrameOK, Frame
<1>2. /\ r \in Requests /\ job[r] # NoJob /\ upstream[r].status \in Terminal /\ RowInv
      /\ Known(job[r], request[r], reservation[r], upstream[r])
  BY <1>1, Finisher DEF JobsInv
<1>3. ASSUME Charged, UNCHANGED <<jobVars, upstream>>
      PROVE  Effect(w) /\ reservation'[r].status = "settled"
  <2>1. CASE Settle(r, f.usage)
    <3>1. Next /\ reservation[r].status \in Open /\ Becomes(r, "settled", "settled", request[r].channel)
      BY <1>1, <1>2, <2>1, PaidEffects, OperationsAreSteps
    <3>2. Effect(w)
      BY <1>2, <1>3, <3>1, BillingEffect DEF Open, Known
    <3>3. QED
      BY <3>1, <3>2 DEF Becomes
  <2>2. CASE Nothing(reservation[r].status = "settled")
    BY <1>3, <2>2, LocalEffect DEF Nothing, vars
  <2>3. QED
    BY <1>3, <2>1, <2>2
<1>4. CASE Charged /\ UNCHANGED <<jobVars, upstream>> /\ Step(w, Finished(w))
  BY <1>1, <1>3, <1>4, FinishedKeeps
<1>5. CASE Charged /\ UNCHANGED <<jobVars, upstream>> /\ Step(w, At(w, "pend"))
  BY <1>1, <1>3, <1>5, EndingAgain DEF Ending, Finishing
<1>6. CASE UNCHANGED <<vars, jobVars, upstream>> /\ Step(w, At(w, "pend"))
  BY <1>1, <1>6, LocalEffect, EndingAgain DEF Ending, Finishing
<1>7. QED
  BY <1>4, <1>5, <1>6 DEF SettleJob, BillingAccess, Access

\* The hold is kept for an operator, or was settled before.
LEMMA MarkPendingEffect ==
    ASSUME JobsInv, NEW w \in Workers, worker[w].pc \in Ending, NEW u \in (Usages \ {0}) \cup {NoUsage},
           MarkPending(w, u), UNCHANGED <<jobVars, upstream>>
    PROVE  Effect(w) /\ reservation'[Row(w)].status \in {"pending", "settled"}
<1> DEFINE r == Row(w)
<1>1. /\ r \in Requests /\ RowInv /\ Known(job[r], request[r], reservation[r], upstream[r])
      /\ worker[w].owns \/ job[r] # NoJob
  BY Finisher DEF JobsInv
<1>2. CASE MarkSettlementPending(r, u)
  <2>1. /\ Next /\ reservation[r].status \in Open
        /\ Becomes(r, "settlement_pending", "pending", request[r].channel)
    BY <1>1, <1>2, PaidEffects, OperationsAreSteps
  <2>2. Effect(w)
    BY <1>1, <2>1, BillingEffect DEF Open, Known
  <2>3. QED
    BY <2>1, <2>2 DEF Becomes
<1>3. CASE Nothing(reservation[r].status = "settled")
  BY <1>3, LocalEffect DEF Nothing, vars
<1>4. QED
  BY <1>2, <1>3 DEF MarkPending

\* A job of unknown usage is left pending.
LEMMA PendPlainKeeps ==
    ASSUME JobsInv, NEW w \in Workers, PendPlain(w)
    PROVE  \E g : Keeps(w, g)
<1>1. worker[w].pc \in Ending /\ worker[w].pc \in Finishing
  BY DEF PendPlain, Ending, Finishing
<1>2. CASE MarkPending(w, NoUsage) /\ UNCHANGED <<jobVars, upstream>> /\ Step(w, Finished(w))
  BY <1>1, <1>2, MarkPendingEffect, FinishedKeeps
<1>3. CASE MarkPending(w, NoUsage) /\ UNCHANGED <<jobVars, upstream>> /\ Step(w, Leave(w))
  BY <1>1, <1>3, MarkPendingEffect, LeaveKeeps
<1>4. CASE UNCHANGED <<vars, jobVars, upstream>> /\ Step(w, Leave(w))
  BY <1>4, LocalEffect, LeaveKeeps
<1>5. QED
  BY <1>2, <1>3, <1>4 DEF PendPlain, BillingAccess, Access

\* A job that could not be charged is left pending with its usage.
LEMMA PendKeeps ==
    ASSUME JobsInv, NEW w \in Workers, Pend(w)
    PROVE  \E g : Keeps(w, g)
<1> DEFINE f == worker[w]
<1>1. f.pc \in Ending /\ f.usage \in (Usages \ {0}) \cup {NoUsage}
  BY OfWorker DEF Pend, Ending, FrameOK, Frame
<1>2. CASE MarkPending(w, f.usage) /\ UNCHANGED <<jobVars, upstream>> /\ Step(w, Leave(w))
  BY <1>1, <1>2, MarkPendingEffect, LeaveKeeps
<1>3. CASE MarkPending(w, f.usage) /\ UNCHANGED <<jobVars, upstream>> /\ Step(w, At(w, "pendAgain"))
  BY <1>1, <1>3, MarkPendingEffect, EndingAgain DEF Ending, Finishing
<1>4. CASE UNCHANGED <<vars, jobVars, upstream>> /\ Step(w, At(w, "pendAgain"))
  BY <1>1, <1>4, LocalEffect, EndingAgain DEF Ending, Finishing
<1>5. QED
  BY <1>2, <1>3, <1>4 DEF Pend, BillingAccess, Access

\* A hold that could not be left pending is tried without its usage.
LEMMA PendAgainKeeps ==
    ASSUME JobsInv, NEW w \in Workers, PendAgain(w)
    PROVE  \E g : Keeps(w, g)
<1>1. worker[w].pc \in Ending
  BY DEF PendAgain, Ending
<1>2. CASE MarkPending(w, NoUsage) /\ UNCHANGED <<jobVars, upstream>> /\ Step(w, Leave(w))
  BY <1>1, <1>2, MarkPendingEffect, LeaveKeeps
<1>3. CASE UNCHANGED <<vars, jobVars, upstream>> /\ Step(w, Leave(w))
  BY <1>3, LocalEffect, LeaveKeeps
<1>4. QED
  BY <1>2, <1>3 DEF PendAgain, BillingAccess, Access

\* A delivered free job is completed.
LEMMA CompleteFreeKeeps ==
    ASSUME JobsInv, NEW w \in Workers, CompleteFree(w)
    PROVE  \E g : Keeps(w, g)
<1> DEFINE f == worker[w]
           r == Row(w)
<1>1. f.pc = "completeFree" /\ f.pc \in Ending /\ f.usage \in Usages
  BY OfWorker DEF CompleteFree, Ending, FrameOK, Frame
<1>2. ASSUME CompleteFreeRequest(r, f.usage), UNCHANGED <<jobVars, upstream>>
      PROVE  Effect(w)
  <2>1. /\ r \in Requests /\ RowInv /\ Known(job[r], request[r], reservation[r], upstream[r])
        /\ f.owns \/ job[r] # NoJob
    BY <1>1, Finisher DEF JobsInv
  <2>2. Next /\ FreeStarted(r) /\ Becomes(r, "settled", "none", request[r].channel)
    BY <1>1, <1>2, <2>1, FreeEffects, OperationsAreSteps
  <2>3. QED
    BY <1>2, <2>1, <2>2, BillingEffect DEF FreeStarted
<1>3. CASE CompleteFreeRequest(r, f.usage) /\ UNCHANGED <<jobVars, upstream>> /\ Step(w, Leave(w))
  BY <1>2, <1>3, LeaveKeeps
<1>4. CASE CompleteFreeRequest(r, f.usage) /\ UNCHANGED <<jobVars, upstream>> /\ Step(w, At(w, "failFree"))
  BY <1>1, <1>2, <1>4, EndingAgain DEF Ending, Finishing
<1>5. CASE UNCHANGED <<vars, jobVars, upstream>> /\ Step(w, At(w, "failFree"))
  BY <1>1, <1>5, LocalEffect, EndingAgain DEF Ending, Finishing
<1>6. QED
  BY <1>3, <1>4, <1>5 DEF CompleteFree, BillingAccess, Access

\* A failed free job is failed.
LEMMA FailFreeKeeps ==
    ASSUME JobsInv, NEW w \in Workers, FailFree(w)
    PROVE  \E g : Keeps(w, g)
<1> DEFINE r == Row(w)
<1>1. worker[w].pc \in Ending
  BY DEF FailFree, Ending
<1>2. ASSUME FailFreeRequest(r), UNCHANGED <<jobVars, upstream>>
      PROVE  Effect(w)
  <2>1. /\ r \in Requests /\ RowInv /\ Known(job[r], request[r], reservation[r], upstream[r])
        /\ worker[w].owns \/ job[r] # NoJob
    BY <1>1, Finisher DEF JobsInv
  <2>2. Next /\ FreeStarted(r) /\ Becomes(r, "failed", "none", request[r].channel)
    BY <1>2, <2>1, FreeEffects, OperationsAreSteps
  <2>3. QED
    BY <1>2, <2>1, <2>2, BillingEffect DEF FreeStarted
<1>3. CASE /\ FailFreeRequest(r) \/ Nothing(~FreeStarted(r))
           /\ UNCHANGED <<jobVars, upstream>> /\ Step(w, Leave(w))
  BY <1>2, <1>3, LocalEffect, LeaveKeeps DEF Nothing
<1>4. CASE UNCHANGED <<vars, jobVars, upstream>> /\ Step(w, Leave(w))
  BY <1>4, LocalEffect, LeaveKeeps
<1>5. QED
  BY <1>3, <1>4 DEF FailFree, BillingAccess, Access

-----------------------------------------------------------------------------
(* The environment                                                         *)

\* A handler that loses its client, or a process that stops, changes no row.
LEMMA StopKeeps ==
    ASSUME JobsInv, NEW w \in Workers, Disconnect(w) \/ Stop(w) \/ Restart(w)
    PROVE  \E g : Keeps(w, g)
<1>1. Effect(w)
  BY LocalEffect DEF Disconnect, Stop, Restart, Local
<1>2. Step(w, Idle) \/ Step(w, [Idle EXCEPT !.pc = "down"])
  BY DEF Disconnect, Stop, Restart
<1>3. QED
  BY <1>1, <1>2, IdleRests, RestingSettles DEF Keeps

\* What may happen to the rows of a request while its workers wait: the hold
\* expires, an operator settles what is pending, the provider ends the job.
Drifts(r) ==
    /\ job'[r] = job[r]
    /\ \/ request'[r] = request[r] /\ reservation'[r] = reservation[r]
       \/ /\ reservation[r].status = "held" /\ reservation'[r].status = "expired"
          /\ request'[r].status = "failed" /\ request'[r].channel = request[r].channel
       \/ /\ reservation[r].status = "pending" /\ reservation'[r].status = "settled"
          /\ request'[r].status = "settled" /\ request'[r].channel = request[r].channel
    /\ \/ upstream'[r] = upstream[r]
       \/ upstream[r].status = "running" /\ upstream'[r].status \in Terminal

\* What happens to a row behind the back of the workers leaves each of them what it relies on.
LEMMA DriftKeeps ==
    ASSUME JobsInv, [Next]_vars, UNCHANGED worker, TablesOK', \A r \in Requests : Drifts(r)
    PROVE  JobsInv' /\ \A r \in Requests : DoneAndCharged(r)
<1>1. RowInv' /\ worker' = worker
  BY NextRows DEF JobsInv
<1>2. ASSUME NEW r \in Requests
      PROVE  Known(job'[r], request'[r], reservation'[r], upstream'[r])
  <2>1. Known(job[r], request[r], reservation[r], upstream[r]) /\ Drifts(r)
    BY DEF JobsInv
  <2>2. QED
    BY <2>1 DEF Known, Drifts, Terminal
<1>3. ASSUME NEW w \in Workers
      PROVE  WorkerOK(worker[w])'
  <2> DEFINE f == worker[w]
             r == Row(w)
  <2>1. FrameOK(f) /\ Waiting(f)
    BY OfWorker
  <2>2. ASSUME f.op # "none"
        PROVE  Fits(f, job'[r], request'[r], reservation'[r], upstream'[r])
    <3>1. /\ r \in Requests /\ Drifts(r)
          /\ Fits(f, job[r], request[r], reservation[r], upstream[r])
      BY <2>2, OfWorker
    <3>2. /\ f.status \in Terminal => upstream'[r].status \in Terminal
          /\ f.pc = "persist" => upstream'[r].status # "none"
      BY <3>1 DEF Fits, Drifts, Terminal
    <3>3. /\ f.op \in Observers \/ f.owns => request'[r].status # "none" /\ (f.paid <=> reservation'[r].status # "none")
          /\ f.owns /\ f.pc \in Creating /\ f.paid => reservation'[r].status \in {"held", "expired"}
          /\ f.pc \in {"submit", "persist"} /\ f.paid => request'[r].channel = f.via
          /\ f.pc = "update" /\ f.paid /\ f.status \in Terminal => reservation'[r].status \in {"pending", "settled"}
      BY <3>1 DEF Fits, Drifts
    <3>4. job'[r] = job[r]
      BY <3>1 DEF Drifts
    <3>5. QED
      BY <3>1, <3>2, <3>3, <3>4 DEF Fits
  <2>3. \A i \in DOMAIN f.todo : job'[f.todo[i]] # NoJob
    <3>1. \A i \in DOMAIN f.todo : f.todo[i] \in Requests
      BY <2>1 DEF FrameOK, Frame
    <3>2. QED
      BY <2>1, <3>1 DEF Waiting, Drifts
  <2>4. QED
    BY <1>1, <2>1, <2>2, <2>3 DEF WorkerOK, Waiting, Row
<1>4. OneOwner'
  BY <1>1 DEF JobsInv, OneOwner, Row
<1>5. ASSUME NEW r \in Requests
      PROVE  DoneAndCharged(r)
  <2>1. Drifts(r)
    OBVIOUS
  <2>2. job'[r].status = job[r].status
    BY <2>1 DEF Drifts
  <2>3. ~ (reservation[r].status = "held" /\ reservation'[r].status = "settled")
    BY <2>1 DEF Drifts
  <2>4. QED
    BY <2>2, <2>3 DEF DoneAndCharged
<1>6. QED
  BY <1>1, <1>2, <1>3, <1>4, <1>5 DEF JobsInv

\* The other operations of the billing core let the rows of the workers drift.
LEMMA OthersKeep ==
    ASSUME JobsInv, OthersStep
    PROVE  JobsInv' /\ \A r \in Requests : DoneAndCharged(r)
<1>1. /\ job' = job /\ updated' = updated /\ upstream' = upstream /\ UNCHANGED worker /\ RowInv
  BY DEF OthersStep, jobVars, JobsInv
<1>2. Next
  BY Zenon DEF OthersStep, Next, PaidStep
<1>3. TablesOK'
  BY <1>1 DEF JobsInv, TablesOK
<1>4. ASSUME NEW r \in Requests
      PROVE  Drifts(r)
  <2>1. \/ request'[r] = request[r] /\ reservation'[r] = reservation[r]
        \/ /\ reservation[r].status = "held"
           /\ Becomes(r, "failed", "expired", request[r].channel)
        \/ /\ reservation[r].status = "pending"
           /\ Becomes(r, "settled", "settled", request[r].channel)
    BY <1>1, OthersEffect DEF OthersStep
  <2>2. QED
    BY <1>1, <2>1 DEF Drifts, Becomes
<1>5. QED
  BY <1>1, <1>2, <1>3, <1>4, DriftKeeps

\* The provider finishes a job that nobody has been told about.
LEMMA ProgressKeeps ==
    ASSUME JobsInv, NEW r \in Requests, Progress(r)
    PROVE  JobsInv' /\ \A s \in Requests : DoneAndCharged(s)
<1>1. /\ job' = job /\ updated' = updated /\ request' = request /\ reservation' = reservation
      /\ UNCHANGED vars /\ UNCHANGED worker
  BY DEF Progress, jobVars, vars
<1>2. PICK a \in Answers : a.status \in Terminal /\ upstream' = [upstream EXCEPT ![r] = a]
  BY DEF Progress
<1>3. upstream \in [Requests -> Answers \cup {NoAnswer}] /\ upstream[r].status = "running"
  BY DEF Progress, JobsInv, TablesOK
<1>4. TablesOK'
  BY <1>1, <1>2, <1>3 DEF JobsInv, TablesOK
<1>5. \A s \in Requests : Drifts(s)
  BY <1>1, <1>2, <1>3 DEF Drifts
<1>6. QED
  BY <1>1, <1>4, <1>5, DriftKeeps

-----------------------------------------------------------------------------
(* The invariant                                                           *)

\* Nothing is accepted and nobody works.
LEMMA JobsInitially == MediaInit => JobsInv
<1>1. SUFFICES ASSUME MediaInit PROVE JobsInv
  OBVIOUS
<1>2. RowInv
  BY <1>1, InitRows DEF MediaInit
<1>3. TablesOK
  <2>1. NoJob \in JobRow
    BY DEF NoJob, JobRow
  <2>2. <<>> \in Seq(Requests) /\ IsInjective(<<>>) /\ ToSet(<<>>) = {}
    BY DEF IsInjective, ToSet
  <2>3. QED
    BY <1>1, <2>1, <2>2 DEF MediaInit, TablesOK
<1>4. \A r \in Requests : Known(job[r], request[r], reservation[r], upstream[r])
  BY <1>1 DEF MediaInit, Known
<1>5. \A w \in Workers : worker[w] = Idle
  BY <1>1 DEF MediaInit
<1>6. Resting(Idle) /\ Idle \in Frame /\ ~ Idle.owns
  BY IdleRests DEF Resting
<1>7. worker \in [Workers -> Frame] /\ OneOwner
  BY <1>1, <1>5, <1>6 DEF MediaInit, OneOwner
<1>8. \A w \in Workers : WorkerOK(worker[w])
  BY <1>5, <1>6 DEF Resting, WorkerOK
<1>9. QED
  BY <1>2, <1>3, <1>4, <1>7, <1>8 DEF JobsInv

\* Every step keeps the invariant, and does and charges as it should.
LEMMA JobsNext ==
    ASSUME JobsInv, [MediaNext]_mediaVars
    PROVE  JobsInv' /\ \A r \in Requests : DoneAndCharged(r)
<1>1. ASSUME NEW w \in Workers, NEW g, Keeps(w, g)
      PROVE  JobsInv' /\ \A r \in Requests : DoneAndCharged(r)
  <2>1. JobsInv'
    BY <1>1, WorkerKeeps
  <2>2. ASSUME NEW r \in Requests
        PROVE  DoneAndCharged(r)
    <3>1. CASE r = Row(w)
      BY <1>1, <3>1 DEF Keeps, Effect
    <3>2. CASE r # Row(w)
      BY <1>1, <3>2 DEF Keeps, Effect, RowsKept, DoneAndCharged
    <3>3. QED
      BY <3>1, <3>2
  <2>3. QED
    BY <2>1, <2>2
<1>2. ASSUME NEW w \in Workers, Create(w)
      PROVE  \E g : Keeps(w, g)
  BY <1>2, ArriveKeeps, PickChannelKeeps, ExhaustedKeeps, StartKeeps, BindKeeps, SubmitKeeps,
     PersistKeeps, FailBillingKeeps DEF Create
<1>3. ASSUME NEW w \in Workers, Observe(w)
      PROVE  \E g : Keeps(w, g)
  BY <1>3, PollKeeps, ListPendingMediaJobsKeeps, ExtendKeeps, AskKeeps, UpdateKeeps DEF Observe
<1>4. ASSUME NEW w \in Workers, FinishVideoJob(w)
      PROVE  \E g : Keeps(w, g)
  BY <1>4, FinishKeeps, RebindKeeps, SettleJobKeeps, PendPlainKeeps, PendKeeps, PendAgainKeeps,
     CompleteFreeKeeps, FailFreeKeeps DEF FinishVideoJob
<1>5. CASE \E w \in Workers : Create(w) \/ Observe(w) \/ FinishVideoJob(w)
                             \/ Disconnect(w) \/ Stop(w) \/ Restart(w)
  <2>1. PICK w \in Workers : \E g : Keeps(w, g)
    BY <1>2, <1>3, <1>4, <1>5, StopKeeps
  <2>2. PICK g : Keeps(w, g)
    BY <2>1
  <2>3. QED
    BY <1>1, <2>2
<1>6. CASE \E r \in Requests : Progress(r)
  BY <1>6, ProgressKeeps
<1>7. CASE OthersStep
  BY <1>7, OthersKeep
<1>8. CASE UNCHANGED mediaVars
  <2>1. /\ UNCHANGED vars /\ job' = job /\ updated' = updated /\ upstream' = upstream /\ UNCHANGED worker
        /\ request' = request /\ reservation' = reservation
    BY <1>8 DEF mediaVars, vars
  <2>2. TablesOK' /\ \A r \in Requests : Drifts(r)
    BY <2>1 DEF JobsInv, TablesOK, Drifts
  <2>3. QED
    BY <2>1, <2>2, DriftKeeps
<1>9. QED
  BY <1>5, <1>6, <1>7, <1>8 DEF MediaNext

\* What the invariant says of the properties.
LEMMA JobsInvImplies == JobsInv => MediaTypeOK /\ AcceptedKeepsItsBill
<1>1. SUFFICES ASSUME JobsInv PROVE MediaTypeOK /\ AcceptedKeepsItsBill
  OBVIOUS
<1>2. ASSUME NEW w \in Workers
      PROVE  /\ worker[w].pc \in Phases
             /\ worker[w].todo \in Seq(Requests)
             /\ worker[w].op \in {"poll", "sweep"} => job[Row(w)] # NoJob
             /\ worker[w].pc \in {"rebind", "settle"} => worker[w].usage \in Usages \ {0}
  <2>1. worker[w] \in Frame /\ FrameOK(worker[w])
    BY <1>1, OfWorker
  <2>2. worker[w].op \in {"poll", "sweep"} => job[Row(w)] # NoJob
    BY <1>1, OfWorker DEF Fits, Observers
  <2>3. QED
    BY <2>1, <2>2 DEF Frame, FrameOK
<1>3. MediaTypeOK
  BY <1>1, <1>2 DEF MediaTypeOK, JobsInv, TablesOK, JobRow
<1>4. AcceptedKeepsItsBill
  BY <1>1 DEF AcceptedKeepsItsBill, AcceptedIsNotReleased, BilledWhereItRuns, JobsInv, Known, PaidJob
<1>5. QED
  BY <1>3, <1>4

\* The rows, the jobs and the frames of all workers agree, whatever the order
\* of creating, polling, sweeping, failing and stopping.
THEOREM JobsInvariant == MediaSpec => []JobsInv
<1>1. JobsInv /\ [MediaNext]_mediaVars => JobsInv'
  BY JobsNext
<1>2. QED
  BY <1>1, JobsInitially, PTL DEF MediaSpec

\* Types; updated_at orders exactly the jobs that exist.
THEOREM JobTypes == MediaSpec => []MediaTypeOK
BY JobsInvariant, JobsInvImplies, PTL

\* A video that a provider accepted keeps its hold, at the price of the channel
\* it runs on.
THEOREM AcceptedJobsKeepTheirBill == MediaSpec => []AcceptedKeepsItsBill
BY JobsInvariant, JobsInvImplies, PTL

\* No video becomes downloadable without its charge, and none is charged, but by
\* an operator, before the provider is done.
THEOREM DoneAndChargedTogether == MediaSpec => ChargedAsDone
<1>1. JobsInv /\ [MediaNext]_mediaVars =>
         /\ [\A r \in Requests :
               job[r].status = "running" /\ job'[r].status = "completed" /\ PaidJob(r) =>
                   reservation[r].status \in {"pending", "settled"}]_mediaVars
         /\ [\A r \in Requests :
               reservation[r].status = "held" /\ reservation'[r].status = "settled" =>
                   upstream[r].status \in Terminal]_mediaVars
  BY JobsNext DEF DoneAndCharged
<1>2. QED
  BY <1>1, JobsInvariant, PTL DEF MediaSpec, ChargedAsDone, DoneIsBilled, ChargedWhenDone

-----------------------------------------------------------------------------
(* Jobs drive the billing core                                             *)

\* An access to the rows of a request is an operation of the core or nothing.
LEMMA AccessIsBilling ==
    ASSUME NEW w, NEW A, NEW f, NEW g, BillingAccess(w, A, f, g), A => [Next]_vars
    PROVE  [Next]_vars
BY DEF BillingAccess, Access

\* The creating handler opens a request, binds it and gives it up.
LEMMA CreateIsBilling ==
    ASSUME JobsInv, NEW w \in Workers, Create(w)
    PROVE  [Next]_vars
<1>1. CASE UNCHANGED vars
  BY <1>1
<1>2. ASSUME worker[w].pc \in {"start", "bind", "fail"}
      PROVE  /\ Row(w) \in Requests /\ EstimateOf[Row(w)] \in Usages
             /\ worker[w].pc # "fail" => worker[w].via \in Channels
  BY <1>2, Creator, JobsAssumption DEF Creating, FrameOK
<1>3. CASE Start(w)
  <2>1. (IF worker[w].paid THEN Reserve(Row(w), worker[w].via, EstimateOf[Row(w)])
                           ELSE StartFreeRequest(Row(w), worker[w].via)) => Next
    BY <1>2, <1>3 DEF Start, Next, PaidStep, FreeStep
  <2>2. QED
    BY <1>1, <1>3, <2>1, AccessIsBilling DEF Start, PassOver, Local
<1>4. CASE Bind(w)
  <2>1. BindChannel(w) => [Next]_vars
    BY <1>2, <1>4 DEF Bind, BindChannel, Nothing, Next, PaidStep
  <2>2. QED
    BY <1>1, <1>4, <2>1, AccessIsBilling DEF Bind, PassOver, Local
<1>5. CASE FailBilling(w)
  <2>1. /\ (Fail(Row(w)) \/ Nothing(reservation[Row(w)].status \in Closed)) => [Next]_vars
        /\ (FailFreeRequest(Row(w)) \/ Nothing(~FreeStarted(Row(w)))) => [Next]_vars
    BY <1>2, <1>5 DEF FailBilling, Nothing, Next, PaidStep, FreeStep
  <2>2. QED
    BY <1>1, <1>5, <2>1, AccessIsBilling DEF FailBilling, Local
<1>6. CASE \/ \E r \in Requests : Arrive(w, r)
           \/ PickChannel(w) \/ Exhausted(w) \/ Submit(w) \/ Persist(w)
  <2>1. UNCHANGED vars
    BY <1>6 DEF Arrive, PickChannel, Exhausted, Submit, Persist, Local, Access, CreateMediaJob
  <2>2. QED
    BY <2>1
<1>7. QED
  BY <1>3, <1>4, <1>5, <1>6 DEF Create

\* A visit may renew the hold of its job.
LEMMA ObserveIsBilling ==
    ASSUME JobsInv, NEW w \in Workers, Observe(w)
    PROVE  [Next]_vars
<1>1. CASE Extend(w)
  <2>1. ExtendReservation(Row(w)) => Next
    BY <1>1, Observer DEF Extend, Next, PaidStep
  <2>2. QED
    BY <1>1, <2>1, AccessIsBilling DEF Extend
<1>2. CASE \/ \E r \in Requests : Poll(w, r)
           \/ ListPendingMediaJobs(w) \/ Ask(w) \/ Update(w)
  <2>1. UNCHANGED vars
    BY <1>2 DEF Poll, ListPendingMediaJobs, Ask, Update, Local, Access, UpdateMediaJob
  <2>2. QED
    BY <2>1
<1>3. QED
  BY <1>1, <1>2 DEF Observe

\* Who finishes a job binds, settles, keeps for reconciliation or closes.
LEMMA FinishVideoJobIsBilling ==
    ASSUME JobsInv, NEW w \in Workers, FinishVideoJob(w)
    PROVE  [Next]_vars
<1>1. ASSUME worker[w].pc \in Ending
      PROVE  /\ Row(w) \in Requests
             /\ worker[w].pc = "rebind" => worker[w].via \in Channels
             /\ worker[w].pc \in {"settle", "completeFree"} => worker[w].usage \in Usages
             /\ worker[w].pc = "pend" => worker[w].usage \in (Usages \ {0}) \cup {NoUsage}
  BY <1>1, Finisher DEF FrameOK, Frame, Finishing, Known
<1>2. CASE Finish(w)
  BY <1>2 DEF Finish, Local
<1>3. CASE Rebind(w)
  <2>1. BindChannel(w) => [Next]_vars
    BY <1>1, <1>3 DEF Rebind, BindChannel, Nothing, Next, PaidStep, Ending
  <2>2. QED
    BY <1>3, <2>1, AccessIsBilling DEF Rebind
<1>4. CASE SettleJob(w)
  <2>1. (Settle(Row(w), worker[w].usage) \/ Nothing(reservation[Row(w)].status = "settled")) => [Next]_vars
    BY <1>1, <1>4 DEF SettleJob, Nothing, Next, PaidStep, Ending
  <2>2. QED
    BY <1>4, <2>1, AccessIsBilling DEF SettleJob
<1>5. ASSUME Row(w) \in Requests, NEW u \in (Usages \ {0}) \cup {NoUsage}, MarkPending(w, u)
      PROVE  [Next]_vars
  BY <1>5 DEF MarkPending, Nothing, Next, PaidStep
<1>6. CASE PendPlain(w) \/ PendAgain(w)
  <2>1. MarkPending(w, NoUsage) => [Next]_vars
    BY <1>1, <1>5, <1>6 DEF PendPlain, PendAgain, Ending
  <2>2. QED
    BY <1>6, <2>1, AccessIsBilling DEF PendPlain, PendAgain
<1>7. CASE Pend(w)
  <2>1. MarkPending(w, worker[w].usage) => [Next]_vars
    BY <1>1, <1>5, <1>7 DEF Pend, Ending
  <2>2. QED
    BY <1>7, <2>1, AccessIsBilling DEF Pend
<1>8. CASE CompleteFree(w)
  <2>1. CompleteFreeRequest(Row(w), worker[w].usage) => Next
    BY <1>1, <1>8 DEF CompleteFree, Next, FreeStep, Ending
  <2>2. QED
    BY <1>8, <2>1, AccessIsBilling DEF CompleteFree
<1>9. CASE FailFree(w)
  <2>1. (FailFreeRequest(Row(w)) \/ Nothing(~FreeStarted(Row(w)))) => [Next]_vars
    BY <1>1, <1>9 DEF FailFree, Nothing, Next, FreeStep, Ending
  <2>2. QED
    BY <1>9, <2>1, AccessIsBilling DEF FailFree
<1>10. QED
  BY <1>2, <1>3, <1>4, <1>6, <1>7, <1>8, <1>9 DEF FinishVideoJob

\* Whatever handlers, reconcilers and providers do, the rows see a step of the
\* billing core or none.
LEMMA MediaStepsAreBilling == JobsInv /\ [MediaNext]_mediaVars => [Next]_vars
<1>1. SUFFICES ASSUME JobsInv, [MediaNext]_mediaVars PROVE [Next]_vars
  OBVIOUS
<1>2. ASSUME NEW w \in Workers, Create(w) \/ Observe(w) \/ FinishVideoJob(w)
      PROVE  [Next]_vars
  BY <1>1, <1>2, CreateIsBilling, ObserveIsBilling, FinishVideoJobIsBilling
<1>3. CASE \/ \E w \in Workers : Disconnect(w) \/ Stop(w) \/ Restart(w)
           \/ \E r \in Requests : Progress(r)
           \/ UNCHANGED mediaVars
  BY <1>3 DEF Disconnect, Stop, Restart, Progress, Local, mediaVars
<1>4. CASE OthersStep
  BY <1>4, Zenon DEF OthersStep, Next, PaidStep
<1>5. QED
  BY <1>1, <1>2, <1>3, <1>4 DEF MediaNext

\* Video jobs, with their lost answers, stops and restarts, are an
\* implementation of the billing core: every theorem about Spec is one about
\* the bills of videos.
THEOREM MediaImplementsBilling == MediaSpec => Spec
<1>1. MediaInit => Init
  BY DEF MediaInit
<1>2. QED
  BY <1>1, MediaStepsAreBilling, JobsInvariant, PTL DEF MediaSpec, Spec

\* So the rows of a video's request agree, its bill has the price of the channel
\* it is bound to, and it is decided once.
THEOREM VideosAreDecidedOnce ==
    MediaSpec => [](RowsAgree /\ PricedByChannel) /\ DecidedOnce
BY MediaImplementsBilling, RowsAlwaysAgree, PricesFollowTheChannel, RequestsAreDecidedOnce, PTL
=============================================================================
