---------------------------- MODULE RelayProofs ----------------------------
(***************************************************************************)
(* What was served is on the books, and what was refunded was not served,  *)
(* for any number of calls, keys, channels, prices and stream attempts.    *)
(*                                                                         *)
(* A call that owns the row of its key is the only one that works on it,   *)
(* and the rest of the system only closes rows; so its stack frame and the *)
(* row can be related phase by phase, whatever write was lost or doubted.  *)
(***************************************************************************)
EXTENDS Relay, BillingProofs

Frame == [pc : Phases, billing : {"prepaid", "free"}, tried : SUBSET Channels,
          via : Channels \cup {NoChannel}, attempt : 0 .. MaxStreamAttempts - 1, owns : BOOLEAN,
          output : BOOLEAN, served : Channels \cup {NoChannel},
          usage : Usages \cup {NoUsage}, connected : BOOLEAN,
          result : {"none", "ok", "error", "crashed"}, trouble : BOOLEAN]

\* The phases that follow an answer, and those in which an upstream is, or was,
\* working for the call.
Accounting == {"policy", "rebind", "settle", "pend", "pendPlain"}
Working    == {"upstream"} \cup Accounting

\* What a stack frame looks like in each phase.
FrameOK(f, i) ==
    /\ f \in Frame
    /\ f.pc \in {"start", "bind"} \cup Working => f.via \in Channels
    /\ f.pc \in {"bind"} \cup Working => f.owns
    /\ f.pc \in {"idle", "start"} => ~f.owns
    /\ f.pc \in {"bind", "policy", "pend", "pendPlain"} => f.billing # "free"
    /\ f.pc \in {"idle", "pick", "start", "bind"} => f.served = NoChannel /\ ~f.output
    /\ f.pc = "upstream" => f.served = IF f.output THEN f.via ELSE NoChannel
    /\ f.pc \in Accounting => f.served = f.via
    /\ f.pc \in {"rebind", "settle"} => f.usage \in Usages
    /\ f.pc = "fail" /\ f.billing # "free" => f.served = NoChannel
    /\ ~f.owns => f.served = NoChannel
    /\ f.output => i \in Streams
    /\ f.result = "ok" => f.pc = "done" /\ f.owns

\* How the frame f of a call and the rows q, v of its key fit together: until
\* the call accounts for an answer the rows are open, and what they are bound
\* to, charged to or given back for is what the call has seen.
RowsFit(f, q, v) ==
    /\ f.owns => q.status # "none" /\ (v.status = "none" <=> f.billing = "free")
    /\ f.owns /\ f.billing # "free" /\ f.pc \in Working => q.channel = f.via
    /\ f.owns /\ f.billing = "free" /\ f.pc = "settle" => q.channel = f.via
    /\ f.owns /\ q.status \in {"settlement_pending", "settled"} =>
          /\ f.served # NoChannel /\ q.channel = f.served
          /\ f.pc \in {"pend", "pendPlain", "fail", "done"}
    /\ f.owns /\ f.billing # "free" /\ v.status = "released" =>
          f.pc = "done" /\ f.served = NoChannel
    /\ f.owns /\ f.billing # "free" /\ f.pc = "done" /\ ~f.trouble /\ f.served = NoChannel =>
          v.status \in Closed
    /\ f.result = "ok" /\ f.billing # "free" => v.status \in {"pending", "settled"}

CallOK(i) == FrameOK(call[i], i) /\ RowsFit(call[i], request[Row(i)], reservation[Row(i)])

\* A key has at most one owner.
OneOwner == \A i, j \in Calls : Row(i) = Row(j) /\ call[i].owns /\ call[j].owns => i = j

CallsInv == /\ RowInv
            /\ call = [i \in Calls |-> call[i]]
            /\ \A i \in Calls : CallOK(i)
            /\ OneOwner

-----------------------------------------------------------------------------
(* Steps of one call                                                       *)

\* A step of call i to frame g that keeps the invariant.
Local(i, g) ==
    /\ [Next]_vars
    /\ Step(i, g)
    /\ OthersKept(Row(i))
    /\ \/ UNCHANGED <<request, reservation>>
       \/ call[i].owns
       \/ request[Row(i)].status = "none"
    /\ g.owns => call[i].owns \/ request[Row(i)].status = "none"
    /\ FrameOK(g, i)
    /\ RowsFit(g, request'[Row(i)], reservation'[Row(i)])

\* The rows of a key say nothing about a call that does not own them.
LEMMA OwnsNothing ==
    ASSUME NEW i, NEW f, FrameOK(f, i), ~f.owns
    PROVE  \A q, v : RowsFit(f, q, v)
BY DEF FrameOK, RowsFit

\* The calls with other keys do not see the step, and those with the same key
\* own nothing.
LEMMA LocalKeeps ==
    ASSUME CallsInv, NEW i \in Calls, NEW g, Local(i, g)
    PROVE  CallsInv'
<1>1. RowInv'
  BY NextRows DEF Local, CallsInv
<1>2. /\ call = [j \in Calls |-> call[j]] /\ call' = [call EXCEPT ![i] = g]
      /\ \A j \in Calls : FrameOK(call[j], j) /\ RowsFit(call[j], request[Row(j)], reservation[Row(j)])
      /\ \A j \in Calls : Row(j) \in Requests
  BY CallsAssumption DEF CallsInv, CallOK, Local, Step, Row
<1>3. /\ call'[i] = g /\ \A j \in Calls \ {i} : call'[j] = call[j]
      /\ call' = [j \in Calls |-> call'[j]]
  BY <1>2
<1>4. ASSUME NEW j \in Calls \ {i}
      PROVE  RowsFit(call[j], request'[Row(j)], reservation'[Row(j)])
  <2>1. CASE Row(j) # Row(i)
    <3>1. request'[Row(j)] = request[Row(j)] /\ reservation'[Row(j)] = reservation[Row(j)]
      BY <1>2, <2>1 DEF Local, OthersKept
    <3> QED BY <1>2, <3>1
  <2>2. CASE Row(j) = Row(i) /\ UNCHANGED <<request, reservation>>
    BY <1>2, <2>2
  <2>3. CASE Row(j) = Row(i) /\ (call[i].owns \/ request[Row(i)].status = "none")
    <3>1. ~call[j].owns
      BY <1>2, <2>3 DEF CallsInv, OneOwner, RowsFit
    <3> QED BY <1>2, <3>1, OwnsNothing
  <2> QED BY <2>1, <2>2, <2>3 DEF Local
<1>5. \A j \in Calls : CallOK(j)'
  BY <1>2, <1>3, <1>4 DEF Local, CallOK, Row
<1>6. OneOwner'
  <2>1. SUFFICES ASSUME NEW j \in Calls, NEW k \in Calls, Row(j) = Row(k),
                        call'[j].owns, call'[k].owns
                 PROVE  j = k
    BY DEF OneOwner, Row
  <2>2. ASSUME NEW l \in Calls, l # i, Row(l) = Row(i), call[l].owns, g.owns
        PROVE  FALSE
    <3>1. call[i].owns \/ request[Row(i)].status = "none"
      BY <2>2 DEF Local
    <3>2. request[Row(i)].status # "none"
      BY <1>2, <2>2 DEF RowsFit
    <3> QED BY <2>2, <3>1, <3>2 DEF CallsInv, OneOwner
  <2>3. CASE j # i /\ k # i
    BY <1>3, <2>1, <2>3 DEF CallsInv, OneOwner
  <2>4. CASE j = i /\ k # i
    BY <1>3, <2>1, <2>2, <2>4
  <2>5. CASE j # i /\ k = i
    BY <1>3, <2>1, <2>2, <2>5
  <2> QED BY <2>3, <2>4, <2>5
<1> QED BY <1>1, <1>3, <1>5, <1>6 DEF CallsInv

\* A step that touches the stack frame only.
LEMMA QuietStep ==
    ASSUME CallsInv, NEW i \in Calls, NEW g, UNCHANGED vars, Step(i, g),
           g.owns => call[i].owns, FrameOK(g, i),
           RowsFit(g, request[Row(i)], reservation[Row(i)])
    PROVE  Local(i, g)
BY DEF Local, OthersKept, vars

-----------------------------------------------------------------------------
(* Frames                                                                  *)

\* The invariant for one call.
LEMMA OfCall ==
    ASSUME CallsInv, NEW i \in Calls
    PROVE  /\ FrameOK(call[i], i) /\ call[i] \in Frame
           /\ RowsFit(call[i], request[Row(i)], reservation[Row(i)])
           /\ Row(i) \in Requests
BY CallsAssumption DEF CallsInv, CallOK, FrameOK, Row

\* A frame moves to another phase.
LEMMA MovesTo ==
    ASSUME NEW f \in Frame, NEW p \in Phases
    PROVE  LET g == [f EXCEPT !.pc = p]
           IN  /\ g \in Frame /\ g.pc = p
               /\ g.billing = f.billing /\ g.via = f.via /\ g.owns = f.owns /\ g.output = f.output
               /\ g.served = f.served /\ g.usage = f.usage /\ g.result = f.result
               /\ g.trouble = f.trouble /\ g.attempt = f.attempt
BY DEF Frame

\* A frame ends with an error, with or without trouble.
LEMMA EndsBadly ==
    ASSUME NEW f \in Frame, NEW t \in BOOLEAN
    PROVE  LET g == [f EXCEPT !.pc = "done", !.result = "error"]
               h == [g EXCEPT !.trouble = TRUE]
           IN  /\ g \in Frame /\ g.pc = "done" /\ g.result = "error"
               /\ g.billing = f.billing /\ g.via = f.via /\ g.owns = f.owns /\ g.output = f.output
               /\ g.served = f.served /\ g.trouble = f.trouble /\ g.attempt = f.attempt
               /\ h \in Frame /\ h.pc = "done" /\ h.result = "error"
               /\ h.billing = f.billing /\ h.via = f.via /\ h.owns = f.owns /\ h.output = f.output
               /\ h.served = f.served /\ h.trouble /\ h.attempt = f.attempt
BY DEF Frame, Phases

\* An admitted call, or one refused at once, owns nothing yet.
LEMMA ArriveStep ==
    ASSUME CallsInv, NEW i \in Calls, Arrive(i)
    PROVE  \E g : Local(i, g)
<1> DEFINE f == call[i]
<1>1. FrameOK(f, i) /\ f \in Frame /\ f.pc = "idle" /\ UNCHANGED vars
  BY OfCall DEF Arrive
<1>2. ASSUME NEW type \in BillingTypes, Step(i, [At(i, "pick") EXCEPT !.billing = type])
      PROVE  \E g : Local(i, g)
  <2> DEFINE g == [At(i, "pick") EXCEPT !.billing = type]
  <2>1. /\ g \in Frame /\ g.pc = "pick" /\ g.owns = f.owns /\ g.served = f.served
        /\ g.output = f.output /\ g.result = f.result
    BY <1>1, CallsAssumption DEF At, Frame, Phases
  <2>2. ~g.owns /\ g.served = NoChannel /\ ~g.output /\ g.result # "ok"
    BY <1>1, <2>1 DEF FrameOK
  <2> HIDE DEF g
  <2>3. FrameOK(g, i)
    BY <2>1, <2>2 DEF FrameOK, Working, Accounting
  <2> QED BY <1>1, <1>2, <2>2, <2>3, QuietStep, OwnsNothing DEF g
<1>3. ASSUME Step(i, Error(i))
      PROVE  \E g : Local(i, g)
  <2> DEFINE g == Error(i)
  <2>1. /\ g \in Frame /\ g.pc = "done" /\ g.owns = f.owns /\ g.served = f.served
        /\ g.output = f.output /\ g.result = "error"
    BY <1>1 DEF Error, Frame, Phases
  <2>2. ~g.owns /\ g.served = NoChannel /\ ~g.output
    BY <1>1, <2>1 DEF FrameOK
  <2> HIDE DEF g
  <2>3. FrameOK(g, i)
    BY <2>1, <2>2 DEF FrameOK, Working, Accounting
  <2> QED BY <1>1, <1>3, <2>2, <2>3, QuietStep, OwnsNothing DEF g
<1> QED BY <1>2, <1>3 DEF Arrive

\* The next channel is picked; what is owned stays bound to the last one.
LEMMA PickStep ==
    ASSUME CallsInv, NEW i \in Calls, PickChannel(i)
    PROVE  \E g : Local(i, g)
<1> DEFINE f == call[i]
<1>1. /\ FrameOK(f, i) /\ f \in Frame /\ f.pc = "pick" /\ UNCHANGED vars
      /\ RowsFit(f, request[Row(i)], reservation[Row(i)])
  BY OfCall DEF PickChannel
<1>2. PICK c \in Channels, p \in {"pick", "start", "bind", "upstream"} :
         /\ p = "start" => ~f.owns
         /\ p \in {"bind", "upstream"} => f.owns
         /\ p = "bind" => f.billing # "free"
         /\ p = "upstream" => f.billing = "free"
         /\ Step(i, [f EXCEPT !.tried = @ \cup {c}, !.via = c, !.attempt = 0, !.pc = p])
  <2>1. PICK c \in Preferred(i) :
           LET tried == [call[i] EXCEPT !.tried = @ \cup {c}, !.via = c, !.attempt = 0]
           IN  \/ Step(i, tried)
               \/ Step(i, [tried EXCEPT !.pc = IF ~call[i].owns THEN "start"
                                               ELSE IF Paid(i) THEN "bind" ELSE "upstream"])
    BY DEF PickChannel
  <2>2. c \in Channels
    BY <2>1 DEF Preferred
  <2>3. [f EXCEPT !.tried = @ \cup {c}, !.via = c, !.attempt = 0]
           = [f EXCEPT !.tried = @ \cup {c}, !.via = c, !.attempt = 0, !.pc = "pick"]
    BY <1>1 DEF Frame
  <2> QED BY <1>1, <2>1, <2>2, <2>3 DEF Paid
<1> DEFINE g == [f EXCEPT !.tried = @ \cup {c}, !.via = c, !.attempt = 0, !.pc = p]
<1>3. 0 \in 0 .. MaxStreamAttempts - 1
  BY CallsAssumption
<1>4. /\ g \in Frame /\ g.pc = p /\ g.owns = f.owns /\ g.served = f.served /\ g.via = c
      /\ g.output = f.output /\ g.result = f.result /\ g.billing = f.billing
  BY <1>1, <1>2, <1>3 DEF Frame, Phases
<1> HIDE DEF g
<1>5. FrameOK(g, i)
  BY <1>1, <1>2, <1>4 DEF FrameOK, Working, Accounting
<1>6. RowsFit(g, request[Row(i)], reservation[Row(i)])
  BY <1>1, <1>2, <1>4 DEF RowsFit, FrameOK, Working, Accounting
<1>7. Step(i, g)
  BY <1>2 DEF g
<1> QED BY <1>1, <1>4, <1>5, <1>6, <1>7, QuietStep

\* A call that gives up: its frame ends with an error, whatever the rows are,
\* as long as it owns none, or nothing was served or decided.
LEMMA EndFits ==
    ASSUME NEW i, NEW f, NEW g \in Frame, NEW q, NEW v, NEW w, FrameOK(f, i), RowsFit(f, q, v),
           g.pc = "done", g.result = "error", g.billing = f.billing, g.owns = f.owns,
           g.output = f.output, g.served = f.served,
           f.pc # "done",
           g.trouble \/ ~f.owns \/ v.status \in Closed \/ f.billing = "free" \/ f.served # NoChannel
    PROVE  FrameOK(g, i) /\ RowsFit(g, q, v)
<1>1. FrameOK(g, i)
  BY DEF FrameOK, Working, Accounting
<1>2. RowsFit(g, q, v)
  BY DEF RowsFit, FrameOK, Working, Accounting
<1> QED BY <1>1, <1>2

\* No channel is left.
LEMMA ExhaustedStep ==
    ASSUME CallsInv, NEW i \in Calls, Exhausted(i)
    PROVE  \E g : Local(i, g)
<1> DEFINE f == call[i]
           g == At(i, "fail")
<1>1. /\ FrameOK(f, i) /\ f \in Frame /\ f.pc = "pick" /\ UNCHANGED vars /\ Step(i, g)
      /\ RowsFit(f, request[Row(i)], reservation[Row(i)])
  BY OfCall DEF Exhausted
<1>2. /\ g \in Frame /\ g.pc = "fail" /\ g.owns = f.owns /\ g.served = f.served /\ g.via = f.via
      /\ g.output = f.output /\ g.result = f.result /\ g.billing = f.billing
  BY <1>1, MovesTo DEF At, Phases
<1> HIDE DEF g
<1>3. FrameOK(g, i)
  BY <1>1, <1>2 DEF FrameOK, Working, Accounting
<1>4. RowsFit(g, request[Row(i)], reservation[Row(i)])
  BY <1>1, <1>2 DEF RowsFit, FrameOK, Working, Accounting
<1> QED BY <1>1, <1>2, <1>3, <1>4, QuietStep

\* Reserve: whoever inserts the rows of a key owns them, unless the answer is lost.
LEMMA StartPaidStep ==
    ASSUME CallsInv, NEW i \in Calls, StartPaid(i)
    PROVE  \E g : Local(i, g)
<1> DEFINE f == call[i]
           r == Row(i)
           bad == [Error(i) EXCEPT !.trouble = TRUE]
<1>1. /\ FrameOK(f, i) /\ f \in Frame /\ f.pc = "start" /\ f.billing # "free" /\ ~f.owns
      /\ f.via \in Channels /\ f.served = NoChannel /\ ~f.output /\ f.result # "ok"
      /\ r \in Requests /\ RowInv
  BY OfCall DEF StartPaid, Paid, FrameOK, CallsInv
<1>2. /\ bad \in Frame /\ bad.pc = "done" /\ ~bad.owns /\ bad.served = NoChannel /\ ~bad.output
      /\ bad.result = "error"
  BY <1>1, EndsBadly DEF Error
<1>3. FrameOK(bad, i)
  <2> HIDE DEF bad
  <2> QED BY <1>2 DEF FrameOK, Working, Accounting
<1>4. EstimateOf[i] \in Usages
  BY CallsAssumption
<1>5. ASSUME Reserve(r, f.via, EstimateOf[i])
      PROVE  [Next]_vars /\ request[r].status = "none" /\ Becomes(r, "started", "held", f.via)
  BY <1>1, <1>4, <1>5, OperationsAreSteps, PaidEffects
<1>6. ASSUME Reserve(r, f.via, EstimateOf[i]), Step(i, [At(i, "bind") EXCEPT !.owns = TRUE])
      PROVE  \E g : Local(i, g)
  <2> DEFINE g == [At(i, "bind") EXCEPT !.owns = TRUE]
  <2>1. /\ g \in Frame /\ g.pc = "bind" /\ g.owns /\ g.served = f.served /\ g.via = f.via
        /\ g.output = f.output /\ g.result = f.result /\ g.billing = f.billing
    BY <1>1 DEF At, Frame, Phases
  <2>2. Step(i, g)
    BY <1>6
  <2> HIDE DEF g
  <2>3. FrameOK(g, i)
    BY <1>1, <2>1 DEF FrameOK, Working, Accounting
  <2>4. RowsFit(g, request'[r], reservation'[r])
    BY <1>1, <1>5, <1>6, <2>1 DEF RowsFit, Becomes, Working, Accounting
  <2> QED BY <1>5, <1>6, <2>2, <2>3, <2>4 DEF Local, Becomes
<1>7. ASSUME Reserve(r, f.via, EstimateOf[i]), Step(i, bad)
      PROVE  \E g : Local(i, g)
  <2> HIDE DEF bad
  <2> QED BY <1>2, <1>3, <1>5, <1>7, OwnsNothing DEF Local, Becomes
<1>8. ASSUME UNCHANGED vars, Step(i, bad)
      PROVE  \E g : Local(i, g)
  <2> HIDE DEF bad
  <2> QED BY <1>2, <1>3, <1>8, OwnsNothing, QuietStep
<1>9. ASSUME UNCHANGED vars, Step(i, At(i, "pick"))
      PROVE  \E g : Local(i, g)
  <2> DEFINE g == At(i, "pick")
  <2>1. /\ g \in Frame /\ g.pc = "pick" /\ g.owns = f.owns /\ g.served = f.served /\ g.via = f.via
        /\ g.output = f.output /\ g.result = f.result /\ g.billing = f.billing
    <3>1. "pick" \in Phases
      BY DEF Phases
    <3>2. QED
      BY <1>1, <3>1, MovesTo DEF At
  <2>2. Step(i, g)
    BY <1>9
  <2> HIDE DEF g
  <2>3. FrameOK(g, i)
    BY <1>1, <2>1 DEF FrameOK, Working, Accounting
  <2> QED BY <1>1, <1>9, <2>1, <2>2, <2>3, QuietStep, OwnsNothing
<1> QED BY <1>6, <1>7, <1>8, <1>9 DEF StartPaid, Access

\* The same for a free group.
LEMMA StartFreeStep ==
    ASSUME CallsInv, NEW i \in Calls, StartFree(i)
    PROVE  \E g : Local(i, g)
<1> DEFINE f == call[i]
           r == Row(i)
           bad == [Error(i) EXCEPT !.trouble = TRUE]
<1>1. /\ FrameOK(f, i) /\ f \in Frame /\ f.pc = "start" /\ f.billing = "free" /\ ~f.owns
      /\ f.via \in Channels /\ f.served = NoChannel /\ ~f.output /\ f.result # "ok"
      /\ r \in Requests /\ RowInv
  BY OfCall DEF StartFree, Paid, FrameOK, CallsInv
<1>2. /\ bad \in Frame /\ bad.pc = "done" /\ ~bad.owns /\ bad.served = NoChannel /\ ~bad.output
      /\ bad.result = "error"
  BY <1>1, EndsBadly DEF Error
<1>3. FrameOK(bad, i)
  <2> HIDE DEF bad
  <2> QED BY <1>2 DEF FrameOK, Working, Accounting
<1>4. ASSUME StartFreeRequest(r, f.via)
      PROVE  [Next]_vars /\ request[r].status = "none" /\ Becomes(r, "started", "none", f.via)
  BY <1>1, <1>4, OperationsAreSteps, FreeEffects
<1>5. ASSUME StartFreeRequest(r, f.via), Step(i, [At(i, "upstream") EXCEPT !.owns = TRUE])
      PROVE  \E g : Local(i, g)
  <2> DEFINE g == [At(i, "upstream") EXCEPT !.owns = TRUE]
  <2>1. /\ g \in Frame /\ g.pc = "upstream" /\ g.owns /\ g.served = f.served /\ g.via = f.via
        /\ g.output = f.output /\ g.result = f.result /\ g.billing = f.billing
    BY <1>1 DEF At, Frame, Phases
  <2>2. Step(i, g)
    BY <1>5
  <2> HIDE DEF g
  <2>3. FrameOK(g, i)
    BY <1>1, <2>1 DEF FrameOK, Working, Accounting
  <2>4. RowsFit(g, request'[r], reservation'[r])
    BY <1>1, <1>4, <1>5, <2>1 DEF RowsFit, Becomes, Working, Accounting
  <2> QED BY <1>4, <1>5, <2>2, <2>3, <2>4 DEF Local, Becomes
<1>6. ASSUME StartFreeRequest(r, f.via), Step(i, bad)
      PROVE  \E g : Local(i, g)
  <2> HIDE DEF bad
  <2> QED BY <1>2, <1>3, <1>4, <1>6, OwnsNothing DEF Local, Becomes
<1>7. ASSUME UNCHANGED vars, Step(i, bad)
      PROVE  \E g : Local(i, g)
  <2> HIDE DEF bad
  <2> QED BY <1>2, <1>3, <1>7, OwnsNothing, QuietStep
<1> QED BY <1>5, <1>6, <1>7 DEF StartFree, Access

\* The binding of a call's reservation to its channel, before and after the
\* upstream call: nobody can have closed it in a way that skips the binding.
LEMMA BindEffect ==
    ASSUME CallsInv, NEW i \in Calls, BindChannel(i), call[i].pc \in {"bind", "rebind"},
           call[i].billing # "free"
    PROVE  /\ [Next]_vars
           /\ Becomes(Row(i), request[Row(i)].status, reservation[Row(i)].status, call[i].via)
           /\ reservation[Row(i)].status \in Open
<1> DEFINE r == Row(i)
           f == call[i]
<1>1. /\ FrameOK(f, i) /\ RowsFit(f, request[r], reservation[r]) /\ r \in Requests /\ RowInv
      /\ f.via \in Channels /\ f.owns
  BY OfCall DEF CallsInv, FrameOK, Working, Accounting
<1>2. reservation[r].status # "settled"
  BY <1>1, StatusPairs DEF RowsFit
<1>3. RebindReservationChannel(r, f.via)
  BY <1>2 DEF BindChannel, Nothing
<1> QED BY <1>1, <1>3, PaidEffects, OperationsAreSteps

\* The reservation follows the call to its next channel.
LEMMA BindStep ==
    ASSUME CallsInv, NEW i \in Calls, Bind(i)
    PROVE  \E g : Local(i, g)
<1> DEFINE f == call[i]
           r == Row(i)
           bad == [At(i, "fail") EXCEPT !.trouble = TRUE]
<1>1. /\ FrameOK(f, i) /\ f \in Frame /\ f.pc = "bind" /\ f.billing # "free" /\ f.owns
      /\ f.via \in Channels /\ f.served = NoChannel /\ ~f.output /\ f.result # "ok"
      /\ RowsFit(f, request[r], reservation[r]) /\ RowInv /\ r \in Requests
  BY OfCall DEF Bind, FrameOK, CallsInv
<1>2. /\ bad \in Frame /\ bad.pc = "fail" /\ bad.owns /\ bad.served = NoChannel /\ ~bad.output
      /\ bad.result = f.result /\ bad.billing = f.billing
  BY <1>1 DEF At, Frame, Phases
<1>3. FrameOK(bad, i)
  <2> HIDE DEF bad
  <2> QED BY <1>1, <1>2 DEF FrameOK, Working, Accounting
<1>4. /\ reservation[r].status \notin {"released", "settled"}
      /\ request[r].status \notin {"settlement_pending", "settled"}
  BY <1>1, StatusPairs DEF RowsFit
<1>5. ASSUME BindChannel(i), Step(i, At(i, "upstream"))
      PROVE  \E g : Local(i, g)
  <2> DEFINE g == At(i, "upstream")
  <2>1. /\ g \in Frame /\ g.pc = "upstream" /\ g.owns = f.owns /\ g.served = f.served
        /\ g.via = f.via /\ g.output = f.output /\ g.result = f.result /\ g.billing = f.billing
    <3>1. "upstream" \in Phases
      BY DEF Phases
    <3>2. QED
      BY <1>1, <3>1, MovesTo DEF At
  <2>2. Step(i, g)
    BY <1>5
  <2> HIDE DEF g
  <2>3. FrameOK(g, i)
    BY <1>1, <2>1 DEF FrameOK, Working, Accounting
  <2>4. [Next]_vars /\ Becomes(r, request[r].status, reservation[r].status, f.via)
    BY <1>1, <1>5, BindEffect
  <2>5. RowsFit(g, request'[r], reservation'[r])
    BY <1>1, <1>4, <2>1, <2>4 DEF RowsFit, Becomes, Working, Accounting
  <2> QED BY <1>1, <2>2, <2>3, <2>4, <2>5 DEF Local, Becomes
<1>6. ASSUME BindChannel(i), Step(i, bad)
      PROVE  \E g : Local(i, g)
  <2>1. [Next]_vars /\ Becomes(r, request[r].status, reservation[r].status, f.via)
    BY <1>1, <1>6, BindEffect
  <2> HIDE DEF bad
  <2>2. RowsFit(bad, request'[r], reservation'[r])
    BY <1>1, <1>2, <1>4, <2>1 DEF RowsFit, Becomes, Working, Accounting
  <2> QED BY <1>1, <1>3, <1>6, <2>1, <2>2 DEF Local, Becomes
<1>7. ASSUME UNCHANGED vars, Step(i, bad)
      PROVE  \E g : Local(i, g)
  <2> HIDE DEF bad
  <2>1. RowsFit(bad, request[r], reservation[r])
    BY <1>1, <1>2, <1>4 DEF RowsFit, Working, Accounting
  <2> QED BY <1>1, <1>3, <1>7, <2>1, QuietStep
<1>8. ASSUME UNCHANGED vars, Step(i, At(i, "pick"))
      PROVE  \E g : Local(i, g)
  <2> DEFINE g == At(i, "pick")
  <2>1. /\ g \in Frame /\ g.pc = "pick" /\ g.owns = f.owns /\ g.served = f.served /\ g.via = f.via
        /\ g.output = f.output /\ g.result = f.result /\ g.billing = f.billing
    <3>1. "pick" \in Phases
      BY DEF Phases
    <3>2. QED
      BY <1>1, <3>1, MovesTo DEF At
  <2>2. Step(i, g)
    BY <1>8
  <2> HIDE DEF g
  <2>3. FrameOK(g, i)
    BY <1>1, <2>1 DEF FrameOK, Working, Accounting
  <2>4. RowsFit(g, request[r], reservation[r])
    BY <1>1, <1>4, <2>1 DEF RowsFit, Working, Accounting
  <2> QED BY <1>1, <1>8, <2>1, <2>2, <2>3, <2>4, QuietStep
<1> QED BY <1>5, <1>6, <1>7, <1>8 DEF Bind, Access

-----------------------------------------------------------------------------
(* Steps of the upstream call                                              *)

\* A call whose upstream is working: its rows are open.
LEMMA AtUpstream ==
    ASSUME CallsInv, NEW i \in Calls, call[i].pc = "upstream"
    PROVE  LET f == call[i]
               r == Row(i)
           IN  /\ FrameOK(f, i) /\ f \in Frame /\ f.owns /\ f.via \in Channels /\ f.result # "ok"
               /\ RowsFit(f, request[r], reservation[r])
               /\ reservation[r].status \notin {"released", "settled"} \/ f.billing = "free"
               /\ request[r].status \notin {"none", "settlement_pending", "settled"}
               /\ f.served = IF f.output THEN f.via ELSE NoChannel
               /\ f.output => i \in Streams
BY OfCall, StatusPairs DEF FrameOK, RowsFit, Working, Accounting, CallsInv

\* A step from there to a frame g that keeps call and channel.
LEMMA FromUpstream ==
    ASSUME CallsInv, NEW i \in Calls, call[i].pc = "upstream", UNCHANGED vars,
           NEW g, Step(i, g), FrameOK(g, i), g.owns = call[i].owns, g.billing = call[i].billing,
           g.result \in {call[i].result, "error"}, g.pc # "done",
           g.pc \in Working => g.via = call[i].via, g.pc # "settle"
    PROVE  Local(i, g)
<1>1. RowsFit(g, request[Row(i)], reservation[Row(i)])
  BY AtUpstream DEF RowsFit, Working, Accounting
<1> QED BY <1>1, QuietStep

\* An answer, complete or not, leads to the accounting.
LEMMA AnsweredStep ==
    ASSUME CallsInv, NEW i \in Calls, call[i].pc = "upstream", UNCHANGED vars,
           NEW u \in Usages \cup {NoUsage}, NEW complete \in BOOLEAN, Answered(i, u, complete)
    PROVE  \E g : Local(i, g)
<1> DEFINE f == call[i]
<1>1. FrameOK(f, i) /\ f \in Frame /\ f.via \in Channels
  BY AtUpstream
<1>2. PICK p \in {"rebind", "pend", "policy", "fail"}, w \in Usages \cup {NoUsage} :
         /\ p = "rebind" => w \in Usages
         /\ p \in {"pend", "policy"} => f.billing # "free"
         /\ p = "fail" => f.billing = "free"
         /\ Step(i, [f EXCEPT !.served = f.via, !.usage = w, !.pc = p])
  <2>1. PICK p \in {"rebind", "pend", "policy", "fail"} :
           /\ p = "rebind" => u # NoUsage \/ f.billing = "free"
           /\ p \in {"pend", "policy"} => f.billing # "free"
           /\ p = "fail" => f.billing = "free"
           /\ Step(i, [[f EXCEPT !.served = f.via, !.usage = u] EXCEPT
                         !.pc = p, !.usage = IF u = NoUsage /\ f.billing = "free"
                                             THEN EstimateOf[i] ELSE u])
    BY DEF Answered, Paid
  <2> DEFINE w == IF u = NoUsage /\ f.billing = "free" THEN EstimateOf[i] ELSE u
  <2>2. w \in Usages \cup {NoUsage} /\ (p = "rebind" => w \in Usages)
    BY <2>1, CallsAssumption
  <2>3. [[f EXCEPT !.served = f.via, !.usage = u] EXCEPT !.pc = p, !.usage = w]
           = [f EXCEPT !.served = f.via, !.usage = w, !.pc = p]
    BY <1>1 DEF Frame
  <2> QED BY <2>1, <2>2, <2>3
<1> DEFINE g == [f EXCEPT !.served = f.via, !.usage = w, !.pc = p]
<1>3. /\ g \in Frame /\ g.pc = p /\ g.owns = f.owns /\ g.served = f.via /\ g.via = f.via
      /\ g.output = f.output /\ g.result = f.result /\ g.billing = f.billing /\ g.usage = w
  BY <1>1, <1>2 DEF Frame, Phases
<1>4. Step(i, g)
  BY <1>2
<1> HIDE DEF g
<1>5. FrameOK(g, i)
  BY <1>2, <1>3, AtUpstream DEF FrameOK, Working, Accounting
<1> QED BY <1>2, <1>3, <1>4, <1>5, FromUpstream

\* An unserved call goes elsewhere.
LEMMA LeavesUpstream ==
    ASSUME CallsInv, NEW i \in Calls, call[i].pc = "upstream", ~call[i].output, UNCHANGED vars,
           NEW p \in {"fail", "pick"}, Step(i, At(i, p))
    PROVE  \E g : Local(i, g)
<1> DEFINE f == call[i]
           g == At(i, p)
<1>1. /\ g \in Frame /\ g.pc = p /\ g.owns = f.owns /\ g.served = f.served /\ g.via = f.via
      /\ g.output = f.output /\ g.result = f.result /\ g.billing = f.billing
  <2>1. f \in Frame /\ p \in Phases
    BY AtUpstream DEF Phases
  <2> QED BY <2>1, MovesTo DEF At
<1>2. Step(i, g)
  OBVIOUS
<1> HIDE DEF g
<1>3. FrameOK(g, i)
  BY <1>1, AtUpstream DEF FrameOK, Working, Accounting
<1> QED BY <1>1, <1>2, <1>3, FromUpstream DEF Working, Accounting

\* Every step of the upstream call.
LEMMA UpstreamStep ==
    ASSUME CallsInv, NEW i \in Calls, Upstream(i)
    PROVE  \E g : Local(i, g)
<1> DEFINE f == call[i]
<1>1. call[i].pc = "upstream" /\ UNCHANGED vars
  BY DEF Upstream, SyncAnswers, SyncFails, StreamDelivers, StreamEnds, StreamBreaks
<1>2. f \in Frame /\ FrameOK(f, i)
  BY <1>1, AtUpstream
<1>3. CASE SyncAnswers(i)
  BY <1>1, <1>3, AnsweredStep DEF SyncAnswers
<1>4. CASE SyncFails(i)
  BY <1>1, <1>4, LeavesUpstream, AtUpstream DEF SyncFails
<1>5. CASE StreamDelivers(i)
  <2>1. PICK u \in Merged(f.usage) :
           Step(i, [f EXCEPT !.output = TRUE, !.served = f.via, !.usage = u])
    BY <1>5 DEF StreamDelivers
  <2>2. u \in Usages \cup {NoUsage}
    BY <1>2 DEF Merged, Frame
  <2> DEFINE g == [f EXCEPT !.output = TRUE, !.served = f.via, !.usage = u]
  <2>3. /\ g \in Frame /\ g.pc = "upstream" /\ g.owns = f.owns /\ g.served = f.via /\ g.via = f.via
        /\ g.output /\ g.result = f.result /\ g.billing = f.billing
    BY <1>1, <1>2, <2>2, AtUpstream DEF Frame
  <2>4. Step(i, g) /\ i \in Streams
    BY <1>5, <2>1 DEF StreamDelivers
  <2> HIDE DEF g
  <2>5. FrameOK(g, i)
    BY <1>1, <2>3, <2>4, AtUpstream DEF FrameOK, Working, Accounting
  <2> QED BY <1>1, <2>3, <2>4, <2>5, FromUpstream
<1>6. CASE StreamEnds(i)
  <2>1. f.usage \in Usages \cup {NoUsage}
    BY <1>2 DEF Frame
  <2> QED BY <1>1, <1>6, <2>1, AnsweredStep DEF StreamEnds
<1>7. CASE StreamBreaks(i)
  <2>1. ASSUME f.output, NEW p \in {"pend", "fail"}, p = "pend" <=> f.billing # "free",
               Step(i, [At(i, p) EXCEPT !.result = "error"])
        PROVE  \E g : Local(i, g)
    <3> DEFINE g == [At(i, p) EXCEPT !.result = "error"]
    <3>1. /\ g \in Frame /\ g.pc = p /\ g.owns = f.owns /\ g.served = f.served /\ g.via = f.via
          /\ g.output = f.output /\ g.result = "error" /\ g.billing = f.billing
      BY <1>2 DEF At, Frame, Phases
    <3>2. Step(i, g)
      BY <2>1
    <3> HIDE DEF g
    <3>3. FrameOK(g, i)
      BY <1>1, <2>1, <3>1, AtUpstream DEF FrameOK, Working, Accounting
    <3> QED BY <1>1, <2>1, <3>1, <3>2, <3>3, FromUpstream
  <2>2. ASSUME ~f.output, RetrySameChannel(i)
        PROVE  \E g : Local(i, g)
    <3> DEFINE g == [f EXCEPT !.attempt = @ + 1]
    <3>1. f.attempt + 1 \in 0 .. MaxStreamAttempts - 1
      BY <1>2, <2>2, CallsAssumption DEF RetrySameChannel, Frame
    <3>2. /\ g \in Frame /\ g.pc = f.pc /\ g.owns = f.owns /\ g.served = f.served /\ g.via = f.via
          /\ g.output = f.output /\ g.result = f.result /\ g.billing = f.billing
      BY <1>2, <3>1 DEF Frame
    <3>3. Step(i, g)
      BY <2>2 DEF RetrySameChannel
    <3> HIDE DEF g
    <3>4. FrameOK(g, i)
      BY <1>1, <3>2, AtUpstream DEF FrameOK, Working, Accounting
    <3> QED BY <1>1, <3>2, <3>3, <3>4, FromUpstream
  <2> QED BY <1>1, <1>7, <2>1, <2>2, LeavesUpstream DEF StreamBreaks, Paid
<1> QED BY <1>3, <1>4, <1>5, <1>6, <1>7 DEF Upstream

-----------------------------------------------------------------------------
(* Steps of the accounting                                                 *)

\* What all phases after an answer have in common.
LEMMA AtAccounting ==
    ASSUME CallsInv, NEW i \in Calls, call[i].pc \in Accounting
    PROVE  LET f == call[i]
               r == Row(i)
           IN  /\ FrameOK(f, i) /\ f \in Frame /\ f.owns /\ f.via \in Channels /\ f.result # "ok"
               /\ f.served = f.via /\ f.served # NoChannel /\ f.pc # "done"
               /\ RowsFit(f, request[r], reservation[r]) /\ request[r].status # "none"
               /\ f.billing # "free" =>
                     /\ reservation[r].status # "none" /\ reservation[r].status # "released"
                     /\ request[r].channel = f.via
               /\ f.billing = "free" => reservation[r].status = "none"
               /\ r \in Requests /\ RowInv
<1>1. /\ FrameOK(call[i], i) /\ RowsFit(call[i], request[Row(i)], reservation[Row(i)])
      /\ call[i] \in Frame /\ Row(i) \in Requests /\ RowInv
  BY OfCall DEF CallsInv
<1> QED BY <1>1, SentinelsAssumption DEF FrameOK, RowsFit, Working, Accounting

\* The frames an accounting step may lead to: the call is served and keeps its
\* channel.
Follows(f, g, p) ==
    /\ g \in Frame /\ g.pc = p /\ g.owns = f.owns /\ g.served = f.served /\ g.via = f.via
    /\ g.output = f.output /\ g.billing = f.billing

\* A step of a paid call that leaves its rows open, or charges or marks them.
LEMMA PaidAccounting ==
    ASSUME CallsInv, NEW i \in Calls, call[i].pc \in Accounting, call[i].billing # "free",
           NEW p \in {"rebind", "settle", "pend", "pendPlain", "done"}, NEW g, Follows(call[i], g, p),
           Step(i, g), [Next]_vars, OthersKept(Row(i)),
           request'[Row(i)].status # "none", reservation'[Row(i)].status \notin {"none", "released"},
           request'[Row(i)].channel = call[i].via,
           p \in {"rebind", "settle"} =>
              request'[Row(i)].status \notin {"settlement_pending", "settled"} /\ g.usage \in Usages,
           g.result = "ok" => p = "done" /\ reservation'[Row(i)].status \in {"pending", "settled"}
    PROVE  Local(i, g)
<1>1. FrameOK(g, i)
  BY AtAccounting DEF FrameOK, Follows, Working, Accounting
<1>2. RowsFit(g, request'[Row(i)], reservation'[Row(i)])
  BY AtAccounting DEF RowsFit, Follows, Working, Accounting
<1> QED BY <1>1, <1>2, AtAccounting DEF Local

\* The same when only the frame changes.
LEMMA PaidQuiet ==
    ASSUME CallsInv, NEW i \in Calls, call[i].pc \in Accounting, call[i].billing # "free",
           NEW p \in {"rebind", "settle", "pend", "pendPlain", "done"}, NEW g, Follows(call[i], g, p),
           Step(i, g), UNCHANGED vars,
           p \in {"rebind", "settle"} =>
              request[Row(i)].status \notin {"settlement_pending", "settled"} /\ g.usage \in Usages,
           g.result = "ok" => p = "done" /\ reservation[Row(i)].status \in {"pending", "settled"}
    PROVE  Local(i, g)
<1>1. request' = request /\ reservation' = reservation /\ [Next]_vars /\ OthersKept(Row(i))
  BY DEF vars, OthersKept
<1> QED BY <1>1, PaidAccounting, AtAccounting

\* A frame that moves to another phase, in trouble or not, ...
LEMMA MovesOn ==
    ASSUME NEW f \in Frame, NEW p \in Phases
    PROVE  LET g == [f EXCEPT !.pc = p]
               h == [g EXCEPT !.trouble = TRUE]
           IN  /\ Follows(f, g, p) /\ g.result = f.result /\ g.usage = f.usage
               /\ Follows(f, h, p) /\ h.result = f.result /\ h.usage = f.usage /\ h.trouble
BY DEF Frame, Follows

\* ... with an error to return, ...
LEMMA MovesOnBadly ==
    ASSUME NEW f \in Frame, NEW p \in Phases
    PROVE  LET g == [[f EXCEPT !.pc = p] EXCEPT !.result = "error"]
               h == [g EXCEPT !.trouble = TRUE]
           IN  Follows(f, h, p) /\ h.result = "error" /\ h.trouble
BY DEF Frame, Follows

\* ... or one that ends.
LEMMA EndFollows ==
    ASSUME NEW f \in Frame
    PROVE  LET g == [f EXCEPT !.pc = "done", !.result = "error"]
               h == [g EXCEPT !.trouble = TRUE]
           IN  /\ Follows(f, g, "done") /\ g.result = "error" /\ g.trouble = f.trouble
               /\ Follows(f, h, "done") /\ h.result = "error" /\ h.trouble
<1> DEFINE g == [f EXCEPT !.pc = "done", !.result = "error"]
           h == [g EXCEPT !.trouble = TRUE]
<1>1. /\ g \in Frame /\ g.pc = "done" /\ g.result = "error"
      /\ g.billing = f.billing /\ g.via = f.via /\ g.owns = f.owns /\ g.output = f.output
      /\ g.served = f.served /\ g.trouble = f.trouble
  BY EndsBadly
<1>2. /\ h \in Frame /\ h.pc = "done" /\ h.result = "error"
      /\ h.billing = f.billing /\ h.via = f.via /\ h.owns = f.owns /\ h.output = f.output
      /\ h.served = f.served /\ h.trouble
  BY EndsBadly
<1> HIDE DEF g, h
<1>3. /\ Follows(f, g, "done") /\ g.result = "error" /\ g.trouble = f.trouble
      /\ Follows(f, h, "done") /\ h.result = "error" /\ h.trouble
  BY <1>1, <1>2 DEF Follows
<1> QED BY <1>3 DEF g, h

\* A handler that returns nil, or the error of its upstream.
LEMMA ReturnFollows ==
    ASSUME NEW f \in Frame
    PROVE  LET g == [f EXCEPT !.pc = "done", !.result = IF @ = "error" THEN @ ELSE "ok"]
           IN  Follows(f, g, "done") /\ g.result \in {"error", "ok"}
<1>1. "done" \in Phases
  BY DEF Phases
<1> QED BY <1>1 DEF Follows, Frame

\* Whether a call without usage is charged as zero or marked.
LEMMA PolicyStep ==
    ASSUME CallsInv, NEW i \in Calls, AskPolicy(i)
    PROVE  \E g : Local(i, g)
<1> DEFINE f == call[i]
           r == Row(i)
<1>1. f.pc = "policy" /\ f.pc \in Accounting /\ UNCHANGED vars
  BY DEF AskPolicy, Accounting
<1>2. /\ FrameOK(f, i) /\ f \in Frame /\ f.result # "ok" /\ f.billing # "free"
      /\ request[r].status \notin {"settlement_pending", "settled"}
      /\ "rebind" \in Phases /\ "pendPlain" \in Phases
  BY <1>1, AtAccounting DEF FrameOK, RowsFit, Phases
<1>3. ASSUME Step(i, [At(i, "rebind") EXCEPT !.usage = 0])
      PROVE  \E g : Local(i, g)
  <2> DEFINE g == [At(i, "rebind") EXCEPT !.usage = 0]
  <2>1. 0 \in Usages
    BY SizesAssumption DEF Usages
  <2>2. Follows(f, g, "rebind") /\ g.result = f.result /\ g.usage = 0
    BY <1>2, <2>1 DEF At, Frame, Follows
  <2>3. Step(i, g)
    BY <1>3
  <2> HIDE DEF g
  <2> QED BY <1>1, <1>2, <2>1, <2>2, <2>3, PaidQuiet
<1>4. ASSUME Step(i, At(i, "pendPlain"))
      PROVE  \E g : Local(i, g)
  <2> DEFINE g == At(i, "pendPlain")
  <2>1. Follows(f, g, "pendPlain") /\ g.result = f.result
    BY <1>2, MovesOn DEF At
  <2>2. Step(i, g)
    BY <1>4
  <2> HIDE DEF g
  <2> QED BY <1>1, <1>2, <2>1, <2>2, PaidQuiet
<1>5. ASSUME Step(i, [Error(i) EXCEPT !.trouble = TRUE])
      PROVE  \E g : Local(i, g)
  <2> DEFINE g == [Error(i) EXCEPT !.trouble = TRUE]
  <2>1. Follows(f, g, "done") /\ g.result = "error"
    BY <1>2, EndFollows DEF Error
  <2>2. Step(i, g)
    BY <1>5
  <2> HIDE DEF g
  <2> QED BY <1>1, <1>2, <2>1, <2>2, PaidQuiet
<1> QED BY <1>3, <1>4, <1>5 DEF AskPolicy

\* A step of a free call that keeps its row open, or closes it for its channel.
LEMMA FreeAccounting ==
    ASSUME CallsInv, NEW i \in Calls, call[i].pc \in Accounting, call[i].billing = "free",
           NEW p \in {"settle", "fail", "done"}, NEW g, Follows(call[i], g, p),
           Step(i, g), [Next]_vars, OthersKept(Row(i)),
           request'[Row(i)].status # "none", reservation'[Row(i)].status = "none",
           p = "settle" =>
              /\ request'[Row(i)].status \notin {"settlement_pending", "settled"}
              /\ request'[Row(i)].channel = call[i].via /\ g.usage \in Usages,
           request'[Row(i)].status \in {"settlement_pending", "settled"} =>
              request'[Row(i)].channel = call[i].via,
           g.result = "ok" => p = "done"
    PROVE  Local(i, g)
<1>1. FrameOK(g, i)
  BY AtAccounting DEF FrameOK, Follows, Working, Accounting
<1>2. RowsFit(g, request'[Row(i)], reservation'[Row(i)])
  BY AtAccounting DEF RowsFit, Follows, Working, Accounting
<1> QED BY <1>1, <1>2, AtAccounting DEF Local

\* Before settling, the call is bound to the channel that answered.
LEMMA RebindStep ==
    ASSUME CallsInv, NEW i \in Calls, Rebind(i)
    PROVE  \E g : Local(i, g)
<1> DEFINE f == call[i]
           r == Row(i)
<1>1. f.pc = "rebind" /\ f.pc \in Accounting
  BY DEF Rebind, Accounting
<1>2. /\ FrameOK(f, i) /\ f \in Frame /\ f.result # "ok" /\ f.usage \in Usages
      /\ RowsFit(f, request[r], reservation[r]) /\ r \in Requests /\ RowInv /\ f.via \in Channels
      /\ request[r].status \notin {"none", "settlement_pending", "settled"}
      /\ f.billing # "free" => reservation[r].status \notin {"none", "released"}
      /\ f.billing = "free" => reservation[r].status = "none"
      /\ "settle" \in Phases /\ "pend" \in Phases /\ "fail" \in Phases
  BY <1>1, AtAccounting DEF FrameOK, RowsFit, Phases
<1>3. ASSUME f.billing # "free", BindChannel(i)
      PROVE  /\ [Next]_vars /\ OthersKept(r)
             /\ request'[r].status = request[r].status
             /\ reservation'[r].status = reservation[r].status
             /\ request'[r].channel = f.via
  BY <1>1, <1>3, BindEffect DEF Becomes
<1>4. ASSUME f.billing # "free", BindChannel(i), Step(i, At(i, "settle"))
      PROVE  \E g : Local(i, g)
  <2> DEFINE g == At(i, "settle")
  <2>1. Follows(f, g, "settle") /\ g.result = f.result /\ g.usage = f.usage
    BY <1>2, MovesOn DEF At
  <2>2. Step(i, g)
    BY <1>4
  <2> HIDE DEF g
  <2> QED BY <1>1, <1>2, <1>3, <1>4, <2>1, <2>2, PaidAccounting
<1>5. ASSUME f.billing # "free", BindChannel(i) \/ UNCHANGED vars,
             Step(i, [At(i, "pend") EXCEPT !.trouble = TRUE])
      PROVE  \E g : Local(i, g)
  <2> DEFINE g == [At(i, "pend") EXCEPT !.trouble = TRUE]
  <2>1. Follows(f, g, "pend") /\ g.result = f.result
    BY <1>2, MovesOn DEF At
  <2>2. Step(i, g)
    BY <1>5
  <2> HIDE DEF g
  <2>3. CASE BindChannel(i)
    BY <1>1, <1>2, <1>3, <1>5, <2>1, <2>2, <2>3, PaidAccounting
  <2>4. CASE UNCHANGED vars
    BY <1>1, <1>2, <1>5, <2>1, <2>2, <2>4, PaidQuiet
  <2> QED BY <1>5, <2>3, <2>4
<1>6. ASSUME RebindRequestChannel(r, f.via)
      PROVE  /\ [Next]_vars /\ OthersKept(r)
             /\ request'[r].status = "started" /\ reservation'[r].status = "none"
             /\ request'[r].channel = f.via
  BY <1>2, <1>6, FreeEffects, OperationsAreSteps DEF Becomes
<1>7. ASSUME f.billing = "free", RebindRequestChannel(r, f.via), Step(i, At(i, "settle"))
      PROVE  \E g : Local(i, g)
  <2> DEFINE g == At(i, "settle")
  <2>1. Follows(f, g, "settle") /\ g.result = f.result /\ g.usage = f.usage
    BY <1>2, MovesOn DEF At
  <2>2. Step(i, g)
    BY <1>7
  <2> HIDE DEF g
  <2> QED BY <1>1, <1>2, <1>6, <1>7, <2>1, <2>2, FreeAccounting
<1>8. ASSUME f.billing = "free", RebindRequestChannel(r, f.via) \/ UNCHANGED vars,
             Step(i, [[At(i, "fail") EXCEPT !.result = "error"] EXCEPT !.trouble = TRUE])
      PROVE  \E g : Local(i, g)
  <2> DEFINE g == [[At(i, "fail") EXCEPT !.result = "error"] EXCEPT !.trouble = TRUE]
  <2>1. Follows(f, g, "fail") /\ g.result = "error"
    BY <1>2, MovesOnBadly DEF At
  <2>2. Step(i, g)
    BY <1>8
  <2> HIDE DEF g
  <2>3. CASE RebindRequestChannel(r, f.via)
    BY <1>1, <1>2, <1>6, <1>8, <2>1, <2>2, <2>3, FreeAccounting
  <2>4. CASE UNCHANGED vars
    <3>1. request' = request /\ reservation' = reservation /\ [Next]_vars /\ OthersKept(r)
      BY <2>4 DEF vars, OthersKept
    <3> QED BY <1>1, <1>2, <1>8, <2>1, <2>2, <3>1, FreeAccounting
  <2> QED BY <1>8, <2>3, <2>4
<1> QED BY <1>4, <1>5, <1>7, <1>8 DEF Rebind, Access, Paid

\* A paid call is charged; a charge that is not acknowledged leads to a mark.
LEMMA SettlePaidStep ==
    ASSUME CallsInv, NEW i \in Calls, SettlePaid(i)
    PROVE  \E g : Local(i, g)
<1> DEFINE f == call[i]
           r == Row(i)
           A == Settle(r, f.usage) \/ Nothing(reservation[r].status = "settled")
<1>1. f.pc = "settle" /\ f.pc \in Accounting /\ f.billing # "free"
  BY DEF SettlePaid, Accounting, Paid
<1>2. /\ FrameOK(f, i) /\ f \in Frame /\ f.result # "ok" /\ f.usage \in Usages
      /\ RowsFit(f, request[r], reservation[r]) /\ r \in Requests /\ RowInv
      /\ request[r].status \notin {"none", "settlement_pending", "settled"}
      /\ reservation[r].status \notin {"none", "released"}
      /\ request[r].channel = f.via /\ "pend" \in Phases
  BY <1>1, AtAccounting DEF FrameOK, RowsFit, Phases
<1>3. reservation[r].status # "settled"
  BY <1>2, StatusPairs
<1>4. ASSUME A
      PROVE  /\ [Next]_vars /\ OthersKept(r)
             /\ request'[r].status = "settled" /\ reservation'[r].status = "settled"
             /\ request'[r].channel = f.via
  <2>1. Settle(r, f.usage)
    BY <1>3, <1>4 DEF Nothing
  <2> QED BY <1>2, <2>1, PaidEffects, OperationsAreSteps DEF Becomes
<1>5. ASSUME A, Step(i, Return(i))
      PROVE  \E g : Local(i, g)
  <2> DEFINE g == Return(i)
  <2>1. Follows(f, g, "done") /\ g.result \in {"error", "ok"}
    BY <1>2, ReturnFollows DEF Return
  <2>2. Step(i, g)
    BY <1>5
  <2> HIDE DEF g
  <2>3. /\ request'[r].status # "none" /\ reservation'[r].status \notin {"none", "released"}
        /\ request'[r].channel = f.via /\ reservation'[r].status \in {"pending", "settled"}
        /\ [Next]_vars /\ OthersKept(r)
    BY <1>4, <1>5
  <2> HIDE DEF A
  <2> QED BY <1>1, <2>1, <2>2, <2>3, PaidAccounting
<1>6. ASSUME A \/ UNCHANGED vars, Step(i, [At(i, "pend") EXCEPT !.trouble = TRUE])
      PROVE  \E g : Local(i, g)
  <2> DEFINE g == [At(i, "pend") EXCEPT !.trouble = TRUE]
  <2>1. Follows(f, g, "pend") /\ g.result = f.result
    BY <1>2, MovesOn DEF At
  <2>2. Step(i, g)
    BY <1>6
  <2> HIDE DEF g
  <2>3. CASE A
    <3>1. /\ request'[r].status # "none" /\ reservation'[r].status \notin {"none", "released"}
          /\ request'[r].channel = f.via /\ [Next]_vars /\ OthersKept(r)
      BY <1>4, <2>3
    <3> HIDE DEF A
    <3> QED BY <1>1, <1>2, <2>1, <2>2, <3>1, PaidAccounting
  <2>4. CASE UNCHANGED vars
    BY <1>1, <1>2, <2>1, <2>2, <2>4, PaidQuiet
  <2> QED BY <1>6, <2>3, <2>4
<1> QED BY <1>5, <1>6 DEF SettlePaid, Access

\* A free call's row is closed.
LEMMA CompleteFreeStep ==
    ASSUME CallsInv, NEW i \in Calls, CompleteFree(i)
    PROVE  \E g : Local(i, g)
<1> DEFINE f == call[i]
           r == Row(i)
<1>1. f.pc = "settle" /\ f.pc \in Accounting
  BY DEF CompleteFree, Accounting
<1>2. /\ f \in Frame /\ f.billing = "free" /\ f.usage \in Usages /\ f.result # "ok"
      /\ r \in Requests /\ RowInv /\ reservation[r].status = "none"
      /\ request[r].status \notin {"none", "settlement_pending", "settled"}
      /\ request[r].channel = f.via /\ "fail" \in Phases
  <2>1. f.billing = "free"
    BY <1>1, AtAccounting DEF CompleteFree, Paid
  <2> QED BY <1>1, <2>1, AtAccounting DEF FrameOK, RowsFit, Phases
<1>3. ASSUME CompleteFreeRequest(r, f.usage)
      PROVE  /\ [Next]_vars /\ OthersKept(r)
             /\ request'[r].status = "settled" /\ reservation'[r].status = "none"
             /\ request'[r].channel = f.via
  BY <1>2, <1>3, FreeEffects, OperationsAreSteps DEF Becomes
<1>4. ASSUME CompleteFreeRequest(r, f.usage), Step(i, Return(i))
      PROVE  \E g : Local(i, g)
  <2> DEFINE g == Return(i)
  <2>1. Follows(f, g, "done")
    BY <1>2, ReturnFollows DEF Return
  <2>2. Step(i, g)
    BY <1>4
  <2> HIDE DEF g
  <2> QED BY <1>1, <1>2, <1>3, <1>4, <2>1, <2>2, FreeAccounting
<1>5. ASSUME CompleteFreeRequest(r, f.usage) \/ UNCHANGED vars,
             Step(i, [[At(i, "fail") EXCEPT !.result = "error"] EXCEPT !.trouble = TRUE])
      PROVE  \E g : Local(i, g)
  <2> DEFINE g == [[At(i, "fail") EXCEPT !.result = "error"] EXCEPT !.trouble = TRUE]
  <2>1. Follows(f, g, "fail") /\ g.result = "error"
    BY <1>2, MovesOnBadly DEF At
  <2>2. Step(i, g)
    BY <1>5
  <2> HIDE DEF g
  <2>3. CASE CompleteFreeRequest(r, f.usage)
    BY <1>1, <1>2, <1>3, <2>1, <2>2, <2>3, FreeAccounting
  <2>4. CASE UNCHANGED vars
    <3>1. request' = request /\ reservation' = reservation /\ [Next]_vars /\ OthersKept(r)
      BY <2>4 DEF vars, OthersKept
    <3> QED BY <1>1, <1>2, <2>1, <2>2, <3>1, FreeAccounting
  <2> QED BY <1>5, <2>3, <2>4
<1> QED BY <1>4, <1>5 DEF CompleteFree, Access

\* The mark for reconciliation, or finding that the call was charged already.
LEMMA MarkKeeps ==
    ASSUME CallsInv, NEW i \in Calls, call[i].pc \in {"pend", "pendPlain"},
           call[i].billing # "free", NEW u \in (Usages \ {0}) \cup {NoUsage}, MarkPending(i, u),
           NEW p \in {"pendPlain", "done"}, NEW g, Follows(call[i], g, p), Step(i, g),
           g.result = "ok" => p = "done"
    PROVE  Local(i, g)
<1> DEFINE f == call[i]
           r == Row(i)
<1>1. f.pc \in Accounting
  BY DEF Accounting
<1>2. r \in Requests /\ RowInv /\ request[r].channel = f.via
  BY <1>1, AtAccounting
<1>3. CASE MarkSettlementPending(r, u)
  <2>1. [Next]_vars /\ Becomes(r, "settlement_pending", "pending", request[r].channel)
    BY <1>2, <1>3, PaidEffects, OperationsAreSteps
  <2>2. /\ request'[r].status # "none" /\ reservation'[r].status \notin {"none", "released"}
        /\ request'[r].channel = f.via /\ reservation'[r].status \in {"pending", "settled"}
        /\ OthersKept(r)
    BY <1>2, <2>1 DEF Becomes
  <2> QED BY <1>1, <2>1, <2>2, PaidAccounting
<1>4. CASE Nothing(reservation[r].status = "settled")
  BY <1>1, <1>4, PaidQuiet DEF Nothing
<1> QED BY <1>3, <1>4 DEF MarkPending

\* The mark with the usage that was seen.
LEMMA PendStep ==
    ASSUME CallsInv, NEW i \in Calls, Pend(i)
    PROVE  \E g : Local(i, g)
<1> DEFINE f == call[i]
           u == Reported(f.usage)
<1>1. f.pc = "pend" /\ f.pc \in Accounting
  BY DEF Pend, Accounting
<1>2. f \in Frame /\ f.billing # "free" /\ f.result # "ok" /\ "pendPlain" \in Phases
  BY <1>1, AtAccounting DEF FrameOK, Phases
<1>3. u \in (Usages \ {0}) \cup {NoUsage}
  BY <1>2 DEF Reported, Frame
<1> HIDE DEF u
<1>4. ASSUME MarkPending(i, u), Step(i, Return(i))
      PROVE  \E g : Local(i, g)
  <2> DEFINE g == Return(i)
  <2>1. Follows(f, g, "done")
    BY <1>2, ReturnFollows DEF Return
  <2>2. Step(i, g)
    BY <1>4
  <2> HIDE DEF g
  <2> QED BY <1>1, <1>2, <1>3, <1>4, <2>1, <2>2, MarkKeeps
<1>5. ASSUME MarkPending(i, u) \/ UNCHANGED vars, Step(i, [Error(i) EXCEPT !.trouble = TRUE])
      PROVE  \E g : Local(i, g)
  <2> DEFINE g == [Error(i) EXCEPT !.trouble = TRUE]
  <2>1. Follows(f, g, "done") /\ g.result = "error"
    BY <1>2, EndFollows DEF Error
  <2>2. Step(i, g)
    BY <1>5
  <2> HIDE DEF g
  <2> QED BY <1>1, <1>2, <1>3, <1>5, <2>1, <2>2, MarkKeeps, PaidQuiet
<1>6. ASSUME MarkPending(i, u) \/ UNCHANGED vars,
             Step(i, [At(i, "pendPlain") EXCEPT !.trouble = TRUE])
      PROVE  \E g : Local(i, g)
  <2> DEFINE g == [At(i, "pendPlain") EXCEPT !.trouble = TRUE]
  <2>1. Follows(f, g, "pendPlain") /\ g.result = f.result
    BY <1>2, MovesOn DEF At
  <2>2. Step(i, g)
    BY <1>6
  <2> HIDE DEF g
  <2> QED BY <1>1, <1>2, <1>3, <1>6, <2>1, <2>2, MarkKeeps, PaidQuiet
<1>7. /\ Access(i, MarkPending(i, u), Return(i),
                IF f.usage = NoUsage THEN Error(i) ELSE At(i, "pendPlain"))
  BY DEF Pend, u
<1>8. CASE f.usage = NoUsage
  BY <1>4, <1>5, <1>7, <1>8 DEF Access
<1>9. CASE f.usage # NoUsage
  BY <1>4, <1>6, <1>7, <1>9 DEF Access
<1> QED BY <1>8, <1>9

\* The mark without it.
LEMMA PendPlainStep ==
    ASSUME CallsInv, NEW i \in Calls, PendPlain(i)
    PROVE  \E g : Local(i, g)
<1> DEFINE f == call[i]
<1>1. f.pc = "pendPlain" /\ f.pc \in Accounting
  BY DEF PendPlain, Accounting
<1>2. f \in Frame /\ f.billing # "free" /\ f.result # "ok"
  BY <1>1, AtAccounting DEF FrameOK
<1>3. ASSUME MarkPending(i, NoUsage), Step(i, Return(i))
      PROVE  \E g : Local(i, g)
  <2> DEFINE g == Return(i)
  <2>1. Follows(f, g, "done")
    BY <1>2, ReturnFollows DEF Return
  <2>2. Step(i, g)
    BY <1>3
  <2> HIDE DEF g
  <2> QED BY <1>1, <1>2, <1>3, <2>1, <2>2, MarkKeeps
<1>4. ASSUME MarkPending(i, NoUsage) \/ UNCHANGED vars,
             Step(i, [Error(i) EXCEPT !.trouble = TRUE])
      PROVE  \E g : Local(i, g)
  <2> DEFINE g == [Error(i) EXCEPT !.trouble = TRUE]
  <2>1. Follows(f, g, "done") /\ g.result = "error"
    BY <1>2, EndFollows DEF Error
  <2>2. Step(i, g)
    BY <1>4
  <2> HIDE DEF g
  <2> QED BY <1>1, <1>2, <1>4, <2>1, <2>2, MarkKeeps, PaidQuiet
<1> QED BY <1>3, <1>4 DEF PendPlain, Access

\* A call that fails ends with an error and gives back what nobody served.
LEMMA FailCallStep ==
    ASSUME CallsInv, NEW i \in Calls, FailCall(i)
    PROVE  \E g : Local(i, g)
<1> DEFINE f == call[i]
           r == Row(i)
           q == request[r]
           v == reservation[r]
<1>1. /\ f.pc = "fail" /\ FrameOK(f, i) /\ f \in Frame /\ f.result # "ok"
      /\ RowsFit(f, q, v) /\ r \in Requests /\ RowInv
  BY OfCall DEF FailCall, FrameOK, CallsInv
<1>2. PICK g : /\ Step(i, g) /\ Follows(f, g, "done") /\ g.result = "error"
               /\ \/ ~f.owns /\ UNCHANGED vars
                  \/ g.trouble /\ UNCHANGED vars
                  \/ f.owns /\ f.billing # "free" /\ Fail(r)
                  \/ f.owns /\ f.billing # "free" /\ v.status \in Closed /\ UNCHANGED vars
                  \/ f.owns /\ f.billing = "free" /\ FailFreeRequest(r)
                  \/ f.owns /\ f.billing = "free" /\ UNCHANGED vars
  <2> DEFINE e == Error(i)
             t == [Error(i) EXCEPT !.trouble = TRUE]
  <2>1. /\ Follows(f, e, "done") /\ e.result = "error"
        /\ Follows(f, t, "done") /\ t.result = "error" /\ t.trouble
    BY <1>1, EndFollows DEF Error
  <2>2. \/ ~f.owns /\ Step(i, e) /\ UNCHANGED vars
        \/ f.owns /\ Paid(i) /\ Access(i, Fail(r) \/ Nothing(v.status \in Closed), e, e)
        \/ f.owns /\ ~Paid(i) /\ Access(i, FailFreeRequest(r) \/ Nothing(~FreeStarted(r)), e, e)
    BY DEF FailCall
  <2>3. Step(i, [e EXCEPT !.trouble = TRUE]) => Step(i, t)
    OBVIOUS
  <2> HIDE DEF e, t
  <2>4. ASSUME Step(i, e) \/ Step(i, t),
               \/ ~f.owns /\ UNCHANGED vars
               \/ f.owns /\ f.billing # "free" /\ Fail(r)
               \/ f.owns /\ f.billing # "free" /\ v.status \in Closed /\ UNCHANGED vars
               \/ f.owns /\ f.billing = "free" /\ FailFreeRequest(r)
               \/ f.owns /\ f.billing = "free" /\ UNCHANGED vars
        PROVE  \E g : /\ Step(i, g) /\ Follows(f, g, "done") /\ g.result = "error"
                      /\ \/ ~f.owns /\ UNCHANGED vars
                         \/ g.trouble /\ UNCHANGED vars
                         \/ f.owns /\ f.billing # "free" /\ Fail(r)
                         \/ f.owns /\ f.billing # "free" /\ v.status \in Closed /\ UNCHANGED vars
                         \/ f.owns /\ f.billing = "free" /\ FailFreeRequest(r)
                         \/ f.owns /\ f.billing = "free" /\ UNCHANGED vars
    BY <2>1, <2>4, Zenon
  <2>5. ASSUME Step(i, t), UNCHANGED vars
        PROVE  \E g : /\ Step(i, g) /\ Follows(f, g, "done") /\ g.result = "error"
                      /\ g.trouble /\ UNCHANGED vars
    BY <2>1, <2>5, Zenon
  <2> QED BY <2>2, <2>3, <2>4, <2>5 DEF Access, Nothing, Paid
<1>3. FrameOK(g, i)
  BY <1>1, <1>2 DEF FrameOK, Follows, Working, Accounting
<1>4. ASSUME UNCHANGED vars, g.trouble \/ ~f.owns \/ v.status \in Closed \/ f.billing = "free"
      PROVE  Local(i, g)
  <2>1. RowsFit(g, q, v)
    BY <1>1, <1>2, <1>4 DEF RowsFit, FrameOK, Follows, Working, Accounting
  <2> QED BY <1>2, <1>3, <1>4, <2>1, QuietStep DEF Follows
<1>5. ASSUME f.owns, f.billing # "free", Fail(r)
      PROVE  Local(i, g)
  <2>1. [Next]_vars /\ Becomes(r, "failed", "released", q.channel)
    BY <1>1, <1>5, PaidEffects, OperationsAreSteps DEF Fail
  <2>2. RowsFit(g, request'[r], reservation'[r])
    BY <1>1, <1>2, <1>5, <2>1 DEF RowsFit, FrameOK, Follows, Working, Accounting, Becomes, Closed
  <2> QED BY <1>2, <1>3, <1>5, <2>1, <2>2 DEF Local, Becomes
<1>6. ASSUME f.owns, f.billing = "free", FailFreeRequest(r)
      PROVE  Local(i, g)
  <2>1. [Next]_vars /\ Becomes(r, "failed", "none", q.channel)
    BY <1>1, <1>6, FreeEffects, OperationsAreSteps
  <2>2. RowsFit(g, request'[r], reservation'[r])
    BY <1>1, <1>2, <1>6, <2>1 DEF RowsFit, FrameOK, Follows, Working, Accounting, Becomes
  <2> QED BY <1>2, <1>3, <1>6, <2>1, <2>2 DEF Local, Becomes
<1> QED BY <1>2, <1>4, <1>5, <1>6

-----------------------------------------------------------------------------
(* Steps of the environment                                                *)

\* The client goes: nothing that the rows are about changes.
LEMMA DisconnectStep ==
    ASSUME CallsInv, NEW i \in Calls, Disconnect(i)
    PROVE  \E g : Local(i, g)
<1> DEFINE f == call[i]
           g == [f EXCEPT !.connected = FALSE]
<1>1. /\ FrameOK(f, i) /\ f \in Frame /\ RowsFit(f, request[Row(i)], reservation[Row(i)])
      /\ UNCHANGED vars
  BY OfCall DEF Disconnect
<1>2. /\ g \in Frame /\ g.pc = f.pc /\ g.owns = f.owns /\ g.served = f.served /\ g.via = f.via
      /\ g.output = f.output /\ g.result = f.result /\ g.billing = f.billing
      /\ g.usage = f.usage /\ g.trouble = f.trouble
  BY <1>1 DEF Frame
<1>3. Step(i, g)
  BY DEF Disconnect
<1> HIDE DEF g
<1>4. FrameOK(g, i)
  BY <1>1, <1>2 DEF FrameOK, Working, Accounting
<1>5. RowsFit(g, request[Row(i)], reservation[Row(i)])
  BY <1>1, <1>2 DEF RowsFit
<1> QED BY <1>1, <1>2, <1>3, <1>4, <1>5, QuietStep

\* The server stops: rows keep what was committed, handlers are gone.
LEMMA CrashKeeps ==
    ASSUME CallsInv, Crash
    PROVE  CallsInv'
<1>1. /\ UNCHANGED <<request, reservation, chargeTx>> /\ RowInv
      /\ call' = [i \in Calls |-> IF Running(i)
                                  THEN [Error(i) EXCEPT !.result = "crashed", !.trouble = TRUE]
                                  ELSE call[i]]
  BY DEF Crash, CallsInv, ledgerVars
<1>2. RowInv'
  <2>1. TypeOK'
    BY <1>1 DEF Crash, RowInv, TypeOK, ledgerVars
  <2> QED BY <1>1, <2>1, NoRowChanges
<1>3. call' = [i \in Calls |-> call'[i]]
  BY <1>1
<1>4. ASSUME NEW i \in Calls
      PROVE  CallOK(i)' /\ call'[i].owns = call[i].owns
  <2> DEFINE f == call[i]
             g == [Error(i) EXCEPT !.result = "crashed", !.trouble = TRUE]
  <2>1. FrameOK(f, i) /\ f \in Frame /\ RowsFit(f, request[Row(i)], reservation[Row(i)])
    BY OfCall
  <2>2. CASE Running(i)
    <3>1. /\ g \in Frame /\ g.pc = "done" /\ g.owns = f.owns /\ g.served = f.served /\ g.via = f.via
          /\ g.output = f.output /\ g.result = "crashed" /\ g.billing = f.billing /\ g.trouble
      BY <2>1 DEF Error, Frame, Phases
    <3>2. call'[i] = g
      BY <1>1, <2>2
    <3> HIDE DEF g
    <3>3. FrameOK(g, i)
      BY <2>1, <3>1 DEF FrameOK, Working, Accounting
    <3>4. f.pc # "done"
      BY <2>2 DEF Running
    <3>5. RowsFit(g, request[Row(i)], reservation[Row(i)])
      BY <2>1, <3>1, <3>4 DEF RowsFit, FrameOK, Working, Accounting
    <3> QED BY <1>1, <3>1, <3>2, <3>3, <3>5 DEF CallOK, Row
  <2>3. CASE ~Running(i)
    BY <1>1, <2>1, <2>3 DEF CallOK, Row
  <2> QED BY <2>2, <2>3
<1>5. OneOwner'
  BY <1>4 DEF CallsInv, OneOwner, Row
<1> QED BY <1>2, <1>3, <1>4, <1>5 DEF CallsInv

\* So they decide nothing that a call has decided otherwise.
LEMMA OthersKeep ==
    ASSUME CallsInv, OthersStep
    PROVE  CallsInv'
<1>1. [Next]_vars
  BY Zenon DEF OthersStep, Next, PaidStep
<1>2. RowInv' /\ call' = call /\ RowInv
  BY <1>1, NextRows DEF CallsInv, OthersStep
<1>3. ASSUME NEW i \in Calls
      PROVE  RowsFit(call[i], request'[Row(i)], reservation'[Row(i)])
  <2> DEFINE r == Row(i)
  <2>1. /\ FrameOK(call[i], i) /\ RowsFit(call[i], request[r], reservation[r]) /\ r \in Requests
    BY OfCall
  <2>2. CASE request'[r] = request[r] /\ reservation'[r] = reservation[r]
    BY <2>1, <2>2
  <2>3. CASE /\ reservation[r].status = "held"
             /\ Becomes(r, "failed", "expired", request[r].channel)
    BY <1>2, <2>1, <2>3, StatusPairs DEF RowsFit, Becomes, Closed
  <2>4. CASE /\ reservation[r].status = "pending"
             /\ Becomes(r, "settled", "settled", request[r].channel)
    BY <1>2, <2>1, <2>4, StatusPairs DEF RowsFit, Becomes, Closed
  <2> QED BY <1>2, <2>1, <2>2, <2>3, <2>4, OthersEffect DEF OthersStep
<1>4. \A i \in Calls : CallOK(i)'
  BY <1>2, <1>3, OfCall DEF CallOK, Row
<1> QED BY <1>2, <1>4 DEF CallsInv, OneOwner, Row

-----------------------------------------------------------------------------
(* The invariant                                                           *)

\* At the start nobody owns anything.
LEMMA CallsStart == RelayInit => CallsInv
<1>1. SUFFICES ASSUME RelayInit PROVE CallsInv
  OBVIOUS
<1>2. RowInv /\ \A r \in Requests : request[r].status = "none" /\ reservation[r].status = "none"
  BY <1>1, InitRows DEF RelayInit, Init, NoRequest, NoReservation
<1>3. call = [i \in Calls |-> call[i]] /\ \A i \in Calls : call[i] = Idle
  BY <1>1 DEF RelayInit
<1>4. (\A i : FrameOK(Idle, i)) /\ Idle \in Frame /\ ~Idle.owns /\ Idle.result = "none"
  BY CallsAssumption DEF FrameOK, Idle, Frame, Phases, Working, Accounting
<1>5. \A i \in Calls : CallOK(i)
  BY <1>2, <1>3, <1>4, CallsAssumption DEF CallOK, FrameOK, RowsFit, Row, Idle, Working, Accounting
<1> QED BY <1>2, <1>3, <1>4, <1>5 DEF CallsInv, OneOwner

\* Every step keeps the rows and the frames in step.
LEMMA CallsStep == CallsInv /\ [RelayNext]_relayVars => CallsInv'
<1>1. SUFFICES ASSUME CallsInv, [RelayNext]_relayVars PROVE CallsInv'
  OBVIOUS
<1>2. ASSUME NEW i \in Calls, BeforeUpstream(i) \/ Upstream(i) \/ AfterUpstream(i) \/ Disconnect(i)
      PROVE  CallsInv'
  <2>1. CASE BeforeUpstream(i)
    BY <1>1, <2>1, ArriveStep, PickStep, ExhaustedStep, StartPaidStep, StartFreeStep, BindStep,
       LocalKeeps DEF BeforeUpstream
  <2>2. CASE Upstream(i)
    BY <1>1, <2>2, UpstreamStep, LocalKeeps
  <2>3. CASE AfterUpstream(i)
    BY <1>1, <2>3, PolicyStep, RebindStep, SettlePaidStep, CompleteFreeStep, PendStep,
       PendPlainStep, FailCallStep, LocalKeeps DEF AfterUpstream
  <2>4. CASE Disconnect(i)
    BY <1>1, <2>4, DisconnectStep, LocalKeeps
  <2> QED BY <1>2, <2>1, <2>2, <2>3, <2>4
<1>3. CASE Crash
  BY <1>1, <1>3, CrashKeeps
<1>4. CASE OthersStep
  BY <1>1, <1>4, OthersKeep
<1>5. CASE UNCHANGED relayVars
  <2>1. RowInv'
    BY <1>1, <1>5, NextRows DEF CallsInv, relayVars
  <2> QED BY <1>1, <1>5, <2>1 DEF CallsInv, CallOK, OneOwner, Row, relayVars, vars
<1> QED BY <1>1, <1>2, <1>3, <1>4, <1>5 DEF RelayNext

\* The invariant holds throughout.
LEMMA CallsInvariant == RelaySpec => []CallsInv
BY CallsStart, CallsStep, PTL DEF RelaySpec

\* Every stack frame has its type: no retry count runs over, no phase but the
\* declared ones is reached.
THEOREM CallsTyped == RelaySpec => []CallTypeOK
<1>1. CallsInv => CallTypeOK
  BY DEF CallsInv, CallOK, FrameOK, Frame, CallTypeOK
<1> QED BY <1>1, CallsInvariant, PTL

\* A call that reports success is charged or marked, for the channel that
\* served it, and no key is served twice.
THEOREM ServedCallsAreBilledOnce == RelaySpec => []ServedIsBilledOnce
<1>1. CallsInv => SuccessIsBilled
  BY DEF CallsInv, CallOK, RowsFit, SuccessIsBilled, Paid
<1>2. CallsInv => ServedChannelIsBilled
  BY DEF CallsInv, CallOK, RowsFit, ServedChannelIsBilled
<1>3. CallsInv => OneServedPerKey
  BY DEF CallsInv, CallOK, FrameOK, OneOwner, OneServedPerKey, Row
<1>4. CallsInv => ServedIsBilledOnce
  BY <1>1, <1>2, <1>3 DEF ServedIsBilledOnce
<1> QED BY <1>4, CallsInvariant, PTL

\* Money a handler gives back was held for a call nobody served, and a call
\* that ended unserved without trouble has it back.
THEOREM RefundsGoToTheUnserved == RelaySpec => []RefundsAreForTheUnserved
<1>1. CallsInv => RefundedIsUnserved
  BY DEF CallsInv, CallOK, RowsFit, RefundedIsUnserved, Paid
<1>2. CallsInv => UnservedIsRefunded
  BY DEF CallsInv, CallOK, RowsFit, UnservedIsRefunded, Paid
<1>3. CallsInv => RefundsAreForTheUnserved
  BY <1>1, <1>2 DEF RefundsAreForTheUnserved
<1> QED BY <1>3, CallsInvariant, PTL

-----------------------------------------------------------------------------
(* Streams                                                                 *)

\* A call with output: its upstream answered, and its client is served.
LEMMA OutputSeen ==
    ASSUME CallsInv, NEW i \in Calls, call[i].output
    PROVE  /\ call[i] \in Frame /\ i \in Streams
           /\ call[i].pc \notin {"idle", "pick", "start", "bind"}
BY OfCall DEF FrameOK

\* Its frame keeps channel and attempt and does not go back.
Forward(f, g) == /\ g.via = f.via /\ g.attempt = f.attempt
                 /\ g.pc \notin {"pick", "start", "bind"}

\* The frames handlers build are such frames.
LEMMA ForwardFrames ==
    ASSUME NEW i, call[i] \in Frame
    PROVE  /\ \A p \in {"upstream", "policy", "rebind", "settle", "pend", "pendPlain", "fail"} :
                 /\ Forward(call[i], At(i, p)) /\ Forward(call[i], [At(i, p) EXCEPT !.trouble = TRUE])
                 /\ Forward(call[i], [At(i, p) EXCEPT !.result = "error"])
                 /\ Forward(call[i], [[At(i, p) EXCEPT !.result = "error"] EXCEPT !.trouble = TRUE])
                 /\ Forward(call[i], [At(i, p) EXCEPT !.usage = 0])
           /\ Forward(call[i], Error(i)) /\ Forward(call[i], [Error(i) EXCEPT !.trouble = TRUE])
           /\ Forward(call[i], Return(i))
BY DEF Forward, At, Error, Return, Frame

\* An answer goes on to the accounting.
LEMMA AnswerIsForward ==
    ASSUME NEW i, call[i] \in Frame, NEW u, NEW complete, Answered(i, u, complete)
    PROVE  \E g : Step(i, g) /\ Forward(call[i], g)
<1> DEFINE f == call[i]
<1>0. PICK p \in {"rebind", "pend", "policy", "fail"} :
         \E w : Step(i, [[f EXCEPT !.served = f.via, !.usage = u] EXCEPT !.pc = p, !.usage = w])
  BY DEF Answered
<1>1. PICK w : Step(i, [[f EXCEPT !.served = f.via, !.usage = u] EXCEPT !.pc = p, !.usage = w])
  BY <1>0
<1> DEFINE g == [[f EXCEPT !.served = f.via, !.usage = u] EXCEPT !.pc = p, !.usage = w]
<1>2. Forward(f, g)
  BY DEF Forward, Frame
<1> QED BY <1>1, <1>2

\* So does every step of a call with output.
LEMMA OutputGoesForward ==
    ASSUME CallsInv, NEW i \in Calls, call[i].output,
           BeforeUpstream(i) \/ Upstream(i) \/ AfterUpstream(i) \/ Disconnect(i)
    PROVE  \E g : Step(i, g) /\ Forward(call[i], g)
<1> DEFINE f == call[i]
<1>1. f \in Frame /\ i \in Streams /\ f.pc \notin {"idle", "pick", "start", "bind"}
  BY OutputSeen
<1>2. ~BeforeUpstream(i)
  BY <1>1 DEF BeforeUpstream, Arrive, PickChannel, Exhausted, StartPaid, StartFree, Bind
<1>3. CASE Upstream(i)
  <2>1. CASE StreamDelivers(i)
    <3>1. PICK u : Step(i, [f EXCEPT !.output = TRUE, !.served = f.via, !.usage = u])
      BY <2>1 DEF StreamDelivers
    <3>2. Forward(f, [f EXCEPT !.output = TRUE, !.served = f.via, !.usage = u])
      BY <1>1, <2>1 DEF Forward, Frame, StreamDelivers
    <3> QED BY <3>1, <3>2
  <2>2. CASE StreamEnds(i)
    BY <1>1, <2>2, AnswerIsForward DEF StreamEnds
  <2>3. CASE StreamBreaks(i)
    BY <1>1, <2>3, ForwardFrames DEF StreamBreaks
  <2> QED BY <1>1, <1>3, <2>1, <2>2, <2>3 DEF Upstream, SyncAnswers, SyncFails
<1>4. CASE AfterUpstream(i)
  <2>1. CASE AskPolicy(i)
    BY <1>1, <2>1, ForwardFrames DEF AskPolicy
  <2>2. CASE Rebind(i)
    BY <1>1, <2>2, ForwardFrames DEF Rebind, Access
  <2>3. CASE SettlePaid(i)
    BY <1>1, <2>3, ForwardFrames DEF SettlePaid, Access
  <2>4. CASE CompleteFree(i)
    BY <1>1, <2>4, ForwardFrames DEF CompleteFree, Access
  <2>5. CASE Pend(i)
    BY <1>1, <2>5, ForwardFrames DEF Pend, Access
  <2>6. CASE PendPlain(i)
    BY <1>1, <2>6, ForwardFrames DEF PendPlain, Access
  <2>7. CASE FailCall(i)
    BY <1>1, <2>7, ForwardFrames DEF FailCall, Access
  <2> QED BY <1>4, <2>1, <2>2, <2>3, <2>4, <2>5, <2>6, <2>7 DEF AfterUpstream
<1>5. CASE Disconnect(i)
  <2>1. Forward(f, [f EXCEPT !.connected = FALSE])
    BY <1>1 DEF Forward, Frame
  <2> QED BY <1>5, <2>1 DEF Disconnect
<1> QED BY <1>2, <1>3, <1>4, <1>5

\* Once output was handed to the client no other upstream is tried, whatever
\* the other calls, the sweep and operators do meanwhile.
THEOREM StreamsStayWhereTheyBegan == RelaySpec => NoFailoverAfterOutput
<1> DEFINE Kept == \A i \in Calls : call[i].output =>
                      /\ call'[i].via = call[i].via
                      /\ call'[i].attempt = call[i].attempt
                      /\ call'[i].pc \notin {"pick", "start", "bind"}
<1>1. ASSUME CallsInv, [RelayNext]_relayVars
      PROVE  [Kept]_relayVars
  <2>1. SUFFICES ASSUME NEW i \in Calls, call[i].output
                 PROVE  Forward(call[i], call'[i])
    BY DEF Forward
  <2>2. /\ call[i] \in Frame /\ call[i].pc \notin {"idle", "pick", "start", "bind"}
        /\ call = [j \in Calls |-> call[j]]
    BY <1>1, <2>1, OutputSeen DEF CallsInv
  <2>3. ASSUME NEW j \in Calls, BeforeUpstream(j) \/ Upstream(j) \/ AfterUpstream(j) \/ Disconnect(j)
        PROVE  Forward(call[i], call'[i])
    <3>1. PICK g : Step(j, g) /\ (j = i => Forward(call[i], g))
      <4>1. CASE j = i
        BY <1>1, <2>1, <2>3, <4>1, OutputGoesForward
      <4>2. CASE j # i
        <5>1. CallsInv
          BY <1>1
        <5>2. BeforeUpstream(j) => \E g : Local(j, g)
          BY <5>1, ArriveStep, PickStep, ExhaustedStep, StartPaidStep, StartFreeStep, BindStep
             DEF BeforeUpstream
        <5>3. AfterUpstream(j) => \E g : Local(j, g)
          BY <5>1, PolicyStep, RebindStep, SettlePaidStep, CompleteFreeStep, PendStep,
             PendPlainStep, FailCallStep DEF AfterUpstream
        <5>4. \E g : Local(j, g)
          BY <2>3, <5>1, <5>2, <5>3, UpstreamStep, DisconnectStep
        <5> QED BY <4>2, <5>4 DEF Local
      <4> QED BY <4>1, <4>2
    <3>2. CASE j = i
      BY <2>2, <3>1, <3>2 DEF Step
    <3>3. CASE j # i
      BY <2>2, <3>1, <3>3 DEF Step, Forward
    <3> QED BY <3>2, <3>3
  <2>4. CASE Crash
    <3>1. Forward(call[i], [Error(i) EXCEPT !.result = "crashed", !.trouble = TRUE])
      BY <2>2 DEF Forward, Error, Frame
    <3> QED BY <2>2, <2>4, <3>1 DEF Crash, Forward
  <2>5. CASE OthersStep \/ UNCHANGED relayVars
    BY <2>2, <2>5 DEF OthersStep, relayVars, Forward
  <2> QED BY <1>1, <2>3, <2>4, <2>5 DEF RelayNext
<1> QED BY <1>1, CallsInvariant, PTL DEF RelaySpec, NoFailoverAfterOutput

-----------------------------------------------------------------------------
(* The relay drives the billing core                                       *)

\* An access to the database is an operation of the billing core or nothing.
LEMMA AccessIsBilling ==
    ASSUME NEW i, NEW A, NEW f, NEW g, Access(i, A, f, g), A => [Next]_vars
    PROVE  [Next]_vars
BY DEF Access

\* Before the upstream call a request is opened and bound.
LEMMA BeforeUpstreamIsBilling ==
    ASSUME CallsInv, NEW i \in Calls, BeforeUpstream(i)
    PROVE  [Next]_vars
<1>1. /\ Row(i) \in Requests /\ EstimateOf[i] \in Usages
      /\ call[i].pc \in {"start", "bind"} => call[i].via \in Channels
  BY OfCall, CallsAssumption DEF FrameOK
<1>2. CASE UNCHANGED vars
  BY <1>2
<1>3. CASE StartPaid(i)
  <2>1. CASE Access(i, Reserve(Row(i), call[i].via, EstimateOf[i]),
                    [At(i, "bind") EXCEPT !.owns = TRUE], Error(i))
    <3>1. Reserve(Row(i), call[i].via, EstimateOf[i]) => Next
      BY <1>1, <1>3 DEF StartPaid, Next, PaidStep
    <3>2. QED
      BY <2>1, <3>1, AccessIsBilling
  <2>2. QED
    BY <1>3, <2>1 DEF StartPaid
<1>4. CASE StartFree(i)
  <2>1. StartFreeRequest(Row(i), call[i].via) => Next
    BY <1>1, <1>4 DEF StartFree, Next, FreeStep
  <2>2. QED
    BY <1>4, <2>1, AccessIsBilling DEF StartFree
<1>5. CASE Bind(i)
  <2>1. BindChannel(i) => [Next]_vars
    BY <1>1, <1>5 DEF Bind, BindChannel, Nothing, Next, PaidStep
  <2>2. QED
    BY <1>5, <2>1, AccessIsBilling DEF Bind
<1>6. QED
  BY <1>2, <1>3, <1>4, <1>5 DEF BeforeUpstream, Arrive, PickChannel, Exhausted

\* After it the request is bound, settled, kept for reconciliation or given up.
LEMMA AfterUpstreamIsBilling ==
    ASSUME CallsInv, NEW i \in Calls, AfterUpstream(i)
    PROVE  [Next]_vars
<1>1. /\ Row(i) \in Requests
      /\ call[i].pc = "rebind" => call[i].via \in Channels
      /\ call[i].pc = "settle" => call[i].usage \in Usages
      /\ Reported(call[i].usage) \in (Usages \ {0}) \cup {NoUsage}
  BY OfCall DEF FrameOK, Working, Accounting, Frame, Reported
<1>2. CASE UNCHANGED vars
  BY <1>2
<1>3. CASE Rebind(i)
  <2>1. (BindChannel(i) => [Next]_vars) /\ (RebindRequestChannel(Row(i), call[i].via) => Next)
    BY <1>1, <1>3 DEF Rebind, BindChannel, Nothing, Next, PaidStep, FreeStep
  <2>2. QED
    BY <1>3, <2>1, AccessIsBilling DEF Rebind
<1>4. CASE SettlePaid(i)
  <2>1. (Settle(Row(i), call[i].usage) \/ Nothing(reservation[Row(i)].status = "settled")) => [Next]_vars
    BY <1>1, <1>4 DEF SettlePaid, Nothing, Next, PaidStep
  <2>2. QED
    BY <1>4, <2>1, AccessIsBilling DEF SettlePaid
<1>5. CASE CompleteFree(i)
  <2>1. CompleteFreeRequest(Row(i), call[i].usage) => Next
    BY <1>1, <1>5 DEF CompleteFree, Next, FreeStep
  <2>2. QED
    BY <1>5, <2>1, AccessIsBilling DEF CompleteFree
<1>6. \A u \in (Usages \ {0}) \cup {NoUsage} : MarkPending(i, u) => [Next]_vars
  BY <1>1 DEF MarkPending, Nothing, Next, PaidStep
<1>7. CASE Pend(i)
  BY <1>1, <1>6, <1>7, AccessIsBilling DEF Pend
<1>8. CASE PendPlain(i)
  BY <1>6, <1>8, AccessIsBilling DEF PendPlain
<1>9. CASE FailCall(i)
  <2>1. /\ (Fail(Row(i)) \/ Nothing(reservation[Row(i)].status \in Closed)) => [Next]_vars
        /\ (FailFreeRequest(Row(i)) \/ Nothing(~FreeStarted(Row(i)))) => [Next]_vars
    BY <1>1 DEF Nothing, Next, PaidStep, FreeStep
  <2>2. QED
    BY <1>9, <2>1, AccessIsBilling DEF FailCall
<1>10. QED
  BY <1>2, <1>3, <1>4, <1>5, <1>7, <1>8, <1>9 DEF AfterUpstream, AskPolicy

\* Whatever handlers, clients, providers and the server do, the rows see a step
\* of the billing core or none.
LEMMA RelayStepsAreBilling == CallsInv /\ [RelayNext]_relayVars => [Next]_vars
<1>1. SUFFICES ASSUME CallsInv, [RelayNext]_relayVars PROVE [Next]_vars
  OBVIOUS
<1>2. ASSUME NEW i \in Calls, BeforeUpstream(i) \/ Upstream(i) \/ AfterUpstream(i) \/ Disconnect(i)
      PROVE  [Next]_vars
  <2>1. Upstream(i) \/ Disconnect(i) => UNCHANGED vars
    BY DEF Upstream, SyncAnswers, SyncFails, StreamDelivers, StreamEnds, StreamBreaks, Disconnect
  <2>2. QED
    BY <1>1, <1>2, <2>1, BeforeUpstreamIsBilling, AfterUpstreamIsBilling
<1>3. CASE Crash
  <2>1. CASE batch = {}
    BY <1>3, <2>1 DEF Crash, vars, ledgerVars
  <2>2. CASE batch # {}
    BY <1>3, <2>2 DEF Crash, ReaperAbort, ReaperStep, Next
  <2>3. QED
    BY <2>1, <2>2
<1>4. CASE OthersStep
  BY <1>4, Zenon DEF OthersStep, Next, PaidStep
<1>5. CASE UNCHANGED relayVars
  BY <1>5 DEF relayVars
<1>6. QED
  BY <1>1, <1>2, <1>3, <1>4, <1>5 DEF RelayNext

\* The relay with its lost answers, disconnects and crashes is an implementation
\* of the billing core: every theorem about Spec is one about relayed calls.
THEOREM RelayImplementsBilling == RelaySpec => Spec
<1>1. RelayInit => Init
  BY DEF RelayInit
<1>2. QED
  BY <1>1, RelayStepsAreBilling, CallsInvariant, PTL DEF RelaySpec, Spec

\* So the rows of relayed calls agree, their bills have the price of the channel
\* that the request is bound to, and each is decided once.
THEOREM RelayedRequestsAreDecidedOnce ==
    RelaySpec => [](RowsAgree /\ PricedByChannel) /\ DecidedOnce
BY RelayImplementsBilling, RowsAlwaysAgree, PricesFollowTheChannel, RequestsAreDecidedOnce, PTL
=============================================================================
