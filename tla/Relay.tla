------------------------------- MODULE Relay -------------------------------
(***************************************************************************)
(* The life of a relayed call: internal/relay/types.go and advanced.go.    *)
(*                                                                         *)
(* A call is the goroutine of one HTTP request.  It drives the operations  *)
(* of Billing while clients disconnect, the server crashes, the database   *)
(* refuses or loses an answer, and the reaper and operators work on the    *)
(* same rows.  Every database access runs under the client's context, so   *)
(* none is acknowledged once the client has gone.                          *)
(*                                                                         *)
(* Abstractions: one model; candidates are all channels; admission before  *)
(* the first billing write (validation, rate limits, group policy) is one  *)
(* step; a provider's answer is its usage.                                 *)
(***************************************************************************)
EXTENDS Billing

CONSTANTS
    Calls,              \* HTTP requests, retries included
    Streams,            \* calls of StreamChatCompletions
    BillingTypes,       \* the billing types a token's group may have
    KeyOf,              \* the idempotency key a call carries
    EstimateOf,         \* the usage estimated for its hold
    Priority, Weight,   \* of each channel
    Unpriced,           \* models whose price may be missing
    MaxStreamAttempts   \* maxStreamAttemptsPerChannel

ASSUME CallsAssumption ==
    /\ Streams \subseteq Calls /\ BillingTypes \subseteq {"prepaid", "free"}
    /\ KeyOf \in [Calls -> Requests]
    /\ EstimateOf \in [Calls -> Usages]
    /\ Priority \in [Channels -> Nat] /\ Weight \in [Channels -> Nat]
    /\ Unpriced \subseteq Models
    /\ MaxStreamAttempts \in Nat \ {0}

VARIABLE call   \* the stack frame of each call

relayVars == <<vars, call>>

Phases == {"idle", "pick", "start", "bind", "upstream", "policy", "rebind",
           "settle", "pend", "pendPlain", "fail", "done"}

Idle == [pc |-> "idle", billing |-> "prepaid", tried |-> {}, via |-> NoChannel, attempt |-> 0,
         owns |-> FALSE,       \* reservation.ID or freeRequestID is set
         output |-> FALSE,     \* streamed bytes were handed to the client
         served |-> NoChannel, \* the channel that answered
         usage |-> NoUsage, connected |-> TRUE, result |-> "none",
         trouble |-> FALSE]    \* a database access failed (history)

Paid(i) == call[i].billing # "free"
Row(i)  == KeyOf[i]

At(i, phase)  == [call[i] EXCEPT !.pc = phase]
Error(i)      == [call[i] EXCEPT !.pc = "done", !.result = "error"]

\* The handler returns nil unless the upstream error is what it returns.
Return(i) == [call[i] EXCEPT !.pc = "done",
                             !.result = IF @ = "error" THEN @ ELSE "ok"]

Step(i, frame) == call' = [call EXCEPT ![i] = frame]

\* A database access A of call i.  It is acknowledged, or it fails; then it
\* may have been committed all the same.  With the client gone it always
\* fails, and it fails when A is refused.
Access(i, A, acknowledged, failed) ==
    \/ call[i].connected /\ A /\ Step(i, acknowledged)
    \/ A /\ Step(i, [failed EXCEPT !.trouble = TRUE])
    \/ UNCHANGED vars /\ Step(i, [failed EXCEPT !.trouble = TRUE])

\* An access that finds nothing to do and returns nil.
Nothing(condition) == condition /\ UNCHANGED vars

-----------------------------------------------------------------------------
(* Routing                                                                 *)

\* pickWeightedChannel: the highest priority among the channels not yet
\* tried, and there a channel of weight zero only if all have weight zero.
Preferred(i) ==
    LET rest == Channels \ call[i].tried
        top  == {c \in rest : \A d \in rest : Priority[d] <= Priority[c]}
    IN  IF \E c \in top : Weight[c] > 0 THEN {c \in top : Weight[c] > 0} ELSE top

\* Prices are published, and end, at any time.
MayLackPrice(i) == ModelOf[call[i].via] \in Unpriced

\* Validation, limits and group policy admit the call, or it ends here.  The
\* billing type of the group is read once; an administrator may change it
\* between a call and its retry.
Arrive(i) ==
    /\ call[i].pc = "idle"
    /\ \/ \E type \in BillingTypes : Step(i, [At(i, "pick") EXCEPT !.billing = type])
       \/ Step(i, Error(i))
    /\ UNCHANGED vars

\* The next candidate; its credential may not be resolved.
PickChannel(i) ==
    /\ call[i].pc = "pick"
    /\ \E c \in Preferred(i) :
         LET tried == [call[i] EXCEPT !.tried = @ \cup {c}, !.via = c, !.attempt = 0]
         IN  \/ Step(i, tried)
             \/ Step(i, [tried EXCEPT !.pc = IF ~call[i].owns THEN "start"
                                             ELSE IF Paid(i) THEN "bind" ELSE "upstream"])
    /\ UNCHANGED vars

\* Mutant: the hold is forgotten when no candidate is left.
ExhaustedForgets(i) ==
    /\ call[i].pc = "pick"
    /\ call[i].tried = Channels
    /\ Step(i, Error(i))
    /\ UNCHANGED vars

Exhausted(i) ==
    /\ call[i].pc = "pick"
    /\ call[i].tried = Channels
    /\ Step(i, At(i, "fail"))
    /\ UNCHANGED vars

-----------------------------------------------------------------------------
(* Billing before the upstream call                                        *)

\* Mutant: a key that was used is taken for the caller's own hold.
StartPaidAgain(i) ==
    /\ call[i].pc = "start"
    /\ Paid(i)
    /\ \/ /\ request[Row(i)].status # "none"
          /\ Step(i, [At(i, "bind") EXCEPT !.owns = TRUE])
          /\ UNCHANGED vars
       \/ Access(i, Reserve(Row(i), call[i].via, EstimateOf[i]),
                 [At(i, "bind") EXCEPT !.owns = TRUE], Error(i))

\* Reserve; a channel without a price is passed over, every other refusal
\* (duplicate key, inactive token, spend limit, balance) ends the call.
StartPaid(i) ==
    /\ call[i].pc = "start"
    /\ Paid(i)
    /\ \/ Access(i, Reserve(Row(i), call[i].via, EstimateOf[i]),
                 [At(i, "bind") EXCEPT !.owns = TRUE], Error(i))
       \/ /\ MayLackPrice(i) /\ call[i].connected
          /\ request[Row(i)].status = "none" /\ TokenOf[Row(i)] \in activeTokens
          /\ Step(i, At(i, "pick"))
          /\ UNCHANGED vars

StartFree(i) ==
    /\ call[i].pc = "start"
    /\ ~Paid(i)
    /\ Access(i, StartFreeRequest(Row(i), call[i].via),
              [At(i, "upstream") EXCEPT !.owns = TRUE], Error(i))

\* A reservation that is settled already is left alone.
BindChannel(i) ==
    \/ RebindReservationChannel(Row(i), call[i].via)
    \/ Nothing(reservation[Row(i)].status = "settled")

\* Mutant: the reservation keeps its channel on failover.
BindNothing(i) ==
    /\ call[i].pc = "bind"
    /\ Step(i, At(i, "upstream"))
    /\ UNCHANGED vars

\* bindReservationToCandidate before each upstream call.
Bind(i) ==
    /\ call[i].pc = "bind"
    /\ \/ Access(i, BindChannel(i), At(i, "upstream"), At(i, "fail"))
       \/ /\ MayLackPrice(i) /\ call[i].connected
          /\ reservation[Row(i)].status \in Open
          /\ Step(i, At(i, "pick"))
          /\ UNCHANGED vars

-----------------------------------------------------------------------------
(* The upstream call                                                       *)

\* The accounting that follows an answer with usage u: complete usage is
\* settled; a paid call with incomplete usage or none is kept for
\* reconciliation (none: unless the price allows it); a free call is
\* estimated, or fails when its input cannot be estimated.
Answered(i, u, complete) ==
    LET frame == [call[i] EXCEPT !.served = call[i].via, !.usage = u]
        next  == CASE u # NoUsage /\ complete -> {"rebind"}
                   [] u # NoUsage /\ ~complete /\ Paid(i) -> {"pend"}
                   [] u = NoUsage /\ Paid(i) -> {"policy"}
                   [] OTHER -> {"rebind", "fail"}
    IN  \E phase \in next : Step(i, [frame EXCEPT !.pc = phase,
                               !.usage = IF u = NoUsage /\ ~Paid(i) THEN EstimateOf[i] ELSE u])

SyncAnswers(i) ==
    /\ call[i].pc = "upstream"
    /\ i \notin Streams
    /\ \E u \in (Usages \ {0}) \cup {NoUsage}, complete \in BOOLEAN : Answered(i, u, complete)
    /\ UNCHANGED vars

\* A retryable failure with the client still there moves to the next channel.
SyncFails(i) ==
    /\ call[i].pc = "upstream"
    /\ i \notin Streams
    /\ \/ Step(i, At(i, "fail"))
       \/ call[i].connected /\ Step(i, At(i, "pick"))
    /\ UNCHANGED vars

\* mergeChatUsage: the usage reported so far only grows.
Merged(old) == {old} \cup {u \in Usages \ {0} : old = NoUsage \/ u >= old}

\* One event of the stream goes to the client; it may carry usage.
StreamDelivers(i) ==
    /\ call[i].pc = "upstream"
    /\ i \in Streams
    /\ \E u \in Merged(call[i].usage) :
          Step(i, [call[i] EXCEPT !.output = TRUE, !.served = call[i].via, !.usage = u])
    /\ UNCHANGED vars

StreamEnds(i) ==
    /\ call[i].pc = "upstream"
    /\ i \in Streams
    /\ \E complete \in BOOLEAN : Answered(i, call[i].usage, complete)
    /\ UNCHANGED vars

\* Mutant: the last attempt is counted from one.
RetryOnceMore(i) ==
    /\ call[i].connected
    /\ call[i].attempt < MaxStreamAttempts
    /\ Step(i, [call[i] EXCEPT !.attempt = @ + 1])

\* A transient failure is retried on the same channel a few times.
RetrySameChannel(i) ==
    /\ call[i].connected
    /\ call[i].attempt + 1 < MaxStreamAttempts
    /\ Step(i, [call[i] EXCEPT !.attempt = @ + 1])

\* Mutant: an interrupted stream may still fail over.
StreamBreaksAndRetries(i) ==
    /\ call[i].pc = "upstream"
    /\ i \in Streams
    /\ \/ Step(i, At(i, "fail"))
       \/ call[i].connected /\ Step(i, At(i, "pick"))
    /\ UNCHANGED vars

\* Before the first byte a stream fails over like a buffered call; after it
\* there is no way back: a paid stream is kept for reconciliation, and the
\* client sees the error whatever the accounting does.
StreamBreaks(i) ==
    /\ call[i].pc = "upstream"
    /\ i \in Streams
    /\ \/ /\ call[i].output
          /\ Step(i, [At(i, IF Paid(i) THEN "pend" ELSE "fail") EXCEPT !.result = "error"])
       \/ ~call[i].output /\ Step(i, At(i, "fail"))
       \/ ~call[i].output /\ RetrySameChannel(i)
       \/ ~call[i].output /\ call[i].connected /\ Step(i, At(i, "pick"))
    /\ UNCHANGED vars

-----------------------------------------------------------------------------
(* Billing after the upstream call                                         *)

\* canSettleWithoutUsage: a failed read ends the call at once; the hold stays.
AskPolicy(i) ==
    /\ call[i].pc = "policy"
    /\ \/ /\ call[i].connected
          /\ \/ /\ reservation[Row(i)].status \in Open /\ CanSettleWithoutUsage(Row(i))
                /\ Step(i, [At(i, "rebind") EXCEPT !.usage = 0])
             \/ /\ reservation[Row(i)].status = "settled"
                /\ Step(i, [At(i, "rebind") EXCEPT !.usage = 0])
             \/ /\ reservation[Row(i)].status \in Open /\ ~CanSettleWithoutUsage(Row(i))
                /\ Step(i, At(i, "pendPlain"))
       \/ Step(i, [Error(i) EXCEPT !.trouble = TRUE])
    /\ UNCHANGED vars

\* Mutant: a free request keeps the channel it was started with.
RebindPaidOnly(i) ==
    /\ call[i].pc = "rebind"
    /\ \/ /\ Paid(i)
          /\ Access(i, BindChannel(i), At(i, "settle"), At(i, "pend"))
       \/ ~Paid(i) /\ Step(i, At(i, "settle")) /\ UNCHANGED vars

\* completeRelayBilling binds the call to the channel that answered ...
Rebind(i) ==
    /\ call[i].pc = "rebind"
    /\ \/ /\ Paid(i)
          /\ Access(i, BindChannel(i), At(i, "settle"), At(i, "pend"))
       \/ /\ ~Paid(i)
          /\ Access(i, RebindRequestChannel(Row(i), call[i].via),
                    At(i, "settle"), [At(i, "fail") EXCEPT !.result = "error"])

\* Mutant: a settlement that fails releases the hold.
SettleOrRelease(i) ==
    /\ call[i].pc = "settle"
    /\ Paid(i)
    /\ Access(i, \/ Settle(Row(i), call[i].usage)
                 \/ Nothing(reservation[Row(i)].status = "settled"),
              Return(i), At(i, "fail"))

\* ... and settles; a settlement that fails leaves the hold pending.
SettlePaid(i) ==
    /\ call[i].pc = "settle"
    /\ Paid(i)
    /\ Access(i, \/ Settle(Row(i), call[i].usage)
                 \/ Nothing(reservation[Row(i)].status = "settled"),
              Return(i), At(i, "pend"))

CompleteFree(i) ==
    /\ call[i].pc = "settle"
    /\ ~Paid(i)
    /\ Access(i, CompleteFreeRequest(Row(i), call[i].usage),
              Return(i), [At(i, "fail") EXCEPT !.result = "error"])

\* A usage without a positive quantity is not recorded.
Reported(u) == IF u = 0 THEN NoUsage ELSE u

MarkPending(i, u) ==
    \/ MarkSettlementPending(Row(i), u)
    \/ Nothing(reservation[Row(i)].status = "settled")

\* markRelayBillingPendingWithUsage tries once with the usage ...
Pend(i) ==
    /\ call[i].pc = "pend"
    /\ Access(i, MarkPending(i, Reported(call[i].usage)), Return(i),
              IF call[i].usage = NoUsage THEN Error(i) ELSE At(i, "pendPlain"))

\* Mutant: the failure of the last write is swallowed.
PendPlainOrIgnore(i) ==
    /\ call[i].pc = "pendPlain"
    /\ Access(i, MarkPending(i, NoUsage), Return(i), Return(i))

\* ... and once without it.
PendPlain(i) ==
    /\ call[i].pc = "pendPlain"
    /\ Access(i, MarkPending(i, NoUsage), Return(i), Error(i))

\* failRelayBilling; the caller gets the error either way.
FailCall(i) ==
    /\ call[i].pc = "fail"
    /\ \/ /\ ~call[i].owns
          /\ Step(i, Error(i))
          /\ UNCHANGED vars
       \/ /\ call[i].owns /\ Paid(i)
          /\ Access(i, Fail(Row(i)) \/ Nothing(reservation[Row(i)].status \in Closed),
                    Error(i), Error(i))
       \/ /\ call[i].owns /\ ~Paid(i)
          /\ Access(i, FailFreeRequest(Row(i)) \/ Nothing(~FreeStarted(Row(i))),
                    Error(i), Error(i))

-----------------------------------------------------------------------------
(* The environment                                                         *)

Running(i) == call[i].pc \notin {"idle", "done"}

Disconnect(i) ==
    /\ Running(i) /\ call[i].connected
    /\ Step(i, [call[i] EXCEPT !.connected = FALSE])
    /\ UNCHANGED vars

\* The server stops: every running handler and the sweep are gone.
Crash ==
    /\ \E i \in Calls : Running(i)
    /\ call' = [i \in Calls |-> IF Running(i)
                                THEN [Error(i) EXCEPT !.result = "crashed", !.trouble = TRUE]
                                ELSE call[i]]
    /\ batch' = {}
    /\ UNCHANGED <<balance, ledgerVars, spent, activeTokens, request,
                   reservation, lapsed>>

\* What others do to the same rows.
OthersStep ==
    /\ \/ AccountStep
       \/ \E r \in Requests : Lapse(r)
       \/ \E r \in Requests, u \in Usages : SettleByModelRequestID(r, u)
       \/ ReaperStep
    /\ UNCHANGED call

\* The three phases are those of every relayed call; CreateEmbeddings runs
\* through them as a buffered call whose usage is complete or missing.
BeforeUpstream(i) ==
    \/ Arrive(i) \/ PickChannel(i) \/ Exhausted(i)
    \/ StartPaid(i) \/ StartFree(i) \/ Bind(i)

Upstream(i) ==
    \/ SyncAnswers(i) \/ SyncFails(i)
    \/ StreamDelivers(i) \/ StreamEnds(i) \/ StreamBreaks(i)

AfterUpstream(i) ==
    \/ AskPolicy(i) \/ Rebind(i) \/ SettlePaid(i) \/ CompleteFree(i)
    \/ Pend(i) \/ PendPlain(i) \/ FailCall(i)

RelayInit == Init /\ call = [i \in Calls |-> Idle]

RelayNext ==
    \/ \E i \in Calls : \/ BeforeUpstream(i) \/ Upstream(i) \/ AfterUpstream(i)
                        \/ Disconnect(i)
    \/ Crash
    \/ OthersStep

RelaySpec == RelayInit /\ [][RelayNext]_relayVars

\* Nothing is assumed of handlers, clients and providers: they may hang.
\* Time passes and the reaper's ticker fires.
RelayFairness ==
    /\ \A r \in Requests : WF_relayVars(Lapse(r) /\ UNCHANGED call)
    /\ WF_relayVars((\E ids \in SUBSET Requests : ReaperScan(ids)) /\ UNCHANGED call)
    /\ \A r \in Requests : /\ SF_relayVars(ReaperExpire(r) /\ UNCHANGED call)
                           /\ WF_relayVars(ReaperSkip(r) /\ UNCHANGED call)

RelayFairSpec == RelaySpec /\ RelayFairness

-----------------------------------------------------------------------------
(* Properties                                                              *)

CallTypeOK ==
    call \in [Calls -> [pc : Phases, billing : {"prepaid", "free"}, tried : SUBSET Channels,
                        via : Channels \cup {NoChannel},
                        attempt : 0 .. MaxStreamAttempts - 1, owns : BOOLEAN,
                        output : BOOLEAN, served : Channels \cup {NoChannel},
                        usage : Usages \cup {NoUsage}, connected : BOOLEAN,
                        result : {"none", "ok", "error", "crashed"}, trouble : BOOLEAN]]

\* A call that reported success is settled or awaits reconciliation: whatever
\* failed on the way, a handler returns nil only with the answer on the books.
SuccessIsBilled ==
    \A i \in Calls : Paid(i) /\ call[i].result = "ok" =>
        reservation[Row(i)].status \in {"pending", "settled"}

\* A handler gives the hold back only when no upstream answered: failures of
\* the accounting itself never turn a served call into a refunded one.
RefundedIsUnserved ==
    \A i \in Calls : Paid(i) /\ call[i].owns /\ reservation[Row(i)].status = "released" =>
        call[i].served = NoChannel

\* What is billed, or will be, is the channel that answered, after any number
\* of failovers and however the accounting went.
ServedChannelIsBilled ==
    \A i \in Calls :
        call[i].owns /\ request[Row(i)].status \in {"settlement_pending", "settled"} =>
            /\ call[i].served # NoChannel
            /\ request[Row(i)].channel = call[i].served

\* A client's retry with the same key is never served a second time, even when
\* the first call crashed, hangs, or never learned that its hold was taken.
OneServedPerKey ==
    \A i, j \in Calls :
        KeyOf[i] = KeyOf[j] /\ call[i].served # NoChannel /\ call[j].served # NoChannel => i = j

\* A call that ended unserved without trouble holds no money: it does not wait
\* for the reaper.
UnservedIsRefunded ==
    \A i \in Calls :
        Paid(i) /\ call[i].owns /\ call[i].pc = "done" /\ ~call[i].trouble
          /\ call[i].served = NoChannel =>
            reservation[Row(i)].status \in Closed

\* What was served is on the books once, for the channel that served it.
ServedIsBilledOnce == SuccessIsBilled /\ ServedChannelIsBilled /\ OneServedPerKey

\* Money goes back for calls that no upstream answered, and for all of them.
RefundsAreForTheUnserved == RefundedIsUnserved /\ UnservedIsRefunded

\* Bytes that were delivered cannot be taken back: no other upstream attempt
\* is made for a stream that has begun.
NoFailoverAfterOutput ==
    [][\A i \in Calls : call[i].output =>
          /\ call'[i].via = call[i].via
          /\ call'[i].attempt = call[i].attempt
          /\ call'[i].pc \notin {"pick", "start", "bind"}]_relayVars

\* No hold is kept for ever: handlers may hang, crash or lose their client,
\* sooner or later the money is charged, given back, or up for reconciliation.
HoldsAreResolved ==
    \A r \in Requests : reservation[r].status = "held" ~> reservation[r].status # "held"

\* types.go: a successful upstream response must never become an untracked or
\* free request when the accounting write fails.  A handler that has returned
\* leaves a served call on the books.
ServedIsNeverFree ==
    \A i \in Calls :
        Paid(i) /\ call[i].served # NoChannel
          /\ call[i].pc = "done" /\ call[i].result # "crashed" =>
            reservation[Row(i)].status \notin {"released", "expired"}
=============================================================================
