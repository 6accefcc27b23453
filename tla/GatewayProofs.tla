--------------------------- MODULE GatewayProofs ---------------------------
(***************************************************************************)
(* What stands between a call and its upstream, for any number of calls,   *)
(* channels, models and limits: circuits (Routing), the limits of a token  *)
(* (TokenLimiter), the version of its price (PriceCatalog) and what it is  *)
(* charged (Metering).                                                     *)
(*                                                                         *)
(* The first two arguments count.  The failures a circuit has counted, with *)
(* those that calls have met and not yet recorded, are never more than the *)
(* failures there were; the slots taken are those of the running calls and *)
(* those that were lost.  The third orders the versions of a price: what   *)
(* has been replaced, an active version published later has replaced.      *)
(*                                                                         *)
(* The fourth adds.  A sum over a finite set takes its elements in any     *)
(* order.  In a normalized usage the parts of a meter fit in it, so what   *)
(* the meter counts beside them, and they, add up to it.  Tiers that a     *)
(* charge accepts follow each other, so the units below each limit add up  *)
(* to the amount.  A usage equal to the estimate is charged as the         *)
(* estimate was, from which the meters without a price were dropped.       *)
(*                                                                         *)
(* The fifth follows a listing into a charge.  Thresholds in their order   *)
(* become tiers with growing limits, whose price at a quantity is that of  *)
(* the highest threshold below it; no later field touches what the first   *)
(* one sets for the input; and a version keeps the price of its listing.   *)
(***************************************************************************)
EXTENDS Routing, TokenLimiter, PriceCatalog, FiniteSetTheorems, SequenceTheorems, WellFoundedInduction,
        TLAPS

\* A set that lost an element, or gained at most one, and its cardinality.
LEMMA CountAfterChange ==
    ASSUME NEW S, IsFiniteSet(S), NEW x, NEW T
    PROVE  /\ T \subseteq S => IsFiniteSet(T) /\ Cardinality(T) <= Cardinality(S)
           /\ T \subseteq S \ {x} /\ x \in S => IsFiniteSet(T) /\ Cardinality(T) + 1 <= Cardinality(S)
           /\ T \subseteq S \cup {x} => IsFiniteSet(T) /\ Cardinality(T) <= Cardinality(S) + 1
           /\ Cardinality(S) \in Nat
           /\ IsFiniteSet(T) => Cardinality(T) \in Nat
<1>1. Cardinality(S) \in Nat
  BY FS_CardinalityType
<1>2. ASSUME T \subseteq S PROVE IsFiniteSet(T) /\ Cardinality(T) <= Cardinality(S)
  BY <1>2, FS_Subset
<1>3. ASSUME T \subseteq S \ {x}, x \in S
      PROVE  IsFiniteSet(T) /\ Cardinality(T) + 1 <= Cardinality(S)
  <2>1. IsFiniteSet(S \ {x}) /\ Cardinality(S \ {x}) = Cardinality(S) - 1
    BY <1>3, FS_RemoveElement
  <2>2. IsFiniteSet(T) /\ Cardinality(T) <= Cardinality(S \ {x})
    BY <1>3, <2>1, FS_Subset
  <2>3. Cardinality(T) \in Nat
    BY <2>2, FS_CardinalityType
  <2>4. QED
    BY <1>1, <2>1, <2>2, <2>3
<1>4. ASSUME T \subseteq S \cup {x} PROVE IsFiniteSet(T) /\ Cardinality(T) <= Cardinality(S) + 1
  <2>1. /\ IsFiniteSet(S \cup {x}) /\ Cardinality(S \cup {x}) \in Nat
        /\ Cardinality(S \cup {x}) <= Cardinality(S) + 1
    <3>1. /\ IsFiniteSet(S \cup {x})
          /\ Cardinality(S \cup {x}) = IF x \in S THEN Cardinality(S) ELSE Cardinality(S) + 1
      BY FS_AddElement
    <3>2. QED
      BY <1>1, <3>1
  <2>2. IsFiniteSet(T) /\ Cardinality(T) <= Cardinality(S \cup {x})
    BY <1>4, <2>1, FS_Subset
  <2>3. Cardinality(T) \in Nat
    BY <2>2, FS_CardinalityType
  <2>4. QED
    BY <1>1, <2>1, <2>2, <2>3
<1>5. IsFiniteSet(T) => Cardinality(T) \in Nat
  BY FS_CardinalityType
<1>6. QED
  BY <1>1, <1>2, <1>3, <1>4, <1>5

-----------------------------------------------------------------------------
(* Circuits                                                                *)

Phases == {"idle", "pick", "wait", "ok", "okModel", "failed", "failedWide"}
Health == {"unknown", "normal", "degraded", "unavailable"}
Candidate == [id : Channels, priority : Nat, weight : Nat]

ChannelRow == [status : {"none", "active", "disabled", "deleted"}, provider : Providers \cup {None},
               priority : Nat, weight : Nat, failures : 0 .. FailureThreshold, openFor : Nat]
RouteRow   == [enabled : BOOLEAN, exists : BOOLEAN, failures : 0 .. FailureThreshold, openFor : Nat,
               health : Health, probeFailures : 0 .. FailureThreshold, probeHealth : Health]
GroupRow   == [status : {"active", "disabled", "deleted"}, channels : SUBSET Channels, bound : BOOLEAN]
CallFrame  == [pc : Phases, probe : BOOLEAN, model : Models \cup {None}, left : SUBSET Candidate,
               channel : Channels \cup {None}, wide : BOOLEAN]

RoutingTypeOK ==
    /\ channel \in [Channels -> ChannelRow]
    /\ route \in [Channels \X Models -> RouteRow]
    /\ group \in GroupRow
    /\ call \in [Calls -> CallFrame]
    /\ wide \in [Channels -> Nat] /\ late \in [Channels -> Nat]

\* What a call knows: what is left to try has each channel once, and not the one
\* that is being tried.
CallsOK ==
    \A k \in Calls :
        /\ call[k].pc = "idle" => call[k].left = {}
        /\ call[k].pc # "idle" => call[k].model \in Models
        /\ call[k].pc \notin {"idle", "pick"} =>
              call[k].channel \in Channels /\ \A x \in call[k].left : x.id # call[k].channel
        /\ \A x, y \in call[k].left : x.id = y.id => x = y
        /\ call[k].pc = "failedWide" => call[k].wide /\ ~ call[k].probe

\* The circuit of a route.
RoutesOK ==
    \A cm \in Channels \X Models :
        /\ route[cm].openFor > 0 => route[cm].health = "unavailable"
        /\ route[cm].health = "unavailable" <=> route[cm].failures >= FailureThreshold
        /\ route[cm].enabled => route[cm].exists

\* Calls that have met a failure of the whole channel c and not yet recorded it,
\* and calls that may still try c.
Failing(c) == {k \in Calls : /\ call[k].pc \in {"failed", "failedWide"} /\ call[k].wide /\ ~ call[k].probe
                             /\ call[k].channel = c}
MayTry(c)  == {k \in Calls : \E x \in call[k].left : x.id = c}

\* The circuit of a channel: nothing is counted that has not happened, and a late
\* attempt uses up what allowed it.
ChannelOK(c) ==
    /\ channel[c].status = "none" => channel[c].openFor = 0
    /\ wide[c] >= FailureThreshold \/ channel[c].failures + Cardinality(Failing(c)) <= wide[c]
    /\ channel[c].openFor > 0 => wide[c] >= FailureThreshold
    /\ channel[c].openFor = 0 => late[c] = 0
    /\ channel[c].openFor > 0 => late[c] + Cardinality(MayTry(c)) < Cardinality(Calls)

ChannelsOK == \A c \in Channels : ChannelOK(c)

\* A channel that exists has the provider that was entered for it.
ProvidersOK == \A c \in Channels : Exists(c) => channel[c].provider \in Providers

RoutingInv == RoutingTypeOK /\ CallsOK /\ RoutesOK /\ ChannelsOK /\ ProvidersOK

\* The sets of calls are finite, and PendingWide counts one of them.
LEMMA CallSets ==
    /\ Cardinality(Calls) \in Nat
    /\ \A c : /\ IsFiniteSet(Failing(c)) /\ Cardinality(Failing(c)) \in Nat
              /\ IsFiniteSet(MayTry(c)) /\ Cardinality(MayTry(c)) \in Nat
              /\ PendingWide(c, None) = Cardinality(Failing(c))
              /\ \A k : PendingWide(c, k) = Cardinality(Failing(c) \ {k})
<1>1. IsFiniteSet(Calls) /\ None \notin Calls
  BY RoutingAssumption
<1>2. \A c : Failing(c) \subseteq Calls /\ MayTry(c) \subseteq Calls
  BY DEF Failing, MayTry
<1>3. \A c : IsFiniteSet(Failing(c)) /\ IsFiniteSet(MayTry(c))
  BY <1>1, <1>2, FS_Subset
<1>4. ASSUME NEW c, NEW k PROVE PendingWide(c, k) = Cardinality(Failing(c) \ {k})
  <2>1. {i \in Calls \ {k} : call[i].pc \in {"failed", "failedWide"} /\ call[i].wide /\ ~ call[i].probe
                             /\ call[i].channel = c} = Failing(c) \ {k}
    BY DEF Failing
  <2>2. QED
    BY <2>1, Zenon DEF PendingWide
<1>5. ASSUME NEW c PROVE Failing(c) \ {None} = Failing(c)
  BY <1>1, <1>2
<1>6. QED
  BY <1>1, <1>3, <1>4, <1>5, FS_CardinalityType, Zenon
-----------------------------------------------------------------------------
\* A group is chosen from the routes that are left.
LEMMA PoolIsLeft == \A left : Pool(left) \subseteq left
  BY DEF Pool

\* What is selected: channels whose circuit is closed.
LEMMA CandidatesAreClosed ==
    \A m, grouped : \A c \in Candidates(m, grouped) : c \in Channels /\ channel[c].openFor = 0
  BY DEF Candidates

\* A failure counter stops at its threshold.
LEMMA OneMoreBounded ==
    \A n \in 0 .. FailureThreshold : OneMore(n) \in 0 .. FailureThreshold /\ OneMore(n) <= n + 1
  BY RoutingAssumption DEF OneMore

\* Every action preserves the types.
LEMMA RoutingKeepsTypes ==
    RoutingTypeOK /\ CallsOK /\ [RoutingNext]_routingVars => RoutingTypeOK'
<1> SUFFICES ASSUME RoutingTypeOK, CallsOK, [RoutingNext]_routingVars PROVE RoutingTypeOK'
  OBVIOUS
<1>a. /\ FailureThreshold \in Nat \ {0} /\ CircuitDuration \in Nat \ {0}
      /\ 0 \in 0 .. FailureThreshold
      /\ \A n \in 0 .. FailureThreshold : OneMore(n) \in 0 .. FailureThreshold
      /\ \A c : PendingWide(c, None) \in Nat /\ \A k : PendingWide(c, k) \in Nat
  <2>1. \A c, k : PendingWide(c, k) \in Nat
    <3> SUFFICES ASSUME NEW c, NEW k PROVE PendingWide(c, k) \in Nat
      OBVIOUS
    <3>1. IsFiniteSet(Failing(c) \ {k})
      BY CallSets, FS_RemoveElement
    <3>2. QED
      BY <3>1, CallSets, FS_CardinalityType
  <2>2. QED
    BY <2>1, OneMoreBounded, RoutingAssumption
<1>b. IdleCall \in CallFrame
  BY DEF IdleCall, CallFrame, Phases
<1>c. ASSUME NEW k \in Calls
      PROVE  /\ call[k] \in CallFrame
             /\ \A pc \in Phases : [call EXCEPT ![k].pc = pc] \in [Calls -> CallFrame]
             /\ [call EXCEPT ![k] = IdleCall] \in [Calls -> CallFrame]
  <2>1. call[k] \in CallFrame
    BY DEF RoutingTypeOK
  <2>2. \A pc \in Phases : [call[k] EXCEPT !.pc = pc] \in CallFrame
    BY <2>1 DEF CallFrame
  <2>3. QED
    BY <1>b, <2>1, <2>2 DEF RoutingTypeOK
<1>1. ASSUME NEW k \in Calls, NEW m \in Models, NEW probe \in BOOLEAN, NEW grouped \in BOOLEAN,
             StartCall(k, m, probe, grouped)
      PROVE  RoutingTypeOK'
  <2>1. {[id |-> c, priority |-> channel[c].priority, weight |-> channel[c].weight] :
            c \in Candidates(m, grouped)} \in SUBSET Candidate
    BY CandidatesAreClosed DEF RoutingTypeOK, ChannelRow, Candidate
  <2>2. call' \in [Calls -> CallFrame]
    BY <1>1, <2>1 DEF StartCall, RoutingTypeOK, CallFrame, IdleCall, Phases
  <2>3. QED
    BY <1>1, <2>2 DEF StartCall, RoutingTypeOK
<1>2. ASSUME NEW k \in Calls, Attempt(k) PROVE RoutingTypeOK'
  <2>1. PICK x \in Pool(call[k].left) :
           /\ call' = [call EXCEPT ![k].pc = "wait", ![k].channel = x.id, ![k].left = @ \ {x}]
           /\ late' = IF channel[x.id].openFor > 0 THEN [late EXCEPT ![x.id] = @ + 1] ELSE late
    BY <1>2 DEF Attempt
  <2>2. x \in Candidate
    BY <2>1, PoolIsLeft DEF RoutingTypeOK, CallFrame
  <2>3. [call[k] EXCEPT !.pc = "wait", !.channel = x.id, !.left = @ \ {x}] \in CallFrame
    <3>1. call[k] \in CallFrame /\ "wait" \in Phases /\ x.id \in Channels
      BY <1>c, <2>2 DEF Phases, Candidate
    <3>2. QED
      BY <3>1 DEF CallFrame
  <2>4. call' = [call EXCEPT ![k] = [call[k] EXCEPT !.pc = "wait", !.channel = x.id, !.left = @ \ {x}]]
    BY <2>1 DEF RoutingTypeOK
  <2>5. call' \in [Calls -> CallFrame]
    BY <2>3, <2>4 DEF RoutingTypeOK
  <2>6. late' \in [Channels -> Nat]
    BY <2>1, <2>2 DEF RoutingTypeOK, Candidate
  <2>7. QED
    BY <1>2, <2>5, <2>6 DEF Attempt, RoutingTypeOK
<1>3. ASSUME NEW k \in Calls, NEW a \in {"ok", "wide", "model", "refused"}, Answer(k, a)
      PROVE  RoutingTypeOK'
  <2>a. \A b \in BOOLEAN : [call[k] EXCEPT !.pc = "failed", !.wide = b] \in CallFrame
    <3>1. call[k] \in CallFrame /\ "failed" \in Phases
      BY <1>c DEF Phases
    <3>2. QED
      BY <3>1 DEF CallFrame
  <2>b. \A b \in BOOLEAN : [call EXCEPT ![k].pc = "failed", ![k].wide = b] \in [Calls -> CallFrame]
    <3> SUFFICES ASSUME NEW b \in BOOLEAN
                 PROVE  [call EXCEPT ![k].pc = "failed", ![k].wide = b] \in [Calls -> CallFrame]
      OBVIOUS
    <3>1. [call EXCEPT ![k].pc = "failed", ![k].wide = b]
             = [call EXCEPT ![k] = [call[k] EXCEPT !.pc = "failed", !.wide = b]]
      BY DEF RoutingTypeOK
    <3>2. QED
      BY <3>1, <2>a DEF RoutingTypeOK
  <2>1. call' \in [Calls -> CallFrame]
    BY <1>3, <1>c, <2>b DEF Answer, Phases
  <2>2. wide' \in [Channels -> Nat]
    BY <1>3, <1>a DEF Answer, RoutingTypeOK, CallsOK, OneMore
  <2>3. QED
    BY <1>3, <2>1, <2>2 DEF Answer, RoutingTypeOK
<1>4. ASSUME NEW k \in Calls, RecordChannelSuccess(k) PROVE RoutingTypeOK'
  <2>1. call' \in [Calls -> CallFrame] /\ call[k].channel \in Channels
    BY <1>4 DEF RecordChannelSuccess, RoutingTypeOK, CallsOK, CallFrame, Phases
  <2>2. channel' \in [Channels -> ChannelRow]
    <3> DEFINE c == call[k].channel
               row == [channel[c] EXCEPT !.failures = 0, !.openFor = 0]
    <3>1. row \in ChannelRow
      BY <1>a, <2>1 DEF RoutingTypeOK, ChannelRow
    <3>2. channel' = channel \/ channel' = [channel EXCEPT ![c] = row]
      <4>1. channel' = channel \/ channel' = [channel EXCEPT ![c].failures = 0, ![c].openFor = 0]
        BY <1>4 DEF RecordChannelSuccess
      <4>2. [channel EXCEPT ![c].failures = 0, ![c].openFor = 0] = [channel EXCEPT ![c] = row]
        BY <2>1 DEF RoutingTypeOK
      <4>3. QED
        BY <4>1, <4>2
    <3> HIDE DEF row
    <3>3. QED
      BY <2>1, <3>1, <3>2 DEF RoutingTypeOK
  <2>3. wide' \in [Channels -> Nat] /\ late' \in [Channels -> Nat]
    BY <1>4, <1>a, <2>1 DEF RecordChannelSuccess, RoutingTypeOK, LateAfter
  <2>4. QED
    BY <1>4, <2>1, <2>2, <2>3 DEF RecordChannelSuccess, RoutingTypeOK
<1>5. ASSUME NEW k \in Calls, RecordChannelModelSuccess(k) PROVE RoutingTypeOK'
  <2>1. call' \in [Calls -> CallFrame]
    BY <1>5 DEF RecordChannelModelSuccess, RoutingTypeOK, CallFrame, Phases, IdleCall
  <2>a. <<call[k].channel, call[k].model>> \in Channels \X Models
    BY <1>5 DEF RecordChannelModelSuccess, CallsOK
  <2>2. route' \in [Channels \X Models -> RouteRow]
    <3>1. \A row \in RouteRow :
             [row EXCEPT !.failures = 0, !.openFor = 0, !.health = "normal"] \in RouteRow
      BY <1>a DEF RouteRow, Health
    <3>2. CASE ~ route[<<call[k].channel, call[k].model>>].exists
      BY <1>5, <3>2 DEF RecordChannelModelSuccess, RoutingTypeOK
    <3>3. CASE route[<<call[k].channel, call[k].model>>].exists
      <4>1. route' = [route EXCEPT ![<<call[k].channel, call[k].model>>] =
                  [route[<<call[k].channel, call[k].model>>] EXCEPT !.failures = 0, !.openFor = 0, !.health = "normal"]]
        BY <1>5, <2>a, <3>3 DEF RecordChannelModelSuccess, RoutingTypeOK
      <4>2. QED
        BY <2>a, <3>1, <4>1 DEF RoutingTypeOK
    <3>4. QED
      BY <3>2, <3>3
  <2>3. QED
    BY <1>5, <2>1, <2>2 DEF RecordChannelModelSuccess, RoutingTypeOK
<1>6. ASSUME NEW k \in Calls, Continue(k) PROVE call' \in [Calls -> CallFrame]
  <2>1. "pick" \in Phases
    BY DEF Phases
  <2>2. /\ [call EXCEPT ![k].pc = "pick"] \in [Calls -> CallFrame]
        /\ [call EXCEPT ![k] = IdleCall] \in [Calls -> CallFrame]
    BY <1>c, <2>1
  <2>3. call' = [call EXCEPT ![k] = IdleCall] \/ call' = [call EXCEPT ![k].pc = "pick"]
    BY <1>6 DEF Continue
  <2>4. QED
    BY <2>2, <2>3
<1>7. ASSUME NEW k \in Calls, RecordChannelModelFailure(k) PROVE RoutingTypeOK'
  <2>1. call' \in [Calls -> CallFrame]
    BY <1>6, <1>7, <1>c DEF RecordChannelModelFailure, Phases
  <2>2. <<call[k].channel, call[k].model>> \in Channels \X Models
    BY <1>7 DEF RecordChannelModelFailure, CallsOK
  <2>3. route[<<call[k].channel, call[k].model>>] \in RouteRow
    BY <2>2 DEF RoutingTypeOK
  <2>4. OneMore(route[<<call[k].channel, call[k].model>>].failures) \in 0 .. FailureThreshold
    BY <1>a, <2>3 DEF RouteRow
  <2>5. route' \in [Channels \X Models -> RouteRow]
    BY <1>7, <1>a, <2>2, <2>3, <2>4 DEF RecordChannelModelFailure, RoutingTypeOK, RouteRow, Health
  <2>6. QED
    BY <1>7, <2>1, <2>5 DEF RecordChannelModelFailure, RoutingTypeOK
<1>8. ASSUME NEW k \in Calls, RecordChannelFailure(k) PROVE RoutingTypeOK'
  <2>1. call' \in [Calls -> CallFrame]
    BY <1>6, <1>8 DEF RecordChannelFailure
  <2>2. call[k].channel \in Channels
    BY <1>8 DEF RecordChannelFailure, CallsOK
  <2>3. OneMore(channel[call[k].channel].failures) \in 0 .. FailureThreshold
    BY <1>a, <2>2 DEF RoutingTypeOK, ChannelRow
  <2>4. channel' \in [Channels -> ChannelRow]
    <3> DEFINE c == call[k].channel
               n == OneMore(channel[c].failures)
               row == [channel[c] EXCEPT !.failures = n,
                          !.openFor = IF n >= FailureThreshold THEN CircuitDuration ELSE @]
    <3>1. n \in 0 .. FailureThreshold
      BY <2>3
    <3>2. channel' = channel \/ channel' = [channel EXCEPT ![c] = row]
      <4> HIDE DEF n
      <4>1. \/ channel' = channel
            \/ channel' = [channel EXCEPT ![c].failures = n,
                              ![c].openFor = IF n >= FailureThreshold THEN CircuitDuration ELSE @]
        BY <1>8 DEF RecordChannelFailure, n
      <4>2. [channel EXCEPT ![c].failures = n,
                            ![c].openFor = IF n >= FailureThreshold THEN CircuitDuration ELSE @]
               = [channel EXCEPT ![c] = row]
        BY <2>2 DEF RoutingTypeOK, ChannelRow
      <4>3. QED
        BY <4>1, <4>2
    <3> HIDE DEF n
    <3>3. row \in ChannelRow
      BY <1>a, <2>2, <3>1 DEF RoutingTypeOK, ChannelRow
    <3> HIDE DEF row
    <3>4. QED
      BY <2>2, <3>2, <3>3 DEF RoutingTypeOK
  <2>5. QED
    BY <1>8, <2>1, <2>4 DEF RecordChannelFailure, RoutingTypeOK
<1>9. ASSUME NEW k \in Calls, RecordProbe(k) PROVE RoutingTypeOK'
  <2>1. call' \in [Calls -> CallFrame]
    BY <1>6, <1>9 DEF RecordProbe
  <2>2. <<call[k].channel, call[k].model>> \in Channels \X Models
    BY <1>9 DEF RecordProbe, CallsOK
  <2>3. OneMore(route[<<call[k].channel, call[k].model>>].probeFailures) \in 0 .. FailureThreshold
    BY <1>a, <2>2 DEF RoutingTypeOK, RouteRow
  <2>4. route' \in [Channels \X Models -> RouteRow]
    <3> DEFINE probed == <<call[k].channel, call[k].model>>
               n == OneMore(route[probed].probeFailures)
    <3>1. route[probed] \in RouteRow
      BY <2>2 DEF RoutingTypeOK
    <3>2. /\ [route[probed] EXCEPT !.probeFailures = 0, !.probeHealth = "normal"] \in RouteRow
          /\ [route[probed] EXCEPT !.probeFailures = n,
                !.probeHealth = IF n >= FailureThreshold THEN "unavailable" ELSE "degraded"] \in RouteRow
      <4> HIDE DEF n, probed
      <4>1. n \in 0 .. FailureThreshold
        BY <2>3 DEF n, probed
      <4>2. QED
        BY <1>a, <3>1, <4>1 DEF RouteRow, Health
    <3>3. \/ route' = route
          \/ route' = [route EXCEPT ![probed] =
                         [route[probed] EXCEPT !.probeFailures = 0, !.probeHealth = "normal"]]
          \/ route' = [route EXCEPT ![probed] = [route[probed] EXCEPT !.probeFailures = n,
                !.probeHealth = IF n >= FailureThreshold THEN "unavailable" ELSE "degraded"]]
      BY <1>9, <2>2 DEF RecordProbe, RoutingTypeOK
    <3> HIDE DEF n, probed
    <3>4. QED
      BY <2>2, <3>2, <3>3 DEF RoutingTypeOK, probed
  <2>5. QED
    BY <1>9, <2>1, <2>4 DEF RecordProbe, RoutingTypeOK
<1>10. ASSUME NEW k \in Calls, Abandon(k) PROVE RoutingTypeOK'
  BY <1>10 DEF Abandon, RoutingTypeOK, CallFrame, Phases, IdleCall
<1>11. ASSUME TickCircuits PROVE RoutingTypeOK'
  <2>1. channel' \in [Channels -> ChannelRow]
    <3>1. \A c \in Channels : channel[c] \in ChannelRow
      BY DEF RoutingTypeOK
    <3>2. \A row \in ChannelRow : row.openFor > 0 => [row EXCEPT !.openFor = @ - 1] \in ChannelRow
      BY DEF ChannelRow
    <3>3. QED
      BY <1>11, <3>1, <3>2 DEF TickCircuits
  <2>2. route' \in [Channels \X Models -> RouteRow]
    <3>1. \A cm \in Channels \X Models : route[cm] \in RouteRow
      BY DEF RoutingTypeOK
    <3>2. \A row \in RouteRow : row.openFor > 0 => [row EXCEPT !.openFor = @ - 1] \in RouteRow
      BY DEF RouteRow
    <3>3. QED
      BY <1>11, <3>1, <3>2 DEF TickCircuits
  <2>3. late' \in [Channels -> Nat]
    BY <1>11 DEF TickCircuits, RoutingTypeOK
  <2>4. QED
    BY <1>11, <2>1, <2>2, <2>3 DEF TickCircuits, RoutingTypeOK
<1>12. ASSUME NEW c \in Channels, NEW listed, NEW on
       PROVE  Rows(c, listed, on) \in [Channels \X Models -> RouteRow]
  <2>1. ASSUME NEW a \in BOOLEAN, NEW b \in BOOLEAN
        PROVE  [NoRoute EXCEPT !.exists = a, !.enabled = b] \in RouteRow
    BY <1>a DEF RouteRow, NoRoute, Health
  <2>2. ASSUME NEW cm \in Channels \X Models
        PROVE  [NoRoute EXCEPT !.exists = cm[2] \in listed, !.enabled = cm[2] \in on] \in RouteRow
    <3> DEFINE a == cm[2] \in listed
               b == cm[2] \in on
    <3>1. a \in BOOLEAN /\ b \in BOOLEAN
      OBVIOUS
    <3> HIDE DEF a, b
    <3>2. [NoRoute EXCEPT !.exists = a, !.enabled = b] \in RouteRow
      BY <2>1, <3>1
    <3>3. QED
      BY <3>2 DEF a, b
  <2>3. QED
    BY <2>2 DEF Rows, RoutingTypeOK
<1>z. ASSUME NEW x \in Settings, NEW n \in 0 .. FailureThreshold, NEW t \in Nat
      PROVE  Row(x, n, t) \in ChannelRow
  BY RoutingAssumption DEF Row, ChannelRow
<1>13. ASSUME NEW c \in Channels, NEW x \in Settings, NEW listed, NEW on, CreateChannel(c, x, listed, on)
       PROVE  RoutingTypeOK'
  <2>1. channel' \in [Channels -> ChannelRow]
    BY <1>13, <1>a, <1>z DEF CreateChannel, RoutingTypeOK
  <2>2. QED
    BY <1>12, <1>13, <2>1 DEF CreateChannel, RoutingTypeOK
<1>14. ASSUME NEW c \in Channels, NEW x \in Settings, NEW listed, NEW on, UpdateChannel(c, x, listed, on)
       PROVE  RoutingTypeOK'
  <2>1. channel' \in [Channels -> ChannelRow]
    <3>1. channel[c].failures \in 0 .. FailureThreshold /\ channel[c].openFor \in Nat
      BY DEF RoutingTypeOK, ChannelRow
    <3>2. Row(x, 0, 0) \in ChannelRow /\ Row(x, channel[c].failures, channel[c].openFor) \in ChannelRow
      BY <1>a, <1>z, <3>1
    <3>3. QED
      BY <1>14, <3>2 DEF UpdateChannel, RoutingTypeOK
  <2>2. wide' \in [Channels -> Nat] /\ late' \in [Channels -> Nat]
    BY <1>14, <1>a DEF UpdateChannel, RoutingTypeOK, LateAfter
  <2>3. QED
    BY <1>12, <1>14, <2>1, <2>2 DEF UpdateChannel, RoutingTypeOK
<1>15. ASSUME NEW c \in Channels, NEW s \in {"active", "disabled"}, SetChannelStatus(c, s)
       PROVE  RoutingTypeOK'
  <2>1. channel' \in [Channels -> ChannelRow]
    <3>1. \A row \in ChannelRow :
             [row EXCEPT !.status = s, !.failures = IF s = "active" THEN 0 ELSE @,
                         !.openFor = IF s = "active" THEN 0 ELSE @] \in ChannelRow
      BY <1>a DEF ChannelRow
    <3>2. channel' = [channel EXCEPT ![c] =
             [channel[c] EXCEPT !.status = s, !.failures = IF s = "active" THEN 0 ELSE @,
                         !.openFor = IF s = "active" THEN 0 ELSE @]]
      BY <1>15 DEF SetChannelStatus, RoutingTypeOK
    <3>3. QED
      BY <3>1, <3>2 DEF RoutingTypeOK
  <2>2. wide' \in [Channels -> Nat] /\ late' \in [Channels -> Nat]
    BY <1>15, <1>a DEF SetChannelStatus, RoutingTypeOK, LateAfter
  <2>3. QED
    BY <1>15, <2>1, <2>2 DEF SetChannelStatus, RoutingTypeOK
<1>16. ASSUME NEW c \in Channels, ResetRoutes(c) PROVE RoutingTypeOK'
  <2>1. route' \in [Channels \X Models -> RouteRow]
    BY <1>16, <1>a DEF ResetRoutes, RoutingTypeOK, RouteRow, NoRoute, Health
  <2>2. QED
    BY <1>16, <2>1 DEF ResetRoutes, RoutingTypeOK
<1>17. ASSUME NEW c \in Channels, DeleteChannel(c) PROVE RoutingTypeOK'
  BY <1>17 DEF DeleteChannel, RoutingTypeOK, ChannelRow
<1>18. ASSUME NEW s \in {"active", "disabled"}, NEW cs \in SUBSET Channels, UpdateGroup(s, cs)
       PROVE  RoutingTypeOK'
  BY <1>18 DEF UpdateGroup, RoutingTypeOK, GroupRow
<1>19. ASSUME NEW b \in BOOLEAN, BindToken(b) PROVE RoutingTypeOK'
  BY <1>19 DEF BindToken, RoutingTypeOK, GroupRow
<1>20. ASSUME DeleteGroup PROVE RoutingTypeOK'
  BY <1>20 DEF DeleteGroup, RoutingTypeOK, GroupRow
<1>21. ASSUME UNCHANGED routingVars PROVE RoutingTypeOK'
  BY <1>21 DEF routingVars, RoutingTypeOK
<1>22. QED
  BY <1>1, <1>2, <1>3, <1>4, <1>5, <1>7, <1>8, <1>9, <1>10, <1>11, <1>13, <1>14, <1>15, <1>16,
     <1>17, <1>18, <1>19, <1>20, <1>21 DEF RoutingNext, CallStep, AdminStep

\* Every action preserves what the calls know.
LEMMA RoutingKeepsCalls ==
    RoutingTypeOK /\ CallsOK /\ [RoutingNext]_routingVars => CallsOK'
<1> SUFFICES ASSUME RoutingTypeOK, CallsOK, [RoutingNext]_routingVars PROVE CallsOK'
  OBVIOUS
<1> DEFINE Knows(f) == /\ f.pc = "idle" => f.left = {}
                       /\ f.pc # "idle" => f.model \in Models
                       /\ f.pc \notin {"idle", "pick"} =>
                             f.channel \in Channels /\ \A x \in f.left : x.id # f.channel
                       /\ \A x, y \in f.left : x.id = y.id => x = y
                       /\ f.pc = "failedWide" => f.wide /\ ~ f.probe
<1>a. \A k \in Calls : Knows(call[k])
  BY DEF CallsOK
<1>b. Knows(IdleCall)
  BY DEF IdleCall
<1>c. ASSUME NEW k \in Calls, NEW f, Knows(f), call' = [call EXCEPT ![k] = f] PROVE CallsOK'
  BY <1>a, <1>c DEF CallsOK, RoutingTypeOK
<1>d. ASSUME NEW k \in Calls PROVE DOMAIN call[k] = {"pc", "probe", "model", "left", "channel", "wide"}
  BY DEF RoutingTypeOK, CallFrame
<1>e. ASSUME NEW k \in Calls, Continue(k), call[k].pc # "idle" PROVE CallsOK'
  <2>1. CASE call' = [call EXCEPT ![k] = IdleCall]
    BY <1>b, <1>c, <2>1
  <2>2. CASE call' = [call EXCEPT ![k].pc = "pick"]
    <3>1. Knows([call[k] EXCEPT !.pc = "pick"])
      BY <1>a, <1>d, <1>e
    <3>2. call' = [call EXCEPT ![k] = [call[k] EXCEPT !.pc = "pick"]]
      BY <2>2 DEF RoutingTypeOK
    <3>3. QED
      BY <1>c, <3>1, <3>2
  <2>3. QED
    BY <1>e, <2>1, <2>2 DEF Continue
<1>1. ASSUME NEW k \in Calls, NEW m \in Models, NEW probe \in BOOLEAN, NEW grouped \in BOOLEAN,
             StartCall(k, m, probe, grouped)
      PROVE  CallsOK'
  <2>1. PICK left : /\ left = {[id |-> c, priority |-> channel[c].priority, weight |-> channel[c].weight] :
                                  c \in Candidates(m, grouped)}
                    /\ call' = [call EXCEPT ![k] = [IdleCall EXCEPT !.pc = "pick", !.probe = probe,
                                                       !.model = m, !.left = left]]
    BY <1>1 DEF StartCall
  <2>2. \A x, y \in left : x.id = y.id => x = y
    BY <2>1
  <2>3. Knows([IdleCall EXCEPT !.pc = "pick", !.probe = probe, !.model = m, !.left = left])
    BY <2>2 DEF IdleCall
  <2>4. QED
    BY <1>c, <2>1, <2>3
<1>2. ASSUME NEW k \in Calls, Attempt(k) PROVE CallsOK'
  <2>1. PICK x \in Pool(call[k].left) :
           call' = [call EXCEPT ![k].pc = "wait", ![k].channel = x.id, ![k].left = @ \ {x}]
    BY <1>2 DEF Attempt
  <2>2. x \in call[k].left /\ x.id \in Channels /\ call[k].pc # "idle"
    BY <1>2, <2>1, PoolIsLeft DEF RoutingTypeOK, CallFrame, Candidate, Attempt
  <2>3. call' = [call EXCEPT ![k] = [call[k] EXCEPT !.pc = "wait", !.channel = x.id, !.left = @ \ {x}]]
    BY <2>1 DEF RoutingTypeOK
  <2>4. Knows([call[k] EXCEPT !.pc = "wait", !.channel = x.id, !.left = @ \ {x}])
    BY <1>a, <1>d, <2>2
  <2>5. QED
    BY <1>c, <2>3, <2>4
<1>3. ASSUME NEW k \in Calls, NEW a \in {"ok", "wide", "model", "refused"}, Answer(k, a)
      PROVE  CallsOK'
  <2>1. CASE a = "refused" /\ ~ call[k].probe
    BY <1>3, <1>b, <1>c, <2>1 DEF Answer
  <2>2. CASE a = "ok"
    <3>1. Knows([call[k] EXCEPT !.pc = "ok"])
      BY <1>3, <1>a, <1>d DEF Answer
    <3>2. call' = [call EXCEPT ![k] = [call[k] EXCEPT !.pc = "ok"]]
      BY <1>3, <2>2 DEF Answer, RoutingTypeOK
    <3>3. QED
      BY <1>c, <3>1, <3>2
  <2>3. CASE ~ (a = "refused" /\ ~ call[k].probe) /\ a # "ok"
    <3>1. Knows([call[k] EXCEPT !.pc = "failed", !.wide = (a = "wide")])
      BY <1>3, <1>a, <1>d DEF Answer
    <3>2. call' = [call EXCEPT ![k] = [call[k] EXCEPT !.pc = "failed", !.wide = (a = "wide")]]
      BY <1>3, <2>3 DEF Answer, RoutingTypeOK
    <3>3. QED
      BY <1>c, <3>1, <3>2
  <2>4. QED
    BY <2>1, <2>2, <2>3
<1>4. ASSUME NEW k \in Calls, RecordChannelSuccess(k) PROVE CallsOK'
  <2>1. Knows([call[k] EXCEPT !.pc = "okModel"])
    BY <1>4, <1>a, <1>d DEF RecordChannelSuccess
  <2>2. call' = [call EXCEPT ![k] = [call[k] EXCEPT !.pc = "okModel"]]
    BY <1>4 DEF RecordChannelSuccess, RoutingTypeOK
  <2>3. QED
    BY <1>c, <2>1, <2>2
<1>5. ASSUME NEW k \in Calls, RecordChannelModelSuccess(k) \/ Abandon(k) PROVE CallsOK'
  BY <1>5, <1>b, <1>c DEF RecordChannelModelSuccess, Abandon
<1>6. ASSUME NEW k \in Calls, RecordChannelModelFailure(k) PROVE CallsOK'
  <2>1. CASE call[k].wide
    <3>1. Knows([call[k] EXCEPT !.pc = "failedWide"])
      BY <1>6, <1>a, <1>d, <2>1 DEF RecordChannelModelFailure
    <3>2. call' = [call EXCEPT ![k] = [call[k] EXCEPT !.pc = "failedWide"]]
      BY <1>6, <2>1 DEF RecordChannelModelFailure, RoutingTypeOK
    <3>3. QED
      BY <1>c, <3>1, <3>2
  <2>2. CASE ~ call[k].wide
    BY <1>6, <1>e, <2>2 DEF RecordChannelModelFailure
  <2>3. QED
    BY <2>1, <2>2
<1>7. ASSUME NEW k \in Calls, RecordChannelFailure(k) \/ RecordProbe(k) PROVE CallsOK'
  BY <1>7, <1>e DEF RecordChannelFailure, RecordProbe
<1>8. CASE UNCHANGED call
  BY <1>8, <1>a DEF CallsOK
<1>9. QED
  BY <1>1, <1>2, <1>3, <1>4, <1>5, <1>6, <1>7, <1>8
     DEF RoutingNext, CallStep, AdminStep, TickCircuits, CreateChannel, UpdateChannel, SetChannelStatus,
         ResetRoutes, DeleteChannel, UpdateGroup, BindToken, DeleteGroup, routingVars

\* Every action preserves what the columns of a route say about each other.
LEMMA RoutingKeepsRoutes ==
    RoutingTypeOK /\ CallsOK /\ RoutesOK /\ [RoutingNext]_routingVars => RoutesOK'
<1> SUFFICES ASSUME RoutingTypeOK, CallsOK, RoutesOK, [RoutingNext]_routingVars PROVE RoutesOK'
  OBVIOUS
<1> DEFINE Sound(row) == /\ row.openFor > 0 => row.health = "unavailable"
                         /\ row.health = "unavailable" <=> row.failures >= FailureThreshold
                         /\ row.enabled => row.exists
<1>a. \A cm \in Channels \X Models : route[cm] \in RouteRow /\ Sound(route[cm])
  BY DEF RoutesOK, RoutingTypeOK
<1>b. ASSUME \A cm \in Channels \X Models : route'[cm] = route[cm] \/ Sound(route'[cm]) PROVE RoutesOK'
  BY <1>a, <1>b DEF RoutesOK
<1>c. FailureThreshold \in Nat \ {0} /\ CircuitDuration \in Nat \ {0}
  BY RoutingAssumption
<1>d. ASSUME NEW exists, NEW enabled, enabled => exists
      PROVE  Sound([NoRoute EXCEPT !.exists = exists, !.enabled = enabled])
  BY <1>c, <1>d DEF NoRoute
<1>1. ASSUME NEW k \in Calls, RecordChannelModelSuccess(k) PROVE RoutesOK'
  <2>1. ASSUME NEW cm \in Channels \X Models PROVE route'[cm] = route[cm] \/ Sound(route'[cm])
    <3> DEFINE served == <<call[k].channel, call[k].model>>
               row    == [route[served] EXCEPT !.failures = 0, !.openFor = 0, !.health = "normal"]
    <3>1. served \in Channels \X Models
      BY <1>1 DEF RecordChannelModelSuccess, CallsOK
    <3>2. Sound(row)
      BY <1>a, <1>c, <3>1 DEF RouteRow
    <3>3. route' = route \/ route' = [route EXCEPT ![served] = row]
      <4>1. \/ route' = route
            \/ route' = [route EXCEPT ![served].failures = 0, ![served].openFor = 0, ![served].health = "normal"]
        BY <1>1 DEF RecordChannelModelSuccess
      <4>2. [route EXCEPT ![served].failures = 0, ![served].openFor = 0, ![served].health = "normal"]
               = [route EXCEPT ![served] = row]
        BY <3>1 DEF RoutingTypeOK
      <4>3. QED
        BY <4>1, <4>2
    <3> HIDE DEF served, row
    <3>4. route'[cm] = route[cm] \/ route'[cm] = row
      BY <3>3 DEF RoutingTypeOK
    <3>5. QED
      BY <3>2, <3>4
  <2>2. QED
    BY <1>b, <2>1
<1>2. ASSUME NEW k \in Calls, RecordChannelModelFailure(k) PROVE RoutesOK'
  <2> DEFINE failed == <<call[k].channel, call[k].model>>
  <2>0. failed \in Channels \X Models
    BY <1>2 DEF RecordChannelModelFailure, CallsOK
  <2>1. ASSUME NEW cm \in Channels \X Models PROVE route'[cm] = route[cm] \/ Sound(route'[cm])
    <3>1. CASE cm # failed \/ ~ route[failed].exists
      BY <1>2, <2>0, <3>1 DEF RecordChannelModelFailure, RoutingTypeOK
    <3>2. CASE cm = failed /\ route[failed].exists
      <4> DEFINE n == OneMore(route[failed].failures)
      <4>1. n \in 0 .. FailureThreshold
        BY <1>a, <2>0, OneMoreBounded DEF RouteRow
      <4>2. route' = [route EXCEPT ![failed] = [route[failed] EXCEPT !.failures = n,
                         !.openFor = IF n >= FailureThreshold THEN CircuitDuration ELSE @,
                         !.health = IF n >= FailureThreshold THEN "unavailable" ELSE "degraded"]]
        BY <1>2, <2>0, <3>2 DEF RecordChannelModelFailure, RoutingTypeOK
      <4>3. route[failed].openFor > 0 => n >= FailureThreshold
        BY <1>a, <1>c, <2>0 DEF OneMore, RouteRow
      <4> HIDE DEF n
      <4>4. Sound([route[failed] EXCEPT !.failures = n,
                         !.openFor = IF n >= FailureThreshold THEN CircuitDuration ELSE @,
                         !.health = IF n >= FailureThreshold THEN "unavailable" ELSE "degraded"])
        BY <1>a, <1>c, <2>0, <4>1, <4>3 DEF RouteRow
      <4>5. QED
        BY <2>0, <3>2, <4>2, <4>4 DEF RoutingTypeOK
    <3>3. QED
      BY <3>1, <3>2
  <2>2. QED
    BY <1>b, <2>1
<1>3. ASSUME NEW k \in Calls, RecordProbe(k) PROVE RoutesOK'
  <2> DEFINE probed == <<call[k].channel, call[k].model>>
  <2>0. probed \in Channels \X Models
    BY <1>3 DEF RecordProbe, CallsOK
  <2>1. ASSUME NEW cm \in Channels \X Models
        PROVE  /\ route'[cm].openFor = route[cm].openFor /\ route'[cm].health = route[cm].health
               /\ route'[cm].failures = route[cm].failures
               /\ route'[cm].enabled = route[cm].enabled /\ route'[cm].exists = route[cm].exists
    BY <1>3, <1>a, <2>0 DEF RecordProbe, RoutingTypeOK, RouteRow
  <2>2. QED
    BY <1>a, <2>1 DEF RoutesOK
<1>4. ASSUME TickCircuits PROVE RoutesOK'
  <2>1. ASSUME NEW cm \in Channels \X Models PROVE route'[cm] = route[cm] \/ Sound(route'[cm])
    BY <1>4, <1>a DEF TickCircuits, RouteRow
  <2>2. QED
    BY <1>b, <2>1
<1>5. ASSUME NEW c \in Channels, NEW listed, NEW on \in SUBSET listed, route' = Rows(c, listed, on)
      PROVE  RoutesOK'
  <2>1. ASSUME NEW cm \in Channels \X Models PROVE route'[cm] = route[cm] \/ Sound(route'[cm])
    <3>1. Sound([NoRoute EXCEPT !.exists = cm[2] \in listed, !.enabled = cm[2] \in on])
      BY <1>d, <1>5
    <3>2. \/ route'[cm] = route[cm]
          \/ route'[cm] = [NoRoute EXCEPT !.exists = cm[2] \in listed, !.enabled = cm[2] \in on]
      BY <1>5 DEF Rows
    <3>3. QED
      BY <3>1, <3>2
  <2>2. QED
    BY <1>b, <2>1
<1>6. ASSUME NEW c \in Channels, ResetRoutes(c) PROVE RoutesOK'
  <2>1. ASSUME NEW cm \in Channels \X Models PROVE route'[cm] = route[cm] \/ Sound(route'[cm])
    <3>1. Sound([NoRoute EXCEPT !.exists = TRUE, !.enabled = route[cm].enabled])
      BY <1>d
    <3>2. \/ route'[cm] = route[cm]
          \/ route'[cm] = [NoRoute EXCEPT !.exists = TRUE, !.enabled = route[cm].enabled]
      BY <1>6 DEF ResetRoutes
    <3>3. QED
      BY <3>1, <3>2
  <2>2. QED
    BY <1>b, <2>1
<1>7. CASE UNCHANGED route
  BY <1>7, <1>a DEF RoutesOK
<1>8. QED
  BY <1>1, <1>2, <1>3, <1>4, <1>5, <1>6, <1>7
     DEF RoutingNext, CallStep, AdminStep, StartCall, Attempt, Answer, RecordChannelSuccess,
         RecordChannelFailure, Abandon, CreateChannel, UpdateChannel, SetChannelStatus, DeleteChannel,
         UpdateGroup, BindToken, DeleteGroup, routingVars

\* Every action preserves what the circuit of a channel has counted.
LEMMA RoutingKeepsChannels ==
    RoutingInv /\ [RoutingNext]_routingVars => ChannelsOK'
<1> SUFFICES ASSUME RoutingInv, [RoutingNext]_routingVars PROVE ChannelsOK'
  OBVIOUS
<1>a. RoutingTypeOK /\ CallsOK /\ ChannelsOK
  BY DEF RoutingInv
<1>b. /\ FailureThreshold \in Nat \ {0} /\ CircuitDuration \in Nat \ {0}
      /\ Cardinality(Calls) \in Nat
  BY RoutingAssumption, CallSets
<1>c. \A c \in Channels : /\ channel[c] \in ChannelRow /\ wide[c] \in Nat /\ late[c] \in Nat
                          /\ ChannelOK(c)
                          /\ Cardinality(Failing(c)) \in Nat /\ Cardinality(MayTry(c)) \in Nat
  BY <1>a, CallSets DEF RoutingTypeOK, ChannelsOK
\* A step that changes no counter of c, and adds no call that has failed or may
\* try c, preserves what is counted.
<1>d. ASSUME NEW c \in Channels, wide'[c] = wide[c], late'[c] = late[c],
             channel'[c].failures = channel[c].failures, channel'[c].openFor = channel[c].openFor,
             channel'[c].status = "none" => channel[c].status = "none",
             Failing(c)' \subseteq Failing(c), MayTry(c)' \subseteq MayTry(c) \/ channel[c].openFor = 0
      PROVE  ChannelOK(c)'
  <2>1. Cardinality(Failing(c)') <= Cardinality(Failing(c)) /\ Cardinality(Failing(c)') \in Nat
    BY <1>d, CallSets, CountAfterChange
  <2>2. MayTry(c)' \subseteq MayTry(c) =>
           Cardinality(MayTry(c)') <= Cardinality(MayTry(c)) /\ Cardinality(MayTry(c)') \in Nat
    BY CallSets, CountAfterChange
  <2>3. QED
    BY <1>b, <1>c, <1>d, <2>1, <2>2 DEF ChannelOK, ChannelRow
\* A channel whose counters are reset counts anew.
<1>e. ASSUME NEW c \in Channels, channel'[c].failures = 0, channel'[c].openFor = 0, late'[c] = 0,
             wide'[c] >= Cardinality(Failing(c)'), wide'[c] \in Nat
      PROVE  ChannelOK(c)'
  <2>1. Failing(c)' \subseteq Calls
    BY DEF Failing
  <2>2. Cardinality(Failing(c)') \in Nat
    BY <2>1, RoutingAssumption, FS_Subset, FS_CardinalityType
  <2>3. QED
    BY <1>b, <1>e, <2>2 DEF ChannelOK
<1>f. ASSUME UNCHANGED call PROVE \A c : Failing(c)' = Failing(c) /\ MayTry(c)' = MayTry(c)
  BY <1>f DEF Failing, MayTry
<1>g. ASSUME NEW k \in Calls, Continue(k)
      PROVE  \A c : Failing(c)' \subseteq Failing(c) \ {k} /\ MayTry(c)' \subseteq MayTry(c)
  BY <1>a, <1>g DEF Continue, Failing, MayTry, RoutingTypeOK, CallFrame, IdleCall
<1>h. ASSUME NEW k \in Calls, call' = [call EXCEPT ![k] = IdleCall]
      PROVE  \A c : Failing(c)' \subseteq Failing(c) \ {k} /\ MayTry(c)' \subseteq MayTry(c)
  BY <1>a, <1>h DEF Failing, MayTry, RoutingTypeOK, CallFrame, IdleCall
<1>1. ASSUME NEW k \in Calls, NEW m \in Models, NEW probe \in BOOLEAN, NEW grouped \in BOOLEAN,
             StartCall(k, m, probe, grouped)
      PROVE  ChannelsOK'
  <2>1. PICK left : /\ left = {[id |-> c, priority |-> channel[c].priority, weight |-> channel[c].weight] :
                                  c \in Candidates(m, grouped)}
                    /\ call' = [call EXCEPT ![k] = [IdleCall EXCEPT !.pc = "pick", !.probe = probe,
                                                       !.model = m, !.left = left]]
    BY <1>1 DEF StartCall
  <2>2. \A x \in left : channel[x.id].openFor = 0
    BY <2>1, CandidatesAreClosed
  <2>3. \A i \in Calls \ {k} : call'[i] = call[i]
    BY <1>a, <2>1 DEF RoutingTypeOK
  <2>4. call'[k].pc = "pick" /\ call'[k].left = left
    BY <1>a, <2>1 DEF RoutingTypeOK, IdleCall
  <2>5. ASSUME NEW c \in Channels PROVE ChannelOK(c)'
    <3>1. Failing(c)' \subseteq Failing(c)
      BY <2>3, <2>4 DEF Failing
    <3>2. MayTry(c)' \subseteq MayTry(c) \/ channel[c].openFor = 0
      BY <2>2, <2>3, <2>4 DEF MayTry
    <3>3. QED
      BY <1>1, <1>d, <3>1, <3>2 DEF StartCall
  <2>6. QED
    BY <2>5 DEF ChannelsOK
<1>2. ASSUME NEW k \in Calls, Attempt(k) PROVE ChannelsOK'
  <2>1. PICK x \in Pool(call[k].left) :
           /\ call' = [call EXCEPT ![k].pc = "wait", ![k].channel = x.id, ![k].left = @ \ {x}]
           /\ late' = IF channel[x.id].openFor > 0 THEN [late EXCEPT ![x.id] = @ + 1] ELSE late
    BY <1>2 DEF Attempt
  <2>2. x \in call[k].left /\ x.id \in Channels
    BY <1>a, <2>1, PoolIsLeft DEF RoutingTypeOK, CallFrame, Candidate
  <2>3. /\ \A i \in Calls \ {k} : call'[i] = call[i]
        /\ call'[k].pc = "wait" /\ call'[k].left = call[k].left \ {x}
    BY <1>a, <2>1 DEF RoutingTypeOK, CallFrame
  <2>4. \A c : Failing(c)' \subseteq Failing(c) /\ MayTry(c)' \subseteq MayTry(c)
    BY <2>3 DEF Failing, MayTry
  <2>5. MayTry(x.id)' \subseteq MayTry(x.id) \ {k} /\ k \in MayTry(x.id)
    BY <1>a, <2>2, <2>3 DEF MayTry, CallsOK
  <2>6. ASSUME NEW c \in Channels PROVE ChannelOK(c)'
    <3>1. channel' = channel /\ wide' = wide
      BY <1>2 DEF Attempt
    <3>2. CASE c # x.id \/ channel[c].openFor = 0
      <4>1. late'[c] = late[c]
        BY <1>a, <1>c, <2>1, <2>2, <3>2 DEF RoutingTypeOK, ChannelRow
      <4>2. QED
        BY <1>d, <2>4, <3>1, <4>1
    <3>3. CASE c = x.id /\ channel[c].openFor > 0
      <4>1. late'[c] = late[c] + 1
        BY <1>a, <2>1, <3>3 DEF RoutingTypeOK
      <4>2. Cardinality(MayTry(c)') + 1 <= Cardinality(MayTry(c)) /\ Cardinality(MayTry(c)') \in Nat
        BY <2>5, <3>3, CallSets, CountAfterChange
      <4>3. Cardinality(Failing(c)') <= Cardinality(Failing(c)) /\ Cardinality(Failing(c)') \in Nat
        BY <2>4, CallSets, CountAfterChange
      <4>4. QED
        BY <1>b, <1>c, <3>1, <3>3, <4>1, <4>2, <4>3 DEF ChannelOK, ChannelRow
    <3>4. QED
      BY <1>c, <3>2, <3>3 DEF ChannelRow
  <2>7. QED
    BY <2>6 DEF ChannelsOK
<1>3. ASSUME NEW k \in Calls, NEW a \in {"ok", "wide", "model", "refused"}, Answer(k, a)
      PROVE  ChannelsOK'
  <2>1. call[k].pc = "wait" /\ call[k].channel \in Channels
    BY <1>3, <1>a DEF Answer, CallsOK
  <2>2. \A i \in Calls \ {k} : call'[i] = call[i]
    BY <1>3, <1>a DEF Answer, RoutingTypeOK
  <2>3. /\ call'[k].left \subseteq call[k].left
        /\ call'[k].pc \in {"failed", "failedWide"} =>
              /\ call'[k].channel = call[k].channel /\ call'[k].probe = call[k].probe
              /\ call'[k].wide = (a = "wide")
    <3>1. CASE a = "refused" /\ ~ call[k].probe
      BY <1>3, <1>a, <3>1 DEF Answer, RoutingTypeOK, IdleCall
    <3>2. CASE a = "ok"
      BY <1>3, <1>a, <3>2 DEF Answer, RoutingTypeOK, CallFrame
    <3>3. CASE ~ (a = "refused" /\ ~ call[k].probe) /\ a # "ok"
      BY <1>3, <1>a, <3>3 DEF Answer, RoutingTypeOK, CallFrame
    <3>4. QED
      BY <3>1, <3>2, <3>3
  <2>4. \A c : MayTry(c)' \subseteq MayTry(c)
    BY <2>2, <2>3 DEF MayTry
  <2>5. channel' = channel /\ late' = late
    BY <1>3 DEF Answer
  <2>6. ASSUME NEW c \in Channels PROVE ChannelOK(c)'
    <3>1. CASE a = "wide" /\ ~ call[k].probe /\ c = call[k].channel
      <4>1. wide'[c] = OneMore(wide[c])
        BY <1>3, <1>a, <3>1 DEF Answer, RoutingTypeOK
      <4>2. wide'[c] >= FailureThreshold \/ wide'[c] = wide[c] + 1
        BY <1>b, <1>c, <4>1 DEF OneMore
      <4>3. Failing(c)' \subseteq Failing(c) \cup {k}
        BY <2>2 DEF Failing
      <4>4. Cardinality(Failing(c)') <= Cardinality(Failing(c)) + 1 /\ Cardinality(Failing(c)') \in Nat
        BY <4>3, CallSets, CountAfterChange
      <4>5. Cardinality(MayTry(c)') <= Cardinality(MayTry(c)) /\ Cardinality(MayTry(c)') \in Nat
        BY <2>4, CallSets, CountAfterChange
      <4>6. wide[c] >= FailureThreshold => wide'[c] >= FailureThreshold
        BY <1>b, <1>c, <4>1 DEF OneMore
      <4>7. QED
        BY <1>b, <1>c, <2>5, <4>2, <4>4, <4>5, <4>6 DEF ChannelOK, ChannelRow
    <3>2. CASE ~ (a = "wide" /\ ~ call[k].probe /\ c = call[k].channel)
      <4>1. wide'[c] = wide[c]
        BY <1>3, <1>a, <2>1, <3>2 DEF Answer, RoutingTypeOK
      <4>2. Failing(c)' \subseteq Failing(c)
        BY <2>2, <2>3, <3>2 DEF Failing
      <4>3. QED
        BY <1>d, <2>4, <2>5, <4>1, <4>2
    <3>3. QED
      BY <3>1, <3>2
  <2>7. QED
    BY <2>6 DEF ChannelsOK
<1>4. ASSUME NEW k \in Calls, RecordChannelSuccess(k) PROVE ChannelsOK'
  <2>1. call[k].channel \in Channels
    BY <1>4, <1>a DEF RecordChannelSuccess, CallsOK
  <2>2. \A i \in Calls \ {k} : call'[i] = call[i]
    BY <1>4, <1>a DEF RecordChannelSuccess, RoutingTypeOK
  <2>3. call'[k].pc = "okModel" /\ call'[k].left = call[k].left
    BY <1>4, <1>a DEF RecordChannelSuccess, RoutingTypeOK, CallFrame
  <2>4. \A c : Failing(c)' \subseteq Failing(c) \ {k} /\ MayTry(c)' \subseteq MayTry(c)
    BY <2>2, <2>3 DEF Failing, MayTry
  <2>5. ASSUME NEW c \in Channels PROVE ChannelOK(c)'
    <3>1. CASE c = call[k].channel /\ Exists(c)
      <4>1. channel'[c].failures = 0 /\ channel'[c].openFor = 0
        BY <1>4, <1>a, <3>1 DEF RecordChannelSuccess, RoutingTypeOK, ChannelRow
      <4>2. late'[c] = 0
        BY <1>4, <1>a, <3>1, <4>1 DEF RecordChannelSuccess, LateAfter, RoutingTypeOK
      <4>3. wide'[c] = Cardinality(Failing(c) \ {k})
        BY <1>4, <1>a, <3>1, CallSets DEF RecordChannelSuccess, RoutingTypeOK
      <4>4. IsFiniteSet(Failing(c) \ {k}) /\ Cardinality(Failing(c) \ {k}) \in Nat
        BY CallSets, FS_RemoveElement, FS_CardinalityType
      <4>5. Cardinality(Failing(c)') <= Cardinality(Failing(c) \ {k})
        BY <2>4, <4>4, FS_Subset
      <4>6. QED
        BY <1>e, <4>1, <4>2, <4>3, <4>4, <4>5
    <3>2. CASE c # call[k].channel \/ ~ Exists(c)
      <4>1. channel'[c] = channel[c] /\ wide'[c] = wide[c]
        BY <1>4, <1>a, <2>1, <3>2 DEF RecordChannelSuccess, RoutingTypeOK
      <4>2. late'[c] = late[c]
        BY <1>4, <1>a, <1>c, <2>1, <3>2, <4>1 DEF RecordChannelSuccess, LateAfter, RoutingTypeOK, ChannelOK
      <4>3. QED
        BY <1>d, <2>4, <4>1, <4>2
    <3>3. QED
      BY <3>1, <3>2
  <2>6. QED
    BY <2>5 DEF ChannelsOK
<1>5. ASSUME NEW k \in Calls, RecordChannelModelSuccess(k) \/ Abandon(k) \/ RecordProbe(k) PROVE ChannelsOK'
  <2>1. \A c : Failing(c)' \subseteq Failing(c) /\ MayTry(c)' \subseteq MayTry(c)
    BY <1>5, <1>g, <1>h DEF RecordChannelModelSuccess, Abandon, RecordProbe
  <2>2. UNCHANGED <<channel, wide, late>>
    BY <1>5 DEF RecordChannelModelSuccess, Abandon, RecordProbe
  <2>3. QED
    BY <1>d, <2>1, <2>2 DEF ChannelsOK
<1>6. ASSUME NEW k \in Calls, RecordChannelModelFailure(k) PROVE ChannelsOK'
  <2>1. \A c : Failing(c)' \subseteq Failing(c) /\ MayTry(c)' \subseteq MayTry(c)
    <3>1. CASE call[k].wide
      <4>1. /\ \A i \in Calls \ {k} : call'[i] = call[i]
            /\ call'[k].pc = "failedWide" /\ call'[k].left = call[k].left /\ call'[k].wide = call[k].wide
            /\ call'[k].probe = call[k].probe /\ call'[k].channel = call[k].channel
        BY <1>6, <1>a, <3>1 DEF RecordChannelModelFailure, RoutingTypeOK, CallFrame
      <4>2. call[k].pc = "failed"
        BY <1>6 DEF RecordChannelModelFailure
      <4>3. QED
        BY <4>1, <4>2 DEF Failing, MayTry
    <3>2. CASE ~ call[k].wide
      BY <1>6, <1>g, <3>2 DEF RecordChannelModelFailure
    <3>3. QED
      BY <3>1, <3>2
  <2>2. UNCHANGED <<channel, wide, late>>
    BY <1>6 DEF RecordChannelModelFailure
  <2>3. QED
    BY <1>d, <2>1, <2>2 DEF ChannelsOK
\* A failure that is recorded was counted, and the call that records it does not
\* try the channel again.
<1>7. ASSUME NEW k \in Calls, RecordChannelFailure(k) PROVE ChannelsOK'
  <2>1. call[k].channel \in Channels /\ k \in Failing(call[k].channel) /\ k \notin MayTry(call[k].channel)
    BY <1>7, <1>a DEF RecordChannelFailure, CallsOK, Failing, MayTry
  <2>2. \A c : Failing(c)' \subseteq Failing(c) \ {k} /\ MayTry(c)' \subseteq MayTry(c)
    BY <1>7, <1>g DEF RecordChannelFailure
  <2>3. UNCHANGED <<wide, late>>
    BY <1>7 DEF RecordChannelFailure
  <2>4. ASSUME NEW c \in Channels PROVE ChannelOK(c)'
    <3>1. CASE c # call[k].channel \/ ~ Exists(c)
      <4>1. channel'[c] = channel[c]
        BY <1>7, <1>a, <2>1, <3>1 DEF RecordChannelFailure, RoutingTypeOK
      <4>2. QED
        BY <1>d, <2>2, <2>3, <4>1
    <3>2. CASE c = call[k].channel /\ Exists(c)
      <4> DEFINE n == OneMore(channel[c].failures)
      <4>1. /\ channel'[c].failures = n
            /\ channel'[c].openFor = IF n >= FailureThreshold THEN CircuitDuration ELSE channel[c].openFor
            /\ channel'[c].status = channel[c].status
        BY <1>7, <1>a, <3>2 DEF RecordChannelFailure, RoutingTypeOK, ChannelRow
      <4>2. n \in 0 .. FailureThreshold /\ n <= channel[c].failures + 1
        BY <1>c, OneMoreBounded DEF ChannelRow
      <4>3. Cardinality(Failing(c)') + 1 <= Cardinality(Failing(c)) /\ Cardinality(Failing(c)') \in Nat
        <5>1. Failing(c)' \subseteq Failing(c) \ {k} /\ k \in Failing(c) /\ IsFiniteSet(Failing(c))
          BY <2>1, <2>2, <3>2, CallSets
        <5>2. QED
          BY <5>1, CountAfterChange
      <4>4. Cardinality(MayTry(c)') <= Cardinality(MayTry(c)) /\ Cardinality(MayTry(c)') \in Nat
        BY <2>2, CallSets, CountAfterChange
      <4>5. Cardinality(MayTry(c)) + 1 <= Cardinality(Calls)
        <5>1. MayTry(c) \subseteq Calls \ {k}
          BY <2>1, <3>2 DEF MayTry
        <5>2. QED
          BY <5>1, RoutingAssumption, CountAfterChange
      <4> HIDE DEF n
      <4>6. wide'[c] >= FailureThreshold \/ n + Cardinality(Failing(c)') <= wide'[c]
        BY <1>b, <1>c, <2>3, <4>2, <4>3 DEF ChannelOK, ChannelRow
      <4>7. n >= FailureThreshold => wide'[c] >= FailureThreshold
        BY <1>b, <1>c, <2>3, <4>2, <4>3, <4>6
      <4>8. CASE n >= FailureThreshold
        BY <1>b, <1>c, <2>3, <3>2, <4>1, <4>4, <4>5, <4>6, <4>7, <4>8 DEF ChannelOK, ChannelRow, Exists
      <4>9. CASE ~ n >= FailureThreshold
        BY <1>b, <1>c, <2>3, <3>2, <4>1, <4>4, <4>6, <4>9 DEF ChannelOK, ChannelRow, Exists
      <4>10. QED
        BY <4>8, <4>9
    <3>3. QED
      BY <3>1, <3>2
  <2>5. QED
    BY <2>4 DEF ChannelsOK
<1>8. ASSUME TickCircuits PROVE ChannelsOK'
  <2>1. \A c \in Channels : /\ channel'[c].failures = channel[c].failures
                            /\ channel'[c].status = channel[c].status
                            /\ channel'[c].openFor \in Nat /\ channel'[c].openFor <= channel[c].openFor
                            /\ late'[c] = IF channel'[c].openFor = 0 THEN 0 ELSE late[c]
    BY <1>8, <1>c DEF TickCircuits, ChannelRow
  <2>2. UNCHANGED <<call, wide>>
    BY <1>8 DEF TickCircuits
  <2>3. \A c : Failing(c)' = Failing(c) /\ MayTry(c)' = MayTry(c)
    BY <1>f, <2>2
  <2>4. ASSUME NEW c \in Channels PROVE ChannelOK(c)'
    BY <1>b, <1>c, <2>1, <2>2, <2>3 DEF ChannelOK, ChannelRow
  <2>5. QED
    BY <2>4 DEF ChannelsOK
<1>9. ASSUME NEW c \in Channels, NEW x \in Settings, NEW listed, NEW on, CreateChannel(c, x, listed, on)
      PROVE  ChannelsOK'
  <2>1. UNCHANGED <<call, wide, late>>
    BY <1>9 DEF CreateChannel
  <2>2. ASSUME NEW d \in Channels PROVE ChannelOK(d)'
    <3>1. Failing(d)' = Failing(d) /\ MayTry(d)' = MayTry(d)
      BY <1>f, <2>1
    <3>2. CASE d # c
      BY <1>9, <1>a, <1>d, <2>1, <3>1, <3>2 DEF CreateChannel, RoutingTypeOK
    <3>3. CASE d = c
      <4>1. channel'[d].failures = 0 /\ channel'[d].openFor = 0 /\ channel[d].openFor = 0
        BY <1>9, <1>a, <1>c, <3>3 DEF CreateChannel, RoutingTypeOK, Row, ChannelOK
      <4>2. QED
        BY <1>b, <1>c, <2>1, <3>1, <4>1 DEF ChannelOK, ChannelRow
    <3>4. QED
      BY <3>2, <3>3
  <2>3. QED
    BY <2>2 DEF ChannelsOK
\* UpdateChannel and SetChannelStatus: a channel that becomes active starts anew.
<1>10. ASSUME NEW c \in Channels, NEW s \in {"active", "disabled"}, UNCHANGED call,
              wide' = IF s = "active" THEN [wide EXCEPT ![c] = PendingWide(c, None)] ELSE wide,
              late' = LateAfter(c),
              \A d \in Channels \ {c} : channel'[d] = channel[d],
              channel'[c].status = s,
              channel'[c].failures = IF s = "active" THEN 0 ELSE channel[c].failures,
              channel'[c].openFor  = IF s = "active" THEN 0 ELSE channel[c].openFor
       PROVE  ChannelsOK'
  <2>1. ASSUME NEW d \in Channels PROVE ChannelOK(d)'
    <3>1. Failing(d)' = Failing(d) /\ MayTry(d)' = MayTry(d)
      BY <1>f, <1>10
    <3>2. CASE d # c
      <4>1. wide'[d] = wide[d] /\ late'[d] = late[d]
        BY <1>10, <1>a, <3>2 DEF LateAfter, RoutingTypeOK
      <4>2. QED
        BY <1>10, <1>d, <3>1, <3>2, <4>1
    <3>3. CASE d = c /\ s = "active"
      <4>1. wide'[c] = Cardinality(Failing(c)) /\ late'[c] = 0
        BY <1>10, <1>a, <3>3, CallSets DEF LateAfter, RoutingTypeOK
      <4>2. QED
        BY <1>10, <1>c, <1>e, <3>1, <3>3, <4>1
    <3>4. CASE d = c /\ s # "active"
      <4>1. wide'[c] = wide[c] /\ late'[c] = late[c]
        BY <1>10, <1>a, <1>c, <3>4 DEF LateAfter, RoutingTypeOK, ChannelOK
      <4>2. QED
        BY <1>10, <1>d, <3>1, <3>4, <4>1
    <3>5. QED
      BY <3>2, <3>3, <3>4
  <2>2. QED
    BY <2>1 DEF ChannelsOK
<1>11. ASSUME NEW c \in Channels, NEW x \in Settings, NEW listed, NEW on, UpdateChannel(c, x, listed, on)
       PROVE  ChannelsOK'
  <2>1. x.status \in {"active", "disabled"}
    BY RoutingAssumption
  <2>2. /\ channel'[c].status = x.status
        /\ channel'[c].failures = IF x.status = "active" THEN 0 ELSE channel[c].failures
        /\ channel'[c].openFor  = IF x.status = "active" THEN 0 ELSE channel[c].openFor
        /\ \A d \in Channels \ {c} : channel'[d] = channel[d]
    BY <1>11, <1>a DEF UpdateChannel, RoutingTypeOK, Row
  <2>3. QED
    BY <1>11, <1>10, <2>1, <2>2 DEF UpdateChannel
<1>12. ASSUME NEW c \in Channels, NEW s \in {"active", "disabled"}, SetChannelStatus(c, s)
       PROVE  ChannelsOK'
  <2>1. channel[c] \in ChannelRow
    BY <1>c
  <2>2. /\ channel'[c].status = s
        /\ channel'[c].failures = IF s = "active" THEN 0 ELSE channel[c].failures
        /\ channel'[c].openFor  = IF s = "active" THEN 0 ELSE channel[c].openFor
        /\ \A d \in Channels \ {c} : channel'[d] = channel[d]
    BY <1>12, <1>a, <2>1 DEF SetChannelStatus, RoutingTypeOK, ChannelRow
  <2>3. QED
    BY <1>12, <1>10, <2>2 DEF SetChannelStatus
<1>13. ASSUME NEW c \in Channels, DeleteChannel(c) PROVE ChannelsOK'
  <2>1. \A d \in Channels : /\ channel'[d].failures = channel[d].failures
                            /\ channel'[d].openFor = channel[d].openFor
                            /\ channel'[d].status = "none" => channel[d].status = "none"
    BY <1>13, <1>a DEF DeleteChannel, RoutingTypeOK, ChannelRow
  <2>2. UNCHANGED <<call, wide, late>>
    BY <1>13 DEF DeleteChannel
  <2>3. QED
    BY <1>d, <1>f, <2>1, <2>2 DEF ChannelsOK
<1>14. CASE UNCHANGED <<channel, call, wide, late>>
  BY <1>14, <1>d, <1>f DEF ChannelsOK
<1>15. QED
  BY <1>1, <1>2, <1>3, <1>4, <1>5, <1>6, <1>7, <1>8, <1>9, <1>11, <1>12, <1>13, <1>14
     DEF RoutingNext, CallStep, AdminStep, ResetRoutes, UpdateGroup, BindToken, DeleteGroup, routingVars

\* No action takes a channel its provider.
LEMMA RoutingKeepsProviders ==
    RoutingTypeOK /\ CallsOK /\ ProvidersOK /\ [RoutingNext]_routingVars => ProvidersOK'
<1> SUFFICES ASSUME RoutingTypeOK, CallsOK, ProvidersOK, [RoutingNext]_routingVars PROVE ProvidersOK'
  OBVIOUS
<1>a. channel \in [Channels -> ChannelRow] /\ \A c \in Channels : channel[c] \in ChannelRow
  BY DEF RoutingTypeOK
<1>b. ASSUME \A c \in Channels : channel'[c].provider = channel[c].provider /\ (Exists(c)' => Exists(c))
      PROVE  ProvidersOK'
  BY <1>b DEF ProvidersOK
<1>1. ASSUME NEW c \in Channels, NEW x \in Settings, channel' = [channel EXCEPT ![c] = Row(x, 0, 0)]
      PROVE  ProvidersOK'
  BY <1>1, <1>a, RoutingAssumption DEF ProvidersOK, Row, Exists
<1>2. ASSUME NEW c \in Channels, NEW x \in Settings, NEW listed, NEW on, UpdateChannel(c, x, listed, on)
      PROVE  ProvidersOK'
  <2>1. PICK n, t : channel' = [channel EXCEPT ![c] = Row(x, n, t)]
    BY <1>2 DEF UpdateChannel
  <2>2. QED
    BY <2>1, <1>a, RoutingAssumption DEF ProvidersOK, Row, Exists
<1>3. ASSUME NEW k \in Calls, RecordChannelSuccess(k) PROVE ProvidersOK'
  <2>1. call[k].channel \in Channels
    BY <1>3 DEF RecordChannelSuccess, CallsOK
  <2>2. QED
    BY <1>3, <1>a, <1>b, <2>1 DEF RecordChannelSuccess, ChannelRow, Exists
<1>4. ASSUME NEW k \in Calls, RecordChannelFailure(k) PROVE ProvidersOK'
  <2>1. call[k].channel \in Channels
    BY <1>4 DEF RecordChannelFailure, CallsOK
  <2>2. QED
    BY <1>4, <1>a, <1>b, <2>1 DEF RecordChannelFailure, ChannelRow, Exists
<1>5. ASSUME TickCircuits PROVE ProvidersOK'
  BY <1>5, <1>a, <1>b DEF TickCircuits, ChannelRow, Exists
<1>6. ASSUME NEW c \in Channels, NEW s \in {"active", "disabled"}, SetChannelStatus(c, s)
      PROVE  ProvidersOK'
  BY <1>6, <1>a, <1>b DEF SetChannelStatus, ChannelRow, Exists
<1>7. ASSUME NEW c \in Channels, DeleteChannel(c) PROVE ProvidersOK'
  BY <1>7, <1>a, <1>b DEF DeleteChannel, ChannelRow, Exists
<1>8. CASE UNCHANGED channel
  BY <1>8, <1>b DEF Exists
<1>9. QED
  BY <1>1, <1>2, <1>3, <1>4, <1>5, <1>6, <1>7, <1>8
     DEF RoutingNext, CallStep, AdminStep, StartCall, Attempt, Answer, RecordChannelModelSuccess,
         RecordChannelModelFailure, RecordProbe, Abandon, CreateChannel, ResetRoutes, UpdateGroup,
         BindToken, DeleteGroup, routingVars

\* The inductive invariant holds of every state that the routing can reach.
THEOREM RoutingInvariant == RoutingSpec => []RoutingInv
<1>1. RoutingInit => RoutingInv
  <2> SUFFICES ASSUME RoutingInit PROVE RoutingInv
    OBVIOUS
  <2>1. RoutingTypeOK
    BY RoutingAssumption
       DEF RoutingInit, RoutingTypeOK, ChannelRow, RouteRow, GroupRow, CallFrame, NoChannel, NoRoute, IdleCall,
           Phases, Health
  <2>2. CallsOK
    BY DEF RoutingInit, CallsOK, IdleCall
  <2>3. RoutesOK
    BY RoutingAssumption DEF RoutingInit, RoutesOK, NoRoute
  <2>4. ASSUME NEW c \in Channels PROVE ChannelOK(c)
    <3>1. Failing(c) = {}
      BY DEF RoutingInit, Failing, IdleCall
    <3>2. QED
      BY <3>1, FS_EmptySet DEF RoutingInit, ChannelOK, NoChannel
  <2>5. ProvidersOK
    BY DEF RoutingInit, ProvidersOK, Exists, NoChannel
  <2>6. QED
    BY <2>1, <2>2, <2>3, <2>4, <2>5 DEF RoutingInv, ChannelsOK
<1>2. RoutingInv /\ [RoutingNext]_routingVars => RoutingInv'
  BY RoutingKeepsTypes, RoutingKeepsCalls, RoutingKeepsRoutes, RoutingKeepsChannels, RoutingKeepsProviders
     DEF RoutingInv
<1>3. QED
  BY <1>1, <1>2, PTL DEF RoutingSpec

\* Circuits protect: CircuitsProtect holds of every behaviour of the routing, with
\* as many calls, channels and failures as there may be.
THEOREM CircuitsAlwaysProtect == RoutingSpec => []CircuitsProtect
<1>1. RoutingInv => CircuitsProtect
  <2> SUFFICES ASSUME RoutingInv PROVE CircuitsProtect
    OBVIOUS
  <2>1. \A c \in Channels : /\ ChannelOK(c) /\ channel[c].openFor \in Nat /\ late[c] \in Nat
                            /\ Cardinality(MayTry(c)) \in Nat
    BY CallSets DEF RoutingInv, ChannelsOK, RoutingTypeOK, ChannelRow
  <2>2. Cardinality(Calls) \in Nat \ {0}
    BY RoutingAssumption, FS_EmptySet, FS_CardinalityType
  <2>3. \A c \in Channels : /\ channel[c].openFor > 0 => wide[c] >= FailureThreshold
                            /\ late[c] < Cardinality(Calls)
    BY <2>1, <2>2 DEF ChannelOK
  <2>4. QED
    BY <2>3 DEF CircuitsProtect, RoutingInv, RoutesOK
<1>2. QED
  BY <1>1, RoutingInvariant, PTL

\* What a call finds of a provider is what the report counts as available of that
\* provider's model, in a group that is active; in any other it finds nothing.
LEMMA FoundIsAvailable ==
    ASSUME RoutingInv, NEW p \in Providers, NEW m \in Models
    PROVE  {c \in Candidates(m, TRUE) : channel[c].provider = p}
              = IF group.status = "active" THEN Available(p, m) ELSE {}
BY DEF Candidates, Available, Routes, Exists, RoutingInv, RoutesOK, RoutingTypeOK, GroupRow

\* A channel that a call finds stands behind a model that is shown.
LEMMA FoundIsShown ==
    ASSUME RoutingInv, NEW m \in Models, NEW c \in Candidates(m, TRUE)
    PROVE  channel[c].provider \in Providers /\ <<channel[c].provider, m>> \in Shown
BY DEF Candidates, Shown, Exists, RoutingInv, ProvidersOK

\* The report and the selection agree, whatever was configured, switched off or
\* deleted, however many providers have a model of the same name.
THEOREM ReportMatchesRouting == RoutingSpec => []StatusMatchesRouting
<1>1. RoutingInv => StatusMatchesRouting
  <2> SUFFICES ASSUME RoutingInv, NEW probes \in BOOLEAN
               PROVE  /\ \A p \in Providers, m \in Models :
                            LET found == {c \in Candidates(m, TRUE) : channel[c].provider = p}
                            IN  /\ ModelStatus(p, m, probes) \in {"unavailable", "disabled"} <=> found = {}
                                /\ ModelStatus(p, m, probes) = "normal" => found = Routes(p, m) /\ found # {}
                                /\ found # {} => <<p, m>> \in Shown
                      /\ GroupStatus({ModelStatus(pm[1], pm[2], probes) : pm \in Shown})
                            \in {"unavailable", "disabled"}
                            <=> \A m \in Models : Candidates(m, TRUE) = {}
    BY DEF StatusMatchesRouting
  <2>1. ASSUME NEW p \in Providers, NEW m \in Models
        PROVE  LET found == {c \in Candidates(m, TRUE) : channel[c].provider = p}
               IN  /\ ModelStatus(p, m, probes) \in {"unavailable", "disabled"} <=> found = {}
                   /\ ModelStatus(p, m, probes) = "normal" => found = Routes(p, m) /\ found # {}
                   /\ found # {} => <<p, m>> \in Shown
    BY FoundIsAvailable, FoundIsShown DEF ModelStatus
  <2> DEFINE statuses == {ModelStatus(pm[1], pm[2], probes) : pm \in Shown}
  <2>2. ASSUME NEW m \in Models, NEW c \in Candidates(m, TRUE)
        PROVE  GroupStatus(statuses) \notin {"unavailable", "disabled"}
    <3>1. channel[c].provider \in Providers /\ <<channel[c].provider, m>> \in Shown
      BY <2>2, FoundIsShown
    <3>2. ModelStatus(channel[c].provider, m, probes) \notin {"unavailable", "disabled"}
      BY <2>1, <2>2, <3>1
    <3>3. ModelStatus(channel[c].provider, m, probes) \in statuses
      BY <3>1
    <3>4. group.status = "active"
      BY <2>2 DEF Candidates
    <3> HIDE DEF statuses
    <3>5. QED
      BY <3>2, <3>3, <3>4 DEF GroupStatus
  <2>3. ASSUME \A m \in Models : Candidates(m, TRUE) = {}
        PROVE  GroupStatus(statuses) \in {"unavailable", "disabled"}
    <3>1. CASE group.status = "active"
      <4>1. ASSUME NEW pm \in Shown PROVE ModelStatus(pm[1], pm[2], probes) = "unavailable"
        <5>1. pm[1] \in Providers /\ pm[2] \in Models
          BY DEF Shown
        <5>2. ModelStatus(pm[1], pm[2], probes) \in {"unavailable", "disabled"}
          BY <2>1, <2>3, <5>1
        <5>3. QED
          BY <3>1, <5>2 DEF ModelStatus
      <4>2. statuses \subseteq {"unavailable"}
        BY <4>1
      <4> HIDE DEF statuses
      <4>3. QED
        BY <3>1, <4>2 DEF GroupStatus
    <3>2. CASE group.status # "active"
      BY <3>2 DEF GroupStatus
    <3>3. QED
      BY <3>1, <3>2
  <2>4. QED
    BY <2>1, <2>2, <2>3
<1>2. QED
  BY <1>1, RoutingInvariant, PTL

-----------------------------------------------------------------------------
(* The limits of a token                                                   *)

Took == {r \in Requests : Holds(r)}

\* What a call remembers of the limits: those the token had when it read them.
RunningCall == [pc : {"idle", "take", "group", "running", "ending"}, limits : Policies \cup {NoLimits},
                size : Nat]

RunningOK ==
    /\ running \in [Requests -> RunningCall]
    /\ \A r \in Requests : running[r].pc = "take" => running[r].limits \in Policies

\* The counters of the token, the calls that hold a slot, and the lost slots.
CountersOK ==
    /\ active \in Nat /\ lost \in Nat /\ groupCount \in Nat
    /\ window = [requests |-> window.requests, tokens |-> window.tokens]
    /\ window.requests \in Nat /\ window.tokens \in Nat
    /\ active = lost + Cardinality(Took)
    /\ \A p \in Policies :
          /\ Bounds("concurrency", p.concurrency) => active <= p.concurrency
          /\ Bounds("rpm", p.rpm) => window.requests <= p.rpm
          /\ Bounds("tpm", p.tpm) => window.tokens <= p.tpm \/ window.requests = 1
    /\ GroupRPM > 0 => groupCount <= GroupRPM

LimiterInv == limits \in Policies /\ RunningOK /\ CountersOK

\* The calls that hold a slot are finitely many.
LEMMA TookIsFinite == IsFiniteSet(Took) /\ Cardinality(Took) \in Nat
<1>1. Took \subseteq Requests
  BY DEF Took
<1>2. QED
  BY <1>1, LimiterAssumption, FS_Subset, FS_CardinalityType

\* No action counts more than the limits that its call was admitted under.
LEMMA LimiterKeeps ==
    LimiterInv /\ [LimiterNext]_limiterVars => LimiterInv'
<1> SUFFICES ASSUME LimiterInv, [LimiterNext]_limiterVars PROVE LimiterInv'
  OBVIOUS
<1>a. /\ Policies \subseteq [rpm : Nat, tpm : Nat, concurrency : Nat]
      /\ Sizes \subseteq Nat \ {0} /\ GroupRPM \in Nat /\ MaxLost \in Nat
  BY LimiterAssumption
<1>b. limits \in Policies /\ RunningOK /\ CountersOK
  BY DEF LimiterInv
<1>c. NoLimits \in [rpm : Nat, tpm : Nat, concurrency : Nat]
  BY DEF NoLimits
\* Call r moves to the state f.
<1>d. ASSUME NEW r \in Requests, NEW f, running' = [running EXCEPT ![r] = f],
             f \in RunningCall, f.pc = "take" => f.limits \in Policies
      PROVE  RunningOK'
  BY <1>b, <1>d DEF RunningOK
\* Who holds a slot after that step.
<1>e. ASSUME NEW r \in Requests, NEW f, running' = [running EXCEPT ![r] = f]
      PROVE  LET holds == f.pc \in {"group", "running", "ending"} /\ f.limits.concurrency > 0
             IN  /\ (holds <=> r \in Took) => Took' = Took
                 /\ holds /\ r \notin Took => Took' = Took \cup {r}
                 /\ ~ holds => Took' = Took \ {r}
  <2> DEFINE holds == f.pc \in {"group", "running", "ending"} /\ f.limits.concurrency > 0
  <2>1. \A i \in Requests : running'[i] = IF i = r THEN f ELSE running[i]
    BY <1>b, <1>e DEF RunningOK
  <2>2. Took \subseteq Requests /\ Took' \subseteq Requests
    BY DEF Took
  <2>3. r \in Took' <=> holds
    BY <2>1 DEF Took, Holds
  <2>4. \A i \in Requests : i # r => (i \in Took' <=> i \in Took)
    BY <2>1 DEF Took, Holds
  <2> HIDE DEF holds
  <2>5. (holds <=> r \in Took) => Took' = Took
    BY <2>2, <2>3, <2>4
  <2>6. holds /\ r \notin Took => Took' = Took \cup {r}
    BY <2>2, <2>3, <2>4
  <2>7. ~ holds => Took' = Took \ {r}
    BY <2>2, <2>3, <2>4
  <2>8. QED
    BY <2>5, <2>6, <2>7 DEF holds
\* The counters stay as they are, and so do the calls that hold a slot.
<1>f. ASSUME UNCHANGED <<active, lost>>, Took' = Took, window' = window \/ window' = Empty,
             groupCount' \in Nat, GroupRPM > 0 => groupCount' <= GroupRPM
      PROVE  CountersOK'
  <2>1. CASE window' = window
    BY <1>b, <1>f, <2>1 DEF CountersOK, Bounds
  <2>2. CASE window' = Empty
    <3>1. \A p \in Policies : p.rpm \in Nat /\ p.tpm \in Nat
      BY <1>a
    <3>2. QED
      BY <1>b, <1>f, <2>2, <3>1 DEF CountersOK, Bounds, Empty
  <2>3. QED
    BY <1>f, <2>1, <2>2
<1>1. ASSUME NEW policy \in Policies, SetLimits(policy) PROVE LimiterInv'
  BY <1>1, <1>b, <1>f DEF SetLimits, LimiterInv, RunningOK, CountersOK, Took, Holds
<1>2. ASSUME NEW r \in Requests, NEW size \in Sizes, ReadLimits(r, size) PROVE LimiterInv'
  <2> DEFINE f == [pc |-> IF limits = NoLimits THEN "group" ELSE "take", limits |-> limits, size |-> size]
  <2>1. running[r].pc = "idle" /\ running' = [running EXCEPT ![r] = f]
    BY <1>2 DEF ReadLimits
  <2>0. f \in RunningCall /\ (f.pc = "take" => f.limits \in Policies)
    BY <1>a, <1>b DEF RunningCall
  <2>2. RunningOK'
    BY <1>d, <2>0, <2>1
  <2>3. r \notin Took /\ ~ (f.pc \in {"group", "running", "ending"} /\ f.limits.concurrency > 0)
    BY <2>1 DEF Took, Holds, NoLimits
  <2> HIDE DEF f
  <2>4. Took' = Took
    BY <1>e, <2>1, <2>3
  <2>5. CountersOK'
    BY <1>2, <1>b, <1>f, <2>4 DEF ReadLimits, CountersOK
  <2>6. QED
    BY <1>2, <1>b, <2>2, <2>5 DEF ReadLimits, LimiterInv
<1>3. ASSUME NEW r \in Requests, AcquireToken(r) PROVE LimiterInv'
  <2> DEFINE l == running[r].limits
             s == running[r].size
             windowed == l.rpm > 0 \/ l.tpm > 0
             free == l.concurrency = 0 \/ active = 0 \/ active < l.concurrency
             taken == (windowed => Fits(l, s)) /\ free
             f == IF taken THEN [pc |-> "group", limits |-> l, size |-> s] ELSE Idle
  <2>1. l \in Policies /\ s \in Nat /\ running[r].pc = "take"
    BY <1>3, <1>b DEF AcquireToken, RunningOK, RunningCall
  <2>2. l.rpm \in Nat /\ l.tpm \in Nat /\ l.concurrency \in Nat
    BY <1>a, <2>1
  <2>3. running' = [running EXCEPT ![r] = f]
    BY <1>3, <1>b DEF AcquireToken, RunningOK, RunningCall
  <2>4. RunningOK'
    <3>1. f \in RunningCall /\ f.pc # "take"
      BY <2>1 DEF RunningCall, Idle
    <3>2. QED
      BY <1>d, <2>3, <3>1
  <2>5. /\ r \notin Took
        /\ taken /\ l.concurrency > 0 => Took' = Took \cup {r}
        /\ ~ (taken /\ l.concurrency > 0) => Took' = Took
    <3> DEFINE holds == f.pc \in {"group", "running", "ending"} /\ f.limits.concurrency > 0
    <3>1. r \notin Took
      BY <2>1 DEF Took, Holds
    <3>2. holds <=> taken /\ l.concurrency > 0
      BY DEF Idle, NoLimits
    <3> HIDE DEF f
    <3>3. (holds => Took' = Took \cup {r}) /\ (~ holds => Took' = Took)
      BY <1>e, <2>3, <3>1
    <3> HIDE DEF holds, taken
    <3>4. QED
      BY <3>1, <3>2, <3>3
  <2>6. UNCHANGED <<limits, groupCount, lost>>
    BY <1>3 DEF AcquireToken
  <2>7. CountersOK'
    <3>1. CASE ~ taken
      <4>1. Took' = Took
        BY <2>5, <3>1
      <4>2. UNCHANGED <<window, active>>
        BY <1>3, <3>1 DEF AcquireToken
      <4>3. QED
        BY <1>b, <1>f, <2>6, <4>1, <4>2 DEF CountersOK
    <3>2. CASE taken
      <4>1. /\ window' = IF windowed THEN [requests |-> window.requests + 1, tokens |-> window.tokens + s]
                                     ELSE window
            /\ active' = IF l.concurrency > 0 THEN active + 1 ELSE active
        BY <1>3, <3>2 DEF AcquireToken
      <4>2. active' \in Nat /\ active' = lost + Cardinality(Took')
        <5>1. CASE l.concurrency > 0
          <6>1. Took' = Took \cup {r}
            BY <2>5, <3>2, <5>1
          <6>2. Cardinality(Took') = Cardinality(Took) + 1
            BY <2>5, <6>1, TookIsFinite, FS_AddElement
          <6>3. QED
            BY <1>b, <4>1, <5>1, <6>2, TookIsFinite DEF CountersOK
        <5>2. CASE ~ l.concurrency > 0
          <6>1. Took' = Took
            BY <2>5, <5>2
          <6>2. QED
            BY <1>b, <4>1, <5>2, <6>1 DEF CountersOK
        <5>3. QED
          BY <5>1, <5>2
      <4>3. ASSUME NEW p \in Policies, Bounds("concurrency", p.concurrency) PROVE active' <= p.concurrency
        <5>1. 0 < l.concurrency /\ l.concurrency <= p.concurrency /\ p.concurrency \in Nat
          BY <1>a, <2>1, <4>3 DEF Bounds
        <5>2. QED
          BY <1>b, <2>2, <3>2, <4>1, <5>1 DEF CountersOK
      <4>4. ASSUME NEW p \in Policies, Bounds("rpm", p.rpm) PROVE window'.requests <= p.rpm
        <5>1. 0 < l.rpm /\ l.rpm <= p.rpm /\ p.rpm \in Nat
          BY <1>a, <2>1, <4>4 DEF Bounds
        <5>2. QED
          BY <1>b, <2>2, <3>2, <4>1, <5>1 DEF CountersOK, Fits
      <4>5. ASSUME NEW p \in Policies, Bounds("tpm", p.tpm)
            PROVE  window'.tokens <= p.tpm \/ window'.requests = 1
        <5>1. 0 < l.tpm /\ l.tpm <= p.tpm /\ p.tpm \in Nat
          BY <1>a, <2>1, <4>5 DEF Bounds
        <5>2. QED
          BY <1>b, <2>1, <2>2, <3>2, <4>1, <5>1 DEF CountersOK, Fits
      <4>6. /\ window' = [requests |-> window'.requests, tokens |-> window'.tokens]
            /\ window'.requests \in Nat /\ window'.tokens \in Nat
        BY <1>b, <2>1, <4>1 DEF CountersOK
      <4>7. QED
        BY <1>b, <2>6, <4>2, <4>3, <4>4, <4>5, <4>6 DEF CountersOK, Bounds
    <3>3. QED
      BY <3>1, <3>2
  <2>8. QED
    BY <1>b, <2>4, <2>6, <2>7 DEF LimiterInv
\* The call goes on, with the slot it took if it took one.
<1>4. ASSUME NEW r \in Requests, NEW pc \in {"running", "ending"}, running[r].pc \in {"group", "running"},
             running' = [running EXCEPT ![r].pc = pc], UNCHANGED <<limits, window, active, lost>>,
             groupCount' \in Nat, GroupRPM > 0 => groupCount' <= GroupRPM
      PROVE  LimiterInv'
  <2> DEFINE f == [pc |-> pc, limits |-> running[r].limits, size |-> running[r].size]
  <2>1. running' = [running EXCEPT ![r] = f] /\ f \in RunningCall /\ f.pc # "take"
    <3>1. running[r] \in RunningCall
      BY <1>b DEF RunningOK
    <3>2. [running[r] EXCEPT !.pc = pc] = f /\ f \in RunningCall
      BY <3>1 DEF RunningCall
    <3>3. running' = [running EXCEPT ![r] = [running[r] EXCEPT !.pc = pc]]
      BY <1>4, <1>b DEF RunningOK
    <3>4. QED
      BY <3>2, <3>3
  <2>2. RunningOK'
    BY <1>d, <2>1
  <2>3. f.pc \in {"group", "running", "ending"} /\ f.limits.concurrency > 0 <=> r \in Took
    BY <1>4 DEF Took, Holds
  <2> HIDE DEF f
  <2>4. Took' = Took
    BY <1>e, <2>1, <2>3
  <2>5. QED
    BY <1>4, <1>b, <1>f, <2>2, <2>4 DEF LimiterInv
<1>5. ASSUME NEW r \in Requests, ConsumeGroupRPM(r) PROVE LimiterInv'
  <2>1. groupCount' \in Nat /\ (GroupRPM > 0 => groupCount' <= GroupRPM)
    BY <1>5, <1>a, <1>b DEF ConsumeGroupRPM, CountersOK
  <2>2. QED
    BY <1>4, <1>5, <2>1 DEF ConsumeGroupRPM
<1>6. ASSUME NEW r \in Requests, Answered(r) PROVE LimiterInv'
  BY <1>4, <1>6, <1>b DEF Answered, CountersOK
<1>7. ASSUME NEW r \in Requests, NEW works \in BOOLEAN, Release(r, works) PROVE LimiterInv'
  <2> DEFINE held == running[r].limits.concurrency > 0
  <2>1. running[r].pc = "ending" /\ running' = [running EXCEPT ![r] = Idle]
        /\ UNCHANGED <<limits, window, groupCount>>
    BY <1>7 DEF Release
  <2>2. RunningOK'
    <3>1. Idle \in RunningCall /\ Idle.pc # "take"
      BY DEF Idle, RunningCall
    <3>2. QED
      BY <1>d, <2>1, <3>1
  <2>3. Took' = Took \ {r} /\ (r \in Took <=> held)
    <3>1. ~ (Idle.pc \in {"group", "running", "ending"} /\ Idle.limits.concurrency > 0)
      BY DEF Idle
    <3>2. Took' = Took \ {r}
      BY <1>e, <2>1, <3>1
    <3>3. QED
      BY <2>1, <3>2 DEF Took, Holds
  <2>4. CASE ~ held
    <3>1. Took' = Took
      BY <2>3, <2>4
    <3>2. UNCHANGED <<active, lost>>
      BY <1>7, <2>4 DEF Release
    <3>3. CountersOK'
      BY <1>b, <1>f, <2>1, <3>1, <3>2 DEF CountersOK
    <3>4. QED
      BY <1>b, <2>1, <2>2, <3>3 DEF LimiterInv
  <2>5. CASE held
    <3>1. Took' = Took \ {r} /\ r \in Took
      BY <2>3, <2>5
    <3>2. /\ Cardinality(Took') = Cardinality(Took) - 1
          /\ Cardinality(Took) \in Nat /\ Cardinality(Took') \in Nat
      BY <3>1, TookIsFinite, FS_RemoveElement, FS_CardinalityType
    <3>3. /\ active' = IF works THEN (IF active > 0 THEN active - 1 ELSE 0) ELSE active
          /\ lost' = IF works THEN lost ELSE lost + 1
      BY <1>7, <2>5 DEF Release
    <3>4. active' \in Nat /\ lost' \in Nat /\ active' = lost' + Cardinality(Took') /\ active' <= active
      BY <1>b, <3>2, <3>3 DEF CountersOK
    <3>5. \A p \in Policies : p.concurrency \in Nat
      BY <1>a
    <3>6. CountersOK'
      BY <1>b, <2>1, <3>4, <3>5 DEF CountersOK, Bounds
    <3>7. QED
      BY <1>b, <2>1, <2>2, <3>6 DEF LimiterInv
  <2>6. QED
    BY <2>4, <2>5
<1>8. ASSUME StopServer PROVE LimiterInv'
  <2>1. running' = [r \in Requests |-> Idle]
    BY <1>8 DEF StopServer
  <2>2. RunningOK'
    BY <2>1 DEF RunningOK, Idle, RunningCall
  <2>3. Took' = {}
    BY <2>1 DEF Took, Holds, Idle
  <2>4. UNCHANGED <<limits, window, active, groupCount>> /\ lost' = lost + Cardinality(Took)
    BY <1>8, Zenon DEF StopServer, Took
  <2>5. CountersOK'
    BY <1>b, <2>3, <2>4, TookIsFinite, FS_EmptySet DEF CountersOK, Bounds
  <2>6. QED
    BY <1>b, <2>2, <2>4, <2>5 DEF LimiterInv
<1>9. ASSUME NextMinute PROVE LimiterInv'
  <2>1. UNCHANGED <<limits, active, running, lost>> /\ window' = Empty /\ groupCount' = 0
    BY <1>9 DEF NextMinute
  <2>2. RunningOK' /\ Took' = Took
    BY <1>b, <2>1 DEF RunningOK, Took, Holds
  <2>3. CountersOK'
    BY <1>a, <1>f, <2>1, <2>2
  <2>4. QED
    BY <1>b, <2>1, <2>2, <2>3 DEF LimiterInv
<1>10. CASE UNCHANGED limiterVars
  <2>1. UNCHANGED <<limits, window, active, groupCount, running, lost>>
    BY <1>10 DEF limiterVars
  <2>2. RunningOK' /\ Took' = Took
    BY <1>b, <2>1 DEF RunningOK, Took, Holds
  <2>3. CountersOK'
    BY <1>b, <1>f, <2>1, <2>2 DEF CountersOK
  <2>4. QED
    BY <1>b, <2>1, <2>2, <2>3 DEF LimiterInv
<1>11. QED
  BY <1>1, <1>2, <1>3, <1>5, <1>6, <1>7, <1>8, <1>9, <1>10 DEF LimiterNext

\* The limits hold, for any number of calls, limits and lost slots.
THEOREM LimitsAlwaysHold == LimiterSpec => []LimitsHold
<1>1. LimiterInit => LimiterInv
  <2> SUFFICES ASSUME LimiterInit PROVE LimiterInv
    OBVIOUS
  <2>1. Took = {}
    BY DEF LimiterInit, Took, Holds, Idle
  <2>2. RunningOK
    BY DEF LimiterInit, RunningOK, Idle, RunningCall
  <2>3. CountersOK
    BY <2>1, LimiterAssumption, FS_EmptySet DEF LimiterInit, CountersOK, Empty, Bounds
  <2>4. QED
    BY <2>2, <2>3 DEF LimiterInit, LimiterInv
<1>2. LimiterInv => LimitsHold
  <2> SUFFICES ASSUME LimiterInv PROVE LimitsHold
    OBVIOUS
  <2>1. \A p \in Policies : p.concurrency \in Nat
    BY LimiterAssumption
  <2>2. CountersOK /\ Cardinality(Took) <= active /\ active \in Nat /\ Cardinality(Took) \in Nat
    BY TookIsFinite DEF LimiterInv, CountersOK
  <2>3. \A p \in Policies : Bounds("concurrency", p.concurrency) => Cardinality(Took) <= p.concurrency
    BY <2>1, <2>2 DEF CountersOK
  <2>4. Took = {r \in Requests : Holds(r)}
    BY DEF Took
  <2>5. QED
    BY <2>2, <2>3, <2>4, Zenon DEF CountersOK, LimitsHold
<1>3. QED
  BY <1>1, <1>2, LimiterKeeps, PTL DEF LimiterSpec

-----------------------------------------------------------------------------
(* The order of the naturals                                              *)

Before == {p \in Nat \X Nat : p[1] < p[2]}

\* It is well founded.
LEMMA BeforeIsWellFounded == IsWellFoundedOn(Before, Nat)
<1>1. OpToRel(<, Nat) = Before
  BY Zenon DEF OpToRel, Before
<1>2. QED
  BY <1>1, NatLessThanWellFounded, Zenon

-----------------------------------------------------------------------------
(* Prices: manual versions                                                 *)

ManualVersion ==
    [scope : Range(Scopes), currency : Currencies, from : 0 .. LastTime, status : {"active", "retired"}]

\* The listings of the source and the prices that are read from them
OfficialVersion ==
    [from : 0 .. LastTime, to : 0 .. Open, price : {FindPrice(l, ListingKeys) : l \in Listings},
     listing : Listings]

SyncRow ==
    {IdleSync} \cup [pc : {"fetched"}, listing : Listings]
    \cup [pc : {"begun"}, listing : Listings, at : 0 .. LastTime]
    \cup [pc : {"close", "insert", "commit"}, listing : Listings, at : 0 .. LastTime,
          price : {FindPrice(l, ListingKeys) : l \in Listings}, row : Nat]

CatalogTypes ==
    /\ versions \in Seq(ManualVersion)
    /\ official \in Seq(OfficialVersion)
    /\ sync \in [Syncs -> SyncRow]
    /\ listing \in Listings
    /\ clock \in 0 .. LastTime

Alike(i, j) == versions[i].scope = versions[j].scope /\ versions[i].currency = versions[j].currency

\* An active version begins no earlier than those published after it; a retired
\* one has been replaced by an active one that begins later.
VersionsReplace ==
    /\ \A i, j \in DOMAIN versions :
          (i < j /\ Alike(i, j) /\ versions[i].status = "active") => versions[j].from <= versions[i].from
    /\ \A i \in DOMAIN versions :
          versions[i].status = "retired" =>
             \E j \in DOMAIN versions : /\ i < j /\ Alike(i, j) /\ versions[i].from < versions[j].from
                                        /\ versions[j].status = "active"

\* One official version has no end, and the others have ended.
OneIsOpen ==
    /\ \A i \in DOMAIN official : official[i].from <= clock
    /\ \A i \in DOMAIN official : official[i].to # Open => official[i].to <= clock
    /\ official # <<>> => \E i \in DOMAIN official : official[i].to = Open
    /\ \A i, j \in DOMAIN official : official[i].to = Open /\ official[j].to = Open => i = j

\* A synchronization that commits closes the open version, if there is one.
SyncsClose ==
    /\ \A p \in Syncs : sync[p].pc \in {"begun", "close", "insert", "commit"} => sync[p].at <= clock
    /\ \A p \in Syncs : sync[p].pc = "commit" =>
          \A i \in DOMAIN official : official[i].to = Open => i = sync[p].row
    /\ \A p, q \in Syncs : sync[p].pc = "commit" /\ sync[q].pc = "commit" => p = q

CatalogInv == CatalogTypes /\ VersionsReplace /\ OneIsOpen /\ SyncsClose

\* What a publication does to the versions, field by field.
LEMMA PublishedVersions ==
    ASSUME CatalogTypes, NEW s \in Range(Scopes), NEW c \in Currencies, NEW t \in 0 .. LastTime,
           PublishPrice(s, c, t)
    PROVE  /\ versions' \in Seq(ManualVersion) /\ Len(versions) \in Nat
           /\ DOMAIN versions = 1 .. Len(versions) /\ DOMAIN versions' = 1 .. Len(versions) + 1
           /\ versions'[Len(versions) + 1] = [scope |-> s, currency |-> c, from |-> t, status |-> "active"]
           /\ \A i \in DOMAIN versions :
                 /\ versions[i] \in ManualVersion
                 /\ versions'[i].scope = versions[i].scope /\ versions'[i].currency = versions[i].currency
                 /\ versions'[i].from = versions[i].from
                 /\ versions'[i].status =
                       IF /\ versions[i].scope = s /\ versions[i].currency = c
                          /\ versions[i].status = "active" /\ versions[i].from < t
                       THEN "retired" ELSE versions[i].status
<1> DEFINE Ends(v) == /\ v.scope = s /\ v.currency = c /\ v.status = "active" /\ v.from < t
           f == [i \in DOMAIN versions |->
                    IF Ends(versions[i]) THEN [versions[i] EXCEPT !.status = "retired"] ELSE versions[i]]
           new == [scope |-> s, currency |-> c, from |-> t, status |-> "active"]
<1>1. versions' = Append(f, new)
  BY DEF PublishPrice
<1>2. /\ Len(versions) \in Nat /\ DOMAIN versions = 1 .. Len(versions)
      /\ \A i \in DOMAIN versions : versions[i] \in ManualVersion
  BY DEF CatalogTypes
<1>3. new \in ManualVersion
  BY DEF ManualVersion
<1>4. \A v \in ManualVersion : [v EXCEPT !.status = "retired"] \in ManualVersion
  BY DEF ManualVersion
<1>5. f \in Seq(ManualVersion) /\ Len(f) = Len(versions)
  <2>1. \A i \in 1 .. Len(versions) : f[i] \in ManualVersion
    BY <1>2, <1>4
  <2>2. QED
    BY <1>2, <2>1
<1>6. /\ Append(f, new) \in Seq(ManualVersion) /\ Len(Append(f, new)) = Len(versions) + 1
      /\ \A i \in 1 .. Len(versions) : Append(f, new)[i] = f[i]
      /\ Append(f, new)[Len(versions) + 1] = new
  <2> HIDE DEF f, new
  <2>1. QED
    BY <1>2, <1>3, <1>5, AppendProperties
<1>7. ASSUME NEW i \in DOMAIN versions
      PROVE  /\ f[i].scope = versions[i].scope /\ f[i].currency = versions[i].currency
             /\ f[i].from = versions[i].from
             /\ f[i].status = IF Ends(versions[i]) THEN "retired" ELSE versions[i].status
  BY <1>2 DEF ManualVersion
<1>8. DOMAIN versions' = 1 .. Len(versions) + 1
  BY <1>1, <1>6
<1>9. QED
  BY <1>1, <1>2, <1>6, <1>7, <1>8

\* A publication keeps the order of the versions: those that it ends, it replaces.
LEMMA PublishPriceReplaces ==
    ASSUME CatalogInv, NEW s \in Range(Scopes), NEW c \in Currencies, NEW t \in 0 .. LastTime,
           PublishPrice(s, c, t)
    PROVE  VersionsReplace'
<1> DEFINE Ended(i) == /\ versions[i].scope = s /\ versions[i].currency = c
                       /\ versions[i].status = "active" /\ versions[i].from < t
<1>0. PICK n \in Nat : n = Len(versions) + 1
  BY DEF CatalogInv, CatalogTypes
<1>1. /\ DOMAIN versions = 1 .. n - 1 /\ DOMAIN versions' = 1 .. n
      /\ versions'[n].scope = s /\ versions'[n].currency = c /\ versions'[n].from = t
      /\ versions'[n].status = "active"
      /\ \A i \in DOMAIN versions :
            /\ versions[i].from \in Int /\ versions[i].status \in {"active", "retired"}
            /\ versions'[i].scope = versions[i].scope /\ versions'[i].currency = versions[i].currency
            /\ versions'[i].from = versions[i].from
            /\ versions'[i].status = IF Ended(i) THEN "retired" ELSE versions[i].status
  <2>1. CatalogTypes
    BY DEF CatalogInv
  <2>2. /\ DOMAIN versions = 1 .. n - 1 /\ DOMAIN versions' = 1 .. n
        /\ versions'[n] = [scope |-> s, currency |-> c, from |-> t, status |-> "active"]
    BY <1>0, <2>1, PublishedVersions
  <2>3. \A i \in DOMAIN versions :
            /\ versions'[i].scope = versions[i].scope /\ versions'[i].currency = versions[i].currency
            /\ versions'[i].from = versions[i].from
            /\ versions'[i].status = IF Ended(i) THEN "retired" ELSE versions[i].status
    BY <2>1, PublishedVersions
  <2>4. \A i \in DOMAIN versions : versions[i].from \in Int /\ versions[i].status \in {"active", "retired"}
    <3>1. \A v \in ManualVersion : v.from \in Int /\ v.status \in {"active", "retired"}
      BY DEF ManualVersion
    <3>2. QED
      BY <2>1, <3>1 DEF CatalogTypes
  <2>5. QED
    BY <2>2, <2>3, <2>4
<1>2. ASSUME NEW i \in DOMAIN versions', NEW j \in DOMAIN versions', i < j, Alike(i, j)',
             versions'[i].status = "active"
      PROVE  versions'[j].from <= versions'[i].from
  <2>1. i \in DOMAIN versions /\ ~Ended(i) /\ versions[i].status = "active"
    BY <1>1, <1>2
  <2>2. CASE j = n
    BY <1>1, <1>2, <2>1, <2>2 DEF Alike
  <2>3. CASE j \in DOMAIN versions
    <3>1. Alike(i, j)
      BY <1>1, <1>2, <2>1, <2>3 DEF Alike
    <3>2. QED
      BY <1>1, <1>2, <2>1, <2>3, <3>1 DEF CatalogInv, VersionsReplace
  <2>4. QED
    BY <1>1, <1>2, <2>2, <2>3
<1>3. ASSUME NEW i \in DOMAIN versions', versions'[i].status = "retired"
      PROVE  \E j \in DOMAIN versions' : /\ i < j /\ Alike(i, j)' /\ versions'[i].from < versions'[j].from
                                         /\ versions'[j].status = "active"
  <2>1. i \in DOMAIN versions
    BY <1>1, <1>3
  <2>2. n \in DOMAIN versions' /\ i < n
    BY <1>1, <2>1
  <2>3. CASE Ended(i)
    <3>1. Alike(i, n)' /\ versions'[i].from < versions'[n].from
      BY <1>1, <2>1, <2>3 DEF Alike
    <3>2. QED
      BY <1>1, <2>2, <3>1
  <2>4. CASE ~Ended(i)
    <3>1. versions[i].status = "retired"
      BY <1>1, <1>3, <2>1, <2>4
    <3>2. PICK j \in DOMAIN versions : /\ i < j /\ Alike(i, j) /\ versions[i].from < versions[j].from
                                       /\ versions[j].status = "active"
      BY <2>1, <3>1 DEF CatalogInv, VersionsReplace
    <3>3. j \in DOMAIN versions' /\ Alike(i, j)' /\ versions'[i].from < versions'[j].from
      BY <1>1, <2>1, <3>2 DEF Alike
    <3>4. CASE Ended(j)
      <4>1. Alike(i, n)' /\ versions'[i].from < versions'[n].from
        BY <1>1, <2>1, <3>2, <3>4 DEF Alike
      <4>2. QED
        BY <1>1, <2>2, <4>1
    <3>5. CASE ~Ended(j)
      BY <1>1, <3>2, <3>3, <3>5
    <3>6. QED
      BY <3>4, <3>5
  <2>5. QED
    BY <2>3, <2>4
<1>4. QED
  BY <1>2, <1>3 DEF VersionsReplace

-----------------------------------------------------------------------------
(* Prices: official versions                                               *)

\* The steps of a synchronization, by what it remembers.
LEMMA SyncRows ==
    ASSUME NEW f \in SyncRow
    PROVE  /\ f.pc \in {"idle", "fetched", "begun", "close", "insert", "commit"}
           /\ f.pc = "fetched" => f.listing \in Listings
           /\ f.pc \notin {"idle", "fetched"} => f.listing \in Listings /\ f.at \in 0 .. LastTime
           /\ f.pc \in {"close", "insert", "commit"} =>
                 /\ f.price \in {FindPrice(l, ListingKeys) : l \in Listings} /\ f.row \in Nat
                 /\ \A pc \in {"insert", "commit"} :
                       /\ [f EXCEPT !.pc = pc] \in SyncRow
                       /\ [f EXCEPT !.pc = pc].pc = pc
                       /\ [f EXCEPT !.pc = pc].at = f.at
                       /\ [f EXCEPT !.pc = pc].row = f.row
BY DEF SyncRow, IdleSync

\* A synchronization that moves to g, and changes no version.
LEMMA SyncMoves ==
    ASSUME CatalogInv, NEW p \in Syncs, NEW g \in SyncRow,
           sync' = [sync EXCEPT ![p] = g], UNCHANGED <<versions, official, listing, clock>>,
           g.pc \in {"begun", "close", "insert", "commit"} => g.at <= clock,
           g.pc = "commit" => /\ \A i \in DOMAIN official : official[i].to = Open => i = g.row
                              /\ \A q \in Syncs \ {p} : sync[q].pc # "commit"
    PROVE  CatalogInv'
<1>1. /\ sync' \in [Syncs -> SyncRow] /\ sync'[p] = g
      /\ \A q \in Syncs \ {p} : sync'[q] = sync[q]
  BY DEF CatalogInv, CatalogTypes
<1>2. CatalogTypes' /\ VersionsReplace' /\ OneIsOpen'
  BY <1>1 DEF CatalogInv, CatalogTypes, VersionsReplace, OneIsOpen, Alike
<1>3. SyncsClose'
  <2>1. ASSUME NEW q \in Syncs, sync'[q].pc \in {"begun", "close", "insert", "commit"}
        PROVE  sync'[q].at <= clock'
    BY <1>1, <2>1 DEF CatalogInv, SyncsClose
  <2>2. ASSUME NEW q \in Syncs, sync'[q].pc = "commit", NEW i \in DOMAIN official', official'[i].to = Open
        PROVE  i = sync'[q].row
    BY <1>1, <2>2 DEF CatalogInv, SyncsClose
  <2>3. ASSUME NEW q \in Syncs, NEW x \in Syncs, sync'[q].pc = "commit", sync'[x].pc = "commit"
        PROVE  q = x
    BY <1>1, <2>3 DEF CatalogInv, SyncsClose
  <2>4. QED
    BY <2>1, <2>2, <2>3 DEF SyncsClose
<1>4. QED
  BY <1>2, <1>3 DEF CatalogInv

\* Until its commit a synchronization changes no version; at most one gets there.
LEMMA SyncStepKeeps ==
    ASSUME CatalogInv, NEW p \in Syncs,
           Fetch(p) \/ Begin(p) \/ FindCurrent(p) \/ CloseCurrent(p) \/ InsertVersion(p) \/ AbortSync(p)
    PROVE  CatalogInv'
<1>1. sync[p] \in SyncRow /\ listing \in Listings /\ clock \in 0 .. LastTime
  BY DEF CatalogInv, CatalogTypes
<1>2. IdleSync \in SyncRow /\ IdleSync.pc = "idle"
  BY DEF SyncRow, IdleSync
<1>3. sync[p].pc \in {"begun", "close", "insert", "commit"} => sync[p].at <= clock
  BY DEF CatalogInv, SyncsClose
<1>4. ASSUME sync' = [sync EXCEPT ![p] = IdleSync], UNCHANGED <<versions, official, listing, clock>>
      PROVE  CatalogInv'
  BY <1>2, <1>4, SyncMoves
<1>5. CASE Fetch(p)
  <2>1. /\ [pc |-> "fetched", listing |-> listing] \in SyncRow
        /\ [pc |-> "fetched", listing |-> listing].pc = "fetched"
    BY <1>1 DEF SyncRow
  <2>2. QED
    BY <1>5, <2>1, SyncMoves DEF Fetch
<1>6. CASE Begin(p)
  <2> DEFINE g == [pc |-> "begun", listing |-> sync[p].listing, at |-> clock]
  <2>1. sync[p].listing \in Listings
    BY <1>1, <1>6, SyncRows DEF Begin, SyncAt
  <2>2. g \in SyncRow /\ g.pc = "begun" /\ g.at = clock
    BY <1>1, <2>1 DEF SyncRow
  <2>3. sync' = [sync EXCEPT ![p] = g] /\ UNCHANGED <<versions, official, listing, clock>>
    BY <1>6 DEF Begin
  <2>4. g.at <= clock
    BY <1>1, <2>2
  <2> HIDE DEF g
  <2>5. QED
    BY <2>2, <2>3, <2>4, SyncMoves
<1>7. CASE FindCurrent(p)
  <2> DEFINE price == FindPrice(sync[p].listing, ListingKeys)
             open  == {i \in DOMAIN official : official[i].to = Open}
             row   == IF open = {} THEN 0 ELSE CHOOSE i \in open : TRUE
             g     == [pc |-> IF row = 0 THEN "insert" ELSE "close", listing |-> sync[p].listing,
                       at |-> sync[p].at, price |-> price, row |-> row]
  <2>1. sync[p].pc = "begun" /\ sync[p].listing \in Listings /\ sync[p].at \in 0 .. LastTime
    BY <1>1, <1>7, SyncRows DEF FindCurrent, SyncAt
  <2>2. row \in Nat
    BY DEF CatalogInv, CatalogTypes
  <2>3. /\ sync' = [sync EXCEPT ![p] = IdleSync] \/ sync' = [sync EXCEPT ![p] = g]
        /\ UNCHANGED <<versions, official, listing, clock>>
    BY <1>7 DEF FindCurrent
  <2>4. price \in {FindPrice(l, ListingKeys) : l \in Listings}
    BY <2>1
  <2> HIDE DEF price, row
  <2>5. g \in SyncRow /\ g.pc \in {"insert", "close"} /\ g.at = sync[p].at
    BY <2>1, <2>2, <2>4 DEF SyncRow
  <2> HIDE DEF g
  <2>6. QED
    BY <1>3, <1>4, <2>1, <2>3, <2>5, SyncMoves
<1>8. CASE CloseCurrent(p)
  <2> DEFINE g == [sync[p] EXCEPT !.pc = "insert"]
  <2>1. g \in SyncRow /\ g.pc = "insert" /\ g.at = sync[p].at /\ sync[p].pc = "close"
    BY <1>1, <1>8, SyncRows DEF CloseCurrent, SyncAt
  <2>2. sync' = [sync EXCEPT ![p] = g] /\ UNCHANGED <<versions, official, listing, clock>>
    BY <1>8 DEF CloseCurrent
  <2> HIDE DEF g
  <2>3. QED
    BY <1>3, <2>1, <2>2, SyncMoves
<1>9. CASE InsertVersion(p)
  <2> DEFINE g == [sync[p] EXCEPT !.pc = "commit"]
  <2>1. /\ g \in SyncRow /\ g.pc = "commit" /\ g.at = sync[p].at /\ g.row = sync[p].row
        /\ sync[p].pc = "insert"
    BY <1>1, <1>9, SyncRows DEF InsertVersion, SyncAt
  <2>2. CASE \E i \in DOMAIN official : official[i].to = Open /\ i # sync[p].row
    BY <1>4, <1>9, <2>2 DEF InsertVersion
  <2>3. CASE ~ \E i \in DOMAIN official : official[i].to = Open /\ i # sync[p].row
    <3>1. sync' = [sync EXCEPT ![p] = g] /\ UNCHANGED <<versions, official, listing, clock>>
      BY <1>9, <2>3 DEF InsertVersion
    <3>2. \A q \in Syncs \ {p} : sync[q].pc # "commit"
      BY <1>9 DEF InsertVersion, SyncAt
    <3> HIDE DEF g
    <3>3. QED
      BY <1>3, <2>1, <2>3, <3>1, <3>2, SyncMoves
  <2>4. QED
    BY <2>2, <2>3
<1>10. CASE AbortSync(p)
  BY <1>4, <1>10 DEF AbortSync
<1>11. QED
  BY <1>5, <1>6, <1>7, <1>8, <1>9, <1>10

\* The commit closes the version that was open, and opens its own.
LEMMA CommitSyncKeeps ==
    ASSUME CatalogInv, NEW p \in Syncs, CommitSync(p)
    PROVE  CatalogInv'
<1> DEFINE h == sync[p]
           f == [i \in DOMAIN official |->
                    IF i = h.row THEN [official[i] EXCEPT !.to = h.at] ELSE official[i]]
           new == [from |-> h.at, to |-> Open, price |-> h.price, listing |-> h.listing]
<1>0. LastTime \in Nat /\ clock \in 0 .. LastTime /\ Open = LastTime + 1
  BY CatalogAssumption DEF CatalogInv, CatalogTypes, Open
<1>1. /\ official' = Append(f, new) /\ sync' = [sync EXCEPT ![p] = IdleSync]
      /\ UNCHANGED <<versions, listing, clock>> /\ h.pc = "commit"
  BY DEF CommitSync, SyncAt
<1>2. /\ h.at \in 0 .. LastTime /\ h.at <= clock /\ h.listing \in Listings
      /\ h.price \in {FindPrice(l, ListingKeys) : l \in Listings}
  <2>1. h \in SyncRow
    BY DEF CatalogInv, CatalogTypes
  <2>2. QED
    BY <1>1, <2>1, SyncRows DEF CatalogInv, SyncsClose
<1>3. PICK n \in Nat : n = Len(official)
  BY DEF CatalogInv, CatalogTypes
<1>4. DOMAIN official = 1 .. n /\ \A i \in 1 .. n : official[i] \in OfficialVersion
  BY <1>3 DEF CatalogInv, CatalogTypes
<1>5. new \in OfficialVersion
  BY <1>0, <1>2 DEF OfficialVersion
<1>6. ASSUME NEW v \in OfficialVersion
      PROVE  LET w == [v EXCEPT !.to = h.at]
             IN  w \in OfficialVersion /\ w.from = v.from /\ w.to = h.at
  BY <1>0, <1>2 DEF OfficialVersion
<1>7. f \in Seq(OfficialVersion) /\ Len(f) = n
  <2>1. \A i \in 1 .. n : f[i] \in OfficialVersion
    BY <1>4, <1>6
  <2>2. QED
    BY <1>4, <2>1
<1>8. /\ official' \in Seq(OfficialVersion) /\ DOMAIN official' = 1 .. n + 1
      /\ \A i \in 1 .. n : official'[i] = f[i]
      /\ official'[n + 1] = new
  <2> HIDE DEF f, new
  <2>1. QED
    BY <1>1, <1>5, <1>7, AppendProperties
<1>9. /\ \A i \in 1 .. n : /\ official'[i].from = official[i].from
                           /\ official'[i].to = IF i = h.row THEN h.at ELSE official[i].to
      /\ official'[n + 1].from = h.at /\ official'[n + 1].to = Open
  <2>1. ASSUME NEW i \in 1 .. n
        PROVE  f[i].from = official[i].from /\ f[i].to = IF i = h.row THEN h.at ELSE official[i].to
    <3>1. official[i] \in OfficialVersion /\ i \in DOMAIN official
      BY <1>4
    <3>2. CASE i = h.row
      BY <1>6, <3>1, <3>2
    <3>3. CASE i # h.row
      BY <3>1, <3>3
    <3>4. QED
      BY <3>2, <3>3
  <2>2. new.from = h.at /\ new.to = Open
    OBVIOUS
  <2> HIDE DEF f, new
  <2>3. QED
    BY <1>8, <2>1, <2>2
<1>10. /\ sync' \in [Syncs -> SyncRow] /\ sync'[p].pc = "idle"
       /\ \A q \in Syncs \ {p} : sync'[q] = sync[q]
  BY <1>1 DEF CatalogInv, CatalogTypes, SyncRow, IdleSync
<1>11. CatalogTypes' /\ VersionsReplace'
  BY <1>1, <1>8, <1>10 DEF CatalogInv, CatalogTypes, VersionsReplace, Alike
<1>12. h.at # Open
  BY <1>0, <1>2
<1>13. \A i \in 1 .. n : official'[i].to # Open
  <2>1. \A i \in 1 .. n : official[i].to = Open => i = h.row
    BY <1>1, <1>4 DEF CatalogInv, SyncsClose
  <2>2. QED
    BY <1>9, <1>12, <2>1
<1>14. \A i \in 1 .. n : official[i].from <= clock /\ (official[i].to # Open => official[i].to <= clock)
  BY <1>4 DEF CatalogInv, OneIsOpen
<1>15. OneIsOpen'
  <2>1. PICK at : at = h.at
    OBVIOUS
  <2>2. clock' = clock /\ at <= clock
    BY <1>1, <1>2, <2>1
  <2>3. \A i \in DOMAIN official' : i \in 1 .. n \/ i = n + 1
    BY <1>4, <1>8
  <2>4. /\ \A i \in 1 .. n : official'[i].from = official[i].from
        /\ \A i \in 1 .. n : official'[i].to = at \/ official'[i].to = official[i].to
        /\ official'[n + 1].from = at /\ official'[n + 1].to = Open
    BY Zenon, <1>9, <2>1
  <2>5. \A i \in DOMAIN official' : official'[i].from <= clock'
    BY <1>14, <2>2, <2>3, <2>4
  <2>6. \A i \in DOMAIN official' : official'[i].to # Open => official'[i].to <= clock'
    BY <1>14, <2>2, <2>3, <2>4
  <2>7. n + 1 \in DOMAIN official' /\ \A i \in DOMAIN official' : official'[i].to = Open <=> i = n + 1
    BY <1>8, <1>9, <1>13
  <2>8. QED
    BY <2>5, <2>6, <2>7, <1>9 DEF OneIsOpen, Open
<1>16. SyncsClose'
  <2>1. \A q \in Syncs : sync'[q].pc # "commit"
    BY <1>1, <1>10 DEF CatalogInv, SyncsClose
  <2>2. \A q \in Syncs : sync'[q].pc \in {"begun", "close", "insert", "commit"} => sync'[q].at <= clock'
    BY <1>1, <1>10 DEF CatalogInv, SyncsClose
  <2>3. QED
    BY <2>1, <2>2 DEF SyncsClose
<1>17. QED
  BY <1>11, <1>15, <1>16 DEF CatalogInv

\* Nothing is published.
LEMMA CatalogInitially == CatalogInit => CatalogInv
<1>1. SUFFICES ASSUME CatalogInit PROVE CatalogInv
  OBVIOUS
<1>2. versions = <<>> /\ official = <<>> /\ DOMAIN <<>> = {} /\ 0 \in 0 .. LastTime
  BY <1>1, CatalogAssumption DEF CatalogInit
<1>3. \A p \in Syncs : sync[p] = IdleSync /\ sync[p].pc = "idle"
  BY <1>1 DEF CatalogInit, IdleSync
<1>4. CatalogTypes
  BY <1>1, <1>2 DEF CatalogInit, CatalogTypes, SyncRow
<1>5. VersionsReplace /\ OneIsOpen
  BY <1>2 DEF VersionsReplace, OneIsOpen
<1>6. SyncsClose
  BY <1>2, <1>3 DEF SyncsClose
<1>7. QED
  BY <1>4, <1>5, <1>6 DEF CatalogInv

\* What is known of the versions holds while publications and synchronizations
\* interleave.
THEOREM CatalogInvariant == CatalogSpec => []CatalogInv
<1>1. CatalogInv /\ [CatalogNext]_catalogVars => CatalogInv'
  <2>1. SUFFICES ASSUME CatalogInv, [CatalogNext]_catalogVars PROVE CatalogInv'
    OBVIOUS
  <2>2. ASSUME NEW s \in Range(Scopes), NEW c \in Currencies, NEW t \in 0 .. LastTime, PublishPrice(s, c, t)
        PROVE  CatalogInv'
    <3>1. UNCHANGED <<official, sync, listing, clock>>
      BY <2>2 DEF PublishPrice
    <3>2. versions' \in Seq(ManualVersion) /\ VersionsReplace'
      BY <2>1, <2>2, PublishedVersions, PublishPriceReplaces DEF CatalogInv
    <3>3. QED
      BY <2>1, <3>1, <3>2 DEF CatalogInv, CatalogTypes, OneIsOpen, SyncsClose
  <2>3. ASSUME NEW p \in Syncs, SyncStep(p) PROVE CatalogInv'
    BY <2>1, <2>3, SyncStepKeeps, CommitSyncKeeps DEF SyncStep
  <2>4. CASE Relist
    BY <2>1, <2>4 DEF Relist, CatalogInv, CatalogTypes, VersionsReplace, Alike, OneIsOpen, SyncsClose
  <2>5. CASE TickCatalog
    <3>1. /\ UNCHANGED <<versions, official, sync, listing>> /\ clock \in Int /\ clock' \in Int
          /\ clock' \in 0 .. LastTime /\ clock <= clock'
      BY <2>1, <2>5, CatalogAssumption DEF TickCatalog, CatalogInv, CatalogTypes
    <3>2. CatalogTypes' /\ VersionsReplace'
      BY <2>1, <3>1 DEF CatalogInv, CatalogTypes, VersionsReplace, Alike
    <3>3. \A i \in DOMAIN official : official[i].from \in Int /\ official[i].to \in Int
      <4>1. \A v \in OfficialVersion : v.from \in Int /\ v.to \in Int
        BY CatalogAssumption DEF OfficialVersion, Open
      <4>2. QED
        BY <2>1, <4>1 DEF CatalogInv, CatalogTypes
    <3>4. OneIsOpen'
      BY <2>1, <3>1, <3>3 DEF CatalogInv, OneIsOpen
    <3>5. SyncsClose'
      <4>1. ASSUME NEW p \in Syncs, sync[p].pc \in {"begun", "close", "insert", "commit"}
            PROVE  sync[p].at <= clock'
        <5>1. sync[p] \in SyncRow /\ sync[p].at <= clock
          BY <2>1, <4>1 DEF CatalogInv, CatalogTypes, SyncsClose
        <5>2. sync[p].at \in 0 .. LastTime
          BY <4>1, <5>1, SyncRows
        <5>3. QED
          BY <3>1, <5>1, <5>2
      <4>2. QED
        BY <2>1, <3>1, <4>1 DEF CatalogInv, SyncsClose
    <3>6. QED
      BY <3>2, <3>4, <3>5 DEF CatalogInv
  <2>6. CASE UNCHANGED catalogVars
    BY <2>1, <2>6
       DEF catalogVars, CatalogInv, CatalogTypes, VersionsReplace, Alike, OneIsOpen, SyncsClose
  <2>7. QED
    BY <2>1, <2>2, <2>3, <2>4, <2>5, <2>6 DEF CatalogNext
<1>2. QED
  BY <1>1, CatalogInitially, PTL DEF CatalogSpec

\* The greatest element of a set of numbers: numbers up to n cannot grow forever.
LEMMA MaxOfPlaces ==
    ASSUME NEW n \in Nat, NEW S \in SUBSET (1 .. n), S # {}
    PROVE  Max(S) \in S /\ \A i \in S : i <= Max(S)
<1> DEFINE Gaps == {n - i : i \in S}
<1>1. Gaps \subseteq Nat /\ Gaps # {}
  OBVIOUS
<1>2. PICK g \in Gaps : \A h \in Gaps : <<h, g>> \notin Before
  BY <1>1, BeforeIsWellFounded, WFMin
<1>3. PICK m \in S : g = n - m
  BY <1>2
<1>4. ASSUME NEW i \in S PROVE i <= m
  <2>1. n - i \in Gaps /\ n - i \in Nat /\ g \in Nat
    BY <1>1, <1>2
  <2>2. ~(n - i < g)
    BY <1>2, <2>1 DEF Before
  <2>3. QED
    BY <1>3, <2>2
<1>5. \E x \in S : \A i \in S : x >= i
  BY <1>3, <1>4
<1>6. QED
  BY <1>5 DEF Max

\* What resolvePrice takes from a scope is in effect there, and published last.
LEMMA NewestInEffect ==
    ASSUME CatalogTypes, NEW s, InEffect(s) # {}
    PROVE  Max(InEffect(s)) \in InEffect(s) /\ \A i \in InEffect(s) : i <= Max(InEffect(s))
<1>1. PICK n \in Nat : n = Len(versions)
  BY DEF CatalogTypes
<1>2. InEffect(s) \in SUBSET (1 .. n)
  BY <1>1 DEF InEffect, CatalogTypes
<1>3. QED
  BY <1>2, MaxOfPlaces

\* A manual price is the newest of a scope, in the currency that was asked for.
LEMMA ManualPrice ==
    ASSUME CatalogTypes, NEW c, ResolvePrice(c).source = "manual"
    PROVE  \E s : /\ InEffect(s) # {} /\ ResolvePrice(c).at = Max(InEffect(s))
                  /\ versions[Max(InEffect(s))].currency = c
<1> DEFINE newest(s) == Max(InEffect(s))
           fits == {n \in DOMAIN Scopes : InEffect(Scopes[n]) # {} /\ versions[newest(Scopes[n])].currency = c}
<1>1. ResolvePrice(c) = IF fits # {} THEN Manual(newest(Scopes[Min(fits)])) ELSE ResolveOfficial(c)
  BY DEF ResolvePrice
<1>2. ResolveOfficial(c).source # "manual"
  BY DEF ResolveOfficial, Unpriced, Official
<1>3. fits # {} /\ ResolvePrice(c) = Manual(newest(Scopes[Min(fits)]))
  BY <1>1, <1>2
<1>4. Min(fits) \in fits
  <2>1. fits \in SUBSET {1, 2, 3, 4}
    BY DEF Scopes
  <2>2. PICK n : n \in fits
    BY <1>3
  <2> HIDE DEF fits
  <2>3. \E x \in fits : \A y \in fits : x <= y
    <3>1. CASE 1 \in fits
      BY <2>1, <3>1
    <3>2. CASE 1 \notin fits /\ 2 \in fits
      BY <2>1, <3>2
    <3>3. CASE 1 \notin fits /\ 2 \notin fits /\ 3 \in fits
      BY <2>1, <3>3
    <3>4. CASE 1 \notin fits /\ 2 \notin fits /\ 3 \notin fits
      BY <2>1, <2>2, <3>4
    <3>5. QED
      BY <3>1, <3>2, <3>3, <3>4
  <2>4. QED
    BY <2>3 DEF Min
<1>5. PICK s : s = Scopes[Min(fits)]
  OBVIOUS
<1>6. InEffect(s) # {} /\ versions[newest(s)].currency = c
  BY <1>4, <1>5
<1>7. ResolvePrice(c).at = newest(s)
  BY <1>3, <1>5 DEF Manual
<1>8. QED
  BY <1>6, <1>7

\* A version published later for the scope and currency of a manual price is not
\* in effect: the active one that replaced it would be newer than the newest.
LEMMA ManualIsCurrent ==
    ASSUME CatalogInv, NEW c \in Currencies, ResolvePrice(c).source = "manual",
           NEW i \in DOMAIN versions, i > ResolvePrice(c).at, versions[i].from <= clock, versions[i].currency = c
    PROVE  versions[i].scope # versions[ResolvePrice(c).at].scope
<1>1. PICK s : /\ InEffect(s) # {} /\ ResolvePrice(c).at = Max(InEffect(s))
               /\ versions[Max(InEffect(s))].currency = c
  BY ManualPrice DEF CatalogInv
<1>2. PICK a \in DOMAIN versions : /\ a = ResolvePrice(c).at /\ versions[a].scope = s
                                   /\ versions[a].status = "active" /\ versions[a].from <= clock
                                   /\ versions[a].currency = c
                                   /\ \A j \in InEffect(s) : j <= a
  BY <1>1, NewestInEffect DEF CatalogInv, InEffect
<1>3. SUFFICES ASSUME versions[i].scope = s PROVE FALSE
  BY <1>2
<1>4. /\ clock \in Int /\ DOMAIN versions \subseteq Int
      /\ \A j \in DOMAIN versions : versions[j].from \in Int /\ versions[j].status \in {"active", "retired"}
  <2>1. \A v \in ManualVersion : v.from \in Int /\ v.status \in {"active", "retired"}
    BY DEF ManualVersion
  <2>2. QED
    BY <2>1 DEF CatalogInv, CatalogTypes
<1>5. CASE versions[i].status = "active"
  BY <1>2, <1>3, <1>4, <1>5 DEF InEffect
<1>6. CASE versions[i].status = "retired"
  <2>1. PICK j \in DOMAIN versions : /\ i < j /\ Alike(i, j) /\ versions[j].status = "active"
    BY <1>6 DEF CatalogInv, VersionsReplace
  <2>2. a < j /\ Alike(a, j)
    BY <1>2, <1>3, <1>4, <2>1 DEF Alike
  <2>3. versions[j].from <= versions[a].from
    BY <1>2, <2>2 DEF CatalogInv, VersionsReplace
  <2>4. j \in InEffect(s)
    BY <1>2, <1>3, <1>4, <2>1, <2>3 DEF InEffect, Alike
  <2>5. QED
    BY <1>2, <1>4, <2>2, <2>4
<1>7. QED
  BY <1>4, <1>5, <1>6

\* Where there is no manual price, the one open official version is found and shown.
LEMMA OfficialIsCurrent ==
    ASSUME CatalogInv, official # <<>>, versions = <<>>
    PROVE  ResolvePrice("USD") = ShownPrice /\ ShownPrice.source = "litellm"
<1>1. PICK o \in DOMAIN official : \A i \in DOMAIN official : official[i].to = Open <=> i = o
  BY DEF CatalogInv, OneIsOpen
<1>2. \A s : InEffect(s) = {}
  BY DEF InEffect
<1>3. ResolvePrice("USD") = ResolveOfficial("USD")
  BY <1>2 DEF ResolvePrice
<1>4. clock \in 0 .. LastTime /\ LastTime \in Nat /\ clock < Open
  BY CatalogAssumption DEF CatalogInv, CatalogTypes, Open
<1>5. \A i \in DOMAIN official : official[i].from \in Int /\ official[i].to \in Int
  <2>1. \A v \in OfficialVersion : v.from \in Int /\ v.to \in Int
    BY CatalogAssumption DEF OfficialVersion, Open
  <2>2. QED
    BY <2>1 DEF CatalogInv, CatalogTypes
<1>6. {i \in DOMAIN official : official[i].from <= clock /\ clock < official[i].to} = {o}
  <2>1. \A i \in DOMAIN official : official[i].from <= clock /\ (official[i].to # Open => official[i].to <= clock)
    BY DEF CatalogInv, OneIsOpen
  <2>2. QED
    BY <1>1, <1>4, <1>5, <2>1
<1>7. {i \in {o} : \A j \in {o} : official[j].from <= official[i].from} = {o}
  BY <1>5
<1>8. ResolveOfficial("USD") = Official(o)
  BY <1>6, <1>7 DEF ResolveOfficial
<1>9. {i \in DOMAIN official : official[i].to = Open} = {o}
  BY <1>1
<1>10. {i \in InEffect("platform_default") : versions[i].currency = "USD"} = {}
  BY <1>2
<1>11. ShownPrice = Official(o)
  BY <1>9, <1>10 DEF ShownPrice
<1>12. QED
  BY <1>3, <1>8, <1>11 DEF Official

\* Calls and the price matrix get the same, current official price; a manual price
\* is never one that has been replaced.
THEOREM PricesStayCurrent == CatalogSpec => []PricesAreCurrent
<1>1. CatalogInv => PricesAreCurrent
  <2>1. SUFFICES ASSUME CatalogInv PROVE PricesAreCurrent
    OBVIOUS
  <2>2. \A i, j \in DOMAIN official : official[i].to = Open /\ official[j].to = Open => i = j
    BY <2>1 DEF CatalogInv, OneIsOpen
  <2>3. ASSUME NEW c \in Currencies, ResolvePrice(c).source = "manual", NEW i \in DOMAIN versions,
               i > ResolvePrice(c).at /\ versions[i].from <= clock /\ versions[i].currency = c
        PROVE  versions[i].scope # versions[ResolvePrice(c).at].scope
    BY <2>1, <2>3, ManualIsCurrent
  <2>4. QED
    BY <2>1, <2>2, <2>3, OfficialIsCurrent DEF PricesAreCurrent
<1>2. QED
  BY <1>1, CatalogInvariant, PTL

-----------------------------------------------------------------------------
(* Sums over finite sets                                                   *)

\* A set of naturals with 0 and the successor of each of its elements has them all.
LEMMA NumberInduction ==
    ASSUME NEW S, S \subseteq Nat, 0 \in S, \A n \in S : n + 1 \in S
    PROVE  \A n \in Nat : n \in S
<1>1. SUFFICES ASSUME Nat \ S # {} PROVE FALSE
  OBVIOUS
<1>2. PICK n \in Nat \ S : \A m \in Nat \ S : <<m, n>> \notin Before
  BY <1>1, BeforeIsWellFounded, WFMin
<1>3. n # 0
  BY <1>2
<1>4. n - 1 \in Nat \ S
  BY <1>2, <1>3
<1>5. <<n - 1, n>> \in Before
  BY <1>2, <1>3 DEF Before
<1>6. QED
  BY <1>2, <1>4, <1>5

\* A family of sets holds every subset of S if it holds each that is empty or that
\* becomes a member of the family by the loss of any element.
LEMMA SubsetInduction ==
    ASSUME NEW S, IsFiniteSet(S), NEW F, {} \in F,
           \A T \in SUBSET S : T # {} /\ (\A x \in T : T \ {x} \in F) => T \in F
    PROVE  SUBSET S \subseteq F
<1> DEFINE Has == {n \in Nat : \A T \in SUBSET S : Cardinality(T) = n => T \in F}
<1>1. \A T \in SUBSET S : IsFiniteSet(T) /\ Cardinality(T) \in Nat
  BY FS_Subset, FS_CardinalityType
<1>2. 0 \in Has
  BY <1>1, FS_EmptySet
<1>3. ASSUME NEW n \in Has PROVE n + 1 \in Has
  <2>1. SUFFICES ASSUME NEW T \in SUBSET S, Cardinality(T) = n + 1 PROVE T \in F
    OBVIOUS
  <2>2. T # {}
    <3>1. n \in Nat /\ n + 1 # 0
      OBVIOUS
    <3>2. QED
      BY <2>1, <3>1, FS_EmptySet
  <2>3. ASSUME NEW x \in T PROVE T \ {x} \in F
    <3>1. Cardinality(T \ {x}) = n
      BY <1>1, <2>1, FS_RemoveElement
    <3>2. T \ {x} \in SUBSET S
      OBVIOUS
    <3>3. QED
      BY <3>1, <3>2
  <2>4. QED
    BY <2>2, <2>3
<1>4. Has \subseteq Nat
  OBVIOUS
<1> HIDE DEF Has
<1>5. \A n \in Nat : n \in Has
  BY <1>2, <1>3, <1>4, NumberInduction
<1>6. ASSUME NEW T \in SUBSET S PROVE T \in F
  BY <1>1, <1>5 DEF Has
<1>7. QED
  BY <1>6

\* The element that a sum takes from a set, and the sums of f over the sets of L
Taken(s)         == CHOOSE x \in s : TRUE
IsSums(g, f, L)  == g = [s \in L |-> IF s = {} THEN 0 ELSE f[Taken(s)] + g[s \ {Taken(s)}]]

\* A sum is the entry of its set in such a function.
LEMMA SumIsEntry ==
    ASSUME NEW f, NEW S
    PROVE  SumFunctionOnSet(f, S) = (CHOOSE g : IsSums(g, f, SUBSET S))[S]
BY DEF SumFunctionOnSet, FoldFunctionOnSet, MapThenFoldSet, IsSums, Taken

\* There is one over the subsets of a finite set.
LEMMA SumsExist ==
    ASSUME NEW S, IsFiniteSet(S), NEW f, \A x \in S : f[x] \in Int
    PROVE  \E g : IsSums(g, f, SUBSET S) /\ g \in [SUBSET S -> Int]
<1> DEFINE Upto(n) == {T \in SUBSET S : Cardinality(T) <= n}
<1> DEFINE Has == {n \in Nat : \E g : IsSums(g, f, Upto(n)) /\ g \in [Upto(n) -> Int]}
<1>1. \A T \in SUBSET S : IsFiniteSet(T) /\ Cardinality(T) \in Nat
  BY FS_Subset, FS_CardinalityType
<1>2. ASSUME NEW T \in SUBSET S, T # {}
      PROVE  /\ Taken(T) \in T /\ T \ {Taken(T)} \in SUBSET S
             /\ Cardinality(T \ {Taken(T)}) = Cardinality(T) - 1
  <2>1. Taken(T) \in T
    BY <1>2 DEF Taken
  <2>2. QED
    BY <1>1, <2>1, FS_RemoveElement
<1>3. 0 \in Has
  <2> DEFINE g == [s \in Upto(0) |-> 0]
  <2>1. \A s \in Upto(0) : s = {}
    BY <1>1, FS_EmptySet
  <2>2. IsSums(g, f, Upto(0))
    BY <2>1 DEF IsSums
  <2>3. g \in [Upto(0) -> Int]
    OBVIOUS
  <2> HIDE DEF g, Upto
  <2>4. QED
    BY <2>2, <2>3
<1>4. ASSUME NEW n \in Has PROVE n + 1 \in Has
  <2>1. PICK g : IsSums(g, f, Upto(n)) /\ g \in [Upto(n) -> Int]
    OBVIOUS
  <2> DEFINE h == [s \in Upto(n + 1) |-> IF s = {} THEN 0 ELSE f[Taken(s)] + g[s \ {Taken(s)}]]
  <2>2. ASSUME NEW s \in Upto(n + 1), s # {}
        PROVE  s \ {Taken(s)} \in Upto(n) /\ s \ {Taken(s)} \in Upto(n + 1) /\ f[Taken(s)] \in Int
    BY <1>1, <1>2, <2>2
  <2>3. \A s \in Upto(n) : s \in Upto(n + 1)
    BY <1>1
  <2>4. ASSUME NEW s \in Upto(n) PROVE h[s] = g[s]
    BY <2>1, <2>3 DEF IsSums
  <2>5. h \in [Upto(n + 1) -> Int]
    BY <2>1, <2>2
  <2>6. IsSums(h, f, Upto(n + 1))
    <3>1. \A s \in Upto(n + 1) : s # {} => h[s \ {Taken(s)}] = g[s \ {Taken(s)}]
      BY <2>2, <2>4
    <3> HIDE DEF Upto
    <3>2. QED
      BY <3>1 DEF IsSums
  <2> HIDE DEF h, Upto
  <2>7. QED
    BY <2>5, <2>6
<1>5. Has \subseteq Nat
  OBVIOUS
<1>6. Cardinality(S) \in Has
  <2> HIDE DEF Has
  <2>1. QED
    BY <1>1, <1>3, <1>4, <1>5, NumberInduction
<1>7. Upto(Cardinality(S)) = SUBSET S
  BY FS_Subset
<1>8. QED
  BY <1>6, <1>7

\* Two of them agree where both are defined.
LEMMA SumsAgree ==
    ASSUME NEW S, IsFiniteSet(S), NEW T \in SUBSET S, NEW f, NEW g, NEW h,
           IsSums(g, f, SUBSET S), IsSums(h, f, SUBSET T)
    PROVE  g[T] = h[T]
<1> DEFINE F == {s \in SUBSET T : g[s] = h[s]}
<1>1. {} \in F
  BY DEF IsSums
<1>2. ASSUME NEW s \in SUBSET T, s # {}, \A x \in s : s \ {x} \in F PROVE s \in F
  <2>1. Taken(s) \in s
    BY <1>2 DEF Taken
  <2>2. g[s] = f[Taken(s)] + g[s \ {Taken(s)}]
    BY <1>2, <2>1 DEF IsSums
  <2>3. h[s] = f[Taken(s)] + h[s \ {Taken(s)}]
    BY <1>2, <2>1 DEF IsSums
  <2>4. QED
    BY <1>2, <2>1, <2>2, <2>3
<1>3. IsFiniteSet(T)
  BY FS_Subset
<1>4. SUBSET T \subseteq F
  <2> HIDE DEF F
  <2>1. QED
    BY <1>1, <1>2, <1>3, SubsetInduction
<1>5. QED
  BY <1>4

\* The element that is taken first makes no difference.
LEMMA SumsInAnyOrder ==
    ASSUME NEW S, IsFiniteSet(S), NEW f, \A x \in S : f[x] \in Int,
           NEW g \in [SUBSET S -> Int], IsSums(g, f, SUBSET S), NEW x \in S
    PROVE  g[S] = f[x] + g[S \ {x}]
<1> DEFINE F == {s \in SUBSET S : \A y \in s : g[s] = f[y] + g[s \ {y}]}
<1>1. {} \in F
  OBVIOUS
<1>2. ASSUME NEW s \in SUBSET S, s # {}, \A y \in s : s \ {y} \in F PROVE s \in F
  <2>1. SUFFICES ASSUME NEW y \in s PROVE g[s] = f[y] + g[s \ {y}]
    OBVIOUS
  <2> DEFINE z == Taken(s)
  <2>2. z \in s
    BY <1>2 DEF Taken
  <2>3. g[s] = f[z] + g[s \ {z}]
    BY <1>2, <2>2 DEF IsSums
  <2> HIDE DEF z
  <2>4. CASE y = z
    BY <2>3, <2>4
  <2>5. CASE y # z
    <3>1. g[s \ {z}] = f[y] + g[(s \ {z}) \ {y}]
      BY <1>2, <2>2, <2>5
    <3>2. g[s \ {y}] = f[z] + g[(s \ {y}) \ {z}]
      BY <1>2, <2>2, <2>5
    <3>3. (s \ {z}) \ {y} = (s \ {y}) \ {z}
      OBVIOUS
    <3>4. f[y] \in Int /\ f[z] \in Int /\ g[(s \ {y}) \ {z}] \in Int
      BY <2>2
    <3>5. PICK rest \in Int : rest = g[(s \ {y}) \ {z}]
      BY <3>4
    <3>6. g[s] = f[z] + (f[y] + rest) /\ g[s \ {y}] = f[z] + rest
      BY <2>3, <3>1, <3>2, <3>3, <3>5
    <3>7. QED
      BY <3>4, <3>6
  <2>6. QED
    BY <2>4, <2>5
<1>3. SUBSET S \subseteq F
  <2> HIDE DEF F
  <2>1. QED
    BY <1>1, <1>2, SubsetInduction
<1>4. QED
  BY <1>3

\* A sum over no elements.
LEMMA SumOfNothing == \A f : SumFunctionOnSet(f, {}) = 0
<1>1. SUFFICES ASSUME NEW f PROVE SumFunctionOnSet(f, {}) = 0
  OBVIOUS
<1>2. IsFiniteSet({}) /\ \A x \in {} : f[x] \in Int
  BY FS_EmptySet
<1>3. \E g : IsSums(g, f, SUBSET {})
  BY <1>2, SumsExist
<1>4. PICK g : g = (CHOOSE h : IsSums(h, f, SUBSET {})) /\ IsSums(g, f, SUBSET {})
  BY <1>3
<1>5. g[{}] = 0
  BY <1>4 DEF IsSums
<1>6. QED
  BY <1>4, <1>5, SumIsEntry

\* A sum is any of its terms and the sum of the others.
LEMMA SumTakesOut ==
    ASSUME NEW S, IsFiniteSet(S), NEW f, \A y \in S : f[y] \in Int
    PROVE  /\ SumFunctionOnSet(f, S) \in Int
           /\ \A x \in S : SumFunctionOnSet(f, S) = f[x] + SumFunctionOnSet(f, S \ {x})
<1>1. PICK g : IsSums(g, f, SUBSET S) /\ g \in [SUBSET S -> Int]
  BY SumsExist
<1>2. ASSUME NEW T \in SUBSET S PROVE SumFunctionOnSet(f, T) = g[T]
  <2>1. IsFiniteSet(T) /\ \A y \in T : f[y] \in Int
    BY FS_Subset
  <2>2. \E h : IsSums(h, f, SUBSET T)
    BY <2>1, SumsExist
  <2>3. PICK h : h = (CHOOSE k : IsSums(k, f, SUBSET T)) /\ IsSums(h, f, SUBSET T)
    BY <2>2
  <2>4. g[T] = h[T]
    BY <1>1, <2>3, SumsAgree
  <2>5. QED
    BY <2>3, <2>4, SumIsEntry
<1>3. ASSUME NEW x \in S PROVE g[S] = f[x] + g[S \ {x}]
  BY <1>1, SumsInAnyOrder
<1>4. S \in SUBSET S /\ \A x \in S : S \ {x} \in SUBSET S
  OBVIOUS
<1>5. QED
  BY <1>1, <1>2, <1>3, <1>4

\* A sum and one more term.
LEMMA SumAddsOne ==
    ASSUME NEW S, IsFiniteSet(S), NEW x, x \notin S, NEW f, \A y \in S \cup {x} : f[y] \in Int
    PROVE  SumFunctionOnSet(f, S \cup {x}) = SumFunctionOnSet(f, S) + f[x]
<1>1. IsFiniteSet(S \cup {x})
  BY FS_AddElement
<1>2. (S \cup {x}) \ {x} = S
  OBVIOUS
<1>3. SumFunctionOnSet(f, S \cup {x}) = f[x] + SumFunctionOnSet(f, S)
  BY <1>1, <1>2, SumTakesOut
<1>4. SumFunctionOnSet(f, S) \in Int /\ f[x] \in Int
  BY SumTakesOut
<1>5. QED
  BY <1>3, <1>4

\* Functions that agree on a set have one sum over it.
LEMMA SumOfSame ==
    ASSUME NEW S, IsFiniteSet(S), NEW f, NEW g, \A x \in S : f[x] \in Int /\ f[x] = g[x]
    PROVE  SumFunctionOnSet(f, S) = SumFunctionOnSet(g, S)
<1> DEFINE F == {T \in SUBSET S : SumFunctionOnSet(f, T) = SumFunctionOnSet(g, T)}
<1>1. {} \in F
  BY SumOfNothing
<1>2. ASSUME NEW T \in SUBSET S, T # {}, \A x \in T : T \ {x} \in F PROVE T \in F
  <2>1. PICK x \in T : TRUE
    BY <1>2
  <2>2. IsFiniteSet(T)
    BY FS_Subset
  <2>3. SumFunctionOnSet(f, T) = f[x] + SumFunctionOnSet(f, T \ {x})
    BY <2>2, SumTakesOut
  <2>4. SumFunctionOnSet(g, T) = g[x] + SumFunctionOnSet(g, T \ {x})
    <3>1. \A y \in T : g[y] \in Int
      OBVIOUS
    <3>2. QED
      BY <2>2, <3>1, SumTakesOut
  <2>5. QED
    BY <1>2, <2>3, <2>4
<1>3. SUBSET S \subseteq F
  <2> HIDE DEF F
  <2>1. QED
    BY <1>1, <1>2, SubsetInduction
<1>4. QED
  BY <1>3

\* The sum over two sets that share nothing.
LEMMA SumOfTwoSets ==
    ASSUME NEW S, IsFiniteSet(S), NEW R, IsFiniteSet(R), S \cap R = {},
           NEW f, \A x \in S \cup R : f[x] \in Int
    PROVE  SumFunctionOnSet(f, S \cup R) = SumFunctionOnSet(f, S) + SumFunctionOnSet(f, R)
<1> DEFINE F == {T \in SUBSET S : SumFunctionOnSet(f, T \cup R) = SumFunctionOnSet(f, T) + SumFunctionOnSet(f, R)}
<1>1. {} \in F
  <2>1. SumFunctionOnSet(f, R) \in Int
    BY SumTakesOut
  <2>2. {} \cup R = R
    OBVIOUS
  <2>3. QED
    BY <2>1, <2>2, SumOfNothing
<1>2. ASSUME NEW T \in SUBSET S, T # {}, \A x \in T : T \ {x} \in F PROVE T \in F
  <2>1. PICK x \in T : TRUE
    BY <1>2
  <2>2. IsFiniteSet(T) /\ IsFiniteSet(T \cup R) /\ IsFiniteSet(T \ {x})
    BY FS_Subset, FS_Union
  <2>3. SumFunctionOnSet(f, T) = f[x] + SumFunctionOnSet(f, T \ {x})
    BY <2>2, SumTakesOut
  <2>4. SumFunctionOnSet(f, T \cup R) = f[x] + SumFunctionOnSet(f, (T \cup R) \ {x})
    BY <2>2, SumTakesOut
  <2>5. (T \cup R) \ {x} = (T \ {x}) \cup R
    OBVIOUS
  <2>6. SumFunctionOnSet(f, (T \ {x}) \cup R) = SumFunctionOnSet(f, T \ {x}) + SumFunctionOnSet(f, R)
    BY <1>2
  <2>7. SumFunctionOnSet(f, T \ {x}) \in Int /\ SumFunctionOnSet(f, R) \in Int /\ f[x] \in Int
    BY <2>2, SumTakesOut
  <2>8. PICK a \in Int, b \in Int, c \in Int :
           a = f[x] /\ b = SumFunctionOnSet(f, T \ {x}) /\ c = SumFunctionOnSet(f, R)
    BY <2>7
  <2>9. SumFunctionOnSet(f, T) = a + b /\ SumFunctionOnSet(f, T \cup R) = a + (b + c)
    BY <2>3, <2>4, <2>5, <2>6, <2>8
  <2>10. QED
    BY <2>8, <2>9
<1>3. SUBSET S \subseteq F
  <2> HIDE DEF F
  <2>1. QED
    BY <1>1, <1>2, SubsetInduction
<1>4. QED
  BY <1>3

\* A sum of naturals is no less than any of its terms.
LEMMA SumOfNaturals ==
    ASSUME NEW S, IsFiniteSet(S), NEW f, \A x \in S : f[x] \in Nat
    PROVE  SumFunctionOnSet(f, S) \in Nat /\ \A x \in S : f[x] <= SumFunctionOnSet(f, S)
<1> DEFINE F == {T \in SUBSET S : SumFunctionOnSet(f, T) \in Nat}
<1>1. {} \in F
  BY SumOfNothing
<1>2. ASSUME NEW T \in SUBSET S PROVE \A x \in T : SumFunctionOnSet(f, T) = f[x] + SumFunctionOnSet(f, T \ {x})
  <2>1. IsFiniteSet(T) /\ \A y \in T : f[y] \in Int
    BY FS_Subset
  <2>2. QED
    BY <2>1, SumTakesOut
<1>3. ASSUME NEW T \in SUBSET S, T # {}, \A x \in T : T \ {x} \in F PROVE T \in F
  <2>1. PICK x \in T : TRUE
    BY <1>3
  <2>2. SumFunctionOnSet(f, T) = f[x] + SumFunctionOnSet(f, T \ {x})
    BY <1>2
  <2>3. QED
    BY <1>3, <2>2
<1>4. SUBSET S \subseteq F
  <2> HIDE DEF F
  <2>1. QED
    BY <1>1, <1>3, SubsetInduction
<1>5. ASSUME NEW x \in S PROVE f[x] <= SumFunctionOnSet(f, S)
  <2>1. SumFunctionOnSet(f, S) = f[x] + SumFunctionOnSet(f, S \ {x})
    BY <1>2
  <2>2. SumFunctionOnSet(f, S \ {x}) \in Nat
    BY <1>4
  <2>3. QED
    BY <2>1, <2>2
<1>6. QED
  BY <1>4, <1>5

-----------------------------------------------------------------------------
(* Quantities of a usage                                                   *)

\* The smaller and the greater of two numbers.
LEMMA OfTwo ==
    ASSUME NEW a \in Int, NEW b \in Int
    PROVE  /\ Min({a, b}) = IF a <= b THEN a ELSE b
           /\ Max({a, b}) = IF a <= b THEN b ELSE a
<1>1. Min({a, b}) = IF a <= b THEN a ELSE b
  <2>1. CASE a <= b
    BY <2>1 DEF Min
  <2>2. CASE ~(a <= b)
    BY <2>2 DEF Min
  <2>3. QED
    BY <2>1, <2>2
<1>2. Max({a, b}) = IF a <= b THEN b ELSE a
  <2>1. CASE a <= b
    BY <2>1 DEF Max
  <2>2. CASE ~(a <= b)
    BY <2>2 DEF Max
  <2>3. QED
    BY <2>1, <2>2
<1>3. QED
  BY <1>1, <1>2

\* A quantity is a natural.
LEMMA QuantityIsNatural == \A u : IsUsage(u) => \A c : Quantity(u, c) \in Nat
BY DEF IsUsage, Quantity

\* Two usages count the same.
Same(u, v) == \A c : Quantity(u, c) = Quantity(v, c)

\* The sum of some meters of a usage: its terms, in any order.
LEMMA SumOfMeters ==
    ASSUME NEW u, IsUsage(u), NEW cs, IsFiniteSet(cs)
    PROVE  /\ SumOver(u, cs) \in Nat
           /\ \A c \in cs : Quantity(u, c) <= SumOver(u, cs)
           /\ \A c : c \notin cs => SumOver(u, cs \cup {c}) = SumOver(u, cs) + Quantity(u, c)
<1> DEFINE f(ds) == [c \in ds |-> Quantity(u, c)]
<1>1. \A c : Quantity(u, c) \in Nat
  BY QuantityIsNatural
<1>2. SumOver(u, cs) \in Nat /\ \A c \in cs : Quantity(u, c) <= SumOver(u, cs)
  BY <1>1, SumOfNaturals DEF SumOver
<1>3. ASSUME NEW c, c \notin cs PROVE SumOver(u, cs \cup {c}) = SumOver(u, cs) + Quantity(u, c)
  <2> DEFINE g == f(cs \cup {c})
  <2>1. \A y \in cs \cup {c} : g[y] = Quantity(u, y)
    OBVIOUS
  <2>2. SumFunctionOnSet(g, cs \cup {c}) = SumFunctionOnSet(g, cs) + g[c]
    <3>1. \A y \in cs \cup {c} : g[y] \in Int
      BY <1>1, <2>1
    <3> HIDE DEF g
    <3>2. QED
      BY <1>3, <3>1, SumAddsOne
  <2>3. SumFunctionOnSet(g, cs) = SumFunctionOnSet(f(cs), cs)
    <3>1. \A y \in cs : g[y] \in Int /\ g[y] = f(cs)[y]
      BY <1>1
    <3> HIDE DEF g, f
    <3>2. QED
      BY <3>1, SumOfSame
  <2>4. QED
    BY <2>2, <2>3 DEF SumOver
<1>4. QED
  BY <1>2, <1>3

\* The sum of no meters, and of two sets of meters that share none.
LEMMA SumOfMoreMeters ==
    ASSUME NEW u, IsUsage(u), NEW cs, IsFiniteSet(cs), NEW ds, IsFiniteSet(ds), cs \cap ds = {}
    PROVE  SumOver(u, {}) = 0 /\ SumOver(u, cs \cup ds) = SumOver(u, cs) + SumOver(u, ds)
<1>1. \A c : Quantity(u, c) \in Nat
  BY QuantityIsNatural
<1>2. SumOver(u, {}) = 0
  BY SumOfNothing DEF SumOver
<1> DEFINE g == [c \in cs \cup ds |-> Quantity(u, c)]
<1>3. SumFunctionOnSet(g, cs \cup ds) = SumFunctionOnSet(g, cs) + SumFunctionOnSet(g, ds)
  <2>1. \A y \in cs \cup ds : g[y] \in Int
    BY <1>1
  <2> HIDE DEF g
  <2>2. QED
    BY <2>1, SumOfTwoSets
<1>4. SumFunctionOnSet(g, cs) = SumOver(u, cs)
  <2> DEFINE h == [c \in cs |-> Quantity(u, c)]
  <2>1. \A y \in cs : g[y] \in Int /\ g[y] = h[y]
    BY <1>1
  <2> HIDE DEF g
  <2>2. SumFunctionOnSet(g, cs) = SumFunctionOnSet(h, cs)
    <3> HIDE DEF h
    <3>1. QED
      BY <2>1, SumOfSame
  <2>3. QED
    BY <2>2 DEF SumOver
<1>5. SumFunctionOnSet(g, ds) = SumOver(u, ds)
  <2> DEFINE h == [c \in ds |-> Quantity(u, c)]
  <2>1. \A y \in ds : g[y] \in Int /\ g[y] = h[y]
    BY <1>1
  <2> HIDE DEF g
  <2>2. SumFunctionOnSet(g, ds) = SumFunctionOnSet(h, ds)
    <3> HIDE DEF h
    <3>1. QED
      BY <2>1, SumOfSame
  <2>3. QED
    BY <2>2 DEF SumOver
<1>6. QED
  BY <1>2, <1>3, <1>4, <1>5 DEF SumOver

\* Usages that agree on some meters have one sum of them.
LEMMA SumOfSameMeters ==
    ASSUME NEW u, IsUsage(u), NEW v, NEW cs, \A c \in cs : Quantity(u, c) = Quantity(v, c), IsFiniteSet(cs)
    PROVE  SumOver(u, cs) = SumOver(v, cs)
<1>1. \A c : Quantity(u, c) \in Nat
  BY QuantityIsNatural
<1>2. [c \in cs |-> Quantity(u, c)] = [c \in cs |-> Quantity(v, c)]
  OBVIOUS
<1>3. QED
  BY <1>2 DEF SumOver

-----------------------------------------------------------------------------
(* Parents and parts                                                       *)

\* The parts, listed; a total is no part, and the parts of a modality are no parents.
LEMMA PartsListed ==
    /\ PartsOf("input_audio_tokens") = {"cache_creation_audio_tokens", "cached_audio_tokens"}
    /\ PartsOf("input_image_tokens") = {"cached_image_tokens"}
    /\ PartsOf("input_video_tokens") = {"cached_video_tokens"}
    /\ PartsOf("input_tokens") =
          {"cached_input_tokens", "cache_creation_tokens", "cache_creation_1h_tokens"} \cup Modalities
    /\ PartsOf("output_tokens") =
          {"reasoning_tokens", "output_audio_tokens", "output_image_tokens", "output_video_tokens"}
    /\ DOMAIN Parts = TotalMeters \cup Modalities
    /\ \A p \in DOMAIN Parts : \E n \in Nat : DOMAIN Parts[p] = 1 .. n
<1>1. DOMAIN Parts = TotalMeters \cup Modalities
  BY DEF Parts, TotalMeters, Modalities
<1>2. PartsOf("input_audio_tokens") = {"cache_creation_audio_tokens", "cached_audio_tokens"}
  <2>1. Parts["input_audio_tokens"] = <<"cache_creation_audio_tokens", "cached_audio_tokens">>
    BY DEF Parts
  <2>2. QED
    BY <2>1 DEF PartsOf, Range
<1>3. PartsOf("input_image_tokens") = {"cached_image_tokens"}
  <2>1. Parts["input_image_tokens"] = <<"cached_image_tokens">>
    BY DEF Parts
  <2>2. QED
    BY <2>1 DEF PartsOf, Range
<1>4. PartsOf("input_video_tokens") = {"cached_video_tokens"}
  <2>1. Parts["input_video_tokens"] = <<"cached_video_tokens">>
    BY DEF Parts
  <2>2. QED
    BY <2>1 DEF PartsOf, Range
<1>5. PartsOf("input_tokens") =
          {"cached_input_tokens", "cache_creation_tokens", "cache_creation_1h_tokens"} \cup Modalities
  <2>1. Parts["input_tokens"] = <<"cached_input_tokens", "cache_creation_tokens", "cache_creation_1h_tokens",
                         "input_audio_tokens", "input_image_tokens", "input_video_tokens">>
    BY DEF Parts
  <2>2. QED
    BY <2>1 DEF PartsOf, Range, Modalities
<1>6. PartsOf("output_tokens") =
          {"reasoning_tokens", "output_audio_tokens", "output_image_tokens", "output_video_tokens"}
  <2>1. Parts["output_tokens"] = <<"reasoning_tokens", "output_audio_tokens", "output_image_tokens",
                         "output_video_tokens">>
    BY DEF Parts
  <2>2. QED
    BY <2>1 DEF PartsOf, Range
<1>7. \A p \in DOMAIN Parts : \E n \in Nat : DOMAIN Parts[p] = 1 .. n
  <2>1. DOMAIN Parts["input_audio_tokens"] = 1 .. 2 /\ DOMAIN Parts["input_image_tokens"] = 1 .. 1
    BY DEF Parts
  <2>2. DOMAIN Parts["input_video_tokens"] = 1 .. 1 /\ DOMAIN Parts["output_tokens"] = 1 .. 4
    BY DEF Parts
  <2>3. DOMAIN Parts["input_tokens"] = 1 .. 6
    BY DEF Parts
  <2>4. QED
    BY <1>1, <2>1, <2>2, <2>3 DEF TotalMeters, Modalities
<1>8. QED
  BY <1>1, <1>2, <1>3, <1>4, <1>5, <1>6, <1>7

\* A total is no part, and the parts of a modality are no parents.
LEMMA PartsAreLevelled ==
    /\ \A p \in DOMAIN Parts : PartsOf(p) \cap TotalMeters = {}
    /\ \A p \in Modalities : PartsOf(p) \cap DOMAIN Parts = {}
    /\ \A p \in TotalMeters, q \in Modalities : PartsOf(p) \cap PartsOf(q) = {}
    /\ TotalMeters \cap Modalities = {}
    /\ PartsOf("output_tokens") \cap DOMAIN Parts = {}
    /\ \A p \in DOMAIN Parts : IsFiniteSet(PartsOf(p))
<1>1. \A p \in DOMAIN Parts : PartsOf(p) \cap TotalMeters = {}
  BY PartsListed DEF TotalMeters, Modalities
<1>2. \A p \in Modalities : PartsOf(p) \cap DOMAIN Parts = {}
  BY PartsListed DEF TotalMeters, Modalities
<1>3. \A p \in TotalMeters, q \in Modalities : PartsOf(p) \cap PartsOf(q) = {}
  BY PartsListed DEF TotalMeters, Modalities
<1>4. TotalMeters \cap Modalities = {} /\ PartsOf("output_tokens") \cap DOMAIN Parts = {}
  BY PartsListed DEF TotalMeters, Modalities
<1>5. \A p \in DOMAIN Parts : IsFiniteSet(PartsOf(p))
  <2>1. SUFFICES ASSUME NEW p \in DOMAIN Parts PROVE IsFiniteSet(PartsOf(p))
    OBVIOUS
  <2>2. PICK n \in Nat : DOMAIN Parts[p] = 1 .. n
    BY PartsListed
  <2>3. PartsOf(p) = {Parts[p][i] : i \in 1 .. n}
    BY <2>2 DEF PartsOf, Range
  <2> DEFINE f == [i \in 1 .. n |-> Parts[p][i]]
  <2>4. f \in Surjection(1 .. n, PartsOf(p))
    BY <2>3 DEF Surjection
  <2>5. QED
    BY <2>4, FS_Interval, FS_Surjection
<1>6. QED
  BY <1>1, <1>2, <1>3, <1>4, <1>5

\* A part has one parent, and one place among the parts of it.
LEMMA PartsAreDistinct ==
    ASSUME NEW p \in DOMAIN Parts, NEW q \in DOMAIN Parts, NEW i \in DOMAIN Parts[p], NEW j \in DOMAIN Parts[q],
           Parts[p][i] = Parts[q][j]
    PROVE  p = q /\ i = j
<1> DEFINE Where(c) == CASE c = "cache_creation_audio_tokens" -> <<"input_audio_tokens", 1>>
                         [] c = "cached_audio_tokens"         -> <<"input_audio_tokens", 2>>
                         [] c = "cached_image_tokens"         -> <<"input_image_tokens", 1>>
                         [] c = "cached_video_tokens"         -> <<"input_video_tokens", 1>>
                         [] c = "cached_input_tokens"         -> <<"input_tokens", 1>>
                         [] c = "cache_creation_tokens"       -> <<"input_tokens", 2>>
                         [] c = "cache_creation_1h_tokens"    -> <<"input_tokens", 3>>
                         [] c = "input_audio_tokens"          -> <<"input_tokens", 4>>
                         [] c = "input_image_tokens"          -> <<"input_tokens", 5>>
                         [] c = "input_video_tokens"          -> <<"input_tokens", 6>>
                         [] c = "reasoning_tokens"            -> <<"output_tokens", 1>>
                         [] c = "output_audio_tokens"         -> <<"output_tokens", 2>>
                         [] c = "output_image_tokens"         -> <<"output_tokens", 3>>
                         [] c = "output_video_tokens"         -> <<"output_tokens", 4>>
<1>1. ASSUME NEW r \in DOMAIN Parts, NEW k \in DOMAIN Parts[r] PROVE Where(Parts[r][k]) = <<r, k>>
  <2>1. CASE r = "input_audio_tokens"
    <3>1. Parts[r] = <<"cache_creation_audio_tokens", "cached_audio_tokens">>
      BY <2>1 DEF Parts
    <3>2. QED
      BY <2>1, <3>1
  <2>2. CASE r = "input_image_tokens"
    <3>1. Parts[r] = <<"cached_image_tokens">>
      BY <2>2 DEF Parts
    <3>2. QED
      BY <2>2, <3>1
  <2>3. CASE r = "input_video_tokens"
    <3>1. Parts[r] = <<"cached_video_tokens">>
      BY <2>3 DEF Parts
    <3>2. QED
      BY <2>3, <3>1
  <2>4. CASE r = "input_tokens"
    <3>1. Parts[r] = <<"cached_input_tokens", "cache_creation_tokens", "cache_creation_1h_tokens",
                       "input_audio_tokens", "input_image_tokens", "input_video_tokens">>
      BY <2>4 DEF Parts
    <3>2. k \in 1 .. 6
      BY <3>1
    <3>3. QED
      BY <2>4, <3>1, <3>2
  <2>5. CASE r = "output_tokens"
    <3>1. Parts[r] = <<"reasoning_tokens", "output_audio_tokens", "output_image_tokens",
                       "output_video_tokens">>
      BY <2>5 DEF Parts
    <3>2. k \in 1 .. 4
      BY <3>1
    <3>3. QED
      BY <2>5, <3>1, <3>2
  <2>6. QED
    BY <2>1, <2>2, <2>3, <2>4, <2>5, PartsListed DEF TotalMeters, Modalities
<1> HIDE DEF Where
<1>2. Where(Parts[p][i]) = <<p, i>> /\ Where(Parts[q][j]) = <<q, j>>
  BY <1>1
<1>3. QED
  BY <1>2

\* The place of a part is found.
LEMMA PlaceIsFound ==
    ASSUME NEW p \in DOMAIN Parts, NEW i \in DOMAIN Parts[p]
    PROVE  Place(Parts[p][i]) = <<p, i>>
<1>1. <<p, i>> \in Places
  <2>1. <<p, i>> \in {p} \X DOMAIN Parts[p]
    OBVIOUS
  <2>2. QED
    BY <2>1 DEF Places
<1>2. ASSUME NEW at \in Places, Parts[at[1]][at[2]] = Parts[p][i] PROVE at = <<p, i>>
  <2>1. PICK q \in DOMAIN Parts : at \in {q} \X DOMAIN Parts[q]
    BY DEF Places
  <2>2. at = <<q, at[2]>> /\ at[2] \in DOMAIN Parts[q] /\ at[1] = q
    BY <2>1
  <2>3. q = p /\ at[2] = i
    BY <1>2, <2>2, PartsAreDistinct
  <2>4. QED
    BY <2>2, <2>3
<1>3. QED
  BY <1>1, <1>2 DEF Place

\* The usage after ensureParentMetric: each missing parent counts what its parts do.
LEMMA ParentsEnsured ==
    ASSUME NEW u, IsUsage(u), NEW parents \in SUBSET DOMAIN Parts, IsFiniteSet(parents)
    PROVE  /\ IsUsage(EnsureParents(u, parents))
           /\ \A c : Quantity(EnsureParents(u, parents), c) =
                     IF c \in parents \ DOMAIN u THEN SumOfParts(u, c) ELSE Quantity(u, c)
           /\ \A c : c \in DOMAIN EnsureParents(u, parents) <=>
                     c \in DOMAIN u \/ (c \in parents /\ SumOfParts(u, c) > 0)
<1> DEFINE new == {q \in parents \ DOMAIN u : SumOfParts(u, q) > 0}
           v   == EnsureParents(u, parents)
<1>1. \A p \in parents : SumOfParts(u, p) \in Nat
  BY PartsAreLevelled, SumOfMeters DEF SumOfParts
<1>2. v = [c \in new \cup DOMAIN u |-> IF c \in new THEN SumOfParts(u, c) ELSE u[c]]
  <2> DEFINE sums == [p \in {q \in parents : SumOfParts(u, q) > 0} |-> SumOfParts(u, p)]
  <2>1. v = Over(u, sums)
    BY DEF EnsureParents
  <2>2. (DOMAIN sums) \ DOMAIN u = new /\ (\A c \in new : sums[c] = SumOfParts(u, c))
    OBVIOUS
  <2> HIDE DEF sums, new, v
  <2>3. v = [c \in DOMAIN u \cup DOMAIN sums |-> IF c \in DOMAIN u THEN u[c] ELSE sums[c]]
    BY <2>1 DEF Over
  <2>4. DOMAIN u \cup DOMAIN sums = new \cup DOMAIN u /\ new \cap DOMAIN u = {}
    BY <2>2 DEF new
  <2>5. QED
    BY <2>2, <2>3, <2>4
<1>3. IsFiniteSet(new \cup DOMAIN u)
  BY FS_Subset, FS_Union DEF IsUsage
<1>4. IsUsage(v)
  <2>1. \A c \in new \cup DOMAIN u : v[c] \in Nat
    BY <1>1, <1>2 DEF IsUsage
  <2> HIDE DEF new, v
  <2>2. QED
    BY <1>2, <1>3, <2>1 DEF IsUsage
<1>5. \A c : Quantity(v, c) = IF c \in parents \ DOMAIN u THEN SumOfParts(u, c) ELSE Quantity(u, c)
  BY <1>1, <1>2 DEF Quantity
<1>6. \A c : c \in DOMAIN v <=> c \in DOMAIN u \/ (c \in parents /\ SumOfParts(u, c) > 0)
  BY <1>2
<1>7. QED
  BY <1>4, <1>5, <1>6

\* The parts of p that come before its i-th
Ahead(p, i) == {Parts[p][j] : j \in 1 .. i - 1}

\* The usage after limitChildrenToParent: a part is cut to what the parts ahead of
\* it leave of its parent, other meters are as before.
LEMMA PartsLimited ==
    ASSUME NEW u, IsUsage(u), NEW parents \in SUBSET DOMAIN Parts
    PROVE  /\ IsUsage(LimitChildren(u, parents))
           /\ DOMAIN LimitChildren(u, parents) = DOMAIN u
           /\ \A c : (\A p \in parents : c \notin PartsOf(p)) =>
                     Quantity(LimitChildren(u, parents), c) = Quantity(u, c)
           /\ \A p \in parents : \A i \in DOMAIN Parts[p] :
                 LET before == Min({Quantity(u, p), SumOver(u, Ahead(p, i))})
                 IN  Quantity(LimitChildren(u, parents), Parts[p][i]) =
                        Min({Quantity(u, Parts[p][i]), Quantity(u, p) - before})
<1> DEFINE v       == LimitChildren(u, parents)
           cut     == PartsIn(u, parents)
           left(p, i) == Quantity(u, p) - Min({Quantity(u, p), SumOver(u, Ahead(p, i))})
           limit(c) == left(Place(c)[1], Place(c)[2])
<1>1. v = [c \in DOMAIN u |-> IF c \in cut THEN Min({u[c], limit(c)}) ELSE u[c]]
  <2> DEFINE parts == [c \in cut |-> Min({u[c], limit(c)})]
  <2>1. v = Over(parts, u)
    BY DEF LimitChildren, Ahead
  <2>2. DOMAIN parts = cut /\ (\A c \in cut : parts[c] = Min({u[c], limit(c)})) /\ cut \cup DOMAIN u = DOMAIN u
    BY DEF PartsIn
  <2> HIDE DEF parts, cut, v, limit
  <2>3. v = [c \in cut \cup DOMAIN u |-> IF c \in cut THEN parts[c] ELSE u[c]]
    BY <2>1, <2>2 DEF Over
  <2>4. QED
    BY <2>2, <2>3
<1>2. ASSUME NEW p \in parents, NEW i \in DOMAIN Parts[p]
      PROVE  /\ limit(Parts[p][i]) = left(p, i)
             /\ left(p, i) \in Nat
             /\ Parts[p][i] \in DOMAIN u => Parts[p][i] \in cut
  <2>1. limit(Parts[p][i]) = left(p, i)
    BY PlaceIsFound
  <2>2. SumOver(u, Ahead(p, i)) \in Nat
    <3>1. Ahead(p, i) \subseteq PartsOf(p)
      <4>1. PICK n \in Nat : DOMAIN Parts[p] = 1 .. n
        BY PartsListed
      <4>2. QED
        BY <4>1 DEF Ahead, PartsOf, Range
    <3>2. IsFiniteSet(Ahead(p, i))
      BY <3>1, PartsAreLevelled, FS_Subset
    <3>3. QED
      BY <3>2, SumOfMeters
  <2>3. Quantity(u, p) \in Nat
    BY QuantityIsNatural
  <2>4. left(p, i) \in Nat
    <3>1. \A a, b \in Nat : a - Min({a, b}) \in Nat
      <4>1. SUFFICES ASSUME NEW a \in Nat, NEW b \in Nat PROVE a - Min({a, b}) \in Nat
        OBVIOUS
      <4>2. Min({a, b}) = IF a <= b THEN a ELSE b
        BY OfTwo
      <4>3. QED
        BY <4>2
    <3>2. QED
      BY <2>2, <2>3, <3>1
  <2>5. Parts[p][i] \in DOMAIN u => Parts[p][i] \in cut
    BY DEF PartsIn, PartsOf, Range
  <2>6. QED
    BY <2>1, <2>4, <2>5
<1> HIDE DEF v, limit, left
<1>3. ASSUME NEW c \in cut PROVE \E p \in parents : \E i \in DOMAIN Parts[p] : c = Parts[p][i]
  BY DEF PartsIn, PartsOf, Range
<1>4. \A a, b \in Nat : Min({a, b}) \in Nat /\ Min({0, b}) = 0
  <2>1. SUFFICES ASSUME NEW a \in Nat, NEW b \in Nat PROVE Min({a, b}) \in Nat /\ Min({0, b}) = 0
    OBVIOUS
  <2>2. Min({a, b}) = (IF a <= b THEN a ELSE b) /\ Min({0, b}) = IF 0 <= b THEN 0 ELSE b
    BY OfTwo
  <2>3. QED
    BY <2>2
<1>5. IsUsage(v) /\ DOMAIN v = DOMAIN u
  <2>1. \A c \in cut : limit(c) \in Nat
    BY <1>2, <1>3
  <2>2. \A c \in DOMAIN u : v[c] \in Nat
    BY <1>1, <1>4, <2>1 DEF IsUsage
  <2>3. QED
    BY <1>1, <2>2 DEF IsUsage
<1>6. ASSUME NEW c, \A p \in parents : c \notin PartsOf(p) PROVE Quantity(v, c) = Quantity(u, c)
  <2>1. c \notin cut
    BY <1>6 DEF PartsIn
  <2>2. QED
    BY <1>1, <2>1 DEF Quantity
<1>7. ASSUME NEW p \in parents, NEW i \in DOMAIN Parts[p]
      PROVE  Quantity(v, Parts[p][i]) = Min({Quantity(u, Parts[p][i]), left(p, i)})
  <2> DEFINE c == Parts[p][i]
  <2>1. limit(c) = left(p, i) /\ left(p, i) \in Nat /\ (c \in DOMAIN u => c \in cut)
    BY <1>2
  <2> HIDE DEF c, cut
  <2>2. Quantity(v, c) = Min({Quantity(u, c), left(p, i)})
    <3>1. CASE c \in DOMAIN u
      BY <1>1, <2>1, <3>1 DEF Quantity
    <3>2. CASE c \notin DOMAIN u
      BY <1>1, <1>4, <2>1, <3>2 DEF Quantity
    <3>3. QED
      BY <3>1, <3>2
  <2>3. QED
    BY <2>2 DEF c
<1>8. QED
  BY <1>5, <1>6, <1>7 DEF v, left

\* Fewer meters have no greater sum.
LEMMA SumOfFewerMeters ==
    ASSUME NEW u, IsUsage(u), NEW ds, IsFiniteSet(ds), NEW cs \in SUBSET ds
    PROVE  SumOver(u, cs) <= SumOver(u, ds) /\ SumOver(u, cs) \in Nat /\ IsFiniteSet(cs)
<1>1. IsFiniteSet(cs) /\ IsFiniteSet(ds \ cs) /\ cs \cup (ds \ cs) = ds /\ cs \cap (ds \ cs) = {}
  BY FS_Subset
<1>2. SumOver(u, ds) = SumOver(u, cs) + SumOver(u, ds \ cs)
  BY <1>1, SumOfMoreMeters
<1>3. SumOver(u, cs) \in Nat /\ SumOver(u, ds \ cs) \in Nat
  BY <1>1, SumOfMeters
<1>4. QED
  BY <1>1, <1>2, <1>3

\* The parts ahead of one grow by it, from none to all.
LEMMA PartsAhead ==
    ASSUME NEW p \in DOMAIN Parts, NEW n \in Nat, DOMAIN Parts[p] = 1 .. n
    PROVE  /\ Ahead(p, 1) = {} /\ Ahead(p, n + 1) = PartsOf(p)
           /\ \A i \in 1 .. n : /\ Ahead(p, i + 1) = Ahead(p, i) \cup {Parts[p][i]}
                                /\ Parts[p][i] \notin Ahead(p, i)
           /\ \A i \in 1 .. n + 1 : Ahead(p, i) \subseteq PartsOf(p) /\ IsFiniteSet(Ahead(p, i))
<1>1. Ahead(p, 1) = {}
  BY DEF Ahead
<1>2. Ahead(p, n + 1) = PartsOf(p)
  BY DEF Ahead, PartsOf, Range
<1>3. ASSUME NEW i \in 1 .. n PROVE Ahead(p, i + 1) = Ahead(p, i) \cup {Parts[p][i]}
  <2>1. 1 .. (i + 1) - 1 = (1 .. i - 1) \cup {i}
    OBVIOUS
  <2>2. QED
    BY <2>1 DEF Ahead
<1>4. ASSUME NEW i \in 1 .. n PROVE Parts[p][i] \notin Ahead(p, i)
  BY PartsAreDistinct DEF Ahead
<1>5. ASSUME NEW i \in 1 .. n + 1 PROVE Ahead(p, i) \subseteq PartsOf(p)
  BY DEF Ahead, PartsOf, Range
<1>6. \A i \in 1 .. n + 1 : IsFiniteSet(Ahead(p, i))
  BY <1>5, PartsAreLevelled, FS_Subset
<1>7. QED
  BY <1>1, <1>2, <1>3, <1>4, <1>5, <1>6

\* After limitChildrenToParent the parts of a parent do not exceed it.
LEMMA LimitedPartsFit ==
    ASSUME NEW u, IsUsage(u), NEW parents \in SUBSET DOMAIN Parts,
           \A p, q \in parents : p \notin PartsOf(q)
    PROVE  \A p \in parents : SumOfParts(LimitChildren(u, parents), p) <= Quantity(LimitChildren(u, parents), p)
<1> DEFINE v == LimitChildren(u, parents)
<1>1. SUFFICES ASSUME NEW p \in parents PROVE SumOfParts(v, p) <= Quantity(v, p)
  OBVIOUS
<1>2. IsUsage(v) /\ Quantity(v, p) = Quantity(u, p)
  BY PartsLimited
<1>3. PICK n \in Nat : DOMAIN Parts[p] = 1 .. n
  BY PartsListed
<1> DEFINE whole == Quantity(u, p)
           Was(i) == SumOver(u, Ahead(p, i))
           Is(i)  == SumOver(v, Ahead(p, i))
           Has    == {k \in Nat : k <= n => Is(k + 1) = Min({whole, Was(k + 1)})}
<1>4. whole \in Nat /\ \A i \in 1 .. n + 1 : Was(i) \in Nat /\ Is(i) \in Nat
  BY <1>2, <1>3, PartsAhead, SumOfMeters, QuantityIsNatural
<1>5. ASSUME NEW i \in 1 .. n
      PROVE  /\ Was(i + 1) = Was(i) + Quantity(u, Parts[p][i])
             /\ Is(i + 1) = Is(i) + Quantity(v, Parts[p][i])
             /\ Quantity(v, Parts[p][i]) = Min({Quantity(u, Parts[p][i]), whole - Min({whole, Was(i)})})
  <2>1. /\ IsFiniteSet(Ahead(p, i)) /\ Parts[p][i] \notin Ahead(p, i)
        /\ Ahead(p, i + 1) = Ahead(p, i) \cup {Parts[p][i]}
    BY <1>3, PartsAhead
  <2>2. /\ SumOver(u, Ahead(p, i) \cup {Parts[p][i]}) = Was(i) + Quantity(u, Parts[p][i])
        /\ SumOver(v, Ahead(p, i) \cup {Parts[p][i]}) = Is(i) + Quantity(v, Parts[p][i])
    BY <1>2, <2>1, SumOfMeters
  <2>3. i \in DOMAIN Parts[p]
    BY <1>3
  <2>4. Quantity(v, Parts[p][i]) = Min({Quantity(u, Parts[p][i]), whole - Min({whole, Was(i)})})
    BY <2>3, PartsLimited
  <2> HIDE DEF v, whole
  <2>5. QED
    BY <2>1, <2>2, <2>4
<1>6. \A c : Quantity(u, c) \in Nat
  BY QuantityIsNatural
<1>7. 0 \in Has
  <2>1. Was(1) = 0 /\ Is(1) = 0
    BY <1>2, <1>3, PartsAhead, SumOfNothing DEF SumOver
  <2>2. Min({whole, 0}) = IF whole <= 0 THEN whole ELSE 0
    BY <1>4, OfTwo
  <2>3. QED
    BY <1>4, <2>1, <2>2
<1>8. ASSUME NEW k \in Has PROVE k + 1 \in Has
  <2>1. SUFFICES ASSUME k + 1 <= n PROVE Is(k + 2) = Min({whole, Was(k + 2)})
    OBVIOUS
  <2> DEFINE i == k + 1
             more == Quantity(u, Parts[p][i])
  <2>2. i \in 1 .. n /\ i + 1 = k + 2
    BY <2>1
  <2>3. Is(i) = Min({whole, Was(i)})
    BY <2>1
  <2>4. Was(i + 1) = Was(i) + more /\ Is(i + 1) = Is(i) + Min({more, whole - Min({whole, Was(i)})})
    BY <1>5, <2>2
  <2>5. more \in Nat /\ Was(i) \in Nat /\ whole \in Nat
    BY <1>4, <1>6, <2>2
  <2>6. \A a, b, m \in Nat : Min({a, b}) + Min({m, a - Min({a, b})}) = Min({a, b + m})
    <3>1. SUFFICES ASSUME NEW a \in Nat, NEW b \in Nat, NEW m \in Nat
                   PROVE  Min({a, b}) + Min({m, a - Min({a, b})}) = Min({a, b + m})
      OBVIOUS
    <3>2. Min({a, b}) = (IF a <= b THEN a ELSE b) /\ Min({a, b + m}) = IF a <= b + m THEN a ELSE b + m
      <4>1. Min({a, b}) = IF a <= b THEN a ELSE b
        <5>1. a \in Int /\ b \in Int
          OBVIOUS
        <5>2. QED
          BY <5>1, OfTwo
      <4>2. PICK c \in Int : c = b + m
        OBVIOUS
      <4>3. Min({a, c}) = IF a <= c THEN a ELSE c
        <5>1. a \in Int
          OBVIOUS
        <5>2. QED
          BY <5>1, OfTwo
      <4>4. QED
        BY <4>1, <4>2, <4>3
    <3>3. a - Min({a, b}) \in Int
      BY <3>2
    <3>4. Min({m, a - Min({a, b})}) = IF m <= a - Min({a, b}) THEN m ELSE a - Min({a, b})
      BY <3>3, OfTwo
    <3>5. QED
      BY <3>2, <3>4
  <2> HIDE DEF i, more, Was, Is, whole
  <2>7. Is(i + 1) = Min({whole, Was(i + 1)})
    BY <2>3, <2>4, <2>5, <2>6
  <2>8. QED
    BY <2>2, <2>7
<1>9. n \in Has
  <2>1. Has \subseteq Nat
    OBVIOUS
  <2> HIDE DEF Has
  <2>2. QED
    BY <1>7, <1>8, <2>1, NumberInduction
<1>10. Is(n + 1) = Min({whole, Was(n + 1)}) /\ n + 1 \in 1 .. n + 1
  BY <1>9
<1>11. SumOfParts(v, p) = Is(n + 1)
  BY <1>3, PartsAhead DEF SumOfParts
<1>12. Min({whole, Was(n + 1)}) <= whole
  <2>1. Min({whole, Was(n + 1)}) = IF whole <= Was(n + 1) THEN whole ELSE Was(n + 1)
    BY <1>4, <1>10, OfTwo
  <2>2. QED
    BY <1>4, <1>10, <2>1
<1>13. QED
  BY <1>2, <1>10, <1>11, <1>12

\* Parts that do not exceed their parent are not cut.
LEMMA FittingPartsStay ==
    ASSUME NEW u, IsUsage(u), NEW parents \in SUBSET DOMAIN Parts,
           \A p \in parents : SumOfParts(u, p) <= Quantity(u, p)
    PROVE  Same(LimitChildren(u, parents), u)
<1> DEFINE v == LimitChildren(u, parents)
<1>1. ASSUME NEW p \in parents, NEW i \in DOMAIN Parts[p] PROVE Quantity(v, Parts[p][i]) = Quantity(u, Parts[p][i])
  <2>1. PICK n \in Nat : DOMAIN Parts[p] = 1 .. n
    BY PartsListed
  <2> DEFINE whole == Quantity(u, p)
             was   == SumOver(u, Ahead(p, i))
             more  == Quantity(u, Parts[p][i])
  <2>2. /\ IsFiniteSet(Ahead(p, i)) /\ Parts[p][i] \notin Ahead(p, i)
        /\ Ahead(p, i) \cup {Parts[p][i]} \in SUBSET PartsOf(p) /\ IsFiniteSet(PartsOf(p))
    BY <2>1, PartsAhead, PartsAreLevelled
  <2>3. was \in Nat /\ SumOver(u, Ahead(p, i) \cup {Parts[p][i]}) = was + more
    BY <2>2, SumOfMeters
  <2>4. SumOver(u, Ahead(p, i) \cup {Parts[p][i]}) <= SumOver(u, PartsOf(p)) /\ SumOver(u, PartsOf(p)) \in Nat
    BY <2>2, SumOfFewerMeters, SumOfMeters
  <2>5. SumOver(u, PartsOf(p)) <= whole
    BY DEF SumOfParts
  <2>6. more \in Nat /\ whole \in Nat
    BY QuantityIsNatural
  <2>7. Quantity(v, Parts[p][i]) = Min({more, whole - Min({whole, was})})
    BY PartsLimited
  <2> HIDE DEF whole, was, more
  <2>8. Min({whole, was}) = IF whole <= was THEN whole ELSE was
    BY <2>3, <2>6, OfTwo
  <2>9. was + more <= whole
    BY <2>3, <2>4, <2>5, <2>6
  <2>10. Min({more, whole - was}) = IF more <= whole - was THEN more ELSE whole - was
    BY <2>3, <2>6, OfTwo
  <2>11. whole - Min({whole, was}) = whole - was
    BY <2>3, <2>6, <2>8, <2>9
  <2>12. Quantity(v, Parts[p][i]) = more
    BY <2>3, <2>6, <2>7, <2>9, <2>10, <2>11
  <2>13. QED
    BY <2>12 DEF more
<1>2. ASSUME NEW c PROVE Quantity(v, c) = Quantity(u, c)
  <2>1. CASE \A p \in parents : c \notin PartsOf(p)
    BY <2>1, PartsLimited
  <2>2. CASE \E p \in parents : c \in PartsOf(p)
    BY <1>1, <2>2 DEF PartsOf, Range
  <2>3. QED
    BY <2>1, <2>2
<1>3. QED
  BY <1>2 DEF Same

-----------------------------------------------------------------------------
(* Normalized usage                                                        *)

\* No parent counts less than its parts.
PartsFit(u) == \A p \in DOMAIN Parts : SumOfParts(u, p) <= Quantity(u, p)

\* There are finitely many parents.
LEMMA ParentsAreFinite == IsFiniteSet(TotalMeters) /\ IsFiniteSet(Modalities) /\ IsFiniteSet(DOMAIN Parts)
<1>1. IsFiniteSet({"input_tokens"}) /\ IsFiniteSet({"input_audio_tokens"})
  BY FS_Singleton
<1>2. IsFiniteSet({"input_tokens"} \cup {"output_tokens"})
  BY <1>1, FS_AddElement
<1>3. IsFiniteSet({"input_audio_tokens"} \cup {"input_image_tokens"})
  BY <1>1, FS_AddElement
<1>4. IsFiniteSet(({"input_audio_tokens"} \cup {"input_image_tokens"}) \cup {"input_video_tokens"})
  BY <1>3, FS_AddElement
<1>5. /\ TotalMeters = {"input_tokens"} \cup {"output_tokens"}
      /\ Modalities = ({"input_audio_tokens"} \cup {"input_image_tokens"}) \cup {"input_video_tokens"}
  BY DEF TotalMeters, Modalities
<1>6. IsFiniteSet(TotalMeters) /\ IsFiniteSet(Modalities)
  BY <1>2, <1>4, <1>5
<1>7. IsFiniteSet(TotalMeters \cup Modalities)
  BY <1>6, FS_Union
<1>8. QED
  BY <1>6, <1>7, PartsListed

\* The steps of Normalize, meter by meter, for a usage u: first the modalities, then
\* the totals that are not reported; and then what is cut.
LEMMA NormalizeSteps ==
    ASSUME NEW u, IsUsage(u),
           NEW first, first = EnsureParents(u, Modalities), NEW whole, whole = EnsureParents(first, TotalMeters)
    PROVE  /\ IsUsage(first) /\ IsUsage(whole) /\ IsUsage(LimitChildren(whole, TotalMeters))
           /\ Normalize(u) = LimitChildren(LimitChildren(whole, TotalMeters), Modalities)
           /\ IsUsage(Normalize(u)) /\ DOMAIN Normalize(u) = DOMAIN whole
           /\ \A c : c \notin Modalities => Quantity(first, c) = Quantity(u, c)
           /\ \A m \in Modalities : Quantity(first, m) = Reported(u, m)
           /\ \A c : c \notin TotalMeters => Quantity(whole, c) = Quantity(first, c)
           /\ \A t \in TotalMeters : Quantity(whole, t) = Whole(u, t)
<1>1. /\ TotalMeters \in SUBSET DOMAIN Parts /\ IsFiniteSet(TotalMeters)
      /\ Modalities \in SUBSET DOMAIN Parts /\ IsFiniteSet(Modalities)
  BY ParentsAreFinite, PartsListed
<1>2. IsUsage(first) /\ IsUsage(whole)
  BY <1>1, ParentsEnsured
<1>3. /\ IsUsage(LimitChildren(whole, TotalMeters))
      /\ DOMAIN LimitChildren(whole, TotalMeters) = DOMAIN whole
  BY <1>1, <1>2, PartsLimited
<1>4. Normalize(u) = LimitChildren(LimitChildren(whole, TotalMeters), Modalities)
  BY DEF Normalize
<1>5. IsUsage(Normalize(u)) /\ DOMAIN Normalize(u) = DOMAIN whole
  BY <1>1, <1>3, <1>4, PartsLimited
<1>6. \A c : Quantity(first, c) = IF c \in Modalities \ DOMAIN u THEN SumOfParts(u, c) ELSE Quantity(u, c)
  BY <1>1, ParentsEnsured
<1>7. \A m \in Modalities : Quantity(first, m) = Reported(u, m)
  BY <1>1, <1>6 DEF Reported
<1>8. \A c : Quantity(whole, c) =
             IF c \in TotalMeters \ DOMAIN first THEN SumOfParts(first, c) ELSE Quantity(first, c)
  BY <1>1, <1>2, ParentsEnsured
<1>9. ASSUME NEW t \in TotalMeters PROVE Quantity(whole, t) = Whole(u, t)
  <2>1. t \notin Modalities
    BY PartsAreLevelled
  <2>2. t \in DOMAIN first <=> t \in DOMAIN u
    BY <1>1, <2>1, ParentsEnsured
  <2>3. CASE t \in DOMAIN u
    BY <1>6, <1>8, <2>1, <2>2, <2>3 DEF Whole, Quantity
  <2>4. CASE t \notin DOMAIN u
    <3>1. Quantity(whole, t) = SumOfParts(first, t)
      BY <1>8, <2>2, <2>4
    <3>2. ASSUME NEW c \in PartsOf(t) PROVE Quantity(first, c) = Reported(u, c)
      <4>1. c \notin TotalMeters /\ (c \in DOMAIN Parts => c \in Modalities)
        BY <1>1, PartsAreLevelled, PartsListed
      <4>2. QED
        BY <1>6, <1>7, <4>1 DEF Reported
    <3>3. [c \in PartsOf(t) |-> Quantity(first, c)] = [c \in PartsOf(t) |-> Reported(u, c)]
      BY <3>2
    <3>4. QED
      BY <2>4, <3>1, <3>3 DEF SumOfParts, SumOver, Whole
  <2>5. QED
    BY <2>3, <2>4
<1>10. QED
  BY <1>2, <1>3, <1>4, <1>5, <1>6, <1>7, <1>8, <1>9

\* A normalized usage is one whose parts fit, and whose totals are those reported.
LEMMA NormalizedFits ==
    ASSUME NEW u, IsUsage(u)
    PROVE  /\ IsUsage(Normalize(u)) /\ PartsFit(Normalize(u))
           /\ \A t \in TotalMeters : Quantity(Normalize(u), t) = Whole(u, t)
<1> DEFINE first == EnsureParents(u, Modalities)
           whole == EnsureParents(first, TotalMeters)
           cut   == LimitChildren(whole, TotalMeters)
           v     == Normalize(u)
<1>1. /\ IsUsage(whole) /\ IsUsage(cut) /\ v = LimitChildren(cut, Modalities) /\ IsUsage(v)
      /\ \A t \in TotalMeters : Quantity(whole, t) = Whole(u, t)
  BY NormalizeSteps
<1>2. TotalMeters \in SUBSET DOMAIN Parts /\ Modalities \in SUBSET DOMAIN Parts
  BY PartsListed
<1>3. \A p \in DOMAIN Parts : IsFiniteSet(PartsOf(p))
  BY PartsAreLevelled
<1> HIDE DEF first, whole, cut, v
<1>4. \A t \in TotalMeters : SumOfParts(cut, t) <= Quantity(cut, t) /\ Quantity(cut, t) = Quantity(whole, t)
  <2>1. \A p, q \in TotalMeters : p \notin PartsOf(q)
    BY <1>2, PartsAreLevelled
  <2>2. \A t \in TotalMeters : Quantity(cut, t) = Quantity(whole, t)
    BY <1>1, <1>2, <2>1, PartsLimited DEF cut
  <2>3. QED
    BY <1>1, <1>2, <2>1, <2>2, LimitedPartsFit DEF cut
<1>5. \A m \in Modalities : SumOfParts(v, m) <= Quantity(v, m)
  <2>1. \A p, q \in Modalities : p \notin PartsOf(q)
    BY <1>2, PartsAreLevelled
  <2>2. QED
    BY <1>1, <1>2, <2>1, LimitedPartsFit
<1>6. ASSUME NEW t \in TotalMeters
      PROVE  Quantity(v, t) = Quantity(cut, t) /\ SumOfParts(v, t) = SumOfParts(cut, t)
  <2>1. Quantity(v, t) = Quantity(cut, t)
    BY <1>1, <1>2, PartsAreLevelled, PartsLimited
  <2>2. \A c \in PartsOf(t) : Quantity(v, c) = Quantity(cut, c)
    BY <1>1, <1>2, PartsAreLevelled, PartsLimited
  <2>3. SumOver(v, PartsOf(t)) = SumOver(cut, PartsOf(t))
    BY <1>1, <1>2, <1>3, <2>2, SumOfSameMeters
  <2>4. QED
    BY <2>1, <2>3 DEF SumOfParts
<1>7. PartsFit(v)
  BY <1>4, <1>5, <1>6, PartsListed DEF PartsFit
<1>8. QED
  BY <1>1, <1>4, <1>6, <1>7 DEF v

\* Where the parts fit, a total that is missing counts nothing, and neither do its parts.
LEMMA FittingWhole ==
    ASSUME NEW v, IsUsage(v), PartsFit(v), NEW t \in TotalMeters
    PROVE  Whole(v, t) = Quantity(v, t)
<1>1. CASE t \in DOMAIN v
  BY <1>1 DEF Whole, Quantity
<1>2. CASE t \notin DOMAIN v
  <2>1. Quantity(v, t) = 0 /\ t \in DOMAIN Parts /\ IsFiniteSet(PartsOf(t))
    BY <1>2, PartsListed, PartsAreLevelled DEF Quantity
  <2>2. ASSUME NEW c \in PartsOf(t) PROVE Quantity(v, c) = 0
    <3>1. Quantity(v, c) <= SumOfParts(v, t) /\ SumOfParts(v, t) \in Nat
      BY <2>1, SumOfMeters DEF SumOfParts
    <3>2. Quantity(v, c) \in Nat /\ SumOfParts(v, t) <= 0
      BY <2>1, QuantityIsNatural DEF PartsFit
    <3>3. QED
      BY <3>1, <3>2
  <2>3. ASSUME NEW c \in PartsOf(t) PROVE Reported(v, c) = 0
    <3>1. c \in DOMAIN Parts => SumOfParts(v, c) = 0
      <4>1. SUFFICES ASSUME c \in DOMAIN Parts PROVE SumOfParts(v, c) = 0
        OBVIOUS
      <4>2. SumOfParts(v, c) <= 0
        BY <2>2, <4>1 DEF PartsFit
      <4>3. SumOfParts(v, c) \in Nat
        BY <4>1, PartsAreLevelled, SumOfMeters DEF SumOfParts
      <4>4. QED
        BY <4>2, <4>3
    <3>2. QED
      BY <2>2, <3>1 DEF Reported
  <2>4. Whole(v, t) = SumOfParts(v, t)
    <3>1. [c \in PartsOf(t) |-> Reported(v, c)] = [c \in PartsOf(t) |-> Quantity(v, c)]
      BY <2>2, <2>3
    <3>2. QED
      BY <1>2, <3>1 DEF Whole, SumOfParts, SumOver
  <2>5. SumOfParts(v, t) \in Nat /\ SumOfParts(v, t) <= 0
    BY <2>1, SumOfMeters DEF SumOfParts, PartsFit
  <2>6. QED
    BY <2>1, <2>4, <2>5
<1>3. QED
  BY <1>1, <1>2

\* What counts the same fits the same.
LEMMA SameFits ==
    ASSUME NEW u, IsUsage(u), NEW v, Same(v, u), PartsFit(u)
    PROVE  PartsFit(v)
<1>1. ASSUME NEW p \in DOMAIN Parts PROVE SumOfParts(u, p) = SumOfParts(v, p)
  BY PartsAreLevelled, SumOfSameMeters DEF Same, SumOfParts
<1>2. QED
  BY <1>1 DEF PartsFit, Same

\* A total that is missing from a usage whose modalities fit counts what its parts do.
LEMMA FittingParentsStay ==
    ASSUME NEW u, IsUsage(u), NEW parents \in SUBSET DOMAIN Parts, IsFiniteSet(parents),
           \A p \in parents \ DOMAIN u : SumOfParts(u, p) = 0
    PROVE  Same(EnsureParents(u, parents), u)
<1>1. \A c : Quantity(EnsureParents(u, parents), c) =
             IF c \in parents \ DOMAIN u THEN SumOfParts(u, c) ELSE Quantity(u, c)
  BY ParentsEnsured
<1>2. \A c : c \notin DOMAIN u => Quantity(u, c) = 0
  BY DEF Quantity
<1>3. QED
  BY <1>1, <1>2 DEF Same

\* A usage whose parts fit is normalized already.
LEMMA FittingStays ==
    ASSUME NEW u, IsUsage(u), PartsFit(u)
    PROVE  Same(Normalize(u), u)
<1> DEFINE first == EnsureParents(u, Modalities)
           whole == EnsureParents(first, TotalMeters)
           cut   == LimitChildren(whole, TotalMeters)
<1>1. /\ IsUsage(first) /\ IsUsage(whole) /\ IsUsage(cut)
      /\ Normalize(u) = LimitChildren(cut, Modalities)
  BY NormalizeSteps
<1>2. /\ TotalMeters \in SUBSET DOMAIN Parts /\ IsFiniteSet(TotalMeters)
      /\ Modalities \in SUBSET DOMAIN Parts /\ IsFiniteSet(Modalities)
  BY ParentsAreFinite, PartsListed
<1>3. ASSUME NEW v, IsUsage(v), PartsFit(v), NEW p \in DOMAIN Parts \ DOMAIN v PROVE SumOfParts(v, p) = 0
  <2>1. SumOfParts(v, p) <= 0
    BY <1>3 DEF PartsFit, Quantity
  <2>2. SumOfParts(v, p) \in Nat
    BY <1>3, PartsAreLevelled, SumOfMeters DEF SumOfParts
  <2>3. QED
    BY <2>1, <2>2
<1>4. Same(first, u)
  BY <1>2, <1>3, FittingParentsStay
<1>5. PartsFit(first)
  BY <1>4, SameFits
<1>6. Same(whole, first)
  BY <1>1, <1>2, <1>3, <1>5, FittingParentsStay
<1>7. PartsFit(whole)
  BY <1>1, <1>5, <1>6, SameFits
<1>8. Same(cut, whole)
  BY <1>1, <1>2, <1>7, FittingPartsStay DEF PartsFit
<1>9. PartsFit(cut)
  BY <1>1, <1>7, <1>8, SameFits
<1>10. Same(Normalize(u), cut)
  BY <1>1, <1>2, <1>9, FittingPartsStay DEF PartsFit
<1>11. QED
  BY <1>4, <1>6, <1>8, <1>10 DEF Same

\* What a meter is charged for, where the parts fit: what it counts beside its parts.
LEMMA EffectiveOfFitting ==
    ASSUME NEW n, IsUsage(n), PartsFit(n)
    PROVE  /\ \A p \in DOMAIN Parts : EffectiveQuantity(n, p) = Quantity(n, p) - SumOfParts(n, p)
           /\ \A c : c \notin DOMAIN Parts => EffectiveQuantity(n, c) = Quantity(n, c)
           /\ \A c : EffectiveQuantity(n, c) \in Nat
           /\ \A c : c \notin DOMAIN n => EffectiveQuantity(n, c) = 0
<1>1. ASSUME NEW p \in DOMAIN Parts
      PROVE  Quantity(n, p) \in Nat /\ SumOfParts(n, p) \in Nat /\ SumOfParts(n, p) <= Quantity(n, p)
  BY QuantityIsNatural, PartsAreLevelled, SumOfMeters DEF SumOfParts, PartsFit
<1>2. \A p \in DOMAIN Parts : EffectiveQuantity(n, p) = Quantity(n, p) - SumOfParts(n, p)
  BY <1>1 DEF EffectiveQuantity
<1>3. \A c : c \notin DOMAIN Parts => EffectiveQuantity(n, c) = Quantity(n, c)
  BY DEF EffectiveQuantity
<1>4. ASSUME NEW c PROVE EffectiveQuantity(n, c) \in Nat /\ (c \notin DOMAIN n => EffectiveQuantity(n, c) = 0)
  <2>1. CASE c \in DOMAIN Parts
    BY <1>1, <1>2, <2>1 DEF Quantity
  <2>2. CASE c \notin DOMAIN Parts
    BY <1>3, <2>2, QuantityIsNatural DEF Quantity
  <2>3. QED
    BY <2>1, <2>2
<1>5. QED
  BY <1>2, <1>3, <1>4

\* The sum of one meter, and of one more.
LEMMA SumOfOneMore ==
    ASSUME NEW u, IsUsage(u), NEW cs, IsFiniteSet(cs), NEW c, c \notin cs
    PROVE  /\ IsFiniteSet({c}) /\ SumOver(u, {c}) = Quantity(u, c)
           /\ IsFiniteSet(cs \cup {c}) /\ SumOver(u, cs \cup {c}) = SumOver(u, cs) + Quantity(u, c)
<1>1. IsFiniteSet({}) /\ c \notin {} /\ {} \cup {c} = {c}
  BY FS_EmptySet
<1>2. SumOver(u, {}) = 0 /\ Quantity(u, c) \in Nat
  BY <1>1, SumOfMoreMeters, QuantityIsNatural
<1>3. SumOver(u, {c}) = SumOver(u, {}) + Quantity(u, c)
  BY <1>1, SumOfMeters
<1>4. SumOver(u, {c}) = Quantity(u, c)
  BY <1>1, <1>2, <1>3
<1>5. SumOver(u, cs \cup {c}) = SumOver(u, cs) + Quantity(u, c)
  BY SumOfMeters
<1>6. IsFiniteSet({c}) /\ IsFiniteSet(cs \cup {c})
  BY FS_Singleton, FS_AddElement
<1>7. QED
  BY <1>4, <1>5, <1>6

\* The modalities one by one, and all their parts.
LEMMA SumOfModalities ==
    ASSUME NEW u, IsUsage(u)
    PROVE  LET a == "input_audio_tokens"
               i == "input_image_tokens"
               v == "input_video_tokens"
           IN  /\ SumOver(u, Modalities) = Quantity(u, a) + Quantity(u, i) + Quantity(u, v)
               /\ SumOver(u, UNION {PartsOf(m) : m \in Modalities}) =
                     SumOfParts(u, a) + SumOfParts(u, i) + SumOfParts(u, v)
               /\ IsFiniteSet(UNION {PartsOf(m) : m \in Modalities})
<1> DEFINE a == "input_audio_tokens"
           i == "input_image_tokens"
           v == "input_video_tokens"
<1>1. SumOver(u, Modalities) = Quantity(u, a) + Quantity(u, i) + Quantity(u, v)
  <2>1. IsFiniteSet({a}) /\ IsFiniteSet({a} \cup {i}) /\ i \notin {a} /\ v \notin {a} \cup {i}
    BY FS_Singleton, FS_AddElement
  <2>2. SumOver(u, {a}) = Quantity(u, a)
    <3>1. IsFiniteSet({}) /\ a \notin {}
      BY FS_EmptySet
    <3>2. QED
      BY <3>1, SumOfOneMore
  <2>3. SumOver(u, {a} \cup {i}) = SumOver(u, {a}) + Quantity(u, i)
    BY <2>1, SumOfOneMore
  <2>4. SumOver(u, ({a} \cup {i}) \cup {v}) = SumOver(u, {a} \cup {i}) + Quantity(u, v)
    BY <2>1, SumOfOneMore
  <2>5. Modalities = ({a} \cup {i}) \cup {v}
    BY DEF Modalities
  <2>6. QED
    BY <2>2, <2>3, <2>4, <2>5
<1>2. /\ IsFiniteSet(PartsOf(a)) /\ IsFiniteSet(PartsOf(i)) /\ IsFiniteSet(PartsOf(v))
      /\ PartsOf(a) \cap PartsOf(i) = {} /\ (PartsOf(a) \cup PartsOf(i)) \cap PartsOf(v) = {}
      /\ UNION {PartsOf(m) : m \in Modalities} = (PartsOf(a) \cup PartsOf(i)) \cup PartsOf(v)
  <2>1. a \in DOMAIN Parts /\ i \in DOMAIN Parts /\ v \in DOMAIN Parts
    BY PartsListed DEF Modalities
  <2>2. IsFiniteSet(PartsOf(a)) /\ IsFiniteSet(PartsOf(i)) /\ IsFiniteSet(PartsOf(v))
    BY <2>1, PartsAreLevelled
  <2>3. PartsOf(a) \cap PartsOf(i) = {} /\ (PartsOf(a) \cup PartsOf(i)) \cap PartsOf(v) = {}
    BY PartsListed
  <2>4. UNION {PartsOf(m) : m \in Modalities} = (PartsOf(a) \cup PartsOf(i)) \cup PartsOf(v)
    BY DEF Modalities
  <2>5. QED
    BY <2>2, <2>3, <2>4
<1>3. IsFiniteSet(PartsOf(a) \cup PartsOf(i)) /\ IsFiniteSet((PartsOf(a) \cup PartsOf(i)) \cup PartsOf(v))
  BY <1>2, FS_Union
<1>4. SumOver(u, PartsOf(a) \cup PartsOf(i)) = SumOver(u, PartsOf(a)) + SumOver(u, PartsOf(i))
  BY <1>2, SumOfMoreMeters
<1>5. SumOver(u, (PartsOf(a) \cup PartsOf(i)) \cup PartsOf(v)) =
         SumOver(u, PartsOf(a) \cup PartsOf(i)) + SumOver(u, PartsOf(v))
  BY <1>2, <1>3, SumOfMoreMeters
<1>6. QED
  BY <1>1, <1>2, <1>3, <1>4, <1>5 DEF SumOfParts

\* The lines of a normalized usage hold each unit of a total once.
LEMMA LinesHoldTotals ==
    ASSUME NEW n, IsUsage(n), PartsFit(n), NEW lines, IsUsage(lines),
           \A c : Quantity(lines, c) = EffectiveQuantity(n, c), NEW p \in TotalMeters
    PROVE  SumOver(lines, Within(p) \cup {p}) = Quantity(n, p)
<1>1. p \in DOMAIN Parts /\ p \notin PartsOf(p) /\ IsFiniteSet(PartsOf(p))
  BY PartsListed, PartsAreLevelled
<1>2. Quantity(lines, p) = Quantity(n, p) - SumOfParts(n, p)
  BY <1>1, EffectiveOfFitting
<1>3. SumOfParts(n, p) \in Nat /\ Quantity(n, p) \in Nat
  BY <1>1, SumOfMeters, QuantityIsNatural DEF SumOfParts
<1>4. CASE p = "output_tokens"
  <2>1. PartsOf(p) \cap DOMAIN Parts = {}
    BY <1>4, PartsAreLevelled
  <2>2. Within(p) = PartsOf(p)
    BY <2>1 DEF Within
  <2>3. SumOver(lines, PartsOf(p)) = SumOfParts(n, p)
    BY <1>1, <2>1, SumOfSameMeters, EffectiveOfFitting DEF SumOfParts
  <2>4. SumOver(lines, PartsOf(p) \cup {p}) = SumOver(lines, PartsOf(p)) + Quantity(lines, p)
    BY <1>1, SumOfOneMore
  <2>5. QED
    BY <1>2, <1>3, <2>2, <2>3, <2>4
<1>5. CASE p = "input_tokens"
  <2> DEFINE plain  == {"cached_input_tokens", "cache_creation_tokens", "cache_creation_1h_tokens"}
             nested == UNION {PartsOf(m) : m \in Modalities}
  <2>1. /\ PartsOf(p) = plain \cup Modalities /\ plain \cap Modalities = {}
        /\ (plain \cup Modalities) \cap nested = {}
        /\ plain \cap DOMAIN Parts = {} /\ nested \cap DOMAIN Parts = {}
    BY <1>5, PartsListed DEF Modalities, TotalMeters
  <2>2. Within(p) = (plain \cup Modalities) \cup nested
    <3>1. ASSUME NEW c PROVE c \in Within(p) <=> c \in (plain \cup Modalities) \cup nested
      <4>1. \A d \in PartsOf(p) : d \in DOMAIN Parts <=> d \in Modalities
        BY <2>1, PartsListed
      <4> HIDE DEF plain
      <4>2. c \in Within(p) <=> \E d \in PartsOf(p) : c = d \/ (d \in DOMAIN Parts /\ c \in PartsOf(d))
        BY DEF Within
      <4>3. QED
        BY <2>1, <4>1, <4>2
    <3> HIDE DEF plain, nested
    <3>2. QED
      BY <3>1
  <2>3. /\ IsFiniteSet(plain) /\ IsFiniteSet(Modalities) /\ IsFiniteSet(plain \cup Modalities)
        /\ IsFiniteSet(nested) /\ IsFiniteSet((plain \cup Modalities) \cup nested)
    <3>1. IsFiniteSet(plain) /\ IsFiniteSet(Modalities) /\ IsFiniteSet(plain \cup Modalities)
      BY <1>1, <2>1, FS_Subset
    <3>2. IsFiniteSet(nested)
      BY SumOfModalities
    <3>3. QED
      BY <3>1, <3>2, FS_Union
  <2>4. p \notin (plain \cup Modalities) \cup nested
    BY <1>1, <2>1
  <2> HIDE DEF plain, nested
  <2>5. SumOver(lines, ((plain \cup Modalities) \cup nested) \cup {p}) =
           SumOver(lines, (plain \cup Modalities) \cup nested) + Quantity(lines, p)
    BY <2>3, <2>4, SumOfOneMore
  <2>6. SumOver(lines, (plain \cup Modalities) \cup nested) = SumOver(lines, plain \cup Modalities) + SumOver(lines, nested)
    BY <2>1, <2>3, SumOfMoreMeters
  <2>7. SumOver(lines, plain \cup Modalities) = SumOver(lines, plain) + SumOver(lines, Modalities)
    BY <2>1, <2>3, SumOfMoreMeters
  <2>8. SumOver(lines, plain) = SumOver(n, plain) /\ SumOver(lines, nested) = SumOver(n, nested)
    BY <2>1, <2>3, SumOfSameMeters, EffectiveOfFitting
  <2>9. SumOver(lines, Modalities) + SumOver(n, nested) = SumOver(n, Modalities)
    <3> DEFINE a == "input_audio_tokens"
               i == "input_image_tokens"
               v == "input_video_tokens"
    <3>1. a \in DOMAIN Parts /\ i \in DOMAIN Parts /\ v \in DOMAIN Parts
      BY PartsListed DEF Modalities
    <3>2. /\ Quantity(lines, a) = Quantity(n, a) - SumOfParts(n, a)
          /\ Quantity(lines, i) = Quantity(n, i) - SumOfParts(n, i)
          /\ Quantity(lines, v) = Quantity(n, v) - SumOfParts(n, v)
      BY <3>1, EffectiveOfFitting
    <3>3. /\ SumOfParts(n, a) \in Nat /\ SumOfParts(n, i) \in Nat /\ SumOfParts(n, v) \in Nat
          /\ Quantity(n, a) \in Nat /\ Quantity(n, i) \in Nat /\ Quantity(n, v) \in Nat
      BY <3>1, PartsAreLevelled, SumOfMeters, QuantityIsNatural DEF SumOfParts
    <3>4. SumOver(lines, Modalities) = Quantity(lines, a) + Quantity(lines, i) + Quantity(lines, v)
      BY SumOfModalities
    <3>5. SumOver(n, Modalities) = Quantity(n, a) + Quantity(n, i) + Quantity(n, v)
      BY SumOfModalities
    <3>6. SumOver(n, nested) = SumOfParts(n, a) + SumOfParts(n, i) + SumOfParts(n, v)
      BY SumOfModalities DEF nested
    <3> HIDE DEF a, i, v
    <3>7. QED
      BY <3>2, <3>3, <3>4, <3>5, <3>6
  <2>10. SumOfParts(n, p) = SumOver(n, plain) + SumOver(n, Modalities)
    BY <2>1, <2>3, SumOfMoreMeters DEF SumOfParts
  <2>11. /\ SumOver(n, plain) \in Nat /\ SumOver(n, nested) \in Nat /\ SumOver(n, Modalities) \in Nat
         /\ SumOver(lines, Modalities) \in Nat
    BY <2>3, SumOfMeters
  <2>12. QED
    BY <1>2, <1>3, <2>2, <2>5, <2>6, <2>7, <2>8, <2>9, <2>10, <2>11
<1>6. QED
  BY <1>4, <1>5 DEF TotalMeters

-----------------------------------------------------------------------------
(* Charges by tiers                                                        *)

\* The least element of a set of naturals.
LEMMA LeastOfNaturals ==
    ASSUME NEW S \in SUBSET Nat, S # {}
    PROVE  Min(S) \in S /\ \A i \in S : Min(S) <= i
<1>1. PICK m \in S : \A i \in S : <<i, m>> \notin Before
  BY BeforeIsWellFounded, WFMin
<1>2. ASSUME NEW i \in S PROVE m <= i
  <2>1. m \in Nat /\ i \in Nat /\ <<i, m>> \notin Before
    BY <1>1
  <2>2. ~ (i < m)
    BY <2>1 DEF Before
  <2>3. QED
    BY <2>1, <2>2
<1>3. \E x \in S : \A y \in S : x <= y
  BY <1>2
<1>4. QED
  BY <1>3 DEF Min

\* A sum over the numbers up to b, where those above a count the same.
LEMMA SumOfConstant ==
    ASSUME NEW f, NEW a \in Nat, NEW b \in Nat, a <= b, \A k \in 1 .. b : f[k] \in Int,
           NEW c \in Int, \A k \in a + 1 .. b : f[k] = c
    PROVE  SumFunctionOnSet(f, 1 .. b) = SumFunctionOnSet(f, 1 .. a) + c * (b - a)
<1> DEFINE base == SumFunctionOnSet(f, 1 .. a)
           Has  == {n \in Nat : n <= b - a => SumFunctionOnSet(f, 1 .. a + n) = base + c * n}
<1>1. base \in Int
  <2>1. IsFiniteSet(1 .. a) /\ \A k \in 1 .. a : f[k] \in Int
    BY FS_Interval
  <2>2. QED
    BY <2>1, SumTakesOut
<1>2. 0 \in Has
  <2>1. c * 0 = 0 /\ a + 0 = a
    OBVIOUS
  <2>2. QED
    BY <1>1, <2>1
<1>3. ASSUME NEW n \in Has PROVE n + 1 \in Has
  <2>1. SUFFICES ASSUME n + 1 <= b - a PROVE SumFunctionOnSet(f, 1 .. a + (n + 1)) = base + c * (n + 1)
    OBVIOUS
  <2>2. n \in Nat /\ a + n + 1 \in a + 1 .. b /\ a + n + 1 \notin 1 .. a + n
    BY <2>1
  <2>3. IsFiniteSet(1 .. a + n)
    <3>1. a + n \in Int
      BY <2>2
    <3>2. QED
      BY <3>1, FS_Interval
  <2>4. 1 .. a + (n + 1) = (1 .. a + n) \cup {a + n + 1}
    BY <2>2
  <2>5. \A k \in (1 .. a + n) \cup {a + n + 1} : f[k] \in Int
    BY <2>1, <2>2
  <2>6. SumFunctionOnSet(f, (1 .. a + n) \cup {a + n + 1}) = SumFunctionOnSet(f, 1 .. a + n) + f[a + n + 1]
    BY <2>2, <2>3, <2>5, SumAddsOne
  <2>7. SumFunctionOnSet(f, 1 .. a + n) = base + c * n /\ f[a + n + 1] = c
    BY <2>1, <2>2
  <2> HIDE DEF base
  <2>8. PICK x \in Int, y \in Int : x = base /\ y = c * n
    BY <1>1, <2>2
  <2>9. c * (n + 1) = y + c
    BY <2>2, <2>8
  <2>10. (x + y) + c = x + (y + c)
    OBVIOUS
  <2>11. QED
    BY <2>4, <2>6, <2>7, <2>8, <2>9, <2>10
<1>4. b - a \in Has
  <2>1. Has \subseteq Nat /\ b - a \in Nat
    OBVIOUS
  <2> HIDE DEF Has
  <2>2. QED
    BY <1>2, <1>3, <2>1, NumberInduction
<1>5. a + (b - a) = b
  OBVIOUS
<1>6. QED
  BY <1>4, <1>5

\* Price tiers as two functions: limits T and prices P of n tiers.  R are those that
\* q units reach; tier i has the units from L[i] + 1 to U[i].
IsTiers(n, T, P, q, R, L, U) ==
    /\ n \in Nat \ {0} /\ q \in Nat \ {0}
    /\ T \in [1 .. n -> Nat \cup {Unbounded}] /\ P \in [1 .. n -> Nat]
    /\ R = {i \in 1 .. n : \A j \in 1 .. i - 1 : T[j] # Unbounded /\ T[j] < q}
    /\ L = [i \in 1 .. n |-> IF i = 1 THEN 0 ELSE T[i - 1]]
    /\ U = [i \in 1 .. n |-> IF T[i] = Unbounded THEN q ELSE IF T[i] <= q THEN T[i] ELSE q]
    /\ \A i \in R : IF T[i] = Unbounded THEN i = n ELSE T[i] > L[i]

\* Tiers are reached in order, and one starts where the one before it ends.
LEMMA TiersFollow ==
    ASSUME NEW n, NEW T, NEW P, NEW q, NEW R, NEW L, NEW U, IsTiers(n, T, P, q, R, L, U)
    PROVE  /\ 1 \in R /\ L[1] = 0
           /\ \A i \in R : \A j \in 1 .. i - 1 : j \in R /\ T[j] \in Nat /\ T[j] < q
           /\ \A i \in R : L[i] \in Nat /\ U[i] \in Nat /\ L[i] <= U[i] /\ U[i] <= q
           /\ \A i \in R : i # 1 => i - 1 \in R /\ U[i - 1] = L[i]
<1>0. Unbounded \notin Nat
  BY MeteringAssumption
<1>1. 1 \in R /\ L[1] = 0
  BY DEF IsTiers
<1>2. ASSUME NEW i \in R, NEW j \in 1 .. i - 1 PROVE j \in R /\ T[j] \in Nat /\ T[j] < q
  <2>1. i \in 1 .. n /\ j \in 1 .. n
    BY <1>2 DEF IsTiers
  <2>2. T[j] # Unbounded /\ T[j] < q
    BY <1>2 DEF IsTiers
  <2>3. \A l \in 1 .. j - 1 : l \in 1 .. i - 1
    BY <1>2, <2>1
  <2>4. \A l \in 1 .. j - 1 : T[l] # Unbounded /\ T[l] < q
    BY <1>2, <2>3 DEF IsTiers
  <2>5. QED
    BY <2>1, <2>2, <2>4 DEF IsTiers
<1>3. ASSUME NEW i \in R PROVE i # 1 => i - 1 \in R /\ T[i - 1] \in Nat /\ T[i - 1] < q
  <2>1. i \in 1 .. n
    BY DEF IsTiers
  <2>2. i # 1 => i - 1 \in 1 .. i - 1
    BY <2>1
  <2>3. QED
    BY <1>2, <2>2
<1>4. ASSUME NEW i \in R
      PROVE  /\ L[i] \in Nat /\ U[i] \in Nat /\ L[i] <= U[i] /\ U[i] <= q
             /\ i # 1 => i - 1 \in R /\ U[i - 1] = L[i]
  <2>1. i \in 1 .. n /\ (i # 1 => i - 1 \in 1 .. n) /\ q \in Nat /\ q # 0
    BY DEF IsTiers
  <2>2. L[i] = (IF i = 1 THEN 0 ELSE T[i - 1])
    BY <2>1 DEF IsTiers
  <2>3. L[i] \in Nat /\ L[i] < q
    BY <1>3, <2>1, <2>2
  <2>4. U[i] = (IF T[i] = Unbounded THEN q ELSE IF T[i] <= q THEN T[i] ELSE q) /\ T[i] \in Nat \cup {Unbounded}
    BY <2>1 DEF IsTiers
  <2>5. T[i] # Unbounded => T[i] > L[i]
    BY DEF IsTiers
  <2>6. L[i] <= U[i] /\ U[i] <= q /\ U[i] \in Nat
    BY <2>1, <2>3, <2>4, <2>5
  <2>7. ASSUME i # 1 PROVE i - 1 \in R /\ U[i - 1] = L[i]
    <3>1. i - 1 \in R /\ T[i - 1] \in Nat /\ T[i - 1] < q
      BY <1>3, <2>7
    <3>2. U[i - 1] = T[i - 1]
      BY <1>0, <2>1, <2>7, <3>1 DEF IsTiers
    <3>3. QED
      BY <2>2, <2>7, <3>1, <3>2
  <2>8. QED
    BY <2>3, <2>6, <2>7
<1>5. QED
  BY <1>1, <1>2, <1>4

\* The limits before a tier do not exceed where it starts, and so the units of a tier
\* are those that it is the first to reach.
LEMMA TiersReach ==
    ASSUME NEW n, NEW T, NEW P, NEW q, NEW R, NEW L, NEW U, IsTiers(n, T, P, q, R, L, U)
    PROVE  /\ \A i \in R : \A j \in 1 .. i - 1 : T[j] <= L[i]
           /\ \A i \in R : \A k \in L[i] + 1 .. U[i] :
                 Min({j \in 1 .. n : T[j] = Unbounded \/ k <= T[j]}) = i
<1> DEFINE Has == {m \in Nat : m + 1 \in R => \A j \in 1 .. m : T[j] <= L[m + 1]}
<1>0. Unbounded \notin Nat
  BY MeteringAssumption
<1>1. 0 \in Has
  OBVIOUS
<1>2. ASSUME NEW m \in Has PROVE m + 1 \in Has
  <2>1. SUFFICES ASSUME m + 2 \in R, NEW j \in 1 .. m + 1 PROVE T[j] <= L[m + 2]
    BY <1>2
  <2>2. m \in Nat /\ m + 1 \in 1 .. (m + 2) - 1
    OBVIOUS
  <2>3. m + 1 \in R /\ T[m + 1] \in Nat
    BY <2>1, <2>2, TiersFollow
  <2>4. m + 2 \in 1 .. n /\ m + 2 # 1 /\ (m + 2) - 1 = m + 1
    BY <2>1, <2>2 DEF IsTiers
  <2>5. L[m + 2] = T[m + 1]
    BY <2>4 DEF IsTiers
  <2>6. CASE j = m + 1
    BY <2>3, <2>5, <2>6
  <2>7. CASE j # m + 1
    <3>1. j \in 1 .. m
      BY <2>1, <2>2, <2>7
    <3>2. T[j] <= L[m + 1]
      BY <1>2, <2>3, <3>1
    <3>3. L[m + 1] \in Nat
      BY <2>3, TiersFollow
    <3>4. T[m + 1] # Unbounded
      BY <1>0, <2>3
    <3>5. T[m + 1] > L[m + 1]
      BY <2>3, <3>4 DEF IsTiers
    <3>6. j \in 1 .. (m + 2) - 1
      BY <2>1, <2>2
    <3>7. T[j] \in Nat
      BY <2>1, <3>6, TiersFollow
    <3>8. QED
      BY <2>3, <2>5, <3>2, <3>3, <3>5, <3>7
  <2>8. QED
    BY <2>6, <2>7
<1>3. \A m \in Nat : m \in Has
  <2>1. Has \subseteq Nat
    OBVIOUS
  <2> HIDE DEF Has
  <2>2. QED
    BY <1>1, <1>2, <2>1, NumberInduction
<1>4. ASSUME NEW i \in R PROVE \A j \in 1 .. i - 1 : T[j] <= L[i]
  <2>1. i - 1 \in Nat /\ (i - 1) + 1 = i
    BY DEF IsTiers
  <2>2. QED
    BY <1>3, <2>1
<1>5. ASSUME NEW i \in R, NEW k \in L[i] + 1 .. U[i]
      PROVE  Min({j \in 1 .. n : T[j] = Unbounded \/ k <= T[j]}) = i
  <2> DEFINE S == {j \in 1 .. n : T[j] = Unbounded \/ k <= T[j]}
  <2>1. i \in 1 .. n /\ L[i] \in Nat /\ U[i] \in Nat /\ k \in Nat /\ q \in Nat /\ T[i] \in Nat \cup {Unbounded}
    BY <1>5, TiersFollow DEF IsTiers
  <2>2. U[i] = (IF T[i] = Unbounded THEN q ELSE IF T[i] <= q THEN T[i] ELSE q)
    BY <2>1 DEF IsTiers
  <2>3. i \in S
    BY <1>5, <2>1, <2>2
  <2>4. ASSUME NEW j \in S PROVE ~ (j < i)
    <3>1. SUFFICES ASSUME j < i PROVE FALSE
      OBVIOUS
    <3>2. j \in 1 .. i - 1
      BY <2>1, <3>1
    <3>3. T[j] <= L[i] /\ T[j] \in Nat
      BY <1>4, <3>2, TiersFollow
    <3>4. k <= T[j]
      BY <1>0, <3>3
    <3>5. QED
      BY <1>5, <2>1, <3>3, <3>4
  <2>5. S \in SUBSET Nat /\ S # {}
    BY <2>3
  <2> HIDE DEF S
  <2>6. Min(S) \in S /\ Min(S) <= i
    BY <2>3, <2>5, LeastOfNaturals
  <2>7. Min(S) \in Nat /\ ~ (Min(S) < i)
    BY <2>4, <2>5, <2>6
  <2>8. Min(S) = i
    BY <2>1, <2>6, <2>7
  <2>9. QED
    BY <2>8 DEF S
<1>6. QED
  BY <1>4, <1>5

\* What k units beyond the tiers and within them cost.
PriceOf(n, T, P, k) ==
    LET over == {j \in 1 .. n : T[j] = Unbounded \/ k <= T[j]} IN IF over # {} THEN P[Min(over)] ELSE P[n]

\* Up to the end of a tier that is reached, the units cost what the tiers cost.
LEMMA TiersAddUpSoFar ==
    ASSUME NEW n, NEW T, NEW P, NEW q, NEW R, NEW L, NEW U, IsTiers(n, T, P, q, R, L, U),
           NEW f, \A k \in 1 .. q : f[k] = PriceOf(n, T, P, k) /\ f[k] \in Int,
           NEW g, \A i \in R : g[i] = P[i] * (U[i] - L[i]) /\ g[i] \in Int
    PROVE  \A i \in R : SumFunctionOnSet(f, 1 .. U[i]) = SumFunctionOnSet(g, 1 .. i)
<1> DEFINE Has == {m \in Nat : m + 1 \in R =>
                      SumFunctionOnSet(f, 1 .. U[m + 1]) = SumFunctionOnSet(g, 1 .. m + 1)}
<1>1. ASSUME NEW i \in R
      PROVE  SumFunctionOnSet(f, 1 .. U[i]) = SumFunctionOnSet(f, 1 .. L[i]) + g[i]
  <2>1. L[i] \in Nat /\ U[i] \in Nat /\ L[i] <= U[i] /\ U[i] <= q /\ q \in Nat
    <3>1. q \in Nat
      BY DEF IsTiers
    <3>2. QED
      BY <3>1, TiersFollow
  <2>2. \A k \in 1 .. U[i] : f[k] \in Int
    BY <2>1
  <2>3. P[i] \in Int
    BY DEF IsTiers
  <2>4. ASSUME NEW k \in L[i] + 1 .. U[i] PROVE f[k] = P[i]
    <3>1. k \in 1 .. q
      BY <2>1, <2>4
    <3>2. Min({j \in 1 .. n : T[j] = Unbounded \/ k <= T[j]}) = i
      BY TiersReach
    <3>3. i \in {j \in 1 .. n : T[j] = Unbounded \/ k <= T[j]}
      <4>1. {j \in 1 .. n : T[j] = Unbounded \/ k <= T[j]} # {}
        <5>1. i \in 1 .. n /\ T[i] \in Nat \cup {Unbounded}
          BY DEF IsTiers
        <5>2. U[i] = (IF T[i] = Unbounded THEN q ELSE IF T[i] <= q THEN T[i] ELSE q)
          BY <5>1 DEF IsTiers
        <5>3. T[i] = Unbounded \/ k <= T[i]
          BY <2>1, <5>1, <5>2
        <5>4. QED
          BY <5>1, <5>3
      <4>2. {j \in 1 .. n : T[j] = Unbounded \/ k <= T[j]} \in SUBSET Nat
        OBVIOUS
      <4>3. QED
        BY <3>2, <4>1, <4>2, LeastOfNaturals
    <3>4. PriceOf(n, T, P, k) = P[i]
      BY <3>2, <3>3 DEF PriceOf
    <3>5. QED
      BY <3>1, <3>4
  <2>5. SumFunctionOnSet(f, 1 .. U[i]) = SumFunctionOnSet(f, 1 .. L[i]) + P[i] * (U[i] - L[i])
    <3>1. PICK a, b, c : a = L[i] /\ b = U[i] /\ c = P[i]
      OBVIOUS
    <3>2. /\ a \in Nat /\ b \in Nat /\ a <= b /\ c \in Int
          /\ \A k \in 1 .. b : f[k] \in Int
          /\ \A k \in a + 1 .. b : f[k] = c
      BY <2>1, <2>2, <2>3, <2>4, <3>1
    <3>3. SumFunctionOnSet(f, 1 .. b) = SumFunctionOnSet(f, 1 .. a) + c * (b - a)
      BY <3>2, SumOfConstant
    <3>4. QED
      BY <3>1, <3>3
  <2>6. QED
    BY <2>5
<1>2. 0 \in Has
  <2>1. 1 \in R /\ L[1] = 0
    BY TiersFollow
  <2>2. SumFunctionOnSet(f, 1 .. L[1]) = 0
    <3>1. 1 .. 0 = {}
      OBVIOUS
    <3>2. QED
      BY <2>1, <3>1, SumOfNothing
  <2>3. SumFunctionOnSet(g, 1 .. 1) = g[1]
    <3>1. 1 .. 1 = {} \cup {1}
      OBVIOUS
    <3>2. IsFiniteSet({}) /\ 1 \notin {} /\ \A y \in {} \cup {1} : g[y] \in Int
      BY <2>1, FS_EmptySet
    <3>3. SumFunctionOnSet(g, {} \cup {1}) = SumFunctionOnSet(g, {}) + g[1]
      BY <3>2, SumAddsOne
    <3>4. g[1] \in Int
      BY <2>1
    <3>5. QED
      BY <3>1, <3>3, <3>4, SumOfNothing
  <2>4. SumFunctionOnSet(f, 1 .. U[1]) = 0 + g[1] /\ g[1] \in Int
    BY <1>1, <2>1, <2>2
  <2>5. QED
    BY <2>3, <2>4
<1>3. ASSUME NEW m \in Has PROVE m + 1 \in Has
  <2>1. SUFFICES ASSUME m + 2 \in R
                 PROVE  SumFunctionOnSet(f, 1 .. U[m + 2]) = SumFunctionOnSet(g, 1 .. m + 2)
    OBVIOUS
  <2>2. m \in Nat /\ m + 2 # 1 /\ (m + 2) - 1 = m + 1
    OBVIOUS
  <2>3. m + 1 \in R /\ U[m + 1] = L[m + 2]
    BY <2>1, <2>2, TiersFollow
  <2>4. SumFunctionOnSet(f, 1 .. U[m + 2]) = SumFunctionOnSet(g, 1 .. m + 1) + g[m + 2]
    BY <1>1, <2>1, <2>3
  <2>5. 1 .. m + 2 = (1 .. m + 1) \cup {m + 2} /\ m + 2 \notin 1 .. m + 1
    BY <2>2
  <2>6. IsFiniteSet(1 .. m + 1)
    BY <2>2, FS_Interval
  <2>7. \A y \in (1 .. m + 1) \cup {m + 2} : g[y] \in Int
    <3>1. SUFFICES ASSUME NEW y \in (1 .. m + 1) \cup {m + 2} PROVE y \in R
      OBVIOUS
    <3>2. y = m + 2 \/ y \in 1 .. (m + 2) - 1
      BY <2>2
    <3>3. QED
      BY <2>1, <3>2, TiersFollow
  <2>8. SumFunctionOnSet(g, (1 .. m + 1) \cup {m + 2}) = SumFunctionOnSet(g, 1 .. m + 1) + g[m + 2]
    <3>1. PICK S, x : S = 1 .. m + 1 /\ x = m + 2
      OBVIOUS
    <3>2. IsFiniteSet(S) /\ x \notin S /\ \A y \in S \cup {x} : g[y] \in Int
      BY <2>5, <2>6, <2>7, <3>1
    <3>3. SumFunctionOnSet(g, S \cup {x}) = SumFunctionOnSet(g, S) + g[x]
      BY <3>2, SumAddsOne
    <3>4. QED
      BY <3>1, <3>3
  <2>9. QED
    BY <2>4, <2>5, <2>8
<1>4. \A m \in Nat : m \in Has
  <2>1. Has \subseteq Nat
    OBVIOUS
  <2> HIDE DEF Has
  <2>2. QED
    BY <1>2, <1>3, <2>1, NumberInduction
<1>5. ASSUME NEW i \in R PROVE SumFunctionOnSet(f, 1 .. U[i]) = SumFunctionOnSet(g, 1 .. i)
  <2>1. i - 1 \in Nat /\ (i - 1) + 1 = i
    BY DEF IsTiers
  <2>2. QED
    BY <1>4, <2>1
<1>6. QED
  BY <1>5

\* The tiers that are reached are the first ones.
LEMMA TiersReached ==
    ASSUME NEW n, NEW T, NEW P, NEW q, NEW R, NEW L, NEW U, IsTiers(n, T, P, q, R, L, U)
    PROVE  \E m \in 1 .. n : R = 1 .. m
<1> DEFINE S == (1 .. n + 1) \ R
<1>1. n \in Nat /\ n # 0 /\ R \subseteq 1 .. n /\ 1 \in R
  BY TiersFollow DEF IsTiers
<1>2. n + 1 \in S /\ S \in SUBSET Nat
  BY <1>1
<1>3. PICK l : l = Min(S)
  OBVIOUS
<1>4. l \in S /\ \A i \in S : l <= i
  <2> HIDE DEF S
  <2>1. QED
    BY <1>2, <1>3, LeastOfNaturals
<1>5. l \in Nat /\ l - 1 \in 1 .. n
  BY <1>1, <1>4
<1>6. \A i \in 1 .. l - 1 : i \in R
  <2>1. SUFFICES ASSUME NEW i \in 1 .. l - 1, i \notin R PROVE FALSE
    OBVIOUS
  <2>2. i \in S
    BY <1>1, <1>5, <2>1
  <2>3. QED
    BY <1>4, <1>5, <2>1, <2>2
<1>7. \A i \in R : i \in 1 .. l - 1
  <2>1. SUFFICES ASSUME NEW i \in R, ~ (i < l) PROVE FALSE
    BY <1>1, <1>5
  <2>2. i # l
    BY <1>4
  <2>3. l \in 1 .. i - 1
    BY <1>1, <1>5, <2>1, <2>2
  <2>4. QED
    BY <1>4, <2>3, TiersFollow
<1>8. QED
  BY <1>5, <1>6, <1>7

\* The units cost what the tiers cost, and those beyond the last tier its price.
LEMMA TiersAddUp ==
    ASSUME NEW n, NEW T, NEW P, NEW q, NEW R, NEW L, NEW U, IsTiers(n, T, P, q, R, L, U),
           NEW f, \A k \in 1 .. q : f[k] = PriceOf(n, T, P, k) /\ f[k] \in Int,
           NEW g, \A i \in R : g[i] = P[i] * (U[i] - L[i]) /\ g[i] \in Int
    PROVE  SumFunctionOnSet(f, 1 .. q) =
              SumFunctionOnSet(g, R) + P[n] * (IF n \in R THEN q - U[n] ELSE 0)
<1>0. Unbounded \notin Nat
  BY MeteringAssumption
<1>1. PICK m \in 1 .. n : R = 1 .. m
  BY TiersReached
<1>2. n \in Nat /\ n # 0 /\ q \in Nat /\ P[n] \in Int /\ m \in Nat /\ m \in R
  <2>1. n \in Nat /\ n # 0 /\ q \in Nat /\ P \in [1 .. n -> Nat]
    BY DEF IsTiers
  <2>2. m \in Nat /\ m \in 1 .. m /\ n \in 1 .. n
    BY <2>1
  <2>3. QED
    BY <1>1, <2>1, <2>2
<1>3. SumFunctionOnSet(f, 1 .. U[m]) = SumFunctionOnSet(g, R)
  <2>1. \A i \in R : SumFunctionOnSet(f, 1 .. U[i]) = SumFunctionOnSet(g, 1 .. i)
    BY TiersAddUpSoFar
  <2>2. QED
    BY <1>1, <1>2, <2>1
<1>4. U[m] \in Nat /\ U[m] <= q
  BY <1>2, TiersFollow
<1>5. SumFunctionOnSet(g, R) \in Int
  <2>1. IsFiniteSet(R)
    BY <1>1, <1>2, FS_Interval
  <2>2. QED
    BY <2>1, SumTakesOut
<1>6. CASE m = n
  <2>1. ASSUME NEW k \in U[m] + 1 .. q PROVE f[k] = P[n]
    <3>1. k \in 1 .. q /\ k \in Nat
      BY <1>2, <1>4
    <3>2. T[m] \in Nat /\ U[m] = T[m]
      BY <1>0, <1>2, <1>4, <2>1 DEF IsTiers
    <3>3. {j \in 1 .. n : T[j] = Unbounded \/ k <= T[j]} = {}
      <4>1. SUFFICES ASSUME NEW j \in 1 .. n PROVE T[j] # Unbounded /\ ~ (k <= T[j])
        OBVIOUS
      <4>2. CASE j = m
        BY <1>0, <1>4, <2>1, <3>1, <3>2, <4>2
      <4>3. CASE j # m
        <5>1. j \in 1 .. m - 1
          BY <1>2, <1>6, <4>1, <4>3
        <5>2. T[j] <= L[m] /\ T[j] \in Nat
          BY <1>2, <5>1, TiersReach, TiersFollow
        <5>3. L[m] \in Nat /\ L[m] <= U[m]
          BY <1>2, TiersFollow
        <5>4. QED
          BY <1>0, <1>4, <2>1, <3>1, <5>2, <5>3
      <4>4. QED
        BY <4>2, <4>3
    <3>4. QED
      BY <3>1, <3>3 DEF PriceOf
  <2>2. SumFunctionOnSet(f, 1 .. q) = SumFunctionOnSet(f, 1 .. U[m]) + P[n] * (q - U[m])
    <3>1. PICK a, c : a = U[m] /\ c = P[n]
      OBVIOUS
    <3>2. a \in Nat /\ a <= q /\ c \in Int /\ \A k \in a + 1 .. q : f[k] = c
      BY <1>2, <1>4, <2>1, <3>1
    <3>3. q \in Nat /\ \A k \in 1 .. q : f[k] \in Int
      BY <1>2
    <3>4. SumFunctionOnSet(f, 1 .. q) = SumFunctionOnSet(f, 1 .. a) + c * (q - a)
      BY Zenon, <3>2, <3>3, SumOfConstant
    <3>5. QED
      BY <3>1, <3>4
  <2>3. QED
    BY <1>2, <1>3, <1>6, <2>2
<1>7. CASE m # n
  <2>1. n \notin R /\ m + 1 \in 1 .. n /\ m + 1 \notin R
    BY <1>1, <1>2, <1>7
  <2>2. ~ (T[m] # Unbounded /\ T[m] < q)
    <3>1. SUFFICES ASSUME T[m] # Unbounded, T[m] < q PROVE m + 1 \in R
      BY <2>1
    <3>2. ASSUME NEW j \in 1 .. (m + 1) - 1 PROVE T[j] # Unbounded /\ T[j] < q
      <4>1. j = m \/ j \in 1 .. m - 1
        BY <1>2, <3>2
      <4>2. QED
        BY <1>0, <1>2, <3>1, <4>1, TiersFollow
    <3>3. QED
      BY <2>1, <3>2 DEF IsTiers
  <2>3. T[m] # Unbounded
    BY <1>2, <1>7 DEF IsTiers
  <2>4. T[m] \in Nat /\ U[m] = (IF T[m] <= q THEN T[m] ELSE q)
    BY <2>3 DEF IsTiers
  <2>5. U[m] = q
    BY <1>2, <2>2, <2>3, <2>4
  <2>6. P[n] * 0 = 0
    BY <1>2
  <2>7. QED
    BY <1>3, <1>5, <2>1, <2>5, <2>6
<1>8. QED
  BY <1>6, <1>7

\* Tiers of the quantity charge what the units cost under them.
LEMMA QuantityTiersAddUp ==
    ASSUME NEW tiers \in Seq([price : Nat, upTo : Nat \cup {Unbounded}]), tiers # <<>>, NEW q \in Nat \ {0},
           ~ QuantityAmount(tiers, q).error
    PROVE  QuantityAmount(tiers, q).amount = SumFunctionOnSet([k \in 1 .. q |-> PriceAt(tiers, k)], 1 .. q)
<1> DEFINE lower(i) == IF i = 1 THEN 0 ELSE tiers[i - 1].upTo
           upper(i) == IF tiers[i].upTo = Unbounded THEN q ELSE Min({tiers[i].upTo, q})
           reached  == {i \in DOMAIN tiers : \A j \in 1 .. i - 1 : tiers[j].upTo # Unbounded /\ tiers[j].upTo < q}
           wrong(i) == IF tiers[i].upTo = Unbounded THEN i # Len(tiers) ELSE tiers[i].upTo <= lower(i)
           beyond   == IF Len(tiers) \in reached THEN q - upper(Len(tiers)) ELSE 0
           f        == [k \in 1 .. q |-> PriceAt(tiers, k)]
           g        == [i \in reached |-> tiers[i].price * (upper(i) - lower(i))]
           n        == Len(tiers)
           T        == [i \in 1 .. n |-> tiers[i].upTo]
           P        == [i \in 1 .. n |-> tiers[i].price]
           L        == [i \in 1 .. n |-> IF i = 1 THEN 0 ELSE T[i - 1]]
           U        == [i \in 1 .. n |-> IF T[i] = Unbounded THEN q ELSE IF T[i] <= q THEN T[i] ELSE q]
<1>1. ~ (\E i \in reached : wrong(i))
  BY DEF QuantityAmount, Failed
<1>2. QuantityAmount(tiers, q).amount = SumFunctionOnSet(g, reached) + Last(tiers).price * beyond
  <2>1. QuantityAmount(tiers, q) = Amounting(SumFunctionOnSet(g, reached) + Last(tiers).price * beyond)
    BY <1>1 DEF QuantityAmount
  <2>2. \A x : Amounting(x).amount = x
    BY DEF Amounting, Failed
  <2>3. QED
    BY <2>1, <2>2
<1>3. /\ n \in Nat \ {0} /\ DOMAIN tiers = 1 .. n
      /\ \A i \in 1 .. n : tiers[i].price \in Nat /\ tiers[i].upTo \in Nat \cup {Unbounded}
  <2>1. PICK Tier : Tier = [price : Nat, upTo : Nat \cup {Unbounded}]
    OBVIOUS
  <2>2. tiers \in Seq(Tier)
    BY <2>1
  <2>3. \A i \in 1 .. Len(tiers) : tiers[i] \in Tier
    BY <2>2, ElementOfSeq
  <2>4. Len(tiers) \in Nat /\ Len(tiers) # 0 /\ DOMAIN tiers = 1 .. Len(tiers)
    BY <2>2, EmptySeq, LenProperties
  <2>5. QED
    BY <2>1, <2>3, <2>4
<1>4. T \in [1 .. n -> Nat \cup {Unbounded}] /\ P \in [1 .. n -> Nat]
  BY <1>3
<1>5. \A i \in 1 .. n : /\ T[i] = tiers[i].upTo /\ P[i] = tiers[i].price
                        /\ U[i] = upper(i) /\ L[i] = lower(i)
  <2>1. SUFFICES ASSUME NEW i \in 1 .. n PROVE U[i] = upper(i) /\ L[i] = lower(i)
    OBVIOUS
  <2>2. U[i] = upper(i)
    <3>1. T[i] = tiers[i].upTo /\ q \in Int
      OBVIOUS
    <3>2. CASE tiers[i].upTo = Unbounded
      BY <3>1, <3>2
    <3>3. CASE tiers[i].upTo # Unbounded
      <4>1. tiers[i].upTo \in Int
        BY <1>3, <3>3
      <4>2. Min({tiers[i].upTo, q}) = IF tiers[i].upTo <= q THEN tiers[i].upTo ELSE q
        BY <3>1, <4>1, OfTwo
      <4>3. QED
        BY <3>1, <3>3, <4>2
    <3>4. QED
      BY <3>2, <3>3
  <2>3. L[i] = lower(i)
    <3>1. i = 1 \/ i - 1 \in 1 .. n
      BY <1>3
    <3>2. QED
      BY <3>1
  <2>4. QED
    BY <2>2, <2>3
<1>6. reached = {i \in 1 .. n : \A j \in 1 .. i - 1 : T[j] # Unbounded /\ T[j] < q}
  <2>1. \A i \in 1 .. n : \A j \in 1 .. i - 1 : j \in 1 .. n
    BY <1>3
  <2>2. QED
    BY <1>3, <1>5, <2>1
<1>7. IsTiers(n, T, P, q, reached, L, U)
  <2>1. ASSUME NEW i \in reached PROVE IF T[i] = Unbounded THEN i = n ELSE T[i] > L[i]
    <3>1. ~ wrong(i) /\ i \in 1 .. n
      BY <1>1, <1>3
    <3>2. T[i] = tiers[i].upTo /\ L[i] = lower(i) /\ T[i] \in Nat \cup {Unbounded}
      BY <1>3, <1>5, <3>1
    <3>3. T[i] # Unbounded => ~ (T[i] <= L[i])
      BY <3>1, <3>2
    <3>4. L[i] = (IF i = 1 THEN 0 ELSE T[i - 1]) /\ (i # 1 => i - 1 \in 1 .. i - 1)
      BY <1>3, <3>1
    <3>5. L[i] \in Nat
      <4>1. i # 1 => i - 1 \in 1 .. n /\ T[i - 1] # Unbounded
        BY <1>3, <1>6, <3>1, <3>4
      <4>2. QED
        BY <1>4, <3>4, <4>1
    <3>6. T[i] = Unbounded => i = n
      BY <3>1, <3>2
    <3> HIDE DEF L, U, T, P, n, reached
    <3>7. CASE T[i] = Unbounded
      BY <3>6, <3>7
    <3>8. CASE T[i] # Unbounded
      <4>1. T[i] \in Nat /\ ~ (T[i] <= L[i])
        BY <3>2, <3>3, <3>8
      <4>2. T[i] > L[i]
        BY <3>5, <4>1
      <4>3. QED
        BY <3>8, <4>2
    <3>9. QED
      BY <3>7, <3>8
  <2>2. /\ L = [i \in 1 .. n |-> IF i = 1 THEN 0 ELSE T[i - 1]]
        /\ U = [i \in 1 .. n |-> IF T[i] = Unbounded THEN q ELSE IF T[i] <= q THEN T[i] ELSE q]
    OBVIOUS
  <2> HIDE DEF reached, L, U, T, P, n
  <2>3. QED
    BY <1>3, <1>4, <1>6, <2>1, <2>2 DEF IsTiers
<1>8. \A k \in 1 .. q : f[k] = PriceOf(n, T, P, k) /\ f[k] \in Int
  <2>1. SUFFICES ASSUME NEW k \in 1 .. q PROVE f[k] = PriceOf(n, T, P, k) /\ f[k] \in Int
    OBVIOUS
  <2> DEFINE over == Reaching(tiers, k)
  <2>2. over = {j \in 1 .. n : T[j] = Unbounded \/ k <= T[j]}
    BY <1>3, <1>5 DEF Reaching
  <2>3. over # {} => Min(over) \in 1 .. n
    <3>1. over \in SUBSET Nat /\ over \subseteq 1 .. n
      BY <2>2
    <3> HIDE DEF over
    <3>2. QED
      BY <3>1, LeastOfNaturals
  <2>4. f[k] = IF over # {} THEN tiers[Min(over)].price ELSE tiers[n].price
    BY DEF PriceAt, Last
  <2>5. PriceOf(n, T, P, k) = IF over # {} THEN P[Min(over)] ELSE P[n]
    BY <2>2 DEF PriceOf
  <2>6. n \in 1 .. n
    BY <1>3
  <2>7. \A i \in 1 .. n : P[i] = tiers[i].price /\ tiers[i].price \in Int
    BY <1>3, <1>5
  <2> HIDE DEF over, T, P, n, f
  <2>8. CASE over # {}
    BY <2>3, <2>4, <2>5, <2>7, <2>8
  <2>9. CASE over = {}
    BY <2>4, <2>5, <2>6, <2>7, <2>9
  <2>10. QED
    BY <2>8, <2>9
<1>9. \A i \in reached : g[i] = P[i] * (U[i] - L[i]) /\ g[i] \in Int
  <2>1. SUFFICES ASSUME NEW i \in reached PROVE g[i] = P[i] * (U[i] - L[i]) /\ g[i] \in Int
    OBVIOUS
  <2>2. g[i] = tiers[i].price * (upper(i) - lower(i)) /\ i \in 1 .. n
    BY <1>3
  <2>3. U[i] \in Nat /\ L[i] \in Nat
    <3> HIDE DEF reached, L, U, T, P, n
    <3>1. QED
      BY <1>7, TiersFollow
  <2>4. P[i] \in Nat
    BY <1>4, <2>2
  <2>5. g[i] = P[i] * (U[i] - L[i])
    BY <1>5, <2>2
  <2> HIDE DEF g, L, U, P
  <2>6. QED
    BY <2>3, <2>4, <2>5
<1>10. SumFunctionOnSet(f, 1 .. q) = SumFunctionOnSet(g, reached) + P[n] * (IF n \in reached THEN q - U[n] ELSE 0)
  <2> HIDE DEF reached, L, U, T, P, n, f, g
  <2>1. QED
    BY <1>7, <1>8, <1>9, TiersAddUp
<1>11. P[n] = Last(tiers).price /\ (IF n \in reached THEN q - U[n] ELSE 0) = beyond
  <2>1. n \in 1 .. n
    BY <1>3
  <2>2. Last(tiers) = tiers[n]
    BY DEF Last
  <2>3. P[n] = tiers[n].price /\ U[n] = upper(n)
    BY <1>5, <2>1
  <2>4. (IF n \in reached THEN q - U[n] ELSE 0) = beyond
    <3> HIDE DEF U, reached
    <3>1. QED
      BY <2>3
  <2> HIDE DEF P
  <2>5. QED
    BY <2>2, <2>3, <2>4
<1>12. QED
  BY <1>2, <1>10, <1>11

\* A tier has a price, whatever goes by the tiers.
LEMMA TierHasPrice ==
    ASSUME NEW tiers \in Seq([price : Nat, upTo : Nat \cup {Unbounded}]), tiers # <<>>, NEW at
    PROVE  /\ PriceAt(tiers, at) \in Nat
           /\ Reaching(tiers, at) # {} => PriceAt(tiers, at) = tiers[Min(Reaching(tiers, at))].price
<1>1. PICK Tier : Tier = [price : Nat, upTo : Nat \cup {Unbounded}]
  OBVIOUS
<1>2. tiers \in Seq(Tier)
  BY <1>1
<1>3. \A i \in 1 .. Len(tiers) : tiers[i] \in Tier
  BY <1>2, ElementOfSeq
<1>4. Len(tiers) \in Nat /\ Len(tiers) # 0 /\ DOMAIN tiers = 1 .. Len(tiers)
  BY <1>2, EmptySeq, LenProperties
<1>5. \A i \in 1 .. Len(tiers) : tiers[i].price \in Nat
  BY <1>1, <1>3
<1>6. Last(tiers) = tiers[Len(tiers)] /\ Len(tiers) \in 1 .. Len(tiers)
  BY <1>4 DEF Last
<1>7. PICK over : over = Reaching(tiers, at)
  OBVIOUS
<1>8. over \subseteq 1 .. Len(tiers)
  BY <1>4, <1>7 DEF Reaching
<1>9. over # {} => Min(over) \in 1 .. Len(tiers)
  <2>1. over \in SUBSET Nat
    BY <1>8
  <2>2. QED
    BY <1>8, <2>1, LeastOfNaturals
<1>10. PriceAt(tiers, at) = IF over # {} THEN tiers[Min(over)].price ELSE Last(tiers).price
  BY <1>7 DEF PriceAt
<1>11. QED
  BY <1>5, <1>6, <1>7, <1>9, <1>10

\* The units of a meter cost a natural amount.
LEMMA UnitHasPrice ==
    ASSUME NEW component, IsComponent(component), NEW k, NEW u, NEW charged
    PROVE  UnitPrice(component, k, u, charged) \in Nat
BY TierHasPrice DEF UnitPrice, IsComponent

\* The sum of q times the same amount.
LEMMA SumOfEqual ==
    ASSUME NEW q \in Nat, NEW c \in Int, NEW f, \A k \in 1 .. q : f[k] = c
    PROVE  SumFunctionOnSet(f, 1 .. q) = c * q
<1>1. \A k \in 1 .. q : f[k] \in Int
  OBVIOUS
<1>2. \A k \in 0 + 1 .. q : f[k] = c
  OBVIOUS
<1>3. SumFunctionOnSet(f, 1 .. q) = SumFunctionOnSet(f, 1 .. 0) + c * (q - 0)
  BY <1>1, <1>2, SumOfConstant
<1>4. SumFunctionOnSet(f, 1 .. 0) = 0
  <2>1. 1 .. 0 = {}
    OBVIOUS
  <2>2. QED
    BY <2>1, SumOfNothing
<1>5. q - 0 = q /\ c * q \in Int
  OBVIOUS
<1>6. QED
  BY <1>3, <1>4, <1>5

\* What a meter is charged is the sum of the prices of its units (tieredAmount).
LEMMA UnitsAddUp ==
    ASSUME NEW component, IsComponent(component), NEW q \in Nat \ {0}, NEW n, NEW u, NEW charged,
           component.tiers # <<>> /\ component.basis # "quantity" =>
              Context(u, charged, component.basis) = Quantity(n, component.basis),
           ~ TieredAmount(component, q, n).error
    PROVE  TieredAmount(component, q, n).amount =
              SumFunctionOnSet([k \in 1 .. q |-> UnitPrice(component, k, u, charged)], 1 .. q)
<1> DEFINE tiers == component.tiers
           f     == [k \in 1 .. q |-> UnitPrice(component, k, u, charged)]
<1>1. q \in Nat /\ \A x : Amounting(x).amount = x
  BY DEF Amounting, Failed
<1>2. CASE tiers = <<>>
  <2>1. \A k \in 1 .. q : f[k] = component.price
    BY <1>2 DEF UnitPrice
  <2>2. component.price \in Int
    BY DEF IsComponent
  <2>3. TieredAmount(component, q, n) = Amounting(component.price * q)
    BY <1>2 DEF TieredAmount
  <2>4. PICK c \in Int : c = component.price
    BY <2>2
  <2> HIDE DEF f
  <2>5. SumFunctionOnSet(f, 1 .. q) = c * q
    BY <1>1, <2>1, <2>4, SumOfEqual
  <2>6. QED
    BY <1>1, <2>3, <2>4, <2>5 DEF f
<1>3. CASE tiers # <<>> /\ component.basis = "quantity"
  <2>1. TieredAmount(component, q, n) = QuantityAmount(tiers, q)
    BY <1>3 DEF TieredAmount
  <2>2. f = [k \in 1 .. q |-> PriceAt(tiers, k)]
    BY <1>3 DEF UnitPrice
  <2>3. tiers \in Seq([price : Nat, upTo : Nat \cup {Unbounded}])
    BY DEF IsComponent
  <2>4. ~ QuantityAmount(tiers, q).error
    BY <2>1
  <2> HIDE DEF f, tiers
  <2>5. tiers # <<>>
    BY <1>3 DEF tiers
  <2>6. QuantityAmount(tiers, q).amount = SumFunctionOnSet([k \in 1 .. q |-> PriceAt(tiers, k)], 1 .. q)
    BY <2>3, <2>4, <2>5, QuantityTiersAddUp
  <2>7. TieredAmount(component, q, n).amount = SumFunctionOnSet(f, 1 .. q)
    BY <2>1, <2>2, <2>6
  <2>8. QED
    BY <2>7 DEF f
<1>4. CASE tiers # <<>> /\ component.basis # "quantity"
  <2> DEFINE at   == Quantity(n, component.basis)
             over == Reaching(tiers, at)
  <2>1. TieredAmount(component, q, n) = ContextAmount(tiers, q, at)
    BY <1>4 DEF TieredAmount
  <2>2. over # {} /\ ContextAmount(tiers, q, at) = Amounting(tiers[Min(over)].price * q)
    BY <2>1 DEF ContextAmount, Failed
  <2>3. tiers \in Seq([price : Nat, upTo : Nat \cup {Unbounded}])
    BY DEF IsComponent
  <2>4. PriceAt(tiers, at) \in Nat /\ PriceAt(tiers, at) = tiers[Min(over)].price
    <3> HIDE DEF tiers, at
    <3>1. tiers # <<>>
      BY <1>4 DEF tiers
    <3>2. QED
      BY <2>2, <2>3, <3>1, TierHasPrice
  <2>5. \A k \in 1 .. q : f[k] = PriceAt(tiers, at)
    BY <1>4 DEF UnitPrice
  <2>6. TieredAmount(component, q, n).amount = PriceAt(tiers, at) * q
    BY <1>1, <2>1, <2>2, <2>4
  <2>7. PICK c \in Int : c = PriceAt(tiers, at)
    BY <2>4
  <2> HIDE DEF f
  <2>8. SumFunctionOnSet(f, 1 .. q) = c * q
    BY <1>1, <2>5, <2>7, SumOfEqual
  <2>9. QED
    BY <2>6, <2>7, <2>8 DEF f
<1>5. QED
  BY <1>2, <1>3, <1>4

-----------------------------------------------------------------------------
(* What the components of a price are                                      *)

IsComponents(cs) == \A k \in DOMAIN cs : IsComponent(cs[k])

\* A meter with a price has one of the components (componentForMeter).
LEMMA FoundIsComponent ==
    ASSUME NEW cs, NEW c, NEW tier, HasPrice(cs, c, tier)
    PROVE  \E k \in DOMAIN cs : Found(cs, c, tier) = cs[k]
<1> DEFINE has == {i \in DOMAIN Heirs(c) : HasComponent(cs, Heirs(c)[i], tier)}
<1>1. ASSUME NEW S, NEW line \in Seq(S) PROVE \E T : Heir(line) \in Seq(T)
  <2>1. PICK T : T = S \cup {Inherits[Last(line)]}
    OBVIOUS
  <2>2. line \in Seq(T) /\ Inherits[Last(line)] \in T
    BY <2>1
  <2>3. Append(line, Inherits[Last(line)]) \in Seq(T)
    BY <2>2, AppendProperties
  <2>4. QED
    BY <2>2, <2>3 DEF Heir
<1>2. \E T : Heirs(c) \in Seq(T)
  <2>1. <<c>> \in Seq({c})
    OBVIOUS
  <2>2. PICK S : Heir(<<c>>) \in Seq(S)
    BY <1>1, <2>1
  <2>3. QED
    BY <1>1, <2>2 DEF Heirs
<1>3. DOMAIN Heirs(c) \in SUBSET Nat
  <2>1. PICK T : Heirs(c) \in Seq(T)
    BY <1>2
  <2>2. QED
    BY <2>1, LenProperties
<1>4. has \in SUBSET Nat /\ has # {}
  BY <1>3 DEF HasPrice
<1>5. Min(has) \in has
  <2> HIDE DEF has
  <2>1. QED
    BY <1>4, LeastOfNaturals
<1>6. HasComponent(cs, Heirs(c)[Min(has)], tier)
  BY <1>5
<1>7. Found(cs, c, tier) = IF <<Heirs(c)[Min(has)], tier>> \in DOMAIN cs
                           THEN cs[<<Heirs(c)[Min(has)], tier>>] ELSE cs[<<Heirs(c)[Min(has)], "">>]
  BY DEF Found
<1> HIDE DEF has
<1>8. QED
  BY <1>6, <1>7 DEF HasComponent

\* The prices of a model, and of a group.
LEMMA PricesHaveComponents ==
    ASSUME NEW price, IsPrice(price), NEW mode \in Modes, NEW unitPrice \in Nat
    PROVE  /\ IsComponents(ComponentsFor(GroupPriced(price, mode, unitPrice)))
           /\ GroupPriced(price, mode, unitPrice).minimum \in Nat
           /\ IsPrice(GroupPriced(price, mode, unitPrice))
<1>1. ASSUME NEW n \in Nat PROVE IsComponent(Flat(n))
  <2>1. <<>> \in Seq([price : Nat, upTo : Nat \cup {Unbounded}])
    OBVIOUS
  <2>2. QED
    BY <2>1 DEF IsComponent, Flat
<1>2. ASSUME NEW p, IsPrice(p) PROVE IsComponents(ComponentsFor(p))
  <2> DEFINE legacy == [c \in {d \in DOMAIN p.legacy :
                                  d \in {"input_tokens", "output_tokens"} \/ p.legacy[d] > 0} |-> Flat(p.legacy[c])]
             more   == [k \in {<<c, "">> : c \in DOMAIN legacy} |-> legacy[k[1]]]
  <2>1. ComponentsFor(p) = Over(p.components, more)
    BY DEF ComponentsFor
  <2>2. ASSUME NEW k \in DOMAIN more PROVE IsComponent(more[k])
    <3>1. PICK c \in DOMAIN legacy : k = <<c, "">>
      OBVIOUS
    <3>2. more[k] = Flat(p.legacy[c]) /\ p.legacy[c] \in Nat
      BY <1>2, <3>1 DEF IsPrice
    <3>3. QED
      BY <1>1, <3>2
  <2>3. \A k \in DOMAIN p.components : IsComponent(p.components[k])
    BY <1>2 DEF IsPrice
  <2> HIDE DEF more
  <2>4. QED
    BY <2>1, <2>2, <2>3 DEF IsComponents, Over
<1>3. IsPrice(GroupPriced(price, mode, unitPrice)) /\ GroupPriced(price, mode, unitPrice).minimum \in Nat
  <2>1. CASE mode = "token"
    BY <2>1 DEF GroupPriced, IsPrice
  <2>2. CASE mode # "token"
    <3>1. PICK cs, code : /\ GroupPriced(price, mode, unitPrice) =
                                [legacy |-> NoLegacy, minimum |-> 0, components |-> cs]
                          /\ cs = Only(<<code, "">>, Flat(unitPrice))
      BY <2>2 DEF GroupPriced
    <3>2. \A c \in DOMAIN NoLegacy : NoLegacy[c] \in Nat
      BY DEF NoLegacy
    <3>3. \A k \in DOMAIN cs : IsComponent(cs[k])
      BY <3>1, <1>1 DEF Only
    <3>4. PICK g : g = GroupPriced(price, mode, unitPrice)
      OBVIOUS
    <3>5. g = [legacy |-> NoLegacy, minimum |-> 0, components |-> cs]
      BY <3>1, <3>4
    <3>6. g.legacy = NoLegacy
      BY <3>5
    <3>7. g.minimum = 0
      BY <3>5
    <3>8. g.components = cs
      BY <3>5
    <3>9. IsPrice(g) /\ g.minimum \in Nat
      BY <3>2, <3>3, <3>6, <3>7, <3>8 DEF IsPrice
    <3>10. QED
      BY <3>4, <3>9
  <2>3. QED
    BY <2>1, <2>2
<1>4. QED
  BY <1>2, <1>3

\* The context that tiers of a price go by, as reported and as it is charged.
GoesBy(cs, tier, u, n) ==
    \A k \in DOMAIN cs : cs[k].tiers # <<>> /\ cs[k].basis # "quantity" =>
        Context(u, WithRequest(cs, Normalize(u), tier), cs[k].basis) = Quantity(n, cs[k].basis)

\* A charge without an error has a line for every meter with a quantity, and its amount
\* is the sum over the units of its lines (calculateMeteredChargeForTier).
LEMMA ChargeAddsUp ==
    ASSUME NEW cs, IsComponents(cs), NEW minimum \in Nat, NEW tier, NEW usage, NEW u,
           NEW n, n = Normalize(WithRequest(cs, usage, tier)), IsUsage(n), PartsFit(n),
           GoesBy(cs, tier, u, n),
           NEW charge, charge = MeteredCharge(cs, usage, minimum, tier), ~ charge.error
    PROVE  /\ charge.amount = ByUnits(charge.lines, cs, minimum, tier, u) /\ charge.amount \in Nat
           /\ IsUsage(charge.lines) /\ \A c : Quantity(charge.lines, c) = EffectiveQuantity(n, c)
           /\ \A c \in DOMAIN n : EffectiveQuantity(n, c) > 0 => HasPrice(cs, c, tier)
<1> DEFINE line    == Lines(cs, n, tier)
           charged == WithRequest(cs, Normalize(u), tier)
           Units(c, q) == [k \in 1 .. q |-> UnitPrice(Found(cs, c, tier), k, u, charged)]
<1>1. \A c : EffectiveQuantity(n, c) \in Nat /\ (c \notin DOMAIN n => EffectiveQuantity(n, c) = 0)
  BY EffectiveOfFitting
<1>2. /\ DOMAIN line = {d \in DOMAIN n : EffectiveQuantity(n, d) > 0}
      /\ \A c \in DOMAIN line :
            /\ line[c].quantity = EffectiveQuantity(n, c)
            /\ line[c].charge = IF HasPrice(cs, c, tier)
                                THEN TieredAmount(Found(cs, c, tier), EffectiveQuantity(n, c), n) ELSE Failed
  BY DEF Lines
<1>3. charge = AddUp(line, minimum)
  BY DEF MeteredCharge
<1> HIDE DEF line
<1>4. \A c \in DOMAIN line : ~ line[c].charge.error
  BY <1>3 DEF AddUp, Failed
<1>5. /\ charge.amount = Max({minimum, SumFunctionOnSet([c \in DOMAIN line |-> line[c].charge.amount], DOMAIN line)})
      /\ charge.lines = [c \in DOMAIN line |-> line[c].quantity]
  BY <1>3, <1>4 DEF AddUp
<1>6. DOMAIN charge.lines = DOMAIN line /\ \A c \in DOMAIN line : charge.lines[c] = EffectiveQuantity(n, c)
  BY <1>2, <1>5
<1>7. ASSUME NEW c \in DOMAIN line
      PROVE  /\ HasPrice(cs, c, tier)
             /\ line[c].charge.amount =
                   SumFunctionOnSet(Units(c, charge.lines[c]), 1 .. charge.lines[c])
  <2>1. HasPrice(cs, c, tier)
    BY <1>2, <1>4 DEF Failed
  <2>2. PICK key \in DOMAIN cs : Found(cs, c, tier) = cs[key]
    BY <2>1, FoundIsComponent
  <2>3. PICK component : component = Found(cs, c, tier)
    OBVIOUS
  <2>4. PICK q : q = EffectiveQuantity(n, c)
    OBVIOUS
  <2>5. q \in Nat \ {0}
    BY <1>1, <1>2, <2>4
  <2>6. line[c].charge = TieredAmount(component, q, n)
    BY <1>2, <2>1, <2>3, <2>4
  <2>7. IsComponent(component)
    BY <2>2, <2>3 DEF IsComponents
  <2>8. component.tiers # <<>> /\ component.basis # "quantity" =>
           Context(u, charged, component.basis) = Quantity(n, component.basis)
    BY <2>2, <2>3 DEF GoesBy
  <2>9. ~ TieredAmount(component, q, n).error
    BY <1>4, <2>6
  <2> HIDE DEF charged
  <2>10. TieredAmount(component, q, n).amount =
            SumFunctionOnSet([k \in 1 .. q |-> UnitPrice(component, k, u, charged)], 1 .. q)
    BY <2>5, <2>7, <2>8, <2>9, UnitsAddUp
  <2>11. charge.lines[c] = q
    BY <1>6, <2>4
  <2>12. QED
    BY <2>1, <2>3, <2>6, <2>10, <2>11
<1>8. ByUnits(charge.lines, cs, minimum, tier, u) =
         Max({minimum, SumFunctionOnSet([c \in DOMAIN charge.lines |->
                           SumFunctionOnSet(Units(c, charge.lines[c]), 1 .. charge.lines[c])], DOMAIN charge.lines)})
  BY DEF ByUnits
<1>9. [c \in DOMAIN line |-> line[c].charge.amount] =
      [c \in DOMAIN charge.lines |-> SumFunctionOnSet(Units(c, charge.lines[c]), 1 .. charge.lines[c])]
  <2> HIDE DEF Units
  <2>1. QED
    BY <1>6, <1>7
<1>10. charge.amount = ByUnits(charge.lines, cs, minimum, tier, u)
  <2> HIDE DEF Units
  <2>1. QED
    BY <1>5, <1>6, <1>8, <1>9
<1>11. IsUsage(charge.lines)
  <2>1. DOMAIN line \subseteq DOMAIN n /\ IsFiniteSet(DOMAIN n)
    BY <1>2 DEF IsUsage
  <2>2. IsFiniteSet(DOMAIN line)
    BY <2>1, FS_Subset
  <2>3. charge.lines = [c \in DOMAIN line |-> line[c].quantity] /\ \A c \in DOMAIN line : line[c].quantity \in Nat
    BY <1>1, <1>2, <1>5
  <2>4. charge.lines \in [DOMAIN line -> Nat]
    BY <2>3
  <2>5. QED
    BY <1>6, <2>2, <2>4 DEF IsUsage
<1>12. ASSUME NEW c PROVE Quantity(charge.lines, c) = EffectiveQuantity(n, c)
  <2>1. c \notin DOMAIN line => EffectiveQuantity(n, c) = 0
    BY <1>1, <1>2
  <2>2. QED
    BY <1>6, <2>1 DEF Quantity
<1>13. \A c \in DOMAIN n : EffectiveQuantity(n, c) > 0 => HasPrice(cs, c, tier)
  BY <1>2, <1>7
<1>14. charge.amount \in Nat
  <2>1. \A c \in DOMAIN line : line[c].charge.amount \in Nat
    <3>1. SUFFICES ASSUME NEW c \in DOMAIN line PROVE line[c].charge.amount \in Nat
      OBVIOUS
    <3>2. PICK q \in Nat : q = charge.lines[c]
      BY <1>1, <1>6
    <3>3. HasPrice(cs, c, tier)
      BY <1>7
    <3>4. PICK key \in DOMAIN cs : Found(cs, c, tier) = cs[key]
      BY <3>3, FoundIsComponent
    <3>5. IsComponent(Found(cs, c, tier))
      BY <3>4 DEF IsComponents
    <3> DEFINE f == Units(c, q)
    <3>6. \A k \in 1 .. q : f[k] \in Nat
      BY <3>5, UnitHasPrice
    <3>7. IsFiniteSet(1 .. q)
      BY FS_Interval
    <3>8. line[c].charge.amount = SumFunctionOnSet(f, 1 .. q)
      BY <1>7, <3>2
    <3> HIDE DEF f
    <3>9. QED
      BY <3>6, <3>7, <3>8, SumOfNaturals
  <2>2. IsFiniteSet(DOMAIN line)
    BY <1>6, <1>11 DEF IsUsage
  <2> DEFINE g == [c \in DOMAIN line |-> line[c].charge.amount]
  <2>3. \A c \in DOMAIN line : g[c] \in Nat
    BY <2>1
  <2>4. charge.amount = Max({minimum, SumFunctionOnSet(g, DOMAIN line)})
    BY <1>5
  <2> HIDE DEF g
  <2>5. SumFunctionOnSet(g, DOMAIN line) \in Nat
    BY <2>2, <2>3, SumOfNaturals
  <2>6. PICK a \in Int : a = SumFunctionOnSet(g, DOMAIN line) /\ a \in Nat
    BY <2>5
  <2>7. Max({minimum, a}) = IF minimum <= a THEN a ELSE minimum
    <3>1. minimum \in Int
      OBVIOUS
    <3>2. QED
      BY <3>1, OfTwo
  <2>8. QED
    BY <2>4, <2>6, <2>7
<1>15. QED
  BY <1>10, <1>11, <1>12, <1>13, <1>14

\* A price for requests adds one (addImplicitRequestMetric); it is no part of a meter.
LEMMA RequestAdded ==
    ASSUME NEW cs, NEW tier, NEW u, IsUsage(u)
    PROVE  /\ IsUsage(WithRequest(cs, u, tier))
           /\ \A c : c # "requests" => Quantity(WithRequest(cs, u, tier), c) = Quantity(u, c)
           /\ Quantity(WithRequest(cs, u, tier), "requests") =
                 IF Quantity(u, "requests") = 0 /\ HasComponent(cs, "requests", tier) THEN 1
                 ELSE Quantity(u, "requests")
           /\ PartsFit(u) => PartsFit(WithRequest(cs, u, tier))
<1> DEFINE w == WithRequest(cs, u, tier)
           o == Over(Only("requests", 1), u)
<1>1. DOMAIN o = {"requests"} \cup DOMAIN u /\ o["requests"] = 1 /\ \A c \in DOMAIN u : c # "requests" => o[c] = u[c]
  BY DEF Over, Only
<1>2. w = IF Quantity(u, "requests") = 0 /\ HasComponent(cs, "requests", tier) THEN o ELSE u
  BY DEF WithRequest
<1>3. IsUsage(o)
  <2>1. IsFiniteSet({"requests"} \cup DOMAIN u)
    BY FS_AddElement DEF IsUsage
  <2>2. o = [x \in DOMAIN o |-> o[x]]
    BY DEF Over
  <2>3. \A x \in DOMAIN o : o[x] \in Nat
    BY <1>1 DEF IsUsage
  <2> HIDE DEF o
  <2>4. QED
    BY <1>1, <2>1, <2>2, <2>3 DEF IsUsage
<1> HIDE DEF o
<1>4. IsUsage(w)
  BY <1>2, <1>3
<1>5. \A c : c # "requests" => Quantity(w, c) = Quantity(u, c)
  BY <1>1, <1>2 DEF Quantity
<1>6. Quantity(w, "requests") =
         IF Quantity(u, "requests") = 0 /\ HasComponent(cs, "requests", tier) THEN 1 ELSE Quantity(u, "requests")
  <2>1. Quantity(o, "requests") = 1
    BY <1>1 DEF Quantity
  <2>2. QED
    BY <1>2, <2>1
<1>7. ASSUME PartsFit(u) PROVE PartsFit(w)
  <2>1. SUFFICES ASSUME NEW p \in DOMAIN Parts PROVE SumOfParts(w, p) <= Quantity(w, p)
    BY DEF PartsFit
  <2>2. "requests" \notin PartsOf(p) /\ p # "requests" /\ IsFiniteSet(PartsOf(p))
    BY PartsListed, PartsAreLevelled DEF Modalities, TotalMeters
  <2>3. \A c \in PartsOf(p) : Quantity(w, c) = Quantity(u, c)
    BY <1>5, <2>2
  <2> HIDE DEF w
  <2>4. SumOver(w, PartsOf(p)) = SumOver(u, PartsOf(p))
    BY <1>4, <2>2, <2>3, SumOfSameMeters
  <2>5. Quantity(w, p) = Quantity(u, p)
    BY <1>5, <2>2
  <2>6. QED
    BY <1>7, <2>4, <2>5 DEF PartsFit, SumOfParts
<1>8. QED
  BY <1>4, <1>5, <1>6, <1>7

\* Usages that count the same do so with a request, and a second request is not added.
LEMMA SameWithRequest ==
    ASSUME NEW cs, NEW tier, NEW u, IsUsage(u), NEW v, IsUsage(v), Same(u, v)
    PROVE  /\ Same(WithRequest(cs, u, tier), WithRequest(cs, v, tier))
           /\ Same(WithRequest(cs, WithRequest(cs, u, tier), tier), WithRequest(cs, u, tier))
<1>1. ASSUME NEW x, IsUsage(x), NEW y, IsUsage(y), Same(x, y)
      PROVE  Same(WithRequest(cs, x, tier), WithRequest(cs, y, tier))
  <2>1. SUFFICES ASSUME NEW c PROVE Quantity(WithRequest(cs, x, tier), c) = Quantity(WithRequest(cs, y, tier), c)
    BY DEF Same
  <2>2. Quantity(x, c) = Quantity(y, c)
    BY <1>1 DEF Same
  <2>3. CASE c = "requests"
    BY <1>1, <2>2, <2>3, RequestAdded
  <2>4. CASE c # "requests"
    BY <1>1, <2>2, <2>4, RequestAdded
  <2>5. QED
    BY <2>3, <2>4
<1>2. PICK w : w = WithRequest(cs, u, tier)
  OBVIOUS
<1>3. IsUsage(w)
  BY <1>2, RequestAdded
<1>4. Same(WithRequest(cs, w, tier), w)
  <2>1. SUFFICES ASSUME NEW c PROVE Quantity(WithRequest(cs, w, tier), c) = Quantity(w, c)
    BY DEF Same
  <2>2. CASE c = "requests"
    <3>1. Quantity(w, c) = 0 => ~ HasComponent(cs, "requests", tier)
      <4>1. Quantity(w, c) = IF Quantity(u, c) = 0 /\ HasComponent(cs, "requests", tier) THEN 1 ELSE Quantity(u, c)
        BY <1>2, <2>2, RequestAdded
      <4>2. QED
        BY <4>1
    <3>2. QED
      BY <1>3, <2>2, <3>1, RequestAdded
  <2>3. CASE c # "requests"
    BY <1>3, <2>3, RequestAdded
  <2>4. QED
    BY <2>2, <2>3
<1>5. QED
  BY <1>1, <1>2, <1>4

\* Meters that count nothing sum up to nothing.
LEMMA SumOfNone ==
    ASSUME NEW u, NEW cs, IsFiniteSet(cs), \A c \in cs : Quantity(u, c) = 0
    PROVE  SumOver(u, cs) = 0
<1> DEFINE f == [c \in cs |-> Quantity(u, c)]
           F == {T \in SUBSET cs : SumFunctionOnSet(f, T) = 0}
<1>1. {} \in F
  BY SumOfNothing
<1>2. ASSUME NEW T \in SUBSET cs, T # {}, \A x \in T : T \ {x} \in F PROVE T \in F
  <2>1. PICK x \in T : TRUE
    BY <1>2
  <2>2. IsFiniteSet(T) /\ \A y \in T : f[y] \in Int
    BY FS_Subset
  <2>3. f[x] = 0 /\ SumFunctionOnSet(f, T \ {x}) = 0
    BY <1>2
  <2> HIDE DEF f
  <2>4. SumFunctionOnSet(f, T) = f[x] + SumFunctionOnSet(f, T \ {x})
    BY <2>2, SumTakesOut
  <2>5. QED
    BY <2>3, <2>4
<1> HIDE DEF F
<1>3. SUBSET cs \subseteq F
  BY <1>1, <1>2, SubsetInduction
<1>4. QED
  BY <1>3 DEF F, SumOver

\* What a provider reports is a usage (normalizeUsage).
LEMMA ReportIsUsage ==
    ASSUME NEW report \in Reports
    PROVE  /\ IsUsage(UsageOf(report))
           /\ DOMAIN report.legacy = {} => UsageOf(report) = report.metrics
<1> DEFINE filled == {c \in DOMAIN report.legacy : report.legacy[c] > 0 /\ Quantity(report.metrics, c) = 0}
           f      == [c \in filled |-> report.legacy[c]]
<1>1. IsUsage(report.metrics) /\ IsUsage(report.legacy)
  BY MeteringAssumption
<1>2. UsageOf(report) = Over(f, report.metrics)
  BY DEF UsageOf
<1>3. DOMAIN f = filled /\ \A c \in filled : f[c] \in Nat
  BY <1>1 DEF IsUsage
<1>4. IsFiniteSet(filled)
  <2>1. filled \subseteq DOMAIN report.legacy
    OBVIOUS
  <2>2. QED
    BY <1>1, <2>1, FS_Subset DEF IsUsage
<1>5. IsUsage(UsageOf(report))
  <2> HIDE DEF f, filled
  <2>1. IsFiniteSet(filled \cup DOMAIN report.metrics)
    BY <1>1, <1>4, FS_Union DEF IsUsage
  <2>2. Over(f, report.metrics) \in [filled \cup DOMAIN report.metrics -> Nat]
    BY <1>1, <1>3 DEF IsUsage, Over
  <2>3. DOMAIN Over(f, report.metrics) = filled \cup DOMAIN report.metrics
    BY <1>3 DEF Over
  <2>4. QED
    BY <1>2, <2>1, <2>2, <2>3 DEF IsUsage
<1>6. ASSUME DOMAIN report.legacy = {} PROVE UsageOf(report) = report.metrics
  <2>1. filled = {}
    BY <1>6
  <2>2. PICK m : m = report.metrics
    OBVIOUS
  <2>3. m = [x \in DOMAIN m |-> m[x]]
    BY <1>1, <2>2 DEF IsUsage
  <2> HIDE DEF f
  <2>4. Over(f, m) = [x \in DOMAIN m |-> m[x]]
    BY <1>3, <2>1 DEF Over
  <2>5. QED
    BY <1>2, <2>2, <2>3, <2>4
<1>7. QED
  BY <1>5, <1>6

\* The first of some meters that counts something counts the same in usages that do.
LEMMA FirstOfSame ==
    ASSUME NEW u, NEW v, Same(u, v), NEW codes
    PROVE  FirstPositive(u, codes) = FirstPositive(v, codes)
<1>1. \A c : Quantity(u, c) = Quantity(v, c)
  BY DEF Same
<1>2. QED
  BY <1>1 DEF FirstPositive

\* One of some meters that count naturals counts a natural, and nothing where none does.
LEMMA FirstIsNatural ==
    ASSUME NEW u, IsUsage(u), NEW T, NEW codes \in Seq(T)
    PROVE  /\ FirstPositive(u, codes) \in Nat
           /\ (\A i \in DOMAIN codes : Quantity(u, codes[i]) = 0) => FirstPositive(u, codes) = 0
<1> DEFINE found == {i \in DOMAIN codes : Quantity(u, codes[i]) > 0}
<1>1. FirstPositive(u, codes) = IF found = {} THEN 0 ELSE Quantity(u, codes[Min(found)])
  BY DEF FirstPositive
<1>2. (\A i \in DOMAIN codes : Quantity(u, codes[i]) = 0) => found = {}
  OBVIOUS
<1> HIDE DEF found
<1>3. QED
  BY <1>1, <1>2, QuantityIsNatural

\* A usage of one meter that is no parent and no part fits.
LEMMA OneMeterFits ==
    ASSUME NEW q \in Nat, NEW c \in {"output_images", "output_seconds", "requests"}
    PROVE  /\ IsUsage(Only(c, q)) /\ PartsFit(Only(c, q)) /\ Quantity(Only(c, q), c) = q
           /\ \A d : d # c => Quantity(Only(c, q), d) = 0
           /\ HasPositive(Only(c, q)) <=> q > 0
<1>1. IsUsage(Only(c, q))
  <2>1. IsFiniteSet({c})
    BY FS_Singleton
  <2>2. QED
    BY <2>1 DEF IsUsage, Only
<1>2. Quantity(Only(c, q), c) = q /\ \A d : d # c => Quantity(Only(c, q), d) = 0
  BY DEF Quantity, Only
<1>3. HasPositive(Only(c, q)) <=> q > 0
  BY DEF HasPositive, Only
<1>4. ASSUME NEW p \in DOMAIN Parts PROVE SumOfParts(Only(c, q), p) <= Quantity(Only(c, q), p)
  <2>1. c \notin PartsOf(p) /\ IsFiniteSet(PartsOf(p))
    BY PartsListed, PartsAreLevelled DEF Modalities, TotalMeters
  <2>2. SumOfParts(Only(c, q), p) = 0
    BY <1>2, <2>1, SumOfNone DEF SumOfParts
  <2>3. QED
    BY <1>1, <2>2, QuantityIsNatural
<1>5. QED
  BY <1>1, <1>2, <1>3, <1>4 DEF PartsFit

\* A usage of nothing.
LEMMA NothingFits ==
    /\ IsUsage(<<>>) /\ PartsFit(<<>>) /\ ~ HasPositive(<<>>)
    /\ \A c : Quantity(<<>>, c) = 0
<1>1. DOMAIN <<>> = {} /\ <<>> \in [DOMAIN <<>> -> Nat]
  <2>1. <<>> \in Seq(Nat) /\ Len(<<>>) = 0
    BY EmptySeq
  <2>2. <<>> \in [1 .. 0 -> Nat] /\ DOMAIN <<>> = 1 .. 0
    BY <2>1, LenProperties
  <2>3. QED
    BY <2>2
<1>2. \A c : Quantity(<<>>, c) = 0
  BY <1>1 DEF Quantity
<1>3. IsUsage(<<>>) /\ ~ HasPositive(<<>>)
  BY <1>1, FS_EmptySet DEF IsUsage, HasPositive
<1>4. PartsFit(<<>>)
  <2>1. ASSUME NEW p \in DOMAIN Parts PROVE SumOfParts(<<>>, p) <= Quantity(<<>>, p)
    <3>1. SumOfParts(<<>>, p) = 0
      BY <1>2, PartsAreLevelled, SumOfNone DEF SumOfParts
    <3>2. QED
      BY <1>2, <3>1
  <2>2. QED
    BY <2>1 DEF PartsFit
<1>5. QED
  BY <1>2, <1>3, <1>4

\* What a group that does not charge tokens counts: one meter, found from the quantities
\* of the usage (customerMeteringUsage).
LEMMA GroupCountsOneMeter ==
    ASSUME NEW mode \in Modes \ {"token"}, NEW usage, IsUsage(usage)
    PROVE  /\ \E q \in Nat : \E c \in {"output_images", "output_seconds", "requests"} :
                 CustomerUsage(usage, mode) = IF q > 0 THEN Only(c, q) ELSE <<>>
           /\ mode = "video_request" => CustomerUsage(usage, mode) = Only("requests", 1)
           /\ \A v : Same(Normalize(v), Normalize(usage)) => CustomerUsage(v, mode) = CustomerUsage(usage, mode)
           /\ (mode # "video_request" /\ \A c : c # "requests" => Quantity(Normalize(usage), c) = 0) =>
                 CustomerUsage(usage, mode) = <<>>
<1> DEFINE images  == <<"output_images">>
           seconds == <<"output_seconds", "output_video_seconds", "output_seconds_480p",
                        "output_seconds_1080p", "output_seconds_4k">>
           Some(c, q) == IF q > 0 THEN Only(c, q) ELSE <<>>
<1>1. /\ mode = "image_count" => \A v : CustomerUsage(v, mode) = Some("output_images", FirstPositive(Normalize(v), images))
      /\ mode = "video_seconds" => \A v : CustomerUsage(v, mode) = Some("output_seconds", FirstPositive(Normalize(v), seconds))
      /\ mode = "video_request" => \A v : CustomerUsage(v, mode) = Only("requests", 1)
  BY DEF CustomerUsage
<1>2. IsUsage(Normalize(usage))
  BY NormalizedFits
<1>3. \E T : images \in Seq(T) /\ seconds \in Seq(T)
  <2>1. PICK T : T = {"output_images", "output_seconds", "output_video_seconds", "output_seconds_480p",
                      "output_seconds_1080p", "output_seconds_4k"}
    OBVIOUS
  <2>2. images \in Seq(T)
    BY <2>1
  <2>3. seconds \in Seq(T)
    BY <2>1
  <2>4. QED
    BY <2>2, <2>3
<1>4. /\ \A i \in DOMAIN images : images[i] # "requests"
      /\ \A i \in DOMAIN seconds : seconds[i] # "requests"
  OBVIOUS
<1> HIDE DEF images, seconds
<1>5. FirstPositive(Normalize(usage), images) \in Nat /\ FirstPositive(Normalize(usage), seconds) \in Nat
  BY <1>2, <1>3, FirstIsNatural
<1>6. mode \in {"image_count", "video_seconds", "video_request"}
  BY DEF Modes
<1>7. \E q \in Nat : \E c \in {"output_images", "output_seconds", "requests"} : CustomerUsage(usage, mode) = Some(c, q)
  <2>1. CASE mode = "image_count"
    BY <1>1, <1>5, <2>1
  <2>2. CASE mode = "video_seconds"
    BY <1>1, <1>5, <2>2
  <2>3. CASE mode = "video_request"
    <3>1. Some("requests", 1) = Only("requests", 1)
      OBVIOUS
    <3>2. 1 \in Nat
      OBVIOUS
    <3>3. CustomerUsage(usage, mode) = Some("requests", 1)
      BY <1>1, <2>3, <3>1
    <3> HIDE DEF Some
    <3>4. QED
      BY <3>2, <3>3
  <2>4. QED
    BY <1>6, <2>1, <2>2, <2>3
<1>8. ASSUME NEW v, Same(Normalize(v), Normalize(usage)) PROVE CustomerUsage(v, mode) = CustomerUsage(usage, mode)
  <2>1. \A codes : FirstPositive(Normalize(v), codes) = FirstPositive(Normalize(usage), codes)
    BY <1>8, FirstOfSame
  <2>2. CASE mode = "image_count"
    BY <1>1, <2>1, <2>2
  <2>3. CASE mode = "video_seconds"
    BY <1>1, <2>1, <2>3
  <2>4. CASE mode = "video_request"
    BY <1>1, <2>4
  <2>5. QED
    BY <1>6, <2>2, <2>3, <2>4
<1>9. ASSUME mode # "video_request", \A c : c # "requests" => Quantity(Normalize(usage), c) = 0
      PROVE  CustomerUsage(usage, mode) = <<>>
  <2>1. FirstPositive(Normalize(usage), images) = 0 /\ FirstPositive(Normalize(usage), seconds) = 0
    BY <1>2, <1>3, <1>4, <1>9, FirstIsNatural
  <2>2. QED
    BY <1>1, <1>6, <1>9, <2>1
<1>10. QED
  BY <1>1, <1>7, <1>8, <1>9

\* What a customer is charged for is a usage (customerMeteringUsageWithEstimate).
LEMMA CustomerUsageIsUsage ==
    ASSUME NEW mode \in Modes, NEW usage, IsUsage(usage)
    PROVE  IsUsage(CustomerUsage(usage, mode)) /\ PartsFit(CustomerUsage(usage, mode))
<1>1. CASE mode = "token"
  <2>1. CustomerUsage(usage, mode) = Normalize(usage)
    BY <1>1 DEF CustomerUsage
  <2>2. QED
    BY <2>1, NormalizedFits
<1>2. CASE mode # "token"
  <2>1. PICK q \in Nat : \E c \in {"output_images", "output_seconds", "requests"} :
           CustomerUsage(usage, mode) = IF q > 0 THEN Only(c, q) ELSE <<>>
    BY <1>2, GroupCountsOneMeter
  <2>2. QED
    BY <2>1, OneMeterFits, NothingFits
<1>3. QED
  BY <1>1, <1>2

\* Tokens that are settled: they count what the provider reports, and so does the
\* context that the tiers go by.
LEMMA SettledTokens ==
    ASSUME NEW cs, NEW tier, NEW reported, IsUsage(reported),
           NEW u, u = Normalize(reported), NEW n, n = Normalize(WithRequest(cs, Normalize(u), tier))
    PROVE  /\ IsUsage(n) /\ PartsFit(n)
           /\ \A c : Context(reported, WithRequest(cs, u, tier), c) = Quantity(n, c)
           /\ \A p \in TotalMeters : Quantity(n, p) = Whole(reported, p)
<1>1. IsUsage(u) /\ PartsFit(u) /\ \A p \in TotalMeters : Quantity(u, p) = Whole(reported, p)
  BY NormalizedFits
<1>2. IsUsage(Normalize(u)) /\ Same(Normalize(u), u)
  BY <1>1, NormalizedFits, FittingStays
<1>3. PICK w, x : w = WithRequest(cs, u, tier) /\ x = WithRequest(cs, Normalize(u), tier)
  OBVIOUS
<1>4. IsUsage(w) /\ PartsFit(w) /\ IsUsage(x)
  BY <1>1, <1>2, <1>3, RequestAdded
<1>5. Same(x, w)
  BY <1>1, <1>2, <1>3, SameWithRequest
<1>6. PartsFit(x)
  BY <1>4, <1>5, SameFits
<1>7. IsUsage(n) /\ PartsFit(n) /\ Same(n, x)
  BY <1>3, <1>4, <1>6, NormalizedFits, FittingStays
<1>8. \A c : Quantity(n, c) = Quantity(w, c)
  BY <1>5, <1>7 DEF Same
<1>9. \A p \in TotalMeters : Quantity(n, p) = Whole(reported, p)
  <2>1. \A p \in TotalMeters : p # "requests"
    BY DEF TotalMeters
  <2>2. QED
    BY <1>1, <1>3, <1>8, <2>1, RequestAdded
<1>10. \A c : Context(reported, w, c) = Quantity(n, c)
  BY <1>8, <1>9 DEF Context
<1>11. QED
  BY <1>3, <1>7, <1>9, <1>10

\* Usages whose parts fit and that count the same have the same lines.
LEMMA SameHasLines ==
    ASSUME NEW m, IsUsage(m), PartsFit(m), NEW n, IsUsage(n), PartsFit(n), Same(m, n), NEW cs, NEW tier
    PROVE  Lines(cs, m, tier) = Lines(cs, n, tier)
<1>1. \A c : Quantity(m, c) = Quantity(n, c)
  BY DEF Same
<1>2. ASSUME NEW c PROVE EffectiveQuantity(m, c) = EffectiveQuantity(n, c)
  <2>1. CASE c \in DOMAIN Parts
    <3>1. IsFiniteSet(PartsOf(c))
      BY <2>1, PartsAreLevelled
    <3>2. SumOver(m, PartsOf(c)) = SumOver(n, PartsOf(c))
      BY <1>1, <3>1, SumOfSameMeters
    <3>3. QED
      BY <1>1, <3>2 DEF EffectiveQuantity, SumOfParts
  <2>2. CASE c \notin DOMAIN Parts
    BY <1>1, <2>2 DEF EffectiveQuantity
  <2>3. QED
    BY <2>1, <2>2
<1>3. \A c : /\ c \notin DOMAIN m => EffectiveQuantity(m, c) = 0
             /\ c \notin DOMAIN n => EffectiveQuantity(n, c) = 0
  BY EffectiveOfFitting
<1>4. {d \in DOMAIN m : EffectiveQuantity(m, d) > 0} = {d \in DOMAIN n : EffectiveQuantity(n, d) > 0}
  <2>1. ~ (0 > 0)
    OBVIOUS
  <2>2. QED
    BY <1>2, <1>3, <2>1
<1>5. \A component, q : TieredAmount(component, q, m) = TieredAmount(component, q, n)
  BY <1>1 DEF TieredAmount
<1>6. QED
  BY <1>2, <1>4, <1>5 DEF Lines

\* The meters with a price are a usage.
LEMMA PricedIsUsage ==
    ASSUME NEW cs, NEW tier, NEW n, IsUsage(n)
    PROVE  IsUsage(Priced(cs, n, tier))
<1>1. PICK priced : priced = Priced(cs, n, tier)
  OBVIOUS
<1>2. /\ DOMAIN priced = {d \in DOMAIN n : HasPrice(cs, d, tier)}
      /\ \A c \in DOMAIN priced : priced[c] = n[c]
      /\ priced = [c \in DOMAIN priced |-> priced[c]]
  BY <1>1 DEF Priced
<1>3. DOMAIN priced \subseteq DOMAIN n
  BY <1>2
<1>4. IsFiniteSet(DOMAIN priced)
  BY <1>3, FS_Subset DEF IsUsage
<1>5. \A c \in DOMAIN priced : priced[c] \in Nat
  BY <1>2 DEF IsUsage
<1>6. QED
  BY <1>1, <1>2, <1>4, <1>5 DEF IsUsage

\* What is estimated counts the same after the meters without a price are dropped: a
\* parent that is dropped is the sum of its parts again (prepareReservationMetrics).
LEMMA PricedStays ==
    ASSUME NEW cs, NEW tier, NEW n, IsUsage(n), PartsFit(n),
           \A c \in DOMAIN n : EffectiveQuantity(n, c) > 0 => HasPrice(cs, c, tier)
    PROVE  IsUsage(Normalize(Priced(cs, n, tier))) /\ Same(Normalize(Priced(cs, n, tier)), n)
<1>1. PICK priced : priced = Priced(cs, n, tier)
  OBVIOUS
<1>2. /\ DOMAIN priced = {d \in DOMAIN n : HasPrice(cs, d, tier)}
      /\ \A c \in DOMAIN priced : priced[c] = n[c]
  BY <1>1 DEF Priced
<1>3. IsUsage(priced)
  BY <1>1, PricedIsUsage
<1>4. /\ \A c : EffectiveQuantity(n, c) \in Nat /\ Quantity(n, c) \in Nat
      /\ \A c : c \notin DOMAIN n => EffectiveQuantity(n, c) = 0
      /\ \A c : c \notin DOMAIN Parts => EffectiveQuantity(n, c) = Quantity(n, c)
      /\ \A p \in DOMAIN Parts : EffectiveQuantity(n, p) = Quantity(n, p) - SumOfParts(n, p)
  BY EffectiveOfFitting, QuantityIsNatural
<1>5. \A c : c \notin DOMAIN priced => EffectiveQuantity(n, c) = 0
  <2>1. SUFFICES ASSUME NEW c, c \notin DOMAIN priced PROVE EffectiveQuantity(n, c) = 0
    OBVIOUS
  <2>2. CASE c \in DOMAIN n
    <3>1. ~ (EffectiveQuantity(n, c) > 0)
      BY <1>2, <2>1, <2>2
    <3>2. QED
      BY <1>4, <3>1
  <2>3. CASE c \notin DOMAIN n
    BY <1>4, <2>3
  <2>4. QED
    BY <2>2, <2>3
<1>6. \A c : c \in DOMAIN priced => Quantity(priced, c) = Quantity(n, c)
  BY <1>2 DEF Quantity
<1>7. \A c : c \notin DOMAIN Parts => Quantity(priced, c) = Quantity(n, c)
  <2>1. SUFFICES ASSUME NEW c, c \notin DOMAIN Parts, c \notin DOMAIN priced PROVE Quantity(priced, c) = Quantity(n, c)
    BY <1>6
  <2>2. Quantity(n, c) = 0
    BY <1>4, <1>5, <2>1
  <2>3. QED
    BY <2>1, <2>2 DEF Quantity
<1>8. \A p \in DOMAIN Parts : p \notin DOMAIN priced => Quantity(n, p) = SumOfParts(n, p)
  <2>1. SUFFICES ASSUME NEW p \in DOMAIN Parts, p \notin DOMAIN priced PROVE Quantity(n, p) = SumOfParts(n, p)
    OBVIOUS
  <2>2. Quantity(n, p) - SumOfParts(n, p) = 0
    BY <1>4, <1>5, <2>1
  <2>3. Quantity(n, p) \in Nat /\ SumOfParts(n, p) \in Nat
    BY <1>4, PartsAreLevelled, SumOfMeters DEF SumOfParts
  <2>4. QED
    BY <2>2, <2>3
<1>9. PICK first, whole : first = EnsureParents(priced, Modalities) /\ whole = EnsureParents(first, TotalMeters)
  OBVIOUS
<1>10. /\ IsUsage(first) /\ IsUsage(whole) /\ IsUsage(LimitChildren(whole, TotalMeters))
       /\ Normalize(priced) = LimitChildren(LimitChildren(whole, TotalMeters), Modalities)
       /\ IsUsage(Normalize(priced))
  BY <1>3, <1>9, NormalizeSteps
<1>11. /\ IsFiniteSet(TotalMeters) /\ IsFiniteSet(Modalities)
       /\ TotalMeters \subseteq DOMAIN Parts /\ Modalities \subseteq DOMAIN Parts
       /\ TotalMeters \cap Modalities = {} /\ DOMAIN Parts = TotalMeters \cup Modalities
  BY ParentsAreFinite, PartsListed, PartsAreLevelled
<1>12. /\ \A c : Quantity(first, c) = IF c \in Modalities \ DOMAIN priced THEN SumOfParts(priced, c) ELSE Quantity(priced, c)
       /\ \A c : c \in DOMAIN first <=> c \in DOMAIN priced \/ (c \in Modalities /\ SumOfParts(priced, c) > 0)
  BY <1>3, <1>9, <1>11, ParentsEnsured
<1>13. \A c : c \notin TotalMeters => Quantity(first, c) = Quantity(n, c)
  <2>1. SUFFICES ASSUME NEW c, c \notin TotalMeters PROVE Quantity(first, c) = Quantity(n, c)
    OBVIOUS
  <2>2. CASE c \in Modalities \ DOMAIN priced
    <3>1. \A d \in PartsOf(c) : Quantity(priced, d) = Quantity(n, d)
      BY <1>7, <2>2, PartsAreLevelled
    <3>2. IsFiniteSet(PartsOf(c)) /\ c \in DOMAIN Parts
      BY <1>11, <2>2, PartsAreLevelled
    <3>3. SumOver(priced, PartsOf(c)) = SumOver(n, PartsOf(c))
      BY <1>3, <3>1, <3>2, SumOfSameMeters
    <3>4. QED
      BY <1>8, <1>12, <2>2, <3>2, <3>3 DEF SumOfParts
  <2>3. CASE c \notin Modalities
    BY <1>7, <1>11, <1>12, <2>1, <2>3
  <2>4. CASE c \in DOMAIN priced
    BY <1>6, <1>12, <2>4
  <2>5. QED
    BY <2>2, <2>3, <2>4
<1>14. \A t \in TotalMeters : SumOfParts(first, t) = SumOfParts(n, t)
  <2>1. SUFFICES ASSUME NEW t \in TotalMeters PROVE SumOfParts(first, t) = SumOfParts(n, t)
    OBVIOUS
  <2>2. \A d \in PartsOf(t) : Quantity(first, d) = Quantity(n, d)
    BY <1>11, <1>13, PartsAreLevelled
  <2>3. IsFiniteSet(PartsOf(t))
    BY <1>11, PartsAreLevelled
  <2>4. QED
    BY <1>10, <2>2, <2>3, SumOfSameMeters DEF SumOfParts
<1>15. \A c : Quantity(whole, c) = IF c \in TotalMeters \ DOMAIN first THEN SumOfParts(first, c) ELSE Quantity(first, c)
  BY <1>9, <1>10, <1>11, ParentsEnsured
<1>16. Same(whole, n)
  <2>1. SUFFICES ASSUME NEW c PROVE Quantity(whole, c) = Quantity(n, c)
    BY DEF Same
  <2>2. CASE c \notin TotalMeters
    BY <1>13, <1>15, <2>2
  <2>3. CASE c \in TotalMeters
    <3>1. c \in DOMAIN first <=> c \in DOMAIN priced
      BY <1>11, <1>12, <2>3
    <3>2. CASE c \in DOMAIN priced
      BY <1>6, <1>11, <1>12, <1>15, <2>3, <3>1, <3>2
    <3>3. CASE c \notin DOMAIN priced
      BY <1>8, <1>11, <1>14, <1>15, <2>3, <3>1, <3>3
    <3>4. QED
      BY <3>2, <3>3
  <2>4. QED
    BY <2>2, <2>3
<1>17. PartsFit(whole)
  BY <1>10, <1>16, SameFits
<1>18. PICK cut : cut = LimitChildren(whole, TotalMeters)
  OBVIOUS
<1>19. IsUsage(cut) /\ Same(cut, whole)
  BY <1>10, <1>11, <1>17, <1>18, FittingPartsStay DEF PartsFit
<1>20. PartsFit(cut)
  BY <1>10, <1>17, <1>19, SameFits
<1>21. Same(Normalize(priced), cut)
  BY <1>10, <1>11, <1>18, <1>19, <1>20, FittingPartsStay DEF PartsFit
<1>22. QED
  BY <1>1, <1>10, <1>16, <1>19, <1>21 DEF Same

\* A usage that is charged costs what its estimate does, where both count the same.
LEMMA EstimateCostsTheSame ==
    ASSUME NEW cs, IsComponents(cs), NEW minimum \in Nat, NEW tier, NEW v, IsUsage(v), PartsFit(v),
           NEW w, IsUsage(w), Same(w, v), ~ MeteredCharge(cs, w, minimum, tier).error
    PROVE  MeteredCharge(cs, Estimated(cs, v, tier), minimum, tier) = MeteredCharge(cs, w, minimum, tier)
<1>1. PICK a, n, b, m : /\ a = WithRequest(cs, v, tier) /\ n = Normalize(a)
                        /\ b = WithRequest(cs, w, tier) /\ m = Normalize(b)
  OBVIOUS
<1>2. /\ IsUsage(a) /\ PartsFit(a) /\ IsUsage(n) /\ PartsFit(n) /\ Same(n, a)
  BY <1>1, RequestAdded, NormalizedFits, FittingStays
<1>3. IsUsage(b) /\ Same(b, a)
  BY <1>1, RequestAdded, SameWithRequest
<1>4. PartsFit(b)
  BY <1>2, <1>3, SameFits
<1>5. IsUsage(m) /\ PartsFit(m) /\ Same(m, b)
  BY <1>1, <1>3, <1>4, NormalizedFits, FittingStays
<1>6. Same(n, m) /\ Same(m, a)
  BY <1>2, <1>3, <1>5 DEF Same
<1>7. Lines(cs, n, tier) = Lines(cs, m, tier)
  BY <1>2, <1>5, <1>6, SameHasLines
<1>8. MeteredCharge(cs, w, minimum, tier) = AddUp(Lines(cs, m, tier), minimum)
  BY <1>1 DEF MeteredCharge
<1>9. \A c \in DOMAIN n : EffectiveQuantity(n, c) > 0 => HasPrice(cs, c, tier)
  <2>1. SUFFICES ASSUME NEW c \in DOMAIN n, EffectiveQuantity(n, c) > 0, ~ HasPrice(cs, c, tier) PROVE FALSE
    OBVIOUS
  <2>2. PICK line : line = Lines(cs, n, tier)
    OBVIOUS
  <2>3. c \in DOMAIN line /\ line[c].charge = Failed
    BY <2>1, <2>2 DEF Lines
  <2>4. line[c].charge.error
    BY <2>3 DEF Failed
  <2>5. AddUp(line, minimum) = Failed
    BY <2>3, <2>4 DEF AddUp
  <2>6. QED
    BY <1>7, <1>8, <2>2, <2>5 DEF Failed
<1>10. PICK e : e = Normalize(Priced(cs, n, tier))
  OBVIOUS
<1>11. IsUsage(e) /\ Same(e, n) /\ e = Estimated(cs, v, tier)
  BY <1>1, <1>2, <1>9, <1>10, PricedStays DEF Estimated
<1>12. PICK x, y : x = WithRequest(cs, e, tier) /\ y = Normalize(x)
  OBVIOUS
<1>13. IsUsage(x) /\ Same(x, a)
  <2>1. Same(e, a)
    BY <1>2, <1>11 DEF Same
  <2>2. Same(x, WithRequest(cs, a, tier))
    BY <1>2, <1>11, <1>12, <2>1, SameWithRequest
  <2>3. Same(v, v)
    BY DEF Same
  <2>4. Same(WithRequest(cs, a, tier), a)
    BY <1>1, <2>3, SameWithRequest
  <2>5. QED
    BY <1>11, <1>12, <2>2, <2>4, RequestAdded DEF Same
<1>14. PartsFit(x)
  BY <1>2, <1>13, SameFits
<1>15. IsUsage(y) /\ PartsFit(y) /\ Same(y, x)
  BY <1>12, <1>13, <1>14, NormalizedFits, FittingStays
<1>16. Same(y, m)
  BY <1>6, <1>13, <1>15 DEF Same
<1>17. Lines(cs, y, tier) = Lines(cs, m, tier)
  BY <1>5, <1>15, <1>16, SameHasLines
<1>18. MeteredCharge(cs, e, minimum, tier) = AddUp(Lines(cs, y, tier), minimum)
  BY <1>12 DEF MeteredCharge
<1>19. QED
  BY <1>8, <1>11, <1>17, <1>18

\* An estimate is a usage.
LEMMA EstimatedIsUsage ==
    ASSUME NEW cs, NEW tier, NEW v, IsUsage(v)
    PROVE  IsUsage(Estimated(cs, v, tier))
<1>1. PICK n : n = Normalize(WithRequest(cs, v, tier))
  OBVIOUS
<1>2. IsUsage(n)
  BY <1>1, RequestAdded, NormalizedFits
<1>3. IsUsage(Priced(cs, n, tier))
  BY <1>2, PricedIsUsage
<1>4. QED
  BY <1>1, <1>3, NormalizedFits DEF Estimated

\* An estimate of nothing counts at most a request.
LEMMA NothingEstimated ==
    ASSUME NEW cs, NEW tier
    PROVE  LET e == Estimated(cs, <<>>, tier)
           IN  IsUsage(e) /\ \A c : c # "requests" => Quantity(Normalize(e), c) = 0
<1>1. PICK a, n, priced, e : /\ a = WithRequest(cs, <<>>, tier) /\ n = Normalize(a)
                             /\ priced = Priced(cs, n, tier) /\ e = Normalize(priced)
  OBVIOUS
<1>2. /\ IsUsage(a) /\ PartsFit(a) /\ IsUsage(n) /\ Same(n, a)
      /\ \A c : c # "requests" => Quantity(a, c) = 0
  BY <1>1, NothingFits, RequestAdded, NormalizedFits, FittingStays
<1>3. /\ DOMAIN priced = {d \in DOMAIN n : HasPrice(cs, d, tier)}
      /\ \A c \in DOMAIN priced : priced[c] = n[c]
  BY <1>1 DEF Priced
<1>4. IsUsage(priced)
  BY <1>1, <1>2, PricedIsUsage
<1>5. \A c : c # "requests" => Quantity(priced, c) = 0
  <2>1. SUFFICES ASSUME NEW c, c # "requests", c \in DOMAIN priced PROVE priced[c] = 0
    BY DEF Quantity
  <2>2. c \in DOMAIN n /\ Quantity(n, c) = 0
    BY <1>2, <1>3, <2>1 DEF Same
  <2>3. QED
    BY <1>3, <2>1, <2>2 DEF Quantity
<1>6. PartsFit(priced)
  <2>1. SUFFICES ASSUME NEW p \in DOMAIN Parts PROVE SumOfParts(priced, p) <= Quantity(priced, p)
    BY DEF PartsFit
  <2>2. "requests" \notin PartsOf(p) /\ IsFiniteSet(PartsOf(p))
    BY PartsListed, PartsAreLevelled DEF Modalities, TotalMeters
  <2>3. SumOfParts(priced, p) = 0
    BY <1>5, <2>2, SumOfNone DEF SumOfParts
  <2>4. QED
    BY <1>4, <2>3, QuantityIsNatural
<1>7. IsUsage(e) /\ PartsFit(e) /\ Same(e, priced)
  BY <1>1, <1>4, <1>6, NormalizedFits, FittingStays
<1>8. \A c : c # "requests" => Quantity(Normalize(e), c) = 0
  BY <1>5, <1>7, FittingStays DEF Same
<1>9. e = Estimated(cs, <<>>, tier)
  BY <1>1 DEF Estimated
<1>10. QED
  BY <1>7, <1>8, <1>9

\* Where the provider reports what was estimated, and it is charged, the charge is
\* that of the estimate.
LEMMA ReportedEstimateCostsTheSame ==
    ASSUME NEW cs, IsComponents(cs), NEW minimum \in Nat, NEW tier, NEW asked, IsUsage(asked),
           NEW mode \in Modes,
           NEW e, e = Estimated(cs, CustomerUsage(asked, mode), tier),
           NEW mine, mine = CustomerUsageOr(Normalize(asked), e, mode),
           ~ MeteredCharge(cs, mine, minimum, tier).error, HasPositive(mine) \/ mode = "token"
    PROVE  MeteredCharge(cs, e, minimum, tier) = MeteredCharge(cs, mine, minimum, tier)
<1>1. PICK u, v, w : u = Normalize(asked) /\ v = CustomerUsage(asked, mode) /\ w = CustomerUsage(u, mode)
  OBVIOUS
<1>2. IsUsage(u) /\ PartsFit(u) /\ Same(Normalize(u), u) /\ IsUsage(v) /\ PartsFit(v) /\ IsUsage(w)
  BY <1>1, NormalizedFits, FittingStays, CustomerUsageIsUsage
<1>3. ASSUME mine = w, Same(w, v) PROVE MeteredCharge(cs, e, minimum, tier) = MeteredCharge(cs, mine, minimum, tier)
  BY <1>1, <1>2, <1>3, EstimateCostsTheSame
<1>4. CASE mode = "token"
  <2>1. v = u /\ w = Normalize(u) /\ mine = w
    BY <1>1, <1>4 DEF CustomerUsage, CustomerUsageOr
  <2>2. QED
    BY <1>2, <1>3, <2>1
<1>5. CASE mode # "token"
  <2>1. w = v
    BY <1>1, <1>2, <1>5, GroupCountsOneMeter
  <2>2. Same(w, v)
    BY <2>1 DEF Same
  <2>3. mine = IF HasPositive(w) \/ ~ HasPositive(CustomerUsage(e, mode)) THEN w ELSE CustomerUsage(e, mode)
    BY <1>1, <1>5 DEF CustomerUsageOr
  <2>4. CASE HasPositive(w)
    BY <1>3, <2>2, <2>3, <2>4
  <2>5. CASE ~ HasPositive(w)
    <3>1. PICK q \in Nat, c \in {"output_images", "output_seconds", "requests"} :
             v = IF q > 0 THEN Only(c, q) ELSE <<>>
      BY <1>1, <1>5, GroupCountsOneMeter
    <3>2. v = <<>>
      BY <2>1, <2>5, <3>1, OneMeterFits
    <3>3. mode # "video_request"
      <4>1. mode = "video_request" => v = Only("requests", 1)
        BY <1>1, <1>5, GroupCountsOneMeter
      <4>2. 1 \in Nat /\ 1 > 0
        OBVIOUS
      <4>3. HasPositive(Only("requests", 1))
        BY <4>2, OneMeterFits
      <4>4. QED
        BY <2>1, <2>5, <4>1, <4>3
    <3>4. IsUsage(e) /\ \A d : d # "requests" => Quantity(Normalize(e), d) = 0
      BY <1>1, <3>2, NothingEstimated
    <3>5. CustomerUsage(e, mode) = <<>>
      BY <1>5, <3>3, <3>4, GroupCountsOneMeter
    <3>6. ~ HasPositive(mine)
      BY <2>3, <2>5, <3>5, NothingFits
    <3>7. QED
      BY <1>5, <3>6
  <2>6. QED
    BY <2>4, <2>5
<1>6. QED
  BY <1>4, <1>5

\* A group that does not charge tokens has no tiers.
LEMMA GroupPriceIsFlat ==
    ASSUME NEW price, NEW mode \in Modes \ {"token"}, NEW unitPrice
    PROVE  LET cs == ComponentsFor(GroupPriced(price, mode, unitPrice))
           IN  \A k \in DOMAIN cs : cs[k].tiers = <<>>
<1>1. PICK p, own, code : /\ p = GroupPriced(price, mode, unitPrice)
                          /\ p = [legacy |-> NoLegacy, minimum |-> 0, components |-> own]
                          /\ own = Only(<<code, "">>, Flat(unitPrice))
  BY DEF GroupPriced
<1>2. p.components = own
  <2>1. p = [legacy |-> NoLegacy, minimum |-> 0, components |-> own]
    BY <1>1
  <2>2. QED
    BY <2>1
<1>3. \A x : Flat(x).tiers = <<>>
  BY DEF Flat
<1> DEFINE legacy == [c \in {d \in DOMAIN p.legacy :
                                d \in {"input_tokens", "output_tokens"} \/ p.legacy[d] > 0} |-> Flat(p.legacy[c])]
           more   == [k \in {<<c, "">> : c \in DOMAIN legacy} |-> legacy[k[1]]]
<1>4. ComponentsFor(p) = Over(p.components, more)
  BY DEF ComponentsFor
<1>5. ASSUME NEW k \in DOMAIN more PROVE more[k].tiers = <<>>
  <2>1. PICK c \in DOMAIN legacy : k = <<c, "">>
    OBVIOUS
  <2>2. more[k] = Flat(p.legacy[c])
    BY <2>1
  <2>3. QED
    BY <1>3, <2>2
<1>6. \A k \in DOMAIN p.components : p.components[k].tiers = <<>>
  BY <1>1, <1>2, <1>3 DEF Only
<1> HIDE DEF more
<1>7. \A k \in DOMAIN Over(p.components, more) : Over(p.components, more)[k].tiers = <<>>
  BY <1>5, <1>6 DEF Over
<1>8. QED
  BY <1>1, <1>4, <1>7

-----------------------------------------------------------------------------
(* The charges of a specification                                          *)

BillFields == {"state", "price", "group", "service", "asked", "estimate", "held", "upstream",
               "estimatedUpstream", "report", "lines", "cost", "amount"}

\* What is held was estimated from what was asked for, at the price of the group.
HeldAsEstimated ==
    bill.state = "held" =>
        /\ bill.group \in Groups /\ bill.asked \in Estimates
        /\ \E price \in Prices : bill.price = GroupPriced(price, bill.group.mode, bill.group.unitPrice)
        /\ bill.estimate = Estimated(ComponentsFor(bill.price),
                                     CustomerUsage(bill.asked, bill.group.mode), bill.service)
        /\ bill.held = Times(MeteredCharge(ComponentsFor(bill.price), bill.estimate, bill.price.minimum,
                                           bill.service), bill.group.multiplier).amount

MeteringInv ==
    /\ bill = NoBill \/ bill = [f \in BillFields |-> bill[f]]
    /\ HeldAsEstimated
    /\ ChargesAddUp

\* What Settle charges, and when.
LEMMA SettleCharges ==
    ASSUME NEW report, Settle(report)
    PROVE  \E u, tier, mine, charge, cost, state :
              /\ u = Normalize(UsageOf(report)) /\ tier = SettlementTier(bill.service, report.service)
              /\ mine = CustomerUsageOr(u, bill.estimate, bill.group.mode)
              /\ charge = MeteredCharge(ComponentsFor(bill.price), mine, bill.price.minimum, tier)
              /\ state = "pending" \/ (/\ state = "charged" /\ ~ charge.error
                                       /\ HasPositive(mine) \/ AllowsZero(bill.price, bill.group.mode, tier))
              /\ bill' = [bill EXCEPT !.state = state, !.service = tier, !.report = report, !.lines = charge.lines,
                                      !.cost = cost, !.amount = Times(charge, bill.group.multiplier).amount]
<1>1. PICK u \in {Normalize(UsageOf(report))}, tier \in {SettlementTier(bill.service, report.service)} :
      \E mine \in {CustomerUsageOr(u, bill.estimate, bill.group.mode)},
         used \in {IF DOMAIN u = {} THEN bill.estimatedUpstream ELSE u} :
      \E charge \in {MeteredCharge(ComponentsFor(bill.price), mine, bill.price.minimum, tier)},
         cost \in {UpstreamCost(bill.upstream, used, bill.price, used, tier).charge} :
         LET paid == /\ HasPositive(mine) \/ AllowsZero(bill.price, bill.group.mode, tier)
                     /\ ~ charge.error /\ ~ cost.error
         IN  bill' = [bill EXCEPT !.state = IF paid THEN "charged" ELSE "pending", !.service = tier,
                                  !.report = report, !.lines = charge.lines, !.cost = cost.amount,
                                  !.amount = Times(charge, bill.group.multiplier).amount]
  BY DEF Settle
<1>2. PICK mine \in {CustomerUsageOr(u, bill.estimate, bill.group.mode)},
           used \in {IF DOMAIN u = {} THEN bill.estimatedUpstream ELSE u} :
      \E charge \in {MeteredCharge(ComponentsFor(bill.price), mine, bill.price.minimum, tier)},
         cost \in {UpstreamCost(bill.upstream, used, bill.price, used, tier).charge} :
         LET paid == /\ HasPositive(mine) \/ AllowsZero(bill.price, bill.group.mode, tier)
                     /\ ~ charge.error /\ ~ cost.error
         IN  bill' = [bill EXCEPT !.state = IF paid THEN "charged" ELSE "pending", !.service = tier,
                                  !.report = report, !.lines = charge.lines, !.cost = cost.amount,
                                  !.amount = Times(charge, bill.group.multiplier).amount]
  BY <1>1
<1>3. PICK charge \in {MeteredCharge(ComponentsFor(bill.price), mine, bill.price.minimum, tier)},
           cost \in {UpstreamCost(bill.upstream, used, bill.price, used, tier).charge} :
         LET paid == /\ HasPositive(mine) \/ AllowsZero(bill.price, bill.group.mode, tier)
                     /\ ~ charge.error /\ ~ cost.error
         IN  bill' = [bill EXCEPT !.state = IF paid THEN "charged" ELSE "pending", !.service = tier,
                                  !.report = report, !.lines = charge.lines, !.cost = cost.amount,
                                  !.amount = Times(charge, bill.group.multiplier).amount]
  BY <1>2
<1> DEFINE paid  == /\ HasPositive(mine) \/ AllowsZero(bill.price, bill.group.mode, tier)
                    /\ ~ charge.error /\ ~ cost.error
           state == IF paid THEN "charged" ELSE "pending"
<1>4. /\ u = Normalize(UsageOf(report)) /\ tier = SettlementTier(bill.service, report.service)
      /\ mine = CustomerUsageOr(u, bill.estimate, bill.group.mode)
      /\ charge = MeteredCharge(ComponentsFor(bill.price), mine, bill.price.minimum, tier)
  OBVIOUS
<1>5. state = "pending" \/ (/\ state = "charged" /\ ~ charge.error
                            /\ HasPositive(mine) \/ AllowsZero(bill.price, bill.group.mode, tier))
  OBVIOUS
<1>6. bill' = [bill EXCEPT !.state = state, !.service = tier, !.report = report, !.lines = charge.lines,
                           !.cost = cost.amount, !.amount = Times(charge, bill.group.multiplier).amount]
  BY <1>3
<1> HIDE DEF state
<1>7. QED
  BY <1>4, <1>5, <1>6

\* A charge that is settled adds up.
LEMMA SettledAddsUp ==
    ASSUME MeteringInv, NEW report \in Reports, Settle(report), bill'.state = "charged"
    PROVE  ChargesAddUp'
<1> DEFINE cs   == ComponentsFor(bill.price)
           mode == bill.group.mode
           min  == bill.price.minimum
<1>1. bill.state = "held" /\ bill = [f \in BillFields |-> bill[f]]
  BY DEF Settle, MeteringInv, NoBill
<1>2. PICK u, tier, mine, charge, cost, state :
         /\ u = Normalize(UsageOf(report)) /\ tier = SettlementTier(bill.service, report.service)
         /\ mine = CustomerUsageOr(u, bill.estimate, mode)
         /\ charge = MeteredCharge(cs, mine, min, tier)
         /\ state = "pending" \/ (/\ state = "charged" /\ ~ charge.error
                                  /\ HasPositive(mine) \/ AllowsZero(bill.price, mode, tier))
         /\ bill' = [bill EXCEPT !.state = state, !.service = tier, !.report = report, !.lines = charge.lines,
                                 !.cost = cost, !.amount = Times(charge, bill.group.multiplier).amount]
  BY SettleCharges
<1>3. /\ mine = CustomerUsageOr(u, bill.estimate, mode)
      /\ charge = MeteredCharge(cs, mine, min, tier)
  BY <1>2
<1>4. /\ bill'.price = bill.price /\ bill'.group = bill.group /\ bill'.asked = bill.asked
      /\ bill'.held = bill.held /\ bill'.service = tier /\ bill'.report = report
      /\ bill'.lines = charge.lines /\ bill'.amount = Times(charge, bill.group.multiplier).amount
      /\ bill'.state = state
  <2>1. DOMAIN bill = BillFields
    BY <1>1
  <2> HIDE DEF cs, mode, min
  <2>2. QED
    BY <1>2, <2>1 DEF BillFields
<1>5. /\ HasPositive(mine) \/ AllowsZero(bill.price, mode, tier)
      /\ ~ charge.error
  BY <1>2, <1>4
<1>6. /\ bill.group \in Groups /\ mode \in Modes /\ bill.group.unitPrice \in Nat /\ bill.group.multiplier \in Nat
      /\ bill.asked \in Estimates /\ IsUsage(bill.asked)
  BY <1>1, MeteringAssumption DEF MeteringInv, HeldAsEstimated
<1>7. PICK price \in Prices : bill.price = GroupPriced(price, mode, bill.group.unitPrice)
  BY <1>1 DEF MeteringInv, HeldAsEstimated
<1>8. IsComponents(cs) /\ min \in Nat
  <2>1. IsPrice(price)
    BY MeteringAssumption
  <2> HIDE DEF mode
  <2>2. QED
    BY <1>6, <1>7, <2>1, PricesHaveComponents
<1> DEFINE reported == UsageOf(report)
           n        == Normalize(WithRequest(cs, mine, tier))
<1>9. IsUsage(reported) /\ u = Normalize(reported) /\ IsUsage(u) /\ PartsFit(u)
  BY <1>2, ReportIsUsage, NormalizedFits
<1>10. mode = "token" => mine = Normalize(u)
  BY <1>3 DEF CustomerUsageOr, CustomerUsage
<1>11. IsUsage(mine)
  <2>1. bill.estimate = Estimated(cs, CustomerUsage(bill.asked, mode), bill.service)
    BY <1>1 DEF MeteringInv, HeldAsEstimated
  <2>2. IsUsage(bill.estimate)
    BY <1>6, <2>1, CustomerUsageIsUsage, EstimatedIsUsage
  <2>3. IsUsage(CustomerUsage(u, mode)) /\ IsUsage(CustomerUsage(bill.estimate, mode))
    BY <1>6, <1>9, <2>2, CustomerUsageIsUsage
  <2>4. QED
    BY <1>3, <2>3 DEF CustomerUsageOr
<1>12. IsUsage(n) /\ PartsFit(n)
  BY <1>11, RequestAdded, NormalizedFits
<1>13. mode = "token" => /\ \A c : Context(reported, WithRequest(cs, u, tier), c) = Quantity(n, c)
                         /\ \A p \in TotalMeters : Quantity(n, p) = Whole(reported, p)
  BY <1>9, <1>10, SettledTokens
<1>14. \A k \in DOMAIN cs : cs[k].tiers # <<>> /\ cs[k].basis # "quantity" =>
          Context(reported, WithRequest(cs, u, tier), cs[k].basis) = Quantity(n, cs[k].basis)
  <2>1. mode # "token" => \A k \in DOMAIN cs : cs[k].tiers = <<>>
    BY <1>6, <1>7, GroupPriceIsFlat
  <2> HIDE DEF cs, mode, n, reported
  <2>2. QED
    BY <1>13, <2>1
<1>15. /\ charge.amount = ByUnits(charge.lines, cs, min, tier, reported) /\ charge.amount \in Nat
       /\ IsUsage(charge.lines) /\ \A c : Quantity(charge.lines, c) = EffectiveQuantity(n, c)
  <2>1. PICK C, M, N, r : C = cs /\ M = min /\ N = n /\ r = reported
    OBVIOUS
  <2>2. N = Normalize(WithRequest(C, mine, tier)) /\ charge = MeteredCharge(C, mine, M, tier) /\ ~ charge.error
    BY <1>3, <1>5, <2>1
  <2>3. u = Normalize(r)
    BY <1>9, <2>1
  <2> HIDE DEF cs, mode, min, n, reported
  <2>4. GoesBy(C, tier, r, N)
    BY <1>14, <2>1, <2>3 DEF GoesBy
  <2>5. IsComponents(C) /\ M \in Nat /\ IsUsage(N) /\ PartsFit(N)
    BY <1>8, <1>12, <2>1
  <2>6. /\ charge.amount = ByUnits(charge.lines, C, M, tier, r) /\ charge.amount \in Nat
        /\ IsUsage(charge.lines) /\ \A c : Quantity(charge.lines, c) = EffectiveQuantity(N, c)
    BY <2>2, <2>4, <2>5, ChargeAddsUp
  <2>7. QED
    BY <2>1, <2>6
<1>16. UnitsAreOnOneLine'
  <2>1. SUFFICES ASSUME mode = "token", NEW p \in TotalMeters
                 PROVE  SumOver(charge.lines, Within(p) \cup {p}) = Whole(reported, p)
    BY <1>4 DEF UnitsAreOnOneLine
  <2>2. SumOver(charge.lines, Within(p) \cup {p}) = Quantity(n, p)
    <3> HIDE DEF n
    <3>1. QED
      BY <1>12, <1>15, LinesHoldTotals
  <2>3. QED
    BY <1>13, <2>1, <2>2
<1>17. UnitsArePriced'
  <2>1. PICK a \in Nat, factor \in Nat : a = charge.amount /\ factor = bill.group.multiplier
    BY <1>6, <1>15
  <2>2. Times(charge, factor).amount = a * factor
    <3>1. charge = AddUp(Lines(cs, n, tier), min)
      BY <1>3 DEF MeteredCharge
    <3>2. "amount" \in DOMAIN charge
      <4> HIDE DEF cs, n, min
      <4>1. QED
        BY <3>1 DEF AddUp, Failed
    <3>3. QED
      BY <2>1, <3>2 DEF Times
  <2>3. a * factor = factor * a
    OBVIOUS
  <2>4. bill'.amount = factor * ByUnits(charge.lines, cs, min, tier, reported)
    BY <1>4, <1>15, <2>1, <2>2, <2>3
  <2>5. QED
    BY <1>4, <2>1, <2>4 DEF UnitsArePriced
<1>18. HoldIsKept'
  <2>1. SUFFICES ASSUME report.metrics = bill.asked, DOMAIN report.legacy = {}, report.service = ""
                 PROVE  Times(charge, bill.group.multiplier).amount = bill.held
    BY <1>4 DEF HoldIsKept
  <2>2. reported = bill.asked
    BY <2>1, ReportIsUsage
  <2>3. tier = bill.service
    BY <1>2, <2>1 DEF SettlementTier
  <2>4. PICK e : e = bill.estimate
    OBVIOUS
  <2>5. /\ e = Estimated(cs, CustomerUsage(bill.asked, mode), tier)
        /\ bill.held = Times(MeteredCharge(cs, e, min, tier), bill.group.multiplier).amount
    BY <1>1, <2>3, <2>4 DEF MeteringInv, HeldAsEstimated
  <2>6. mine = CustomerUsageOr(Normalize(bill.asked), e, mode)
    BY <1>3, <1>9, <2>2, <2>4
  <2>7. HasPositive(mine) \/ mode = "token"
    BY <1>5 DEF AllowsZero
  <2>8. ~ MeteredCharge(cs, mine, min, tier).error
    BY <1>3, <1>5
  <2>9. PICK asked : asked = bill.asked
    OBVIOUS
  <2> HIDE DEF cs, mode, min
  <2>10. MeteredCharge(cs, e, min, tier) = MeteredCharge(cs, mine, min, tier)
    BY <1>6, <1>8, <2>5, <2>6, <2>7, <2>8, <2>9, ReportedEstimateCostsTheSame
  <2>11. QED
    BY <1>3, <2>5, <2>10
<1>19. QED
  BY <1>16, <1>17, <1>18 DEF ChargesAddUp

\* Every charge adds up, for all prices, groups, estimates and reports.
THEOREM ChargesAlwaysAddUp == MeteringSpec => []ChargesAddUp
<1>1. MeteringInit => MeteringInv
  BY DEF MeteringInit, MeteringInv, HeldAsEstimated, ChargesAddUp, NoBill
<1>2. MeteringInv /\ [Billed]_bill => MeteringInv'
  <2>1. SUFFICES ASSUME MeteringInv, [Billed]_bill PROVE MeteringInv'
    OBVIOUS
  <2>2. ASSUME NEW price \in Prices, NEW upstream, NEW g \in Groups, NEW service \in Services,
               NEW estimate \in Estimates, Hold(price, upstream, g, service, estimate)
        PROVE  MeteringInv'
    <3>1. PICK customer, metrics, charge, cost :
             /\ customer = GroupPriced(price, g.mode, g.unitPrice)
             /\ metrics = Estimated(ComponentsFor(customer), CustomerUsage(estimate, g.mode), service)
             /\ charge = MeteredCharge(ComponentsFor(customer), metrics, customer.minimum, service)
             /\ bill' = [state |-> "held", price |-> customer, group |-> g, service |-> service,
                      asked |-> estimate, estimate |-> metrics, held |-> Times(charge, g.multiplier).amount,
                      upstream |-> cost.from, estimatedUpstream |-> cost.usage,
                      report |-> <<>>, lines |-> <<>>, cost |-> 0, amount |-> 0]
      BY <2>2 DEF Hold
    <3>2. /\ bill'.state = "held" /\ bill'.price = customer /\ bill'.group = g /\ bill'.service = service
          /\ bill'.asked = estimate /\ bill'.estimate = metrics
          /\ bill'.held = Times(charge, g.multiplier).amount
          /\ bill' = [f \in BillFields |-> bill'[f]]
      BY <3>1 DEF BillFields
    <3>3. HeldAsEstimated'
      BY <2>2, <3>1, <3>2 DEF HeldAsEstimated
    <3>4. ChargesAddUp'
      BY <3>2 DEF ChargesAddUp
    <3>5. QED
      BY <3>2, <3>3, <3>4 DEF MeteringInv
  <2>3. ASSUME NEW report \in Reports, Settle(report) PROVE MeteringInv'
    <3>1. bill = [f \in BillFields |-> bill[f]]
      BY <2>1, <2>3 DEF Settle, MeteringInv, NoBill
    <3>2. PICK u, tier, mine, charge, cost, state :
             /\ u = Normalize(UsageOf(report)) /\ tier = SettlementTier(bill.service, report.service)
             /\ mine = CustomerUsageOr(u, bill.estimate, bill.group.mode)
             /\ charge = MeteredCharge(ComponentsFor(bill.price), mine, bill.price.minimum, tier)
             /\ state = "pending" \/ (/\ state = "charged" /\ ~ charge.error
                                      /\ HasPositive(mine) \/ AllowsZero(bill.price, bill.group.mode, tier))
             /\ bill' = [bill EXCEPT !.state = state, !.service = tier, !.report = report, !.lines = charge.lines,
                                     !.cost = cost, !.amount = Times(charge, bill.group.multiplier).amount]
      BY <2>3, SettleCharges
    <3>3. /\ bill' = [f \in BillFields |-> bill'[f]]
          /\ bill'.state \in {"charged", "pending"}
      BY <3>1, <3>2 DEF BillFields
    <3>4. ChargesAddUp'
      <4>1. CASE bill'.state = "charged"
        BY <2>1, <2>3, <4>1, SettledAddsUp
      <4>2. CASE bill'.state # "charged"
        BY <4>2 DEF ChargesAddUp
      <4>3. QED
        BY <4>1, <4>2
    <3>5. HeldAsEstimated'
      BY <3>3 DEF HeldAsEstimated
    <3>6. QED
      BY <3>3, <3>4, <3>5 DEF MeteringInv
  <2>4. CASE UNCHANGED bill
    BY <2>1, <2>4 DEF MeteringInv, HeldAsEstimated, ChargesAddUp, UnitsAreOnOneLine, UnitsArePriced, HoldIsKept
  <2>5. QED
    BY <2>1, <2>2, <2>3, <2>4 DEF Billed
<1>3. QED
  BY <1>1, <1>2, PTL DEF MeteringSpec, MeteringInv

-----------------------------------------------------------------------------
(* Listings: thresholds in their order                                     *)

-----------------------------------------------------------------------------
(* Official prices and their listing                                       *)

\* Finitely many thresholds with their prices, each listed once.
AreBounds(S) ==
    /\ IsFiniteSet(S) /\ S \subseteq [from : Nat, price : Nat]
    /\ \A b, c \in S : b.from = c.from => b = c

Below(S, b) == {c \in S : c.from < b.from}

\* InOrder lists each threshold once, from the lowest to the highest.
LEMMA BoundsInOrder ==
    ASSUME NEW S, AreBounds(S), NEW n, n = Cardinality(S)
    PROVE  /\ n \in Nat /\ InOrder(S) \in [1 .. n -> S] /\ InOrder(S) \in Seq(S) /\ Len(InOrder(S)) = n
           /\ \A i, j \in 1 .. n : i < j => InOrder(S)[i].from < InOrder(S)[j].from
           /\ \A b \in S : \E i \in 1 .. n : InOrder(S)[i] = b
<1>1. n \in Nat
  BY FS_CardinalityType DEF AreBounds
<1>2. ASSUME NEW b \in S
      PROVE  IsFiniteSet(Below(S, b)) /\ Cardinality(Below(S, b)) \in 0 .. n - 1 /\ b.from \in Nat
  <2>1. IsFiniteSet(S \ {b}) /\ Cardinality(S \ {b}) = n - 1
    BY FS_RemoveElement DEF AreBounds
  <2>2. b.from \in Nat
    BY DEF AreBounds
  <2>3. Below(S, b) \subseteq S \ {b}
    BY <2>2 DEF Below
  <2>4. IsFiniteSet(Below(S, b)) /\ Cardinality(Below(S, b)) <= n - 1
    BY <2>1, <2>3, FS_Subset
  <2>5. Cardinality(Below(S, b)) \in Nat
    BY <2>4, FS_CardinalityType
  <2>6. QED
    BY <1>1, <2>2, <2>4, <2>5
<1>3. ASSUME NEW b \in S, NEW c \in S, b.from < c.from
      PROVE  Cardinality(Below(S, b)) < Cardinality(Below(S, c))
  <2>1. b \in Below(S, c) /\ b \notin Below(S, b)
    <3>1. b.from \in Nat
      BY <1>2
    <3>2. QED
      BY <1>3, <3>1 DEF Below
  <2>2. Below(S, b) \subseteq Below(S, c) \ {b}
    <3>1. \A x \in S : x.from \in Nat
      BY <1>2
    <3>2. QED
      BY <1>3, <3>1, <2>1 DEF Below
  <2>3. IsFiniteSet(Below(S, c) \ {b}) /\ Cardinality(Below(S, c) \ {b}) = Cardinality(Below(S, c)) - 1
    BY <1>2, <2>1, FS_RemoveElement
  <2>4. Cardinality(Below(S, b)) <= Cardinality(Below(S, c)) - 1
    BY <2>2, <2>3, FS_Subset
  <2>5. QED
    BY <1>2, <2>4
<1>4. ASSUME NEW b \in S, NEW c \in S, Cardinality(Below(S, b)) = Cardinality(Below(S, c))
      PROVE  b = c
  <2>1. ~ (b.from < c.from) /\ ~ (c.from < b.from)
    BY <1>2, <1>3, <1>4
  <2>2. b.from = c.from
    BY <1>2, <2>1
  <2>3. QED
    BY <2>2 DEF AreBounds
<1>5. ASSUME NEW i \in 1 .. n PROVE \E b \in S : Cardinality(Below(S, b)) = i - 1
  <2> DEFINE rank == [b \in S |-> Cardinality(Below(S, b))]
  <2>1. rank \in [S -> 0 .. n - 1]
    BY <1>2
  <2>2. \A b, c \in S : rank[b] = rank[c] => b = c
    BY <1>4
  <2>3. rank \in Injection(S, 0 .. n - 1)
    BY <2>1, <2>2 DEF Injection, IsInjective
  <2>4. IsFiniteSet(0 .. n - 1) /\ Cardinality(0 .. n - 1) = n
    <3>1. n - 1 \in Int /\ 0 \in Int
      BY <1>1
    <3>2. /\ IsFiniteSet(0 .. n - 1)
          /\ Cardinality(0 .. n - 1) = IF 0 > n - 1 THEN 0 ELSE (n - 1) - 0 + 1
      BY <3>1, FS_Interval
    <3>3. QED
      BY <1>1, <3>2
  <2> HIDE DEF rank
  <2>5. rank \in Surjection(S, 0 .. n - 1)
    BY <2>3, <2>4, FS_Injection
  <2>6. PICK b \in S : rank[b] = i - 1
    BY <1>1, <2>5 DEF Surjection
  <2>7. QED
    BY <2>6 DEF rank
<1>6. InOrder(S) = [i \in 1 .. n |-> CHOOSE b \in S : Cardinality(Below(S, b)) = i - 1]
  BY DEF InOrder, Below
<1>7. ASSUME NEW i \in 1 .. n
      PROVE  InOrder(S)[i] \in S /\ Cardinality(Below(S, InOrder(S)[i])) = i - 1
  BY <1>5, <1>6
<1>8. ASSUME NEW i \in 1 .. n, NEW j \in 1 .. n, i < j
      PROVE  InOrder(S)[i].from < InOrder(S)[j].from
  <2>1. PICK b, c \in S : b = InOrder(S)[i] /\ c = InOrder(S)[j]
    BY <1>7
  <2>2. Cardinality(Below(S, b)) = i - 1 /\ Cardinality(Below(S, c)) = j - 1
    BY <1>7, <2>1
  <2>3. ~ (c.from < b.from) /\ b.from # c.from
    <3>1. ~ (c.from < b.from)
      BY <1>1, <1>3, <1>8, <2>2
    <3>2. b # c
      BY <1>8, <2>2
    <3>3. QED
      BY <3>1, <3>2 DEF AreBounds
  <2>4. QED
    BY <1>2, <2>1, <2>3
<1>9. ASSUME NEW b \in S PROVE \E i \in 1 .. n : InOrder(S)[i] = b
  <2>1. PICK i \in 1 .. n : i = Cardinality(Below(S, b)) + 1
    BY <1>1, <1>2
  <2>2. Cardinality(Below(S, InOrder(S)[i])) = Cardinality(Below(S, b))
    BY <1>2, <1>7, <2>1
  <2>3. QED
    BY <1>4, <1>7, <2>2
<1>10. InOrder(S) \in [1 .. n -> S]
  BY <1>6, <1>7
<1>11. InOrder(S) \in Seq(S) /\ Len(InOrder(S)) = n
  BY <1>1, <1>10
<1>12. QED
  BY <1>1, <1>8, <1>9, <1>10, <1>11

\* The price at a quantity or in a context: that of the highest threshold below it,
\* or else of the threshold zero, or else the given one.
BoundPrice(S, otherwise, at) ==
    LET zero   == {b \in S : b.from = 0}
        passed == {b \in S : b.from > 0 /\ b.from < at}
    IN  IF passed # {} THEN (CHOOSE b \in passed : \A c \in passed : c.from <= b.from).price
        ELSE IF zero # {} THEN (CHOOSE b \in zero : TRUE).price ELSE otherwise

\* Only the last tier has no limit, and the limits grow.
AreLimits(tiers) ==
    \A i \in DOMAIN tiers : IF i = Len(tiers) THEN tiers[i].upTo = Unbounded
                            ELSE tiers[i].upTo \in Nat /\ tiers[i].upTo > (IF i = 1 THEN 0 ELSE tiers[i - 1].upTo)

\* The thresholds with the price that holds from zero on.
LEMMA FromZero ==
    ASSUME NEW S, AreBounds(S), NEW price \in Nat, NEW base,
           base = IF {b \in S : b.from = 0} = {} THEN price ELSE (CHOOSE b \in {b \in S : b.from = 0} : TRUE).price,
           NEW A, A = S \cup {[from |-> 0, price |-> base]}
    PROVE  /\ base \in Nat /\ AreBounds(A)
           /\ \A b \in A : b.from > 0 => b \in S
           /\ \A b \in A : b.from = 0 => b.price = base
<1> DEFINE zero == {b \in S : b.from = 0}
<1>1. S \subseteq [from : Nat, price : Nat] /\ IsFiniteSet(S) /\ \A b, c \in S : b.from = c.from => b = c
  BY DEF AreBounds
<1>2. CASE zero = {}
  <2>1. base = price
    BY <1>2
  <2>2. \A b \in S : b.from # 0
    BY <1>2
  <2>3. IsFiniteSet(A)
    BY <1>1, FS_AddElement
  <2>4. [from |-> 0, price |-> base] \in [from : Nat, price : Nat]
    BY <2>1
  <2>5. A \subseteq [from : Nat, price : Nat]
    BY <1>1, <2>4
  <2>6. \A b, c \in A : b.from = c.from => b = c
    BY <1>1, <2>2
  <2>7. QED
    BY <2>1, <2>2, <2>3, <2>5, <2>6 DEF AreBounds
<1>3. CASE zero # {}
  <2>1. PICK b : b = CHOOSE c \in zero : TRUE
    OBVIOUS
  <2>2. b \in zero
    BY <1>3, <2>1
  <2>3. base = b.price
    BY <1>3, <2>1
  <2>4. b \in [from : Nat, price : Nat] /\ b.from = 0
    BY <1>1, <2>2
  <2>5. b = [from |-> 0, price |-> base]
    BY <2>3, <2>4
  <2>6. A = S
    BY <2>2, <2>5
  <2>7. \A c \in S : c.from = 0 => c = b
    BY <1>1, <2>2, <2>4
  <2>8. QED
    BY <2>3, <2>4, <2>6, <2>7
<1>4. QED
  BY <1>2, <1>3

\* What encodeTieredComponents makes of thresholds.
LEMMA EncodedTiers ==
    ASSUME NEW component, component.price \in Nat, NEW S, AreBounds(S), NEW basis,
           NEW e, e = Encode(component, S, basis)
    PROVE  /\ IsComponent(e) /\ e.basis = basis /\ e.tiers # <<>> /\ AreLimits(e.tiers)
           /\ \A at \in Nat : PriceAt(e.tiers, at) = BoundPrice(S, component.price, at)
<1> DEFINE zero == {b \in S : b.from = 0}
<1>1. PICK base : base = IF zero = {} THEN component.price ELSE (CHOOSE b \in zero : TRUE).price
  OBVIOUS
<1>2. PICK A : A = S \cup {[from |-> 0, price |-> base]}
  OBVIOUS
<1>3. /\ base \in Nat /\ AreBounds(A)
      /\ \A b \in A : b.from > 0 => b \in S
      /\ \A b \in A : b.from = 0 => b.price = base
  BY <1>1, <1>2, FromZero
<1>4. PICK n, s : n = Cardinality(A) /\ s = InOrder(A)
  OBVIOUS
<1>5. /\ n \in Nat /\ s \in [1 .. n -> A] /\ s \in Seq(A) /\ Len(s) = n
      /\ \A i, j \in 1 .. n : i < j => s[i].from < s[j].from
      /\ \A b \in A : \E i \in 1 .. n : s[i] = b
  BY <1>3, <1>4, BoundsInOrder
<1>6. \A i \in 1 .. n : s[i] \in A /\ s[i].from \in Nat /\ s[i].price \in Nat
  BY <1>3, <1>5 DEF AreBounds
<1>7. PICK t : t = [i \in 1 .. n |-> [price |-> s[i].price, upTo |-> IF i = n THEN Unbounded ELSE s[i + 1].from]]
  OBVIOUS
<1>8. e = [price |-> base, basis |-> basis, tiers |-> t]
  <2>1. DOMAIN s = 1 .. n
    BY <1>5
  <2>2. e = [price |-> base, basis |-> basis,
             tiers |-> [i \in DOMAIN s |->
                           [price |-> s[i].price, upTo |-> IF i = Len(s) THEN Unbounded ELSE s[i + 1].from]]]
    BY <1>1, <1>2, <1>4 DEF Encode
  <2>3. QED
    BY <1>5, <1>7, <2>1, <2>2
<1>9. n > 0 /\ s[1].from = 0 /\ s[1].price = base
  <2>1. PICK i \in 1 .. n : s[i] = [from |-> 0, price |-> base]
    BY <1>2, <1>5
  <2>2. i = 1
    BY <1>5, <1>6, <2>1
  <2>3. QED
    BY <1>5, <2>1, <2>2
<1>10. \A i \in 1 .. n : i # n => s[i + 1].from \in Nat /\ s[i + 1].from > s[i].from
  BY <1>5, <1>6
<1>11. Unbounded \notin Nat
  BY MeteringAssumption
<1>12. t \in Seq([price : Nat, upTo : Nat \cup {Unbounded}]) /\ Len(t) = n
  <2>1. \A i \in 1 .. n : t[i] \in [price : Nat, upTo : Nat \cup {Unbounded}]
    BY <1>6, <1>7, <1>10
  <2> DEFINE X == [price : Nat, upTo : Nat \cup {Unbounded}]
  <2> HIDE DEF X
  <2>2. t \in [1 .. n -> X]
    BY <1>7, <2>1 DEF X
  <2>3. t \in Seq(X) /\ Len(t) = n
    BY <1>5, <2>2
  <2>4. QED
    BY <2>3 DEF X
<1>13. \A i \in 1 .. n : t[i].price = s[i].price /\ t[i].upTo = IF i = n THEN Unbounded ELSE s[i + 1].from
  BY <1>7
<1>14. DOMAIN t = 1 .. n
  BY <1>7
<1>15. AreLimits(t)
  <2>1. ASSUME NEW i \in 1 .. n, i # n PROVE t[i].upTo \in Nat /\ t[i].upTo > (IF i = 1 THEN 0 ELSE t[i - 1].upTo)
    <3>1. t[i].upTo = s[i + 1].from /\ s[i + 1].from \in Nat /\ s[i + 1].from > s[i].from /\ s[i].from \in Nat
      BY <1>6, <1>10, <1>13, <2>1
    <3>2. i # 1 => t[i - 1].upTo = s[i].from
      <4>1. SUFFICES ASSUME i # 1 PROVE t[i - 1].upTo = s[i].from
        OBVIOUS
      <4>2. i - 1 \in 1 .. n /\ i - 1 # n /\ (i - 1) + 1 = i
        BY <1>5, <4>1
      <4>3. QED
        BY <1>13, <4>2
    <3>3. QED
      BY <3>1, <3>2
  <2>2. QED
    BY <1>12, <1>13, <1>14, <2>1 DEF AreLimits
<1>16. ASSUME NEW at \in Nat PROVE PriceAt(t, at) = BoundPrice(S, component.price, at)
  <2>1. PICK over : over = Reaching(t, at)
    OBVIOUS
  <2>2. over = {i \in 1 .. n : t[i].upTo = Unbounded \/ at <= t[i].upTo}
    BY <1>14, <2>1 DEF Reaching
  <2>3. n \in over /\ over \subseteq Nat
    BY <1>5, <1>9, <1>13, <2>2
  <2>4. PICK m \in over : m = Min(over) /\ \A i \in over : m <= i
    BY <2>3, LeastOfNaturals
  <2>5. PriceAt(t, at) = s[m].price /\ m \in 1 .. n
    BY <1>13, <2>1, <2>2, <2>3, <2>4 DEF PriceAt
  <2>6. ASSUME NEW i \in 1 .. n, i > m PROVE s[i].from >= at
    <3>1. m # n /\ m + 1 \in 1 .. n
      BY <1>5, <2>5, <2>6
    <3>2. t[m].upTo = s[m + 1].from /\ s[m + 1].from \in Nat
      BY <1>6, <1>13, <2>5, <3>1
    <3>3. at <= s[m + 1].from
      BY <1>11, <2>2, <2>4, <3>2
    <3>4. i = m + 1 \/ s[m + 1].from < s[i].from
      BY <1>5, <2>5, <2>6, <3>1
    <3>5. QED
      BY <1>6, <3>2, <3>3, <3>4
  <2>7. m # 1 => s[m].from < at /\ s[m].from > 0
    <3>1. SUFFICES ASSUME m # 1 PROVE s[m].from < at /\ s[m].from > 0
      OBVIOUS
    <3>2. m - 1 \in 1 .. n /\ m - 1 # n /\ (m - 1) + 1 = m
      BY <1>5, <2>5, <3>1
    <3>3. m - 1 \notin over
      BY <2>3, <2>4, <3>2
    <3>4. ~ (at <= t[m - 1].upTo) /\ t[m - 1].upTo = s[m].from
      BY <1>13, <2>2, <3>2, <3>3
    <3>5. s[1].from < s[m].from
      BY <1>5, <1>9, <2>5, <3>1
    <3>6. QED
      BY <1>6, <1>9, <2>5, <3>4, <3>5
  <2>8. PICK passed : passed = {b \in S : b.from > 0 /\ b.from < at}
    OBVIOUS
  <2>9. BoundPrice(S, component.price, at) =
           IF passed # {} THEN (CHOOSE b \in passed : \A c \in passed : c.from <= b.from).price ELSE base
    BY <1>1, <2>8 DEF BoundPrice
  <2>10. ASSUME NEW b \in passed PROVE \E i \in 1 .. m : i # 1 /\ s[i] = b
    <3>1. b \in A /\ b.from > 0 /\ b.from < at
      BY <1>2, <2>8
    <3>2. PICK i \in 1 .. n : s[i] = b
      BY <1>5, <3>1
    <3>3. i # 1
      BY <1>9, <3>1, <3>2
    <3>4. ~ (i > m)
      BY <1>6, <2>6, <3>1, <3>2
    <3>5. QED
      BY <2>5, <3>2, <3>3, <3>4
  <2>11. CASE m = 1
    <3>1. passed = {}
      BY <2>10, <2>11
    <3>2. QED
      BY <1>9, <2>5, <2>9, <2>11, <3>1
  <2>12. CASE m # 1
    <3>1. s[m] \in passed
      <4>1. s[m] \in A /\ s[m].from > 0 /\ s[m].from < at
        BY <1>6, <2>5, <2>7, <2>12
      <4>2. QED
        BY <1>3, <2>8, <4>1
    <3>2. \A c \in passed : c.from <= s[m].from
      <4>1. SUFFICES ASSUME NEW c \in passed PROVE c.from <= s[m].from
        OBVIOUS
      <4>2. PICK i \in 1 .. m : s[i] = c
        BY <2>10
      <4>3. i \in 1 .. n /\ (i = m \/ s[i].from < s[m].from)
        BY <1>5, <2>5
      <4>4. QED
        BY <1>6, <2>5, <4>2, <4>3
    <3>3. PICK b : b = CHOOSE d \in passed : \A c \in passed : c.from <= d.from
      OBVIOUS
    <3>4. b \in passed /\ \A c \in passed : c.from <= b.from
      BY <3>1, <3>2, <3>3
    <3>5. b.from = s[m].from
      <4>1. b.from <= s[m].from /\ s[m].from <= b.from
        BY <3>1, <3>2, <3>4
      <4>2. b.from \in Nat /\ s[m].from \in Nat
        BY <1>6, <2>5, <2>8, <3>4 DEF AreBounds
      <4>3. QED
        BY <4>1, <4>2
    <3>6. b = s[m]
      BY <2>8, <3>1, <3>4, <3>5 DEF AreBounds
    <3>7. QED
      BY <2>5, <2>9, <3>1, <3>3, <3>6
  <2>13. QED
    BY <2>11, <2>12
<1>17. t # <<>>
  BY <1>9, <1>12
<1>18. e.price = base /\ e.basis = basis /\ e.tiers = t
  BY <1>8
<1>19. IsComponent(e)
  BY <1>3, <1>12, <1>18 DEF IsComponent
<1>20. QED
  BY <1>15, <1>16, <1>17, <1>18, <1>19

\* The components of the input, without a service tier and of the tier that has
\* fields of its own; and the meters of a listing.
NoTier   == ""
Input    == <<"input_tokens", NoTier>>
Priority == <<"input_tokens", "priority">>
Listed   == {"input_tokens", "output_tokens", "cached_input_tokens", "output_images"}

\* Two fields price the input, and four the other meters.
LEMMA FieldsListed ==
    /\ DOMAIN ComponentFields = 1 .. 6
    /\ ComponentFields[1][1] = "input_cost_per_token" /\ ComponentFields[1][2] = Input
    /\ ComponentFields[6][1] = "input_cost_per_token_priority" /\ ComponentFields[6][2] = Priority
    /\ \A i \in 2 .. 5 : ComponentFields[i][2][1] \in Listed \ {"input_tokens"}
    /\ Input[1] = "input_tokens" /\ Priority[1] = "input_tokens" /\ Input # Priority
<1>1. DOMAIN ComponentFields = 1 .. 6
  BY DEF ComponentFields
<1>2. ComponentFields[1] = <<"input_cost_per_token", Input>>
  BY DEF ComponentFields, Input, NoTier
<1>3. ComponentFields[6] = <<"input_cost_per_token_priority", Priority>>
  BY DEF ComponentFields, Priority
<1>4. PICK none : none = NoTier
  OBVIOUS
<1>5. ComponentFields[2] = <<"output_cost_per_token", <<"output_tokens", none>> >>
  BY <1>4 DEF ComponentFields, NoTier
<1>6. ComponentFields[3] = <<"cache_read_input_token_cost", <<"cached_input_tokens", none>> >>
  BY <1>4 DEF ComponentFields, NoTier
<1>7. ComponentFields[4] = <<"input_cost_per_token_cache_hit", <<"cached_input_tokens", none>> >>
  BY <1>4 DEF ComponentFields, NoTier
<1>8. ComponentFields[5] = <<"output_cost_per_image", <<"output_images", none>> >>
  BY <1>4 DEF ComponentFields, NoTier
<1>9. ASSUME NEW i \in 2 .. 5 PROVE ComponentFields[i][2][1] \in Listed \ {"input_tokens"}
  <2>1. i = 2 \/ i = 3 \/ i = 4 \/ i = 5
    OBVIOUS
  <2>2. ComponentFields[2][2][1] = "output_tokens" /\ ComponentFields[3][2][1] = "cached_input_tokens"
    BY <1>5, <1>6
  <2>3. ComponentFields[4][2][1] = "cached_input_tokens" /\ ComponentFields[5][2][1] = "output_images"
    BY <1>7, <1>8
  <2>4. QED
    BY <2>1, <2>2, <2>3 DEF Listed
<1>10. Input[1] = "input_tokens" /\ Priority[1] = "input_tokens"
  BY DEF Input, Priority
<1>11. Input # Priority
  <2>1. NoTier # "priority"
    BY Zenon DEF NoTier
  <2>2. QED
    BY <2>1 DEF Input, Priority
<1>12. ComponentFields[1][1] = "input_cost_per_token" /\ ComponentFields[1][2] = Input
  BY <1>2
<1>13. ComponentFields[6][1] = "input_cost_per_token_priority" /\ ComponentFields[6][2] = Priority
  BY <1>3
<1>14. QED
  BY <1>1, <1>9, <1>10, <1>11, <1>12, <1>13

\* What the fields of the input set; they set no component of another meter.
LEMMA FieldsSet ==
    ASSUME NEW record, NEW cs, cs = SetFields(record)
    PROVE  /\ \A k \in DOMAIN cs : k[1] \in Listed
           /\ \A i \in {1, 6} :
                 LET field == ComponentFields[i][1]
                     key   == ComponentFields[i][2]
                 IN  /\ key \in DOMAIN cs <=> field \in DOMAIN record.fields
                     /\ key \in DOMAIN cs => cs[key] = Flat(record.fields[field])
<1> DEFINE price(i)    == record.fields[ComponentFields[i][1]]
           listed(key) == {i \in DOMAIN ComponentFields : /\ ComponentFields[i][2] = key
                                                          /\ ComponentFields[i][1] \in DOMAIN record.fields}
           priced(key) == {i \in listed(key) : price(i) # 0}
           keys        == {k \in {f[2] : f \in Range(ComponentFields)} : listed(k) # {}}
<1>1. cs = [key \in keys |-> Flat(IF priced(key) = {} THEN 0 ELSE price(Min(priced(key))))]
  BY DEF SetFields
<1>2. \A f \in Range(ComponentFields) : \E i \in 1 .. 6 : f = ComponentFields[i]
  BY FieldsListed DEF Range
<1>3. \A i \in 1 .. 6 : ComponentFields[i] \in Range(ComponentFields)
  BY FieldsListed DEF Range
<1>4. \A i \in 1 .. 6 : ComponentFields[i][2][1] \in Listed
  <2>1. \A i \in 1 .. 6 : i = 1 \/ i = 6 \/ i \in 2 .. 5
    OBVIOUS
  <2>2. ComponentFields[1][2][1] = "input_tokens" /\ ComponentFields[6][2][1] = "input_tokens"
    BY FieldsListed
  <2>3. QED
    BY <2>1, <2>2, FieldsListed DEF Listed
<1>5. \A k \in DOMAIN cs : k[1] \in Listed
  <2>1. DOMAIN cs = keys
    BY <1>1
  <2>2. SUFFICES ASSUME NEW k \in keys PROVE k[1] \in Listed
    BY <2>1
  <2>3. PICK f \in Range(ComponentFields) : k = f[2]
    OBVIOUS
  <2>4. QED
    BY <1>2, <1>4, <2>3
<1>6. ASSUME NEW i \in {1, 6}
      PROVE  \A j \in 1 .. 6 : ComponentFields[j][2] = ComponentFields[i][2] => j = i
  <2>1. \A j \in 1 .. 6 : j = 1 \/ j = 6 \/ j \in 2 .. 5
    OBVIOUS
  <2>2. ComponentFields[1][2][1] = "input_tokens" /\ ComponentFields[6][2][1] = "input_tokens"
    BY FieldsListed
  <2>3. ComponentFields[1][2] # ComponentFields[6][2]
    BY FieldsListed
  <2>4. QED
    BY <2>1, <2>2, <2>3, FieldsListed
<1>7. ASSUME NEW i \in {1, 6}, NEW field, field = ComponentFields[i][1], NEW key, key = ComponentFields[i][2]
      PROVE  /\ key \in DOMAIN cs <=> field \in DOMAIN record.fields
             /\ key \in DOMAIN cs => cs[key] = Flat(record.fields[field])
  <2>1. listed(key) = IF field \in DOMAIN record.fields THEN {i} ELSE {}
    <3>1. DOMAIN ComponentFields = 1 .. 6 /\ i \in 1 .. 6
      BY FieldsListed
    <3>2. \A j \in 1 .. 6 : ComponentFields[j][2] = key => j = i
      BY <1>6, <1>7
    <3>3. QED
      BY <1>7, <3>1, <3>2
  <2>2. key \in {f[2] : f \in Range(ComponentFields)}
    BY <1>3, <1>7
  <2>3. key \in DOMAIN cs <=> field \in DOMAIN record.fields
    BY <1>1, <2>1, <2>2
  <2>4. ASSUME field \in DOMAIN record.fields PROVE cs[key] = Flat(record.fields[field])
    <3>1. key \in keys
      BY <2>1, <2>2, <2>4
    <3>2. cs[key] = Flat(IF priced(key) = {} THEN 0 ELSE price(Min(priced(key))))
      BY <1>1, <3>1
    <3>3. CASE record.fields[field] = 0
      <4>1. priced(key) = {}
        BY <1>7, <2>1, <2>4, <3>3
      <4>2. QED
        BY <3>2, <3>3, <4>1
    <3>4. CASE record.fields[field] # 0
      <4>1. priced(key) = {i}
        BY <1>7, <2>1, <2>4, <3>4
      <4>2. Min(priced(key)) = i
        <5>1. PICK s : s = priced(key)
          OBVIOUS
        <5>2. s \in SUBSET Nat /\ s # {} /\ s = {i}
          BY <4>1, <5>1
        <5>3. Min(s) \in s
          BY <5>2, LeastOfNaturals
        <5>4. QED
          BY <5>1, <5>2, <5>3
      <4>3. QED
        BY <1>7, <3>2, <4>1, <4>2
    <3>5. QED
      BY <3>3, <3>4
  <2>5. QED
    BY <2>3, <2>4
<1>8. QED
  BY <1>5, <1>7

-----------------------------------------------------------------------------
(* Listings: the components of a record                                    *)

\* The tiers of a field touch no component of another meter.
LEMMA TiersOfField ==
    ASSUME NEW record, NEW cs, NEW f, NEW r, r = SetTiers(record, cs, f)
    PROVE  /\ \A k \in DOMAIN r : k \in DOMAIN cs \/ k = f[2] \/ k[1] = f[2][1]
           /\ \A k : k # f[2] /\ k[1] # f[2][1] =>
                 (k \in DOMAIN r <=> k \in DOMAIN cs) /\ (k \in DOMAIN cs => r[k] = cs[k])
           /\ TiersOf(record, f[1]) = {} /\ RangesOf(record, f[1]) = <<>> =>
                 \A k : (k \in DOMAIN r <=> k \in DOMAIN cs) /\ (k \in DOMAIN cs => r[k] = cs[k])
<1>1. PICK known : known = WithRange(record, cs, f)
  OBVIOUS
<1>2. PICK g : DOMAIN g = {KeyOf(f, t) : t \in TiersOf(record, f[1])}
               /\ r = IF f[2] \notin DOMAIN known THEN cs ELSE Over(g, known)
  <2> DEFINE tierOf(key) == CHOOSE t \in TiersOf(record, f[1]) : KeyOf(f, t) = key
             Tiered(key) == Encode(IF key \in DOMAIN known THEN known[key] ELSE known[f[2]],
                              Thresholds(record, f[1], tierOf(key)), Basis(record, f[1], tierOf(key)))
  <2>1. PICK g : g = [key \in {KeyOf(f, t) : t \in TiersOf(record, f[1])} |-> Tiered(key)]
    OBVIOUS
  <2>2. r = IF f[2] \notin DOMAIN known THEN cs ELSE Over(g, known)
    BY <1>1, <2>1 DEF SetTiers
  <2>3. DOMAIN g = {KeyOf(f, t) : t \in TiersOf(record, f[1])}
    BY <2>1
  <2>4. QED
    BY <2>2, <2>3
<1>3. /\ \A k \in DOMAIN known : k \in DOMAIN cs \/ k = f[2]
      /\ \A k \in DOMAIN cs : k \in DOMAIN known
      /\ \A k \in DOMAIN cs : k # f[2] => known[k] = cs[k]
      /\ RangesOf(record, f[1]) = <<>> => known = cs
  <2>1. CASE known = cs
    BY <2>1
  <2>2. CASE known # cs
    <3>1. PICK o : known = Over(Only(f[2], o), cs)
      BY <1>1, <2>2 DEF WithRange
    <3>2. RangesOf(record, f[1]) # <<>>
      BY <1>1, <2>2 DEF WithRange
    <3>3. QED
      BY <3>1, <3>2 DEF Over, Only
  <2>3. QED
    BY <2>1, <2>2
<1>4. \A k \in DOMAIN g : k = f[2] \/ k[1] = f[2][1]
  <2>1. \A t : KeyOf(f, t) = f[2] \/ KeyOf(f, t) = <<f[2][1], t>>
    BY DEF KeyOf
  <2>2. \A a, b : <<a, b>>[1] = a
    OBVIOUS
  <2>3. \A t : KeyOf(f, t) = f[2] \/ KeyOf(f, t)[1] = f[2][1]
    BY <2>1, <2>2
  <2>4. QED
    BY <1>2, <2>3
<1>5. /\ \A k : k \in DOMAIN Over(g, known) <=> k \in DOMAIN g \/ k \in DOMAIN known
      /\ \A k \in DOMAIN known : k \notin DOMAIN g => Over(g, known)[k] = known[k]
  BY DEF Over
<1>6. ASSUME TiersOf(record, f[1]) = {}, RangesOf(record, f[1]) = <<>> PROVE DOMAIN g = {} /\ known = cs
  BY <1>2, <1>3, <1>6
<1>7. CASE f[2] \notin DOMAIN known
  BY <1>2, <1>7
<1>8. CASE f[2] \in DOMAIN known
  <2>1. r = Over(g, known)
    BY <1>2, <1>8
  <2>2. \A k \in DOMAIN r : k \in DOMAIN cs \/ k = f[2] \/ k[1] = f[2][1]
    BY <1>3, <1>4, <1>5, <2>1
  <2>3. ASSUME NEW k, k # f[2], k[1] # f[2][1]
        PROVE  (k \in DOMAIN r <=> k \in DOMAIN cs) /\ (k \in DOMAIN cs => r[k] = cs[k])
    <3>1. k \notin DOMAIN g
      BY <1>4, <2>3
    <3>2. QED
      BY <1>3, <1>5, <2>1, <2>3, <3>1
  <2>4. ASSUME TiersOf(record, f[1]) = {}, RangesOf(record, f[1]) = <<>>, NEW k
        PROVE  (k \in DOMAIN r <=> k \in DOMAIN cs) /\ (k \in DOMAIN cs => r[k] = cs[k])
    BY <1>5, <1>6, <2>1, <2>4
  <2>5. QED
    BY <2>2, <2>3, <2>4
<1>9. QED
  BY <1>7, <1>8

\* The service tiers that a listing has prices for.
ListedTiers == {NoTier, "priority"}

\* What a field lists for a tier, and that it is nothing where there are no steps.
LEMMA ThresholdsListed ==
    ASSUME NEW record, NEW field, NEW t
    PROVE  /\ Thresholds(record, field, t) =
                 {[from |-> s.from, price |-> s.price] : s \in {u \in AboveOf(record, field).steps : u.tier = t}}
                    \cup (IF t = NoTier THEN Range(RangesOf(record, field)) ELSE {})
           /\ TiersOf(record, field) = {s.tier : s \in AboveOf(record, field).steps}
                                          \cup (IF RangesOf(record, field) = <<>> THEN {} ELSE {NoTier})
           /\ t \notin TiersOf(record, field) => Thresholds(record, field, t) = {}
<1>1. Thresholds(record, field, t) =
         {[from |-> s.from, price |-> s.price] : s \in {u \in AboveOf(record, field).steps : u.tier = t}}
            \cup (IF t = NoTier THEN Range(RangesOf(record, field)) ELSE {})
  BY Zenon DEF Thresholds, NoTier
<1>2. TiersOf(record, field) = {s.tier : s \in AboveOf(record, field).steps}
                                  \cup (IF RangesOf(record, field) = <<>> THEN {} ELSE {NoTier})
  BY Zenon DEF TiersOf, NoTier
<1>3. ASSUME t \notin TiersOf(record, field) PROVE Thresholds(record, field, t) = {}
  <2>1. {u \in AboveOf(record, field).steps : u.tier = t} = {}
    BY <1>2, <1>3
  <2>2. t = NoTier => RangesOf(record, field) = <<>>
    BY <1>2, <1>3
  <2>3. Range(<<>>) = {}
    BY DEF Range
  <2>4. QED
    BY <1>1, <2>1, <2>2, <2>3
<1>4. QED
  BY <1>1, <1>2, <1>3

\* What a record lists for the input can be read.
LEMMA RecordCanBeRead ==
    ASSUME NEW record, IsRecord(record), NEW field, field = ComponentFields[1][1]
    PROVE  /\ \A f \in DOMAIN record.fields : record.fields[f] \in Nat
           /\ \A t \in ListedTiers : AreBounds(Thresholds(record, field, t))
           /\ RangesOf(record, field) \in Seq([from : Nat, price : Nat])
           /\ AboveOf(record, field).interval => RangesOf(record, field) = <<>>
           /\ AboveOf(record, ComponentFields[6][1]).steps = {}
           /\ RangesOf(record, ComponentFields[6][1]) = <<>>
<1>1. PICK above, ranges : above = AboveOf(record, field) /\ ranges = RangesOf(record, field)
  OBVIOUS
<1>2. 1 \in DOMAIN ComponentFields /\ 6 \in DOMAIN ComponentFields
  BY FieldsListed
<1>3. /\ IsFiniteSet(above.steps) /\ \A s \in above.steps : s.from \in Nat /\ s.price \in Nat
      /\ ranges \in Seq([from : Nat, price : Nat])
      /\ \A tier \in {s.tier : s \in above.steps} \cup {NoTier} :
            \A b, c \in Thresholds(record, field, tier) : b.from = c.from => b = c
      /\ above.interval => ranges = <<>>
  <2>1. /\ IsFiniteSet(AboveOf(record, ComponentFields[1][1]).steps)
        /\ \A s \in AboveOf(record, ComponentFields[1][1]).steps : s.from \in Nat /\ s.price \in Nat
        /\ RangesOf(record, ComponentFields[1][1]) \in Seq([from : Nat, price : Nat])
        /\ \A tier \in {s.tier : s \in AboveOf(record, ComponentFields[1][1]).steps} \cup {NoTier} :
              \A b, c \in Thresholds(record, ComponentFields[1][1], tier) : b.from = c.from => b = c
        /\ AboveOf(record, ComponentFields[1][1]).interval =>
              RangesOf(record, ComponentFields[1][1]) = <<>>
    BY Zenon, <1>2 DEF IsRecord, NoTier
  <2>2. QED
    BY Zenon, <1>1, <2>1
<1>4. AboveOf(record, ComponentFields[6][1]).steps = {} /\ RangesOf(record, ComponentFields[6][1]) = <<>>
  <2>1. Priority[2] # ""
    <3>1. Priority[2] = "priority"
      BY DEF Priority
    <3>2. QED
      BY Zenon, <3>1
  <2>2. ComponentFields[6][2][2] # ""
    BY Zenon, <2>1, FieldsListed
  <2>3. QED
    BY Zenon, <1>2, <2>2 DEF IsRecord
<1>5. ASSUME NEW t \in ListedTiers PROVE AreBounds(Thresholds(record, field, t))
  <2> DEFINE of == {u \in above.steps : u.tier = t}
             listed == {[from |-> s.from, price |-> s.price] : s \in of}
             others == IF t = NoTier THEN Range(ranges) ELSE {}
  <2>1. Thresholds(record, field, t) = listed \cup others
    BY <1>1, ThresholdsListed
  <2>2. IsFiniteSet(listed)
    <3>1. IsFiniteSet(of)
      BY <1>3, FS_Subset
    <3> DEFINE f == [s \in of |-> [from |-> s.from, price |-> s.price]]
    <3>2. f \in Surjection(of, listed)
      BY DEF Surjection
    <3>3. QED
      BY <3>1, <3>2, FS_Surjection
  <2>3. IsFiniteSet(Range(ranges)) /\ Range(ranges) \subseteq [from : Nat, price : Nat]
    <3>1. /\ Len(ranges) \in Nat /\ DOMAIN ranges = 1 .. Len(ranges)
          /\ \A i \in DOMAIN ranges : ranges[i] \in [from : Nat, price : Nat]
      <4> DEFINE X == [from : Nat, price : Nat]
      <4>1. ranges \in Seq(X)
        BY <1>3
      <4> HIDE DEF X
      <4>2. /\ Len(ranges) \in Nat /\ DOMAIN ranges = 1 .. Len(ranges)
            /\ \A i \in DOMAIN ranges : ranges[i] \in X
        BY <4>1
      <4>3. QED
        BY <4>2 DEF X
    <3>2. IsFiniteSet(DOMAIN ranges)
      <4>1. Len(ranges) \in Int /\ 1 \in Int
        BY <3>1
      <4>2. QED
        BY <3>1, <4>1, FS_Interval
    <3>3. ranges \in Surjection(DOMAIN ranges, Range(ranges))
      BY <1>3, <3>1 DEF Surjection, Range
    <3>4. QED
      BY <3>1, <3>2, <3>3, FS_Surjection DEF Range
  <2>4. listed \subseteq [from : Nat, price : Nat]
    BY <1>3
  <2>5. IsFiniteSet(others) /\ others \subseteq [from : Nat, price : Nat]
    BY <2>3, FS_EmptySet
  <2>6. \A b, c \in Thresholds(record, field, t) : b.from = c.from => b = c
    <3>1. CASE t \in {s.tier : s \in above.steps} \cup {NoTier}
      BY <1>3, <3>1
    <3>2. CASE t \notin {s.tier : s \in above.steps} \cup {NoTier}
      <4>1. of = {} /\ others = {}
        BY <3>2
      <4>2. QED
        BY <2>1, <4>1
    <3>3. QED
      BY <3>1, <3>2
  <2> HIDE DEF listed, others
  <2>7. IsFiniteSet(listed \cup others)
    BY <2>2, <2>5, FS_Union
  <2>8. QED
    BY <2>1, <2>4, <2>5, <2>6, <2>7 DEF AreBounds
<1>6. \A f \in DOMAIN record.fields : record.fields[f] \in Nat
  BY DEF IsRecord
<1>7. QED
  BY <1>1, <1>3, <1>4, <1>5, <1>6

\* What a price is where a record lists no threshold at or below.
Otherwise(record, t) ==
    LET field == "input_cost_per_token"
        own   == IF t = NoTier THEN field ELSE "input_cost_per_token_priority"
    IN  IF own \in DOMAIN record.fields THEN record.fields[own]
        ELSE IF field \in DOMAIN record.fields THEN record.fields[field]
        ELSE Head(RangesOf(record, field)).price

\* What a record says of a tier goes by its thresholds.
LEMMA ListedByThreshold ==
    ASSUME NEW record, NEW t, NEW at
    PROVE  ListedPrice(record, t, at) =
              BoundPrice(Thresholds(record, "input_cost_per_token", t), Otherwise(record, t), at)
<1> DEFINE field  == "input_cost_per_token"
           own    == IF t = NoTier THEN field ELSE "input_cost_per_token_priority"
<1>1. PICK th : th = Thresholds(record, field, t)
  OBVIOUS
<1>2. PICK zero, passed : zero = {b \in th : b.from = 0} /\ passed = {b \in th : b.from > 0 /\ b.from < at}
  OBVIOUS
<1>3. PICK best, first, plain, base :
        /\ best = (CHOOSE b \in passed : \A c \in passed : c.from <= b.from).price
        /\ first = (CHOOSE b \in zero : TRUE).price
        /\ plain = record.fields[own]
        /\ base = IF field \in DOMAIN record.fields THEN record.fields[field] ELSE Head(RangesOf(record, field)).price
  OBVIOUS
<1>4. ListedPrice(record, t, at) =
         CASE passed # {} -> best
           [] passed = {} /\ zero # {} -> first
           [] passed = {} /\ zero = {} /\ own \in DOMAIN record.fields -> plain
           [] passed = {} /\ zero = {} /\ own \notin DOMAIN record.fields -> base
  BY Zenon, <1>1, <1>2, <1>3 DEF ListedPrice, NoTier
<1>5. Otherwise(record, t) = IF own \in DOMAIN record.fields THEN plain ELSE base
  BY <1>3 DEF Otherwise
<1>6. BoundPrice(th, Otherwise(record, t), at) =
         IF passed # {} THEN best ELSE IF zero # {} THEN first ELSE Otherwise(record, t)
  BY <1>2, <1>3 DEF BoundPrice
<1> HIDE DEF own, field
<1>7. QED
  BY <1>1, <1>4, <1>5, <1>6 DEF field

\* A component of the input as the record says it of a tier.
AsRecorded(component, record, t) ==
    LET field == "input_cost_per_token"
    IN  /\ IsComponent(component)
        /\ IF t \in TiersOf(record, field)
           THEN /\ component.tiers # <<>> /\ AreLimits(component.tiers)
                /\ component.basis = Basis(record, field, t)
                /\ \A at \in Nat : PriceAt(component.tiers, at) = ListedPrice(record, t, at)
           ELSE component.tiers = <<>> /\ \A at \in Nat : component.price = ListedPrice(record, t, at)

\* A plain price, where nothing else is listed.
LEMMA PlainAsRecorded ==
    ASSUME NEW record, NEW t, t \notin TiersOf(record, "input_cost_per_token"),
           NEW price \in Nat, price = Otherwise(record, t)
    PROVE  AsRecorded(Flat(price), record, t)
<1>1. Thresholds(record, "input_cost_per_token", t) = {}
  BY ThresholdsListed
<1>2. Flat(price).price = price /\ Flat(price).tiers = <<>> /\ IsComponent(Flat(price))
  BY DEF Flat, IsComponent
<1>3. ASSUME NEW at PROVE price = ListedPrice(record, t, at)
  BY <1>1, ListedByThreshold DEF BoundPrice
<1>4. QED
  BY <1>2, <1>3 DEF AsRecorded

\* Encoded thresholds, where there are some.
LEMMA EncodedAsRecorded ==
    ASSUME NEW record, IsRecord(record), NEW t \in ListedTiers, t \in TiersOf(record, "input_cost_per_token"),
           NEW component, component.price \in Nat, component.price = Otherwise(record, t)
    PROVE  AsRecorded(Encode(component, Thresholds(record, "input_cost_per_token", t),
                             Basis(record, "input_cost_per_token", t)), record, t)
<1>1. PICK th, basis : /\ th = Thresholds(record, "input_cost_per_token", t)
                       /\ basis = Basis(record, "input_cost_per_token", t)
  OBVIOUS
<1>2. AreBounds(th)
  BY <1>1, RecordCanBeRead, FieldsListed
<1>3. PICK e : e = Encode(component, th, basis)
  OBVIOUS
<1>4. /\ IsComponent(e) /\ e.basis = basis /\ e.tiers # <<>> /\ AreLimits(e.tiers)
      /\ \A at \in Nat : PriceAt(e.tiers, at) = BoundPrice(th, component.price, at)
  BY <1>2, <1>3, EncodedTiers
<1>5. \A at \in Nat : PriceAt(e.tiers, at) = ListedPrice(record, t, at)
  BY <1>1, <1>4, ListedByThreshold
<1>6. QED
  BY <1>1, <1>3, <1>4, <1>5 DEF AsRecorded

\* The input before its tiers: plain prices, and the price of a tier without one.
LEMMA InputKnown ==
    ASSUME NEW record, IsRecord(record), NEW cs, cs = SetFields(record),
           NEW known, known = WithRange(record, cs, ComponentFields[1]), Input \in DOMAIN known
    PROVE  /\ known[Input] = Flat(Otherwise(record, NoTier)) /\ Otherwise(record, NoTier) \in Nat
           /\ IF Priority \in DOMAIN known
              THEN known[Priority] = Flat(Otherwise(record, "priority")) /\ Otherwise(record, "priority") \in Nat
              ELSE Otherwise(record, "priority") = Otherwise(record, NoTier)
<1> DEFINE field == "input_cost_per_token"
           own   == "input_cost_per_token_priority"
<1>1. PICK ranges : ranges = RangesOf(record, field)
  OBVIOUS
<1>2. /\ Input \in DOMAIN cs <=> field \in DOMAIN record.fields
      /\ Input \in DOMAIN cs => cs[Input] = Flat(record.fields[field])
      /\ Priority \in DOMAIN cs <=> own \in DOMAIN record.fields
      /\ Priority \in DOMAIN cs => cs[Priority] = Flat(record.fields[own])
  BY FieldsSet, FieldsListed
<1>3. known = IF Input \notin DOMAIN cs /\ ranges # <<>> /\ Head(ranges).from = 0
              THEN Over(Only(Input, Flat(Head(ranges).price)), cs) ELSE cs
  BY <1>1, FieldsListed DEF WithRange
<1>4. /\ \A f \in DOMAIN record.fields : record.fields[f] \in Nat
      /\ ranges \in Seq([from : Nat, price : Nat])
  BY <1>1, RecordCanBeRead, FieldsListed
<1>5. /\ Otherwise(record, NoTier) = IF field \in DOMAIN record.fields THEN record.fields[field] ELSE Head(ranges).price
      /\ Otherwise(record, "priority") = IF own \in DOMAIN record.fields THEN record.fields[own]
                                         ELSE Otherwise(record, NoTier)
  <2>1. "priority" # NoTier
    BY Zenon DEF NoTier
  <2>2. QED
    BY <1>1, <2>1 DEF Otherwise
<1>6. CASE Input \in DOMAIN cs
  <2>1. known = cs
    BY <1>3, <1>6
  <2>2. QED
    BY <1>2, <1>4, <1>5, <1>6, <2>1
<1>7. CASE Input \notin DOMAIN cs
  <2>1. ranges # <<>> /\ known = Over(Only(Input, Flat(Head(ranges).price)), cs)
    BY <1>3, <1>7
  <2>2. Head(ranges).price \in Nat
    <3> DEFINE X == [from : Nat, price : Nat]
    <3>1. ranges \in Seq(X)
      BY <1>4
    <3> HIDE DEF X
    <3>2. Head(ranges) \in X
      BY <2>1, <3>1
    <3>3. QED
      BY <3>2 DEF X
  <2>3. PICK o : o = Flat(Head(ranges).price)
    OBVIOUS
  <2>4. known[Input] = o /\ \A k : k # Input => (k \in DOMAIN known <=> k \in DOMAIN cs)
                                               /\ (k \in DOMAIN cs => known[k] = cs[k])
    BY <2>1, <2>3 DEF Over, Only
  <2>5. known[Input] = Flat(Otherwise(record, NoTier)) /\ Otherwise(record, NoTier) \in Nat
    BY <1>2, <1>5, <1>7, <2>2, <2>3, <2>4
  <2>6. /\ Priority \in DOMAIN known <=> Priority \in DOMAIN cs
        /\ Priority \in DOMAIN cs => known[Priority] = cs[Priority]
    BY <2>4, FieldsListed
  <2>7. QED
    BY <1>2, <1>4, <1>5, <2>5, <2>6
<1>8. QED
  BY <1>6, <1>7

\* The components of the input after the tiers of its field.
LEMMA InputOfField ==
    ASSUME NEW record, IsRecord(record), NEW cs, cs = SetFields(record),
           NEW r, r = SetTiers(record, cs, ComponentFields[1]), Input \in DOMAIN r,
           NEW t \in ListedTiers
    PROVE  /\ t \in TiersOf(record, "input_cost_per_token") => <<"input_tokens", t>> \in DOMAIN r
           /\ <<"input_tokens", t>> \in DOMAIN r => AsRecorded(r[<<"input_tokens", t>>], record, t)
<1> DEFINE field == "input_cost_per_token"
<1>1. PICK f, known, tiers : /\ f = ComponentFields[1] /\ known = WithRange(record, cs, f)
                             /\ tiers = TiersOf(record, field)
  OBVIOUS
<1>2. f[1] = field /\ f[2] = Input
  BY <1>1, FieldsListed
<1>3. \A u : KeyOf(f, u) = <<"input_tokens", u>>
  <2>1. ASSUME NEW u PROVE KeyOf(f, u) = IF u = NoTier THEN f[2] ELSE <<f[2][1], u>>
    BY Zenon DEF KeyOf, NoTier
  <2>2. f[2][1] = "input_tokens" /\ f[2] = <<"input_tokens", NoTier>>
    BY <1>2, FieldsListed DEF Input
  <2>3. QED
    BY <2>1, <2>2
<1>4. \A u, w : <<"input_tokens", u>> = <<"input_tokens", w>> => u = w
  OBVIOUS
<1>5. PICK key : key = <<"input_tokens", t>>
  OBVIOUS
<1>6. key = IF t = NoTier THEN Input ELSE Priority
  BY <1>5 DEF ListedTiers, Input, Priority
<1> DEFINE tierOf(k) == CHOOSE u \in TiersOf(record, f[1]) : KeyOf(f, u) = k
           Tiered(k) == Encode(IF k \in DOMAIN known THEN known[k] ELSE known[f[2]],
                               Thresholds(record, f[1], tierOf(k)), Basis(record, f[1], tierOf(k)))
<1>7. PICK g : g = [k \in {KeyOf(f, u) : u \in TiersOf(record, f[1])} |-> Tiered(k)]
  OBVIOUS
<1>8. r = IF f[2] \notin DOMAIN known THEN cs ELSE Over(g, known)
  BY <1>1, <1>7 DEF SetTiers
<1>9. Input \in DOMAIN known
  <2>1. \A k \in DOMAIN cs : k \in DOMAIN known
    BY <1>1 DEF WithRange, Over, Only
  <2>2. QED
    BY <1>2, <1>8, <2>1
<1>10. r = Over(g, known)
  BY <1>2, <1>8, <1>9
<1>11. key \in DOMAIN g <=> t \in tiers
  <2>1. DOMAIN g = {KeyOf(f, u) : u \in TiersOf(record, f[1])}
    BY <1>7
  <2> HIDE DEF tierOf, Tiered
  <2>2. QED
    BY <1>1, <1>2, <1>3, <1>4, <1>5, <2>1
<1>12. PICK source : source = IF key \in DOMAIN known THEN known[key] ELSE known[Input]
  OBVIOUS
<1>13. source = Flat(Otherwise(record, t)) /\ Otherwise(record, t) \in Nat
  <2>1. /\ known[Input] = Flat(Otherwise(record, NoTier)) /\ Otherwise(record, NoTier) \in Nat
        /\ IF Priority \in DOMAIN known
           THEN known[Priority] = Flat(Otherwise(record, "priority")) /\ Otherwise(record, "priority") \in Nat
           ELSE Otherwise(record, "priority") = Otherwise(record, NoTier)
    BY <1>1, <1>9, InputKnown
  <2>2. CASE t = NoTier
    BY <1>6, <1>9, <1>12, <2>1, <2>2
  <2>3. CASE t # NoTier
    <3>1. t = "priority" /\ key = Priority
      BY <1>6, <2>3 DEF ListedTiers
    <3>2. QED
      BY <1>12, <2>1, <3>1
  <2>4. QED
    BY <2>2, <2>3
<1>14. CASE t \in tiers
  <2>1. tierOf(key) = t
    <3>1. \A u \in TiersOf(record, f[1]) : KeyOf(f, u) = key <=> u = t
      BY <1>3, <1>4, <1>5
    <3>2. t \in TiersOf(record, f[1])
      BY <1>1, <1>2, <1>14
    <3>3. QED
      BY <3>1, <3>2
  <2>2. key \in DOMAIN g /\ key \in {KeyOf(f, u) : u \in TiersOf(record, f[1])}
    BY <1>7, <1>11, <1>14
  <2>3. g[key] = Tiered(key)
    BY <1>7, <2>2
  <2>4. g[key] = Encode(source, Thresholds(record, field, t), Basis(record, field, t))
    BY <1>2, <1>12, <2>1, <2>3
  <2>5. source.price = Otherwise(record, t)
    BY <1>13 DEF Flat
  <2>6. AsRecorded(g[key], record, t)
    BY <1>1, <1>13, <1>14, <2>4, <2>5, EncodedAsRecorded
  <2>7. key \in DOMAIN r /\ r[key] = g[key]
    BY <1>10, <2>2 DEF Over
  <2>8. QED
    BY <1>5, <2>6, <2>7
<1>15. CASE t \notin tiers
  <2>1. SUFFICES ASSUME key \in DOMAIN r PROVE AsRecorded(r[key], record, t)
    BY <1>1, <1>5, <1>15
  <2>2. key \in DOMAIN known /\ r[key] = known[key]
    BY <1>10, <1>11, <1>15, <2>1 DEF Over
  <2>3. r[key] = Flat(Otherwise(record, t))
    BY <1>12, <1>13, <2>2
  <2>4. QED
    BY <1>1, <1>13, <1>15, <2>3, PlainAsRecorded
<1>16. QED
  BY <1>14, <1>15

\* What is the same of the input in two sets of components of listed meters.
SameInput(cs, ds) ==
    /\ \A k \in DOMAIN ds : k[1] \in Listed
    /\ \A k : k[1] = "input_tokens" => (k \in DOMAIN ds <=> k \in DOMAIN cs) /\ (k \in DOMAIN cs => ds[k] = cs[k])

\* The fields after the first do not touch the input.
LEMMA InputStays ==
    ASSUME NEW record, IsRecord(record), NEW cs, \A k \in DOMAIN cs : k[1] \in Listed,
           NEW i \in 2 .. 6, NEW ds, ds = SetTiers(record, cs, ComponentFields[i])
    PROVE  SameInput(cs, ds)
<1>1. PICK f : f = ComponentFields[i]
  OBVIOUS
<1>2. /\ \A k \in DOMAIN ds : k \in DOMAIN cs \/ k = f[2] \/ k[1] = f[2][1]
      /\ \A k : k # f[2] /\ k[1] # f[2][1] =>
            (k \in DOMAIN ds <=> k \in DOMAIN cs) /\ (k \in DOMAIN cs => ds[k] = cs[k])
      /\ TiersOf(record, f[1]) = {} /\ RangesOf(record, f[1]) = <<>> =>
            \A k : (k \in DOMAIN ds <=> k \in DOMAIN cs) /\ (k \in DOMAIN cs => ds[k] = cs[k])
  BY <1>1, TiersOfField
<1>3. CASE i \in 2 .. 5
  <2>1. f[2][1] \in Listed \ {"input_tokens"}
    BY <1>1, <1>3, FieldsListed
  <2>2. QED
    BY <1>2, <2>1 DEF SameInput
<1>4. CASE i = 6
  <2>1. AboveOf(record, f[1]).steps = {} /\ RangesOf(record, f[1]) = <<>>
    BY <1>1, <1>4, RecordCanBeRead
  <2>2. TiersOf(record, f[1]) = {}
    <3>1. TiersOf(record, f[1]) = {s.tier : s \in AboveOf(record, f[1]).steps}
                                    \cup (IF RangesOf(record, f[1]) = <<>> THEN {} ELSE {NoTier})
      BY ThresholdsListed
    <3>2. QED
      BY <2>1, <3>1
  <2>3. QED
    BY <1>2, <2>1, <2>2 DEF SameInput
<1>5. QED
  BY <1>3, <1>4

\* The components of a record: of listed meters only, and those of the input are as it
\* says (normalizeRecord).
LEMMA CollectedAsRecorded ==
    ASSUME NEW record, IsRecord(record), NEW cs, cs = CollectComponents(record), Input \in DOMAIN cs
    PROVE  /\ \A k \in DOMAIN cs : k[1] \in Listed
           /\ \A t \in ListedTiers :
                 /\ t \in TiersOf(record, "input_cost_per_token") => <<"input_tokens", t>> \in DOMAIN cs
                 /\ <<"input_tokens", t>> \in DOMAIN cs => AsRecorded(cs[<<"input_tokens", t>>], record, t)
<1>1. PICK c0, c1, c2, c3, c4, c5, c6 :
         /\ c0 = SetFields(record)
         /\ c1 = SetTiers(record, c0, ComponentFields[1]) /\ c2 = SetTiers(record, c1, ComponentFields[2])
         /\ c3 = SetTiers(record, c2, ComponentFields[3]) /\ c4 = SetTiers(record, c3, ComponentFields[4])
         /\ c5 = SetTiers(record, c4, ComponentFields[5]) /\ c6 = SetTiers(record, c5, ComponentFields[6])
  OBVIOUS
<1>2. cs = c6
  <2> DEFINE Next(set, i) == {SetTiers(record, x, ComponentFields[i]) : x \in set}
  <2>1. cs = CHOOSE x \in Next(Next(Next(Next(Next(Next({SetFields(record)}, 1), 2), 3), 4), 5), 6) : TRUE
    BY DEF CollectComponents
  <2>2. Next({c0}, 1) = {c1} /\ Next({c1}, 2) = {c2} /\ Next({c2}, 3) = {c3}
    BY <1>1
  <2>3. Next({c3}, 4) = {c4} /\ Next({c4}, 5) = {c5} /\ Next({c5}, 6) = {c6}
    BY <1>1
  <2> HIDE DEF Next
  <2>4. cs = CHOOSE x \in {c6} : TRUE
    BY <1>1, <2>1, <2>2, <2>3
  <2>5. QED
    BY <2>4
<1>3. \A k \in DOMAIN c0 : k[1] \in Listed
  BY <1>1, FieldsSet
<1>4. \A k \in DOMAIN c1 : k[1] \in Listed
  <2>1. \A k \in DOMAIN c1 : k \in DOMAIN c0 \/ k = Input \/ k[1] = Input[1]
    BY <1>1, TiersOfField, FieldsListed
  <2>2. QED
    BY <1>3, <2>1, FieldsListed DEF Listed
<1>5. SameInput(c1, c2)
  BY <1>1, <1>4, InputStays
<1>6. SameInput(c2, c3)
  <2>1. \A k \in DOMAIN c2 : k[1] \in Listed
    BY <1>5 DEF SameInput
  <2>2. QED
    BY <1>1, <2>1, InputStays
<1>7. SameInput(c3, c4)
  <2>1. \A k \in DOMAIN c3 : k[1] \in Listed
    BY <1>6 DEF SameInput
  <2>2. QED
    BY <1>1, <2>1, InputStays
<1>8. SameInput(c4, c5)
  <2>1. \A k \in DOMAIN c4 : k[1] \in Listed
    BY <1>7 DEF SameInput
  <2>2. QED
    BY <1>1, <2>1, InputStays
<1>9. SameInput(c5, c6)
  <2>1. \A k \in DOMAIN c5 : k[1] \in Listed
    BY <1>8 DEF SameInput
  <2>2. QED
    BY <1>1, <2>1, InputStays
<1>10. SameInput(c1, cs)
  BY <1>2, <1>5, <1>6, <1>7, <1>8, <1>9 DEF SameInput
<1>11. Input \in DOMAIN c1
  BY <1>10, FieldsListed DEF SameInput
<1>12. ASSUME NEW t \in ListedTiers
       PROVE  /\ t \in TiersOf(record, "input_cost_per_token") => <<"input_tokens", t>> \in DOMAIN cs
              /\ <<"input_tokens", t>> \in DOMAIN cs => AsRecorded(cs[<<"input_tokens", t>>], record, t)
  <2>1. PICK key : key = <<"input_tokens", t>>
    OBVIOUS
  <2>2. key[1] = "input_tokens"
    BY <2>1
  <2>3. /\ t \in TiersOf(record, "input_cost_per_token") => key \in DOMAIN c1
        /\ key \in DOMAIN c1 => AsRecorded(c1[key], record, t)
    BY <1>1, <1>11, <2>1, InputOfField
  <2>4. (key \in DOMAIN cs <=> key \in DOMAIN c1) /\ (key \in DOMAIN c1 => cs[key] = c1[key])
    BY <1>10, <2>2 DEF SameInput
  <2>5. QED
    BY <2>1, <2>3, <2>4
<1>13. QED
  BY <1>10, <1>12 DEF SameInput

-----------------------------------------------------------------------------
(* Listings: what input tokens cost                                        *)

\* A usage of input tokens only: one line, or none without a quantity.
LEMMA InputHasOneLine ==
    ASSUME NEW q \in Nat, NEW u, u = Only("input_tokens", q), NEW v, v = Normalize(u)
    PROVE  /\ Context(u, u, "input_tokens") = q /\ \A w : Context(u, w, "input_tokens") = q
           /\ Quantity(v, "input_tokens") = q /\ EffectiveQuantity(v, "input_tokens") = q
           /\ {d \in DOMAIN v : EffectiveQuantity(v, d) > 0} = IF q = 0 THEN {} ELSE {"input_tokens"}
           /\ Quantity(u, "requests") = 0
<1> DEFINE c == "input_tokens"
<1>1. IsUsage(u)
  <2>1. IsFiniteSet({c})
    BY FS_Singleton
  <2>2. QED
    BY <2>1 DEF IsUsage, Only
<1>2. Quantity(u, c) = q /\ \A d : d # c => Quantity(u, d) = 0
  BY DEF Quantity, Only
<1>3. c \in DOMAIN Parts /\ c \in TotalMeters
  BY PartsListed DEF TotalMeters
<1>4. \A p \in DOMAIN Parts : c \notin PartsOf(p) /\ IsFiniteSet(PartsOf(p))
  BY <1>3, PartsAreLevelled
<1>5. PartsFit(u)
  <2>1. SUFFICES ASSUME NEW p \in DOMAIN Parts PROVE SumOfParts(u, p) <= Quantity(u, p)
    BY DEF PartsFit
  <2>2. \A d \in PartsOf(p) : Quantity(u, d) = 0
    BY <1>2, <1>4
  <2>3. SumOfParts(u, p) = 0
    BY <1>4, <2>2, SumOfNone DEF SumOfParts
  <2>4. QED
    BY <1>1, <2>3, QuantityIsNatural
<1>6. IsUsage(v) /\ PartsFit(v) /\ Same(v, u)
  BY <1>1, <1>5, NormalizedFits, FittingStays
<1>7. Quantity(v, c) = q /\ \A d : d # c => Quantity(v, d) = 0
  BY <1>2, <1>6 DEF Same
<1>8. /\ \A p \in DOMAIN Parts : EffectiveQuantity(v, p) = Quantity(v, p) - SumOfParts(v, p)
      /\ \A d : d \notin DOMAIN Parts => EffectiveQuantity(v, d) = Quantity(v, d)
      /\ \A d : EffectiveQuantity(v, d) \in Nat
      /\ \A d : d \notin DOMAIN v => EffectiveQuantity(v, d) = 0
  BY <1>6, EffectiveOfFitting
<1>9. \A p \in DOMAIN Parts : SumOfParts(v, p) = 0
  <2>1. SUFFICES ASSUME NEW p \in DOMAIN Parts PROVE SumOfParts(v, p) = 0
    OBVIOUS
  <2>2. \A d \in PartsOf(p) : Quantity(v, d) = 0
    BY <1>4, <1>7
  <2>3. QED
    BY <1>4, <2>2, SumOfNone DEF SumOfParts
<1>10. EffectiveQuantity(v, c) = q /\ \A d : d # c => EffectiveQuantity(v, d) = 0
  BY <1>3, <1>7, <1>8, <1>9
<1>11. {d \in DOMAIN v : EffectiveQuantity(v, d) > 0} = IF q = 0 THEN {} ELSE {c}
  BY <1>8, <1>10
<1>12. \A w : Context(u, w, c) = q
  <2>1. c \in DOMAIN u /\ u[c] = q
    BY DEF Only
  <2>2. QED
    BY <1>3, <2>1 DEF Context, Whole
<1>13. QED
  BY <1>2, <1>7, <1>10, <1>11, <1>12

\* The components that a record of the listing prices calls with.
LEMMA RecordComponents ==
    ASSUME NEW record, IsRecord(record), NEW price, price = NormalizeRecord(record),
           Input \in DOMAIN price.components, NEW cs, cs = ComponentsFor(price)
    PROVE  /\ price.components = CollectComponents(record)
           /\ \A t : LET k == <<"input_tokens", t>>
                     IN  (k \in DOMAIN cs <=> k \in DOMAIN price.components)
                         /\ (k \in DOMAIN price.components => cs[k] = price.components[k])
           /\ \A t : <<"requests", t>> \notin DOMAIN cs
<1>1. PICK components : components = price.components
  OBVIOUS
<1>2. price # NoPrice
  <2>1. NoPrice.components = <<>>
    BY DEF NoPrice
  <2>2. DOMAIN <<>> = {}
    OBVIOUS
  <2>3. QED
    BY <2>1, <2>2
<1>3. /\ price.components = CollectComponents(record)
      /\ DOMAIN price.legacy = DOMAIN NoLegacy
  <2>1. PICK c : c = CollectComponents(record)
    OBVIOUS
  <2>2. price = CHOOSE x \in {PriceFrom(c, record.mode)} : TRUE
    <3>1. {PriceFrom(x, record.mode) : x \in {CollectComponents(record)}} = {PriceFrom(c, record.mode)}
      BY <2>1
    <3>2. QED
      BY <3>1 DEF NormalizeRecord
  <2>3. price = PriceFrom(c, record.mode)
    BY <2>2
  <2> DEFINE leg == [x \in DOMAIN NoLegacy |->
                        IF <<x, NoTier>> \in DOMAIN c /\ x # "cache_creation_tokens"
                        THEN c[<<x, NoTier>>].price ELSE 0]
  <2>4. price = [components |-> c, minimum |-> 0, legacy |-> leg]
    BY Zenon, <1>2, <2>3 DEF PriceFrom, NoTier
  <2>5. DOMAIN leg = DOMAIN NoLegacy
    OBVIOUS
  <2> HIDE DEF leg
  <2>6. price.components = c /\ price.legacy = leg
    BY <2>4
  <2>7. QED
    BY <2>1, <2>5, <2>6
<1>4. PICK more : /\ cs = Over(components, more)
                  /\ \A k \in DOMAIN more : \E c \in DOMAIN price.legacy : k = <<c, NoTier>>
  <2> DEFINE legacy == [c \in {d \in DOMAIN price.legacy :
                                  d \in {"input_tokens", "output_tokens"} \/ price.legacy[d] > 0}
                           |-> Flat(price.legacy[c])]
             more   == [k \in {<<c, NoTier>> : c \in DOMAIN legacy} |-> legacy[k[1]]]
  <2>1. cs = Over(price.components, more)
    BY Zenon DEF ComponentsFor, NoTier
  <2>2. \A k \in DOMAIN more : \E c \in DOMAIN price.legacy : k = <<c, NoTier>>
    OBVIOUS
  <2> HIDE DEF more
  <2>3. QED
    BY <1>1, <2>1, <2>2
<1>5. /\ DOMAIN cs = DOMAIN components \cup DOMAIN more
      /\ \A k \in DOMAIN components : cs[k] = components[k]
  BY <1>4 DEF Over
<1>6. \A k \in DOMAIN components : k[1] \in Listed
  BY <1>1, <1>3, CollectedAsRecorded
<1>7. ASSUME NEW t PROVE <<"requests", t>> \notin DOMAIN cs
  <2>1. <<"requests", t>> \notin DOMAIN components
    BY <1>6 DEF Listed
  <2>2. <<"requests", t>> \notin DOMAIN more
    BY <1>3, <1>4 DEF NoLegacy
  <2>3. QED
    BY <1>5, <2>1, <2>2
<1>8. ASSUME NEW t
      PROVE  LET k == <<"input_tokens", t>>
             IN  (k \in DOMAIN cs <=> k \in DOMAIN components) /\ (k \in DOMAIN components => cs[k] = components[k])
  <2>1. <<"input_tokens", t>> \in DOMAIN more => <<"input_tokens", t>> = Input
    BY <1>4 DEF Input
  <2>2. QED
    BY <1>1, <1>5, <2>1
<1>9. QED
  BY <1>1, <1>3, <1>7, <1>8

\* A meter of its own has no heirs: input tokens are charged by their component.
LEMMA InputIsFound ==
    ASSUME NEW cs, Input \in DOMAIN cs, NEW tier, NEW key, key = <<"input_tokens", tier>>
    PROVE  /\ HasPrice(cs, "input_tokens", tier)
           /\ Found(cs, "input_tokens", tier) = IF key \in DOMAIN cs THEN cs[key] ELSE cs[Input]
<1> DEFINE c    == "input_tokens"
           line == <<c>>
           has  == {i \in DOMAIN Heirs(c) : HasComponent(cs, Heirs(c)[i], tier)}
<1>1. line \in Seq({c}) /\ Len(line) = 1 /\ line[1] = c /\ DOMAIN line = {1}
  OBVIOUS
<1>2. Last(line) = c
  BY <1>1 DEF Last
<1>3. c \notin DOMAIN Inherits
  BY DEF Inherits
<1>4. Heir(line) = line
  BY <1>2, <1>3 DEF Heir
<1>5. Heirs(c) = line
  BY <1>4 DEF Heirs
<1>6. HasComponent(cs, c, tier)
  BY Zenon DEF HasComponent, Input, NoTier
<1>7. has = {1}
  BY <1>1, <1>5, <1>6
<1>8. HasPrice(cs, c, tier)
  BY <1>7 DEF HasPrice
<1>9. Min(has) = 1
  <2>1. {1} \in SUBSET Nat /\ {1} # {}
    OBVIOUS
  <2>2. Min({1}) \in {1}
    BY <2>1, LeastOfNaturals
  <2>3. QED
    BY <1>7, <2>2
<1>10. Heirs(c)[Min(has)] = c
  BY <1>1, <1>5, <1>9
<1>11. Found(cs, c, tier) = IF <<Heirs(c)[Min(has)], tier>> \in DOMAIN cs
                            THEN cs[<<Heirs(c)[Min(has)], tier>>] ELSE cs[<<Heirs(c)[Min(has)], NoTier>>]
  BY Zenon DEF Found, NoTier
<1> HIDE DEF has
<1>12. QED
  BY <1>8, <1>10, <1>11 DEF Input

\* Tiers whose limits grow up to one without a limit charge every quantity.
LEMMA LimitsReach ==
    ASSUME NEW component, IsComponent(component), component.tiers # <<>> => AreLimits(component.tiers),
           NEW q, NEW n
    PROVE  ~ TieredAmount(component, q, n).error
<1>1. \A x : ~ Amounting(x).error
  BY DEF Amounting, Failed
<1>2. CASE component.tiers = <<>>
  BY <1>1, <1>2 DEF TieredAmount
<1>3. CASE component.tiers # <<>>
  <2>1. PICK tiers, T : tiers = component.tiers /\ T = [price : Nat, upTo : Nat \cup {Unbounded}]
    OBVIOUS
  <2>2. tiers \in Seq(T) /\ tiers # <<>>
    BY <1>3, <2>1 DEF IsComponent
  <2>3. Len(tiers) \in Nat \ {0} /\ DOMAIN tiers = 1 .. Len(tiers)
    BY <2>2
  <2>4. \A i \in DOMAIN tiers : IF i = Len(tiers) THEN tiers[i].upTo = Unbounded
                                ELSE tiers[i].upTo \in Nat /\ tiers[i].upTo > (IF i = 1 THEN 0 ELSE tiers[i - 1].upTo)
    BY <1>3, <2>1 DEF AreLimits
  <2>5. CASE component.basis = "quantity"
    <3> DEFINE wrong(i) == IF tiers[i].upTo = Unbounded THEN i # Len(tiers)
                           ELSE tiers[i].upTo <= (IF i = 1 THEN 0 ELSE tiers[i - 1].upTo)
    <3>1. TieredAmount(component, q, n) = QuantityAmount(tiers, q)
      BY <1>3, <2>1, <2>5 DEF TieredAmount
    <3>2. ASSUME NEW i \in DOMAIN tiers PROVE ~ wrong(i)
      <4>1. CASE i = Len(tiers)
        BY <2>4, <4>1
      <4>2. CASE i # Len(tiers) /\ i = 1
        <5>1. tiers[i].upTo \in Nat /\ tiers[i].upTo > 0
          BY <2>4, <4>2
        <5>2. QED
          BY <4>2, <5>1, MeteringAssumption
      <4>3. CASE i # Len(tiers) /\ i # 1
        <5>1. i - 1 \in DOMAIN tiers /\ i - 1 # Len(tiers)
          BY <2>3, <4>3
        <5>2. tiers[i].upTo \in Nat /\ tiers[i - 1].upTo \in Nat /\ tiers[i].upTo > tiers[i - 1].upTo
          BY <2>4, <4>3, <5>1
        <5>3. QED
          BY <4>3, <5>2, MeteringAssumption
      <4>4. QED
        BY <4>1, <4>2, <4>3
    <3> DEFINE reached == {i \in DOMAIN tiers : \A j \in 1 .. i - 1 : tiers[j].upTo # Unbounded /\ tiers[j].upTo < q}
    <3>3. (~ \E i \in reached : wrong(i)) => \E x : QuantityAmount(tiers, q) = Amounting(x)
      BY Zenon DEF QuantityAmount
    <3> HIDE DEF wrong
    <3>4. QED
      BY <1>1, <3>1, <3>2, <3>3
  <2>6. CASE component.basis # "quantity"
    <3>1. PICK at : at = Quantity(n, component.basis)
      OBVIOUS
    <3>2. TieredAmount(component, q, n) = ContextAmount(tiers, q, at)
      BY <1>3, <2>1, <2>6, <3>1 DEF TieredAmount
    <3>3. Len(tiers) \in Reaching(tiers, at)
      BY <2>3, <2>4 DEF Reaching
    <3>4. QED
      BY <1>1, <3>2, <3>3 DEF ContextAmount
  <2>7. QED
    BY <2>5, <2>6
<1>4. QED
  BY <1>2, <1>3

\* Each of the units that a component is charged for has the price that is listed.
LEMMA UnitsAsListed ==
    ASSUME NEW record, IsRecord(record), NEW t \in ListedTiers, NEW component, AsRecorded(component, record, t),
           NEW q \in Nat, NEW u, \A w : Context(u, w, "input_tokens") = q,
           NEW interval, interval = AboveOf(record, "input_cost_per_token").interval, NEW k \in 1 .. q
    PROVE  UnitPrice(component, k, u, u) = ListedPrice(record, t, IF interval THEN k ELSE q)
<1> DEFINE field == "input_cost_per_token"
<1>1. k \in Nat /\ (IF interval THEN k ELSE q) \in Nat
  OBVIOUS
<1>2. CASE t \notin TiersOf(record, field)
  <2>1. component.tiers = <<>> /\ \A at \in Nat : component.price = ListedPrice(record, t, at)
    BY <1>2 DEF AsRecorded
  <2>2. UnitPrice(component, k, u, u) = component.price
    BY <2>1 DEF UnitPrice
  <2>3. QED
    BY <1>1, <2>1, <2>2
<1>3. CASE t \in TiersOf(record, field)
  <2>1. /\ component.tiers # <<>> /\ component.basis = Basis(record, field, t)
        /\ \A at \in Nat : PriceAt(component.tiers, at) = ListedPrice(record, t, at)
    BY <1>3 DEF AsRecorded
  <2>2. Basis(record, field, t) =
           IF interval /\ \E s \in AboveOf(record, field).steps : s.tier = t THEN "quantity" ELSE "input_tokens"
    BY DEF Basis
  <2>3. interval => \E s \in AboveOf(record, field).steps : s.tier = t
    <3>1. interval => RangesOf(record, field) = <<>>
      BY RecordCanBeRead, FieldsListed
    <3>2. t \in {s.tier : s \in AboveOf(record, field).steps}
                 \cup (IF RangesOf(record, field) = <<>> THEN {} ELSE {NoTier})
      BY <1>3, ThresholdsListed
    <3>3. QED
      BY <3>1, <3>2
  <2>4. UnitPrice(component, k, u, u) = PriceAt(component.tiers, IF interval THEN k ELSE q)
    BY <2>1, <2>2, <2>3 DEF UnitPrice
  <2>5. QED
    BY <1>1, <2>1, <2>4
<1>4. QED
  BY <1>2, <1>3

\* A tier with steps has a component.
LEMMA StepsHaveComponents ==
    ASSUME NEW record, IsRecord(record), NEW price, price = NormalizeRecord(record),
           Input \in DOMAIN price.components, NEW s \in AboveOf(record, "input_cost_per_token").steps,
           s.tier \in ListedTiers
    PROVE  <<"input_tokens", s.tier>> \in DOMAIN price.components
<1> DEFINE field == "input_cost_per_token"
<1>1. price.components = CollectComponents(record)
  BY RecordComponents
<1>2. s.tier \in TiersOf(record, field)
  BY ThresholdsListed
<1>3. QED
  BY <1>1, <1>2, CollectedAsRecorded

\* The tier of the component that charges a service tier.
ChargedTier(price, service) == IF <<"input_tokens", service>> \in DOMAIN price.components THEN service ELSE NoTier

\* What input tokens cost by a record is what it lists for each of them.
LEMMA TokensAsListed ==
    ASSUME NEW record, IsRecord(record), NEW price, price = NormalizeRecord(record),
           Input \in DOMAIN price.components, NEW cs, cs = ComponentsFor(price),
           NEW service \in ListedTiers, NEW q \in Nat,
           NEW charge, charge = MeteredCharge(cs, Only("input_tokens", q), 0, service),
           NEW f, \A k \in 1 .. q :
                     f[k] = ListedPrice(record, ChargedTier(price, service),
                                        IF AboveOf(record, "input_cost_per_token").interval THEN k ELSE q)
    PROVE  ~ charge.error /\ charge.amount = SumFunctionOnSet(f, 1 .. q)
<1> DEFINE c     == "input_tokens"
           field == "input_cost_per_token"
<1>1. IsFiniteSet(1 .. q)
  BY FS_Interval
<1>2. PICK key, tier, interval :
         /\ key = <<"input_tokens", service>> /\ tier = IF key \in DOMAIN price.components THEN service ELSE NoTier
         /\ interval = AboveOf(record, "input_cost_per_token").interval
         /\ \A k \in 1 .. q : f[k] = ListedPrice(record, tier, IF interval THEN k ELSE q)
  BY DEF ChargedTier
<1> USE <1>2
<1>3. PICK u, v, component : /\ u = Only(c, q) /\ v = Normalize(u)
                             /\ component = Found(cs, c, service)
  OBVIOUS
<1>4. /\ \A w : Context(u, w, c) = q
      /\ Quantity(v, c) = q /\ EffectiveQuantity(v, c) = q
      /\ {d \in DOMAIN v : EffectiveQuantity(v, d) > 0} = IF q = 0 THEN {} ELSE {c}
  BY <1>3, InputHasOneLine
<1>5. /\ price.components = CollectComponents(record)
      /\ \A t : LET k == <<"input_tokens", t>>
                IN  (k \in DOMAIN cs <=> k \in DOMAIN price.components)
                    /\ (k \in DOMAIN price.components => cs[k] = price.components[k])
      /\ \A t : <<"requests", t>> \notin DOMAIN cs
  BY RecordComponents
<1>6. \A t \in ListedTiers :
         /\ t \in TiersOf(record, field) => <<"input_tokens", t>> \in DOMAIN price.components
         /\ <<"input_tokens", t>> \in DOMAIN price.components =>
               AsRecorded(price.components[<<"input_tokens", t>>], record, t)
  BY <1>5, CollectedAsRecorded
<1>7. Input \in DOMAIN cs /\ cs[Input] = price.components[Input] /\ NoTier \in ListedTiers
  BY <1>5 DEF Input, ListedTiers
<1>8. HasPrice(cs, c, service) /\ component = IF key \in DOMAIN cs THEN cs[key] ELSE cs[Input]
  BY <1>3, <1>7, InputIsFound
<1>9. tier \in ListedTiers /\ AsRecorded(component, record, tier)
  <2>1. CASE key \in DOMAIN price.components
    BY <1>5, <1>6, <1>8, <2>1
  <2>2. CASE key \notin DOMAIN price.components
    <3>1. tier = NoTier /\ component = price.components[Input]
      BY <1>5, <1>7, <1>8, <2>2
    <3>2. QED
      BY <1>6, <1>7, <3>1 DEF Input
  <2>3. QED
    BY <2>1, <2>2
<1>10. IsComponent(component) /\ (component.tiers # <<>> => AreLimits(component.tiers))
  BY <1>9 DEF AsRecorded
<1>11. PICK line : line = Lines(cs, v, service)
  OBVIOUS
<1>12. charge = AddUp(line, 0)
  <2>1. ~ HasComponent(cs, "requests", service)
    BY Zenon, <1>5 DEF HasComponent
  <2>2. WithRequest(cs, u, service) = u
    BY <2>1 DEF WithRequest
  <2>3. QED
    BY <1>3, <1>11, <2>2 DEF MeteredCharge
<1>13. /\ DOMAIN line = IF q = 0 THEN {} ELSE {c}
       /\ q # 0 => line[c].charge = TieredAmount(component, q, v)
  BY <1>3, <1>4, <1>8, <1>11 DEF Lines
<1>14. q # 0 => ~ line[c].charge.error
  BY <1>10, <1>13, LimitsReach
<1>15. q # 0 => line[c].charge.amount = SumFunctionOnSet(f, 1 .. q)
  <2>1. SUFFICES ASSUME q # 0 PROVE line[c].charge.amount = SumFunctionOnSet(f, 1 .. q)
    OBVIOUS
  <2>2. component.tiers # <<>> /\ component.basis # "quantity" =>
           Context(u, u, component.basis) = Quantity(v, component.basis)
    <3>1. component.tiers # <<>> /\ component.basis # "quantity" => component.basis = c
      BY <1>9 DEF AsRecorded, Basis
    <3>2. QED
      BY <1>4, <3>1
  <2>3. TieredAmount(component, q, v).amount =
           SumFunctionOnSet([k \in 1 .. q |-> UnitPrice(component, k, u, u)], 1 .. q)
    <3>1. q \in Nat \ {0} /\ ~ TieredAmount(component, q, v).error
      BY <1>13, <1>14, <2>1
    <3>2. IsComponent(component)
      BY <1>10
    <3>3. QED
      BY <2>2, <3>1, <3>2, UnitsAddUp
  <2>4. \A k \in 1 .. q : UnitPrice(component, k, u, u) = ListedPrice(record, tier, IF interval THEN k ELSE q)
    BY <1>4, <1>9, UnitsAsListed
  <2>5. PICK g : g = [k \in 1 .. q |-> UnitPrice(component, k, u, u)]
    OBVIOUS
  <2>6. /\ \A k \in 1 .. q : g[k] = f[k] /\ g[k] \in Int
    <3>1. \A k \in 1 .. q : g[k] = f[k] /\ g[k] = UnitPrice(component, k, u, u)
      BY <2>4, <2>5
    <3>2. \A k : UnitPrice(component, k, u, u) \in Nat
      BY <1>10, UnitHasPrice
    <3>3. QED
      BY <3>1, <3>2
  <2>8. SumFunctionOnSet(g, 1 .. q) = SumFunctionOnSet(f, 1 .. q)
    BY <1>1, <2>6, SumOfSame
  <2>9. QED
    BY <1>13, <2>1, <2>3, <2>5, <2>8
<1>16. SumFunctionOnSet(f, 1 .. q) \in Nat
  <2>1. \A k \in 1 .. q : f[k] \in Nat
    <3>1. \A k \in 1 .. q : UnitPrice(component, k, u, u) = f[k]
      BY <1>4, <1>9, UnitsAsListed
    <3>2. \A k : UnitPrice(component, k, u, u) \in Nat
      BY <1>10, UnitHasPrice
    <3>3. QED
      BY <3>1, <3>2
  <2>3. QED
    BY <1>1, <2>1, SumOfNaturals
<1>17. PICK a : a = SumFunctionOnSet(f, 1 .. q) /\ a \in Nat
  BY <1>16
<1>18. a \in Int /\ a + 0 = a
  BY <1>17
<1>19. PICK g : g = [d \in DOMAIN line |-> line[d].charge.amount]
  OBVIOUS
<1>20. SumFunctionOnSet(g, DOMAIN line) = a
  <2>1. CASE q = 0
    <3>1. DOMAIN line = {} /\ 1 .. q = {}
      BY <1>13, <2>1
    <3>2. QED
      BY <1>17, <3>1, SumOfNothing
  <2>2. CASE q # 0
    <3>1. DOMAIN line = {c} /\ g[c] = a /\ {c} \ {c} = {} /\ IsFiniteSet({c})
      BY <1>13, <1>15, <1>17, <1>19, <2>2, FS_Singleton
    <3>2. \A d \in {c} : g[d] \in Int
      <4>1. g[c] = a
        BY <3>1
      <4>2. QED
        BY <1>18, <4>1
    <3>3. SumFunctionOnSet(g, {c}) = g[c] + SumFunctionOnSet(g, {c} \ {c})
      BY <3>1, <3>2, SumTakesOut
    <3>4. SumFunctionOnSet(g, {c} \ {c}) = 0
      BY <3>1, SumOfNothing
    <3>5. SumFunctionOnSet(g, {c}) = a + 0
      BY <3>1, <3>3, <3>4
    <3>6. QED
      BY <1>18, <3>1, <3>5
  <2>3. QED
    BY <2>1, <2>2
<1>21. \A d \in DOMAIN line : ~ line[d].charge.error
  BY <1>13, <1>14
<1>22. ~ charge.error /\ charge.amount = Max({0, SumFunctionOnSet(g, DOMAIN line)})
  BY <1>12, <1>19, <1>21 DEF AddUp
<1>23. Max({0, a}) = a
  <2>1. 0 \in Int /\ a \in Int /\ 0 <= a
    BY <1>17
  <2>2. QED
    BY <2>1, OfTwo
<1>24. QED
  BY <1>17, <1>20, <1>22, <1>23

-----------------------------------------------------------------------------
(* Listings: the official versions                                         *)

\* The price that is found is that of a record of the listing under one of the keys.
LEMMA PriceIsOfRecord ==
    ASSUME NEW source \in Listings, NEW price, price = FindPrice(source, ListingKeys), price # NoPrice,
           NEW keys, keys = Range(ListingKeys) \cap DOMAIN source
    PROVE  /\ \E k \in keys : NormalizeRecord(source[k]) = price
           /\ \A k \in keys : IsRecord(source[k])
<1> DEFINE fits == {i \in DOMAIN ListingKeys :
                       LET k == ListingKeys[i]
                       IN  k \in DOMAIN source /\ source[k].ours /\ NormalizeRecord(source[k]) # NoPrice}
<1>1. price = IF fits = {} THEN NoPrice ELSE NormalizeRecord(source[ListingKeys[Min(fits)]])
  BY DEF FindPrice
<1>2. DOMAIN ListingKeys \in SUBSET Nat
  <2>1. PICK T : ListingKeys \in Seq(T)
    BY CatalogAssumption
  <2>2. QED
    BY <2>1, LenProperties
<1>3. fits # {} => Min(fits) \in fits
  <2>1. fits \in SUBSET Nat
    BY <1>2
  <2> HIDE DEF fits
  <2>2. QED
    BY <2>1, LeastOfNaturals
<1>4. PICK k \in keys : price = NormalizeRecord(source[k])
  <2>1. Min(fits) \in DOMAIN ListingKeys /\ ListingKeys[Min(fits)] \in DOMAIN source
    BY <1>1, <1>3
  <2>2. ListingKeys[Min(fits)] \in keys
    BY <2>1 DEF Range
  <2>3. QED
    BY <1>1, <2>2
<1>5. \A j \in keys : IsRecord(source[j])
  BY CatalogAssumption
<1>6. QED
  BY <1>4, <1>5

\* The price of a version, and of one that is being written, is what was read from its listing.
PricesAreRead ==
    /\ \A i \in DOMAIN official : official[i].price = FindPrice(official[i].listing, ListingKeys)
    /\ \A p \in Syncs : sync[p].pc \in {"close", "insert", "commit"} =>
          sync[p].price = FindPrice(sync[p].listing, ListingKeys)

\* A synchronization that moves to g, and changes no version.
LEMMA ReadSyncMoves ==
    ASSUME CatalogTypes, PricesAreRead, NEW p \in Syncs, NEW g, sync' = [sync EXCEPT ![p] = g], official' = official,
           g.pc \in {"close", "insert", "commit"} => g.price = FindPrice(g.listing, ListingKeys)
    PROVE  PricesAreRead'
<1>1. sync'[p] = g /\ \A x \in Syncs \ {p} : sync'[x] = sync[x]
  BY DEF CatalogTypes
<1>2. QED
  BY <1>1 DEF PricesAreRead

\* A synchronization writes the price of the listing that it has fetched.
LEMMA SyncStepReads ==
    ASSUME CatalogTypes, PricesAreRead, NEW p \in Syncs, SyncStep(p)
    PROVE  PricesAreRead'
<1>1. sync[p] \in SyncRow /\ IdleSync.pc = "idle"
  BY DEF CatalogTypes, IdleSync
<1>2. sync[p].pc \in {"close", "insert", "commit"} => sync[p].price = FindPrice(sync[p].listing, ListingKeys)
  BY DEF PricesAreRead
<1>3. ASSUME sync' = [sync EXCEPT ![p] = IdleSync], official' = official PROVE PricesAreRead'
  BY <1>1, <1>3, ReadSyncMoves
<1>4. CASE Fetch(p)
  <2>1. PICK g : g = [pc |-> "fetched", listing |-> listing]
    OBVIOUS
  <2>2. g.pc = "fetched" /\ sync' = [sync EXCEPT ![p] = g] /\ official' = official
    BY <1>4, <2>1 DEF Fetch
  <2>3. QED
    BY <2>2, ReadSyncMoves
<1>5. CASE Begin(p)
  <2>1. PICK g : g = [pc |-> "begun", listing |-> sync[p].listing, at |-> clock]
    OBVIOUS
  <2>2. g.pc = "begun" /\ sync' = [sync EXCEPT ![p] = g] /\ official' = official
    BY <1>5, <2>1 DEF Begin
  <2>3. QED
    BY <2>2, ReadSyncMoves
<1>6. CASE FindCurrent(p)
  <2> DEFINE price == FindPrice(sync[p].listing, ListingKeys)
             open  == {i \in DOMAIN official : official[i].to = Open}
             row   == IF open = {} THEN 0 ELSE CHOOSE i \in open : TRUE
  <2>1. PICK g : g = [pc |-> IF row = 0 THEN "insert" ELSE "close", listing |-> sync[p].listing,
                      at |-> sync[p].at, price |-> price, row |-> row]
    OBVIOUS
  <2>2. g.price = FindPrice(g.listing, ListingKeys)
    BY <2>1
  <2>3. official' = official /\ (sync' = [sync EXCEPT ![p] = IdleSync] \/ sync' = [sync EXCEPT ![p] = g])
    BY <1>6, <2>1 DEF FindCurrent
  <2>4. QED
    BY <1>3, <2>2, <2>3, ReadSyncMoves
<1>7. ASSUME sync[p].pc \in {"close", "insert"}, NEW pc \in {"insert", "commit"},
             sync' = [sync EXCEPT ![p].pc = pc], official' = official
      PROVE  PricesAreRead'
  <2>1. PICK g : g = [sync[p] EXCEPT !.pc = pc]
    OBVIOUS
  <2>2. g.price = sync[p].price /\ g.listing = sync[p].listing
    BY <1>1, <1>7, <2>1 DEF SyncRow, IdleSync
  <2>3. sync' = [sync EXCEPT ![p] = g]
    BY <1>7, <2>1
  <2>4. QED
    BY <1>2, <1>7, <2>2, <2>3, ReadSyncMoves
<1>8. CASE CloseCurrent(p)
  BY <1>7, <1>8 DEF CloseCurrent, SyncAt
<1>9. CASE InsertVersion(p)
  <2>1. sync[p].pc = "insert" /\ official' = official
    BY <1>9 DEF InsertVersion, SyncAt
  <2>2. \/ sync' = [sync EXCEPT ![p] = IdleSync]
        \/ sync' = [sync EXCEPT ![p].pc = "commit"]
    BY <1>9 DEF InsertVersion
  <2>3. QED
    BY <1>3, <1>7, <2>1, <2>2
<1>10. CASE CommitSync(p)
  <2>1. PICK n \in Nat : n = Len(official) /\ DOMAIN official = 1 .. n
    BY DEF CatalogTypes
  <2>2. PICK f, new : /\ official' = Append(f, new)
                      /\ f = [i \in DOMAIN official |->
                                 IF i = sync[p].row THEN [official[i] EXCEPT !.to = sync[p].at] ELSE official[i]]
                      /\ new = [from |-> sync[p].at, to |-> Open, price |-> sync[p].price,
                                listing |-> sync[p].listing]
                      /\ sync' = [sync EXCEPT ![p] = IdleSync] /\ sync[p].pc = "commit"
    BY <1>10 DEF CommitSync, SyncAt
  <2>3. new.price = FindPrice(new.listing, ListingKeys)
    BY <1>2, <2>2
  <2>4. ASSUME NEW i \in DOMAIN official PROVE f[i].price = official[i].price /\ f[i].listing = official[i].listing
    <3>1. official[i] \in OfficialVersion
      BY DEF CatalogTypes
    <3>2. QED
      BY <2>2, <3>1 DEF OfficialVersion
  <2>5. PICK T : T = {f[i] : i \in DOMAIN official} \cup {new}
    OBVIOUS
  <2>6. f \in Seq(T) /\ Len(f) = n /\ new \in T
    <3>1. f \in [1 .. n -> T]
      BY <2>1, <2>2, <2>5
    <3>2. new \in T
      BY <2>5
    <3>3. QED
      BY <3>1, <3>2
  <2>7. /\ DOMAIN official' = 1 .. n + 1 /\ official'[n + 1] = new
        /\ \A i \in 1 .. n : official'[i] = f[i]
    BY <2>1, <2>2, <2>6, AppendProperties
  <2>8. \A i \in DOMAIN official' : official'[i].price = FindPrice(official'[i].listing, ListingKeys)
    <3>1. \A i \in 1 .. n : official'[i].price = FindPrice(official'[i].listing, ListingKeys)
      BY <2>1, <2>4, <2>7 DEF PricesAreRead
    <3>2. \A i \in 1 .. n + 1 : i \in 1 .. n \/ i = n + 1
      BY <2>1
    <3>3. QED
      BY <2>3, <2>7, <3>1, <3>2
  <2>9. \A q \in Syncs : sync'[q].pc \in {"close", "insert", "commit"} =>
           sync'[q].price = FindPrice(sync'[q].listing, ListingKeys)
    <3>1. \A q \in Syncs : sync'[q] = IF q = p THEN IdleSync ELSE sync[q]
      BY <2>2 DEF CatalogTypes
    <3>2. QED
      BY <1>1, <3>1 DEF PricesAreRead
  <2>10. QED
    BY <2>8, <2>9 DEF PricesAreRead
<1>11. CASE AbortSync(p)
  BY <1>3, <1>11 DEF AbortSync
<1>12. QED
  BY <1>4, <1>5, <1>6, <1>8, <1>9, <1>10, <1>11 DEF SyncStep

\* What is read from the listing stays what it was, also while synchronizations interleave.
LEMMA PricesStayRead == CatalogSpec => []PricesAreRead
<1>1. CatalogInit => PricesAreRead
  <2>1. SUFFICES ASSUME CatalogInit PROVE PricesAreRead
    OBVIOUS
  <2>2. official = <<>> /\ DOMAIN <<>> = {} /\ \A p \in Syncs : sync[p].pc = "idle"
    BY <2>1 DEF CatalogInit, IdleSync
  <2>3. QED
    BY <2>2 DEF PricesAreRead
<1>2. CatalogInv /\ PricesAreRead /\ [CatalogNext]_catalogVars => PricesAreRead'
  <2>1. SUFFICES ASSUME CatalogInv, PricesAreRead, [CatalogNext]_catalogVars PROVE PricesAreRead'
    OBVIOUS
  <2>2. CatalogTypes
    BY <2>1 DEF CatalogInv
  <2>3. ASSUME UNCHANGED <<official, sync>> PROVE PricesAreRead'
    BY <2>1, <2>3 DEF PricesAreRead
  <2>4. ASSUME NEW s \in Range(Scopes), NEW c \in Currencies, NEW t \in 0 .. LastTime, PublishPrice(s, c, t)
        PROVE  PricesAreRead'
    BY <2>3, <2>4 DEF PublishPrice
  <2>5. ASSUME NEW p \in Syncs, SyncStep(p) PROVE PricesAreRead'
    BY <2>1, <2>2, <2>5, SyncStepReads
  <2>6. CASE Relist
    BY <2>3, <2>6 DEF Relist
  <2>7. CASE TickCatalog
    BY <2>3, <2>7 DEF TickCatalog
  <2>8. CASE UNCHANGED catalogVars
    BY <2>3, <2>8 DEF catalogVars
  <2>9. QED
    BY <2>1, <2>4, <2>5, <2>6, <2>7, <2>8 DEF CatalogNext
<1>3. QED
  BY <1>1, <1>2, CatalogInvariant, PTL DEF CatalogSpec

\* An official version that was read from its listing charges input as it is listed.
LEMMA VersionAsListed ==
    ASSUME NEW row, row.listing \in Listings, row.price = FindPrice(row.listing, ListingKeys),
           Input \in DOMAIN row.price.components, NEW service \in ListedTiers, NEW n \in Nat
    PROVE  AsListed(row, service, n)
<1> DEFINE keys   == Range(ListingKeys) \cap DOMAIN row.listing
           record == CHOOSE r \in {row.listing[k] : k \in keys} : NormalizeRecord(r) = row.price
           steps  == AboveOf(record, "input_cost_per_token")
           tier   == IF \/ \E s \in steps.steps : s.tier = service
                        \/ <<"input_tokens", service>> \in DOMAIN row.price.components
                     THEN service ELSE NoTier
           by(k)  == IF steps.interval THEN k ELSE n
           charge == MeteredCharge(ComponentsFor(row.price), Only("input_tokens", n), 0, service)
           f      == [k \in 1 .. n |-> ListedPrice(record, tier, by(k))]
<1>1. AsListed(row, service, n) = (~ charge.error /\ charge.amount = SumFunctionOnSet(f, 1 .. n))
  BY Zenon DEF AsListed, NoTier
<1>2. row.price # NoPrice
  <2>1. NoPrice.components = <<>>
    BY DEF NoPrice
  <2>2. DOMAIN <<>> = {}
    OBVIOUS
  <2>3. QED
    BY <2>1, <2>2
<1>3. IsRecord(record) /\ row.price = NormalizeRecord(record)
  <2>1. /\ \E k \in keys : NormalizeRecord(row.listing[k]) = row.price
        /\ \A k \in keys : IsRecord(row.listing[k])
    BY <1>2, PriceIsOfRecord
  <2>2. record \in {row.listing[k] : k \in keys} /\ NormalizeRecord(record) = row.price
    BY <2>1
  <2> HIDE DEF record
  <2>3. QED
    BY <2>1, <2>2
<1>4. PICK r, price, cs : r = record /\ price = row.price /\ cs = ComponentsFor(price)
  OBVIOUS
<1>5. PICK c, g : c = charge /\ g = f
  OBVIOUS
<1>6. tier = ChargedTier(price, service)
  <2>1. (\E s \in steps.steps : s.tier = service) => <<"input_tokens", service>> \in DOMAIN row.price.components
    <3> HIDE DEF record
    <3>1. QED
      BY <1>3, StepsHaveComponents
  <2>2. QED
    BY <1>4, <2>1 DEF ChargedTier
<1>7. c = MeteredCharge(cs, Only("input_tokens", n), 0, service)
  BY <1>4, <1>5
<1>8. \A k \in 1 .. n : g[k] = ListedPrice(r, ChargedTier(price, service),
                                        IF AboveOf(r, "input_cost_per_token").interval THEN k ELSE n)
  <2>1. \A k \in 1 .. n : g[k] = ListedPrice(record, tier, IF steps.interval THEN k ELSE n)
    BY <1>5
  <2> HIDE DEF tier, record
  <2>2. QED
    BY <1>4, <1>6, <2>1
<1>9. IsRecord(r) /\ price = NormalizeRecord(r) /\ Input \in DOMAIN price.components
  BY <1>3, <1>4
<1> HIDE DEF charge, f, tier, record, steps, keys, by
<1>10. ~ c.error /\ c.amount = SumFunctionOnSet(g, 1 .. n)
  BY <1>4, <1>7, <1>8, <1>9, TokensAsListed
<1>11. QED
  BY <1>1, <1>5, <1>10

\* Bills add up, and the tokens of a call with an official price cost what its
\* listing says of each of them (metering.go, sync.go).
THEOREM AmountsAreAlwaysRight == MeteringSpec /\ CatalogSpec => []AmountsAreRight
<1>1. CatalogInv /\ PricesAreRead /\ ChargesAddUp => AmountsAreRight
  <2>1. SUFFICES ASSUME CatalogInv, PricesAreRead, ChargesAddUp PROVE AmountsAreRight
    OBVIOUS
  <2>2. ASSUME official # <<>>, NEW service \in ListedTiers, NEW n \in 0 .. MaxUnits,
               Input \in DOMAIN Last(official).price.components
        PROVE  AsListed(Last(official), service, n)
    <3>1. /\ Len(official) \in DOMAIN official /\ official[Len(official)] \in OfficialVersion
          /\ Last(official) = official[Len(official)]
      BY <2>1, <2>2 DEF CatalogInv, CatalogTypes, Last
    <3>2. PICK row : row = Last(official)
      OBVIOUS
    <3>3. row.listing \in Listings /\ row.price = FindPrice(row.listing, ListingKeys)
      BY <2>1, <3>1, <3>2 DEF OfficialVersion, PricesAreRead
    <3>4. n \in Nat
      OBVIOUS
    <3>5. QED
      BY <2>2, <3>2, <3>3, <3>4, VersionAsListed
  <2>3. QED
    BY Zenon, <2>1, <2>2 DEF AmountsAreRight, ListedTiers, Input, NoTier
<1>2. QED
  BY <1>1, ChargesAlwaysAddUp, CatalogInvariant, PricesStayRead, PTL
=============================================================================
