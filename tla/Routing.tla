------------------------------ MODULE Routing ------------------------------
(***************************************************************************)
(* Which channel serves a call: internal/relay/sql_router.go, the selection *)
(* and failure rules of internal/relay/types.go, one routing group of       *)
(* internal/groups/sql.go and the status report of model_status.go.         *)
(*                                                                         *)
(* A call reads its candidates once and works through that list, while      *)
(* other calls, probes and administrators change the health and the         *)
(* configuration of the channels with statements of their own.              *)
(*                                                                         *)
(* Abstractions: times are what is left of them; a count of failures stops  *)
(* at the threshold; secrets, addresses and account snapshots are left out; *)
(* every model stays active; one group stands for all.  A channel lists      *)
(* names of models; each means the row of its provider in models, so that    *)
(* route[c, m] is the row of channel_models for that row of models.          *)
(***************************************************************************)
EXTENDS Naturals, FiniteSets

CONSTANTS
    Channels,
    Models,             \* names of models; each provider has rows of its own for them
    Providers,
    Calls,              \* calls and probes in flight
    Settings,           \* what an administrator may enter for a channel
    FailureThreshold,   \* channelFailureThreshold, probeFailureThreshold
    CircuitDuration,    \* channelCircuitDuration
    None

ASSUME RoutingAssumption ==
    /\ IsFiniteSet(Channels) /\ IsFiniteSet(Calls) /\ Calls # {} /\ None \notin Calls
    /\ Settings \subseteq [status : {"active", "disabled"}, provider : Providers,
                           priority : Nat, weight : Nat]
    /\ FailureThreshold \in Nat \ {0} /\ CircuitDuration \in Nat \ {0}

VARIABLES
    channel,   \* channels: status, provider, priority, weight, consecutive_failures, auto_disabled_until
    route,     \* channel_models of a channel and a name
    group,     \* routing_groups: status, channels, and whether a live token is bound to it
    resetting, \* channels whose SetChannelStatus has yet to reset the routes
    call,      \* calls and probes
    wide,      \* channel-wide failures since the last recorded success, see CircuitsProtect
    late       \* attempts on a channel while its circuit is open

routingVars == <<channel, route, group, resetting, call, wide, late>>

NoChannel == [status |-> "none", provider |-> None, priority |-> 0, weight |-> 0, failures |-> 0,
              openFor |-> 0]
NoRoute   == [enabled |-> FALSE, exists |-> FALSE, failures |-> 0, openFor |-> 0, health |-> "unknown",
              probeFailures |-> 0, probeHealth |-> "unknown"]
IdleCall  == [pc |-> "idle", probe |-> FALSE, model |-> None, left |-> {}, channel |-> None, wide |-> FALSE]

RoutingInit ==
    /\ channel = [c \in Channels |-> NoChannel]
    /\ route = [cm \in Channels \X Models |-> NoRoute]
    /\ group = [status |-> "active", channels |-> {}, bound |-> FALSE]
    /\ resetting = {}
    /\ call = [k \in Calls |-> IdleCall]
    /\ wide = [c \in Channels |-> 0]
    /\ late = [c \in Channels |-> 0]

Exists(c) == channel[c].status \in {"active", "disabled"}
OneMore(n) == IF n < FailureThreshold THEN n + 1 ELSE n

-----------------------------------------------------------------------------
(* Selection                                                               *)

\* Mutant: a channel that is switched off is still picked.
CandidatesSwitchedOff(m, grouped) ==
    {c \in Channels : /\ route[c, m].enabled
                      /\ channel[c].openFor = 0 /\ route[c, m].openFor = 0
                      /\ grouped => group.status = "active" /\ c \in group.channels}

\* selectCandidates: by name, whatever the provider
Candidates(m, grouped) ==
    {c \in Channels : /\ route[c, m].enabled /\ channel[c].status = "active"
                      /\ channel[c].openFor = 0 /\ route[c, m].openFor = 0
                      /\ grouped => group.status = "active" /\ c \in group.channels}

\* pickWeightedChannel: the highest priority of those not attempted, and there
\* the channels that have a weight, if any has one.
Pool(left) ==
    LET best == {x \in left : \A y \in left : y.priority <= x.priority}
        weighted == {x \in best : x.weight > 0}
    IN  IF weighted = {} THEN best ELSE weighted

StartCall(k, m, probe, grouped) ==
    /\ call[k].pc = "idle"
    /\ probe => grouped
    /\ Candidates(m, grouped) # {}
    /\ call' = [call EXCEPT ![k] = [IdleCall EXCEPT
            !.pc = "pick", !.probe = probe, !.model = m,
            !.left = {[id |-> c, priority |-> channel[c].priority, weight |-> channel[c].weight] :
                         c \in Candidates(m, grouped)}]]
    /\ UNCHANGED <<resetting, channel, route, group, wide, late>>

Attempt(k) ==
    /\ call[k].pc = "pick"
    /\ \E x \in Pool(call[k].left) :
          /\ call' = [call EXCEPT ![k].pc = "wait", ![k].channel = x.id, ![k].left = @ \ {x}]
          /\ late' = IF channel[x.id].openFor > 0 THEN [late EXCEPT ![x.id] = @ + 1] ELSE late
    /\ UNCHANGED <<resetting, channel, route, group, wide>>

\* retryableUpstreamError: other failures end the call and say nothing about the
\* channel.  A probe is told every failure.
Answer(k, answer) ==
    /\ call[k].pc = "wait"
    /\ LET c == call[k].channel
       IN  /\ call' = CASE answer = "refused" /\ ~ call[k].probe -> [call EXCEPT ![k] = IdleCall]
                        [] answer = "ok" -> [call EXCEPT ![k].pc = "ok"]
                        [] OTHER -> [call EXCEPT ![k].pc = "failed", ![k].wide = (answer = "wide")]
           /\ wide' = IF answer = "wide" /\ ~ call[k].probe
                      THEN [wide EXCEPT ![c] = OneMore(@)] ELSE wide
    /\ UNCHANGED <<resetting, channel, route, group, late>>

\* The next candidate, or the end of the call: nothing is left, output was
\* already sent or the client is gone.  A probe goes on after a success too.
Continue(k) ==
    \/ call' = [call EXCEPT ![k] = IdleCall]
    \/ call[k].left # {} /\ call' = [call EXCEPT ![k].pc = "pick"]

-----------------------------------------------------------------------------
(* Health                                                                  *)

PendingWide(c, except) ==
    Cardinality({k \in Calls \ {except} :
        call[k].pc \in {"failed", "failedWide"} /\ call[k].wide /\ ~ call[k].probe /\ call[k].channel = c})

\* The circuits that open and close take their late attempts with them.
LateAfter(c) == IF channel'[c].openFor = 0 THEN [late EXCEPT ![c] = 0] ELSE late

\* recordChannelSuccess: RecordChannelSuccess ...
RecordChannelSuccess(k) ==
    /\ call[k].pc = "ok" /\ ~ call[k].probe
    /\ LET c == call[k].channel
       IN  /\ channel' = IF Exists(c) THEN [channel EXCEPT ![c].failures = 0, ![c].openFor = 0] ELSE channel
           /\ wide' = IF Exists(c) THEN [wide EXCEPT ![c] = PendingWide(c, k)] ELSE wide
           /\ late' = LateAfter(c)
    /\ call' = [call EXCEPT ![k].pc = "okModel"]
    /\ UNCHANGED <<resetting, route, group>>

\* ... and RecordChannelModelSuccess.
RecordChannelModelSuccess(k) ==
    /\ call[k].pc = "okModel"
    /\ LET cm == <<call[k].channel, call[k].model>>
       IN  route' = IF ~ route[cm].exists THEN route
                    ELSE [route EXCEPT ![cm].failures = 0, ![cm].openFor = 0, ![cm].health = "normal"]
    /\ call' = [call EXCEPT ![k] = IdleCall]
    /\ UNCHANGED <<resetting, channel, group, wide, late>>

\* Mutant: a failure of one model counts for the whole channel.
FailureForAll(k) ==
    /\ call[k].pc = "failed" /\ ~ call[k].probe
    /\ LET cm == <<call[k].channel, call[k].model>>
           n  == OneMore(route[cm].failures)
       IN  route' = IF ~ route[cm].exists THEN route
                    ELSE [route EXCEPT ![cm].failures = n,
                             ![cm].openFor = IF n >= FailureThreshold THEN CircuitDuration ELSE @,
                             ![cm].health = IF n >= FailureThreshold THEN "unavailable" ELSE "degraded"]
    /\ call' = [call EXCEPT ![k].pc = "failedWide"]
    /\ UNCHANGED <<resetting, channel, group, wide, late>>

\* recordChannelFailure: RecordChannelModelFailure ...
RecordChannelModelFailure(k) ==
    /\ call[k].pc = "failed" /\ ~ call[k].probe
    /\ LET cm == <<call[k].channel, call[k].model>>
           n  == OneMore(route[cm].failures)
       IN  route' = IF ~ route[cm].exists THEN route
                    ELSE [route EXCEPT ![cm].failures = n,
                             ![cm].openFor = IF n >= FailureThreshold THEN CircuitDuration ELSE @,
                             ![cm].health = IF n >= FailureThreshold THEN "unavailable" ELSE "degraded"]
    /\ IF call[k].wide THEN call' = [call EXCEPT ![k].pc = "failedWide"] ELSE Continue(k)
    /\ UNCHANGED <<resetting, channel, group, wide, late>>

\* ... and, for credentials and connections, RecordChannelFailure.
RecordChannelFailure(k) ==
    /\ call[k].pc = "failedWide"
    /\ LET c == call[k].channel
           n == OneMore(channel[c].failures)
       IN  channel' = IF ~ Exists(c) THEN channel
                      ELSE [channel EXCEPT ![c].failures = n,
                               ![c].openFor = IF n >= FailureThreshold THEN CircuitDuration ELSE @]
    /\ Continue(k)
    /\ UNCHANGED <<resetting, route, group, wide, late>>

\* recordChannelProbeSuccess, recordChannelProbeFailure: no circuit is touched.
RecordProbe(k) ==
    /\ call[k].pc \in {"ok", "failed"} /\ call[k].probe
    /\ LET cm == <<call[k].channel, call[k].model>>
           n  == OneMore(route[cm].probeFailures)
       IN  route' = IF ~ route[cm].exists THEN route
                    ELSE IF call[k].pc = "ok"
                    THEN [route EXCEPT ![cm].probeFailures = 0, ![cm].probeHealth = "normal"]
                    ELSE [route EXCEPT ![cm].probeFailures = n,
                             ![cm].probeHealth = IF n >= FailureThreshold THEN "unavailable" ELSE "degraded"]
    /\ Continue(k)
    /\ UNCHANGED <<resetting, channel, group, wide, late>>

\* The server stops, or the client goes and takes the context of the call along.
Abandon(k) ==
    /\ call[k].pc # "idle"
    /\ call' = [call EXCEPT ![k] = IdleCall]
    /\ UNCHANGED <<resetting, channel, route, group, wide, late>>

TickCircuits ==
    /\ \/ \E c \in Channels : channel[c].openFor > 0
       \/ \E cm \in Channels \X Models : route[cm].openFor > 0
    /\ channel' = [c \in Channels |-> IF channel[c].openFor > 0
                                      THEN [channel[c] EXCEPT !.openFor = @ - 1] ELSE channel[c]]
    /\ route' = [cm \in Channels \X Models |-> IF route[cm].openFor > 0
                                      THEN [route[cm] EXCEPT !.openFor = @ - 1] ELSE route[cm]]
    /\ late' = [c \in Channels |-> IF channel'[c].openFor = 0 THEN 0 ELSE late[c]]
    /\ UNCHANGED <<resetting, group, call, wide>>

-----------------------------------------------------------------------------
(* Administration                                                          *)

\* replaceChannelModels: rows that know nothing of the past, switched on or off.
Rows(c, listed, on) ==
    [cm \in Channels \X Models |->
        IF cm[1] # c THEN route[cm]
        ELSE [NoRoute EXCEPT !.exists = cm[2] \in listed, !.enabled = cm[2] \in on]]

\* The row of a channel with settings x
Row(x, failures, openFor) ==
    [status |-> x.status, provider |-> x.provider, priority |-> x.priority, weight |-> x.weight,
     failures |-> failures, openFor |-> openFor]

CreateChannel(c, x, listed, on) ==
    /\ channel[c].status = "none"
    /\ channel' = [channel EXCEPT ![c] = Row(x, 0, 0)]
    /\ route' = Rows(c, listed, on)
    /\ UNCHANGED <<resetting, group, call, wide, late>>

\* A channel that is made or kept active starts with a clean sheet.
UpdateChannel(c, x, listed, on) ==
    /\ Exists(c)
    /\ channel' = [channel EXCEPT ![c] =
                      IF x.status = "active" THEN Row(x, 0, 0)
                      ELSE Row(x, channel[c].failures, channel[c].openFor)]
    /\ route' = Rows(c, listed, on)
    /\ wide' = IF x.status = "active" THEN [wide EXCEPT ![c] = PendingWide(c, None)] ELSE wide
    /\ late' = LateAfter(c)
    /\ UNCHANGED <<resetting, group, call>>

\* The first statement of SetChannelStatus ...
SetChannelStatus(c, status) ==
    /\ Exists(c)
    /\ channel' = [channel EXCEPT ![c].status = status,
                        ![c].failures = IF status = "active" THEN 0 ELSE @,
                        ![c].openFor  = IF status = "active" THEN 0 ELSE @]
    /\ wide' = IF status = "active" THEN [wide EXCEPT ![c] = PendingWide(c, None)] ELSE wide
    /\ late' = LateAfter(c)
    /\ resetting' = IF status = "active" THEN resetting \cup {c} ELSE resetting
    /\ UNCHANGED <<route, group, call>>

\* ... and the second one, at any later time or never: no transaction holds them.
ResetRoutes(c) ==
    /\ c \in resetting
    /\ resetting' = resetting \ {c}
    /\ route' = [cm \in Channels \X Models |->
                    IF cm[1] = c /\ route[cm].exists
                    THEN [NoRoute EXCEPT !.exists = TRUE, !.enabled = route[cm].enabled] ELSE route[cm]]
    /\ UNCHANGED <<channel, group, call, wide, late>>

\* The rows of its models and of its groups stay.
DeleteChannel(c) ==
    /\ Exists(c)
    /\ channel' = [channel EXCEPT ![c].status = "deleted"]
    /\ UNCHANGED <<resetting, route, group, call, wide, late>>

\* replaceChannels accepts channels that are not deleted.
UpdateGroup(status, channels) ==
    /\ group.status # "deleted"
    /\ \A c \in channels : Exists(c)
    /\ group' = [group EXCEPT !.status = status, !.channels = channels]
    /\ UNCHANGED <<resetting, channel, route, call, wide, late>>

BindToken(bound) ==
    /\ bound => group.status = "active"
    /\ group' = [group EXCEPT !.bound = bound]
    /\ UNCHANGED <<resetting, channel, route, call, wide, late>>

\* Delete: not while a live token is bound to the group.
DeleteGroup ==
    /\ group.status # "deleted" /\ ~ group.bound
    /\ group' = [group EXCEPT !.status = "deleted"]
    /\ UNCHANGED <<resetting, channel, route, call, wide, late>>

-----------------------------------------------------------------------------
(* What is reported                                                        *)

\* The rows that ListModelStatuses joins and counts for the model <<p, m>> of a provider.
Routes(p, m) == {c \in group.channels : Exists(c) /\ channel[c].provider = p /\ route[c, m].exists}

\* Mutant: a route that is switched off counts as available.
AvailableSwitchedOff(p, m) ==
    {c \in Routes(p, m) : /\ channel[c].status = "active"
                          /\ channel[c].openFor = 0 /\ route[c, m].openFor = 0}

Available(p, m) ==
    {c \in Routes(p, m) : /\ route[c, m].enabled /\ channel[c].status = "active"
                          /\ channel[c].openFor = 0 /\ route[c, m].openFor = 0}

Bad == {"degraded", "unavailable"}

\* modelRouteStatus, for a monitor with or without active probes
ModelStatus(p, m, active) ==
    LET degraded == {c \in Routes(p, m) : \/ route[c, m].health \in Bad
                                          \/ active /\ route[c, m].probeHealth \in Bad}
        observed == {c \in Routes(p, m) : \/ route[c, m].health # "unknown"
                                          \/ active /\ route[c, m].probeHealth # "unknown"}
    IN  IF group.status # "active" THEN "disabled"
        ELSE IF Available(p, m) = {} THEN "unavailable"
        ELSE IF degraded # {} \/ Available(p, m) # Routes(p, m) THEN "degraded"
        ELSE IF observed = Routes(p, m) THEN "normal" ELSE "pending"

\* The models that a tenant with the token sees, of a monitor of all models
Shown == {pm \in Providers \X Models :
             /\ group.status = "active" \/ (group.status = "disabled" /\ group.bound)
             /\ \E c \in group.channels : /\ Exists(c) /\ channel[c].provider = pm[1]
                                          /\ route[c, pm[2]].enabled}

\* groupRouteStatus
GroupStatus(statuses) ==
    CASE group.status # "active" -> "disabled"
      [] group.status = "active" /\ statuses \subseteq {"unavailable"} -> "unavailable"
      [] OTHER -> IF statuses \cap Bad # {} THEN "degraded"
                  ELSE IF "pending" \in statuses THEN "pending" ELSE "normal"

-----------------------------------------------------------------------------
CallStep(k) ==
    \/ \E m \in Models, probe \in BOOLEAN, grouped \in BOOLEAN : StartCall(k, m, probe, grouped)
    \/ Attempt(k) \/ \E a \in {"ok", "wide", "model", "refused"} : Answer(k, a)
    \/ RecordChannelSuccess(k) \/ RecordChannelModelSuccess(k)
    \/ RecordChannelModelFailure(k) \/ RecordChannelFailure(k) \/ RecordProbe(k) \/ Abandon(k)

AdminStep ==
    \/ \E c \in Channels :
          \/ \E x \in Settings, listed \in SUBSET Models : \E on \in SUBSET listed :
                CreateChannel(c, x, listed, on) \/ UpdateChannel(c, x, listed, on)
          \/ \E s \in {"active", "disabled"} : SetChannelStatus(c, s)
          \/ ResetRoutes(c) \/ DeleteChannel(c)
    \/ \E s \in {"active", "disabled"}, cs \in SUBSET Channels : UpdateGroup(s, cs)
    \/ \E b \in BOOLEAN : BindToken(b)
    \/ DeleteGroup

RoutingNext == (\E k \in Calls : CallStep(k)) \/ AdminStep \/ TickCircuits

RoutingSpec == RoutingInit /\ [][RoutingNext]_routingVars

-----------------------------------------------------------------------------
\* A circuit keeps calls away from what has failed, and from nothing else.  The
\* circuit of a channel is opened by failures of the whole channel, as many since
\* the last success recorded as the threshold says; failures of one model, which
\* two calls may record at the same time, open the circuit of that model only.
\* While a circuit is open only calls that had read their candidates before still
\* try the channel, each of them once.
CircuitsProtect ==
    /\ \A c \in Channels : /\ channel[c].openFor > 0 => wide[c] >= FailureThreshold
                           /\ late[c] < Cardinality(Calls)
    /\ \A cm \in Channels \X Models :
          /\ route[cm].openFor > 0 => route[cm].health = "unavailable"
          /\ route[cm].health = "unavailable" <=> route[cm].failures >= FailureThreshold

\* The status report counts the routes of each provider's model, while a call selects
\* by name among all providers, with another query.  They agree: a model is
\* unavailable or disabled exactly when no call of its name finds a channel of its
\* provider, and normal only when every route of it can be selected; every channel
\* that a call can find stands behind a model that is shown; and a group is
\* unavailable exactly when calls of no name find a channel in it.
StatusMatchesRouting ==
    \A active \in BOOLEAN :
        /\ \A p \in Providers, m \in Models :
              LET found == {c \in Candidates(m, TRUE) : channel[c].provider = p}
              IN  /\ ModelStatus(p, m, active) \in {"unavailable", "disabled"} <=> found = {}
                  /\ ModelStatus(p, m, active) = "normal" => found = Routes(p, m) /\ found # {}
                  /\ found # {} => <<p, m>> \in Shown
        /\ GroupStatus({ModelStatus(pm[1], pm[2], active) : pm \in Shown}) \in {"unavailable", "disabled"}
              <=> \A m \in Models : Candidates(m, TRUE) = {}
=============================================================================
