----------------------------- MODULE MCGateway -----------------------------
(***************************************************************************)
(* Small instances of Routing, TokenLimiter, ModelMonitors, Metering and     *)
(* PriceCatalog for TLC.  They share no state: a behaviour runs one of them, *)
(* or one part of it, fixed in its initial state.                           *)
(***************************************************************************)
EXTENDS Routing, ModelMonitors, TokenLimiter, PriceCatalog

CONSTANTS Spare,    \* the channel that stays healthy
          SpareProvider,
          Main,     \* the model of the call that runs while the configuration changes
          First,    \* that call
          Alone     \* the synchronization that runs alone

VARIABLE slice

MCPolicies == {[rpm |-> 2, tpm |-> 3, concurrency |-> 1], [rpm |-> 1, tpm |-> 2, concurrency |-> 2]}

\* The settings of a channel in use
Usual == [status |-> "active", provider |-> SpareProvider, priority |-> 1, weight |-> 1]
MCSettings == [status : {"active", "disabled"}, provider : {SpareProvider}, priority : {1}, weight : {1}]
              \cup [status : {"active"}, provider : Providers \ {SpareProvider}, priority : {2}, weight : {0}]

\* Two channels that serve every model, in the group
Settled ==
    /\ channel = [c \in Channels |-> Row(Usual, 0, 0)]
    /\ route = [cm \in Channels \X Models |-> [NoRoute EXCEPT !.exists = TRUE, !.enabled = TRUE]]
    /\ group = [status |-> "active", channels |-> Channels, bound |-> FALSE]
    /\ resetting = {}
    /\ call = [k \in Calls |-> IdleCall]
    /\ wide = [c \in Channels |-> 0] /\ late = [c \in Channels |-> 0]

UpTo(limit, price) == [upTo |-> limit, price |-> price]

\* Prices of a model: columns only; a request fee, a minimum and a price of the
\* tier "flex"; intervals of the quantity and of the context; images.
Plain == [legacy |-> [NoLegacy EXCEPT !.input_tokens = 2, !.output_tokens = 3], minimum |-> 0, components |-> <<>>]
Flex  == [legacy |-> [NoLegacy EXCEPT !.input_tokens = 2, !.cached_input_tokens = 1], minimum |-> 3,
          components |->
             <<"requests", "">> :> Flat(1) @@ <<"input_tokens", "flex">> :> Flat(1)
             @@ <<"cached_audio_tokens", "">> :> [price |-> 5, basis |-> "cached_input_tokens",
                                                  tiers |-> <<UpTo(1, 5), UpTo(Unbounded, 4)>>]]
Tiered == [legacy |-> [NoLegacy EXCEPT !.input_tokens = 2, !.reasoning_tokens = 1], minimum |-> 0,
           components |->
              <<"input_tokens", "">> :> [price |-> 1, basis |-> "quantity",
                                         tiers |-> <<UpTo(1, 3), UpTo(2, 2), UpTo(Unbounded, 1)>>]
              @@ <<"output_tokens", "">> :> [price |-> 1, basis |-> "input_tokens",
                                             tiers |-> <<UpTo(1, 3), UpTo(Unbounded, 5)>>]]
Images == [legacy |-> [NoLegacy EXCEPT !.input_tokens = 1], minimum |-> 0,
           components |-> <<"output_images", "">> :> [price |-> 1, basis |-> "quantity",
                                                      tiers |-> <<UpTo(1, 3), UpTo(2, 2)>>]]
MCPrices == {p \in {Plain, Flex, Tiered, Images} : Publishable(p)}
MCGroups == {[mode |-> m, unitPrice |-> 2, multiplier |-> 2] : m \in Modes}

\* Every combination of reported and missing details of the input, and of the output
Usages(cs, n) == UNION {[d -> 0 .. n] : d \in SUBSET cs}
Details ==
    Usages({"input_tokens", "cached_input_tokens", "input_audio_tokens", "cached_audio_tokens"}, 2)
    \cup {("input_tokens" :> 1) @@ o : o \in Usages({"output_tokens", "reasoning_tokens"}, 2)}
    \cup {"input_tokens" :> 3 @@ "cached_input_tokens" :> n : n \in 0 .. 4}
MCEstimates ==
    {<<>>, "input_tokens" :> 2 @@ "output_tokens" :> 1, "output_images" :> 3,
     "input_tokens" :> 3 @@ "cached_audio_tokens" :> 2 @@ "output_seconds" :> 2}
MCReports ==
    [metrics : Details \cup MCEstimates, legacy : {<<>>}, service : {""}]
    \cup [metrics : MCEstimates, legacy : {"input_tokens" :> 3 @@ "cached_input_tokens" :> 1}, service : Services]

\* Records of the source: plain prices, steps of the context and of a tier,
\* ranges, intervals of the quantity, and one that lacks the price of output
Fields(i, o) == "input_cost_per_token" :> i @@ "output_cost_per_token" :> o
Step(from, tier, price) == [from |-> from, tier |-> tier, price |-> price]
Steps(interval, steps) == "input_cost_per_token" :> [interval |-> interval, steps |-> steps]
Flatly == [ours |-> TRUE, mode |-> "chat", fields |-> Fields(1, 2), ranges |-> <<>>, above |-> <<>>]
ByContext == [Flatly EXCEPT !.fields = @ @@ "input_cost_per_token_priority" :> 4,
                 !.above = Steps(FALSE, {Step(1, "", 2), Step(2, "", 3), Step(2, "priority", 5)})]
ByRange == [Flatly EXCEPT !.fields = "output_cost_per_token" :> 2,
               !.ranges = "input_cost_per_token" :> <<[from |-> 0, price |-> 3], [from |-> 2, price |-> 1]>>,
               !.above = Steps(FALSE, {Step(1, "priority", 6)})]
ByInterval == [Flatly EXCEPT !.above = Steps(TRUE, {Step(1, "", 2), Step(3, "", 4), Step(1, "priority", 7)})]
HalfOnly == [Flatly EXCEPT !.fields = "input_cost_per_token" :> 5]
Two == {"k1" :> Flatly, "k2" :> ByRange}
MCListings ==
    Two \cup {"k1" :> ByContext @@ "k2" :> Flatly, "k1" :> ByInterval, "k1" :> HalfOnly,
              "k1" :> [Flatly EXCEPT !.ours = FALSE] @@ "k2" :> ByInterval}
MCKeys == <<"k1", "k2">>

MCInit ==
    /\ MonitorInit /\ LimiterInit /\ MeteringInit /\ CatalogInit
    /\ \/ slice \in {"config", "limiter", "monitors", "bills", "prices", "syncs", "listings"} /\ RoutingInit
       \/ slice = "calls" /\ Settled
    /\ slice = "syncs" => listing \in Two
    /\ slice \notin {"syncs", "listings"} => listing = "k1" :> Flatly

Healthy(c) == /\ channel'[c].failures = 0
              /\ \A m \in Models : route'[c, m].failures = 0 /\ route'[c, m].probeFailures = 0

\* Calls meet failures of one channel, and a healthy second one; an administrator
\* saves the channel as it is.
CallsNext ==
    /\ \/ \E k \in Calls : CallStep(k)
       \/ TickCircuits
       \/ \E c \in Channels : UpdateChannel(c, Usual, Models, Models)
    /\ Healthy(Spare)
    /\ \A k \in Calls : ~ call'[k].probe
    /\ \A k \in Calls : call'[k].model \in {Main, None}

\* The configuration changes around the probes of one model.
ConfigOnly ==
    /\ Healthy(Spare) /\ Spare \notin resetting'
    /\ group'.bound => (group'.channels = Channels /\ group'.status = "active")
    /\ \A k \in Calls \ {First} : call'[k].pc = "idle"
    /\ call'[First].pc # "idle" => (call'[First].probe /\ call'[First].model = Main)
    /\ channel'[Spare] \in {NoChannel, Row(Usual, 0, 0)}
    /\ \A c \in Channels, m \in Models : (c = Spare \/ m # Main) => route'[c, m].exists = route'[c, m].enabled
    /\ \A c \in Channels, m \in Models : route'[c, m].exists = route'[c, Main].exists

\* The customer's price varies; the provider's is that of images, or the customer's.
OneBill == /\ IF bill'.upstream.official THEN bill'.upstream.price = Images ELSE bill'.service # ""
           /\ bill'.service # "" => <<"requests", "">> \in DOMAIN bill'.price.components
           /\ bill'.group.mode # "token" /\ bill'.state # "held" => bill'.report.metrics \in MCEstimates

\* Publications; synchronizations of a changing source; every listing read once.
CatalogSlice ==
    \/ /\ slice = "prices" /\ UNCHANGED <<official, sync, listing>>
       /\ \/ \E s \in Range(Scopes) \ {"project"}, c \in Currencies, t \in 0 .. LastTime : PublishPrice(s, c, t)
          \/ TickCatalog
    \/ /\ slice = "syncs" /\ UNCHANGED versions
       /\ \/ \E p \in Syncs : SyncStep(p)
          \/ Relist /\ listing' \in Two
          \/ TickCatalog
    \/ /\ slice = "listings" /\ UNCHANGED <<versions, clock>>
       /\ SyncStep(Alone) \/ Relist

\* A request is billed once, and publications are bounded.
Finished ==
    /\ \/ slice = "bills" /\ bill.state \in {"charged", "pending"}
       \/ slice = "prices" /\ clock = LastTime /\ Len(versions) = MaxPublished
    /\ UNCHANGED <<bill, catalogVars>>

others == <<routingVars, monitorVars, limiterVars>>

MCNext ==
    /\ UNCHANGED slice
    /\ \/ slice = "calls"   /\ CallsNext /\ UNCHANGED <<monitorVars, limiterVars, bill, catalogVars>>
       \/ slice = "config"  /\ RoutingNext /\ ConfigOnly /\ UNCHANGED <<monitorVars, limiterVars, bill, catalogVars>>
       \/ slice = "limiter"  /\ LimiterNext /\ UNCHANGED <<routingVars, monitorVars, bill, catalogVars>>
       \/ slice = "monitors" /\ MonitorNext /\ UNCHANGED <<routingVars, limiterVars, bill, catalogVars>>
       \/ slice = "bills" /\ Billed /\ OneBill /\ UNCHANGED <<others, catalogVars>>
       \/ slice \in {"prices", "syncs", "listings"} /\ CatalogSlice /\ UNCHANGED <<others, bill>>
       \/ Finished /\ UNCHANGED others

MCSpec == MCInit /\ [][MCNext]_<<others, bill, catalogVars, slice>> /\ MonitorFairness
=============================================================================
