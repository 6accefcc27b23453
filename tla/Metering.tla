------------------------------ MODULE Metering ------------------------------
(***************************************************************************)
(* What a call costs: internal/billing/metering.go, metering_sql.go and the *)
(* pricing steps of Reserve and Settle (internal/billing/service.go).       *)
(*                                                                         *)
(* A usage maps meters to quantities, a meter that was not reported is not  *)
(* in its domain.  The components of a price map <<meter, service tier>> to *)
(* what is charged.  An error of the code is the charge Failed.             *)
(*                                                                         *)
(* Abstractions: quantities and prices are whole multiples of a unit (the   *)
(* code computes with big.Rat); units of measure, the discount of a         *)
(* channel's cost, the prices on the lines of a charge and formats; a meter  *)
(* outside the families below stands for those like it.                     *)
(***************************************************************************)
EXTENDS Naturals, SequencesExt

CONSTANTS
    Prices,      \* of the model: legacy columns, components, minimum charge
    Groups,      \* of the routing group: mode, unit price, multiplier
    Estimates,   \* meters of a request
    Reports,     \* usage of a provider: meters, legacy fields, service tier
    Services,    \* service tiers asked for, "" for none
    Unbounded

Modes == {"token", "image_count", "video_seconds", "video_request"}

\* A usage, and a component: its price, and its price tiers that apply up to a
\* limit, of the quantity itself or of the context.
IsUsage(u) == u \in [DOMAIN u -> Nat] /\ IsFiniteSet(DOMAIN u)
IsComponent(component) ==
    /\ component.price \in Nat
    /\ component.tiers \in Seq([price : Nat, upTo : Nat \cup {Unbounded}])
IsPrice(price) ==
    /\ \A k \in DOMAIN price.components : IsComponent(price.components[k])
    /\ \A c \in DOMAIN price.legacy : price.legacy[c] \in Nat
    /\ price.minimum \in Nat

ASSUME MeteringAssumption ==
    /\ Unbounded \notin Nat
    /\ \A price \in Prices : IsPrice(price)
    /\ \A estimate \in Estimates : IsUsage(estimate)
    /\ \A report \in Reports : IsUsage(report.metrics) /\ IsUsage(report.legacy)
    /\ \A group \in Groups : group.mode \in Modes /\ group.unitPrice \in Nat /\ group.multiplier \in Nat

VARIABLE bill    \* one request: its hold, then its charge

-----------------------------------------------------------------------------
(* Usage                                                                   *)

\* The function that maps c to q, and f with g for what f lacks
Only(c, q) == [d \in {c} |-> q]
Over(f, g) == [x \in DOMAIN f \cup DOMAIN g |-> IF x \in DOMAIN f THEN f[x] ELSE g[x]]

Quantity(u, c) == IF c \in DOMAIN u THEN u[c] ELSE 0
SumOver(u, cs) == SumFunctionOnSet([c \in cs |-> Quantity(u, c)], cs)
HasPositive(u) == \E c \in DOMAIN u : u[c] > 0

\* A parent meter counts what its parts count.
Parts ==
    [input_audio_tokens |-> <<"cache_creation_audio_tokens", "cached_audio_tokens">>,
     input_image_tokens |-> <<"cached_image_tokens">>,
     input_video_tokens |-> <<"cached_video_tokens">>,
     input_tokens  |-> <<"cached_input_tokens", "cache_creation_tokens", "cache_creation_1h_tokens",
                         "input_audio_tokens", "input_image_tokens", "input_video_tokens">>,
     output_tokens |-> <<"reasoning_tokens", "output_audio_tokens", "output_image_tokens",
                         "output_video_tokens">>]

TotalMeters == {"input_tokens", "output_tokens"}
Modalities  == {"input_audio_tokens", "input_image_tokens", "input_video_tokens"}

PartsOf(p)       == Range(Parts[p])
SumOfParts(u, p) == SumOver(u, PartsOf(p))

\* ensureParentMetric, of several parents: one that is not reported is the sum of its parts.
EnsureParents(u, parents) ==
    Over(u, [p \in {q \in parents : SumOfParts(u, q) > 0} |-> SumOfParts(u, p)])

\* The parent of a part, and the place of the part among those of the parent
Places   == UNION {{p} \X DOMAIN Parts[p] : p \in DOMAIN Parts}
Place(c) == CHOOSE at \in Places : Parts[at[1]][at[2]] = c

PartsIn(u, parents) == DOMAIN u \cap UNION {PartsOf(p) : p \in parents}

\* Mutant: the parts are each cut to the parent, not to what is left of it.
LimitEach(u, parents) == Over([c \in PartsIn(u, parents) |-> Min({u[c], Quantity(u, Place(c)[1])})], u)

\* limitChildrenToParent: a part is cut to what the parts before it leave of the parent.
LimitChildren(u, parents) ==
    LET parent(c) == Place(c)[1]
        before(c) == {Parts[parent(c)][j] : j \in 1 .. Place(c)[2] - 1}
        left(c)   == Quantity(u, parent(c)) - Min({Quantity(u, parent(c)), SumOver(u, before(c))})
    IN  Over([c \in PartsIn(u, parents) |-> Min({u[c], left(c)})], u)

\* normalizeMeteredRelationships: a modality is itself a part, and its parts are
\* cut after it is.  The order within each of the two levels makes no difference.
Normalize(u) ==
    LET whole == EnsureParents(EnsureParents(u, Modalities), TotalMeters)
    IN  LimitChildren(LimitChildren(whole, TotalMeters), Modalities)

\* What a parent meter counts beside its parts.
EffectiveQuantity(u, c) ==
    IF c \in DOMAIN Parts
    THEN IF Quantity(u, c) > SumOfParts(u, c) THEN Quantity(u, c) - SumOfParts(u, c) ELSE 0
    ELSE Quantity(u, c)

\* normalizeUsage: a missing or zero meter is completed from the legacy field.
UsageOf(report) ==
    LET filled == {c \in DOMAIN report.legacy : report.legacy[c] > 0 /\ Quantity(report.metrics, c) = 0}
    IN  Over([c \in filled |-> report.legacy[c]], report.metrics)

-----------------------------------------------------------------------------
(* The customer's meters                                                   *)

FirstPositive(u, codes) ==
    LET found == {i \in DOMAIN codes : Quantity(u, codes[i]) > 0}
    IN  IF found = {} THEN 0 ELSE Quantity(u, codes[Min(found)])

\* customerMeteringUsage
CustomerUsage(usage, mode) ==
    LET u == Normalize(usage)
        If(c, q) == IF q > 0 THEN Only(c, q) ELSE <<>>
    IN  CASE mode = "token"         -> u
          [] mode = "image_count"   -> If("output_images", FirstPositive(u, <<"output_images">>))
          [] mode = "video_seconds" ->
                If("output_seconds",
                     FirstPositive(u, <<"output_seconds", "output_video_seconds", "output_seconds_480p",
                                        "output_seconds_1080p", "output_seconds_4k">>))
          [] mode = "video_request" -> Only("requests", 1)

\* customerMeteringUsageWithEstimate: tokens are never estimated.
CustomerUsageOr(usage, estimate, mode) ==
    LET actual   == CustomerUsage(usage, mode)
        fallback == CustomerUsage(estimate, mode)
    IN  IF mode = "token" \/ HasPositive(actual) \/ ~ HasPositive(fallback) THEN actual ELSE fallback

-----------------------------------------------------------------------------
(* Prices                                                                  *)

Flat(price) == [price |-> price, tiers |-> <<>>, basis |-> "quantity"]

\* normalizePriceComponentInputs
ValidTiers(tiers) ==
    /\ \A i \in DOMAIN tiers : tiers[i].upTo = Unbounded => i = Len(tiers)
    /\ \A i \in DOMAIN tiers : tiers[i].upTo # Unbounded =>
          tiers[i].upTo > (IF i = 1 THEN 0 ELSE tiers[i-1].upTo)

\* hasPricedComponent
Publishable(price) ==
    /\ \A k \in DOMAIN price.components : ValidTiers(price.components[k].tiers)
    /\ \/ \E k \in DOMAIN price.components : price.components[k].price > 0
       \/ \E c \in DOMAIN price.legacy : price.legacy[c] > 0

\* priceComponentsFor: the legacy columns stand for meters without a component;
\* the columns of input and output even when they are zero.
ComponentsFor(price) ==
    LET legacy == [c \in {d \in DOMAIN price.legacy :
                             d \in {"input_tokens", "output_tokens"} \/ price.legacy[d] > 0}
                     |-> Flat(price.legacy[c])]
    IN  Over(price.components, [k \in {<<c, "">> : c \in DOMAIN legacy} |-> legacy[k[1]]])

NoLegacy == [input_tokens |-> 0, output_tokens |-> 0, cached_input_tokens |-> 0,
             cache_creation_tokens |-> 0, reasoning_tokens |-> 0]

\* applyMeteringPrice: the group's price replaces that of the model.
GroupPriced(price, mode, unitPrice) ==
    IF mode = "token" THEN price
    ELSE LET code == CASE mode = "image_count"   -> "output_images"
                       [] mode = "video_seconds" -> "output_seconds"
                       [] mode = "video_request" -> "requests"
         IN  [legacy |-> NoLegacy, minimum |-> 0, components |-> Only(<<code, "">>, Flat(unitPrice))]

HasComponent(cs, c, tier) == <<c, "">> \in DOMAIN cs \/ <<c, tier>> \in DOMAIN cs

\* addImplicitRequestMetric
WithRequest(cs, u, tier) ==
    IF Quantity(u, "requests") = 0 /\ HasComponent(cs, "requests", tier)
    THEN Over(Only("requests", 1), u) ELSE u

\* A meter without a component takes the component of the next meter.
Inherits ==
    [cached_input_tokens |-> "input_tokens", cache_creation_tokens |-> "input_tokens",
     cache_creation_1h_tokens |-> "cache_creation_tokens", reasoning_tokens |-> "output_tokens",
     input_audio_tokens |-> "input_tokens", input_image_tokens |-> "input_tokens",
     input_video_tokens |-> "input_tokens", output_audio_tokens |-> "output_tokens",
     output_image_tokens |-> "output_tokens", output_video_tokens |-> "output_tokens",
     cache_creation_audio_tokens |-> "input_audio_tokens", cached_audio_tokens |-> "input_audio_tokens",
     cached_image_tokens |-> "input_image_tokens", cached_video_tokens |-> "input_video_tokens"]

Heir(line) == IF Last(line) \in DOMAIN Inherits THEN Append(line, Inherits[Last(line)]) ELSE line

\* componentForMeter: a meter, or else its heirs, has a component; that of the
\* service tier goes first.
Heirs(c)              == Heir(Heir(<<c>>))
HasPrice(cs, c, tier) == \E i \in DOMAIN Heirs(c) : HasComponent(cs, Heirs(c)[i], tier)
Found(cs, c, tier)    ==
    LET meter == Heirs(c)[Min({i \in DOMAIN Heirs(c) : HasComponent(cs, Heirs(c)[i], tier)})]
    IN  IF <<meter, tier>> \in DOMAIN cs THEN cs[<<meter, tier>>] ELSE cs[<<meter, "">>]

-----------------------------------------------------------------------------
(* Charges                                                                 *)

Failed          == [error |-> TRUE, amount |-> 0, lines |-> <<>>]
Amounting(amount) == [Failed EXCEPT !.error = FALSE, !.amount = amount]

\* The first tier that goes as far as n; none where the set is empty
Reaching(tiers, n) == {i \in DOMAIN tiers : tiers[i].upTo = Unbounded \/ n <= tiers[i].upTo}

\* Where the tiers are those of the context, one price holds for the quantity.
ContextAmount(tiers, q, context) ==
    IF Reaching(tiers, context) = {} THEN Failed
    ELSE Amounting(tiers[Min(Reaching(tiers, context))].price * q)

\* Each tier takes the units up to its limit, while there are units left; the last
\* price takes those beyond.  A tier that is not reached is not looked at.
QuantityAmount(tiers, q) ==
    LET lower(i) == IF i = 1 THEN 0 ELSE tiers[i - 1].upTo
        upper(i) == IF tiers[i].upTo = Unbounded THEN q ELSE Min({tiers[i].upTo, q})
        reached  == {i \in DOMAIN tiers : \A j \in 1 .. i - 1 : tiers[j].upTo # Unbounded /\ tiers[j].upTo < q}
        wrong(i) == IF tiers[i].upTo = Unbounded THEN i # Len(tiers) ELSE tiers[i].upTo <= lower(i)
        beyond   == IF Len(tiers) \in reached THEN q - upper(Len(tiers)) ELSE 0
    IN  IF \E i \in reached : wrong(i) THEN Failed
        ELSE Amounting(SumFunctionOnSet([i \in reached |-> tiers[i].price * (upper(i) - lower(i))], reached)
                          + Last(tiers).price * beyond)

\* tieredAmount
TieredAmount(component, q, u) ==
    CASE component.tiers = <<>> -> Amounting(component.price * q)
      [] component.tiers # <<>> /\ component.basis = "quantity" -> QuantityAmount(component.tiers, q)
      [] component.tiers # <<>> /\ component.basis # "quantity" ->
            ContextAmount(component.tiers, q, Quantity(u, component.basis))

\* The meters with a quantity, and what each is charged
Lines(cs, u, tier) ==
    [c \in {d \in DOMAIN u : EffectiveQuantity(u, d) > 0} |->
        [quantity |-> EffectiveQuantity(u, c),
         charge   |-> IF HasPrice(cs, c, tier) THEN TieredAmount(Found(cs, c, tier), EffectiveQuantity(u, c), u)
                                               ELSE Failed]]

AddUp(line, minimum) ==
    IF \E c \in DOMAIN line : line[c].charge.error THEN Failed
    ELSE [error  |-> FALSE,
          amount |-> Max({minimum, SumFunctionOnSet([c \in DOMAIN line |-> line[c].charge.amount], DOMAIN line)}),
          lines  |-> [c \in DOMAIN line |-> line[c].quantity]]

\* calculateMeteredChargeForTier
MeteredCharge(cs, usage, minimum, tier) ==
    AddUp(Lines(cs, Normalize(WithRequest(cs, usage, tier)), tier), minimum)

\* factorCharge
Times(charge, factor) == [charge EXCEPT !.amount = @ * factor]

Priced(cs, u, tier) == [c \in {d \in DOMAIN u : HasPrice(cs, d, tier)} |-> u[c]]

\* prepareReservationMetrics: estimates that have no price are dropped.
Estimated(cs, usage, tier) ==
    Normalize(Priced(cs, Normalize(WithRequest(cs, usage, tier)), tier))

\* What the provider's price, official or that of the customer, makes of a usage
UpstreamCharge(upstream, usage, tier) ==
    [from |-> upstream, usage |-> usage,
     charge |-> MeteredCharge(ComponentsFor(upstream.price), usage, upstream.price.minimum, tier)]

\* calculateUpstreamCost; an official price that fails gives way to the customer's.
UpstreamCost(upstream, usage, customer, otherwise, tier) ==
    LET OrCustomer(cost) ==
            IF cost.charge.error /\ upstream.official
            THEN UpstreamCharge([price |-> customer, official |-> FALSE], otherwise, tier) ELSE cost
    IN  OrCustomer(UpstreamCharge(upstream, usage, tier))

-----------------------------------------------------------------------------
(* A request                                                               *)

NoBill == [state |-> "none"]

MeteringInit == bill = NoBill

\* Reserve: what is estimated is held; the price of the provider is official if
\* there is one.
Hold(price, upstream, group, service, estimate) ==
    /\ bill = NoBill
    /\ upstream.official \/ upstream.price = price
    /\ group.mode # "token" => group.unitPrice > 0
    /\ \E customer \in {GroupPriced(price, group.mode, group.unitPrice)} :
       \E metrics \in {Estimated(ComponentsFor(customer), CustomerUsage(estimate, group.mode), service)} :
       \E charge \in {MeteredCharge(ComponentsFor(customer), metrics, customer.minimum, service)},
          cost \in {UpstreamCost(upstream, Estimated(ComponentsFor(upstream.price), estimate, service),
                                 price, metrics, service)} :
          /\ ~ charge.error /\ ~ cost.charge.error
          /\ bill' = [state |-> "held", price |-> customer, group |-> group, service |-> service,
                      asked |-> estimate, estimate |-> metrics, held |-> Times(charge, group.multiplier).amount,
                      upstream |-> cost.from, estimatedUpstream |-> cost.usage,
                      report |-> <<>>, lines |-> <<>>, cost |-> 0, amount |-> 0]

\* priceAllowsZeroUsage
AllowsZero(price, mode, service) ==
    /\ mode = "token"
    /\ price.minimum > 0 \/ HasComponent(ComponentsFor(price), "requests", service)

\* settlementPricingTier: the tier of the request, or else the reported one
SettlementTier(asked, reported) == IF asked # "" THEN asked ELSE reported

\* Settle: without usage, or a price for it, nothing is charged and the request
\* stays pending.
Settle(report) ==
    /\ bill.state = "held"
    /\ \E u \in {Normalize(UsageOf(report))},
          tier \in {SettlementTier(bill.service, report.service)} :
       \E mine \in {CustomerUsageOr(u, bill.estimate, bill.group.mode)},
          used \in {IF DOMAIN u = {} THEN bill.estimatedUpstream ELSE u} :
       \E charge \in {MeteredCharge(ComponentsFor(bill.price), mine, bill.price.minimum, tier)},
          cost \in {UpstreamCost(bill.upstream, used, bill.price, used, tier).charge} :
          LET paid == /\ HasPositive(mine) \/ AllowsZero(bill.price, bill.group.mode, tier)
                      /\ ~ charge.error /\ ~ cost.error
          IN  bill' = [bill EXCEPT !.state = IF paid THEN "charged" ELSE "pending", !.service = tier,
                                   !.report = report, !.lines = charge.lines, !.cost = cost.amount,
                                   !.amount = Times(charge, bill.group.multiplier).amount]

Billed ==
    \/ \E price, other \in Prices, official \in BOOLEAN, group \in Groups, service \in Services,
          estimate \in Estimates :
          Hold(price, [price |-> other, official |-> official], group, service, estimate)
    \/ \E report \in Reports : Settle(report)

MeteringSpec == MeteringInit /\ [][Billed]_bill

-----------------------------------------------------------------------------
(* What a charge must be, counted unit by unit                             *)

Within(p) == UNION {{c} \cup (IF c \in DOMAIN Parts THEN PartsOf(c) ELSE {}) : c \in PartsOf(p)}

\* A part as it was reported, or else what its own parts report
Reported(u, c) == IF c \in DOMAIN u \/ c \notin DOMAIN Parts THEN Quantity(u, c) ELSE SumOfParts(u, c)

Whole(u, p) ==
    IF p \in DOMAIN u THEN u[p] ELSE SumFunctionOnSet([c \in PartsOf(p) |-> Reported(u, c)], PartsOf(p))

\* What the tiers of a context go by: a total as it was reported, or a meter as it is charged
Context(u, charged, c) == IF c \in TotalMeters THEN Whole(u, c) ELSE Quantity(charged, c)

\* The price of the tier that goes as far as n, or else of the last
PriceAt(tiers, n) ==
    LET over == Reaching(tiers, n) IN IF over # {} THEN tiers[Min(over)].price ELSE Last(tiers).price

\* The price of the k-th unit
UnitPrice(component, k, u, charged) ==
    IF component.tiers = <<>> THEN component.price
    ELSE PriceAt(component.tiers,
                 IF component.basis = "quantity" THEN k ELSE Context(u, charged, component.basis))

\* The amount of a charge as the sum over its units
ByUnits(lines, cs, minimum, service, u) ==
    LET charged == WithRequest(cs, Normalize(u), service)
        Line(c) == SumFunctionOnSet([k \in 1 .. lines[c] |-> UnitPrice(Found(cs, c, service), k, u, charged)],
                                    1 .. lines[c])
    IN  Max({minimum, SumFunctionOnSet([c \in DOMAIN lines |-> Line(c)], DOMAIN lines)})

\* Every unit of a total that the provider reports is on one line of the charge,
\* whatever details it reports beside it.
UnitsAreOnOneLine ==
    bill.group.mode = "token" =>
        \A p \in TotalMeters : SumOver(bill.lines, Within(p) \cup {p}) = Whole(UsageOf(bill.report), p)

\* The amount is the sum of the prices of the units under their tiers.
UnitsArePriced ==
    bill.amount = bill.group.multiplier * ByUnits(bill.lines, ComponentsFor(bill.price), bill.price.minimum,
                                                  bill.service, UsageOf(bill.report))

\* A request that uses what was estimated costs what was held for it.
HoldIsKept ==
    (/\ bill.report.metrics = bill.asked /\ DOMAIN bill.report.legacy = {}
     /\ bill.report.service = "") => bill.amount = bill.held

\* A charge adds up (metering.go, Reserve, Settle).
ChargesAddUp == bill.state = "charged" => UnitsAreOnOneLine /\ UnitsArePriced /\ HoldIsKept
=============================================================================
