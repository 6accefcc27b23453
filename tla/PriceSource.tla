----------------------------- MODULE PriceSource -----------------------------
(***************************************************************************)
(* The official prices that are read from the listing of LiteLLM:           *)
(* findPrice and what it calls in internal/modelprices/sync.go.              *)
(*                                                                         *)
(* A record of the listing has a price per field, price ranges by context   *)
(* and steps "above" a threshold, each of a service tier.                    *)
(*                                                                         *)
(* Abstractions: a few of the fields stand for all; the steps of one field  *)
(* are either all of the context or all intervals of the quantity, and a    *)
(* threshold is listed once (the code takes one of two in map order); names *)
(* and aliases are the candidate keys in the order they are tried.          *)
(***************************************************************************)
EXTENDS Metering

\* componentFields: the field and the component it sets
ComponentFields ==
    << <<"input_cost_per_token", <<"input_tokens", "">> >>,
       <<"output_cost_per_token", <<"output_tokens", "">> >>,
       <<"cache_read_input_token_cost", <<"cached_input_tokens", "">> >>,
       <<"input_cost_per_token_cache_hit", <<"cached_input_tokens", "">> >>,
       <<"output_cost_per_image", <<"output_images", "">> >>,
       <<"input_cost_per_token_priority", <<"input_tokens", "priority">> >> >>

\* setComponent: of the fields that set a component, the first price that is not zero.
SetFields(record) ==
    LET price(i)   == record.fields[ComponentFields[i][1]]
        listed(key) == {i \in DOMAIN ComponentFields : /\ ComponentFields[i][2] = key
                                                       /\ ComponentFields[i][1] \in DOMAIN record.fields}
        priced(key) == {i \in listed(key) : price(i) # 0}
    IN  [key \in {k \in {f[2] : f \in Range(ComponentFields)} : listed(k) # {}} |->
            Flat(IF priced(key) = {} THEN 0 ELSE price(Min(priced(key))))]

\* Thresholds in their order: the i-th is the one that i - 1 are below.
InOrder(bounds) ==
    [i \in 1 .. Cardinality(bounds) |->
        CHOOSE b \in bounds : Cardinality({c \in bounds : c.from < b.from}) = i - 1]

\* Mutant: a step begins where the one before it begins.
EncodeShifted(component, bounds, basis) ==
    LET steps == InOrder(bounds)
    IN  [price |-> component.price, basis |-> basis,
         tiers |-> [i \in DOMAIN steps |->
                       [price |-> steps[i].price,
                        upTo  |-> IF i = Len(steps) THEN Unbounded ELSE steps[i].from]]]

\* encodeTieredComponents: the base price up to the first threshold, then each
\* step up to the next.
Encode(component, bounds, basis) ==
    LET zero  == {b \in bounds : b.from = 0}
        base  == IF zero = {} THEN component.price ELSE (CHOOSE b \in zero : TRUE).price
        steps == InOrder(bounds \cup {[from |-> 0, price |-> base]})
    IN  [price |-> base, basis |-> basis,
         tiers |-> [i \in DOMAIN steps |->
                       [price |-> steps[i].price,
                        upTo  |-> IF i = Len(steps) THEN Unbounded ELSE steps[i + 1].from]]]

RangesOf(record, field) == IF field \in DOMAIN record.ranges THEN record.ranges[field] ELSE <<>>
AboveOf(record, field)  == IF field \in DOMAIN record.above THEN record.above[field]
                                                            ELSE [interval |-> FALSE, steps |-> {}]

\* The thresholds that a field lists for a service tier, "" for none
Thresholds(record, field, tier) ==
    {[from |-> s.from, price |-> s.price] : s \in {t \in AboveOf(record, field).steps : t.tier = tier}}
       \cup (IF tier = "" THEN Range(RangesOf(record, field)) ELSE {})

\* A record that can be read: see the abstractions above.
IsRecord(record) ==
    /\ \A f \in DOMAIN record.fields : record.fields[f] \in Nat
    /\ \A i \in DOMAIN ComponentFields :
          LET field == ComponentFields[i][1]
              above == AboveOf(record, field)
          IN  /\ IsFiniteSet(above.steps) /\ \A s \in above.steps : s.from \in Nat /\ s.price \in Nat
              /\ RangesOf(record, field) \in Seq([from : Nat, price : Nat])
              /\ \A tier \in {s.tier : s \in above.steps} \cup {""} :
                    \A b, c \in Thresholds(record, field, tier) : b.from = c.from => b = c
              /\ above.interval => RangesOf(record, field) = <<>>
              /\ ComponentFields[i][2][2] # "" => above.steps = {} /\ RangesOf(record, field) = <<>>

TiersOf(record, field) ==
    {s.tier : s \in AboveOf(record, field).steps} \cup (IF RangesOf(record, field) = <<>> THEN {} ELSE {""})

Basis(record, field, tier) ==
    IF AboveOf(record, field).interval /\ \E s \in AboveOf(record, field).steps : s.tier = tier
    THEN "quantity" ELSE "input_tokens"

KeyOf(f, tier) == IF tier = "" THEN f[2] ELSE <<f[2][1], tier>>

\* A field without a price has that of its range from zero on.
WithRange(record, cs, f) ==
    LET ranges == RangesOf(record, f[1])
    IN  IF f[2] \notin DOMAIN cs /\ ranges # <<>> /\ Head(ranges).from = 0
        THEN Over(Only(f[2], Flat(Head(ranges).price)), cs) ELSE cs

\* setTieredComponents, of one field: a step of a service tier without a price of
\* its own begins at the price of the field.
SetTiers(record, cs, f) ==
    LET known       == WithRange(record, cs, f)
        tierOf(key) == CHOOSE t \in TiersOf(record, f[1]) : KeyOf(f, t) = key
        Tiered(key) == Encode(IF key \in DOMAIN known THEN known[key] ELSE known[f[2]],
                              Thresholds(record, f[1], tierOf(key)), Basis(record, f[1], tierOf(key)))
    IN  IF f[2] \notin DOMAIN known THEN cs
        ELSE Over([key \in {KeyOf(f, t) : t \in TiersOf(record, f[1])} |-> Tiered(key)], known)

\* The fields are gone through in their order; each of the sets has one element.
CollectComponents(record) ==
    LET Next(set, i) == {SetTiers(record, cs, ComponentFields[i]) : cs \in set}
    IN  CHOOSE cs \in Next(Next(Next(Next(Next(Next({SetFields(record)}, 1), 2), 3), 4), 5), 6) : TRUE

NoPrice == [components |-> <<>>, legacy |-> NoLegacy, minimum |-> 0]

SingleSided == {"embedding", "image_generation"}

\* The price of components; the legacy columns repeat the plain prices.
PriceFrom(cs, mode) ==
    LET has(c) == <<c, "">> \in DOMAIN cs
    IN  IF has("input_tokens") # has("output_tokens") /\ mode \notin SingleSided THEN NoPrice
        ELSE [components |-> cs, minimum |-> 0,
              legacy |-> [c \in DOMAIN NoLegacy |->
                             IF has(c) /\ c # "cache_creation_tokens" THEN cs[<<c, "">>].price ELSE 0]]

\* normalizeRecord; the set has one element.
NormalizeRecord(record) ==
    CHOOSE price \in {PriceFrom(cs, record.mode) : cs \in {CollectComponents(record)}} : TRUE

\* findPrice: the first key of the model that is of its provider and has a price
FindPrice(listing, candidates) ==
    LET fits == {i \in DOMAIN candidates :
                    LET k == candidates[i]
                    IN  k \in DOMAIN listing /\ listing[k].ours /\ NormalizeRecord(listing[k]) # NoPrice}
    IN  IF fits = {} THEN NoPrice ELSE NormalizeRecord(listing[candidates[Min(fits)]])

-----------------------------------------------------------------------------
\* What a record says of input tokens: the price of a unit of a service tier, in a
\* context or at a quantity "at", is that of the highest threshold below it.
ListedPrice(record, tier, at) ==
    LET field  == "input_cost_per_token"
        own    == IF tier = "" THEN field ELSE "input_cost_per_token_priority"
        zero   == {b \in Thresholds(record, field, tier) : b.from = 0}
        passed == {b \in Thresholds(record, field, tier) : b.from > 0 /\ b.from < at}
    IN  CASE passed # {} -> (CHOOSE b \in passed : \A c \in passed : c.from <= b.from).price
          [] passed = {} /\ zero # {} -> (CHOOSE b \in zero : TRUE).price
          [] passed = {} /\ zero = {} /\ own \in DOMAIN record.fields -> record.fields[own]
          [] passed = {} /\ zero = {} /\ own \notin DOMAIN record.fields ->
                IF field \in DOMAIN record.fields THEN record.fields[field] ELSE Head(RangesOf(record, field)).price
=============================================================================
