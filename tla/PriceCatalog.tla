---------------------------- MODULE PriceCatalog ----------------------------
(***************************************************************************)
(* The prices of one model and which of them a call gets: PublishPrice,     *)
(* ListPriceMatrix and resolvePrice of internal/billing/service.go, Sync     *)
(* and upsertPrice of internal/modelprices/sync.go.                          *)
(*                                                                         *)
(* A publication holds an advisory lock of its scope and is one step.  A     *)
(* synchronization is a READ COMMITTED transaction run statement by          *)
(* statement beside others; a unique index allows one official version       *)
(* without an end.                                                          *)
(*                                                                         *)
(* Abstractions: one tenant, project and token; the models of one            *)
(* synchronization share no row; scopes exist; the prices of a manual        *)
(* version are its number.                                                  *)
(***************************************************************************)
EXTENDS PriceSource

CONSTANTS
    Syncs,        \* synchronizations in progress
    Listings,     \* states of the source
    ListingKeys,   \* keys of the model in the source, in order
    Currencies,
    MaxPublished, MaxOfficial,   \* bounds on the versions
    LastTime

ASSUME CatalogAssumption ==
    /\ "USD" \in Currencies /\ MaxPublished \in Nat /\ MaxOfficial \in Nat /\ LastTime \in Nat
    /\ ListingKeys \in Seq(Range(ListingKeys))
    /\ \A source \in Listings : \A k \in DOMAIN source : IsRecord(source[k])

VARIABLES
    versions,   \* price_versions of the model, in the order of their publication
    official,   \* official_model_price_versions, in the order of their commit
    sync,       \* the synchronizations
    listing,    \* the source as it is now
    clock

catalogVars == <<versions, official, sync, listing, clock>>

Open     == LastTime + 1     \* no effective_to
Scopes   == <<"token", "project", "tenant", "platform_default">>
IdleSync == [pc |-> "idle"]

CatalogInit ==
    /\ versions = <<>> /\ official = <<>>
    /\ sync = [p \in Syncs |-> IdleSync]
    /\ listing \in Listings /\ clock = 0

-----------------------------------------------------------------------------
(* Manual prices                                                           *)

\* Mutant: only the last of the versions that begin before the new one is retired.
PublishAfterLast(scope, currency, from) ==
    /\ Len(versions) < MaxPublished
    /\ LET Ends(v) == /\ v.scope = scope /\ v.currency = currency
                      /\ v.status = "active" /\ v.from < from
       IN  versions' = Append([i \in DOMAIN versions |->
                                  IF Ends(versions[i]) /\ i = Len(versions) THEN [versions[i] EXCEPT !.status = "retired"]
                                                                            ELSE versions[i]],
                              [scope |-> scope, currency |-> currency, from |-> from, status |-> "active"])
    /\ UNCHANGED <<official, sync, listing, clock>>

\* PublishPrice retires the versions that begin before the new one, at once.
PublishPrice(scope, currency, from) ==
    /\ Len(versions) < MaxPublished
    /\ LET Ends(v) == /\ v.scope = scope /\ v.currency = currency
                      /\ v.status = "active" /\ v.from < from
       IN  versions' = Append([i \in DOMAIN versions |->
                                  IF Ends(versions[i]) THEN [versions[i] EXCEPT !.status = "retired"]
                                                       ELSE versions[i]],
                              [scope |-> scope, currency |-> currency, from |-> from, status |-> "active"])
    /\ UNCHANGED <<official, sync, listing, clock>>

InEffect(scope) ==
    {i \in DOMAIN versions : /\ versions[i].scope = scope
                             /\ versions[i].status = "active" /\ versions[i].from <= clock}

Unpriced == [source |-> "none", at |-> 0]
Manual(i)   == [source |-> "manual", at |-> i]
Official(i) == [source |-> "litellm", at |-> i]

\* resolveOfficialPrice: prices of the source are in USD.
ResolveOfficial(currency) ==
    LET found == {i \in DOMAIN official : official[i].from <= clock /\ clock < official[i].to}
        last  == {i \in found : \A j \in found : official[j].from <= official[i].from}
    IN  IF found = {} \/ currency # "USD" THEN Unpriced ELSE Official(CHOOSE i \in last : TRUE)

\* resolvePrice: of each scope the version published last, if its currency fits.
ResolvePrice(currency) ==
    LET newest(scope) == Max(InEffect(scope))
        fits == {n \in DOMAIN Scopes : /\ InEffect(Scopes[n]) # {}
                                       /\ versions[newest(Scopes[n])].currency = currency}
    IN  IF fits # {} THEN Manual(newest(Scopes[Min(fits)])) ELSE ResolveOfficial(currency)

\* ListPriceMatrix shows the platform's price, or else the official one.
ShownPrice ==
    LET usd  == {i \in InEffect("platform_default") : versions[i].currency = "USD"}
        late == {i \in usd : \A j \in usd : versions[j].from <= versions[i].from}
        open == {i \in DOMAIN official : official[i].to = Open}
    IN  CASE usd # {} -> Manual(Max(late))
          [] usd = {} /\ open # {} -> Official(CHOOSE i \in open : TRUE)
          [] usd = {} /\ open = {} -> Unpriced

-----------------------------------------------------------------------------
(* Synchronizations                                                        *)

SyncAt(p, pc) == sync[p].pc = pc

\* The source is read, and then the time.
Fetch(p) ==
    /\ SyncAt(p, "idle")
    /\ sync' = [sync EXCEPT ![p] = [pc |-> "fetched", listing |-> listing]]
    /\ UNCHANGED <<versions, official, listing, clock>>

Begin(p) ==
    /\ SyncAt(p, "fetched")
    /\ sync' = [sync EXCEPT ![p] = [pc |-> "begun", listing |-> sync[p].listing, at |-> clock]]
    /\ UNCHANGED <<versions, official, listing, clock>>

\* upsertPrice finds the open version; an unchanged price is only touched.
FindCurrent(p) ==
    /\ SyncAt(p, "begun")
    /\ LET price == FindPrice(sync[p].listing, ListingKeys)
           open  == {i \in DOMAIN official : official[i].to = Open}
           row   == IF open = {} THEN 0 ELSE CHOOSE i \in open : TRUE
       IN  sync' = [sync EXCEPT ![p] =
                       IF price = NoPrice \/ (row # 0 /\ official[row].price = price) THEN IdleSync
                       ELSE [pc |-> IF row = 0 THEN "insert" ELSE "close", listing |-> sync[p].listing,
                             at |-> sync[p].at, price |-> price, row |-> row]]
    /\ UNCHANGED <<versions, official, listing, clock>>

\* The row is locked until the end of the transaction.
CloseCurrent(p) ==
    /\ SyncAt(p, "close")
    /\ \A q \in Syncs \ {p} : sync[q].pc \in {"insert", "commit"} => sync[q].row # sync[p].row
    /\ sync' = [sync EXCEPT ![p].pc = "insert"]
    /\ UNCHANGED <<versions, official, listing, clock>>

\* Mutant: there is no unique index.
InsertAnyway(p) ==
    /\ SyncAt(p, "insert")
    /\ sync' = [sync EXCEPT ![p].pc = "commit"]
    /\ UNCHANGED <<versions, official, listing, clock>>

\* The index makes an insert wait for that of another transaction, and fail
\* beside an open version that this one does not close.
InsertVersion(p) ==
    /\ SyncAt(p, "insert")
    /\ \A q \in Syncs \ {p} : ~ SyncAt(q, "commit")
    /\ sync' = [sync EXCEPT ![p] = IF \E i \in DOMAIN official : official[i].to = Open /\ i # sync[p].row
                                   THEN IdleSync ELSE [@ EXCEPT !.pc = "commit"]]
    /\ UNCHANGED <<versions, official, listing, clock>>

CommitSync(p) ==
    /\ SyncAt(p, "commit")
    /\ official' = Append([i \in DOMAIN official |->
                              IF i = sync[p].row THEN [official[i] EXCEPT !.to = sync[p].at] ELSE official[i]],
                          [from |-> sync[p].at, to |-> Open, price |-> sync[p].price,
                           listing |-> sync[p].listing])
    /\ sync' = [sync EXCEPT ![p] = IdleSync]
    /\ UNCHANGED <<versions, listing, clock>>

\* The transaction fails, or its server stops.
AbortSync(p) ==
    /\ ~ SyncAt(p, "idle")
    /\ sync' = [sync EXCEPT ![p] = IdleSync]
    /\ UNCHANGED <<versions, official, listing, clock>>

Relist ==
    /\ listing' \in Listings \ {listing}
    /\ UNCHANGED <<versions, official, sync, clock>>

TickCatalog ==
    /\ clock < LastTime
    /\ clock' = clock + 1
    /\ UNCHANGED <<versions, official, sync, listing>>

SyncStep(p) ==
    \/ (Len(official) < MaxOfficial /\ Fetch(p)) \/ Begin(p) \/ FindCurrent(p)
    \/ CloseCurrent(p) \/ InsertVersion(p) \/ CommitSync(p) \/ AbortSync(p)

CatalogNext ==
    \/ \E s \in Range(Scopes), c \in Currencies, t \in 0 .. LastTime : PublishPrice(s, c, t)
    \/ \E p \in Syncs : SyncStep(p)
    \/ Relist \/ TickCatalog

CatalogSpec == CatalogInit /\ [][CatalogNext]_catalogVars

-----------------------------------------------------------------------------
\* What n input tokens cost by the components of an official version is what its
\* listing says of each of them.
AsListed(row, service, n) ==
    LET keys   == Range(ListingKeys) \cap DOMAIN row.listing
        record == CHOOSE r \in {row.listing[k] : k \in keys} : NormalizeRecord(r) = row.price
        steps  == AboveOf(record, "input_cost_per_token")
        tier   == IF \/ \E s \in steps.steps : s.tier = service
                     \/ <<"input_tokens", service>> \in DOMAIN row.price.components
                  THEN service ELSE ""
        by(k)  == IF steps.interval THEN k ELSE n
        charge == MeteredCharge(ComponentsFor(row.price), Only("input_tokens", n), 0, service)
    IN  /\ ~ charge.error
        /\ charge.amount = SumFunctionOnSet([k \in 1 .. n |-> ListedPrice(record, tier, by(k))], 1 .. n)

MaxUnits == 4

\* What is charged adds up, for a bill by its price and for a price by the listing
\* it was read from (metering.go, sync.go).
AmountsAreRight ==
    /\ ChargesAddUp
    /\ official # <<>> => \A service \in {"", "priority"}, n \in 0 .. MaxUnits :
          <<"input_tokens", "">> \in DOMAIN Last(official).price.components => AsListed(Last(official), service, n)

\* The official price of a call is the one that is shown, also while prices are
\* synchronized, at all times once there is one; and a manual price is never one
\* that a later publication for its scope and currency has replaced
\* (resolvePrice, ListPriceMatrix, Sync).
PricesAreCurrent ==
    /\ (official # <<>> /\ versions = <<>>) =>
          /\ ResolvePrice("USD") = ShownPrice /\ ShownPrice.source = "litellm"
          /\ \A i, j \in DOMAIN official : official[i].to = Open /\ official[j].to = Open => i = j
    /\ \A c \in Currencies :
          LET price == ResolvePrice(c)
          IN  price.source = "manual" =>
                 \A i \in DOMAIN versions :
                     (/\ i > price.at /\ versions[i].from <= clock /\ versions[i].currency = c)
                     => versions[i].scope # versions[price.at].scope

\* A call gets the price in effect of the narrowest scope that has one: README.md
\* says so, and that publishing creates a version without changing others.
CurrentPriceIsFound ==
    \A c \in Currencies, s \in DOMAIN Scopes :
        (\E i \in DOMAIN versions : /\ versions[i].scope = Scopes[s] /\ versions[i].currency = c
                                    /\ versions[i].from <= clock)
        => LET price == ResolvePrice(c)
           IN  price.source = "manual" /\ \E r \in 1 .. s : versions[price.at].scope = Scopes[r]
=============================================================================
