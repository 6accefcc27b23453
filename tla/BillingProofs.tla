--------------------------- MODULE BillingProofs ---------------------------
(***************************************************************************)
(* Theorems about the billing core, for any number of requests, tokens,    *)
(* tenants, channels and prices.                                           *)
(***************************************************************************)
EXTENDS Billing, TLAPS

RequestRow == [status : RequestStatus, channel : Channels \cup {NoChannel},
               model : Models \cup {NoModel}, usage : Usages \cup {NoUsage},
               settled : Nat]

ReservationRow == [status : ReservationStatus, reserved : Nat, settled : Nat,
                   released : Nat, estimate : Usages]

\* What holds of the rows of one request: its row q in model_requests, its
\* reservation v and the amount c the ledger shows under its charge key.
RowOK(q, v, c) ==
    /\ q.status # "none" => q.channel \in Channels /\ q.model = ModelOf[q.channel]
    /\ v.status = "none" => q.status # "settlement_pending"
    /\ v.status = "held" => q.status = "started"
    /\ v.status = "pending" => q.status = "settlement_pending"
    /\ v.status \in Open =>
          /\ v.reserved = Charge[ModelOf[q.channel]][v.estimate]
          /\ v.estimate \in {Prepared[ModelOf[q.channel]][u] : u \in Usages}
    /\ v.status \in {"released", "expired"} =>
          q.status = "failed" /\ v.released = v.reserved
    /\ v.status # "settled" => c = 0
    /\ v.status = "settled" =>
          /\ q.status = "settled"
          /\ v.settled = Charge[ModelOf[q.channel]][q.usage]
          /\ c = v.settled
          /\ q.settled = v.settled
          /\ v.settled <= v.reserved => v.released = v.reserved - v.settled

\* The inductive invariant.  TypeOK alone is not inductive: an amount is a
\* price only when the request is bound to a channel.
RowInv ==
    /\ TypeOK
    /\ \A r \in Requests : RowOK(request[r], reservation[r], chargeTx[r])

\* What RowInv says is what the runs check.
LEMMA RowInvImplies ==
    RowInv => RowsAgree /\ HoldMatchesChannel /\ BillFollowsChannel
<1>1. SUFFICES ASSUME RowInv PROVE RowsAgree /\ HoldMatchesChannel /\ BillFollowsChannel
  OBVIOUS
<1>2. RowsAgree
  BY <1>1 DEF RowInv, RowOK, RowsAgree
<1>3. HoldMatchesChannel
  BY <1>1 DEF RowInv, RowOK, HoldMatchesChannel
<1>4. BillFollowsChannel
  BY <1>1 DEF RowInv, RowOK, BillFollowsChannel
<1>5. QED
  BY <1>2, <1>3, <1>4

\* Prices are naturals, and every request has a tenant.
LEMMA Prices ==
    /\ \A m \in Models, u \in Usages : Charge[m][u] \in Nat /\ Prepared[m][u] \in Usages
    /\ \A c \in Channels : ModelOf[c] \in Models
    /\ \A r \in Requests : TokenOf[r] \in Tokens /\ TenantOfRequest(r) \in Tenants
BY AmountsAssumption, OwnershipAssumption DEF TenantOfRequest

\* The rows of a request that is open: it is bound to a channel, and its price
\* is that channel's.
LEMMA OpenIsBound ==
    ASSUME RowInv, NEW r \in Requests, reservation[r].status \in Open
    PROVE  /\ request[r].channel \in Channels
           /\ request[r].model = ModelOf[request[r].channel]
           /\ request[r].model \in Models
           /\ chargeTx[r] = 0
BY Prices DEF RowInv, RowOK, Open

\* A step that changes the rows of one request only, to rows that are in
\* order, keeps the rows of all requests in order.
LEMMA OneRowChanges ==
    ASSUME RowInv, NEW r \in Requests, NEW q, NEW v, NEW c,
           request' = [request EXCEPT ![r] = q],
           reservation' = [reservation EXCEPT ![r] = v],
           chargeTx' = [chargeTx EXCEPT ![r] = c],
           RowOK(q, v, c)
    PROVE  \A s \in Requests : RowOK(request'[s], reservation'[s], chargeTx'[s])
<1>1. SUFFICES ASSUME NEW s \in Requests
               PROVE  RowOK(request'[s], reservation'[s], chargeTx'[s])
  OBVIOUS
<1>2. RowOK(request[s], reservation[s], chargeTx[s])
  BY DEF RowInv
<1>3. CASE s = r
  <2>1. request'[s] = q /\ reservation'[s] = v /\ chargeTx'[s] = c
    BY <1>3 DEF RowInv, TypeOK
  <2>2. QED
    BY <2>1
<1>4. CASE s # r
  <2>1. /\ request'[s] = request[s] /\ reservation'[s] = reservation[s]
        /\ chargeTx'[s] = chargeTx[s]
    BY <1>4 DEF RowInv, TypeOK
  <2>2. QED
    BY <1>2, <2>1
<1>5. QED
  BY <1>3, <1>4

\* At the start no request has rows.
LEMMA InitRows == Init => RowInv
BY SizesAssumption DEF Init, RowInv, RowOK, TypeOK, NoRequest, NoReservation, NoCredit, Open,
   RequestStatus, ReservationStatus, Usages

-----------------------------------------------------------------------------
(* Every operation keeps RowInv.                                           *)

\* A step that leaves the rows alone needs its types only.
LEMMA NoRowChanges ==
    ASSUME RowInv, TypeOK', UNCHANGED <<request, reservation, chargeTx>>
    PROVE  RowInv'
BY DEF RowInv, RowOK, Open

\* A posting leaves the rows of requests alone.
LEMMA PostRows ==
    ASSUME RowInv, NEW t \in Tenants, NEW k \in CreditKeys, NEW a \in CreditAmounts,
           Credit(t, k, a) \/ Debit(t, k, a)
    PROVE  RowInv'
<1>1. a \in Nat /\ -a \in Int
  BY AmountsAssumption
<1>2. TypeOK'
  BY <1>1 DEF RowInv, TypeOK, Credit, Debit, Post
<1>3. QED
  BY <1>2, NoRowChanges DEF Credit, Debit, Post

\* Reserve inserts rows that are in order.
LEMMA ReserveRows ==
    ASSUME RowInv, NEW r \in Requests, NEW c \in Channels, NEW e \in Usages,
           Reserve(r, c, e)
    PROVE  RowInv'
<1> DEFINE kept == Prepared[ModelOf[c]][e]
           amount == Charge[ModelOf[c]][kept]
           q == [status |-> "started", channel |-> c, model |-> ModelOf[c],
                 usage |-> NoUsage, settled |-> 0]
           v == [status |-> "held", reserved |-> amount, settled |-> 0,
                 released |-> 0, estimate |-> kept]
<1>1. /\ ModelOf[c] \in Models /\ amount \in Nat /\ TenantOfRequest(r) \in Tenants
      /\ kept \in Usages
  BY Prices
<1>2. reservation[r].status # "settled" /\ chargeTx[r] = 0
  BY DEF RowInv, RowOK, Reserve
<1>3. /\ request' = [request EXCEPT ![r] = q]
      /\ reservation' = [reservation EXCEPT ![r] = v]
      /\ balance' = [balance EXCEPT ![TenantOfRequest(r)] = @ - amount]
      /\ UNCHANGED <<ledgerVars, spent, activeTokens, lapsed, batch>>
  BY DEF Reserve, Hold
<1>4. chargeTx' = [chargeTx EXCEPT ![r] = 0]
  BY <1>2, <1>3 DEF RowInv, TypeOK, ledgerVars
<1>5. RowOK(q, v, 0)
  BY DEF RowOK, Open
<1>6. q \in RequestRow /\ v \in ReservationRow
  BY <1>1 DEF RequestRow, ReservationRow, RequestStatus, ReservationStatus
<1>7. TypeOK'
  BY <1>1, <1>3, <1>6 DEF RowInv, TypeOK, ledgerVars, RequestRow, ReservationRow
<1>8. QED
  BY <1>3, <1>4, <1>5, <1>7, OneRowChanges DEF RowInv

\* A failover to the same model row changes the channel only.
LEMMA RebindSameRows ==
    ASSUME RowInv, NEW r \in Requests, NEW c \in Channels,
           reservation[r].status \in Open, RebindSameModel(r, c),
           UNCHANGED <<ledgerVars, spent, activeTokens, lapsed, batch>>
    PROVE  RowInv'
<1> DEFINE q == [request[r] EXCEPT !.channel = c]
<1>1. /\ request[r].model = ModelOf[request[r].channel] /\ ModelOf[c] = request[r].model
      /\ chargeTx[r] = 0
      /\ RowOK(request[r], reservation[r], chargeTx[r])
  BY OpenIsBound DEF RowInv, RebindSameModel
<1>2. /\ request' = [request EXCEPT ![r] = q]
      /\ reservation' = [reservation EXCEPT ![r] = reservation[r]]
      /\ chargeTx' = [chargeTx EXCEPT ![r] = 0]
  BY <1>1 DEF RebindSameModel, RowInv, TypeOK, ledgerVars
<1>3. RowOK(q, reservation[r], 0)
  BY <1>1 DEF RowOK, Open, RowInv, TypeOK
<1>4. q \in RequestRow
  BY DEF RequestRow, RowInv, TypeOK
<1> HIDE DEF q
<1>5. TypeOK'
  BY <1>2, <1>4 DEF RebindSameModel, RowInv, TypeOK, ledgerVars, RequestRow
<1>6. QED
  BY <1>2, <1>3, <1>5, OneRowChanges DEF RowInv

\* A failover to another model row re-prices the hold for what is left of the
\* estimate, and rebinds the request, together.
LEMMA RebindOtherRows ==
    ASSUME RowInv, NEW r \in Requests, NEW c \in Channels, NEW u \in Usages,
           reservation[r].status \in Open, RebindOtherModel(r, c, Prepared[ModelOf[c]][u]),
           UNCHANGED <<ledgerVars, spent, activeTokens, lapsed, batch>>
    PROVE  RowInv'
<1> DEFINE e == Prepared[ModelOf[c]][u]
           amount == Charge[ModelOf[c]][e]
           q == [request[r] EXCEPT !.channel = c, !.model = ModelOf[c]]
           v == [status |-> reservation[r].status, reserved |-> amount,
                 settled |-> reservation[r].settled, released |-> reservation[r].released,
                 estimate |-> e]
<1>1. /\ ModelOf[c] \in Models /\ amount \in Nat /\ TenantOfRequest(r) \in Tenants
      /\ e \in Usages /\ e \in {Prepared[ModelOf[c]][w] : w \in Usages}
  BY Prices
<1>2. chargeTx[r] = 0 /\ RowOK(request[r], reservation[r], chargeTx[r])
  BY OpenIsBound DEF RowInv
<1>3. /\ request' = [request EXCEPT ![r] = q]
      /\ chargeTx' = [chargeTx EXCEPT ![r] = 0]
      /\ balance' = [balance EXCEPT ![TenantOfRequest(r)] =
                       @ + reservation[r].reserved - amount]
  BY <1>2 DEF RebindOtherModel, RowInv, TypeOK, ledgerVars
<1>4. reservation' = [reservation EXCEPT ![r] = v]
  BY DEF RebindOtherModel, RowInv, TypeOK
<1>5. /\ q.status = request[r].status /\ q.channel = c /\ q.model = ModelOf[c]
      /\ q \in RequestRow
  BY <1>1 DEF RequestRow, RowInv, TypeOK
<1>6. v \in ReservationRow /\ v.status \in Open /\ v.reserved = amount /\ v.estimate = e
  BY <1>1 DEF ReservationRow, RowInv, TypeOK
<1> HIDE DEF q, v
<1>7. RowOK(q, v, 0)
  <2>1. /\ v.status = "held" => q.status = "started"
        /\ v.status = "pending" => q.status = "settlement_pending"
        /\ v.status = reservation[r].status
    BY <1>2, <1>5 DEF RowOK, v
  <2>2. QED
    BY <1>1, <1>5, <1>6, <2>1 DEF RowOK, Open
<1>8. TypeOK'
  <2>1. balance' \in [Tenants -> Int]
    <3> HIDE DEF amount
    <3>1. QED
      BY <1>1, <1>3 DEF RowInv, TypeOK
  <2>2. QED
    BY <1>3, <1>4, <1>5, <1>6, <2>1 DEF RowInv, TypeOK, ledgerVars, RequestRow, ReservationRow
<1>9. QED
  BY <1>3, <1>4, <1>7, <1>8, OneRowChanges DEF RowInv

\* A failover keeps the rows in order, whichever model row it goes to.
LEMMA RebindRows ==
    ASSUME RowInv, NEW r \in Requests, NEW c \in Channels,
           RebindReservationChannel(r, c)
    PROVE  RowInv'
<1>1. reservation[r].status \in Open /\ reservation[r].estimate \in Usages
  BY DEF RebindReservationChannel, RowInv, TypeOK
<1>2. QED
  BY <1>1, RebindSameRows, RebindOtherRows DEF RebindReservationChannel

\* Settle writes the bill of the bound channel into all three rows.
LEMMA SettleRows ==
    ASSUME RowInv, NEW r \in Requests, NEW u \in Usages, Settle(r, u)
    PROVE  RowInv'
<1> DEFINE actual == Charge[request[r].model][u]
           rest   == Larger(reservation[r].reserved - actual, 0)
           q == [request[r] EXCEPT !.status = "settled", !.usage = u, !.settled = actual]
           v == [reservation[r] EXCEPT !.status = "settled", !.settled = actual,
                                       !.released = rest]
<1>1. reservation[r].status \in Open
  BY DEF Settle
<1>2. /\ request[r].channel \in Channels /\ request[r].model \in Models
      /\ request[r].model = ModelOf[request[r].channel]
      /\ chargeTx[r] = 0
  BY <1>1, OpenIsBound
<1>3. /\ actual \in Nat /\ TenantOfRequest(r) \in Tenants /\ TokenOf[r] \in Tokens
      /\ reservation[r].reserved \in Nat
  BY <1>2, Prices DEF RowInv, TypeOK
<1>4. /\ rest \in Nat
      /\ actual <= reservation[r].reserved => rest = reservation[r].reserved - actual
  BY <1>3 DEF Larger
<1>5. /\ UNCHANGED <<creditTx, topup, activeTokens, lapsed, batch>>
      /\ request' = [request EXCEPT ![r] = q]
      /\ reservation' = [reservation EXCEPT ![r] = v]
      /\ chargeTx' = [chargeTx EXCEPT ![r] = actual]
      /\ spent' = [spent EXCEPT ![TokenOf[r]] = @ + actual]
      /\ revenue' = revenue + actual
      /\ balance' = [balance EXCEPT ![TenantOfRequest(r)] = @ + reservation[r].reserved - actual]
  <2>1. /\ UNCHANGED <<creditTx, topup, activeTokens, lapsed, batch>>
        /\ chargeTx' = [chargeTx EXCEPT ![r] = @ + actual]
        /\ spent' = [spent EXCEPT ![TokenOf[r]] = @ + actual]
        /\ revenue' = revenue + actual
        /\ balance' = [balance EXCEPT ![TenantOfRequest(r)] = @ + reservation[r].reserved - actual]
    BY DEF Settle, ChargeAndClose
  <2>2. request' = [request EXCEPT ![r] = q]
    BY DEF Settle, ChargeAndClose
  <2>3. reservation' = [reservation EXCEPT ![r] = v]
    BY DEF Settle, ChargeAndClose
  <2>4. chargeTx' = [chargeTx EXCEPT ![r] = actual]
    <3> HIDE DEF actual
    <3>1. QED
      BY <1>2, <1>3, <2>1 DEF RowInv, TypeOK
  <2>5. QED
    BY <2>1, <2>2, <2>3, <2>4
<1>6. RowOK(q, v, actual)
  BY <1>2, <1>3, <1>4 DEF RowOK, Open, RowInv, TypeOK
<1>7. q \in RequestRow /\ v \in ReservationRow
  <2> HIDE DEF actual, rest
  <2>1. request[r] \in RequestRow /\ reservation[r] \in ReservationRow
    BY DEF RowInv, TypeOK, RequestRow, ReservationRow
  <2>2. q \in RequestRow
    BY <1>3, <2>1 DEF RequestRow, RequestStatus
  <2>3. v \in ReservationRow
    BY <1>3, <1>4, <2>1 DEF ReservationRow, ReservationStatus
  <2>4. QED
    BY <2>2, <2>3
<1>8. TypeOK'
  <2> HIDE DEF q, v, actual
  <2>1. QED
    BY <1>3, <1>5, <1>7 DEF RowInv, TypeOK, RequestRow, ReservationRow
<1>9. QED
  BY <1>5, <1>6, <1>8, OneRowChanges DEF RowInv

\* A pending reservation keeps its channel and its hold.
LEMMA MarkRows ==
    ASSUME RowInv, NEW r \in Requests, NEW u \in Usages \cup {NoUsage},
           MarkSettlementPending(r, u)
    PROVE  RowInv'
<1> DEFINE use == IF u = NoUsage THEN request[r].usage ELSE u
           q == [request[r] EXCEPT !.status = "settlement_pending", !.usage = use]
           v == [reservation[r] EXCEPT !.status = "pending"]
<1>1. reservation[r].status \in Open
  BY DEF MarkSettlementPending
<1>2. /\ request[r].channel \in Channels
      /\ request[r].model = ModelOf[request[r].channel]
      /\ chargeTx[r] = 0
  BY <1>1, OpenIsBound
<1>3. /\ UNCHANGED <<balance, ledgerVars, spent, activeTokens, lapsed, batch>>
      /\ request' = [request EXCEPT ![r] = q]
      /\ reservation' = [reservation EXCEPT ![r] = v]
  BY DEF MarkSettlementPending, RowInv, TypeOK
<1>4. chargeTx' = [chargeTx EXCEPT ![r] = 0]
  BY <1>2, <1>3 DEF RowInv, TypeOK, ledgerVars
<1>5. RowOK(request[r], reservation[r], chargeTx[r])
  BY DEF RowInv
<1>6. RowOK(q, v, 0)
  BY <1>1, <1>2, <1>5 DEF RowOK, Open, RowInv, TypeOK
<1>7. q \in RequestRow /\ v \in ReservationRow
  <2>1. request[r] \in RequestRow /\ reservation[r] \in ReservationRow
    BY DEF RowInv, TypeOK, RequestRow, ReservationRow
  <2>2. use \in Usages \cup {NoUsage}
    BY <2>1 DEF RequestRow
  <2> HIDE DEF use
  <2>3. QED
    BY <2>1, <2>2 DEF RequestRow, ReservationRow, RequestStatus, ReservationStatus
<1>8. TypeOK'
  <2> HIDE DEF q, v
  <2>1. QED
    BY <1>3, <1>7 DEF RowInv, TypeOK, RequestRow, ReservationRow, ledgerVars
<1>9. QED
  BY <1>3, <1>4, <1>6, <1>8, OneRowChanges DEF RowInv

\* A release, by a failure report or by the sweep, closes both rows.
LEMMA ReleaseRows ==
    ASSUME RowInv, NEW r \in Requests, NEW target \in {"released", "expired"},
           Release(r, target), batch' \subseteq Requests
    PROVE  RowInv'
<1> DEFINE q == [request[r] EXCEPT !.status = "failed"]
           v == [reservation[r] EXCEPT !.status = target,
                                       !.released = reservation[r].reserved]
<1>1. reservation[r].status \in Open
  BY DEF Release, Open
<1>2. /\ request[r].channel \in Channels
      /\ request[r].model = ModelOf[request[r].channel]
      /\ chargeTx[r] = 0
  BY <1>1, OpenIsBound
<1>3. reservation[r].reserved \in Nat /\ TenantOfRequest(r) \in Tenants
  BY Prices DEF RowInv, TypeOK
<1>4. /\ UNCHANGED <<ledgerVars, spent, activeTokens, lapsed>>
      /\ request' = [request EXCEPT ![r] = q]
      /\ reservation' = [reservation EXCEPT ![r] = v]
      /\ balance' = [balance EXCEPT ![TenantOfRequest(r)] = @ + reservation[r].reserved]
  BY DEF Release, GiveBack, RowInv, TypeOK
<1>5. chargeTx' = [chargeTx EXCEPT ![r] = 0]
  BY <1>2, <1>4 DEF RowInv, TypeOK, ledgerVars
<1>6. RowOK(q, v, 0)
  BY <1>2 DEF RowOK, Open, RowInv, TypeOK
<1>7. q \in RequestRow /\ v \in ReservationRow
  <2>1. request[r] \in RequestRow /\ reservation[r] \in ReservationRow
    BY DEF RowInv, TypeOK, RequestRow, ReservationRow
  <2>2. QED
    BY <1>3, <2>1 DEF RequestRow, ReservationRow, RequestStatus, ReservationStatus
<1>8. TypeOK'
  <2> HIDE DEF q, v
  <2>1. QED
    BY <1>3, <1>4, <1>7 DEF RowInv, TypeOK, RequestRow, ReservationRow, ledgerVars
<1>9. QED
  BY <1>4, <1>5, <1>6, <1>8, OneRowChanges DEF RowInv

\* The operations of free requests change the request row only.
LEMMA FreeRows ==
    ASSUME RowInv, NEW r \in Requests, NEW q \in RequestRow,
           q.channel \in Channels, q.model = ModelOf[q.channel],
           q.status \in {"started", "settled", "failed"},
           reservation[r].status = "none",
           request' = [request EXCEPT ![r] = q],
           UNCHANGED <<balance, ledgerVars, spent, activeTokens, reservation,
                       lapsed, batch>>
    PROVE  RowInv'
<1>1. chargeTx[r] = 0
  BY DEF RowInv, RowOK
<1>2. /\ reservation' = [reservation EXCEPT ![r] = reservation[r]]
      /\ chargeTx' = [chargeTx EXCEPT ![r] = 0]
  BY <1>1 DEF RowInv, TypeOK, ledgerVars
<1>3. RowOK(q, reservation[r], 0)
  BY DEF RowOK, Open
<1>4. TypeOK'
  BY DEF RowInv, TypeOK, RequestRow, ledgerVars
<1>5. QED
  BY <1>2, <1>3, <1>4, OneRowChanges DEF RowInv

\* Each of the four operations of free requests.
LEMMA FreeStepRows ==
    ASSUME RowInv, NEW r \in Requests, FreeStep(r)
    PROVE  RowInv'
<1> USE DEF RequestRow, RequestStatus
<1>1. ASSUME NEW c \in Channels, StartFreeRequest(r, c) PROVE RowInv'
  <2> DEFINE q == [status |-> "started", channel |-> c, model |-> ModelOf[c],
                   usage |-> NoUsage, settled |-> 0]
  <2>1. q \in RequestRow
    BY Prices
  <2>2. reservation[r].status = "none"
    BY <1>1 DEF StartFreeRequest, RowInv, RowOK, TypeOK, Open, ReservationStatus
  <2>3. QED
    BY <1>1, <2>1, <2>2, FreeRows DEF StartFreeRequest
<1>2. ASSUME FreeStarted(r)
      PROVE  /\ request[r] \in RequestRow
             /\ request[r].channel \in Channels
             /\ request[r].model = ModelOf[request[r].channel]
             /\ reservation[r].status = "none"
  BY <1>2 DEF FreeStarted, RowInv, RowOK, TypeOK
<1>3. ASSUME NEW c \in Channels, RebindRequestChannel(r, c) PROVE RowInv'
  <2> DEFINE q == [request[r] EXCEPT !.channel = c, !.model = ModelOf[c]]
  <2>1. /\ FreeStarted(r)
        /\ UNCHANGED <<balance, ledgerVars, spent, activeTokens, reservation, lapsed, batch>>
        /\ request' = [request EXCEPT ![r] = q]
    BY <1>3 DEF RebindRequestChannel
  <2>2. q \in RequestRow /\ q.status = "started" /\ q.channel = c /\ q.model = ModelOf[c]
    BY <1>2, <2>1, Prices DEF FreeStarted
  <2> HIDE DEF q
  <2>3. QED
    BY <1>2, <2>1, <2>2, FreeRows
<1>4. ASSUME NEW u \in Usages, CompleteFreeRequest(r, u) PROVE RowInv'
  <2> DEFINE q == [request[r] EXCEPT !.status = "settled", !.usage = u]
  <2>1. /\ FreeStarted(r)
        /\ UNCHANGED <<balance, ledgerVars, spent, activeTokens, reservation, lapsed, batch>>
        /\ request' = [request EXCEPT ![r] = q]
    BY <1>4 DEF CompleteFreeRequest
  <2>2. q \in RequestRow /\ q.status = "settled" /\ q.channel = request[r].channel
        /\ q.model = request[r].model
    BY <1>2, <2>1
  <2> HIDE DEF q
  <2>3. QED
    BY <1>2, <2>1, <2>2, FreeRows
<1>5. CASE FailFreeRequest(r)
  <2> DEFINE q == [request[r] EXCEPT !.status = "failed"]
  <2>1. /\ FreeStarted(r)
        /\ UNCHANGED <<balance, ledgerVars, spent, activeTokens, reservation, lapsed, batch>>
        /\ request' = [request EXCEPT ![r] = q]
    BY <1>5 DEF FailFreeRequest
  <2>2. q \in RequestRow /\ q.status = "failed" /\ q.channel = request[r].channel
        /\ q.model = request[r].model
    BY <1>2, <2>1
  <2> HIDE DEF q
  <2>3. QED
    BY <1>2, <2>1, <2>2, FreeRows
<1>6. QED
  BY <1>1, <1>3, <1>4, <1>5 DEF FreeStep

\* Each of the operations of paid requests.
LEMMA PaidStepRows ==
    ASSUME RowInv, NEW r \in Requests, PaidStep(r)
    PROVE  RowInv'
<1>1. ASSUME NEW c \in Channels, NEW e \in Usages, Reserve(r, c, e) PROVE RowInv'
  BY <1>1, ReserveRows
<1>2. ASSUME NEW c \in Channels, RebindReservationChannel(r, c) PROVE RowInv'
  BY <1>2, RebindRows
<1>3. ASSUME NEW u \in Usages, Settle(r, u) PROVE RowInv'
  BY <1>3, SettleRows
<1>4. ASSUME NEW u \in Usages, SettleByModelRequestID(r, u) PROVE RowInv'
  BY <1>4, SettleRows DEF SettleByModelRequestID
<1>5. ASSUME NEW u \in (Usages \ {0}) \cup {NoUsage}, MarkSettlementPending(r, u)
      PROVE  RowInv'
  <2>1. u \in Usages \cup {NoUsage}
    OBVIOUS
  <2>2. QED
    BY <1>5, <2>1, MarkRows
<1>6. CASE Fail(r)
  <2>1. batch' \subseteq Requests
    BY <1>6 DEF Fail, RowInv, TypeOK
  <2>2. QED
    BY <1>6, <2>1, ReleaseRows DEF Fail
<1>7. CASE ExtendReservation(r)
  <2>1. TypeOK'
    BY <1>7 DEF ExtendReservation, RowInv, TypeOK, ledgerVars
  <2>2. QED
    BY <1>7, <2>1, NoRowChanges DEF ExtendReservation, ledgerVars
<1>8. QED
  BY <1>1, <1>2, <1>3, <1>4, <1>5, <1>6, <1>7, Zenon DEF PaidStep

\* Each step of the sweep.
LEMMA ReaperStepRows ==
    ASSUME RowInv, ReaperStep
    PROVE  RowInv'
<1>1. ASSUME NEW ids \in SUBSET Requests, ReaperScan(ids) PROVE RowInv'
  <2>1. TypeOK'
    BY <1>1 DEF ReaperScan, RowInv, TypeOK, ledgerVars
  <2>2. QED
    BY <1>1, <2>1, NoRowChanges DEF ReaperScan, ledgerVars
<1>2. ASSUME NEW r \in Requests, ReaperExpire(r) PROVE RowInv'
  <2>1. batch' \subseteq Requests
    BY <1>2 DEF ReaperExpire, RowInv, TypeOK
  <2>2. QED
    BY <1>2, <2>1, ReleaseRows DEF ReaperExpire
<1>3. ASSUME NEW r \in Requests, ReaperSkip(r) PROVE RowInv'
  <2>1. TypeOK'
    BY <1>3 DEF ReaperSkip, RowInv, TypeOK, ledgerVars
  <2>2. QED
    BY <1>3, <2>1, NoRowChanges DEF ReaperSkip, ledgerVars
<1>4. CASE ReaperAbort
  <2>1. TypeOK'
    BY <1>4 DEF ReaperAbort, RowInv, TypeOK, ledgerVars
  <2>2. QED
    BY <1>4, <2>1, NoRowChanges DEF ReaperAbort, ledgerVars
<1>5. QED
  BY <1>1, <1>2, <1>3, <1>4, Zenon DEF ReaperStep

\* Every step keeps RowInv.
LEMMA NextRows == RowInv /\ [Next]_vars => RowInv'
<1>1. SUFFICES ASSUME RowInv, [Next]_vars PROVE RowInv'
  OBVIOUS
<1>2. CASE AccountStep
  <2>1. ASSUME NEW t \in Tenants, NEW k \in CreditKeys, NEW a \in CreditAmounts,
               Credit(t, k, a) \/ Debit(t, k, a)
        PROVE  RowInv'
    BY <1>1, <2>1, PostRows
  <2>2. ASSUME NEW k \in Tokens, DeactivateToken(k) \/ ReactivateToken(k)
        PROVE  RowInv'
    <3>1. TypeOK' /\ UNCHANGED <<request, reservation, chargeTx>>
      BY <1>1, <2>2 DEF DeactivateToken, ReactivateToken, RowInv, TypeOK, ledgerVars
    <3>2. QED
      BY <1>1, <3>1, NoRowChanges
  <2>3. QED
    BY <1>2, <2>1, <2>2, Zenon DEF AccountStep
<1>3. ASSUME NEW r \in Requests, PaidStep(r) PROVE RowInv'
  BY <1>1, <1>3, PaidStepRows
<1>4. ASSUME NEW r \in Requests, FreeStep(r) PROVE RowInv'
  BY <1>1, <1>4, FreeStepRows
<1>5. ASSUME NEW r \in Requests, Lapse(r) PROVE RowInv'
  <2>1. TypeOK' /\ UNCHANGED <<request, reservation, chargeTx>>
    BY <1>1, <1>5 DEF Lapse, RowInv, TypeOK, ledgerVars
  <2>2. QED
    BY <1>1, <2>1, NoRowChanges
<1>6. CASE ReaperStep
  BY <1>1, <1>6, ReaperStepRows
<1>7. CASE UNCHANGED vars
  <2>1. TypeOK' /\ UNCHANGED <<request, reservation, chargeTx>>
    BY <1>1, <1>7 DEF vars, RowInv, TypeOK
  <2>2. QED
    BY <1>1, <2>1, NoRowChanges
<1>8. QED
  BY <1>1, <1>2, <1>3, <1>4, <1>5, <1>6, <1>7, Zenon DEF Next

-----------------------------------------------------------------------------
(* The theorems.                                                           *)

\* RowInv is an invariant of the billing core.
LEMMA RowsInvariant == Spec => []RowInv
<1>1. QED
  BY InitRows, NextRows, PTL DEF Spec

\* Every variable keeps its type: amounts that must not be negative are not.
THEOREM TypeCorrect == Spec => []TypeOK
<1>1. RowInv => TypeOK
  BY DEF RowInv
<1>2. QED
  BY <1>1, RowsInvariant, PTL

\* The request row and the reservation tell the same story.
THEOREM RowsAlwaysAgree == Spec => []RowsAgree
BY RowsInvariant, RowInvImplies, PTL

\* A settled request carries the bill of the channel that served it, in every
\* place that shows it; a request that was not settled has no charge.
THEOREM BillAlwaysFollowsChannel == Spec => []BillFollowsChannel
BY RowsInvariant, RowInvImplies, PTL

\* The hold of an open request is priced by the channel it is bound to.
THEOREM HoldAlwaysMatchesChannel == Spec => []HoldMatchesChannel
BY RowsInvariant, RowInvImplies, PTL

\* Hold and bill are those of the channel a request is bound to.
THEOREM PricesFollowTheChannel == Spec => []PricedByChannel
<1>1. HoldMatchesChannel /\ BillFollowsChannel => PricedByChannel
  BY DEF PricedByChannel
<1>2. QED
  BY <1>1, BillAlwaysFollowsChannel, HoldAlwaysMatchesChannel, PTL

-----------------------------------------------------------------------------
(* What no step may do to a closed or a pending request.                   *)

Rows(r)  == <<request[r], reservation[r], chargeTx[r]>>

\* A failover to another model row leaves the statuses and the other rows alone.
LEMMA RebindOtherKeeps ==
    ASSUME RowInv, NEW r \in Requests, NEW c, NEW e, RebindOtherModel(r, c, e)
    PROVE  /\ request'[r].status = request[r].status /\ request'[r].channel = c
           /\ reservation'[r].status = reservation[r].status
           /\ \A s \in Requests \ {r} :
                 request'[s] = request[s] /\ reservation'[s] = reservation[s]
<1> DEFINE amount == Charge[ModelOf[c]][e]
           q == [request[r] EXCEPT !.channel = c, !.model = ModelOf[c]]
           v == [status |-> reservation[r].status, reserved |-> amount,
                 settled |-> reservation[r].settled, released |-> reservation[r].released,
                 estimate |-> e]
<1>1. request' = [request EXCEPT ![r] = q] /\ reservation' = [reservation EXCEPT ![r] = v]
  BY DEF RebindOtherModel, RowInv, TypeOK
<1>2. q.status = request[r].status /\ q.channel = c /\ v.status = reservation[r].status
  BY DEF RowInv, TypeOK
<1> HIDE DEF q, v
<1>3. QED
  BY <1>1, <1>2 DEF RowInv, TypeOK

\* An operation on request s leaves the rows of every other request alone; it
\* needs request s to be absent, open, or free and started; and a pending
\* reservation is left pending or settled.
LEMMA RowSteps ==
    ASSUME RowInv, NEW s \in Requests,
           PaidStep(s) \/ FreeStep(s) \/ Release(s, "expired")
    PROVE  /\ \A r \in Requests : r # s => UNCHANGED Rows(r)
           /\ request[s].status \in {"none", "started", "settlement_pending"}
           /\ reservation[s].status = "pending" =>
                 reservation'[s].status \in {"pending", "settled"}
<1> DEFINE Goal == /\ \A r \in Requests : r # s => UNCHANGED Rows(r)
                   /\ request[s].status \in {"none", "started", "settlement_pending"}
                   /\ reservation[s].status = "pending" =>
                         reservation'[s].status \in {"pending", "settled"}
<1> SUFFICES Goal
  OBVIOUS
<1> USE DEF Rows, ledgerVars
<1>1. /\ request \in [Requests -> RequestRow]
      /\ reservation \in [Requests -> ReservationRow]
      /\ chargeTx \in [Requests -> Nat]
      /\ RowOK(request[s], reservation[s], chargeTx[s])
  BY DEF RowInv, TypeOK, RequestRow, ReservationRow
<1>2. /\ reservation[s].status \in Open =>
            request[s].status \in {"started", "settlement_pending"}
      /\ request[s].status = "none" => reservation[s].status = "none"
  BY <1>1 DEF RowOK, Open, ReservationRow, ReservationStatus
<1>3. ASSUME NEW c \in Channels, NEW e \in Usages, Reserve(s, c, e) PROVE Goal
  BY <1>1, <1>2, <1>3 DEF Reserve, Hold
<1>4. ASSUME NEW c \in Channels, RebindReservationChannel(s, c) PROVE Goal
  <2>1. CASE RebindSameModel(s, c)
    BY <1>1, <1>2, <1>4, <2>1 DEF RebindReservationChannel, RebindSameModel
  <2>2. CASE RebindOtherModel(s, c, Prepared[ModelOf[c]][reservation[s].estimate])
    BY <1>1, <1>2, <1>4, <2>2, RebindOtherKeeps DEF RebindReservationChannel, ReservationRow
  <2>3. QED
    BY <1>4, <2>1, <2>2 DEF RebindReservationChannel
<1>5. ASSUME NEW u \in Usages, Settle(s, u) PROVE Goal
  BY <1>1, <1>2, <1>5 DEF Settle, ChargeAndClose, ReservationRow
<1>6. ASSUME NEW u, MarkSettlementPending(s, u) PROVE Goal
  BY <1>1, <1>2, <1>6 DEF MarkSettlementPending, ReservationRow
<1>7. ASSUME NEW target, Release(s, target) PROVE Goal
  BY <1>1, <1>2, <1>7 DEF Release, GiveBack, ReservationRow, Open
<1>8. CASE ExtendReservation(s)
  BY <1>1, <1>2, <1>8 DEF ExtendReservation
<1>9. CASE PaidStep(s)
  <2>1. ASSUME NEW u \in Usages, SettleByModelRequestID(s, u) PROVE Goal
    BY <1>5, <2>1 DEF SettleByModelRequestID
  <2>2. CASE Fail(s)
    BY <1>7, <2>2 DEF Fail
  <2> HIDE DEF Goal
  <2>3. QED
    BY <1>3, <1>4, <1>5, <1>6, <1>8, <1>9, <2>1, <2>2, Zenon DEF PaidStep
<1>10. CASE FreeStep(s)
  <2>1. ASSUME NEW c \in Channels, StartFreeRequest(s, c) PROVE Goal
    BY <1>1, <1>2, <2>1 DEF StartFreeRequest
  <2>2. ASSUME NEW c \in Channels, RebindRequestChannel(s, c) PROVE Goal
    BY <1>1, <2>2 DEF RebindRequestChannel, FreeStarted
  <2>3. ASSUME NEW u \in Usages, CompleteFreeRequest(s, u) PROVE Goal
    BY <1>1, <2>3 DEF CompleteFreeRequest, FreeStarted
  <2>4. CASE FailFreeRequest(s)
    BY <1>1, <2>4 DEF FailFreeRequest, FreeStarted
  <2> HIDE DEF Goal
  <2>5. QED
    BY <1>10, <2>1, <2>2, <2>3, <2>4, Zenon DEF FreeStep
<1>11. QED
  BY <1>7, <1>9, <1>10

\* Every step is an operation on one request or leaves all rows alone.
LEMMA StepsAreRowSteps ==
    ASSUME RowInv, [Next]_vars
    PROVE  \/ \E s \in Requests : PaidStep(s) \/ FreeStep(s) \/ Release(s, "expired")
           \/ UNCHANGED <<request, reservation, chargeTx>>
<1>1. CASE AccountStep
  BY <1>1 DEF AccountStep, Credit, Debit, Post, DeactivateToken, ReactivateToken, ledgerVars
<1>2. ASSUME NEW s \in Requests, Lapse(s)
      PROVE  UNCHANGED <<request, reservation, chargeTx>>
  BY <1>2 DEF Lapse, ledgerVars
<1>3. CASE ReaperStep
  BY <1>3 DEF ReaperStep, ReaperScan, ReaperExpire, ReaperSkip, ReaperAbort, ledgerVars
<1>4. CASE UNCHANGED vars
  BY <1>4 DEF vars
<1>5. QED
  BY <1>1, <1>2, <1>3, <1>4 DEF Next

\* A closed request stays as it is.
THEOREM ClosedStaysClosed == Spec => ClosedIsFinal
<1> DEFINE Final == \A r \in Requests :
                       request[r].status \in {"settled", "failed"} =>
                          /\ request'[r] = request[r]
                          /\ reservation'[r] = reservation[r]
                          /\ chargeTx'[r] = chargeTx[r]
<1>1. ASSUME RowInv, [Next]_vars PROVE Final
  <2>1. ASSUME NEW s \in Requests, PaidStep(s) \/ FreeStep(s) \/ Release(s, "expired")
        PROVE  Final
    BY <1>1, <2>1, RowSteps DEF Rows
  <2>2. CASE UNCHANGED <<request, reservation, chargeTx>>
    BY <2>2
  <2> HIDE DEF Final
  <2>3. QED
    BY <1>1, <2>1, <2>2, StepsAreRowSteps, Zenon
<1>2. QED
  BY <1>1, RowsInvariant, PTL DEF Spec, ClosedIsFinal

\* A reservation that awaits reconciliation is not released.
THEOREM PendingIsOnlySettled == Spec => PendingOnlySettles
<1> DEFINE Kept == \A r \in Requests :
                      reservation[r].status = "pending" =>
                         reservation'[r].status \in {"pending", "settled"}
<1>1. ASSUME RowInv, [Next]_vars PROVE Kept
  <2>1. ASSUME NEW s \in Requests, PaidStep(s) \/ FreeStep(s) \/ Release(s, "expired")
        PROVE  Kept
    BY <1>1, <2>1, RowSteps DEF Rows
  <2>2. CASE UNCHANGED <<request, reservation, chargeTx>>
    BY <2>2
  <2> HIDE DEF Kept
  <2>3. QED
    BY <1>1, <2>1, <2>2, StepsAreRowSteps, Zenon
<1>2. QED
  BY <1>1, RowsInvariant, PTL DEF Spec, PendingOnlySettles

\* A request is decided once, and one that awaits settlement is settled.
THEOREM RequestsAreDecidedOnce == Spec => DecidedOnce
BY ClosedStaysClosed, PendingIsOnlySettled DEF DecidedOnce

-----------------------------------------------------------------------------
(* What the operations of Billing do to the rows of a request              *)

\* The rows of the other requests stay.
OthersKept(r) ==
    \A s \in Requests \ {r} : request'[s] = request[s] /\ reservation'[s] = reservation[s]

\* The statuses and the channel after an operation on r.
Becomes(r, q, v, c) ==
    /\ request'[r].status = q /\ reservation'[r].status = v /\ request'[r].channel = c
    /\ OthersKept(r)

\* The pairs of statuses that RowInv allows.
LEMMA StatusPairs ==
    ASSUME RowInv, NEW r \in Requests
    PROVE  /\ request[r].status = "none" => reservation[r].status = "none"
           /\ reservation[r].status = "held" => request[r].status = "started"
           /\ reservation[r].status = "pending" <=> request[r].status = "settlement_pending"
           /\ reservation[r].status \in {"released", "expired"} => request[r].status = "failed"
           /\ reservation[r].status = "settled" => request[r].status = "settled"
           /\ reservation[r].status \in Closed \/ reservation[r].status \in Open
                 \/ reservation[r].status = "none"
<1>1. /\ RowOK(request[r], reservation[r], chargeTx[r])
      /\ request[r].status \in RequestStatus /\ reservation[r].status \in ReservationStatus
  BY DEF RowInv, TypeOK
<1> QED BY <1>1 DEF RowOK, Open, Closed, RequestStatus, ReservationStatus

\* Paid requests.
LEMMA PaidEffects ==
    ASSUME RowInv, NEW r \in Requests
    PROVE  /\ \A c \in Channels, e \in Usages : Reserve(r, c, e) =>
                 request[r].status = "none" /\ Becomes(r, "started", "held", c)
           /\ \A c \in Channels : RebindReservationChannel(r, c) =>
                 /\ reservation[r].status \in Open
                 /\ Becomes(r, request[r].status, reservation[r].status, c)
           /\ \A u \in Usages : Settle(r, u) =>
                 /\ reservation[r].status \in Open
                 /\ Becomes(r, "settled", "settled", request[r].channel)
           /\ \A u \in Usages \cup {NoUsage} : MarkSettlementPending(r, u) =>
                 /\ reservation[r].status \in Open
                 /\ Becomes(r, "settlement_pending", "pending", request[r].channel)
           /\ \A target : Release(r, target) =>
                 /\ reservation[r].status = "held"
                 /\ Becomes(r, "failed", target, request[r].channel)
<1>1. /\ request \in [Requests -> RequestRow]
      /\ reservation \in [Requests -> ReservationRow]
  BY DEF RowInv, TypeOK, RequestRow, ReservationRow
<1> USE DEF Becomes, OthersKept
<1>2. ASSUME NEW c \in Channels, NEW e \in Usages, Reserve(r, c, e)
      PROVE  request[r].status = "none" /\ Becomes(r, "started", "held", c)
  BY <1>1, <1>2 DEF Reserve, Hold
<1>3. ASSUME NEW c \in Channels, RebindReservationChannel(r, c)
      PROVE  /\ reservation[r].status \in Open
             /\ Becomes(r, request[r].status, reservation[r].status, c)
  <2>1. CASE RebindSameModel(r, c)
    BY <1>1, <1>3, <2>1 DEF RebindReservationChannel, RebindSameModel, RequestRow
  <2>2. CASE RebindOtherModel(r, c, Prepared[ModelOf[c]][reservation[r].estimate])
    BY <1>3, <2>2, RebindOtherKeeps DEF RebindReservationChannel
  <2> QED BY <1>3, <2>1, <2>2 DEF RebindReservationChannel
<1>4. ASSUME NEW u \in Usages, Settle(r, u)
      PROVE  /\ reservation[r].status \in Open
             /\ Becomes(r, "settled", "settled", request[r].channel)
  BY <1>1, <1>4 DEF Settle, ChargeAndClose, RequestRow, ReservationRow
<1>5. ASSUME NEW u \in Usages \cup {NoUsage}, MarkSettlementPending(r, u)
      PROVE  /\ reservation[r].status \in Open
             /\ Becomes(r, "settlement_pending", "pending", request[r].channel)
  BY <1>1, <1>5 DEF MarkSettlementPending, RequestRow, ReservationRow
<1>6. ASSUME NEW target, Release(r, target)
      PROVE  /\ reservation[r].status = "held"
             /\ Becomes(r, "failed", target, request[r].channel)
  BY <1>1, <1>6 DEF Release, GiveBack, RequestRow, ReservationRow
<1> QED BY <1>2, <1>3, <1>4, <1>5, <1>6

\* Requests of a free group.
LEMMA FreeEffects ==
    ASSUME RowInv, NEW r \in Requests
    PROVE  /\ \A c \in Channels : StartFreeRequest(r, c) =>
                 request[r].status = "none" /\ Becomes(r, "started", "none", c)
           /\ \A c \in Channels : RebindRequestChannel(r, c) =>
                 FreeStarted(r) /\ Becomes(r, "started", "none", c)
           /\ \A u \in Usages : CompleteFreeRequest(r, u) =>
                 FreeStarted(r) /\ Becomes(r, "settled", "none", request[r].channel)
           /\ FailFreeRequest(r) =>
                 FreeStarted(r) /\ Becomes(r, "failed", "none", request[r].channel)
<1>1. /\ request \in [Requests -> RequestRow]
      /\ reservation \in [Requests -> ReservationRow]
      /\ request[r].status = "none" => reservation[r].status = "none"
  BY StatusPairs DEF RowInv, TypeOK, RequestRow, ReservationRow
<1> USE DEF Becomes, OthersKept
<1>2. ASSUME NEW c \in Channels, StartFreeRequest(r, c)
      PROVE  request[r].status = "none" /\ Becomes(r, "started", "none", c)
  BY <1>1, <1>2 DEF StartFreeRequest
<1>3. ASSUME NEW c \in Channels, RebindRequestChannel(r, c)
      PROVE  FreeStarted(r) /\ Becomes(r, "started", "none", c)
  BY <1>1, <1>3 DEF RebindRequestChannel, FreeStarted, RequestRow
<1>4. ASSUME NEW u \in Usages, CompleteFreeRequest(r, u)
      PROVE  FreeStarted(r) /\ Becomes(r, "settled", "none", request[r].channel)
  BY <1>1, <1>4 DEF CompleteFreeRequest, FreeStarted, RequestRow
<1>5. ASSUME FailFreeRequest(r)
      PROVE  FreeStarted(r) /\ Becomes(r, "failed", "none", request[r].channel)
  BY <1>1, <1>5 DEF FailFreeRequest, FreeStarted, RequestRow
<1> QED BY <1>2, <1>3, <1>4, <1>5

\* The operations that callers use are steps of Billing.
LEMMA OperationsAreSteps ==
    ASSUME NEW r \in Requests
    PROVE  /\ \A c \in Channels, e \in Usages : Reserve(r, c, e) => Next
           /\ \A c \in Channels : RebindReservationChannel(r, c) => Next
           /\ \A u \in Usages : Settle(r, u) => Next
           /\ \A u \in (Usages \ {0}) \cup {NoUsage} : MarkSettlementPending(r, u) => Next
           /\ Fail(r) => Next
           /\ \A c \in Channels : StartFreeRequest(r, c) \/ RebindRequestChannel(r, c) => Next
           /\ \A u \in Usages : CompleteFreeRequest(r, u) => Next
           /\ FailFreeRequest(r) => Next
BY Zenon DEF Next, PaidStep, FreeStep

\* What the sweep, operators and accounts do to the rows of a request: they
\* settle what is pending and expire what is held.
LEMMA OthersEffect ==
    ASSUME RowInv, NEW s \in Requests,
           \/ AccountStep \/ ReaperStep
           \/ \E r \in Requests : Lapse(r)
           \/ \E r \in Requests, u \in Usages : SettleByModelRequestID(r, u)
    PROVE  \/ request'[s] = request[s] /\ reservation'[s] = reservation[s]
           \/ /\ reservation[s].status = "held"
              /\ Becomes(s, "failed", "expired", request[s].channel)
           \/ /\ reservation[s].status = "pending"
              /\ Becomes(s, "settled", "settled", request[s].channel)
<1>1. CASE AccountStep
  BY <1>1 DEF AccountStep, Credit, Debit, Post, DeactivateToken, ReactivateToken
<1>2. CASE \E r \in Requests : Lapse(r)
  BY <1>2 DEF Lapse
<1>3. ASSUME NEW r \in Requests, NEW u \in Usages, SettleByModelRequestID(r, u)
      PROVE  /\ reservation[r].status = "pending"
             /\ Becomes(r, "settled", "settled", request[r].channel)
  BY <1>3, PaidEffects DEF SettleByModelRequestID
<1>4. ASSUME NEW r \in Requests, ReaperExpire(r)
      PROVE  /\ reservation[r].status = "held"
             /\ Becomes(r, "failed", "expired", request[r].channel)
  BY <1>4, PaidEffects DEF ReaperExpire
<1>5. CASE \/ \E ids \in SUBSET Requests : ReaperScan(ids)
           \/ \E r \in Requests : ReaperSkip(r)
           \/ ReaperAbort
  BY <1>5 DEF ReaperScan, ReaperSkip, ReaperAbort
<1> QED BY <1>1, <1>2, <1>3, <1>4, <1>5 DEF ReaperStep, Becomes, OthersKept
=============================================================================
