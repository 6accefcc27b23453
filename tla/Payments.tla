----------------------------- MODULE Payments -----------------------------
(***************************************************************************)
(* Online recharge: internal/payments.                                     *)
(*                                                                         *)
(* CreateOrder places an order, opens a checkout at the provider and saves *)
(* its link.  The customer pays there; or, with PayPal, approves, and the  *)
(* platform captures the money.  Callbacks are repeated by the provider    *)
(* and run at the same time; settleCallback reads the order, judges its    *)
(* age, credits the account and marks the order paid, each a statement or  *)
(* transaction of its own.  The server may stop between any two of them.   *)
(*                                                                         *)
(* Abstractions: signatures, currencies and amounts of verified callbacks  *)
(* (they match the order), provider configuration other than its rate.  An *)
(* order is named after the CreateOrder call that places it.               *)
(***************************************************************************)
EXTENDS Naturals

CONSTANTS
    Calls,       \* CreateOrder requests
    Handlers,    \* server goroutines that settle payments
    Key,         \* [Calls -> keys], their idempotency keys
    Amount,      \* [Calls -> Nat], what the customer pays
    Captured,    \* the calls paid by capture (PayPal)
    Rates,       \* recharge rates an administrator may set
    Lifetime,    \* orderLifetime
    MaxTime,     \* bound of the clock
    None

ASSUME PaymentsAssumption ==
    /\ Amount \in [Calls -> Nat \ {0}]
    /\ Captured \subseteq Calls
    /\ Rates \subseteq Nat \ {0}
    /\ Lifetime \in Nat /\ MaxTime \in Nat
    /\ None \notin Calls

VARIABLES
    order,      \* payment_orders
    checkout,   \* the provider's side of each order
    credited,   \* the sum of the credits posted for each order
    call,       \* the CreateOrder requests
    handler,    \* the settlements that are running
    rate,       \* recharge_rate
    now

vars == <<order, checkout, credited, call, handler, rate, now>>

Statuses == {"absent", "pending", "paid", "failed", "expired"}
CallPCs  == {"idle", "quoted", "placed", "opened", "failing", "done"}
HandlerPCs == {"idle", "capture", "lookup", "judge", "credit", "mark"}

NoOrder == [status |-> "absent", credit |-> 0, expires |-> 0, linked |-> FALSE]
Free    == [pc |-> "idle", order |-> None]

Exists(c) == order[c].status # "absent"

\* Mutant: the update has no condition on the status.
CloseAnyway(c, s) == order' = [order EXCEPT ![c].status = s]

\* UPDATE payment_orders SET status = s WHERE status = 'pending'
CloseIfPending(c, s) ==
    order' = IF order[c].status = "pending"
               THEN [order EXCEPT ![c].status = s] ELSE order

Init ==
    /\ order = [c \in Calls |-> NoOrder]
    /\ checkout = [c \in Calls |-> "none"]
    /\ credited = [c \in Calls |-> 0]
    /\ call = [c \in Calls |-> [pc |-> "idle", credit |-> 0]]
    /\ handler = [h \in Handlers |-> Free]
    /\ rate \in Rates
    /\ now = 0

-----------------------------------------------------------------------------
(* CreateOrder                                                             *)

Step(c, from, to) ==
    /\ call[c].pc = from
    /\ call' = [call EXCEPT ![c].pc = to]

\* The configuration is read and the credit computed (applyRechargeRate).
Quote(c) ==
    /\ call[c].pc = "idle"
    /\ call' = [call EXCEPT ![c] = [pc |-> "quoted", credit |-> Amount[c] * rate]]
    /\ UNCHANGED <<order, checkout, credited, handler, rate, now>>

NewOrder(c) == [status |-> "pending", credit |-> call[c].credit,
                expires |-> now + Lifetime, linked |-> FALSE]

\* Mutant: the key is not unique.
PlaceAgain(c) ==
    /\ Step(c, "quoted", "placed")
    /\ order' = [order EXCEPT ![c] = NewOrder(c)]
    /\ UNCHANGED <<checkout, credited, handler, rate, now>>

\* The insert, unless an order with the key exists already, which the look-up
\* before or the unique index tells.
Place(c) ==
    /\ \A d \in Calls : Exists(d) => Key[d] # Key[c]
    /\ Step(c, "quoted", "placed")
    /\ order' = [order EXCEPT ![c] = NewOrder(c)]
    /\ UNCHANGED <<checkout, credited, handler, rate, now>>

AnswerExisting(c) ==
    /\ \E d \in Calls : Exists(d) /\ Key[d] = Key[c]
    /\ Step(c, "quoted", "done")
    /\ UNCHANGED <<order, checkout, credited, handler, rate, now>>

\* The provider opens a checkout; its answer may be lost.
OpenCheckout(c) ==
    /\ Step(c, "placed", "opened") \/ Step(c, "placed", "failing")
    /\ checkout' = [checkout EXCEPT ![c] = "open"]
    /\ UNCHANGED <<order, credited, handler, rate, now>>

ProviderRefuses(c) ==
    /\ Step(c, "placed", "failing")
    /\ UNCHANGED <<order, checkout, credited, handler, rate, now>>

MarkFailed(c) ==
    /\ Step(c, "failing", "done")
    /\ CloseIfPending(c, "failed")
    /\ UNCHANGED <<checkout, credited, handler, rate, now>>

\* Mutant: an order whose checkout could not be reported is marked failed.
SaveOrFail(c) ==
    /\ order' = [order EXCEPT ![c].linked = TRUE]
    /\ Step(c, "opened", "done") \/ Step(c, "opened", "failing")
    /\ UNCHANGED <<checkout, credited, handler, rate, now>>

\* updateProviderOrder: from here the customer has the link.
SaveCheckout(c) ==
    /\ Step(c, "opened", "done")
    /\ order' = [order EXCEPT ![c].linked = TRUE]
    /\ UNCHANGED <<checkout, credited, handler, rate, now>>

\* A call fails, loses its client or its server.
AbortCall(c) ==
    /\ call[c].pc \notin {"idle", "done"}
    /\ call' = [call EXCEPT ![c].pc = "done"]
    /\ UNCHANGED <<order, checkout, credited, handler, rate, now>>

-----------------------------------------------------------------------------
(* The customer at the provider, whose checkout knows no expiry            *)

Pay(c) ==
    /\ order[c].linked /\ checkout[c] = "open"
    /\ checkout' = [checkout EXCEPT ![c] = IF c \in Captured THEN "approved" ELSE "taken"]
    /\ UNCHANGED <<order, credited, call, handler, rate, now>>

-----------------------------------------------------------------------------
(* Settlement                                                              *)

Goto(h, from, to) ==
    /\ handler[h].pc = from
    /\ handler' = [handler EXCEPT ![h].pc = to]

Leave(h) == handler' = [handler EXCEPT ![h] = Free]

\* A verified callback of a payment; the provider repeats it.
Deliver(h, c) ==
    /\ handler[h].pc = "idle"
    /\ checkout[c] = "taken"
    /\ handler' = [handler EXCEPT ![h] = [pc |-> "lookup", order |-> c]]
    /\ UNCHANGED <<order, checkout, credited, call, rate, now>>

\* CapturePayPal until its request to PayPal.
BeginCapture(h, c) ==
    /\ handler[h].pc = "idle"
    /\ c \in Captured /\ Exists(c)
    /\ order[c].status # "paid" /\ order[c].linked
    /\ handler' = [handler EXCEPT ![h] = [pc |-> "capture", order |-> c]]
    /\ UNCHANGED <<order, checkout, credited, call, rate, now>>

\* Mutant: the status of the capture is not looked at.
CaptureUnchecked(h) ==
    /\ Goto(h, "capture", "lookup")
    /\ UNCHANGED <<order, checkout, credited, call, rate, now>>

\* PayPal captures what was approved, once.
Capture(h) ==
    /\ Goto(h, "capture", "lookup")
    /\ checkout[handler[h].order] = "approved"
    /\ checkout' = [checkout EXCEPT ![handler[h].order] = "taken"]
    /\ UNCHANGED <<order, credited, call, rate, now>>

\* settleCallback: its look-up of the order
FindPending(h) ==
    /\ Goto(h, "lookup", "judge")
    /\ order[handler[h].order].status = "pending"
    /\ UNCHANGED <<order, checkout, credited, call, rate, now>>

FindClosed(h) ==
    /\ handler[h].pc = "lookup"
    /\ order[handler[h].order].status # "pending"
    /\ Leave(h)
    /\ UNCHANGED <<order, checkout, credited, call, rate, now>>

\* Mutant: the order is marked without its credit.
InTimeUncredited(h) ==
    /\ Goto(h, "judge", "mark")
    /\ UNCHANGED <<order, checkout, credited, call, rate, now>>

InTime(h) ==
    /\ Goto(h, "judge", "credit")
    /\ now <= order[handler[h].order].expires
    /\ UNCHANGED <<order, checkout, credited, call, rate, now>>

TooLate(h) ==
    /\ handler[h].pc = "judge"
    /\ now > order[handler[h].order].expires
    /\ CloseIfPending(handler[h].order, "expired")
    /\ Leave(h)
    /\ UNCHANGED <<checkout, credited, call, rate, now>>

\* The ledger has one transaction for the key "payment:credit:<order>".
PostAmount(c, n) ==
    credited' = IF credited[c] = 0 THEN [credited EXCEPT ![c] = n] ELSE credited

\* Mutant: the key of the credit is not unique.
PostTwice(h) ==
    /\ Goto(h, "credit", "mark")
    /\ credited' = [credited EXCEPT ![handler[h].order] = @ + order[handler[h].order].credit]
    /\ UNCHANGED <<order, checkout, call, rate, now>>

\* Mutant: a credit that is there already is an error.
PostOrFail(h) ==
    /\ Goto(h, "credit", "mark")
    /\ credited[handler[h].order] = 0
    /\ PostAmount(handler[h].order, order[handler[h].order].credit)
    /\ UNCHANGED <<order, checkout, call, rate, now>>

\* billing Credit; a duplicate is as good as a credit
Post(h) ==
    /\ Goto(h, "credit", "mark")
    /\ PostAmount(handler[h].order, order[handler[h].order].credit)
    /\ UNCHANGED <<order, checkout, call, rate, now>>

MarkPaid(h) ==
    /\ handler[h].pc = "mark"
    /\ CloseIfPending(handler[h].order, "paid")
    /\ Leave(h)
    /\ UNCHANGED <<checkout, credited, call, rate, now>>

\* The settlement fails, or its server stops, between two steps: also after
\* the capture, the credit or the last update has taken effect.
AbortSettlement(h) ==
    /\ handler[h].pc # "idle"
    /\ Leave(h)
    /\ UNCHANGED <<order, checkout, credited, call, rate, now>>

-----------------------------------------------------------------------------
\* AdminUpdate
SetRate(r) ==
    /\ rate' = r
    /\ UNCHANGED <<order, checkout, credited, call, handler, now>>

Tick ==
    /\ now < MaxTime
    /\ now' = now + 1
    /\ UNCHANGED <<order, checkout, credited, call, handler, rate>>

CreateOrder(c) ==
    \/ Quote(c) \/ Place(c) \/ AnswerExisting(c) \/ OpenCheckout(c)
    \/ ProviderRefuses(c) \/ MarkFailed(c) \/ SaveCheckout(c) \/ AbortCall(c)

SettleCallback(h) ==
    \/ FindPending(h) \/ FindClosed(h) \/ InTime(h) \/ TooLate(h)
    \/ Post(h) \/ MarkPaid(h)

Next ==
    \/ \E c \in Calls : CreateOrder(c) \/ Pay(c)
    \/ \E h \in Handlers, c \in Calls : Deliver(h, c) \/ BeginCapture(h, c)
    \/ \E h \in Handlers : Capture(h) \/ SettleCallback(h) \/ AbortSettlement(h)
    \/ \E r \in Rates : SetRate(r)
    \/ Tick

Spec == Init /\ [][Next]_vars

\* The provider repeats callbacks, requests to it time out, and no step of a
\* settlement fails for ever.  Nothing is assumed of customers, CreateOrder
\* calls and the clock.
Fairness ==
    /\ \A c \in Calls : SF_vars(\E h \in Handlers : Deliver(h, c))
    /\ \A h \in Handlers : /\ WF_vars(handler[h].pc = "capture" /\ AbortSettlement(h))
                           /\ SF_vars(FindPending(h)) /\ SF_vars(InTime(h))
                           /\ SF_vars(TooLate(h)) /\ SF_vars(Post(h)) /\ SF_vars(MarkPaid(h))

FairSpec == Spec /\ Fairness

-----------------------------------------------------------------------------
\* The types; and what is settled has been taken by the provider.
TypeOK ==
    /\ order \in [Calls -> [status : Statuses, credit : Nat, expires : Nat, linked : BOOLEAN]]
    /\ checkout \in [Calls -> {"none", "open", "approved", "taken"}]
    /\ credited \in [Calls -> Nat]
    /\ call \in [Calls -> [pc : CallPCs, credit : Nat]]
    /\ handler \in [Handlers -> [pc : HandlerPCs, order : Calls \cup {None}]]
    /\ rate \in Rates
    /\ now \in 0..MaxTime
    /\ \A h \in Handlers : handler[h].pc \notin {"idle", "capture"} =>
                               checkout[handler[h].order] = "taken"

\* An order is credited once, with the amount that was promised when it was
\* placed, however often its callback is repeated, whichever of capture and
\* callback comes first, and whatever the rate has become.
CreditIsAsPromised == \A c \in Calls : credited[c] \in {0, order[c].credit}

\* Only money that the provider has taken is credited, and an order is shown
\* as paid only when its credit has been posted.
CreditIsPaidFor ==
    \A c \in Calls : /\ credited[c] > 0 => checkout[c] = "taken"
                     /\ order[c].status = "paid" => credited[c] > 0

\* A failed order takes no money: it is marked so only while nobody has a link
\* to its checkout.
FailedIsUnpaid ==
    \A c \in Calls : order[c].status = "failed" => checkout[c] \in {"none", "open"}

\* A retry with the same key never opens a second checkout.
OneCheckoutPerKey ==
    \A c, d \in Calls : Key[c] = Key[d] /\ checkout[c] # "none" /\ checkout[d] # "none" => c = d

\* Repeated callbacks, captures and a changing rate: one credit, as promised,
\* for money that was taken.
CreditedOnceForMoney == CreditIsAsPromised /\ CreditIsPaidFor

\* Lost answers and retries leave no checkout in which a customer could pay for
\* an order that was given up, or pay twice.
NoStrayCheckout == FailedIsUnpaid /\ OneCheckoutPerKey

\* A closed order stays as it is.
ClosedIsFinal ==
    [][\A c \in Calls : order[c].status \in {"paid", "failed", "expired"} =>
          order'[c].status = order[c].status]_vars

\* Whoever paid sees the order decided, also when the server stopped between
\* the credit and the update of the order.
TakenIsDecided ==
    \A c \in Calls : checkout[c] = "taken" ~> order[c].status \in {"paid", "expired"}
=============================================================================
