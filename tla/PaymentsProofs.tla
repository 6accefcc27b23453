-------------------------- MODULE PaymentsProofs --------------------------
(***************************************************************************)
(* The safety of recharges, for any number of calls, settlements, keys and *)
(* amounts.  The inductive invariant adds what each program counter knows: *)
(* before the insert there is no order, a link exists only after the call  *)
(* has ended well, and a settlement marks what it has credited.            *)
(***************************************************************************)
EXTENDS Payments, TLAPS

\* What the state of a CreateOrder call says about its order.
CallsOK ==
    \A c \in Calls :
        /\ call[c].pc = "idle" => ~ Exists(c)
        /\ call[c].pc = "quoted" => ~ Exists(c) /\ call[c].credit > 0
        /\ call[c].pc \in {"placed", "opened", "failing"} =>
              Exists(c) /\ order[c].status # "failed"

\* What an order, its link and the provider's checkout say about each other.
OrdersOK ==
    \A c \in Calls :
        /\ Exists(c) => order[c].credit > 0
        /\ order[c].linked => call[c].pc = "done" /\ order[c].status # "failed"
        /\ checkout[c] # "none" => Exists(c)
        /\ checkout[c] \in {"approved", "taken"} => order[c].linked
        /\ ~ Exists(c) => credited[c] = 0

\* A settlement has an order, and marks what is credited.
HandlersOK ==
    \A h \in Handlers :
        /\ handler[h].pc # "idle" => handler[h].order \in Calls
        /\ handler[h].pc = "mark" => credited[handler[h].order] > 0

\* No two orders with one key.
KeysOK == \A c, d \in Calls : Exists(c) /\ Exists(d) /\ Key[c] = Key[d] => c = d

Inv == /\ TypeOK /\ CallsOK /\ OrdersOK /\ HandlersOK /\ KeysOK
       /\ CreditIsAsPromised /\ CreditIsPaidFor

USE DEF Exists

-----------------------------------------------------------------------------
\* The invariant holds before the first request.
LEMMA PaymentsInit == ASSUME Init PROVE Inv
BY PaymentsAssumption DEF Init, Inv, TypeOK, CallsOK, OrdersOK, HandlersOK, KeysOK,
   CreditIsAsPromised, CreditIsPaidFor, NoOrder, Free, Statuses, CallPCs, HandlerPCs

\* A step of CreateOrder up to the insert keeps the invariant.
LEMMA PlaceStep ==
    ASSUME Inv, NEW c \in Calls, Quote(c) \/ Place(c)
    PROVE  Inv'
<1> USE DEF Inv, TypeOK, CallsOK, OrdersOK, HandlersOK, KeysOK, CreditIsAsPromised,
            CreditIsPaidFor, Statuses, CallPCs
<1>1. CASE Quote(c)
  <2>1. Amount[c] * rate \in Nat /\ Amount[c] * rate > 0
    BY PaymentsAssumption
  <2> QED BY <1>1, <2>1 DEF Quote
<1>2. CASE Place(c)
  BY <1>2, PaymentsAssumption DEF Place, Step, NewOrder
<1> QED BY <1>1, <1>2

\* A call moves on or ends and nothing else changes.
LEMMA CallMoves ==
    ASSUME Inv, NEW c \in Calls, NEW pc \in {"failing", "done"},
           pc = "failing" => call[c].pc = "placed",
           call[c].pc # "done",
           call' = [call EXCEPT ![c].pc = pc],
           UNCHANGED <<order, checkout, credited, handler, rate, now>>
    PROVE  Inv'
<1>1. /\ call' \in [Calls -> [pc : CallPCs, credit : Nat]]
      /\ call'[c].pc = pc
      /\ \A d \in Calls \ {c} : call'[d] = call[d]
  BY DEF Inv, TypeOK, CallPCs
<1>2. TypeOK'
  BY <1>1 DEF Inv, TypeOK
<1>3. CallsOK'
  BY <1>1 DEF Inv, CallsOK
<1>4. OrdersOK'
  BY <1>1 DEF Inv, OrdersOK
<1>5. HandlersOK' /\ KeysOK' /\ CreditIsAsPromised' /\ CreditIsPaidFor'
  BY DEF Inv, HandlersOK, KeysOK, CreditIsAsPromised, CreditIsPaidFor
<1> QED BY <1>2, <1>3, <1>4, <1>5 DEF Inv

\* An order is closed: its call has ended, or it has no link.
LEMMA CloseMoves ==
    ASSUME Inv, NEW c \in Calls, NEW s \in {"paid", "failed", "expired"},
           CloseIfPending(c, s),
           s = "failed" => call[c].pc = "failing",
           s = "paid" => credited[c] > 0,
           IF s = "failed" THEN call' = [call EXCEPT ![c].pc = "done"] ELSE call' = call,
           UNCHANGED <<checkout, credited>>
    PROVE  /\ order' \in [Calls -> [status : Statuses, credit : Nat, expires : Nat, linked : BOOLEAN]]
           /\ call' \in [Calls -> [pc : CallPCs, credit : Nat]]
           /\ CallsOK' /\ OrdersOK' /\ KeysOK' /\ CreditIsAsPromised' /\ CreditIsPaidFor'
<1>1. /\ order[c] \in [status : Statuses, credit : Nat, expires : Nat, linked : BOOLEAN]
      /\ call[c] \in [pc : CallPCs, credit : Nat]
  BY DEF Inv, TypeOK
<1>2. /\ order' \in [Calls -> [status : Statuses, credit : Nat, expires : Nat, linked : BOOLEAN]]
      /\ order'[c].status = IF order[c].status = "pending" THEN s ELSE order[c].status
      /\ \A d \in Calls : /\ order'[d].credit = order[d].credit
                            /\ order'[d].linked = order[d].linked
      /\ \A d \in Calls \ {c} : order'[d].status = order[d].status
  BY <1>1 DEF Inv, TypeOK, CloseIfPending, Statuses
<1>3. /\ call' \in [Calls -> [pc : CallPCs, credit : Nat]]
      /\ call'[c].pc = IF s = "failed" THEN "done" ELSE call[c].pc
      /\ \A d \in Calls \ {c} : call'[d] = call[d]
      /\ \A d \in Calls : call'[d].credit = call[d].credit
  <2>1. call \in [Calls -> [pc : CallPCs, credit : Nat]]
    BY DEF Inv, TypeOK
  <2>2. CASE s = "failed"
    BY <2>1, <2>2 DEF CallPCs
  <2>3. CASE s # "failed"
    BY <2>1, <2>3
  <2> QED BY <2>2, <2>3
<1>4. CallsOK'
  BY <1>2, <1>3 DEF Inv, CallsOK
<1>5. OrdersOK'
  BY <1>2, <1>3 DEF Inv, OrdersOK
<1>6. KeysOK' /\ CreditIsAsPromised'
  BY <1>2 DEF Inv, KeysOK, CreditIsAsPromised
<1>7. CreditIsPaidFor'
  BY <1>2 DEF Inv, CreditIsPaidFor
<1> QED BY <1>2, <1>3, <1>4, <1>5, <1>6, <1>7

\* The rest of CreateOrder, and what the customer does.
LEMMA CheckoutStep ==
    ASSUME Inv, NEW c \in Calls,
           \/ AnswerExisting(c) \/ OpenCheckout(c) \/ ProviderRefuses(c) \/ MarkFailed(c)
           \/ SaveCheckout(c) \/ AbortCall(c) \/ Pay(c)
    PROVE  Inv'
<1>1. CASE AnswerExisting(c) \/ AbortCall(c)
  BY <1>1, CallMoves DEF AnswerExisting, AbortCall, Step
<1>2. CASE ProviderRefuses(c)
  BY <1>2, CallMoves DEF ProviderRefuses, Step
<1>3. CASE OpenCheckout(c)
  <2>1. PICK pc \in {"opened", "failing"} : call' = [call EXCEPT ![c].pc = pc]
    BY <1>3 DEF OpenCheckout, Step
  <2>2. /\ call[c].pc = "placed" /\ checkout' = [checkout EXCEPT ![c] = "open"]
        /\ UNCHANGED <<order, credited, handler, rate, now>>
    BY <1>3 DEF OpenCheckout, Step
  <2>3. /\ call' \in [Calls -> [pc : CallPCs, credit : Nat]]
        /\ call'[c].pc = pc
        /\ \A d \in Calls \ {c} : call'[d] = call[d]
    BY <2>1 DEF Inv, TypeOK, CallPCs
  <2>4. Exists(c) /\ ~ order[c].linked /\ checkout[c] \notin {"approved", "taken"}
        /\ order[c].status # "failed"
    BY <2>2 DEF Inv, CallsOK, OrdersOK
  <2>5. /\ checkout' \in [Calls -> {"none", "open", "approved", "taken"}]
        /\ checkout'[c] = "open" /\ \A d \in Calls \ {c} : checkout'[d] = checkout[d]
    BY <2>2 DEF Inv, TypeOK
  <2>6. TypeOK'
    BY <2>2, <2>3, <2>4, <2>5 DEF Inv, TypeOK, HandlersOK
  <2>7. CallsOK'
    BY <2>2, <2>3, <2>4 DEF Inv, CallsOK
  <2>8. OrdersOK'
    BY <2>2, <2>3, <2>4, <2>5 DEF Inv, OrdersOK
  <2>9. HandlersOK' /\ KeysOK' /\ CreditIsAsPromised' /\ CreditIsPaidFor'
    BY <2>2, <2>4, <2>5 DEF Inv, HandlersOK, KeysOK, CreditIsAsPromised, CreditIsPaidFor
  <2> QED BY <2>6, <2>7, <2>8, <2>9 DEF Inv
<1>4. CASE MarkFailed(c)
  <2>1. /\ CloseIfPending(c, "failed") /\ call[c].pc = "failing"
        /\ call' = [call EXCEPT ![c].pc = "done"]
        /\ UNCHANGED <<checkout, credited, handler, rate, now>>
    BY <1>4 DEF MarkFailed, Step
  <2>2. /\ order' \in [Calls -> [status : Statuses, credit : Nat, expires : Nat, linked : BOOLEAN]]
        /\ call' \in [Calls -> [pc : CallPCs, credit : Nat]]
        /\ CallsOK' /\ OrdersOK' /\ KeysOK' /\ CreditIsAsPromised' /\ CreditIsPaidFor'
    BY <2>1, CloseMoves
  <2>3. TypeOK' /\ HandlersOK'
    BY <2>1, <2>2 DEF Inv, TypeOK, HandlersOK
  <2> QED BY <2>2, <2>3 DEF Inv
<1>5. CASE SaveCheckout(c)
  <2>1. /\ call[c].pc = "opened" /\ call' = [call EXCEPT ![c].pc = "done"]
        /\ order' = [order EXCEPT ![c].linked = TRUE]
        /\ UNCHANGED <<checkout, credited, handler, rate, now>>
    BY <1>5 DEF SaveCheckout, Step
  <2>2. Exists(c) /\ order[c].status # "failed"
    BY <2>1 DEF Inv, CallsOK
  <2>3. /\ order' \in [Calls -> [status : Statuses, credit : Nat, expires : Nat, linked : BOOLEAN]]
        /\ \A d \in Calls : order'[d].status = order[d].status /\ order'[d].credit = order[d].credit
        /\ \A d \in Calls \ {c} : order'[d] = order[d]
        /\ order'[c].linked
    BY <2>1 DEF Inv, TypeOK
  <2>4. /\ call' \in [Calls -> [pc : CallPCs, credit : Nat]]
        /\ call'[c].pc = "done"
        /\ \A d \in Calls \ {c} : call'[d] = call[d]
    BY <2>1 DEF Inv, TypeOK, CallPCs
  <2>5. TypeOK'
    BY <2>1, <2>3, <2>4 DEF Inv, TypeOK
  <2>6. CallsOK'
    BY <2>3, <2>4 DEF Inv, CallsOK
  <2>7. OrdersOK'
    BY <2>1, <2>2, <2>3, <2>4 DEF Inv, OrdersOK
  <2>8. HandlersOK' /\ KeysOK' /\ CreditIsAsPromised' /\ CreditIsPaidFor'
    BY <2>1, <2>3 DEF Inv, HandlersOK, KeysOK, CreditIsAsPromised, CreditIsPaidFor
  <2> QED BY <2>5, <2>6, <2>7, <2>8 DEF Inv
<1>6. CASE Pay(c)
  <2>1. PICK side \in {"approved", "taken"} : checkout' = [checkout EXCEPT ![c] = side]
    BY <1>6 DEF Pay
  <2>2. /\ order[c].linked /\ checkout[c] = "open"
        /\ UNCHANGED <<order, credited, call, handler, rate, now>>
    BY <1>6 DEF Pay
  <2>3. /\ checkout' \in [Calls -> {"none", "open", "approved", "taken"}]
        /\ checkout'[c] = side /\ \A d \in Calls \ {c} : checkout'[d] = checkout[d]
    BY <2>1 DEF Inv, TypeOK
  <2>4. TypeOK' /\ HandlersOK'
    BY <2>2, <2>3 DEF Inv, TypeOK, HandlersOK
  <2>5. CallsOK' /\ OrdersOK' /\ KeysOK' /\ CreditIsAsPromised' /\ CreditIsPaidFor'
    BY <2>2, <2>3 DEF Inv, CallsOK, OrdersOK, KeysOK, CreditIsAsPromised, CreditIsPaidFor
  <2> QED BY <2>4, <2>5 DEF Inv
<1> QED BY <1>1, <1>2, <1>3, <1>4, <1>5, <1>6

\* A settlement moves to another step, having written nothing.
LEMMA HandlerMoves ==
    ASSUME Inv, NEW h \in Handlers, NEW p \in HandlerPCs \ {"mark"}, NEW o \in Calls \cup {None},
           p # "idle" => o \in Calls,
           p \notin {"idle", "capture"} => checkout[o] = "taken",
           handler' = [handler EXCEPT ![h] = [pc |-> p, order |-> o]],
           UNCHANGED <<order, checkout, credited, call, rate, now>>
    PROVE  Inv'
<1>1. /\ handler' \in [Handlers -> [pc : HandlerPCs, order : Calls \cup {None}]]
      /\ handler'[h] = [pc |-> p, order |-> o]
      /\ \A g \in Handlers \ {h} : handler'[g] = handler[g]
  BY DEF Inv, TypeOK
<1>2. TypeOK' /\ HandlersOK'
  BY <1>1 DEF Inv, TypeOK, HandlersOK
<1>3. CallsOK' /\ KeysOK' /\ CreditIsAsPromised' /\ OrdersOK' /\ CreditIsPaidFor'
  BY DEF Inv, CallsOK, KeysOK, CreditIsAsPromised, OrdersOK, CreditIsPaidFor
<1> QED BY <1>2, <1>3 DEF Inv

\* A settlement that starts, captures or looks: it writes no order.
LEMMA LookStep ==
    ASSUME Inv, NEW h \in Handlers,
           \/ \E c \in Calls : Deliver(h, c) \/ BeginCapture(h, c)
           \/ Capture(h) \/ FindPending(h) \/ FindClosed(h) \/ InTime(h) \/ AbortSettlement(h)
    PROVE  Inv'
<1>0. handler[h] = [pc |-> handler[h].pc, order |-> handler[h].order]
      /\ handler[h].order \in Calls \cup {None}
  BY DEF Inv, TypeOK
<1>1. CASE Capture(h)
  <2>1. PICK c \in Calls :
           /\ checkout[c] = "approved" /\ handler[h] = [pc |-> "capture", order |-> c]
           /\ checkout' = [checkout EXCEPT ![c] = "taken"]
           /\ handler' = [handler EXCEPT ![h].pc = "lookup"]
           /\ UNCHANGED <<order, credited, call, rate, now>>
    BY <1>1, <1>0 DEF Capture, Goto, Inv, HandlersOK
  <2>2. TypeOK' /\ HandlersOK'
    BY <2>1 DEF Inv, TypeOK, HandlersOK, HandlerPCs
  <2>3. CallsOK' /\ KeysOK' /\ CreditIsAsPromised'
    BY <2>1 DEF Inv, CallsOK, KeysOK, CreditIsAsPromised
  <2>4. OrdersOK' /\ CreditIsPaidFor'
    BY <2>1 DEF Inv, TypeOK, OrdersOK, CreditIsPaidFor
  <2> QED BY <2>2, <2>3, <2>4 DEF Inv
<1>2. ASSUME NEW c \in Calls, Deliver(h, c)
      PROVE  Inv'
  BY <1>2, HandlerMoves DEF Deliver, HandlerPCs
<1>3. ASSUME NEW c \in Calls, BeginCapture(h, c)
      PROVE  Inv'
  BY <1>3, HandlerMoves DEF BeginCapture, HandlerPCs
<1>4. CASE FindPending(h)
  <2>1. /\ handler[h].order \in Calls /\ checkout[handler[h].order] = "taken"
        /\ handler' = [handler EXCEPT ![h] = [pc |-> "judge", order |-> handler[h].order]]
        /\ UNCHANGED <<order, checkout, credited, call, rate, now>>
    <3>1. handler[h].order \in Calls /\ checkout[handler[h].order] = "taken"
      BY <1>4 DEF FindPending, Goto, Inv, TypeOK, HandlersOK
    <3>2. [handler[h] EXCEPT !.pc = "judge"] = [pc |-> "judge", order |-> handler[h].order]
      BY <1>0
    <3>3. /\ handler' = [handler EXCEPT ![h] = [handler[h] EXCEPT !.pc = "judge"]]
          /\ UNCHANGED <<order, checkout, credited, call, rate, now>>
      BY <1>4 DEF FindPending, Goto
    <3> QED BY <3>1, <3>2, <3>3
  <2> QED BY <2>1, HandlerMoves DEF HandlerPCs
<1>5. CASE InTime(h)
  <2>1. /\ handler[h].order \in Calls /\ checkout[handler[h].order] = "taken"
        /\ handler' = [handler EXCEPT ![h] = [pc |-> "credit", order |-> handler[h].order]]
        /\ UNCHANGED <<order, checkout, credited, call, rate, now>>
    <3>1. handler[h].order \in Calls /\ checkout[handler[h].order] = "taken"
      BY <1>5 DEF InTime, Goto, Inv, TypeOK, HandlersOK
    <3>2. [handler[h] EXCEPT !.pc = "credit"] = [pc |-> "credit", order |-> handler[h].order]
      BY <1>0
    <3>3. /\ handler' = [handler EXCEPT ![h] = [handler[h] EXCEPT !.pc = "credit"]]
          /\ UNCHANGED <<order, checkout, credited, call, rate, now>>
      BY <1>5 DEF InTime, Goto
    <3> QED BY <3>1, <3>2, <3>3
  <2> QED BY <2>1, HandlerMoves DEF HandlerPCs
<1>6. CASE FindClosed(h) \/ AbortSettlement(h)
  BY <1>6, HandlerMoves DEF FindClosed, AbortSettlement, Leave, Free, HandlerPCs
<1> QED BY <1>1, <1>2, <1>3, <1>4, <1>5, <1>6

\* A settlement that writes.
LEMMA WriteStep ==
    ASSUME Inv, NEW h \in Handlers, TooLate(h) \/ Post(h) \/ MarkPaid(h)
    PROVE  Inv'
<1> DEFINE c == handler[h].order
<1>1. CASE TooLate(h) \/ MarkPaid(h)
  <2>1. c \in Calls /\ (MarkPaid(h) => credited[c] > 0)
    BY <1>1 DEF TooLate, MarkPaid, Inv, HandlersOK
  <2>2. /\ CloseIfPending(c, "expired") \/ (CloseIfPending(c, "paid") /\ credited[c] > 0)
        /\ handler' = [handler EXCEPT ![h] = Free]
        /\ UNCHANGED <<checkout, credited, call, rate, now>>
    BY <1>1, <2>1 DEF TooLate, MarkPaid, Leave
  <2>3. /\ order' \in [Calls -> [status : Statuses, credit : Nat, expires : Nat, linked : BOOLEAN]]
        /\ CallsOK' /\ OrdersOK' /\ KeysOK' /\ CreditIsAsPromised' /\ CreditIsPaidFor'
    BY <2>1, <2>2, CloseMoves
  <2>4. TypeOK' /\ HandlersOK'
    BY <2>2, <2>3 DEF Inv, TypeOK, HandlersOK, Free, HandlerPCs
  <2> QED BY <2>3, <2>4 DEF Inv
<1>2. CASE Post(h)
  <2>1. /\ c \in Calls /\ checkout[c] = "taken" /\ handler[h] = [pc |-> "credit", order |-> c]
        /\ handler' = [handler EXCEPT ![h] = [pc |-> "mark", order |-> c]]
        /\ UNCHANGED <<order, checkout, call, rate, now>>
    <3>1. /\ handler[h] \in [pc : HandlerPCs, order : Calls \cup {None}]
          /\ handler[h].pc = "credit" /\ c \in Calls /\ checkout[c] = "taken"
      BY <1>2 DEF Post, Goto, Inv, TypeOK, HandlersOK
    <3>2. /\ handler[h] = [pc |-> "credit", order |-> c]
          /\ [handler[h] EXCEPT !.pc = "mark"] = [pc |-> "mark", order |-> c]
      BY <3>1
    <3>3. /\ handler' = [handler EXCEPT ![h] = [handler[h] EXCEPT !.pc = "mark"]]
          /\ UNCHANGED <<order, checkout, call, rate, now>>
      BY <1>2 DEF Post, Goto
    <3> QED BY <3>1, <3>2, <3>3
  <2>2. Exists(c) /\ order[c].credit \in Nat /\ order[c].credit > 0
    BY <2>1 DEF Inv, TypeOK, OrdersOK
  <2>3. /\ credited' \in [Calls -> Nat]
        /\ credited'[c] \in {credited[c], order[c].credit} /\ credited'[c] > 0
        /\ \A d \in Calls \ {c} : credited'[d] = credited[d]
        /\ credited[c] # 0 => credited'[c] = credited[c]
    <3>1. credited \in [Calls -> Nat]
      BY DEF Inv, TypeOK
    <3>2. credited' = IF credited[c] = 0 THEN [credited EXCEPT ![c] = order[c].credit] ELSE credited
      BY <1>2 DEF Post, PostAmount
    <3> HIDE DEF c
    <3> QED BY <2>1, <2>2, <3>1, <3>2
  <2>4. TypeOK' /\ HandlersOK'
    BY <2>1, <2>3 DEF Inv, TypeOK, HandlersOK, HandlerPCs
  <2>5. CallsOK' /\ OrdersOK' /\ KeysOK'
    BY <2>1, <2>2, <2>3 DEF Inv, CallsOK, OrdersOK, KeysOK
  <2>6. CreditIsAsPromised' /\ CreditIsPaidFor'
    BY <2>1, <2>2, <2>3 DEF Inv, CreditIsAsPromised, CreditIsPaidFor
  <2> QED BY <2>4, <2>5, <2>6 DEF Inv
<1> QED BY <1>1, <1>2

\* Every step keeps the invariant.
LEMMA PaymentsStep == ASSUME Inv, [Next]_vars PROVE Inv'
<1>1. ASSUME NEW c \in Calls, CreateOrder(c) \/ Pay(c)
      PROVE  Inv'
  BY <1>1, PlaceStep, CheckoutStep DEF CreateOrder
<1>2. ASSUME NEW h \in Handlers, NEW c \in Calls, Deliver(h, c) \/ BeginCapture(h, c)
      PROVE  Inv'
  BY <1>2, LookStep
<1>3. ASSUME NEW h \in Handlers, Capture(h) \/ SettleCallback(h) \/ AbortSettlement(h)
      PROVE  Inv'
  BY <1>3, LookStep, WriteStep DEF SettleCallback
<1>4. CASE (\E r \in Rates : SetRate(r)) \/ Tick \/ UNCHANGED vars
  BY <1>4, PaymentsAssumption DEF SetRate, Tick, vars, Inv, TypeOK, CallsOK, OrdersOK, HandlersOK,
     KeysOK, CreditIsAsPromised, CreditIsPaidFor
<1> QED BY <1>1, <1>2, <1>3, <1>4 DEF Next

\* The inductive argument.
LEMMA PaymentsInv == Spec => []Inv
<1>1. Init => Inv
  BY PaymentsInit
<1>2. Inv /\ [Next]_vars => Inv'
  BY PaymentsStep
<1> QED BY <1>1, <1>2, PTL DEF Spec

-----------------------------------------------------------------------------
\* Rows and stack frames keep their types.
THEOREM PaymentTypesHold == Spec => []TypeOK
<1>1. Inv => TypeOK
  BY DEF Inv
<1> QED BY <1>1, PaymentsInv, PTL

\* However often callbacks are repeated, race with a capture or are cut off by
\* a crash, an order is credited at most once and with the promised amount.
THEOREM CreditedOnceAsPromised == Spec => []CreditIsAsPromised
<1>1. Inv => CreditIsAsPromised
  BY DEF Inv
<1> QED BY <1>1, PaymentsInv, PTL

\* No credit without a payment, and no paid order without its credit.
THEOREM CreditsArePaidFor == Spec => []CreditIsPaidFor
<1>1. Inv => CreditIsPaidFor
  BY DEF Inv
<1> QED BY <1>1, PaymentsInv, PTL

\* Orders that were marked failed have taken no money.
THEOREM FailedOrdersAreUnpaid == Spec => []FailedIsUnpaid
<1>1. Inv => FailedIsUnpaid
  BY DEF Inv, TypeOK, OrdersOK, FailedIsUnpaid
<1> QED BY <1>1, PaymentsInv, PTL

\* Retries of a recharge never open a second checkout.
THEOREM RetriesShareTheCheckout == Spec => []OneCheckoutPerKey
<1>1. Inv => OneCheckoutPerKey
  BY DEF Inv, OrdersOK, KeysOK, OneCheckoutPerKey
<1> QED BY <1>1, PaymentsInv, PTL

\* Repeated callbacks, captures and a changing rate end in one credit, as
\* promised, for money that was taken.
THEOREM OneCreditForMoney == Spec => []CreditedOnceForMoney
<1>1. CreditIsAsPromised /\ CreditIsPaidFor => CreditedOnceForMoney
  BY DEF CreditedOnceForMoney
<1> QED BY <1>1, CreditedOnceAsPromised, CreditsArePaidFor, PTL

\* Lost answers and retries leave no checkout behind that takes money for an
\* order that was given up, or a second time.
THEOREM NoCheckoutIsStray == Spec => []NoStrayCheckout
<1>1. FailedIsUnpaid /\ OneCheckoutPerKey => NoStrayCheckout
  BY DEF NoStrayCheckout
<1> QED BY <1>1, FailedOrdersAreUnpaid, RetriesShareTheCheckout, PTL

\* A paid, failed or expired order keeps its status.
THEOREM ClosedOrdersStay == Spec => ClosedIsFinal
<1>1. Inv /\ [Next]_vars =>
        [\A c \in Calls : order[c].status \in {"paid", "failed", "expired"} =>
            order'[c].status = order[c].status]_vars
  <2> SUFFICES ASSUME Inv, Next,
                      NEW c \in Calls, order[c].status \in {"paid", "failed", "expired"}
               PROVE  order'[c].status = order[c].status
    BY DEF vars
  <2>1. ASSUME NEW d \in Calls, CreateOrder(d) \/ Pay(d)
        PROVE  order'[c].status = order[c].status
    <3>1. CASE Place(d)
      BY <3>1 DEF Place, Step, Inv, TypeOK, CallsOK
    <3>2. CASE MarkFailed(d) \/ SaveCheckout(d)
      BY <3>2 DEF MarkFailed, SaveCheckout, CloseIfPending, Inv, TypeOK
    <3>3. CASE Quote(d) \/ AnswerExisting(d) \/ OpenCheckout(d) \/ ProviderRefuses(d)
               \/ AbortCall(d) \/ Pay(d)
      BY <3>3 DEF Quote, AnswerExisting, OpenCheckout, ProviderRefuses, AbortCall, Pay
    <3> QED BY <2>1, <3>1, <3>2, <3>3 DEF CreateOrder
  <2>2. ASSUME NEW h \in Handlers,
               \/ \E d \in Calls : Deliver(h, d) \/ BeginCapture(h, d)
               \/ Capture(h) \/ SettleCallback(h) \/ AbortSettlement(h)
        PROVE  order'[c].status = order[c].status
    BY <2>2 DEF Deliver, BeginCapture, Capture, SettleCallback, AbortSettlement, FindPending,
       FindClosed, InTime, TooLate, Post, MarkPaid, CloseIfPending, Inv, TypeOK
  <2>3. CASE (\E r \in Rates : SetRate(r)) \/ Tick
    BY <2>3 DEF SetRate, Tick
  <2> QED BY <2>1, <2>2, <2>3 DEF Next
<1> QED BY <1>1, PaymentsInv, PTL DEF Spec, ClosedIsFinal
===========================================================================
