\* A call and its retry with the same key, one of them paid by capture, two
\* settlements at a time, under fairness.
SPECIFICATION MCSpec
CONSTANTS
    c1 = c1  c2 = c2
    Calls = {c1, c2}  Handlers = {h1, h2}
    Key <- SameKey  Amount <- AmountOne
    Captured = {c2}  Rates = {1, 2}
    Lifetime = 1  MaxTime = 2
    None = None
INVARIANTS
    TypeOK
    CreditedOnceForMoney
    NoStrayCheckout
PROPERTIES
    ClosedIsFinal
    TakenIsDecided
