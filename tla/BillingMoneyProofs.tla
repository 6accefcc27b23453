------------------------- MODULE BillingMoneyProofs -------------------------
(***************************************************************************)
(* No operation of the billing core creates or loses money, for any number *)
(* of requests, tokens, tenants and top-ups.  Holds and charges are sums   *)
(* over all requests: an operation changes the row of one of them, and the *)
(* sum by the difference (TotalAfterChange).  And the billing core         *)
(* implements the customer's account (CustomerAccount): holds, failovers,  *)
(* pending settlements and sweeps are invisible to a customer who looks at *)
(* the balance together with the money on hold.                            *)
(*                                                                         *)
(* The last sections are about the row locks of its transactions           *)
(* (LockOrder): for any number of transactions, requests, tokens, projects  *)
(* and accounts, only a change of a project's members can be part of a      *)
(* deadlock with a settlement.                                              *)
(***************************************************************************)
EXTENDS BillingProofs, LockOrder, SequenceTheorems, FiniteSetTheorems,
        WellFoundedInduction

-----------------------------------------------------------------------------
(* What Total computes, for every function and every length                *)

Below == {p \in Nat \X Nat : p[1] < p[2]}

\* The order of the naturals, as a relation, is well founded.
LEMMA BelowIsWellFounded == IsWellFoundedOn(Below, Nat)
<1>1. OpToRel(<, Nat) = Below
  BY Zenon DEF OpToRel, Below
<1>2. QED
  BY <1>1, NatLessThanWellFounded, Zenon

\* Induction over the naturals, stated for a set instead of a predicate: the
\* least natural outside of the set would be neither 0 nor a successor.
LEMMA SetInduction ==
    ASSUME NEW S, S \subseteq Nat, 0 \in S, \A n \in S : n + 1 \in S
    PROVE  S = Nat
<1>1. SUFFICES ASSUME Nat \ S # {} PROVE FALSE
  OBVIOUS
<1>2. Nat \ S \subseteq Nat
  OBVIOUS
<1>3. PICK n \in Nat \ S : \A m \in Nat \ S : <<m, n>> \notin Below
  BY <1>1, <1>2, BelowIsWellFounded, WFMin
<1>4. n # 0
  OBVIOUS
<1>5. n - 1 \in Nat \ S
  BY <1>4
<1>6. <<n - 1, n>> \in Below
  BY <1>4 DEF Below
<1>7. QED
  BY <1>3, <1>5, <1>6

\* Every integer function has its prefix sums.
LEMMA PrefixSumsExist ==
    ASSUME NEW f, NEW N \in Nat, f \in [1 .. N -> Int], NEW n \in 0 .. N
    PROVE  \E g \in [0 .. n -> Int] : IsPrefixSum(g, f, n)
<1> DEFINE Has == {k \in Nat : k <= N => \E g \in [0 .. k -> Int] : IsPrefixSum(g, f, k)}
<1>1. 0 \in Has
  <2> DEFINE g == [i \in 0 .. 0 |-> 0]
  <2>1. g \in [0 .. 0 -> Int]
    OBVIOUS
  <2>2. IsPrefixSum(g, f, 0)
    BY DEF IsPrefixSum
  <2>3. QED
    BY <2>1, <2>2
<1>2. ASSUME NEW k \in Has PROVE k + 1 \in Has
  <2>1. SUFFICES ASSUME k + 1 <= N
                 PROVE  \E h \in [0 .. k + 1 -> Int] : IsPrefixSum(h, f, k + 1)
    OBVIOUS
  <2>2. PICK g \in [0 .. k -> Int] : IsPrefixSum(g, f, k)
    BY <2>1
  <2> DEFINE h == [i \in 0 .. k + 1 |-> IF i = k + 1 THEN g[k] + f[k + 1] ELSE g[i]]
  <2>3. f[k + 1] \in Int
    BY <2>1
  <2>4. h \in [0 .. k + 1 -> Int]
    BY <2>3
  <2>5. ASSUME NEW i \in 0 .. k + 1
        PROVE  h[i] = IF i = 0 THEN 0 ELSE h[i - 1] + f[i]
    <3>1. CASE i = k + 1
      BY <3>1
    <3>2. CASE i # k + 1
      <4>1. g[i] = IF i = 0 THEN 0 ELSE g[i - 1] + f[i]
        BY <2>2, <3>2 DEF IsPrefixSum
      <4>2. QED
        BY <4>1, <3>2
    <3>3. QED
      BY <3>1, <3>2
  <2>6. IsPrefixSum(h, f, k + 1)
    BY <2>5, Zenon DEF IsPrefixSum
  <2>7. QED
    BY <2>4, <2>6
<1>3. Has = Nat
  <2>1. Has \subseteq Nat
    OBVIOUS
  <2>2. QED
    BY <1>1, <1>2, <2>1, SetInduction
<1>4. n \in Nat /\ n <= N
  OBVIOUS
<1>5. n \in Has
  <2> HIDE DEF Has
  <2>1. QED
    BY <1>3, <1>4
<1>6. QED
  BY <1>4, <1>5

\* Two prefix sums of f agree where both are defined.
LEMMA PrefixSumsAgree ==
    ASSUME NEW f, NEW g, NEW h, NEW m \in Nat, NEW n \in Nat, m <= n,
           IsPrefixSum(g, f, m), IsPrefixSum(h, f, n)
    PROVE  \A i \in 0 .. m : g[i] = h[i]
<1> DEFINE Same == {k \in Nat : k <= m => g[k] = h[k]}
<1>1. 0 \in Same
  BY DEF IsPrefixSum
<1>2. ASSUME NEW k \in Same PROVE k + 1 \in Same
  <2>1. SUFFICES ASSUME k + 1 <= m PROVE g[k + 1] = h[k + 1]
    OBVIOUS
  <2>2. g[k + 1] = g[k] + f[k + 1]
    BY <2>1 DEF IsPrefixSum
  <2>3. h[k + 1] = h[k] + f[k + 1]
    BY <2>1 DEF IsPrefixSum
  <2>4. QED
    BY <2>1, <2>2, <2>3
<1>3. Same = Nat
  <2>1. Same \subseteq Nat
    OBVIOUS
  <2>2. QED
    BY <1>1, <1>2, <2>1, SetInduction
<1>4. QED
  BY <1>3

\* A prefix sum one entry longer agrees with the shorter one.
LEMMA NextPrefixSumAgrees ==
    ASSUME NEW f, NEW g, NEW h, NEW n \in Nat,
           IsPrefixSum(g, f, n), IsPrefixSum(h, f, n + 1)
    PROVE  g[n] = h[n]
<1> DEFINE m == n + 1
<1>1. m \in Nat /\ n <= m /\ n \in 0 .. n
  OBVIOUS
<1>2. IsPrefixSum(h, f, m)
  OBVIOUS
<1> HIDE DEF m
<1>3. QED
  BY <1>1, <1>2, PrefixSumsAgree

\* Total is the last of the prefix sums.
LEMMA TotalIsPrefixSum ==
    ASSUME NEW f, NEW N \in Nat, f \in [1 .. N -> Int], NEW n \in 0 .. N
    PROVE  \E g \in [0 .. n -> Int] : IsPrefixSum(g, f, n) /\ Total(f, n) = g[n]
<1> DEFINE sum == CHOOSE g : IsPrefixSum(g, f, n)
<1>1. PICK g \in [0 .. n -> Int] : IsPrefixSum(g, f, n)
  BY PrefixSumsExist
<1>2. IsPrefixSum(sum, f, n)
  BY <1>1, Zenon
<1>3. Total(f, n) = sum[n]
  BY DEF Total, IsPrefixSum
<1>4. \A i \in 0 .. n : sum[i] = g[i]
  BY <1>1, <1>2, PrefixSumsAgree
<1>5. Total(f, n) = g[n]
  <2> HIDE DEF sum
  <2>1. n \in 0 .. n
    OBVIOUS
  <2>2. QED
    BY <1>3, <1>4, <2>1
<1>6. QED
  BY <1>1, <1>5

\* Total by recursion on the length.
THEOREM TotalByPrefix ==
    ASSUME NEW f, NEW N \in Nat, f \in [1 .. N -> Int]
    PROVE  /\ Total(f, 0) = 0
           /\ \A n \in 0 .. N : Total(f, n) \in Int
           /\ \A n \in 0 .. N - 1 : Total(f, n + 1) = Total(f, n) + f[n + 1]
<1>1. Total(f, 0) = 0
  BY TotalIsPrefixSum DEF IsPrefixSum
<1>2. \A n \in 0 .. N : Total(f, n) \in Int
  BY TotalIsPrefixSum
<1>3. ASSUME NEW n \in 0 .. N - 1
      PROVE  Total(f, n + 1) = Total(f, n) + f[n + 1]
  <2>1. /\ n \in 0 .. N  /\ n + 1 \in 0 .. N
        /\ n \in Nat     /\ n + 1 \in Nat     /\ n <= n + 1
    OBVIOUS
  <2>2. PICK g \in [0 .. n -> Int] : IsPrefixSum(g, f, n) /\ Total(f, n) = g[n]
    BY <2>1, TotalIsPrefixSum, Zenon
  <2>3. PICK h \in [0 .. n + 1 -> Int] :
               IsPrefixSum(h, f, n + 1) /\ Total(f, n + 1) = h[n + 1]
    BY <2>1, TotalIsPrefixSum, Zenon
  <2>4. h[n + 1] = h[n] + f[n + 1]
    BY <2>3 DEF IsPrefixSum
  <2>5. g[n] = h[n]
    <3>1. n \in Nat
      BY <2>1
    <3>2. IsPrefixSum(g, f, n)
      BY <2>2
    <3>3. IsPrefixSum(h, f, n + 1)
      BY <2>3
    <3>4. QED
      BY <3>1, <3>2, <3>3, NextPrefixSumAgrees
  <2>6. QED
    BY <2>1, <2>2, <2>3, <2>4, <2>5
<1>4. QED
  BY <1>1, <1>2, <1>3

\* A sum of zeros is zero.
THEOREM TotalOfZeros ==
    ASSUME NEW f, NEW N \in Nat, f \in [1 .. N -> Int], \A i \in 1 .. N : f[i] = 0
    PROVE  Total(f, N) = 0
<1> DEFINE Zero == {k \in Nat : k <= N => Total(f, k) = 0}
<1>1. 0 \in Zero
  BY TotalByPrefix
<1>2. ASSUME NEW k \in Zero PROVE k + 1 \in Zero
  <2>1. SUFFICES ASSUME k + 1 <= N PROVE Total(f, k + 1) = 0
    OBVIOUS
  <2>2. k + 1 \in 1 .. N /\ k \in 0 .. N - 1
    BY <2>1
  <2>3. Total(f, k + 1) = Total(f, k) + f[k + 1]
    BY <2>2, TotalByPrefix, Zenon
  <2>4. QED
    BY <2>1, <2>2, <2>3
<1>3. Zero = Nat
  <2>1. Zero \subseteq Nat
    OBVIOUS
  <2>2. QED
    BY <1>1, <1>2, <2>1, SetInduction
<1>4. QED
  BY <1>3

\* Changing one entry changes the sum by the difference.
THEOREM TotalAfterChange ==
    ASSUME NEW f, NEW g, NEW N \in Nat, NEW r \in 1 .. N,
           f \in [1 .. N -> Int], g \in [1 .. N -> Int],
           \A i \in 1 .. N : i # r => g[i] = f[i]
    PROVE  /\ Total(f, N) \in Int
           /\ Total(g, N) = Total(f, N) + g[r] - f[r]
<1> DEFINE Shift(k) == IF k < r THEN 0 ELSE g[r] - f[r]
           Shifted == {k \in Nat : k <= N => Total(g, k) = Total(f, k) + Shift(k)}
<1>1. 0 \in Shifted
  BY TotalByPrefix
<1>2. ASSUME NEW k \in Shifted PROVE k + 1 \in Shifted
  <2>1. SUFFICES ASSUME k + 1 <= N
                 PROVE  Total(g, k + 1) = Total(f, k + 1) + Shift(k + 1)
    OBVIOUS
  <2>2. k + 1 \in 1 .. N /\ k \in 0 .. N - 1 /\ k \in 0 .. N
    BY <2>1
  <2>3. Total(g, k + 1) = Total(g, k) + g[k + 1]
    BY <2>2, TotalByPrefix, Zenon
  <2>4. Total(f, k + 1) = Total(f, k) + f[k + 1]
    BY <2>2, TotalByPrefix, Zenon
  <2>5. Total(f, k) \in Int
    BY <2>2, TotalByPrefix, Zenon
  <2>6. Total(g, k) = Total(f, k) + Shift(k)
    BY <2>1
  <2>7. QED
    BY <2>1, <2>2, <2>3, <2>4, <2>5, <2>6
<1>3. Shifted = Nat
  <2>1. Shifted \subseteq Nat
    OBVIOUS
  <2>2. QED
    BY <1>1, <1>2, <2>1, SetInduction
<1>4. Total(g, N) = Total(f, N) + Shift(N)
  BY <1>3
<1>5. Total(f, N) \in Int
  <2>1. N \in 0 .. N
    OBVIOUS
  <2>2. QED
    BY <2>1, TotalByPrefix
<1>6. QED
  BY <1>4, <1>5

-----------------------------------------------------------------------------
(* Money is conserved                                                      *)

\* What request r keeps from the balance of its tenant.
HoldOf(r) == IF reservation[r].status \in Open THEN reservation[r].reserved ELSE 0

TenantCharges(t) ==
    Total([r \in Requests |-> IF TenantOfRequest(r) = t THEN chargeTx[r] ELSE 0],
          NumRequests)

TokenCharges(k) ==
    Total([r \in Requests |-> IF TokenOf[r] = k THEN chargeTx[r] ELSE 0],
          NumRequests)

TenantCredits(t) ==
    Total([k \in CreditKeys |-> IF creditTx[k].tenant = t THEN creditTx[k].amount ELSE 0],
          NumCredits)

OnlyRow(s) ==
    \A r \in Requests : r # s => UNCHANGED <<reservation[r], chargeTx[r]>>

\* A hold is a natural number.
LEMMA HoldTypes ==
    ASSUME RowInv
    PROVE  \A r \in Requests : HoldOf(r) \in Nat /\ chargeTx[r] \in Nat
BY DEF RowInv, TypeOK, HoldOf

\* The money a tenant has on hold changes with the row that changes.
LEMMA HeldAfter ==
    ASSUME RowInv, RowInv', NEW s \in Requests, OnlyRow(s), NEW t \in Tenants
    PROVE  /\ Held(t) \in Int
           /\ Held(t)' = Held(t) + IF TenantOfRequest(s) = t
                                   THEN HoldOf(s)' - HoldOf(s) ELSE 0
<1> DEFINE f == [r \in Requests |-> IF TenantOfRequest(r) = t /\ reservation[r].status \in Open
                                    THEN reservation[r].reserved ELSE 0]
           g == [r \in Requests |-> IF TenantOfRequest(r) = t /\ reservation'[r].status \in Open
                                    THEN reservation'[r].reserved ELSE 0]
<1>1. f \in [1 .. NumRequests -> Int] /\ g \in [1 .. NumRequests -> Int]
  BY DEF RowInv, TypeOK, Requests
<1>2. \A r \in 1 .. NumRequests : r # s => g[r] = f[r]
  BY DEF OnlyRow, Requests
<1>3. /\ f[s] = IF TenantOfRequest(s) = t THEN HoldOf(s) ELSE 0
      /\ g[s] = IF TenantOfRequest(s) = t THEN HoldOf(s)' ELSE 0
      /\ HoldOf(s) \in Int /\ HoldOf(s)' \in Int
  BY DEF HoldOf, RowInv, TypeOK
<1>4. Held(t) = Total(f, NumRequests) /\ Held(t)' = Total(g, NumRequests)
  BY DEF Held
<1>5. s \in 1 .. NumRequests /\ NumRequests \in Nat
  BY SizesAssumption DEF Requests
<1> HIDE DEF f, g
<1>6. /\ Total(f, NumRequests) \in Int
      /\ Total(g, NumRequests) = Total(f, NumRequests) + g[s] - f[s]
  BY <1>1, <1>2, <1>5, TotalAfterChange
<1>7. QED
  BY <1>3, <1>4, <1>6

\* So does what a token has on hold, the sum the spend limit is judged by.
LEMMA OpenReservedAfter ==
    ASSUME RowInv, RowInv', NEW s \in Requests, OnlyRow(s), NEW k \in Tokens
    PROVE  /\ OpenReserved(k) \in Int
           /\ OpenReserved(k)' = OpenReserved(k) + IF TokenOf[s] = k
                                                   THEN HoldOf(s)' - HoldOf(s) ELSE 0
<1> DEFINE f == [r \in Requests |-> IF TokenOf[r] = k /\ reservation[r].status \in Open
                                    THEN reservation[r].reserved ELSE 0]
           g == [r \in Requests |-> IF TokenOf[r] = k /\ reservation'[r].status \in Open
                                    THEN reservation'[r].reserved ELSE 0]
<1>1. f \in [1 .. NumRequests -> Int] /\ g \in [1 .. NumRequests -> Int]
  BY DEF RowInv, TypeOK, Requests
<1>2. \A r \in 1 .. NumRequests : r # s => g[r] = f[r]
  BY DEF OnlyRow, Requests
<1>3. /\ f[s] = IF TokenOf[s] = k THEN HoldOf(s) ELSE 0
      /\ g[s] = IF TokenOf[s] = k THEN HoldOf(s)' ELSE 0
      /\ HoldOf(s) \in Int /\ HoldOf(s)' \in Int
  BY DEF HoldOf, RowInv, TypeOK
<1>4. OpenReserved(k) = Total(f, NumRequests) /\ OpenReserved(k)' = Total(g, NumRequests)
  BY DEF OpenReserved
<1>5. s \in 1 .. NumRequests /\ NumRequests \in Nat
  BY SizesAssumption DEF Requests
<1> HIDE DEF f, g
<1>6. /\ Total(f, NumRequests) \in Int
      /\ Total(g, NumRequests) = Total(f, NumRequests) + g[s] - f[s]
  BY <1>1, <1>2, <1>5, TotalAfterChange
<1>7. QED
  BY <1>3, <1>4, <1>6

\* What the ledger charged to a tenant and to a token.
LEMMA ChargesAfter ==
    ASSUME RowInv, RowInv', NEW s \in Requests, OnlyRow(s)
    PROVE  /\ \A t \in Tenants :
                 /\ TenantCharges(t) \in Int
                 /\ TenantCharges(t)' = TenantCharges(t) + IF TenantOfRequest(s) = t
                                           THEN chargeTx'[s] - chargeTx[s] ELSE 0
           /\ \A k \in Tokens :
                 /\ TokenCharges(k) \in Int
                 /\ TokenCharges(k)' = TokenCharges(k) + IF TokenOf[s] = k
                                          THEN chargeTx'[s] - chargeTx[s] ELSE 0
<1>1. s \in 1 .. NumRequests /\ NumRequests \in Nat
  BY SizesAssumption DEF Requests
<1>2. chargeTx[s] \in Int /\ chargeTx'[s] \in Int
  BY DEF RowInv, TypeOK
<1>3. ASSUME NEW t \in Tenants
      PROVE  /\ TenantCharges(t) \in Int
             /\ TenantCharges(t)' = TenantCharges(t) + IF TenantOfRequest(s) = t
                                       THEN chargeTx'[s] - chargeTx[s] ELSE 0
  <2> DEFINE f == [r \in Requests |-> IF TenantOfRequest(r) = t THEN chargeTx[r] ELSE 0]
             g == [r \in Requests |-> IF TenantOfRequest(r) = t THEN chargeTx'[r] ELSE 0]
  <2>1. f \in [1 .. NumRequests -> Int] /\ g \in [1 .. NumRequests -> Int]
    BY DEF RowInv, TypeOK, Requests
  <2>2. \A r \in 1 .. NumRequests : r # s => g[r] = f[r]
    BY DEF OnlyRow, Requests
  <2>3. /\ f[s] = IF TenantOfRequest(s) = t THEN chargeTx[s] ELSE 0
        /\ g[s] = IF TenantOfRequest(s) = t THEN chargeTx'[s] ELSE 0
    OBVIOUS
  <2>4. TenantCharges(t) = Total(f, NumRequests) /\ TenantCharges(t)' = Total(g, NumRequests)
    BY DEF TenantCharges
  <2> HIDE DEF f, g
  <2>5. /\ Total(f, NumRequests) \in Int
        /\ Total(g, NumRequests) = Total(f, NumRequests) + g[s] - f[s]
    BY <1>1, <2>1, <2>2, TotalAfterChange
  <2>6. QED
    BY <1>2, <2>3, <2>4, <2>5
<1>4. ASSUME NEW k \in Tokens
      PROVE  /\ TokenCharges(k) \in Int
             /\ TokenCharges(k)' = TokenCharges(k) + IF TokenOf[s] = k
                                      THEN chargeTx'[s] - chargeTx[s] ELSE 0
  <2> DEFINE f == [r \in Requests |-> IF TokenOf[r] = k THEN chargeTx[r] ELSE 0]
             g == [r \in Requests |-> IF TokenOf[r] = k THEN chargeTx'[r] ELSE 0]
  <2>1. f \in [1 .. NumRequests -> Int] /\ g \in [1 .. NumRequests -> Int]
    BY DEF RowInv, TypeOK, Requests
  <2>2. \A r \in 1 .. NumRequests : r # s => g[r] = f[r]
    BY DEF OnlyRow, Requests
  <2>3. /\ f[s] = IF TokenOf[s] = k THEN chargeTx[s] ELSE 0
        /\ g[s] = IF TokenOf[s] = k THEN chargeTx'[s] ELSE 0
    OBVIOUS
  <2>4. TokenCharges(k) = Total(f, NumRequests) /\ TokenCharges(k)' = Total(g, NumRequests)
    BY DEF TokenCharges
  <2> HIDE DEF f, g
  <2>5. /\ Total(f, NumRequests) \in Int
        /\ Total(g, NumRequests) = Total(f, NumRequests) + g[s] - f[s]
    BY <1>1, <2>1, <2>2, TotalAfterChange
  <2>6. QED
    BY <1>2, <2>3, <2>4, <2>5
<1>5. QED
  BY <1>3, <1>4

\* A top-up adds its amount to what was posted to its tenant, once.
LEMMA CreditsAfter ==
    ASSUME RowInv, RowInv', NEW u \in Tenants, NEW j \in CreditKeys, NEW a \in Int,
           creditTx[j] = NoCredit,
           creditTx' = [creditTx EXCEPT ![j] = [tenant |-> u, amount |-> a]],
           NEW t \in Tenants
    PROVE  /\ TenantCredits(t) \in Int
           /\ TenantCredits(t)' = TenantCredits(t) + IF t = u THEN a ELSE 0
<1> DEFINE f == [k \in CreditKeys |-> IF creditTx[k].tenant = t THEN creditTx[k].amount ELSE 0]
           g == [k \in CreditKeys |-> IF creditTx'[k].tenant = t THEN creditTx'[k].amount ELSE 0]
<1>1. f \in [1 .. NumCredits -> Int] /\ g \in [1 .. NumCredits -> Int]
  BY DEF RowInv, TypeOK, CreditKeys
<1>2. \A k \in 1 .. NumCredits : k # j => g[k] = f[k]
  BY DEF RowInv, TypeOK, CreditKeys
<1>3. f[j] = 0 /\ g[j] = IF t = u THEN a ELSE 0
  BY SentinelsAssumption DEF NoCredit, RowInv, TypeOK
<1>4. TenantCredits(t) = Total(f, NumCredits) /\ TenantCredits(t)' = Total(g, NumCredits)
  BY DEF TenantCredits
<1>5. j \in 1 .. NumCredits /\ NumCredits \in Nat
  BY SizesAssumption DEF CreditKeys
<1> HIDE DEF f, g
<1>6. /\ Total(f, NumCredits) \in Int
      /\ Total(g, NumCredits) = Total(f, NumCredits) + g[j] - f[j]
  BY <1>1, <1>2, <1>5, TotalAfterChange
<1>7. QED
  BY <1>3, <1>4, <1>6

\* The sums are integers.
LEMMA SumTypes ==
    ASSUME RowInv, NEW t \in Tenants
    PROVE  TenantCredits(t) \in Int /\ TenantCharges(t) \in Int /\ Held(t) \in Int
<1> DEFINE h == [r \in Requests |-> IF TenantOfRequest(r) = t /\ reservation[r].status \in Open
                                    THEN reservation[r].reserved ELSE 0]
           c == [r \in Requests |-> IF TenantOfRequest(r) = t THEN chargeTx[r] ELSE 0]
           d == [k \in CreditKeys |-> IF creditTx[k].tenant = t THEN creditTx[k].amount ELSE 0]
<1>1. /\ NumRequests \in Nat /\ NumRequests \in 0 .. NumRequests
      /\ NumCredits \in Nat /\ NumCredits \in 0 .. NumCredits
  BY SizesAssumption
<1>2. /\ h \in [1 .. NumRequests -> Int] /\ c \in [1 .. NumRequests -> Int]
      /\ d \in [1 .. NumCredits -> Int]
  BY DEF RowInv, TypeOK, Requests, CreditKeys
<1>3. /\ Held(t) = Total(h, NumRequests)
      /\ TenantCharges(t) = Total(c, NumRequests)
      /\ TenantCredits(t) = Total(d, NumCredits)
  BY DEF Held, TenantCharges, TenantCredits
<1> HIDE DEF h, c, d
<1>4. /\ Total(h, NumRequests) \in Int /\ Total(c, NumRequests) \in Int
      /\ Total(d, NumCredits) \in Int
  BY <1>1, <1>2, TotalByPrefix
<1>5. QED
  BY <1>3, <1>4

-----------------------------------------------------------------------------
(* The three ways a step treats money.                                     *)

\* a is posted to tenant t under key j.
Posting(t, j, a) ==
    /\ creditTx[j] = NoCredit
    /\ creditTx' = [creditTx EXCEPT ![j] = [tenant |-> t, amount |-> a]]
    /\ balance' = [balance EXCEPT ![t] = @ + a]
    /\ UNCHANGED <<chargeTx, spent, reservation, request>>

\* The row of request s changes; the balance pays for what is newly held or
\* charged and gets back what no longer is.
RowMoney(s) ==
    /\ OnlyRow(s)
    /\ creditTx' = creditTx
    /\ balance' = [balance EXCEPT ![TenantOfRequest(s)] =
                     @ + HoldOf(s) + chargeTx[s] - HoldOf(s)' - chargeTx'[s]]
    /\ spent' = [spent EXCEPT ![TokenOf[s]] = @ + chargeTx'[s] - chargeTx[s]]

NoMoney == UNCHANGED <<balance, creditTx, chargeTx, spent, reservation>>

\* A step on s that charges nothing and keeps the rows of the others.
LEMMA HoldOnlyMoney ==
    ASSUME RowInv, NEW s \in Requests, NEW v \in ReservationRow,
           UNCHANGED <<creditTx, chargeTx, spent>>,
           reservation' = [reservation EXCEPT ![s] = v],
           balance' = [balance EXCEPT ![TenantOfRequest(s)] =
                          @ + HoldOf(s) - IF v.status \in Open THEN v.reserved ELSE 0]
    PROVE  RowMoney(s)
<1>1. OnlyRow(s)
  BY DEF OnlyRow, RowInv, TypeOK
<1>2. HoldOf(s)' = IF v.status \in Open THEN v.reserved ELSE 0
  BY DEF HoldOf, RowInv, TypeOK
<1>3. spent' = [spent EXCEPT ![TokenOf[s]] = @ + chargeTx'[s] - chargeTx[s]]
  BY Prices DEF RowInv, TypeOK
<1>4. /\ HoldOf(s) \in Int /\ HoldOf(s)' \in Int
      /\ chargeTx[s] \in Int /\ chargeTx'[s] = chargeTx[s]
      /\ balance \in [Tenants -> Int] /\ TenantOfRequest(s) \in Tenants
  BY <1>2, Prices, HoldTypes DEF RowInv, TypeOK, ReservationRow
<1>5. balance[TenantOfRequest(s)] + HoldOf(s) + chargeTx[s] - HoldOf(s)' - chargeTx'[s]
         = balance[TenantOfRequest(s)] + HoldOf(s) - HoldOf(s)'
  BY <1>4
<1>6. balance' = [balance EXCEPT ![TenantOfRequest(s)] =
                    @ + HoldOf(s) + chargeTx[s] - HoldOf(s)' - chargeTx'[s]]
  BY <1>2, <1>5
<1>7. QED
  BY <1>1, <1>3, <1>6 DEF RowMoney

\* Reserve moves the amount of the new hold from the balance to the hold.
LEMMA ReserveMoney ==
    ASSUME RowInv, NEW s \in Requests, NEW c \in Channels, NEW e \in Usages,
           Reserve(s, c, e)
    PROVE  RowMoney(s)
<1> DEFINE kept == Prepared[ModelOf[c]][e]
           amount == Charge[ModelOf[c]][kept]
           v == [status |-> "held", reserved |-> amount, settled |-> 0,
                 released |-> 0, estimate |-> kept]
<1>1. amount \in Nat /\ v \in ReservationRow /\ TenantOfRequest(s) \in Tenants
  BY Prices DEF ReservationRow, ReservationStatus
<1>2. HoldOf(s) = 0
  BY DEF Reserve, HoldOf, RowInv, RowOK, Open
<1>3. v.status \in Open /\ v.reserved = amount
  BY DEF Open
<1>4. /\ UNCHANGED <<creditTx, chargeTx, spent>>
      /\ reservation' = [reservation EXCEPT ![s] = v]
      /\ balance' = [balance EXCEPT ![TenantOfRequest(s)] = @ - amount]
  BY DEF Reserve, Hold, ledgerVars
<1> HIDE DEF v, amount
<1>5. balance[TenantOfRequest(s)] + HoldOf(s) - amount = balance[TenantOfRequest(s)] - amount
  BY <1>1, <1>2 DEF RowInv, TypeOK
<1>6. balance' = [balance EXCEPT ![TenantOfRequest(s)] =
                     @ + HoldOf(s) - IF v.status \in Open THEN v.reserved ELSE 0]
  BY <1>3, <1>4, <1>5
<1>7. QED
  BY <1>1, <1>4, <1>6, HoldOnlyMoney

\* A failover moves the difference of the two prices.
LEMMA RebindMoney ==
    ASSUME RowInv, NEW s \in Requests, NEW c \in Channels,
           RebindReservationChannel(s, c)
    PROVE  RowMoney(s) \/ NoMoney
<1> DEFINE e == Prepared[ModelOf[c]][reservation[s].estimate]
           amount == Charge[ModelOf[c]][e]
           v == [status |-> reservation[s].status, reserved |-> amount,
                 settled |-> reservation[s].settled, released |-> reservation[s].released,
                 estimate |-> e]
<1>1. /\ reservation[s] \in ReservationRow /\ reservation[s].status \in Open
      /\ UNCHANGED <<creditTx, chargeTx, spent>>
  BY DEF RebindReservationChannel, RowInv, TypeOK, ReservationRow, ledgerVars
<1>2. CASE RebindSameModel(s, c)
  BY <1>1, <1>2 DEF RebindSameModel, NoMoney
<1>3. CASE RebindOtherModel(s, c, e)
  <2>1. amount \in Nat /\ e \in Usages
    BY <1>1, Prices DEF ReservationRow
  <2>2. /\ reservation' = [reservation EXCEPT ![s] = v]
        /\ balance' = [balance EXCEPT ![TenantOfRequest(s)] =
                         @ + reservation[s].reserved - amount]
    BY <1>3 DEF RebindOtherModel, RowInv, TypeOK
  <2>3. v \in ReservationRow /\ v.status \in Open /\ v.reserved = amount
    <3> HIDE DEF amount, e
    <3>1. QED
      BY <1>1, <2>1 DEF ReservationRow
  <2>4. HoldOf(s) = reservation[s].reserved
    BY <1>1 DEF HoldOf
  <2> HIDE DEF v, amount
  <2>5. balance' = [balance EXCEPT ![TenantOfRequest(s)] =
                       @ + HoldOf(s) - IF v.status \in Open THEN v.reserved ELSE 0]
    BY <2>2, <2>3, <2>4
  <2>6. QED
    BY <1>1, <2>2, <2>3, <2>5, HoldOnlyMoney
<1>4. QED
  BY <1>2, <1>3 DEF RebindReservationChannel

\* A pending step moves no money.
LEMMA MarkMoney ==
    ASSUME RowInv, NEW s \in Requests, NEW u, MarkSettlementPending(s, u)
    PROVE  RowMoney(s)
<1> DEFINE v == [reservation[s] EXCEPT !.status = "pending"]
<1>1. /\ reservation[s] \in ReservationRow /\ reservation[s].status \in Open
      /\ UNCHANGED <<balance, creditTx, chargeTx, spent>>
      /\ reservation' = [reservation EXCEPT ![s] = v]
  BY DEF MarkSettlementPending, RowInv, TypeOK, ReservationRow, ledgerVars
<1>2. v \in ReservationRow /\ v.status \in Open /\ v.reserved = HoldOf(s)
  BY <1>1 DEF ReservationRow, ReservationStatus, Open, HoldOf
<1> HIDE DEF v
<1>3. balance' = [balance EXCEPT ![TenantOfRequest(s)] =
                     @ + HoldOf(s) - IF v.status \in Open THEN v.reserved ELSE 0]
  <2>1. HoldOf(s) \in Nat /\ TenantOfRequest(s) \in Tenants
    BY Prices, HoldTypes
  <2>2. balance \in [Tenants -> Int] /\ balance[TenantOfRequest(s)] \in Int
    BY <2>1 DEF RowInv, TypeOK
  <2>3. balance[TenantOfRequest(s)] + HoldOf(s) - HoldOf(s) = balance[TenantOfRequest(s)]
    BY <2>1, <2>2
  <2>4. balance = [balance EXCEPT ![TenantOfRequest(s)] = @ + HoldOf(s) - HoldOf(s)]
    BY <2>2, <2>3
  <2>5. QED
    BY <1>1, <1>2, <2>4
<1>4. QED
  BY <1>1, <1>2, <1>3, HoldOnlyMoney

\* A release moves the hold back to the balance.
LEMMA ReleaseMoney ==
    ASSUME RowInv, NEW s \in Requests, NEW target \in {"released", "expired"},
           Release(s, target)
    PROVE  RowMoney(s)
<1> DEFINE v == [reservation[s] EXCEPT !.status = target,
                                       !.released = reservation[s].reserved]
<1>1. /\ reservation[s] \in ReservationRow /\ reservation[s].status \in Open
      /\ UNCHANGED <<creditTx, chargeTx, spent>>
      /\ reservation' = [reservation EXCEPT ![s] = v]
      /\ balance' = [balance EXCEPT ![TenantOfRequest(s)] = @ + reservation[s].reserved]
  BY DEF Release, GiveBack, RowInv, TypeOK, ReservationRow, ledgerVars, Open
<1>2. v \in ReservationRow /\ v.status \notin Open /\ reservation[s].reserved = HoldOf(s)
  BY <1>1 DEF ReservationRow, ReservationStatus, Open, HoldOf
<1> HIDE DEF v
<1>3. balance' = [balance EXCEPT ![TenantOfRequest(s)] =
                     @ + HoldOf(s) - IF v.status \in Open THEN v.reserved ELSE 0]
  <2>1. HoldOf(s) \in Nat /\ TenantOfRequest(s) \in Tenants
    BY Prices, HoldTypes
  <2>2. balance[TenantOfRequest(s)] \in Int
    BY <2>1 DEF RowInv, TypeOK
  <2>3. balance[TenantOfRequest(s)] + HoldOf(s) - 0
           = balance[TenantOfRequest(s)] + reservation[s].reserved
    BY <1>2, <2>1, <2>2
  <2>4. QED
    BY <1>1, <1>2, <2>3
<1>4. QED
  BY <1>1, <1>2, <1>3, HoldOnlyMoney

\* Settle moves the hold back and charges the actual amount.
LEMMA SettleMoney ==
    ASSUME RowInv, NEW s \in Requests, NEW u \in Usages, Settle(s, u)
    PROVE  RowMoney(s)
<1> DEFINE actual == Charge[request[s].model][u]
<1>1. reservation[s].status \in Open
  BY DEF Settle
<1>2. /\ actual \in Nat /\ chargeTx[s] = 0
      /\ TenantOfRequest(s) \in Tenants /\ TokenOf[s] \in Tokens
  BY <1>1, OpenIsBound, Prices
<1>3. /\ creditTx' = creditTx
      /\ spent' = [spent EXCEPT ![TokenOf[s]] = @ + actual]
      /\ balance' = [balance EXCEPT ![TenantOfRequest(s)] = @ + reservation[s].reserved - actual]
      /\ chargeTx' = [chargeTx EXCEPT ![s] = @ + actual]
      /\ \A r \in Requests : r # s => reservation'[r] = reservation[r]
      /\ reservation'[s].status = "settled"
  BY DEF Settle, ChargeAndClose, RowInv, TypeOK
<1> HIDE DEF actual
<1>4. chargeTx'[s] = actual /\ OnlyRow(s)
  BY <1>2, <1>3 DEF OnlyRow, RowInv, TypeOK
<1>5. HoldOf(s) = reservation[s].reserved /\ HoldOf(s)' = 0 /\ HoldOf(s) \in Nat
  BY <1>1, <1>3, HoldTypes DEF HoldOf, Open
<1>6. balance[TenantOfRequest(s)] \in Int /\ spent[TokenOf[s]] \in Int
  BY <1>2 DEF RowInv, TypeOK
<1>7. /\ balance[TenantOfRequest(s)] + reservation[s].reserved - actual =
            balance[TenantOfRequest(s)] + HoldOf(s) + chargeTx[s] - HoldOf(s)' - chargeTx'[s]
      /\ spent[TokenOf[s]] + actual = spent[TokenOf[s]] + chargeTx'[s] - chargeTx[s]
  BY <1>2, <1>4, <1>5, <1>6
<1>8. QED
  BY <1>3, <1>4, <1>7 DEF RowMoney

\* Every step is one of the three.
LEMMA StepMoney ==
    ASSUME RowInv, [Next]_vars
    PROVE  \/ \E t \in Tenants, j \in CreditKeys, a \in CreditAmounts :
                 Posting(t, j, a) \/ Posting(t, j, -a)
           \/ \E s \in Requests : RowMoney(s)
           \/ NoMoney
<1> DEFINE Goal == \/ \E t \in Tenants, j \in CreditKeys, a \in CreditAmounts :
                         Posting(t, j, a) \/ Posting(t, j, -a)
                   \/ \E s \in Requests : RowMoney(s)
                   \/ NoMoney
<1> SUFFICES Goal
  OBVIOUS
<1>1. ASSUME NEW t \in Tenants, NEW j \in CreditKeys, NEW a \in CreditAmounts,
             Credit(t, j, a) \/ Debit(t, j, a)
      PROVE  Goal
  <2>1. Posting(t, j, a) \/ Posting(t, j, -a)
    BY <1>1 DEF Credit, Debit, Post, Posting
  <2>2. QED
    BY <2>1
<1>2. ASSUME NEW k \in Tokens, DeactivateToken(k) \/ ReactivateToken(k)
      PROVE  Goal
  BY <1>2 DEF DeactivateToken, ReactivateToken, NoMoney, ledgerVars
<1>3. CASE AccountStep
  <2> HIDE DEF Goal
  <2>1. QED
    BY <1>1, <1>2, <1>3, Zenon DEF AccountStep
<1>4. ASSUME NEW s \in Requests, RowMoney(s) \/ NoMoney PROVE Goal
  BY <1>4
<1>5. ASSUME NEW s \in Requests, PaidStep(s) PROVE Goal
  <2>1. ASSUME NEW c \in Channels, NEW e \in Usages, Reserve(s, c, e) PROVE RowMoney(s)
    BY <2>1, ReserveMoney
  <2>2. ASSUME NEW c \in Channels, RebindReservationChannel(s, c) PROVE RowMoney(s) \/ NoMoney
    BY <2>2, RebindMoney
  <2>3. ASSUME NEW u \in Usages, Settle(s, u) \/ SettleByModelRequestID(s, u)
        PROVE  RowMoney(s)
    BY <2>3, SettleMoney DEF SettleByModelRequestID
  <2>4. ASSUME NEW u, MarkSettlementPending(s, u) PROVE RowMoney(s)
    BY <2>4, MarkMoney
  <2>5. ASSUME Fail(s) PROVE RowMoney(s)
    BY <2>5, ReleaseMoney DEF Fail
  <2>6. ASSUME ExtendReservation(s) PROVE NoMoney
    BY <2>6 DEF ExtendReservation, NoMoney, ledgerVars
  <2> HIDE DEF Goal
  <2>7. RowMoney(s) \/ NoMoney
    BY <1>5, <2>1, <2>2, <2>3, <2>4, <2>5, <2>6, Zenon DEF PaidStep
  <2>8. QED
    BY <1>4, <2>7
<1>6. ASSUME NEW s \in Requests, FreeStep(s) \/ Lapse(s) PROVE Goal
  <2>1. NoMoney
    BY <1>6 DEF FreeStep, StartFreeRequest, RebindRequestChannel, CompleteFreeRequest,
                FailFreeRequest, Lapse, NoMoney, ledgerVars
  <2>2. QED
    BY <2>1
<1>7. CASE ReaperStep
  <2>1. ASSUME NEW s \in Requests, ReaperExpire(s) PROVE Goal
    BY <2>1, ReleaseMoney DEF ReaperExpire
  <2>2. CASE \/ \E ids \in SUBSET Requests : ReaperScan(ids)
             \/ \E s \in Requests : ReaperSkip(s)
             \/ ReaperAbort
    BY <2>2 DEF ReaperScan, ReaperSkip, ReaperAbort, NoMoney, ledgerVars
  <2> HIDE DEF Goal
  <2>3. QED
    BY <1>7, <2>1, <2>2, Zenon DEF ReaperStep
<1>8. CASE UNCHANGED vars
  BY <1>8 DEF vars, NoMoney
<1> HIDE DEF Goal
<1>9. QED
  BY <1>3, <1>5, <1>6, <1>7, <1>8, Zenon DEF Next

-----------------------------------------------------------------------------
(* Conservation of money.                                                  *)

MoneyInv == RowInv /\ LedgerExplainsBalance /\ SpentMatchesLedger

\* LedgerNet by the two sums it is the difference of.
LEMMA LedgerNetIs ==
    \A t \in Tenants : LedgerNet(t) = TenantCredits(t) - TenantCharges(t)
BY DEF LedgerNet, TenantCredits, TenantCharges

\* At the start nothing was posted, charged or held.
LEMMA InitMoney == Init => MoneyInv
<1>1. SUFFICES ASSUME Init PROVE MoneyInv
  OBVIOUS
<1>2. NumRequests \in Nat /\ NumCredits \in Nat
  BY SizesAssumption
<1>3. LedgerExplainsBalance
  <2>1. SUFFICES ASSUME NEW t \in Tenants
                 PROVE  balance[t] = TenantCredits(t) - TenantCharges(t) - Held(t)
    BY LedgerNetIs DEF LedgerExplainsBalance
  <2> DEFINE h == [r \in Requests |-> IF TenantOfRequest(r) = t /\ reservation[r].status \in Open
                                      THEN reservation[r].reserved ELSE 0]
             c == [r \in Requests |-> IF TenantOfRequest(r) = t THEN chargeTx[r] ELSE 0]
             d == [k \in CreditKeys |-> IF creditTx[k].tenant = t THEN creditTx[k].amount ELSE 0]
  <2>2. h \in [1 .. NumRequests -> Int] /\ \A r \in 1 .. NumRequests : h[r] = 0
    BY <1>1 DEF Init, NoReservation, Open, Requests
  <2>3. c \in [1 .. NumRequests -> Int] /\ \A r \in 1 .. NumRequests : c[r] = 0
    BY <1>1 DEF Init, Requests
  <2>4. d \in [1 .. NumCredits -> Int] /\ \A k \in 1 .. NumCredits : d[k] = 0
    BY <1>1 DEF Init, NoCredit, CreditKeys
  <2>5. /\ Held(t) = Total(h, NumRequests)
        /\ TenantCharges(t) = Total(c, NumRequests)
        /\ TenantCredits(t) = Total(d, NumCredits)
    BY DEF Held, TenantCharges, TenantCredits
  <2> HIDE DEF h, c, d
  <2>6. Total(h, NumRequests) = 0
    BY <1>2, <2>2, TotalOfZeros
  <2>7. Total(c, NumRequests) = 0
    BY <1>2, <2>3, TotalOfZeros
  <2>8. Total(d, NumCredits) = 0
    BY <1>2, <2>4, TotalOfZeros
  <2>9. balance[t] = 0
    BY <1>1 DEF Init
  <2>10. QED
    BY <2>5, <2>6, <2>7, <2>8, <2>9
<1>4. SpentMatchesLedger
  <2>1. SUFFICES ASSUME NEW k \in Tokens PROVE spent[k] = TokenCharges(k)
    BY DEF SpentMatchesLedger, TokenCharges
  <2> DEFINE c == [r \in Requests |-> IF TokenOf[r] = k THEN chargeTx[r] ELSE 0]
  <2>2. c \in [1 .. NumRequests -> Int] /\ \A r \in 1 .. NumRequests : c[r] = 0
    BY <1>1 DEF Init, Requests
  <2>3. TokenCharges(k) = Total(c, NumRequests)
    BY DEF TokenCharges
  <2> HIDE DEF c
  <2>4. Total(c, NumRequests) = 0
    BY <1>2, <2>2, TotalOfZeros
  <2>5. QED
    BY <1>1, <2>3, <2>4 DEF Init
<1>5. QED
  BY <1>1, <1>3, <1>4, InitRows DEF MoneyInv

\* Every step keeps MoneyInv.
LEMMA NextMoney == MoneyInv /\ [Next]_vars => MoneyInv'
<1>1. SUFFICES ASSUME MoneyInv, [Next]_vars PROVE MoneyInv'
  OBVIOUS
<1>2. RowInv /\ RowInv'
  BY <1>1, NextRows DEF MoneyInv
<1>3. /\ \A t \in Tenants : balance[t] = TenantCredits(t) - TenantCharges(t) - Held(t)
      /\ \A k \in Tokens : spent[k] = TokenCharges(k)
  BY <1>1, LedgerNetIs
     DEF MoneyInv, LedgerExplainsBalance, SpentMatchesLedger, TokenCharges
<1> DEFINE Accounts == \A t \in Tenants :
                        balance'[t] = TenantCredits(t)' - TenantCharges(t)' - Held(t)'
           Spent  == \A k \in Tokens : spent'[k] = TokenCharges(k)'
<1>4. ASSUME NEW s \in Requests, RowMoney(s) PROVE Accounts /\ Spent
  <2>1. TenantOfRequest(s) \in Tenants /\ TokenOf[s] \in Tokens
        /\ HoldOf(s) \in Int /\ HoldOf(s)' \in Int
        /\ chargeTx[s] \in Int /\ chargeTx'[s] \in Int
    BY <1>2, Prices DEF RowInv, TypeOK, HoldOf
  <2>2. ASSUME NEW t \in Tenants
        PROVE  balance'[t] = TenantCredits(t)' - TenantCharges(t)' - Held(t)'
    <3>1. TenantCredits(t)' = TenantCredits(t)
      BY <1>4 DEF RowMoney, TenantCredits
    <3>2. /\ Held(t) \in Int
          /\ Held(t)' = Held(t) + IF TenantOfRequest(s) = t THEN HoldOf(s)' - HoldOf(s) ELSE 0
      BY <1>2, <1>4, HeldAfter DEF RowMoney
    <3>3. /\ TenantCharges(t) \in Int
          /\ TenantCharges(t)' = TenantCharges(t) + IF TenantOfRequest(s) = t
                                    THEN chargeTx'[s] - chargeTx[s] ELSE 0
      BY <1>2, <1>4, ChargesAfter DEF RowMoney
    <3>4. balance'[t] = balance[t] + IF TenantOfRequest(s) = t
                              THEN HoldOf(s) + chargeTx[s] - HoldOf(s)' - chargeTx'[s] ELSE 0
      BY <1>2, <1>4, <2>1 DEF RowMoney, RowInv, TypeOK
    <3>5. balance[t] \in Int /\ TenantCredits(t) = balance[t] + TenantCharges(t) + Held(t)
      <4>1. balance[t] \in Int /\ TenantCredits(t) \in Int
        BY <1>2, SumTypes DEF RowInv, TypeOK
      <4>2. QED
        BY <1>3, <3>2, <3>3, <4>1
    <3>6. QED
      BY <2>1, <3>1, <3>2, <3>3, <3>4, <3>5
  <2>3. ASSUME NEW k \in Tokens PROVE spent'[k] = TokenCharges(k)'
    <3>1. /\ TokenCharges(k) \in Int
          /\ TokenCharges(k)' = TokenCharges(k) + IF TokenOf[s] = k
                                   THEN chargeTx'[s] - chargeTx[s] ELSE 0
      BY <1>2, <1>4, ChargesAfter DEF RowMoney
    <3>2. spent'[k] = spent[k] + IF TokenOf[s] = k THEN chargeTx'[s] - chargeTx[s] ELSE 0
      BY <1>2, <1>4, <2>1 DEF RowMoney, RowInv, TypeOK
    <3>3. QED
      BY <1>3, <2>1, <3>1, <3>2
  <2>4. QED
    BY <2>2, <2>3
<1>5. ASSUME UNCHANGED <<chargeTx, reservation>>
      PROVE  /\ \A t \in Tenants : /\ TenantCharges(t)' = TenantCharges(t)
                                   /\ Held(t)' = Held(t)
             /\ \A k \in Tokens : TokenCharges(k)' = TokenCharges(k)
  BY <1>5 DEF TenantCharges, TokenCharges, Held
<1>6. ASSUME NEW u \in Tenants, NEW j \in CreditKeys, NEW a \in Int, Posting(u, j, a)
      PROVE  Accounts /\ Spent
  <2>1. ASSUME NEW t \in Tenants
        PROVE  balance'[t] = TenantCredits(t)' - TenantCharges(t)' - Held(t)'
    <3>1. /\ TenantCredits(t) \in Int
          /\ TenantCredits(t)' = TenantCredits(t) + IF t = u THEN a ELSE 0
      BY <1>2, <1>6, CreditsAfter DEF Posting
    <3>2. balance'[t] = balance[t] + IF t = u THEN a ELSE 0
      BY <1>2, <1>6 DEF Posting, RowInv, TypeOK
    <3>3. TenantCharges(t)' = TenantCharges(t) /\ Held(t)' = Held(t)
      BY <1>5, <1>6 DEF Posting
    <3>4. balance[t] = TenantCredits(t) - TenantCharges(t) - Held(t)
      BY <1>3
    <3>5. TenantCharges(t) \in Int /\ Held(t) \in Int
      BY <1>2, SumTypes
    <3>6. QED
      BY <3>1, <3>2, <3>3, <3>4, <3>5
  <2>2. Spent
    BY <1>3, <1>5, <1>6 DEF Posting
  <2>3. QED
    BY <2>1, <2>2
<1>7. ASSUME NoMoney PROVE Accounts /\ Spent
  <2>1. \A t \in Tenants : TenantCredits(t)' = TenantCredits(t)
    BY <1>7 DEF NoMoney, TenantCredits
  <2>2. QED
    BY <1>3, <1>5, <1>7, <2>1 DEF NoMoney
<1>8. Accounts /\ Spent
  <2>1. \A a \in CreditAmounts : a \in Int /\ -a \in Int
    BY AmountsAssumption
  <2> HIDE DEF Accounts, Spent
  <2>2. CASE \E t \in Tenants, j \in CreditKeys, a \in CreditAmounts :
               Posting(t, j, a) \/ Posting(t, j, -a)
    BY <1>6, <2>1, <2>2
  <2>3. QED
    BY <1>1, <1>2, <1>4, <1>7, <2>2, StepMoney, Zenon
<1>9. LedgerExplainsBalance'
  BY <1>8 DEF LedgerExplainsBalance, LedgerNet, TenantCredits, TenantCharges
<1>10. SpentMatchesLedger'
  BY <1>8 DEF SpentMatchesLedger, TokenCharges
<1>11. QED
  BY <1>2, <1>9, <1>10 DEF MoneyInv

\* MoneyInv is an invariant of the billing core.
LEMMA MoneyInvariant == Spec => []MoneyInv
<1>1. QED
  BY InitMoney, NextMoney, PTL DEF Spec

\* At every moment the append-only ledger explains every balance.
THEOREM LedgerAlwaysExplainsBalance == Spec => []LedgerExplainsBalance
<1>1. MoneyInv => LedgerExplainsBalance
  BY DEF MoneyInv
<1>2. QED
  BY <1>1, MoneyInvariant, PTL

\* A token's spent_amount is what the ledger charged to its requests.
THEOREM SpentAlwaysMatchesLedger == Spec => []SpentMatchesLedger
<1>1. MoneyInv => SpentMatchesLedger
  BY DEF MoneyInv
<1>2. QED
  BY <1>1, MoneyInvariant, PTL

-----------------------------------------------------------------------------
(* Spend limits and overdrafts.                                            *)

\* Only Reserve creates a hold.
LEMMA NewHoldIsReserve ==
    ASSUME RowInv, [Next]_vars, NEW r \in Requests,
           reservation[r].status = "none", reservation'[r].status = "held"
    PROVE  \E c \in Channels, e \in Usages : Reserve(r, c, e)
<1>1. PICK s \in Requests : PaidStep(s) \/ FreeStep(s) \/ Release(s, "expired")
  BY StepsAreRowSteps
<1>2. s = r
  BY <1>1, RowSteps DEF Rows
<1>3. ~ FreeStep(r)
  BY DEF FreeStep, StartFreeRequest, RebindRequestChannel, CompleteFreeRequest, FailFreeRequest
<1>4. ~ Release(r, "expired") /\ ~ Fail(r)
  BY DEF Release, Fail
<1>5. \A u : ~ Settle(r, u) /\ ~ SettleByModelRequestID(r, u) /\ ~ MarkSettlementPending(r, u)
  BY DEF Settle, SettleByModelRequestID, MarkSettlementPending, Open
<1>6. \A c : ~ RebindReservationChannel(r, c)
  BY DEF RebindReservationChannel, Open
<1>7. ~ ExtendReservation(r)
  BY DEF ExtendReservation, Open
<1>8. QED
  BY <1>1, <1>2, <1>3, <1>4, <1>5, <1>6, <1>7, Zenon DEF PaidStep

\* A new hold fits the spend limit of its token together with everything that
\* token was charged and has on hold.
THEOREM NewHoldFitsSpendLimit == Spec => NewHoldWithinSpendLimit
<1> DEFINE Fits == \A r \in Requests :
                      reservation[r].status = "none" /\ reservation'[r].status = "held" =>
                         LET k == TokenOf[r]
                         IN  SpendLimit[k] # 0 => (spent[k] + OpenReserved(k))' <= SpendLimit[k]
<1>1. ASSUME RowInv, [Next]_vars PROVE Fits
  <2>1. SUFFICES ASSUME NEW r \in Requests,
                        reservation[r].status = "none", reservation'[r].status = "held",
                        SpendLimit[TokenOf[r]] # 0
                 PROVE  (spent[TokenOf[r]] + OpenReserved(TokenOf[r]))' <= SpendLimit[TokenOf[r]]
    OBVIOUS
  <2> DEFINE k == TokenOf[r]
  <2>2. PICK c \in Channels, e \in Usages : Reserve(r, c, e)
    BY <1>1, <2>1, NewHoldIsReserve
  <2>3. RowInv'
    BY <1>1, NextRows
  <2> DEFINE amount == Charge[ModelOf[c]][Prepared[ModelOf[c]][e]]
  <2>4. k \in Tokens /\ amount \in Nat /\ spent[k] \in Nat /\ SpendLimit[k] \in Nat
    BY <1>1, Prices, AmountsAssumption DEF RowInv, TypeOK
  <2>5. spent' = spent /\ spent[k] + OpenReserved(k) + amount <= SpendLimit[k]
    BY <2>1, <2>2 DEF Reserve, Hold, WithinSpendLimit
  <2>6. OnlyRow(r)
    BY <1>1, <2>2, ReserveMoney DEF RowMoney
  <2>7. HoldOf(r) = 0 /\ HoldOf(r)' = amount
    BY <1>1, <2>1, <2>2 DEF HoldOf, Reserve, Hold, RowInv, TypeOK, Open
  <2>8. /\ OpenReserved(k) \in Int
        /\ OpenReserved(k)' = OpenReserved(k) + HoldOf(r)' - HoldOf(r)
    <3>1. /\ OpenReserved(k) \in Int
          /\ OpenReserved(k)' = OpenReserved(k) + IF TokenOf[r] = k
                                                  THEN HoldOf(r)' - HoldOf(r) ELSE 0
      BY <1>1, <2>3, <2>4, <2>6, OpenReservedAfter
    <3>2. HoldOf(r) \in Int /\ HoldOf(r)' \in Int
      BY <2>4, <2>7
    <3>3. QED
      BY <3>1, <3>2
  <2> HIDE DEF amount
  <2>9. spent'[k] + OpenReserved(k)' <= SpendLimit[k]
    BY <2>4, <2>5, <2>7, <2>8
  <2>10. QED
    BY <2>9
<1>2. QED
  BY <1>1, RowsInvariant, PTL DEF Spec, NewHoldWithinSpendLimit

\* Only a settlement or a debit takes an account below zero.
THEOREM OnlySettlementsOverdraw == Spec => OnlySettlementOverdraws
<1>1. ASSUME RowInv, [Next]_vars PROVE OverdraftIsExplained
  <2> USE DEF OverdraftIsExplained
  <2>0. balance \in [Tenants -> Int] /\ \A r \in Requests : TenantOfRequest(r) \in Tenants
    BY <1>1, Prices DEF RowInv, TypeOK
  <2>1. ASSUME NEW u \in Tenants, NEW j \in CreditKeys, NEW a, Posting(u, j, a) PROVE OverdraftIsExplained
    <3>1. creditTx'[j].tenant = u /\ creditTx[j].tenant = NoTenant
      BY <1>1, <2>1 DEF Posting, NoCredit, RowInv, TypeOK
    <3>2. QED
      BY <3>1, SentinelsAssumption
  <2>2. ASSUME balance' = balance PROVE OverdraftIsExplained
    BY <2>0, <2>2
  <2>3. ASSUME NEW s \in Requests, NEW target, Release(s, target) PROVE OverdraftIsExplained
    <3>1. /\ balance' = [balance EXCEPT ![TenantOfRequest(s)] = @ + reservation[s].reserved]
          /\ reservation[s].reserved \in Nat
      BY <1>1, <2>3 DEF Release, GiveBack, RowInv, TypeOK
    <3>2. QED
      BY <2>0, <3>1
  <2>4. ASSUME NEW s \in Requests, NEW c \in Channels, NEW e \in Usages, Reserve(s, c, e)
        PROVE  OverdraftIsExplained
    <3> DEFINE amount == Charge[ModelOf[c]][Prepared[ModelOf[c]][e]]
    <3>1. /\ balance' = [balance EXCEPT ![TenantOfRequest(s)] = @ - amount]
          /\ balance[TenantOfRequest(s)] >= amount
      BY <2>4 DEF Reserve, Hold, TenantOfRequest
    <3>2. amount \in Nat
      BY Prices
    <3> HIDE DEF amount
    <3>3. QED
      BY <2>0, <3>1, <3>2
  <2>5. ASSUME NEW s \in Requests, NEW c \in Channels, RebindReservationChannel(s, c)
        PROVE  OverdraftIsExplained
    <3> DEFINE e == Prepared[ModelOf[c]][reservation[s].estimate]
               amount == Charge[ModelOf[c]][e]
    <3>1. CASE RebindSameModel(s, c)
      BY <2>2, <3>1 DEF RebindSameModel
    <3>2. CASE RebindOtherModel(s, c, e)
      <4>1. /\ balance' = [balance EXCEPT ![TenantOfRequest(s)] =
                             @ + reservation[s].reserved - amount]
            /\ balance[TenantOfRequest(s)] + reservation[s].reserved >= amount
        BY <3>2 DEF RebindOtherModel
      <4>2. amount \in Nat /\ reservation[s].reserved \in Nat
        BY <1>1, Prices DEF RowInv, TypeOK
      <4> HIDE DEF amount
      <4>3. QED
        BY <2>0, <4>1, <4>2
    <3>3. QED
      BY <2>5, <3>1, <3>2 DEF RebindReservationChannel
  <2>6. ASSUME NEW s \in Requests, NEW u \in Usages, Settle(s, u) PROVE OverdraftIsExplained
    <3>1. reservation[s].status \in Open /\ reservation'[s].status = "settled"
      BY <1>1, <2>6 DEF Settle, ChargeAndClose, RowInv, TypeOK
    <3>2. \A t \in Tenants : t # TenantOfRequest(s) => balance'[t] = balance[t]
      BY <2>0, <2>6 DEF Settle, ChargeAndClose
    <3>3. QED
      BY <2>0, <3>1, <3>2
  <2>7. CASE AccountStep
    <3>1. ASSUME NEW u \in Tenants, NEW j \in CreditKeys, NEW a \in CreditAmounts,
                 Credit(u, j, a) \/ Debit(u, j, a)
          PROVE  OverdraftIsExplained
      <4>1. Posting(u, j, a) \/ Posting(u, j, -a)
        BY <3>1 DEF Credit, Debit, Post, Posting
      <4>2. QED
        BY <2>1, <4>1
    <3>2. ASSUME NEW k \in Tokens, DeactivateToken(k) \/ ReactivateToken(k) PROVE OverdraftIsExplained
      BY <2>2, <3>2 DEF DeactivateToken, ReactivateToken
    <3> HIDE DEF OverdraftIsExplained
    <3>3. QED
      BY <2>7, <3>1, <3>2, Zenon DEF AccountStep
  <2>8. ASSUME NEW s \in Requests, PaidStep(s) PROVE OverdraftIsExplained
    <3>1. ASSUME NEW u, MarkSettlementPending(s, u) PROVE OverdraftIsExplained
      BY <2>2, <3>1 DEF MarkSettlementPending
    <3>2. ASSUME Fail(s) PROVE OverdraftIsExplained
      BY <2>3, <3>2 DEF Fail
    <3>3. ASSUME ExtendReservation(s) PROVE OverdraftIsExplained
      BY <2>2, <3>3 DEF ExtendReservation
    <3>4. ASSUME NEW u \in Usages, SettleByModelRequestID(s, u) PROVE OverdraftIsExplained
      BY <2>6, <3>4 DEF SettleByModelRequestID
    <3> HIDE DEF OverdraftIsExplained
    <3>5. QED
      BY <2>4, <2>5, <2>6, <2>8, <3>1, <3>2, <3>3, <3>4, Zenon DEF PaidStep
  <2>9. ASSUME NEW s \in Requests, FreeStep(s) \/ Lapse(s) PROVE OverdraftIsExplained
    BY <2>2, <2>9 DEF FreeStep, StartFreeRequest, RebindRequestChannel, CompleteFreeRequest,
                      FailFreeRequest, Lapse
  <2>10. CASE ReaperStep
    BY <2>2, <2>3, <2>10 DEF ReaperStep, ReaperScan, ReaperExpire, ReaperSkip, ReaperAbort
  <2>11. CASE UNCHANGED vars
    BY <2>2, <2>11 DEF vars
  <2> HIDE DEF OverdraftIsExplained
  <2>12. QED
    BY <1>1, <2>7, <2>8, <2>9, <2>10, <2>11, Zenon DEF Next
<1>2. QED
  BY <1>1, RowsInvariant, PTL DEF Spec, OnlySettlementOverdraws

\* Conservation of money, of the accounts and of what the tokens have spent.
THEOREM MoneyIsNeverLost == Spec => []MoneyIsConserved
<1>1. LedgerExplainsBalance /\ SpentMatchesLedger => MoneyIsConserved
  BY DEF MoneyIsConserved
<1>2. QED
  BY <1>1, LedgerAlwaysExplainsBalance, SpentAlwaysMatchesLedger, PTL

\* Holds are admitted within the balance and the limit of the token, and only
\* settlements and operators overdraw an account.
THEOREM AdmissionIsWithinLimits == Spec => AdmittedWithinLimits
BY NewHoldFitsSpendLimit, OnlySettlementsOverdraw DEF AdmittedWithinLimits

-----------------------------------------------------------------------------
(* The billing core implements the customer's account                      *)

\* The refinement mapping.
Funds    == [t \in Tenants |-> balance[t] + Held(t)]
Outcome  == [r \in Requests |-> OutcomeOf(r)]

\* The initial state maps to the initial state of the account.
LEMMA MapsInit == Init => Account!Init
<1>1. SUFFICES ASSUME Init PROVE Account!Init
  OBVIOUS
<1>2. RowInv
  BY <1>1, InitRows
<1>3. ASSUME NEW t \in Tenants PROVE balance[t] + Held(t) = 0
  <2> DEFINE h == [r \in Requests |-> IF TenantOfRequest(r) = t /\ reservation[r].status \in Open
                                      THEN reservation[r].reserved ELSE 0]
  <2>1. h \in [1 .. NumRequests -> Int] /\ \A r \in 1 .. NumRequests : h[r] = 0
    BY <1>1 DEF Init, NoReservation, Open, Requests
  <2>2. Held(t) = Total(h, NumRequests)
    BY DEF Held
  <2>3. NumRequests \in Nat
    BY SizesAssumption
  <2> HIDE DEF h
  <2>4. Total(h, NumRequests) = 0
    BY <2>1, <2>3, TotalOfZeros
  <2>5. QED
    BY <1>1, <2>2, <2>4 DEF Init
<1>4. \A r \in Requests : OutcomeOf(r) = "absent"
  BY <1>1 DEF Init, NoRequest, OutcomeOf
<1>5. QED
  BY <1>3, <1>4 DEF Account!Init

\* A posting moves the funds of its tenant by its amount.
LEMMA PostingFunds ==
    ASSUME RowInv, NEW u \in Tenants, NEW j \in CreditKeys, NEW a \in Int, Posting(u, j, a)
    PROVE  Funds' = [Funds EXCEPT ![u] = @ + a]
<1>1. ASSUME NEW t \in Tenants
      PROVE  (balance[t] + Held(t))' = IF t = u THEN balance[t] + Held(t) + a
                                       ELSE balance[t] + Held(t)
  <2>1. Held(t)' = Held(t)
    BY DEF Posting, Held
  <2>2. Held(t) \in Int /\ balance \in [Tenants -> Int]
    BY SumTypes DEF RowInv, TypeOK
  <2>3. QED
    BY <2>1, <2>2 DEF Posting
<1>2. QED
  BY <1>1 DEF Funds

\* An operation on a request moves the funds of its tenant by what it charges.
LEMMA RowFunds ==
    ASSUME RowInv, RowInv', NEW s \in Requests, RowMoney(s)
    PROVE  Funds' = [Funds EXCEPT ![TenantOfRequest(s)] = @ + (chargeTx[s] - chargeTx'[s])]
<1>1. /\ TenantOfRequest(s) \in Tenants /\ balance \in [Tenants -> Int]
      /\ HoldOf(s) \in Int /\ HoldOf(s)' \in Int
      /\ chargeTx[s] \in Int /\ chargeTx'[s] \in Int
  BY Prices DEF RowInv, TypeOK, HoldOf
<1>2. ASSUME NEW t \in Tenants
      PROVE  (balance[t] + Held(t))' = IF t = TenantOfRequest(s)
                                       THEN balance[t] + Held(t) + (chargeTx[s] - chargeTx'[s])
                                       ELSE balance[t] + Held(t)
  <2>1. /\ Held(t) \in Int
        /\ Held(t)' = Held(t) + IF TenantOfRequest(s) = t THEN HoldOf(s)' - HoldOf(s) ELSE 0
    BY HeldAfter DEF RowMoney
  <2>2. balance'[t] = balance[t] + IF TenantOfRequest(s) = t
                            THEN HoldOf(s) + chargeTx[s] - HoldOf(s)' - chargeTx'[s] ELSE 0
    BY <1>1 DEF RowMoney
  <2>3. QED
    BY <1>1, <2>1, <2>2
<1>3. PICK u \in Tenants, d \in Int :
             u = TenantOfRequest(s) /\ d = chargeTx[s] - chargeTx'[s]
  BY <1>1
<1>4. ASSUME NEW t \in Tenants
      PROVE  (balance[t] + Held(t))' = IF t = u THEN balance[t] + Held(t) + d
                                       ELSE balance[t] + Held(t)
  BY <1>2, <1>3
<1>5. Funds' = [Funds EXCEPT ![u] = @ + d]
  BY <1>4 DEF Funds
<1>6. QED
  BY <1>3, <1>5

\* An operation that charges nothing leaves the funds alone.
LEMMA FundsKept ==
    ASSUME RowInv, RowInv', NEW s \in Requests, RowMoney(s) \/ NoMoney,
           chargeTx' = chargeTx
    PROVE  Funds' = Funds
<1>1. CASE RowMoney(s)
  <2>1. /\ TenantOfRequest(s) \in Tenants /\ chargeTx[s] \in Int
        /\ \A t \in Tenants : Funds[t] \in Int
    BY Prices, SumTypes DEF RowInv, TypeOK, Funds
  <2>2. Funds' = [Funds EXCEPT ![TenantOfRequest(s)] = @ + (chargeTx[s] - chargeTx'[s])]
    BY <1>1, RowFunds
  <2>3. Funds[TenantOfRequest(s)] + (chargeTx[s] - chargeTx'[s]) = Funds[TenantOfRequest(s)]
    BY <2>1
  <2>4. QED
    BY <2>2, <2>3 DEF Funds
<1>2. CASE NoMoney
  BY <1>2 DEF NoMoney, Funds, Held
<1>3. QED
  BY <1>1, <1>2

\* The outcome of a request is a function of its two statuses.
LEMMA OutcomeChange ==
    ASSUME RowInv, NEW s \in Requests, NEW o, OutcomeOf(s)' = o,
           \A r \in Requests : r # s => UNCHANGED <<request[r], reservation[r]>>
    PROVE  Outcome' = [Outcome EXCEPT ![s] = o]
<1>1. \A r \in Requests : r # s => OutcomeOf(r)' = OutcomeOf(r)
  BY DEF OutcomeOf
<1>2. QED
  BY <1>1 DEF Outcome

AccountNext == Account!Next \/ UNCHANGED Account!accountVars

\* How the abstract steps read through the mapping.
LEMMA AbstractSteps ==
    ASSUME NEW s \in Requests
    PROVE  /\ Funds' = Funds /\ Outcome' = Outcome => AccountNext
           /\ /\ Funds' = Funds
              /\ OutcomeOf(s) = "absent"
              /\ Outcome' = [Outcome EXCEPT ![s] = "open"]
              => AccountNext
           /\ /\ Funds' = Funds
              /\ OutcomeOf(s) = "open"
              /\ Outcome' = [Outcome EXCEPT ![s] = "free"]
              => AccountNext
<1>1. Outcome[s] = OutcomeOf(s)
  BY DEF Outcome
<1>2. ASSUME Funds' = Funds, Outcome' = Outcome PROVE AccountNext
  BY <1>2 DEF AccountNext, Account!accountVars, Funds, Outcome
<1>3. ASSUME Funds' = Funds, OutcomeOf(s) = "absent",
             Outcome' = [Outcome EXCEPT ![s] = "open"]
      PROVE  AccountNext
  <2>1. Account!OpenRequest(s)
    BY <1>1, <1>3 DEF Account!OpenRequest, Funds, Outcome
  <2>2. QED
    BY <2>1 DEF AccountNext, Account!Next
<1>4. ASSUME Funds' = Funds, OutcomeOf(s) = "open",
             Outcome' = [Outcome EXCEPT ![s] = "free"]
      PROVE  AccountNext
  <2>1. Account!CloseFree(s)
    BY <1>1, <1>4 DEF Account!CloseFree, Funds, Outcome
  <2>2. QED
    BY <2>1 DEF AccountNext, Account!Next
<1>5. QED
  BY <1>2, <1>3, <1>4

\* An operation on request s that charges nothing is seen as the opening of
\* the request, its closing without charge, or nothing.
LEMMA FreeOfCharge ==
    ASSUME RowInv, RowInv', NEW s \in Requests,
           PaidStep(s) \/ FreeStep(s) \/ Release(s, "expired"),
           RowMoney(s) \/ NoMoney, chargeTx' = chargeTx,
           \/ OutcomeOf(s)' = OutcomeOf(s)
           \/ OutcomeOf(s) = "absent" /\ OutcomeOf(s)' = "open"
           \/ OutcomeOf(s) = "open" /\ OutcomeOf(s)' = "free"
    PROVE  AccountNext
<1>1. Funds' = Funds
  BY FundsKept
<1>2. \A r \in Requests : r # s => UNCHANGED <<request[r], reservation[r]>>
  BY RowSteps DEF Rows
<1>3. CASE OutcomeOf(s)' = OutcomeOf(s)
  <2>1. \A r \in Requests : OutcomeOf(r)' = OutcomeOf(r)
    BY <1>2, <1>3 DEF OutcomeOf
  <2>2. Outcome' = Outcome
    BY <2>1 DEF Outcome
  <2>3. QED
    BY <1>1, <2>2, AbstractSteps
<1>4. CASE OutcomeOf(s) = "absent" /\ OutcomeOf(s)' = "open"
  <2>1. Outcome' = [Outcome EXCEPT ![s] = "open"]
    BY <1>2, <1>4, OutcomeChange
  <2>2. QED
    BY <1>1, <1>4, <2>1, AbstractSteps
<1>5. CASE OutcomeOf(s) = "open" /\ OutcomeOf(s)' = "free"
  <2>1. Outcome' = [Outcome EXCEPT ![s] = "free"]
    BY <1>2, <1>5, OutcomeChange
  <2>2. QED
    BY <1>1, <1>5, <2>1, AbstractSteps
<1>6. QED
  BY <1>3, <1>4, <1>5

\* A release closes the request without charge.
LEMMA ReleaseIsFree ==
    ASSUME RowInv, RowInv', NEW s \in Requests,
           NEW target \in {"released", "expired"}, Release(s, target),
           PaidStep(s) \/ target = "expired"
    PROVE  AccountNext
<1>1. /\ RowOK(request[s], reservation[s], chargeTx[s])
      /\ request \in [Requests -> RequestRow]
  BY DEF RowInv, TypeOK, RequestRow
<1>2. request[s].status = "started" /\ request'[s].status = "failed" /\ chargeTx' = chargeTx
  BY <1>1 DEF RowOK, Release, GiveBack, RequestRow, ledgerVars
<1>3. OutcomeOf(s) = "open" /\ OutcomeOf(s)' = "free"
  BY <1>2 DEF OutcomeOf
<1>4. QED
  BY <1>2, <1>3, ReleaseMoney, FreeOfCharge

\* A settlement is the only charge of its request.
LEMMA SettleIsCharge ==
    ASSUME RowInv, RowInv', NEW s \in Requests, NEW u \in Usages, Settle(s, u), PaidStep(s)
    PROVE  AccountNext
<1> DEFINE actual == Charge[request[s].model][u]
<1>1. /\ reservation[s].status \in Open
      /\ request[s].status \in {"started", "settlement_pending"}
  BY DEF Settle, RowInv, RowOK, Open
<1>2. /\ request[s].model \in Models /\ actual \in Nat /\ chargeTx[s] = 0
      /\ TenantOfRequest(s) \in Tenants
  BY <1>1, OpenIsBound, Prices
<1>3. chargeTx' = [chargeTx EXCEPT ![s] = @ + actual]
  BY DEF Settle, ChargeAndClose
<1>4. actual \in UNION {{Charge[m][v] : v \in Usages} : m \in Models}
  BY <1>2
<1>5. request'[s].status = "settled" /\ reservation'[s].status = "settled"
  BY DEF Settle, ChargeAndClose, RowInv, TypeOK
<1>6. OutcomeOf(s) = "open" /\ OutcomeOf(s)' = "charged"
  BY <1>1, <1>5 DEF OutcomeOf
<1>7. \A r \in Requests : r # s => UNCHANGED <<request[r], reservation[r]>>
  BY RowSteps DEF Rows
<1>8. Outcome' = [Outcome EXCEPT ![s] = "charged"] /\ Outcome[s] = "open"
  BY <1>6, <1>7, OutcomeChange DEF Outcome
<1> HIDE DEF actual
<1>9. Funds' = [Funds EXCEPT ![TenantOfRequest(s)] = @ - actual]
  <2>1. Funds' = [Funds EXCEPT ![TenantOfRequest(s)] = @ + (chargeTx[s] - chargeTx'[s])]
    BY SettleMoney, RowFunds
  <2>2. chargeTx'[s] = actual
    BY <1>2, <1>3 DEF RowInv, TypeOK
  <2>3. Funds[TenantOfRequest(s)] \in Int
    BY <1>2, SumTypes DEF RowInv, TypeOK, Funds
  <2>4. Funds[TenantOfRequest(s)] + (chargeTx[s] - chargeTx'[s])
           = Funds[TenantOfRequest(s)] - actual
    BY <1>2, <2>2, <2>3
  <2>5. QED
    BY <2>1, <2>4
<1>10. Account!ChargeRequest(s)
  BY <1>4, <1>8, <1>9 DEF Account!ChargeRequest, Funds, Outcome
<1>11. QED
  BY <1>10 DEF AccountNext, Account!Next

\* Each operation of a paid request, seen by the customer.
LEMMA MapsPaidStep ==
    ASSUME RowInv, RowInv', NEW s \in Requests, PaidStep(s)
    PROVE  AccountNext
<1>1. /\ RowOK(request[s], reservation[s], chargeTx[s])
      /\ request \in [Requests -> RequestRow] /\ reservation \in [Requests -> ReservationRow]
  BY DEF RowInv, TypeOK, RequestRow, ReservationRow
<1>2. ASSUME reservation[s].status \in Open PROVE OutcomeOf(s) = "open"
  BY <1>1, <1>2 DEF RowOK, Open, OutcomeOf
<1>3. ASSUME NEW c \in Channels, NEW e \in Usages, Reserve(s, c, e) PROVE AccountNext
  <2>1. OutcomeOf(s) = "absent" /\ OutcomeOf(s)' = "open" /\ chargeTx' = chargeTx
    BY <1>1, <1>3 DEF Reserve, Hold, OutcomeOf, ledgerVars
  <2>2. QED
    BY <1>3, <2>1, ReserveMoney, FreeOfCharge
<1>4. ASSUME NEW c \in Channels, RebindReservationChannel(s, c) PROVE AccountNext
  <2>1. reservation[s].status \in Open /\ chargeTx' = chargeTx
    BY <1>4 DEF RebindReservationChannel, ledgerVars
  <2>2. request'[s].status = request[s].status /\ reservation'[s].status = reservation[s].status
    BY <1>1, <1>4 DEF RebindReservationChannel, RebindSameModel, RebindOtherModel,
                      RequestRow, ReservationRow
  <2>3. OutcomeOf(s)' = OutcomeOf(s)
    BY <2>2 DEF OutcomeOf
  <2>4. QED
    BY <1>4, <2>1, <2>3, RebindMoney, FreeOfCharge
<1>5. ASSUME NEW u \in Usages, Settle(s, u) \/ SettleByModelRequestID(s, u) PROVE AccountNext
  BY <1>5, SettleIsCharge DEF SettleByModelRequestID
<1>6. ASSUME NEW u, MarkSettlementPending(s, u) PROVE AccountNext
  <2>1. reservation[s].status \in Open /\ chargeTx' = chargeTx
    BY <1>6 DEF MarkSettlementPending, ledgerVars
  <2>2. request'[s].status = "settlement_pending"
    BY <1>1, <1>6 DEF MarkSettlementPending, RequestRow
  <2>3. OutcomeOf(s)' = OutcomeOf(s)
    BY <1>2, <2>1, <2>2 DEF OutcomeOf
  <2>4. QED
    BY <1>6, <2>1, <2>3, MarkMoney, FreeOfCharge
<1>7. ASSUME Fail(s) PROVE AccountNext
  BY <1>7, ReleaseIsFree DEF Fail
<1>8. ASSUME ExtendReservation(s) PROVE AccountNext
  <2>1. UNCHANGED <<request, reservation, chargeTx>> /\ NoMoney
    BY <1>8 DEF ExtendReservation, NoMoney, ledgerVars
  <2>2. OutcomeOf(s)' = OutcomeOf(s)
    BY <2>1 DEF OutcomeOf
  <2>3. QED
    BY <2>1, <2>2, FreeOfCharge
<1>9. QED
  BY <1>3, <1>4, <1>5, <1>6, <1>7, <1>8, Zenon DEF PaidStep

\* Operations of a free request never charge.
LEMMA MapsFreeStep ==
    ASSUME RowInv, RowInv', NEW s \in Requests, FreeStep(s)
    PROVE  AccountNext
<1>1. /\ RowOK(request[s], reservation[s], chargeTx[s])
      /\ request \in [Requests -> RequestRow] /\ reservation \in [Requests -> ReservationRow]
  BY DEF RowInv, TypeOK, RequestRow, ReservationRow
<1>2. UNCHANGED <<chargeTx, reservation>> /\ NoMoney
  BY DEF FreeStep, StartFreeRequest, RebindRequestChannel, CompleteFreeRequest,
         FailFreeRequest, NoMoney, ledgerVars
<1>3. ASSUME FreeStarted(s) PROVE OutcomeOf(s) = "open" /\ reservation[s].status = "none"
  BY <1>3 DEF FreeStarted, OutcomeOf
<1>4. ASSUME NEW c \in Channels, StartFreeRequest(s, c) PROVE AccountNext
  <2>1. OutcomeOf(s) = "absent" /\ OutcomeOf(s)' = "open"
    BY <1>1, <1>4 DEF StartFreeRequest, OutcomeOf
  <2>2. QED
    BY <1>2, <2>1, FreeOfCharge
<1>5. ASSUME NEW c \in Channels, RebindRequestChannel(s, c) PROVE AccountNext
  <2>1. FreeStarted(s) /\ request'[s].status = request[s].status
    BY <1>1, <1>5 DEF RebindRequestChannel, RequestRow
  <2>2. OutcomeOf(s)' = OutcomeOf(s)
    BY <1>2, <2>1 DEF OutcomeOf
  <2>3. QED
    BY <1>2, <2>2, FreeOfCharge
<1>6. ASSUME (\E u \in Usages : CompleteFreeRequest(s, u)) \/ FailFreeRequest(s)
      PROVE  AccountNext
  <2>1. FreeStarted(s) /\ request'[s].status \in {"settled", "failed"}
    BY <1>1, <1>6 DEF CompleteFreeRequest, FailFreeRequest, RequestRow
  <2>2. OutcomeOf(s) = "open" /\ OutcomeOf(s)' = "free"
    BY <1>2, <1>3, <2>1 DEF OutcomeOf
  <2>3. QED
    BY <1>2, <2>2, FreeOfCharge
<1>7. QED
  BY <1>4, <1>5, <1>6, Zenon DEF FreeStep

\* Every step maps to a step of the account or to a stutter.
LEMMA MapsNext == RowInv /\ RowInv' /\ [Next]_vars => AccountNext
<1>1. SUFFICES ASSUME RowInv, RowInv', [Next]_vars PROVE AccountNext
  OBVIOUS
<1>2. ASSUME UNCHANGED <<request, reservation, chargeTx>>, NoMoney PROVE AccountNext
  BY <1>2 DEF NoMoney, AccountNext, Account!accountVars, Held, OutcomeOf
<1>3. ASSUME NEW t \in Tenants, NEW a \in CreditAmounts \cup {-b : b \in CreditAmounts},
             NEW j \in CreditKeys, Posting(t, j, a)
      PROVE  AccountNext
  <2>1. a \in Int
    BY AmountsAssumption
  <2>2. Funds' = [Funds EXCEPT ![t] = @ + a]
    BY <1>1, <1>3, <2>1, PostingFunds
  <2>3. Outcome' = Outcome
    BY <1>3 DEF Posting, Outcome, OutcomeOf
  <2>4. Account!PostTo(t)
    BY <2>2, <2>3 DEF Account!PostTo, Funds, Outcome
  <2>5. QED
    BY <2>4 DEF AccountNext, Account!Next
<1>4. CASE AccountStep
  <2>1. ASSUME NEW t \in Tenants, NEW j \in CreditKeys, NEW a \in CreditAmounts,
               Credit(t, j, a) \/ Debit(t, j, a)
        PROVE  AccountNext
    <3>1. Posting(t, j, a) \/ Posting(t, j, -a)
      BY <2>1 DEF Credit, Debit, Post, Posting
    <3>2. QED
      BY <1>3, <3>1
  <2>2. ASSUME NEW k \in Tokens, DeactivateToken(k) \/ ReactivateToken(k) PROVE AccountNext
    BY <1>2, <2>2 DEF DeactivateToken, ReactivateToken, NoMoney, ledgerVars
  <2>3. QED
    BY <1>4, <2>1, <2>2, Zenon DEF AccountStep
<1>5. ASSUME NEW s \in Requests, Lapse(s) PROVE AccountNext
  BY <1>2, <1>5 DEF Lapse, NoMoney, ledgerVars
<1>6. CASE ReaperStep
  <2>1. ASSUME NEW s \in Requests, ReaperExpire(s) PROVE AccountNext
    BY <1>1, <2>1, ReleaseIsFree DEF ReaperExpire
  <2>2. ASSUME \/ \E ids \in SUBSET Requests : ReaperScan(ids)
               \/ \E s \in Requests : ReaperSkip(s)
               \/ ReaperAbort
        PROVE  AccountNext
    BY <1>2, <2>2 DEF ReaperScan, ReaperSkip, ReaperAbort, NoMoney, ledgerVars
  <2>3. QED
    BY <1>6, <2>1, <2>2, Zenon DEF ReaperStep
<1>7. CASE UNCHANGED vars
  BY <1>2, <1>7 DEF vars, NoMoney
<1>8. ASSUME NEW s \in Requests, PaidStep(s) \/ FreeStep(s) PROVE AccountNext
  BY <1>1, <1>8, MapsPaidStep, MapsFreeStep
<1>9. QED
  BY <1>1, <1>4, <1>5, <1>6, <1>7, <1>8, Zenon DEF Next

\* Every behaviour of the billing core is one of the customer's account.
THEOREM BillingImplementsAccount == Spec => ImplementsAccount
<1>1. RowInv /\ RowInv' /\ [Next]_vars => [Account!Next]_(Account!accountVars)
  BY MapsNext DEF AccountNext
<1>2. QED
  BY <1>1, MapsInit, RowsInvariant, PTL DEF Spec, ImplementsAccount, Account!Spec

-----------------------------------------------------------------------------
(* The row locks: which operation takes which lock at which place          *)

\* An UPDATE of many tokens locks all of them at the same place of its operation.
Place(op, i) == CASE op \in {"member", "project"} -> IF i = 1 THEN 1 ELSE 2
                  [] op = "revoke" -> 1
                  [] OTHER -> i

\* <<operation, place, mode>> of the locks on each row
TokenLocks == {<<"reserve", 1, "update">>, <<"startFree", 3, "share">>, <<"settle", 3, "update">>,
               <<"member", 2, "noKey">>, <<"project", 2, "noKey">>, <<"move", 1, "noKey">>,
               <<"revoke", 1, "noKey">>}
ProjectRowLocks == {<<"reserve", 4, "share">>, <<"startFree", 2, "share">>, <<"member", 1, "update">>,
                    <<"project", 1, "noKey">>, <<"issue", 1, "share">>, <<"move", 2, "share">>}
LedgerLocks == {<<"reserve", 2, "update">>, <<"settle", 4, "noKey">>, <<"rebind", 3, "noKey">>,
                <<"release", 2, "noKey">>, <<"credit", 1, "update">>}
ReservationLocks == {<<"settle", 1, "update">>, <<"pend", 1, "update">>, <<"rebind", 1, "update">>,
                     <<"release", 1, "update">>, <<"extend", 1, "noKey">>}
RequestLocks == {<<"reserve", 3, "insert">>, <<"startFree", 1, "insert">>, <<"settle", 2, "update">>,
                 <<"settle", 6, "noKey">>, <<"pend", 2, "noKey">>, <<"rebind", 2, "update">>,
                 <<"rebind", 4, "noKey">>, <<"release", 3, "noKey">>, <<"free", 1, "update">>,
                 <<"free", 2, "noKey">>}

\* How many locks an operation takes when it meets n tokens
Size(op, n) == CASE op \in {"extend", "issue"} -> 1
                 [] op \in {"pend", "free", "credit", "move"} -> 2
                 [] op \in {"startFree", "release"} -> 3
                 [] op \in {"reserve", "rebind"} -> 4
                 [] op = "settle" -> 6
                 [] op \in {"member", "project"} -> n + 1
                 [] op = "revoke" -> n

\* The operations on a bill find the token of their key.
OfKey == {"reserve", "startFree", "settle"}

\* Lock l is one that operation op on key k takes at place i.
Placed(l, op, i, k) ==
    \/ \E x : /\ l.row = Token(x) /\ <<op, i, l.mode>> \in TokenLocks
              /\ op \in OfKey => x = KeyToken[k]
    \/ (\E p : l.row = Project(p)) /\ <<op, i, l.mode>> \in ProjectRowLocks
    \/ (\E h : l.row = Ledger(h)) /\ <<op, i, l.mode>> \in LedgerLocks
    \/ l.row = Revenue /\ <<op, i, l.mode>> = <<"settle", 5, "noKey">>
    \/ l.row = Topup /\ <<op, i, l.mode>> = <<"credit", 2, "noKey">>
    \/ l.row = Reservation(k) /\ <<op, i, l.mode>> \in ReservationLocks
    \/ l.row = Request(k) /\ <<op, i, l.mode>> \in RequestLocks

\* The rows are different, and those of different requests too.
LEMMA RowsDiffer ==
    ASSUME NEW k, NEW m, NEW x, NEW p, NEW h
    PROVE  /\ Token(x) # Project(p) /\ Token(x) # Ledger(h) /\ Token(x) # Revenue /\ Token(x) # Topup
           /\ Token(x) # Reservation(k) /\ Token(x) # Request(k)
           /\ Project(p) # Ledger(h) /\ Project(p) # Revenue /\ Project(p) # Topup
           /\ Project(p) # Reservation(k) /\ Project(p) # Request(k)
           /\ Ledger(h) # Revenue /\ Ledger(h) # Topup
           /\ Ledger(h) # Reservation(k) /\ Ledger(h) # Request(k)
           /\ Revenue # Topup /\ Revenue # Reservation(k) /\ Revenue # Request(k)
           /\ Topup # Reservation(k) /\ Topup # Request(k)
           /\ Reservation(k) # Request(m)
           /\ Request(k) = Request(m) => k = m
           /\ Reservation(k) = Reservation(m) => k = m
BY DEF Token, Project, Ledger, Revenue, Topup, Reservation, Request

\* These are the locks of an operation that meets n tokens, at their places.
Ordered(locks, op, k, n) ==
    /\ DOMAIN locks = 1 .. Size(op, n)
    /\ \A i \in 1 .. Size(op, n) : Placed(locks[i], op, Place(op, i), k)

\* A list of tokens is a sequence.
LEMMA TokenListLength ==
    ASSUME NEW ts \in TokenLists
    PROVE  ts \in Seq(ApiTokens) /\ Len(ts) \in Nat
<1>1. Cardinality(ApiTokens) \in Nat
  BY LockOrderAssumption, FS_CardinalityType
<1>2. PICK n \in 0 .. Cardinality(ApiTokens) : ts \in [1 .. n -> ApiTokens]
  BY DEF TokenLists
<1>3. n \in Nat
  BY <1>1
<1>4. ts \in Seq(ApiTokens)
  BY <1>2, <1>3, SeqDef
<1>5. QED
  BY <1>4, LenProperties

\* The locks of every operation are in the tables above.
LEMMA LocksInOrder ==
    ASSUME NEW op \in Operations, NEW k, NEW p, NEW ts \in TokenLists, op = "move" => Len(ts) = 1
    PROVE  Size(op, Len(ts)) \in Nat /\ Ordered(Locks(op, k, p, ts), op, k, Len(ts))
<1> DEFINE n == Len(ts)
<1>0. ts \in Seq(ApiTokens) /\ n \in Nat
  BY TokenListLength
<1>1. Size(op, n) \in Nat
  BY <1>0 DEF Size, Operations
<1> HIDE DEF n
<1>2. CASE op = "reserve"
  <2>1. Locks("reserve", k, p, ts) = ReserveLocks(k, p) /\ Size("reserve", n) = 4
    BY DEF Locks, Size
  <2>2. DOMAIN ReserveLocks(k, p) = 1 .. 4 /\ \A i \in 1 .. 4 : Place("reserve", i) = i
    BY DEF ReserveLocks, Place
  <2>3. ASSUME NEW i \in 1 .. 4 PROVE Placed(ReserveLocks(k, p)[i], "reserve", i, k)
    BY DEF ReserveLocks, Lock, Placed, OfKey, TokenLocks, ProjectRowLocks, LedgerLocks, RequestLocks
  <2>4. Ordered(ReserveLocks(k, p), "reserve", k, n)
    BY <2>1, <2>2, <2>3 DEF Ordered
  <2>5. QED
    BY ONLY <1>1, <1>2, <2>1, <2>4 DEF n
<1>3. CASE op = "startFree"
  <2>1. Locks("startFree", k, p, ts) = StartFreeLocks(k, p) /\ Size("startFree", n) = 3
    BY DEF Locks, Size
  <2>2. DOMAIN StartFreeLocks(k, p) = 1 .. 3 /\ \A i \in 1 .. 3 : Place("startFree", i) = i
    BY DEF StartFreeLocks, Place
  <2>3. ASSUME NEW i \in 1 .. 3 PROVE Placed(StartFreeLocks(k, p)[i], "startFree", i, k)
    BY DEF StartFreeLocks, Lock, Placed, OfKey, TokenLocks, ProjectRowLocks, RequestLocks
  <2>4. Ordered(StartFreeLocks(k, p), "startFree", k, n)
    BY <2>1, <2>2, <2>3 DEF Ordered
  <2>5. QED
    BY ONLY <1>1, <1>3, <2>1, <2>4 DEF n
<1>4. CASE op = "settle"
  <2>1. Locks("settle", k, p, ts) = SettleLocks(k) /\ Size("settle", n) = 6
    BY DEF Locks, Size
  <2>2. DOMAIN SettleLocks(k) = 1 .. 6 /\ \A i \in 1 .. 6 : Place("settle", i) = i
    BY DEF SettleLocks, Place
  <2>3. ASSUME NEW i \in 1 .. 6 PROVE Placed(SettleLocks(k)[i], "settle", i, k)
    BY DEF SettleLocks, Lock, Placed, OfKey, TokenLocks, LedgerLocks, ReservationLocks, RequestLocks
  <2>4. Ordered(SettleLocks(k), "settle", k, n)
    BY <2>1, <2>2, <2>3 DEF Ordered
  <2>5. QED
    BY ONLY <1>1, <1>4, <2>1, <2>4 DEF n
<1>5. CASE op = "pend"
  <2>1. Locks("pend", k, p, ts) = PendLocks(k) /\ Size("pend", n) = 2
    BY DEF Locks, Size
  <2>2. DOMAIN PendLocks(k) = 1 .. 2 /\ \A i \in 1 .. 2 : Place("pend", i) = i
    BY DEF PendLocks, Place
  <2>3. ASSUME NEW i \in 1 .. 2 PROVE Placed(PendLocks(k)[i], "pend", i, k)
    BY DEF PendLocks, Lock, Placed, OfKey, ReservationLocks, RequestLocks
  <2>4. Ordered(PendLocks(k), "pend", k, n)
    BY <2>1, <2>2, <2>3 DEF Ordered
  <2>5. QED
    BY ONLY <1>1, <1>5, <2>1, <2>4 DEF n
<1>6. CASE op = "rebind"
  <2>1. Locks("rebind", k, p, ts) = RebindLocks(k) /\ Size("rebind", n) = 4
    BY DEF Locks, Size
  <2>2. DOMAIN RebindLocks(k) = 1 .. 4 /\ \A i \in 1 .. 4 : Place("rebind", i) = i
    BY DEF RebindLocks, Place
  <2>3. ASSUME NEW i \in 1 .. 4 PROVE Placed(RebindLocks(k)[i], "rebind", i, k)
    BY DEF RebindLocks, Lock, Placed, OfKey, ReservationLocks, RequestLocks, LedgerLocks
  <2>4. Ordered(RebindLocks(k), "rebind", k, n)
    BY <2>1, <2>2, <2>3 DEF Ordered
  <2>5. QED
    BY ONLY <1>1, <1>6, <2>1, <2>4 DEF n
<1>7. CASE op = "release"
  <2>1. Locks("release", k, p, ts) = ReleaseLocks(k) /\ Size("release", n) = 3
    BY DEF Locks, Size
  <2>2. DOMAIN ReleaseLocks(k) = 1 .. 3 /\ \A i \in 1 .. 3 : Place("release", i) = i
    BY DEF ReleaseLocks, Place
  <2>3. ASSUME NEW i \in 1 .. 3 PROVE Placed(ReleaseLocks(k)[i], "release", i, k)
    BY DEF ReleaseLocks, Lock, Placed, OfKey, ReservationLocks, RequestLocks, LedgerLocks
  <2>4. Ordered(ReleaseLocks(k), "release", k, n)
    BY <2>1, <2>2, <2>3 DEF Ordered
  <2>5. QED
    BY ONLY <1>1, <1>7, <2>1, <2>4 DEF n
<1>8. CASE op = "extend"
  <2>1. Locks("extend", k, p, ts) = ExtendLocks(k) /\ Size("extend", n) = 1
    BY DEF Locks, Size
  <2>2. DOMAIN ExtendLocks(k) = 1 .. 1 /\ \A i \in 1 .. 1 : Place("extend", i) = i
    BY DEF ExtendLocks, Place
  <2>3. ASSUME NEW i \in 1 .. 1 PROVE Placed(ExtendLocks(k)[i], "extend", i, k)
    BY DEF ExtendLocks, Lock, Placed, OfKey, ReservationLocks
  <2>4. Ordered(ExtendLocks(k), "extend", k, n)
    BY <2>1, <2>2, <2>3 DEF Ordered
  <2>5. QED
    BY ONLY <1>1, <1>8, <2>1, <2>4 DEF n
<1>9. CASE op = "free"
  <2>1. Locks("free", k, p, ts) = FreeLocks(k) /\ Size("free", n) = 2
    BY DEF Locks, Size
  <2>2. DOMAIN FreeLocks(k) = 1 .. 2 /\ \A i \in 1 .. 2 : Place("free", i) = i
    BY DEF FreeLocks, Place
  <2>3. ASSUME NEW i \in 1 .. 2 PROVE Placed(FreeLocks(k)[i], "free", i, k)
    BY DEF FreeLocks, Lock, Placed, OfKey, RequestLocks
  <2>4. Ordered(FreeLocks(k), "free", k, n)
    BY <2>1, <2>2, <2>3 DEF Ordered
  <2>5. QED
    BY ONLY <1>1, <1>9, <2>1, <2>4 DEF n
<1>10. CASE op = "credit"
  <2>1. Locks("credit", k, p, ts) = CreditLocks(k) /\ Size("credit", n) = 2
    BY DEF Locks, Size
  <2>2. DOMAIN CreditLocks(k) = 1 .. 2 /\ \A i \in 1 .. 2 : Place("credit", i) = i
    BY DEF CreditLocks, Place
  <2>3. ASSUME NEW i \in 1 .. 2 PROVE Placed(CreditLocks(k)[i], "credit", i, k)
    BY DEF CreditLocks, Lock, Placed, OfKey, LedgerLocks
  <2>4. Ordered(CreditLocks(k), "credit", k, n)
    BY <2>1, <2>2, <2>3 DEF Ordered
  <2>5. QED
    BY ONLY <1>1, <1>10, <2>1, <2>4 DEF n
<1>11. CASE op = "issue"
  <2>1. Locks("issue", k, p, ts) = IssueLocks(p) /\ Size("issue", n) = 1
    BY DEF Locks, Size
  <2>2. DOMAIN IssueLocks(p) = 1 .. 1 /\ \A i \in 1 .. 1 : Place("issue", i) = i
    BY DEF IssueLocks, Place
  <2>3. ASSUME NEW i \in 1 .. 1 PROVE Placed(IssueLocks(p)[i], "issue", i, k)
    BY DEF IssueLocks, Lock, Placed, OfKey, ProjectRowLocks
  <2>4. Ordered(IssueLocks(p), "issue", k, n)
    BY <2>1, <2>2, <2>3 DEF Ordered
  <2>5. QED
    BY ONLY <1>1, <1>11, <2>1, <2>4 DEF n
<1>12. CASE op = "member"
  <2>1. Locks("member", k, p, ts) = MemberLocks(p, ts) /\ Size("member", n) = n + 1
    BY DEF Locks, Size
  <2>2. /\ DOMAIN MemberLocks(p, ts) = 1 .. n + 1
        /\ \A i \in 1 .. n + 1 : MemberLocks(p, ts)[i] =
              IF i = 1 THEN Lock(Project(p), "update") ELSE Lock(Token(ts[i - 1]), "noKey")
    BY DEF MemberLocks, TokenRows, n
  <2>3. ASSUME NEW i \in 1 .. n + 1 PROVE Placed(MemberLocks(p, ts)[i], "member", Place("member", i), k)
    <3>1. CASE i = 1
      BY <2>2, <3>1 DEF Lock, Placed, Place, ProjectRowLocks
    <3>2. CASE i # 1
      BY <2>2, <3>2 DEF Lock, Placed, Place, OfKey, TokenLocks
    <3>3. QED
      BY <3>1, <3>2
  <2>4. Ordered(MemberLocks(p, ts), "member", k, n)
    BY <2>1, <2>2, <2>3 DEF Ordered
  <2>5. QED
    BY ONLY <1>1, <1>12, <2>1, <2>4 DEF n
<1>13. CASE op = "project"
  <2>1. Locks("project", k, p, ts) = ProjectLocks(p, ts) /\ Size("project", n) = n + 1
    BY DEF Locks, Size
  <2>2. /\ DOMAIN ProjectLocks(p, ts) = 1 .. n + 1
        /\ \A i \in 1 .. n + 1 : ProjectLocks(p, ts)[i] =
              IF i = 1 THEN Lock(Project(p), "noKey") ELSE Lock(Token(ts[i - 1]), "noKey")
    BY DEF ProjectLocks, TokenRows, n
  <2>3. ASSUME NEW i \in 1 .. n + 1 PROVE Placed(ProjectLocks(p, ts)[i], "project", Place("project", i), k)
    <3>1. CASE i = 1
      BY <2>2, <3>1 DEF Lock, Placed, Place, ProjectRowLocks
    <3>2. CASE i # 1
      BY <2>2, <3>2 DEF Lock, Placed, Place, OfKey, TokenLocks
    <3>3. QED
      BY <3>1, <3>2
  <2>4. Ordered(ProjectLocks(p, ts), "project", k, n)
    BY <2>1, <2>2, <2>3 DEF Ordered
  <2>5. QED
    BY ONLY <1>1, <1>13, <2>1, <2>4 DEF n
<1>14. CASE op = "revoke"
  <2>1. Locks("revoke", k, p, ts) = RevokeLocks(ts) /\ Size("revoke", n) = n
    BY DEF Locks, Size
  <2>2. DOMAIN RevokeLocks(ts) = 1 .. n /\ \A i \in 1 .. n : RevokeLocks(ts)[i] = Lock(Token(ts[i]), "noKey")
    BY DEF RevokeLocks, n
  <2>3. ASSUME NEW i \in 1 .. n PROVE Placed(RevokeLocks(ts)[i], "revoke", Place("revoke", i), k)
    BY <2>2 DEF Lock, Placed, Place, OfKey, TokenLocks
  <2>4. Ordered(RevokeLocks(ts), "revoke", k, n)
    BY <2>1, <2>2, <2>3 DEF Ordered
  <2>5. QED
    BY ONLY <1>1, <1>14, <2>1, <2>4 DEF n
<1>15. CASE op = "move"
  <2> DEFINE T == {Lock(Token(x), "noKey") : x \in ApiTokens} \cup {Lock(Project(p), "share")}
  <2>0. n = 1
    BY <1>15 DEF n
  <2>1. Locks("move", k, p, ts) = MoveLocks(p, ts) /\ Size("move", n) = 2
    BY DEF Locks, Size
  <2>2. RevokeLocks(ts) = [i \in 1 .. 1 |-> Lock(Token(ts[1]), "noKey")]
    BY <2>0 DEF RevokeLocks, n
  <2>3. RevokeLocks(ts) \in [1 .. 1 -> T]
    <3>1. ts[1] \in ApiTokens
      <4>1. 1 \in 1 .. Len(ts)
        BY <2>0 DEF n
      <4>2. QED
        BY ONLY <1>0, <4>1, ElementOfSeq
    <3>2. QED
      BY <2>2, <3>1
  <2>4. RevokeLocks(ts) \in Seq(T) /\ Len(RevokeLocks(ts)) = 1
    <3>1. RevokeLocks(ts) \in Seq(T)
      BY <2>3, SeqDef
    <3>2. QED
      BY <2>3, <3>1, LenProperties
  <2>5. /\ DOMAIN MoveLocks(p, ts) = 1 .. 2
        /\ MoveLocks(p, ts)[1] = Lock(Token(ts[1]), "noKey")
        /\ MoveLocks(p, ts)[2] = Lock(Project(p), "share")
    <3>1. Lock(Project(p), "share") \in T
      OBVIOUS
    <3>2. QED
      BY <2>2, <2>4, <3>1, AppendProperties, LenProperties DEF MoveLocks
  <2>6. Placed(MoveLocks(p, ts)[1], "move", 1, k) /\ Placed(MoveLocks(p, ts)[2], "move", 2, k)
    BY <2>5 DEF Lock, Placed, OfKey, TokenLocks, ProjectRowLocks
  <2>7. \A i \in 1 .. 2 : Placed(MoveLocks(p, ts)[i], "move", Place("move", i), k)
    BY <2>6 DEF Place
  <2>8. Ordered(MoveLocks(p, ts), "move", k, n)
    BY <2>1, <2>5, <2>7 DEF Ordered
  <2>9. QED
    BY ONLY <1>1, <1>15, <2>1, <2>8 DEF n
<1>16. QED
  BY <1>2, <1>3, <1>4, <1>5, <1>6, <1>7, <1>8, <1>9, <1>10, <1>11, <1>12, <1>13, <1>14, <1>15 DEF Operations

-----------------------------------------------------------------------------
(* The invariant of the locks                                              *)

Working(t) == work[t].op # "none"
Op(t)      == work[t].op
Key(t)     == work[t].key
Count(t)   == Size(Op(t), Len(work[t].tokens))
Nth(t, i)  == LocksOf(t)[i]
Holds(t, i) == Working(t) /\ i \in 1 .. work[t].taken

Works == [op : Operations, key : Keys, project : ApiProjects, tokens : TokenLists, taken : Nat]
            \cup {NoWork}

\* An operation finds its request as it needs it, until it ends: only the
\* insert of a request can change what is known of its key.
KeyOK(t) ==
    /\ work[t].taken <= Count(t)
    /\ Op(t) = "move" => Len(work[t].tokens) = 1
    /\ Op(t) \in Paid => known[Key(t)] = "paid"
    /\ Op(t) \in Free => known[Key(t)] = "free"
    /\ Op(t) = "reserve" /\ work[t].taken >= 3 => known[Key(t)] = "none"
    /\ Op(t) = "startFree" /\ work[t].taken >= 1 => known[Key(t)] = "none"

\* No two transactions have locks that conflict.
Exclusive ==
    \A t, u \in Transactions : t # u =>
       \A i, j \in Nat : Holds(t, i) /\ Holds(u, j) /\ Nth(t, i).row = Nth(u, j).row =>
          ~ Conflict(Nth(t, i).mode, Nth(u, j).mode)

LockInv ==
    /\ known \in [Keys -> {"none", "paid", "free"}]
    /\ work \in [Transactions -> Works]
    /\ \A t \in Transactions : Working(t) => KeyOK(t)
    /\ Exclusive

WorkOK == work \in [Transactions -> Works] /\ \A t \in Transactions : Working(t) => KeyOK(t)

\* The locks of a transaction in the terms of their places.
LEMMA LocksAtWork ==
    ASSUME WorkOK, NEW t \in Transactions, Working(t)
    PROVE  /\ Op(t) \in Operations /\ Key(t) \in Keys
           /\ Count(t) \in Nat /\ work[t].taken \in 0 .. Count(t)
           /\ More(t) <=> work[t].taken < Count(t)
           /\ Wanted(t) = Nth(t, work[t].taken + 1)
           /\ \A i \in 1 .. Count(t) : Placed(Nth(t, i), Op(t), Place(Op(t), i), Key(t))
<1>1. work[t] \in [op : Operations, key : Keys, project : ApiProjects, tokens : TokenLists, taken : Nat]
  BY DEF WorkOK, Works, Working, NoWork
<1>2. Op(t) \in Operations /\ Key(t) \in Keys /\ work[t].tokens \in TokenLists /\ work[t].taken \in Nat
  BY <1>1 DEF Op, Key
<1>3. work[t].taken <= Count(t) /\ (Op(t) = "move" => Len(work[t].tokens) = 1)
  BY DEF WorkOK, KeyOK
<1>4. Count(t) \in Nat /\ Ordered(LocksOf(t), Op(t), Key(t), Len(work[t].tokens))
  BY <1>2, <1>3, LocksInOrder DEF Count, LocksOf, Op, Key
<1>5. /\ DOMAIN LocksOf(t) = 1 .. Count(t)
      /\ \A i \in 1 .. Count(t) : Placed(LocksOf(t)[i], Op(t), Place(Op(t), i), Key(t))
  BY <1>4 DEF Ordered, Count
<1>6. More(t) <=> work[t].taken < Count(t)
  BY <1>2, <1>4, <1>5 DEF More
<1>7. QED
  BY <1>2, <1>3, <1>4, <1>5, <1>6 DEF Wanted, Nth

\* Nobody who does not work has or wants a lock.
LEMMA IdleHasNoLocks ==
    ASSUME WorkOK, NEW t \in Transactions, ~Working(t)
    PROVE  work[t] = NoWork /\ ~More(t) /\ \A i : i \notin 1 .. work[t].taken
<1>1. work[t] = NoWork
  BY DEF WorkOK, Works, Working, Operations
<1>2. LocksOf(t) = <<>>
  BY <1>1 DEF LocksOf, Locks, NoWork
<1>3. QED
  BY <1>1, <1>2 DEF More, NoWork

\* Who waits, works; and so does the one it waits for, which has the lock.
LEMMA WaitsAtPlaces ==
    ASSUME WorkOK, NEW t \in Transactions, NEW u \in Transactions
    PROVE  WaitsFor(t, u) <=>
             /\ t # u /\ Working(t) /\ work[t].taken < Count(t)
             /\ \E i \in Nat : /\ Holds(u, i)
                               /\ Nth(u, i).row = Nth(t, work[t].taken + 1).row
                               /\ Conflict(Nth(u, i).mode, Nth(t, work[t].taken + 1).mode)
<1>1. CASE ~Working(t)
  BY <1>1, IdleHasNoLocks DEF WaitsFor
<1>2. CASE ~Working(u)
  BY <1>2, IdleHasNoLocks DEF WaitsFor, Holds
<1>3. CASE Working(t) /\ Working(u)
  <2>1. (More(t) <=> work[t].taken < Count(t)) /\ Wanted(t) = Nth(t, work[t].taken + 1)
    BY <1>3, LocksAtWork
  <2>2. \A i : i \in 1 .. work[u].taken => i \in Nat
    OBVIOUS
  <2>3. QED
    BY <1>3, <2>1, <2>2 DEF WaitsFor, Holds, Nth
<1>4. QED
  BY <1>1, <1>2, <1>3

\* Each operation that opens a request inserts its row, and no other does.
LEMMA PlaceOfInsert ==
    ASSUME NEW l, NEW op, NEW i, NEW k, Placed(l, op, Place(op, i), k)
    PROVE  /\ (op = "reserve" /\ i = 3) => (l.mode = "insert" /\ l.row = Request(k))
           /\ (op = "startFree" /\ i = 1) => (l.mode = "insert" /\ l.row = Request(k))
BY DEF Placed, TokenLocks, ProjectRowLocks, LedgerLocks, ReservationLocks, RequestLocks, Place

\* Conflicts are mutual.
LEMMA ConflictBothWays ==
    ASSUME NEW m, NEW n
    PROVE  Conflict(m, n) <=> Conflict(n, m)
BY DEF Conflict

\* A transaction that begins or ends has no locks.
LEMMA NothingHeld ==
    ASSUME LockInv, NEW t \in Transactions, work' \in [Transactions -> Works],
           \A u \in Transactions \ {t} : work'[u] = work[u],
           \A i \in Nat : ~Holds(t, i)'
    PROVE  Exclusive'
<1>1. SUFFICES ASSUME NEW x \in Transactions, NEW y \in Transactions, x # y,
                      NEW i \in Nat, NEW j \in Nat, Holds(x, i)', Holds(y, j)',
                      (Nth(x, i).row = Nth(y, j).row)'
               PROVE  ~Conflict(Nth(x, i).mode, Nth(y, j).mode)'
  BY DEF Exclusive
<1>2. x # t /\ y # t
  BY <1>1
<1>3. work'[x] = work[x] /\ work'[y] = work[y]
  BY <1>2
<1>4. Holds(x, i) /\ Holds(y, j) /\ Nth(x, i).row = Nth(y, j).row
  BY <1>1, <1>3 DEF Holds, Working, Nth, LocksOf
<1>5. ~Conflict(Nth(x, i).mode, Nth(y, j).mode)
  BY <1>1, <1>4 DEF LockInv, Exclusive
<1>6. QED
  BY <1>3, <1>5 DEF Nth, LocksOf

\* Nobody has a lock.
LEMMA LocksInitially == LockInit => LockInv
BY DEF LockInit, LockInv, NoWork, Works, Working, Exclusive, Holds

\* A transaction begins without a lock, when its request is as it needs it.
LEMMA BeginWorkKeeps ==
    ASSUME LockInv, NEW t \in Transactions, NEW k \in Keys, NEW p \in ApiProjects, NEW ts \in TokenLists,
           NEW op \in Operations, BeginWork(t, op, k, p, ts)
    PROVE  LockInv'
<1>2. /\ work'[t] = [op |-> op, key |-> k, project |-> p, tokens |-> ts, taken |-> 0]
      /\ \A u \in Transactions \ {t} : work'[u] = work[u]
      /\ known' = known
  BY DEF BeginWork, LockInv
<1>3. work' \in [Transactions -> Works]
  BY DEF BeginWork, LockInv, Works
<1>4. Exclusive'
  BY <1>2, <1>3, NothingHeld DEF Holds
<1>5. Size(op, Len(ts)) \in Nat
  BY LocksInOrder DEF BeginWork
<1>6. KeyOK(t)'
  BY <1>2, <1>5 DEF KeyOK, Op, Key, Count, BeginWork, Begins
<1>7. ASSUME NEW u \in Transactions \ {t}, Working(u)' PROVE KeyOK(u)'
  BY <1>2, <1>7 DEF LockInv, KeyOK, Op, Key, Count, Working
<1>8. QED
  BY <1>2, <1>3, <1>4, <1>6, <1>7 DEF LockInv

\* A transaction that rolls back changes no request.
LEMMA RollbackWorkKeeps ==
    ASSUME LockInv, NEW t \in Transactions, RollbackWork(t)
    PROVE  LockInv'
<1>1. work'[t] = NoWork /\ (\A u \in Transactions \ {t} : work'[u] = work[u]) /\ known' = known
  BY DEF RollbackWork, LockInv
<1>2. work' \in [Transactions -> Works]
  BY DEF RollbackWork, LockInv, Works
<1>3. Exclusive'
  BY <1>1, <1>2, NothingHeld DEF Holds, Working, NoWork
<1>4. ASSUME NEW u \in Transactions, Working(u)' PROVE KeyOK(u)'
  BY <1>1, <1>4 DEF LockInv, KeyOK, Op, Key, Count, Working, NoWork
<1>5. QED
  BY <1>1, <1>2, <1>3, <1>4 DEF LockInv

\* The commit of an insert changes what is known of its key: no other transaction on
\* this key has found it, and none has inserted it.
LEMMA CommitWorkKeeps ==
    ASSUME LockInv, NEW t \in Transactions, CommitWork(t)
    PROVE  LockInv'
<1>1. work'[t] = NoWork /\ (\A u \in Transactions \ {t} : work'[u] = work[u])
  BY DEF CommitWork, LockInv
<1>2. work' \in [Transactions -> Works]
  BY DEF CommitWork, LockInv, Works
<1>3. Exclusive'
  BY <1>1, <1>2, NothingHeld DEF Holds, Working, NoWork
<1>4. Working(t) /\ WorkOK
  BY DEF CommitWork, LockInv, Works, Working, WorkOK, Operations, NoWork
<1>5. /\ Op(t) \in Operations /\ Key(t) \in Keys /\ work[t].taken = Count(t)
      /\ \A i \in 1 .. Count(t) : Placed(Nth(t, i), Op(t), Place(Op(t), i), Key(t))
  BY <1>4, LocksAtWork DEF CommitWork
<1>6. \/ Op(t) \notin Opening /\ known' = known
      \/ /\ Op(t) \in Opening /\ known' \in [Keys -> {"none", "paid", "free"}]
         /\ \A k \in Keys \ {Key(t)} : known'[k] = known[k]
  <2>1. CASE Op(t) = "reserve"
    BY <1>5, <2>1 DEF CommitWork, LockInv, Op, Key, Opening
  <2>2. CASE Op(t) = "startFree"
    BY <1>5, <2>2 DEF CommitWork, LockInv, Op, Key, Opening
  <2>3. CASE Op(t) \notin Opening
    BY <1>5, <2>3 DEF CommitWork, LockInv, Op, Key, Opening
  <2>4. QED
    BY <2>1, <2>2, <2>3 DEF Opening
<1>7. ASSUME Op(t) \in Opening
      PROVE  known[Key(t)] = "none" /\ \E i \in Nat : /\ Holds(t, i) /\ Nth(t, i).mode = "insert"
                                                         /\ Nth(t, i).row = Request(Key(t))
  <2>1. CASE Op(t) = "reserve"
    <3>1. Count(t) = 4
      BY <2>1 DEF Count, Size
    <3>2. Placed(Nth(t, 3), "reserve", Place("reserve", 3), Key(t))
      BY <1>5, <2>1, <3>1
    <3>3. Nth(t, 3).mode = "insert" /\ Nth(t, 3).row = Request(Key(t))
      BY <3>2, PlaceOfInsert
    <3>4. QED
      BY <1>4, <1>5, <2>1, <3>1, <3>3 DEF Holds, LockInv, KeyOK
  <2>2. CASE Op(t) = "startFree"
    <3>1. Count(t) = 3
      BY <2>2 DEF Count, Size
    <3>2. Nth(t, 1).mode = "insert" /\ Nth(t, 1).row = Request(Key(t))
      BY <1>5, <2>2, <3>1, PlaceOfInsert
    <3>3. QED
      BY <1>4, <1>5, <2>2, <3>1, <3>2 DEF Holds, LockInv, KeyOK
  <2>3. QED
    BY <1>7, <2>1, <2>2 DEF Opening
<1>8. ASSUME NEW u \in Transactions, Working(u)' PROVE KeyOK(u)'
  <2>1. u # t /\ work'[u] = work[u] /\ Working(u) /\ KeyOK(u)
    BY <1>1, <1>8 DEF Working, NoWork, LockInv
  <2>2. CASE Op(t) \notin Opening \/ Key(u) # Key(t)
    <3>1. known'[Key(u)] = known[Key(u)]
      BY <1>6, <2>2, <2>1, <1>4, LocksAtWork
    <3>2. QED
      BY <2>1, <3>1 DEF KeyOK, Op, Key, Count
  <2>3. CASE Op(t) \in Opening /\ Key(u) = Key(t)
    <3>1. PICK i \in Nat : /\ Holds(t, i) /\ Nth(t, i).mode = "insert"
                              /\ Nth(t, i).row = Request(Key(t))
      BY <1>7, <2>3
    <3>2. ASSUME NEW j \in Nat, Holds(u, j), Nth(u, j).row = Request(Key(t)) PROVE Nth(u, j).mode # "insert"
      BY <2>1, <3>1, <3>2 DEF LockInv, Exclusive, Conflict
    <3>3. \A j \in 1 .. Count(u) : Placed(Nth(u, j), Op(u), Place(Op(u), j), Key(u))
      BY <2>1, <1>4, LocksAtWork
    <3>4. work[u].taken \in 0 .. Count(u) /\ Count(u) \in Nat
      BY <2>1, <1>4, LocksAtWork
    <3>5. ~(Op(u) = "reserve" /\ work[u].taken >= 3)
      <4>1. SUFFICES ASSUME Op(u) = "reserve", work[u].taken >= 3 PROVE FALSE
        OBVIOUS
      <4>2. Holds(u, 3) /\ 3 \in 1 .. Count(u)
        BY <2>1, <3>4, <4>1 DEF Holds
      <4>3. Placed(Nth(u, 3), "reserve", Place("reserve", 3), Key(u))
        BY <3>3, <4>1, <4>2
      <4>4. Nth(u, 3).mode = "insert" /\ Nth(u, 3).row = Request(Key(u))
        BY <4>3, PlaceOfInsert
      <4>5. QED
        BY <2>3, <3>2, <4>2, <4>4
    <3>6. ~(Op(u) = "startFree" /\ work[u].taken >= 1)
      <4>1. SUFFICES ASSUME Op(u) = "startFree", work[u].taken >= 1 PROVE FALSE
        OBVIOUS
      <4>2. Holds(u, 1) /\ 1 \in 1 .. Count(u)
        BY <2>1, <3>4, <4>1 DEF Holds
      <4>3. Nth(u, 1).mode = "insert" /\ Nth(u, 1).row = Request(Key(u))
        BY <3>3, <4>1, <4>2, PlaceOfInsert
      <4>4. QED
        BY <2>3, <3>2, <4>2, <4>3
    <3>7. Op(u) \notin Paid /\ Op(u) \notin Free
      BY <1>7, <2>1, <2>3 DEF KeyOK
    <3>8. QED
      BY <2>1, <3>5, <3>6, <3>7 DEF KeyOK, Op, Key, Count
  <2>4. QED
    BY <2>2, <2>3
<1>9. QED
  BY <1>2, <1>3, <1>6, <1>8 DEF LockInv

\* A lock is taken when no other transaction has one in conflict.
LEMMA TakeLockKeeps ==
    ASSUME LockInv, NEW t \in Transactions, TakeLock(t)
    PROVE  LockInv'
<1>1. WorkOK
  BY DEF LockInv, WorkOK
<1>2. Working(t)
  BY <1>1, IdleHasNoLocks DEF TakeLock
<1>3. /\ Op(t) \in Operations /\ Key(t) \in Keys /\ work[t].taken \in 0 .. Count(t) - 1
      /\ Count(t) \in Nat
      /\ Wanted(t) = Nth(t, work[t].taken + 1)
      /\ Placed(Nth(t, work[t].taken + 1), Op(t), Place(Op(t), work[t].taken + 1), Key(t))
  BY <1>1, <1>2, LocksAtWork DEF TakeLock
<1>4. work[t] \in [op : Operations, key : Keys, project : ApiProjects, tokens : TokenLists, taken : Nat]
  BY <1>2 DEF LockInv, Works, Working, NoWork
<1>5. /\ work'[t] = [work[t] EXCEPT !.taken = @ + 1]
      /\ \A u \in Transactions \ {t} : work'[u] = work[u]
      /\ known' = known
  BY DEF TakeLock, LockInv
<1>6. work'[t] \in Works
  BY <1>3, <1>4, <1>5 DEF Works
<1>7. work' \in [Transactions -> Works]
  BY <1>5, <1>6 DEF TakeLock, LockInv
<1>8. /\ Op(t)' = Op(t) /\ Key(t)' = Key(t) /\ work'[t].taken = work[t].taken + 1 /\ Working(t)'
      /\ work'[t].tokens = work[t].tokens /\ work'[t].project = work[t].project /\ Count(t)' = Count(t)
  BY <1>2, <1>4, <1>5 DEF Op, Key, Working, Count
<1>9. KeyOK(t)'
  <2>1. KeyOK(t)
    BY <1>2 DEF LockInv
  <2>2. (Wanted(t).mode = "insert") => known[Key(t)] = "none"
    BY DEF TakeLock, Key
  <2>3. (Op(t) = "reserve" /\ work[t].taken = 2) => known[Key(t)] = "none"
    <3>1. SUFFICES ASSUME Op(t) = "reserve", work[t].taken + 1 = 3 PROVE Wanted(t).mode = "insert"
      BY <1>3, <2>2
    <3>2. Placed(Wanted(t), "reserve", Place("reserve", 3), Key(t))
      BY <1>3, <3>1
    <3>3. QED
      BY <3>2, PlaceOfInsert
  <2>4. (Op(t) = "startFree" /\ work[t].taken = 0) => known[Key(t)] = "none"
    <3>1. SUFFICES ASSUME Op(t) = "startFree", work[t].taken + 1 = 1 PROVE Wanted(t).mode = "insert"
      BY <1>3, <2>2
    <3>2. Placed(Wanted(t), "startFree", Place("startFree", 1), Key(t))
      BY <1>3, <3>1
    <3>3. QED
      BY <3>2, PlaceOfInsert
  <2>5. /\ Op(t)' \in Paid => known'[Key(t)'] = "paid"
        /\ Op(t)' \in Free => known'[Key(t)'] = "free"
    BY <1>5, <1>8, <2>1 DEF KeyOK
  <2>6. Op(t)' = "reserve" /\ work'[t].taken >= 3 => known'[Key(t)'] = "none"
    BY <1>3, <1>5, <1>8, <2>1, <2>3 DEF KeyOK
  <2>7. Op(t)' = "startFree" /\ work'[t].taken >= 1 => known'[Key(t)'] = "none"
    BY <1>3, <1>5, <1>8, <2>1, <2>4 DEF KeyOK
  <2>8. work'[t].taken <= Count(t)'
    BY <1>3, <1>8
  <2>9. Op(t)' = "move" => Len(work'[t].tokens) = 1
    BY <1>8, <2>1 DEF KeyOK
  <2>10. QED
    BY <2>5, <2>6, <2>7, <2>8, <2>9 DEF KeyOK
<1>10. ASSUME NEW u \in Transactions \ {t}, Working(u)' PROVE KeyOK(u)'
  BY <1>5, <1>10 DEF LockInv, KeyOK, Op, Key, Count, Working
<1>11. ASSUME NEW u \in Transactions \ {t}, NEW i \in Nat, NEW j \in Nat, Holds(t, i)', Holds(u, j)',
              Nth(t, i).row = Nth(u, j).row
       PROVE  ~Conflict(Nth(t, i).mode, Nth(u, j).mode)
  <2>1. Holds(u, j)
    BY <1>5, <1>11 DEF Holds, Working
  <2>2. CASE i = work[t].taken + 1
    <3>1. ~WaitsFor(t, u)
      BY DEF TakeLock
    <3>2. ~Conflict(Nth(u, j).mode, Nth(t, i).mode)
      BY <1>1, <1>2, <1>3, <1>11, <2>1, <2>2, <3>1, WaitsAtPlaces
    <3>3. QED
      BY <3>2, ConflictBothWays
  <2>3. CASE i # work[t].taken + 1
    <3>1. Holds(t, i)
      BY <1>2, <1>3, <1>8, <1>11, <2>3 DEF Holds
    <3>2. QED
      BY <1>11, <2>1, <3>1 DEF LockInv, Exclusive
  <2>4. QED
    BY <2>2, <2>3
<1>12. \A x \in Transactions, i \in Nat : Nth(x, i)' = Nth(x, i)
  <2>1. ASSUME NEW x \in Transactions PROVE LocksOf(x)' = LocksOf(x)
    <3>1. CASE x = t
      BY <1>8, <3>1 DEF LocksOf, Op, Key
    <3>2. CASE x # t
      BY <1>5, <3>2 DEF LocksOf
    <3>3. QED
      BY <3>1, <3>2
  <2>2. QED
    BY <2>1 DEF Nth
<1>13. Exclusive'
  <2>1. SUFFICES ASSUME NEW x \in Transactions, NEW y \in Transactions, x # y,
                        NEW i \in Nat, NEW j \in Nat, Holds(x, i)', Holds(y, j)',
                        Nth(x, i).row = Nth(y, j).row
                 PROVE  ~Conflict(Nth(x, i).mode, Nth(y, j).mode)
    BY <1>12 DEF Exclusive
  <2>2. CASE x = t
    BY <1>11, <2>1, <2>2
  <2>3. CASE y = t
    <3>1. ~Conflict(Nth(y, j).mode, Nth(x, i).mode)
      BY <1>11, <2>1, <2>3
    <3>2. QED
      BY <3>1, ConflictBothWays
  <2>4. CASE x # t /\ y # t
    <3>1. Holds(x, i) /\ Holds(y, j)
      BY <1>5, <2>1, <2>4 DEF Holds, Working
    <3>2. QED
      BY <2>1, <3>1 DEF LockInv, Exclusive
  <2>5. QED
    BY <2>2, <2>3, <2>4
<1>14. QED
  BY <1>5, <1>7, <1>9, <1>10, <1>13 DEF LockInv

\* Transactions never have locks that conflict.
THEOREM LocksAreExclusive == LockSpec => []LockInv
<1>1. LockInit => LockInv
  BY LocksInitially
<1>2. LockInv /\ [LockNext]_lockVars => LockInv'
  <2>1. SUFFICES ASSUME LockInv, [LockNext]_lockVars PROVE LockInv'
    OBVIOUS
  <2>2. CASE UNCHANGED lockVars
    BY <2>1, <2>2 DEF lockVars, LockInv, Exclusive, KeyOK, Holds, Nth, LocksOf, Working, Op, Key, Count
  <2>3. CASE LockNext
    BY <2>1, <2>3, BeginWorkKeeps, TakeLockKeeps, CommitWorkKeeps, RollbackWorkKeeps DEF LockNext
  <2>4. QED
    BY <2>1, <2>2, <2>3
<1>3. QED
  BY <1>1, <1>2, PTL DEF LockSpec

-----------------------------------------------------------------------------
(* Who can wait for whom in a circle                                       *)

\* In a circle everyone has a lock and wants another one.
Between(t) == Working(t) /\ work[t].taken \in 1 .. Count(t) - 1

\* The n-th lock of operation o, not its first, can be one that operation p has
\* when it has taken m of its locks and wants more.
MayWait(o, n, p, m) ==
    \/ /\ o \in {"member", "project", "revoke"} \/ <<o, n>> = <<"settle", 3>>
       /\ p \in {"reserve", "move", "member", "project", "revoke"} \/ (p = "settle" /\ m >= 3)
    \/ <<o, n>> = <<"startFree", 3>> /\ (p = "reserve" \/ (p = "settle" /\ m >= 3))
    \/ <<o, n>> \in {<<"reserve", 4>>, <<"startFree", 2>>, <<"move", 2>>} /\ p = "member"
    \/ /\ <<o, n>> \in {<<"reserve", 2>>, <<"settle", 4>>, <<"rebind", 3>>, <<"release", 2>>}
       /\ \/ p = "reserve" /\ m >= 2
          \/ p = "settle" /\ m >= 4
          \/ p = "rebind" /\ m >= 3
          \/ p = "release" /\ m >= 2
          \/ p = "credit"
    \/ <<o, n>> = <<"settle", 5>> /\ p = "settle" /\ m >= 5
    \/ <<o, n>> = <<"reserve", 3>> /\ ((p = "reserve" /\ m >= 3) \/ (p = "startFree" /\ m >= 1))

\* Two locks on one row are places in the same table.
LEMMA SameRow ==
    ASSUME NEW l, NEW o, NEW i, NEW k, NEW m, NEW p, NEW j, NEW h,
           Placed(l, o, i, k), Placed(m, p, j, h), l.row = m.row
    PROVE  \/ <<o, i, l.mode>> \in TokenLocks /\ <<p, j, m.mode>> \in TokenLocks
           \/ <<o, i, l.mode>> \in ProjectRowLocks /\ <<p, j, m.mode>> \in ProjectRowLocks
           \/ <<o, i, l.mode>> \in LedgerLocks /\ <<p, j, m.mode>> \in LedgerLocks
           \/ <<o, i>> = <<"settle", 5>> /\ <<p, j>> = <<"settle", 5>>
           \/ <<o, i>> = <<"credit", 2>> /\ <<p, j>> = <<"credit", 2>>
           \/ h = k /\ <<o, i, l.mode>> \in ReservationLocks /\ <<p, j, m.mode>> \in ReservationLocks
           \/ h = k /\ <<o, i, l.mode>> \in RequestLocks /\ <<p, j, m.mode>> \in RequestLocks
<1>1. ASSUME NEW x, l.row = Token(x), <<o, i, l.mode>> \in TokenLocks
      PROVE  <<p, j, m.mode>> \in TokenLocks
  BY <1>1, RowsDiffer DEF Placed
<1>2. ASSUME NEW x, l.row = Project(x), <<o, i, l.mode>> \in ProjectRowLocks
      PROVE  <<p, j, m.mode>> \in ProjectRowLocks
  BY <1>2, RowsDiffer DEF Placed
<1>3. ASSUME NEW x, l.row = Ledger(x), <<o, i, l.mode>> \in LedgerLocks
      PROVE  <<p, j, m.mode>> \in LedgerLocks
  BY <1>3, RowsDiffer DEF Placed
<1>4. CASE l.row = Revenue /\ <<o, i, l.mode>> = <<"settle", 5, "noKey">>
  BY <1>4, RowsDiffer DEF Placed
<1>5. CASE l.row = Topup /\ <<o, i, l.mode>> = <<"credit", 2, "noKey">>
  BY <1>5, RowsDiffer DEF Placed
<1>6. CASE l.row = Reservation(k) /\ <<o, i, l.mode>> \in ReservationLocks
  BY <1>6, RowsDiffer DEF Placed
<1>7. CASE l.row = Request(k) /\ <<o, i, l.mode>> \in RequestLocks
  BY <1>7, RowsDiffer DEF Placed
<1>8. QED
  BY <1>1, <1>2, <1>3, <1>4, <1>5, <1>6, <1>7 DEF Placed

\* The tables of the token, the project and the account allow the waits of MayWait.
LEMMA WaitsInTables ==
    ASSUME NEW o, NEW n \in Nat, n >= 2, NEW p \in Operations, NEW j \in Nat, NEW m \in Nat, NEW c,
           j <= m, m < Size(p, c), NEW l, NEW h, Conflict(h, l),
           \/ <<o, Place(o, n), l>> \in TokenLocks /\ <<p, Place(p, j), h>> \in TokenLocks
           \/ <<o, Place(o, n), l>> \in ProjectRowLocks /\ <<p, Place(p, j), h>> \in ProjectRowLocks
           \/ <<o, Place(o, n), l>> \in LedgerLocks /\ <<p, Place(p, j), h>> \in LedgerLocks
    PROVE  MayWait(o, n, p, m)
<1>0. Size("startFree", c) = 3 /\ Size("reserve", c) = 4 /\ Size("issue", c) = 1 /\ Size("move", c) = 2
  BY DEF Size
<1>1. o \notin {"member", "project", "revoke"} => Place(o, n) = n
  BY DEF Place
<1>2. p \notin {"member", "project", "revoke"} => Place(p, j) = j
  BY DEF Place
<1>3. CASE <<o, Place(o, n), l>> \in TokenLocks /\ <<p, Place(p, j), h>> \in TokenLocks
  <2>1. \/ o \in {"member", "project", "revoke"} \/ <<o, n>> = <<"settle", 3>>
        \/ <<o, n>> = <<"startFree", 3>> /\ l = "share"
    BY <1>1, <1>3 DEF TokenLocks
  <2>2. \/ p \in {"move", "member", "project", "revoke"} /\ h = "noKey"
        \/ p = "reserve" \/ (p = "settle" /\ m >= 3)
    BY <1>0, <1>2, <1>3 DEF TokenLocks
  <2>3. QED
    BY <2>1, <2>2 DEF MayWait, Conflict
<1>4. CASE <<o, Place(o, n), l>> \in ProjectRowLocks /\ <<p, Place(p, j), h>> \in ProjectRowLocks
  <2>1. <<o, n>> \in {<<"reserve", 4>>, <<"startFree", 2>>, <<"move", 2>>} /\ l = "share"
    BY <1>1, <1>4 DEF ProjectRowLocks, Place
  <2>2. h = "update"
    BY <1>4, <2>1 DEF ProjectRowLocks, Conflict
  <2>3. p = "member"
    BY <1>4, <2>2 DEF ProjectRowLocks
  <2>4. QED
    BY <2>1, <2>3 DEF MayWait
<1>5. CASE <<o, Place(o, n), l>> \in LedgerLocks /\ <<p, Place(p, j), h>> \in LedgerLocks
  <2>1. <<o, n>> \in {<<"reserve", 2>>, <<"settle", 4>>, <<"rebind", 3>>, <<"release", 2>>}
    BY <1>1, <1>5 DEF LedgerLocks
  <2>2. \/ p = "reserve" /\ m >= 2
        \/ p = "settle" /\ m >= 4
        \/ p = "rebind" /\ m >= 3
        \/ p = "release" /\ m >= 2
        \/ p = "credit"
    BY <1>2, <1>5 DEF LedgerLocks
  <2>3. QED
    BY <2>1, <2>2 DEF MayWait
<1>6. QED
  BY <1>3, <1>4, <1>5

\* A second lock on a request: the first insert, or an operation on a request
\* that its other operations exclude.
LEMMA WaitsOnRequest ==
    ASSUME NEW o, NEW n \in Nat, n >= 2, NEW p \in Operations, NEW j \in Nat, NEW m \in Nat, NEW c,
           j <= m, m < Size(p, c), NEW l, NEW h, Conflict(h, l),
           <<o, Place(o, n), l>> \in RequestLocks, <<p, Place(p, j), h>> \in RequestLocks
    PROVE  /\ (p = "reserve" /\ m >= 3) \/ (p = "startFree" /\ m >= 1) \/ p \in Paid \cup Free
           /\ \/ <<o, n>> = <<"reserve", 3>> /\ p \in Opening
              \/ o \in Paid \cup Free
<1>0. Place(o, n) = n /\ Place(p, j) = j
  BY DEF Place, RequestLocks
<1>1. (<<o, n>> = <<"reserve", 3>> /\ l = "insert") \/ (o \in Paid \cup Free /\ l # "insert")
  BY <1>0 DEF RequestLocks, Paid, Free
<1>2. /\ Size("settle", c) = 6 /\ Size("pend", c) = 2 /\ Size("rebind", c) = 4
      /\ Size("release", c) = 3 /\ Size("free", c) = 2
  BY DEF Size
<1>3. \/ p = "reserve" /\ m >= 3 /\ h = "insert"
      \/ p = "startFree" /\ m >= 1 /\ h = "insert"
      \/ p \in Paid \cup Free /\ h = "update"
  BY <1>0, <1>2 DEF RequestLocks, Paid, Free
<1>4. l = "insert" => h = "insert"
  BY <1>3 DEF Conflict
<1>5. QED
  BY <1>1, <1>3, <1>4 DEF Opening

\* The first lock of an operation on a request, which no two of them share.
LEMMA FirstLocks ==
    ASSUME NEW l, NEW o, NEW k, Placed(l, o, Place(o, 1), k)
    PROVE  /\ o \in Paid => l.row = Reservation(k) /\ l.mode \in {"update", "noKey"}
           /\ o \in Free => l.row = Request(k) /\ l.mode \in {"update", "noKey"}
<1>1. o \in Paid \cup Free => Place(o, 1) = 1
  BY DEF Place, Paid, Free
<1>2. QED
  BY <1>1 DEF Placed, TokenLocks, ProjectRowLocks, LedgerLocks, ReservationLocks, RequestLocks, Paid, Free

\* Operations on one request exclude each other, so that these waits are the only ones.
LEMMA CircleWaits ==
    ASSUME LockInv, NEW t \in Transactions, NEW u \in Transactions, WaitsFor(t, u),
           Between(t), Between(u)
    PROVE  /\ MayWait(Op(t), work[t].taken + 1, Op(u), work[u].taken)
           /\ Op(t) = "reserve" /\ work[t].taken = 2 => Key(u) = Key(t)
<1> DEFINE n == work[t].taken + 1
           m == work[u].taken
           c == Len(work[u].tokens)
<1>0. WorkOK
  BY DEF LockInv, WorkOK
<1>1. /\ Working(t) /\ Working(u) /\ t # u
      /\ Op(t) \in Operations /\ Op(u) \in Operations
      /\ n \in Nat /\ n >= 2 /\ n <= Count(t) /\ m \in Nat /\ m >= 1 /\ m < Size(Op(u), c)
      /\ Count(t) \in Nat /\ Count(u) \in Nat /\ Count(u) = Size(Op(u), c)
      /\ \A i \in 1 .. Count(t) : Placed(Nth(t, i), Op(t), Place(Op(t), i), Key(t))
      /\ \A i \in 1 .. Count(u) : Placed(Nth(u, i), Op(u), Place(Op(u), i), Key(u))
  <2>1. Working(t) /\ Working(u) /\ t # u
    BY <1>0, WaitsAtPlaces DEF Between
  <2>2. /\ Op(t) \in Operations /\ Count(t) \in Nat /\ work[t].taken \in 0 .. Count(t)
        /\ \A i \in 1 .. Count(t) : Placed(Nth(t, i), Op(t), Place(Op(t), i), Key(t))
    BY <1>0, <2>1, LocksAtWork
  <2>3. /\ Op(u) \in Operations /\ Count(u) \in Nat /\ work[u].taken \in 0 .. Count(u)
        /\ \A i \in 1 .. Count(u) : Placed(Nth(u, i), Op(u), Place(Op(u), i), Key(u))
    BY <1>0, <2>1, LocksAtWork
  <2>4. Count(u) = Size(Op(u), c)
    BY DEF Count
  <2>5. n \in Nat /\ n >= 2 /\ n <= Count(t) /\ m \in Nat /\ m >= 1 /\ m < Count(u)
    BY <2>2, <2>3 DEF Between
  <2>6. QED
    BY <2>1, <2>2, <2>3, <2>4, <2>5
<1>2. PICK j \in Nat : /\ Holds(u, j) /\ Nth(u, j).row = Nth(t, n).row
                       /\ Conflict(Nth(u, j).mode, Nth(t, n).mode)
  BY <1>0, WaitsAtPlaces
<1>3. j >= 1 /\ j <= m
  BY <1>1, <1>2 DEF Holds
<1>4. /\ Placed(Nth(t, n), Op(t), Place(Op(t), n), Key(t))
      /\ Placed(Nth(u, j), Op(u), Place(Op(u), j), Key(u))
  BY <1>1, <1>2, <1>3
<1> DEFINE a == <<Op(t), Place(Op(t), n), Nth(t, n).mode>>
           b == <<Op(u), Place(Op(u), j), Nth(u, j).mode>>
<1>5. \/ a \in TokenLocks /\ b \in TokenLocks
      \/ a \in ProjectRowLocks /\ b \in ProjectRowLocks
      \/ a \in LedgerLocks /\ b \in LedgerLocks
      \/ <<Op(t), Place(Op(t), n)>> = <<"settle", 5>> /\ <<Op(u), Place(Op(u), j)>> = <<"settle", 5>>
      \/ <<Op(u), Place(Op(u), j)>> = <<"credit", 2>>
      \/ a \in ReservationLocks
      \/ Key(u) = Key(t) /\ a \in RequestLocks /\ b \in RequestLocks
  BY <1>2, <1>4, SameRow
<1> HIDE DEF n, m, c
<1>6. CASE \/ a \in TokenLocks /\ b \in TokenLocks
           \/ a \in ProjectRowLocks /\ b \in ProjectRowLocks
           \/ a \in LedgerLocks /\ b \in LedgerLocks
  <2>1. MayWait(Op(t), n, Op(u), m)
    BY <1>1, <1>2, <1>3, <1>6, WaitsInTables
  <2>2. ~(Op(t) = "reserve" /\ n = 3)
    BY <1>6 DEF Place, TokenLocks, ProjectRowLocks, LedgerLocks
  <2>3. QED
    BY <1>1, <2>1, <2>2 DEF n, m
<1>7. CASE <<Op(t), Place(Op(t), n)>> = <<"settle", 5>> /\ <<Op(u), Place(Op(u), j)>> = <<"settle", 5>>
  <2>1. Op(t) = "settle" /\ n = 5 /\ Op(u) = "settle" /\ j = 5
    BY <1>7 DEF Place
  <2>2. QED
    BY <1>1, <1>3, <2>1 DEF MayWait, n, m
<1>8. CASE <<Op(u), Place(Op(u), j)>> = <<"credit", 2>>
  <2>1. Size("credit", c) = 2 /\ j = 2
    BY <1>8 DEF Size, Place
  <2>2. QED
    BY <1>1, <1>3, <1>8, <2>1
<1>9. CASE a \in ReservationLocks
  BY <1>1, <1>9 DEF ReservationLocks, Place
<1>10. CASE Key(u) = Key(t) /\ a \in RequestLocks /\ b \in RequestLocks
  <2>1. /\ (Op(u) = "reserve" /\ m >= 3) \/ (Op(u) = "startFree" /\ m >= 1) \/ Op(u) \in Paid \cup Free
        /\ (<<Op(t), n>> = <<"reserve", 3>> /\ Op(u) \in Opening) \/ Op(t) \in Paid \cup Free
    BY <1>1, <1>2, <1>3, <1>10, WaitsOnRequest
  <2>2. CASE <<Op(t), n>> = <<"reserve", 3>> /\ Op(u) \in Opening
    BY <1>10, <2>1, <2>2 DEF MayWait, Opening, Paid, Free, n, m
  <2>3. CASE Op(t) \in Paid \cup Free /\ Op(u) \notin Paid \cup Free
    <3>1. KeyOK(t) /\ KeyOK(u)
      BY <1>1 DEF LockInv
    <3>2. QED
      BY <1>1, <1>10, <2>1, <2>3, <3>1 DEF KeyOK, Paid, Free, m
  <2>4. CASE Op(t) \in Paid \cup Free /\ Op(u) \in Paid \cup Free
    <3>1. KeyOK(t) /\ KeyOK(u)
      BY <1>1 DEF LockInv
    <3>2. (Op(t) \in Paid /\ Op(u) \in Paid) \/ (Op(t) \in Free /\ Op(u) \in Free)
      BY <1>10, <2>4, <3>1 DEF KeyOK
    <3>3. Placed(Nth(t, 1), Op(t), Place(Op(t), 1), Key(t)) /\ Placed(Nth(u, 1), Op(u), Place(Op(u), 1), Key(t))
      BY <1>1, <1>10
    <3>4. Nth(t, 1).row = Nth(u, 1).row /\ Conflict(Nth(t, 1).mode, Nth(u, 1).mode)
      <4>1. /\ Nth(t, 1).row = Nth(u, 1).row
            /\ Nth(t, 1).mode \in {"update", "noKey"} /\ Nth(u, 1).mode \in {"update", "noKey"}
        BY <3>2, <3>3, FirstLocks
      <4>2. QED
        BY <4>1 DEF Conflict
    <3>5. Holds(t, 1) /\ Holds(u, 1)
      BY <1>0, <1>1, LocksAtWork DEF Holds, Between
    <3>6. QED
      BY <1>1, <3>4, <3>5 DEF LockInv, Exclusive
  <2>5. QED
    BY <2>1, <2>2, <2>3, <2>4
<1>11. QED
  BY <1>5, <1>6, <1>7, <1>8, <1>9, <1>10

-----------------------------------------------------------------------------
(* Circles without a change of members                                     *)

\* Everyone in a circle is waited for: without it the others would not be one.
LEMMA EveryoneIsWaitedFor ==
    ASSUME NEW D \in SUBSET Transactions, Circle(D), NEW u \in D
    PROVE  \E t \in D : WaitsFor(t, u)
<1>1. SUFFICES ASSUME \A t \in D : ~WaitsFor(t, u) PROVE FALSE
  OBVIOUS
<1>2. D \ {u} # {}
  BY DEF Circle, WaitsFor
<1>3. D \ {u} \in (SUBSET D) \ {D, {}}
  BY <1>2
<1>4. PICK t \in D \ {u} : ~ \E x \in D \ {u} : WaitsFor(t, x)
  BY <1>3 DEF Circle
<1>5. QED
  BY <1>1, <1>4 DEF Circle

\* Everyone in a circle waits, and has what another one waits for.
LEMMA BetweenInCircle ==
    ASSUME LockInv, NEW D \in SUBSET Transactions, Circle(D), NEW t \in D
    PROVE  Between(t)
<1>0. WorkOK
  BY DEF LockInv, WorkOK
<1>1. PICK u \in D : WaitsFor(t, u)
  BY DEF Circle
<1>2. Working(t) /\ work[t].taken < Count(t)
  BY <1>0, <1>1, WaitsAtPlaces
<1>3. PICK x \in D : WaitsFor(x, t)
  BY EveryoneIsWaitedFor
<1>4. PICK i \in Nat : Holds(t, i)
  BY <1>0, <1>3, WaitsAtPlaces
<1>5. work[t].taken \in 0 .. Count(t) /\ Count(t) \in Nat
  BY <1>0, <1>2, LocksAtWork
<1>6. QED
  BY <1>2, <1>4, <1>5 DEF Between, Holds

\* A reservation that inserts its request and a free call of the same key wait
\* for each other: the one has the token, the other the request.
LEMMA ReserveMeetsFreeCall ==
    ASSUME LockInv, NEW y \in Transactions, NEW z \in Transactions, Between(y), Between(z),
           Op(y) = "reserve", work[y].taken = 2, Op(z) = "startFree", work[z].taken = 2, Key(z) = Key(y)
    PROVE  WaitsFor(z, y)
<1>0. WorkOK
  BY DEF LockInv, WorkOK
<1>1. /\ Working(y) /\ Working(z) /\ y # z /\ work[z].taken < Count(z)
      /\ \A i \in 1 .. Count(y) : Placed(Nth(y, i), Op(y), Place(Op(y), i), Key(y))
      /\ \A i \in 1 .. Count(z) : Placed(Nth(z, i), Op(z), Place(Op(z), i), Key(z))
      /\ Count(y) = 4 /\ Count(z) = 3
  BY <1>0, LocksAtWork DEF Between, Count, Size
<1>2. /\ Placed(Nth(y, 1), "reserve", 1, Key(y))
      /\ Placed(Nth(z, 3), "startFree", 3, Key(y))
  <2>1. Place("reserve", 1) = 1 /\ Place("startFree", 3) = 3
    BY DEF Place
  <2>2. QED
    BY <1>1, <2>1
<1>3. Nth(y, 1).row = Token(KeyToken[Key(y)]) /\ Nth(y, 1).mode = "update"
  BY <1>2 DEF Placed, OfKey, TokenLocks, ProjectRowLocks, LedgerLocks, ReservationLocks, RequestLocks
<1>4. Nth(z, 3).row = Token(KeyToken[Key(y)]) /\ Nth(z, 3).mode = "share"
  BY <1>2 DEF Placed, OfKey, TokenLocks, ProjectRowLocks, LedgerLocks, ReservationLocks, RequestLocks
<1>5. Holds(y, 1) /\ Conflict(Nth(y, 1).mode, Nth(z, 3).mode)
  BY <1>1, <1>3, <1>4 DEF Holds, Conflict
<1>6. QED
  BY <1>0, <1>1, <1>3, <1>4, <1>5, WaitsAtPlaces

\* The operations of a circle without a change of members.  A settlement in it
\* would wait for the account of a reservation that waits, with a free call of its
\* key, in a circle of two; and for changes of tokens only they would wait.
LEMMA CirclesWithoutMembers ==
    ASSUME LockInv, NEW D \in SUBSET Transactions, Circle(D), \A t \in D : Op(t) # "member"
    PROVE  (\A t \in D : Op(t) \in Opening) \/ (\A t \in D : Op(t) \in {"project", "revoke"})
<1>0. WorkOK
  BY DEF LockInv, WorkOK
<1>1. \A x \in D : \E u \in D : /\ WaitsFor(x, u)
                                /\ MayWait(Op(x), work[x].taken + 1, Op(u), work[u].taken)
                                /\ Op(x) = "reserve" /\ work[x].taken = 2 => Key(u) = Key(x)
  BY BetweenInCircle, CircleWaits DEF Circle
<1>2. \A x \in D : \E u \in D : MayWait(Op(u), work[u].taken + 1, Op(x), work[x].taken)
  BY BetweenInCircle, EveryoneIsWaitedFor, CircleWaits
<1>3. \A x \in D : work[x].taken \in Nat /\ work[x].taken >= 1 /\ Op(x) \in Operations
  <2>1. SUFFICES ASSUME NEW x \in D PROVE work[x].taken \in Nat /\ work[x].taken >= 1 /\ Op(x) \in Operations
    OBVIOUS
  <2>2. Working(x) /\ work[x].taken \in 1 .. Count(x) - 1
    BY BetweenInCircle DEF Between
  <2>3. QED
    BY <1>0, <2>2, LocksAtWork
<1>4. \A x \in D : /\ Op(x) = "rebind" => work[x].taken = 2
                   /\ Op(x) = "release" => work[x].taken = 1
                   /\ Op(x) = "settle" => work[x].taken \in {2, 3, 4}
                   /\ Op(x) = "startFree" => work[x].taken = 2
                   /\ Op(x) = "reserve" => work[x].taken \in {1, 2}
                   /\ Op(x) \notin {"pend", "extend", "free", "credit", "issue", "move"}
  BY <1>1, <1>3 DEF MayWait
<1>5. \A x \in D : /\ Op(x) \notin {"rebind", "release"}
                   /\ Op(x) = "settle" => work[x].taken \in {3, 4}
  BY <1>2, <1>3, <1>4 DEF MayWait
<1>6. \A x \in D : Op(x) = "settle" => work[x].taken = 3
  BY <1>1, <1>3, <1>4, <1>5 DEF MayWait
<1>7. ASSUME NEW x \in D, Op(x) = "settle" PROVE FALSE
  <2>1. PICK y \in D : Op(y) = "reserve" /\ work[y].taken = 2
    BY <1>1, <1>3, <1>4, <1>5, <1>6, <1>7 DEF MayWait
  <2>2. PICK z \in D : WaitsFor(y, z) /\ Op(z) = "startFree" /\ work[z].taken = 2 /\ Key(z) = Key(y)
    BY <1>1, <1>3, <1>4, <2>1 DEF MayWait
  <2>3. WaitsFor(z, y)
    BY <2>1, <2>2, BetweenInCircle, ReserveMeetsFreeCall
  <2>4. {y, z} \in (SUBSET D) \ {D, {}}
    BY <1>7, <2>1, <2>2
  <2>5. QED
    BY <2>2, <2>3, <2>4 DEF Circle
<1> DEFINE S == {t \in D : Op(t) \in {"project", "revoke"}}
<1>8. ASSUME NEW t \in D \ S, NEW u \in D, MayWait(Op(t), work[t].taken + 1, Op(u), work[u].taken)
      PROVE  u \notin S
  BY <1>7, <1>8 DEF MayWait
<1>9. D \ S = {} \/ S = {}
  <2>1. SUFFICES ASSUME D \ S # {}, S # {} PROVE FALSE
    OBVIOUS
  <2>2. D \ S \in (SUBSET D) \ {D, {}}
    BY <2>1
  <2>3. PICK t \in D \ S : ~ \E u \in D \ S : WaitsFor(t, u)
    BY <2>2 DEF Circle
  <2>4. QED
    BY <1>1, <1>8, <2>3
<1>10. S = {} => \A t \in D : Op(t) \in Opening
  BY <1>3, <1>4, <1>5, <1>7 DEF Operations, Opening
<1>11. QED
  BY <1>9, <1>10

\* Bills and tokens deadlock over member changes only, and where no settlement is
\* concerned: a paid and a free call that open one key, changes of the same tokens.
THEOREM CirclesHaveMemberChanges == LockSpec => []BillsDeadlockOverMembersOnly
<1>1. LockInv => BillsDeadlockOverMembersOnly
  BY CirclesWithoutMembers DEF BillsDeadlockOverMembersOnly, Op
<1>2. QED
  BY <1>1, LocksAreExclusive, PTL
=============================================================================
