----------------------------- MODULE MCBilling -----------------------------
(***************************************************************************)
(* Small instances of Billing and LockOrder for TLC.  A behaviour runs one   *)
(* of them: "rows", where a transaction is one step and its effect counts,   *)
(* or "locks", where it takes its locks one by one.                         *)
(***************************************************************************)
EXTENDS Billing, LockOrder, TLC

CONSTANTS t1, t2, k1, k2, x1, cheap, dear

\* Two requests of one token, which has a spend limit of 2.
OneToken  == <<k1, k1>>

OneTenant == (k1 :> t1) @@ (k2 :> t1)

LimitOfTwo == (k1 :> 2) @@ (k2 :> 0)

\* Each channel is mapped to the model row of its own provider.
OwnModel == [c \in Channels |-> c]

\* The dear model has a minimum charge, so that a zero usage costs 1 there.
SmallPrices == [m \in Models |-> [u \in Usages |-> IF m = dear /\ u = 0 THEN 1 ELSE u]]

\* Only the dear model has a price for the second meter.
DearMeters == [m \in Models |-> [u \in Usages |-> IF m = dear \/ u = 0 THEN u ELSE 1]]

\* Each of the two tokens has a key; the tokens' tenant pays from one account.
TokenPerKey   == <<k1, k2>>
AccountPerKey == <<t1, t1>>

VARIABLE slice

\* Of the transactions that take locks, the first one works on a request.  An
\* UPDATE of many tokens meets all of them: it may end before the last one.
LocksBound ==
    \A t \in Transactions :
       /\ work'[t].op \in {"member", "project", "revoke"} => Len(work'[t].tokens) = Cardinality(Tokens)
       /\ work'[t].op \in {"credit", "member", "project", "issue", "move", "revoke"} =>
             t # x1 /\ work'[t].key = 1
       /\ work'[t].op # "none" /\ t # x1 => work'[t].key = 1

MCInit ==
    /\ Init /\ LockInit
    /\ slice \in {"rows", "locks"}
    /\ slice = "rows" => \A k \in Keys : known[k] = "none"

MCNext ==
    /\ UNCHANGED slice
    /\ \/ slice = "rows"  /\ UNCHANGED lockVars /\ Next
       \/ slice = "locks" /\ UNCHANGED vars /\ LockNext /\ LocksBound

MCSpec == MCInit /\ [][MCNext]_<<vars, lockVars, slice>> /\ Fairness
=============================================================================
