---------------------------- MODULE MCPayments ----------------------------
(***************************************************************************)
(* Small instances of Payments for TLC.                                    *)
(***************************************************************************)
EXTENDS Payments

CONSTANTS c1, c2

\* The second call is a retry of the first one.
SameKey   == [c \in Calls |-> 1]
AmountOne == [c \in Calls |-> 1]

\* The rate rises while a call has been quoted and not placed, and the clock
\* starts with the first order: at other times neither makes a difference.
Eventful ==
    /\ rate' # rate => rate' > rate /\ \E c \in Calls : call[c].pc = "quoted"
    /\ now' # now => \E c \in Calls : Exists(c)

MCSpec == Init /\ rate = 1 /\ [][Next /\ Eventful]_vars /\ Fairness
===========================================================================
