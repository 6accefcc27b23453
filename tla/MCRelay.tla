------------------------------ MODULE MCRelay ------------------------------
(***************************************************************************)
(* Small instances of Relay for TLC.                                       *)
(***************************************************************************)
EXTENDS Relay, TLC

CONSTANTS t1, k1, cheap, dear, first, retry

OneTenant == (k1 :> t1)
NoLimit   == (k1 :> 0)
OneKey    == [r \in Requests |-> k1]
OwnModel  == [c \in Channels |-> c]
SmallPrices == [m \in Models |-> [u \in Usages |-> IF m = dear THEN u + 1 ELSE u]]
AllMeters   == [m \in Models |-> [u \in Usages |-> u]]

\* The retry carries the key of the first call.
SameKey     == [i \in Calls |-> 1]
EstimateOne == [i \in Calls |-> 1]
SameWeight   == [c \in Channels |-> 0]
\* dear is the fallback of cheap.
CheapFirst  == [c \in Channels |-> IF c = cheap THEN 1 ELSE 0]
=============================================================================
