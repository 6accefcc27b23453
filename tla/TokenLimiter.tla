---------------------------- MODULE TokenLimiter ----------------------------
(***************************************************************************)
(* The limits of one API token and of its routing group: AcquireToken of    *)
(* internal/tokens/issuer.go and ConsumeGroupRPM of internal/relay.         *)
(*                                                                         *)
(* A call reads the limits of its token, takes its place in the windows and *)
(* among the running calls in one transaction, then its place in the window *)
(* of the group, and gives the slot of a running call back when it ends.    *)
(* The limits may be changed, and the server may stop, at any moment.       *)
(*                                                                         *)
(* Abstraction: the windows of past minutes are forgotten at once.          *)
(***************************************************************************)
EXTENDS Integers, FiniteSets

CONSTANTS
    Requests,       \* calls in flight
    Policies,       \* limits a token may have: [rpm, tpm, concurrency], 0 is no limit
    Sizes,          \* estimated tokens of a call, already at least 1
    GroupRPM,       \* rpm_limit of the group, 0 is no limit
    MaxLost         \* bound on the calls lost with a server

ASSUME LimiterAssumption ==
    /\ IsFiniteSet(Requests)
    /\ Policies \subseteq [rpm : Nat, tpm : Nat, concurrency : Nat]
    /\ Sizes \subseteq Nat \ {0} /\ GroupRPM \in Nat /\ MaxLost \in Nat

VARIABLES
    limits,     \* api_tokens.rate_limit_json
    window,     \* api_token_rate_windows of this minute
    active,     \* api_token_concurrency.active_count
    groupCount, \* routing_group_rpm_windows of this minute
    running,    \* the calls
    lost        \* slots that nobody gives back

limiterVars == <<limits, window, active, groupCount, running, lost>>

NoLimits == [rpm |-> 0, tpm |-> 0, concurrency |-> 0]
Idle     == [pc |-> "idle", limits |-> NoLimits, size |-> 1]
Empty    == [requests |-> 0, tokens |-> 0]

LimiterInit ==
    /\ limits \in Policies
    /\ window = Empty /\ active = 0 /\ groupCount = 0 /\ lost = 0
    /\ running = [r \in Requests |-> Idle]

\* normalizeRateLimit: a console request sets the limits.
SetLimits(policy) ==
    /\ limits' = policy
    /\ UNCHANGED <<window, active, groupCount, running, lost>>

\* The read of the limits, normalizeRateLimitJSON; without limits nothing is taken.
ReadLimits(r, size) ==
    /\ running[r].pc = "idle"
    /\ running' = [running EXCEPT ![r] = [pc |-> IF limits = NoLimits THEN "group" ELSE "take",
                                          limits |-> limits, size |-> size]]
    /\ UNCHANGED <<limits, window, active, groupCount, lost>>

\* Mutant: the last place is given away once more.
FitsLoosely(l, size) ==
    /\ l.rpm = 0 \/ window.requests <= l.rpm
    /\ l.tpm = 0 \/ window.tokens + size <= l.tpm

\* The upsert of the window: its first call is inserted whatever its size is.
Fits(l, size) ==
    \/ window.requests = 0
    \/ /\ l.rpm = 0 \/ window.requests < l.rpm
       /\ l.tpm = 0 \/ window.tokens + size <= l.tpm

\* The transaction of AcquireToken: both places or none.
AcquireToken(r) ==
    /\ running[r].pc = "take"
    /\ LET l == running[r].limits
           windowed == l.rpm > 0 \/ l.tpm > 0
           free == l.concurrency = 0 \/ active = 0 \/ active < l.concurrency
       IN  IF (windowed => Fits(l, running[r].size)) /\ free
           THEN /\ running' = [running EXCEPT ![r].pc = "group"]
                /\ window' = IF windowed THEN [requests |-> window.requests + 1,
                                               tokens |-> window.tokens + running[r].size] ELSE window
                /\ active' = IF l.concurrency > 0 THEN active + 1 ELSE active
           ELSE /\ running' = [running EXCEPT ![r] = Idle]
                /\ UNCHANGED <<window, active>>
    /\ UNCHANGED <<limits, groupCount, lost>>

\* ConsumeGroupRPM; a refusal ends the call.
ConsumeGroupRPM(r) ==
    /\ running[r].pc = "group"
    /\ IF GroupRPM = 0 \/ groupCount < GroupRPM
       THEN /\ running' = [running EXCEPT ![r].pc = "running"]
            /\ groupCount' = IF GroupRPM = 0 THEN 0 ELSE groupCount + 1
       ELSE /\ running' = [running EXCEPT ![r].pc = "ending"]
            /\ UNCHANGED groupCount
    /\ UNCHANGED <<limits, window, active, lost>>

Answered(r) ==
    /\ running[r].pc = "running"
    /\ running' = [running EXCEPT ![r].pc = "ending"]
    /\ UNCHANGED <<limits, window, active, groupCount, lost>>

\* The deferred release of the slot; a failed statement is not repeated.
Release(r, works) ==
    /\ running[r].pc = "ending"
    /\ LET held == running[r].limits.concurrency > 0
       IN  /\ held /\ ~ works => lost < MaxLost
           /\ active' = IF held /\ works THEN (IF active > 0 THEN active - 1 ELSE 0) ELSE active
           /\ lost' = IF held /\ ~ works THEN lost + 1 ELSE lost
    /\ running' = [running EXCEPT ![r] = Idle]
    /\ UNCHANGED <<limits, window, groupCount>>

Holds(r) == running[r].pc \in {"group", "running", "ending"} /\ running[r].limits.concurrency > 0

\* The server stops: the slots of its calls stay taken.
StopServer ==
    /\ lost + Cardinality({r \in Requests : Holds(r)}) <= MaxLost
    /\ \E r \in Requests : running[r].pc # "idle"
    /\ running' = [r \in Requests |-> Idle]
    /\ lost' = lost + Cardinality({r \in Requests : Holds(r)})
    /\ UNCHANGED <<limits, window, active, groupCount>>

NextMinute ==
    /\ window # Empty \/ groupCount > 0
    /\ window' = Empty /\ groupCount' = 0
    /\ UNCHANGED <<limits, active, running, lost>>

LimiterNext ==
    \/ \E p \in Policies : SetLimits(p)
    \/ \E r \in Requests :
          \/ \E s \in Sizes : ReadLimits(r, s)
          \/ AcquireToken(r) \/ ConsumeGroupRPM(r) \/ Answered(r)
          \/ \E works \in BOOLEAN : Release(r, works)
    \/ StopServer \/ NextMinute

LimiterSpec == LimiterInit /\ [][LimiterNext]_limiterVars

-----------------------------------------------------------------------------
\* top is a limit that no policy exceeds or lacks.
Bounds(q, top) == \A p \in Policies : 0 < p[q] /\ p[q] <= top

\* Whatever order calls, refusals, changes of the limits, lost releases and
\* minutes come in, what is counted is what runs: every running call that took a
\* slot has one, and nothing but the lost slots stays taken.  So a token never
\* runs more calls than a limit it had; a minute never has more calls than a
\* limit, and more tokens only when its first call alone is too large.
LimitsHold ==
    /\ active = lost + Cardinality({r \in Requests : Holds(r)})
    /\ \A p \in Policies :
          /\ Bounds("concurrency", p.concurrency) => Cardinality({r \in Requests : Holds(r)}) <= p.concurrency
          /\ Bounds("rpm", p.rpm) => window.requests <= p.rpm
          /\ Bounds("tpm", p.tpm) => window.tokens <= p.tpm \/ window.requests = 1
    /\ GroupRPM > 0 => groupCount <= GroupRPM
=============================================================================
