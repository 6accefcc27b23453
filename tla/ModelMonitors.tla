--------------------------- MODULE ModelMonitors ---------------------------
(***************************************************************************)
(* The probes of one model monitor: internal/groups/model_monitors.go, the  *)
(* prober of cmd/server/main.go and the monitor handlers of httpapi.        *)
(*                                                                         *)
(* A probe is claimed by setting probe_started_at, runs, and is completed   *)
(* by clearing it, whoever set it.  The scheduler, an administrator who     *)
(* asks for a probe and the save of a monitor claim; a lease of ten minutes *)
(* is claimed again.  A server may stop at any moment.                      *)
(*                                                                         *)
(* Abstractions: next_probe_at and the age of a lease are what is left of   *)
(* them, in a few steps; the models of a monitor are left out; what a probe *)
(* finds is any status.                                                     *)
(***************************************************************************)
EXTENDS Integers, FiniteSets

CONSTANTS
    Probers,       \* scheduler workers and handlers
    Interval,      \* probe_interval_seconds
    LeaseTime,     \* the ten minutes after which a lease is reclaimed
    Never

ASSUME MonitorsAssumption ==
    Interval \in Nat \ {0} /\ LeaseTime \in Nat \ {0} /\ Never \notin Int

VARIABLES
    monitor,   \* model_monitor_configs: mode, enabled, started (age of probe_started_at), next
    groupOK,   \* the routing group is active
    triggered, \* a save has started a goroutine that has yet to claim a probe
    probe      \* probe of each prober

monitorVars == <<monitor, groupOK, triggered, probe>>

NoMonitor == [exists |-> FALSE, enabled |-> FALSE, mode |-> "passive", started |-> Never, next |-> Never,
              status |-> ""]

MonitorInit ==
    /\ monitor = NoMonitor
    /\ groupOK = TRUE /\ triggered = FALSE
    /\ probe = [p \in Probers |-> "idle"]

\* saveAdminModelMonitor: a save forgets the lease.
SaveMonitor(mode, enabled) ==
    /\ mode = "active" => groupOK
    /\ monitor' = [exists |-> TRUE, enabled |-> enabled, mode |-> mode, started |-> Never,
                   next |-> IF mode = "active" /\ enabled THEN 0 ELSE Never, status |-> ""]
    /\ triggered' = (triggered \/ (mode = "active" /\ enabled))
    /\ UNCHANGED <<groupOK, probe>>

DeleteMonitor ==
    /\ monitor.exists
    /\ monitor' = NoMonitor
    /\ UNCHANGED <<groupOK, triggered, probe>>

\* The group of the monitor is disabled, deleted or active again.
SetGroup(ok) ==
    /\ groupOK' = ok
    /\ UNCHANGED <<monitor, triggered, probe>>

Claimed == [monitor EXCEPT !.started = 0, !.next = Never, !.status = ""]

Probeable == monitor.exists /\ monitor.enabled /\ monitor.mode = "active" /\ groupOK

\* Mutant: a lease is never reclaimed.
DueOnlyWhenFree == Probeable /\ monitor.started = Never /\ monitor.next \in {Never, 0}

\* The condition of ClaimDueActiveModelMonitor
Due ==
    /\ Probeable
    /\ \/ monitor.started = Never /\ monitor.next \in {Never, 0}
       \/ monitor.started # Never /\ monitor.started >= LeaseTime

\* ClaimDueActiveModelMonitor; the scheduler hands the probe to a worker.
ClaimDue(p) ==
    /\ probe[p] = "idle" /\ Due
    /\ monitor' = Claimed
    /\ probe' = [probe EXCEPT ![p] = "probing"]
    /\ UNCHANGED <<groupOK, triggered>>

\* By hand, or after a save: a lease of any age is respected.
ClaimActiveModelMonitor(p) ==
    /\ probe[p] = "idle" /\ Probeable /\ monitor.started = Never
    /\ monitor' = Claimed
    /\ probe' = [probe EXCEPT ![p] = "probing"]
    /\ UNCHANGED groupOK

\* triggerInitialActiveModelMonitor: a busy monitor is left alone.
ProbeAfterSave(p) ==
    /\ triggered /\ triggered' = FALSE
    /\ \/ ClaimActiveModelMonitor(p)
       \/ ~ (Probeable /\ monitor.started = Never) /\ UNCHANGED <<monitor, groupOK, probe>>

ProbeByHand(p) == ClaimActiveModelMonitor(p) /\ triggered' = triggered

\* ProbeModelCandidates: what the probes of the models of the monitor came to.
Outcome(results) ==
    CASE results \subseteq {"unsupported"} -> "skipped"
      [] "success" \in results             -> "success"
      [] OTHER                             -> "failed"

\* CompleteActiveModelMonitor does not ask whose lease it clears.
Complete(p, results) ==
    /\ probe[p] = "probing"
    /\ monitor' = IF ~ monitor.exists THEN monitor
                  ELSE [monitor EXCEPT !.started = Never, !.status = Outcome(results),
                            !.next = IF monitor.enabled /\ monitor.mode = "active" THEN Interval ELSE Never]
    /\ probe' = [probe EXCEPT ![p] = "idle"]
    /\ UNCHANGED <<groupOK, triggered>>

\* runModelMonitorProber: the workers complete what the ticker has claimed.
RunProber(p) == ClaimDue(p) \/ \E results \in SUBSET {"unsupported", "success", "failed"} : Complete(p, results)

\* The server stops, or the client of a probe by hand goes away: no completion.
LoseProbe(p) ==
    /\ probe[p] = "probing"
    /\ probe' = [probe EXCEPT ![p] = "idle"]
    /\ UNCHANGED <<monitor, groupOK, triggered>>

\* Some time passes.
Pass ==
    /\ \/ monitor.started # Never /\ monitor.started < LeaseTime
       \/ monitor.next # Never /\ monitor.next > 0
    /\ monitor' = [monitor EXCEPT
            !.started = IF @ # Never /\ @ < LeaseTime THEN @ + 1 ELSE @,
            !.next    = IF @ # Never /\ @ > 0 THEN @ - 1 ELSE @]
    /\ UNCHANGED <<groupOK, triggered, probe>>

MonitorNext ==
    \/ \E mode \in {"active", "passive"}, enabled \in BOOLEAN : SaveMonitor(mode, enabled)
    \/ DeleteMonitor \/ \E ok \in BOOLEAN : SetGroup(ok)
    \/ \E p \in Probers : RunProber(p) \/ ProbeAfterSave(p) \/ ProbeByHand(p) \/ LoseProbe(p)
    \/ Pass

\* The ticker of the prober claims what is due, its workers end (every probe of a
\* model has a timeout) and time passes.
MonitorFairness ==
    /\ WF_monitorVars(\E p \in Probers : ClaimDue(p))
    /\ \A p \in Probers : WF_monitorVars(\E results \in SUBSET {"unsupported", "success", "failed"} :
                                            Complete(p, results))
    /\ WF_monitorVars(Pass)

MonitorSpec == MonitorInit /\ [][MonitorNext]_monitorVars /\ MonitorFairness

-----------------------------------------------------------------------------
\* A monitor that stays probeable is probed again and again: neither a server
\* that stops in a probe, nor a completion that fails, nor a late completion that
\* clears the lease of a later probe stops its probes for good.
MonitorsAreProbed ==
    <>[]Probeable => []<><<\E p \in Probers : probe[p] = "idle" /\ probe'[p] = "probing">>_monitorVars
=============================================================================
