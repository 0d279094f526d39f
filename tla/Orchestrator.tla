---------------------------- MODULE Orchestrator ----------------------------
(***************************************************************************)
(* The workflow together with what else touches its state: the Decision    *)
(* Engine, which writes the same control metric, the alarms and health     *)
(* checks that turn the metric into DNS answers, and                       *)
(* scripts/scenario_reset.sh, a sequence of unguarded AWS calls during     *)
(* which executions, engine and Route 53 go on working.                    *)
(***************************************************************************)
EXTENDS FailoverWorkflow, Sequences

CONSTANTS
    LookBack,       \* see DnsControl
    MaxResets       \* bound: runs of scenario_reset.sh

\* Failed attempts are left to FailoverWorkflow's own instances.
ASSUME OrchestratorAssumption ==
    LookBack \in Nat /\ MaxResets \in Nat /\ "task" \notin Faults

VARIABLES
    maximum, alarm,     \* see DnsControl
    script,             \* the steps a running scenario_reset.sh has left
    listed,             \* executions its last list-executions returned
    resets,             \* runs of the script so far
    owed,               \* executions the last run found running and could reach
    sinceReset          \* minutes since a reset worked on the secondary's decision or metric

dnsVars == <<maximum, alarm>>
scriptVars == <<script, listed, resets, owed, sinceReset>>
allVars == <<vars, dnsVars, scriptVars>>

Dns == INSTANCE DnsControl

LongAgo == LookBack + 3

\* The application is at home, or an earlier execution has failed it over.
OrchestratorInit ==
    /\ NothingRan /\ Dns!Init
    /\ PrimaryStoreHolds("ACTIVE", None) \/ PrimaryStoreHolds("PASSIVE", "ACTIVE")
    /\ script = <<>> /\ listed = {}
    /\ resets = 0 /\ owed = {} /\ sinceReset = LongAgo

-----------------------------------------------------------------------------
\* The alarm of a region reads that region's CloudWatch and its own metric:
\* an execution's emission reaches it only from its home and for its home.
Watched(e) == ~input[e].dry_run /\ input[e].home = FlippedRegion(input[e])

\* FLIP_R53_CONTROL_METRIC with what the alarm sees of it.
Flip(e) ==
    /\ FlipR53ControlMetric(e)
    /\ IF Watched(e) THEN Dns!Emit(input[e].home, FlipValue(input[e])) ELSE UNCHANGED maximum
    /\ UNCHANGED <<alarm, scriptVars>>

\* Every other step of the workflow.
Work(e) ==
    /\ \/ Step(e) /\ ~At(e, "FLIP_R53_CONTROL_METRIC")
       \/ GateTimeout(e) \/ ExecutionTimeout(e) \/ Operate(e)
       \/ \E i \in Inputs : StartExecution(e, i)
    /\ UNCHANGED <<dnsVars, scriptVars>>

Drain(h) == ManualDrain(h) /\ UNCHANGED <<dnsVars, scriptVars>>

\* The primary's engine trips, or clears, in any minute (DecisionEngine says
\* when it may).
EngineEmits(value) ==
    /\ Dns!Emit(Primary, value)
    /\ UNCHANGED <<vars, alarm, scriptVars>>

\* The secondary's engine has no red signal and emits nothing, unless a reset
\* deletes its record before the invocation reads it back: state_changed and
\* GREEN, so it emits 1.0.  An invocation lives 30 s, so that its emission may
\* fall into the minute after the deletion.
RacedEngineClears ==
    /\ sinceReset <= 1
    /\ Dns!Emit(Secondary, "clear")
    /\ UNCHANGED <<vars, alarm, scriptVars>>

Evaluate(r) == Dns!Evaluate(r) /\ UNCHANGED <<vars, scriptVars>>

Minute ==
    /\ Dns!Minute
    /\ sinceReset' = IF sinceReset < LongAgo THEN sinceReset + 1 ELSE LongAgo
    /\ UNCHANGED <<vars, script, listed, resets, owed>>

-----------------------------------------------------------------------------
(***************************************************************************)
(* scenario_reset.sh.  reset_region runs for the primary, then for the     *)
(* secondary; "|| true" swallows the failure of every call but get-caller- *)
(* identity, which ends the script (set -e).                               *)
(***************************************************************************)
RegionSteps(h) ==
    << <<"role", h>>, <<"decision", h>>, <<"control", h>>, <<"failover", h>>, <<"failback", h>> >>

\* Mutant: the failback machine is forgotten.
FailoverOnly ==
    SelectSeq(RegionSteps(Primary) \o RegionSteps(Secondary), LAMBDA step : step[1] # "failback")

ResetSteps == RegionSteps(Primary) \o RegionSteps(Secondary)

ResetDone == script = <<>> /\ listed = {}

StartReset ==
    /\ ResetDone /\ resets < MaxResets
    /\ script' = ResetSteps
    /\ resets' = resets + 1
    /\ owed' = {e \in Execs : Running(e)}
    /\ UNCHANGED <<vars, dnsVars, listed, sinceReset>>

\* The script is about to do the given thing in region h.
Doing(what, h) == script # <<>> /\ listed = {} /\ Head(script) = <<what, h>>

\* Mutant: the reset restores the home configuration instead of deleting it.
RestoreRole(h) ==
    /\ Doing("role", h)
    /\ role' = [role EXCEPT ![h][h] = IF h = Primary THEN "ACTIVE" ELSE "PASSIVE"]
    /\ script' = Tail(script)
    /\ UNCHANGED <<execVars, control, writer, sns, audit, dnsVars, listed, resets, owed,
                   sinceReset>>

\* Only the region's own parameter: what the workflow wrote there for the
\* other region stays.
DeleteRole(h) ==
    /\ Doing("role", h)
    /\ role' \in {role, [role EXCEPT ![h][h] = None]}
    /\ script' = Tail(script)
    /\ UNCHANGED <<execVars, control, writer, sns, audit, dnsVars, listed, resets, owed,
                   sinceReset>>

DeleteDecision(h) ==
    /\ Doing("decision", h)
    /\ sinceReset' = IF h = Secondary THEN 0 ELSE sinceReset
    /\ script' = Tail(script)
    /\ UNCHANGED <<vars, dnsVars, listed, resets, owed>>

ClearControl(h) ==
    /\ Doing("control", h)
    /\ Dns!Emit(h, "clear") \/ UNCHANGED maximum
    /\ sinceReset' = IF h = Secondary THEN 0 ELSE sinceReset
    /\ script' = Tail(script)
    /\ UNCHANGED <<vars, alarm, listed, resets, owed>>

RunningOf(machine, h) == {e \in Execs : Running(e) /\ input[e].machine = machine /\ input[e].home = h}

\* list-executions; a failed call lists nothing.
ListRunning(machine, h) ==
    /\ Doing(machine, h)
    /\ \/ listed' = RunningOf(machine, h) /\ UNCHANGED owed
       \/ listed' = {} /\ owed' = owed \ RunningOf(machine, h)
    /\ script' = Tail(script)
    /\ UNCHANGED <<vars, dnsVars, resets, sinceReset>>

\* stop-execution of one of them, which may have ended meanwhile.
StopListed(e) ==
    /\ e \in listed
    /\ listed' = listed \ {e}
    /\ \/ Running(e) /\ End(e, "ABORTED") /\ UNCHANGED owed
       \/ ~Running(e) /\ UNCHANGED <<execVars, owed>>
       \/ Running(e) /\ UNCHANGED execVars /\ owed' = owed \ {e}
    /\ UNCHANGED <<role, control, writer, sns, audit, dnsVars, script, resets, sinceReset>>

\* get-caller-identity fails, or the operator interrupts the script.
ResetDies ==
    /\ ~ResetDone
    /\ script' = <<>> /\ listed' = {} /\ owed' = {}
    /\ UNCHANGED <<vars, dnsVars, resets, sinceReset>>

Reset ==
    \/ StartReset \/ ResetDies
    \/ \E h \in Regions : \/ DeleteRole(h) \/ DeleteDecision(h) \/ ClearControl(h)
                          \/ \E m \in {"failover", "failback"} : ListRunning(m, h)
    \/ \E e \in Execs : StopListed(e)

OrchestratorNext ==
    \/ \E e \in Execs : Flip(e) \/ Work(e)
    \/ \E h \in Regions : Drain(h) \/ Evaluate(h)
    \/ \E value \in {"trip", "clear"} : EngineEmits(value)
    \/ RacedEngineClears
    \/ Minute
    \/ Reset

OrchestratorSpec == OrchestratorInit /\ [][OrchestratorNext]_allVars

-----------------------------------------------------------------------------
(***************************************************************************)
(* OneActive, PrimaryStoreImplements and SecondaryStoreImplements of       *)
(* FailoverWorkflow are checked here too: resets and drains at any moment  *)
(* must not break the indicator protocol.                                  *)
(***************************************************************************)
\* A reset that has finished leaves no execution running that ran when it
\* began, in either region and of either machine, unless a call failed for it.
ResetStopsAll == ResetDone => \A e \in owed : ~Running(e)

\* Traffic is answered by the secondary only in the minutes after a reset: the
\* alarm's look-back, one minute for an engine's invocation that the reset
\* raced, and one until the alarm is evaluated again.  Nothing else in the
\* system tells Route 53 that the secondary is up, no execution, from
\* whichever region, and no engine left alone.
SecondaryNeedsReset == Dns!Answer = Secondary => sinceReset <= LookBack + 2

\* When a failover run in the primary has tripped the alarm and waited for the
\* propagation, DNS answers with its target ("R53 begins routing to
\* secondary", SPEC.md:201): it does not.
TrafficFollowsPromotion ==
    \A e \in Execs :
        At(e, "PROMOTE_TARGET") /\ input[e].machine = "failover" /\ ~input[e].dry_run
            /\ alarm[input[e].source]
        => Dns!Answer = input[e].target
=============================================================================
