-------------------------- MODULE FailoverWorkflow --------------------------
(***************************************************************************)
(* The failover and failback state machines (statemachines/*.asl.json),    *)
(* the executor Lambdas their states invoke, the trigger that starts an    *)
(* execution and the operator who answers its Aurora gate.                 *)
(*                                                                         *)
(* An execution runs in the region that started it (its home): its SSM     *)
(* parameters, its CloudWatch metric and its topic are that region's       *)
(* (terraform/modules/orchestrator-runtime/stepfunctions.tf).  The two     *)
(* definitions differ in the names of mirrored states, in EVALUATE (only   *)
(* failover), QUIESCE (only failback) and the retry policy of PRECHECK.    *)
(***************************************************************************)
EXTENDS Naturals

CONSTANTS
    Execs,          \* execution names
    Primary,        \* the application's two regions
    Secondary,
    Inputs,         \* the inputs executions may be started with
    MaxAttempts,    \* retries a Retry block grants (MaxAttempts, 3 in the definitions)
    Exclusive,      \* TRUE: operators start an execution only when none is running
    Faults          \* what may happen besides the workflow: faults and interventions

Regions == {Primary, Secondary}

\* "task":   an attempt of a Task state fails, before or after its effect.
\* "silent": indicator_updater raises, and aws-sdk:lambda:invoke still succeeds.
\* "stop":   an operator stops a running execution.
\* "drain":  an operator runs failoverctl drain.
\* "writer": an operator moves the Aurora writer.
FaultKinds == {"task", "silent", "stop", "drain", "writer"}

Input == [machine: {"failover", "failback"}, home: Regions, source: Regions,
          target: Regions, dry_run: BOOLEAN, aurora: BOOLEAN, manual: BOOLEAN,
          confirm_fields: BOOLEAN]

ASSUME WorkflowAssumption ==
    /\ Primary # Secondary
    /\ Inputs \subseteq Input
    /\ \A i \in Inputs : i.source # i.target
    /\ MaxAttempts \in Nat
    /\ Exclusive \in BOOLEAN
    /\ Faults \subseteq FaultKinds

(***************************************************************************)
(* manual_trigger's build_execution_input: direction is what the operator  *)
(* asked for, p the profile at that moment (a snapshot: later profile      *)
(* changes do not reach the execution), h the region whose Lambda was      *)
(* invoked.  confirm_fields says whether the input holds                   *)
(* profile_snapshot.aurora_global_cluster_id and aurora_iteration; the     *)
(* trigger supplies neither.                                               *)
(***************************************************************************)
ExecutionInput(direction, p, h, dry) ==
    LET back == direction = "failback"
    IN  [machine  |-> IF back THEN "failback" ELSE "failover",
         home     |-> h,
         source   |-> IF back THEN Secondary ELSE Primary,
         target   |-> IF back THEN Primary ELSE Secondary,
         dry_run  |-> dry \/ direction = "dryrun",
         aurora   |-> p.aurora,
         manual   |-> p.aurora /\ p.manual,
         confirm_fields |-> FALSE]

VARIABLES
    pc,         \* pc[e]: the state execution e is in
    status,     \* status[e]: what DescribeExecution reports
    input,      \* input[e]: the input e was started with
    attempts,   \* attempts[e]: failed attempts of the current Task state
    role,       \* role[h][r]: parameter /failover/<app>/<r>/role in region h's SSM
    control,    \* control[h][r]: last PrimaryHealthControl{Region=r} from h's executions
    writer,     \* region of the Aurora writer, or None while a promotion runs
    sns,        \* <<e, event>> published to a topic
    audit,      \* executions with an executor-run record in the audit bucket
    promoted    \* history: executions that have passed PROMOTE_TARGET

execVars == <<pc, status, input, attempts, promoted>>
vars == <<pc, status, input, attempts, promoted, role, control, writer, sns, audit>>

None == "None"
Role == {"ACTIVE", "PASSIVE", "DRAINING"}
Events == {"initiated", "gate_paused", "completed", "failed"}

StateNames ==
    {"EVALUATE", "PRECHECK", "NOTIFY_INITIATED", "DRAIN_SOURCE", "WAIT_DRAIN",
     "QUIESCE", "FLIP_R53_CONTROL_METRIC", "WAIT_R53_PROPAGATION",
     "PROMOTE_TARGET", "AURORA_GATE_DECISION", "AURORA_GATE_PAUSE",
     "AURORA_CONFIRM_LOOP", "AURORA_WAIT", "POSTCHECK", "DEMOTE_SOURCE",
     "NOTIFY_COMPLETED", "STABLE", "FAIL"}

\* An execution that has not been started has no state.
NotStarted == "NotStarted"
NoInput == [machine |-> NotStarted]

Statuses == {NotStarted, "RUNNING", "SUCCEEDED", "FAILED", "TIMED_OUT", "ABORTED"}

-----------------------------------------------------------------------------
\* No execution has been started.
NothingRan ==
    /\ pc = [e \in Execs |-> NotStarted]
    /\ status = [e \in Execs |-> NotStarted]
    /\ input = [e \in Execs |-> NoInput]
    /\ attempts = [e \in Execs |-> 0]
    /\ control = [h \in Regions |-> [r \in Regions |-> None]]
    /\ writer = Primary
    /\ sns = {}
    /\ audit = {}
    /\ promoted = {}

\* The parameters of the two regions as role[Primary] and nothing in the other store.
PrimaryStoreHolds(p, s) ==
    role = [h \in Regions |-> [r \in Regions |->
               IF h = Secondary THEN None ELSE IF r = Primary THEN p ELSE s]]

\* Terraform creates no role parameter; an environment may start with the
\* primary's set to ACTIVE.
Init == NothingRan /\ \E first \in {None, "ACTIVE"} : PrimaryStoreHolds(first, None)

Running(e) == status[e] = "RUNNING"

At(e, s) == Running(e) /\ pc[e] = s

\* The transition of e to its next state.
GoTo(e, s) ==
    /\ pc' = [pc EXCEPT ![e] = s]
    /\ attempts' = [attempts EXCEPT ![e] = 0]
    /\ promoted' = IF pc[e] = "PROMOTE_TARGET" /\ s # "FAIL" THEN promoted \cup {e} ELSE promoted
    /\ UNCHANGED <<status, input>>

\* The end of e with the given status.
End(e, s) ==
    /\ status' = [status EXCEPT ![e] = s]
    /\ UNCHANGED <<pc, input, attempts, promoted>>

\* Mutant: one retry too many.
RetryOnceMore(e) ==
    /\ attempts[e] <= MaxAttempts
    /\ attempts' = [attempts EXCEPT ![e] = @ + 1]
    /\ UNCHANGED <<pc, status, input, promoted>>

\* A failed attempt that the Retry block repeats.
RetryTask(e) ==
    /\ attempts[e] < MaxAttempts
    /\ attempts' = [attempts EXCEPT ![e] = @ + 1]
    /\ UNCHANGED <<pc, status, input, promoted>>

RetriesExhausted(e) == attempts[e] = MaxAttempts

\* A failed attempt of a Task with Retry and Catch on States.ALL.
TaskError(e) ==
    /\ "task" \in Faults
    /\ RetryTask(e) \/ (RetriesExhausted(e) /\ GoTo(e, "FAIL"))

\* executor_notify: a dry run logs dry_run_action_skipped instead of publishing.
Publish(e, event) ==
    sns' = IF input[e].dry_run THEN sns ELSE sns \cup {<<e, event>>}

\* indicator_updater and write_role in e's home region: an unconditional
\* overwrite, except in a dry run; the sequence number is only recorded.
WriteRole(e, r, value) ==
    role' = IF input[e].dry_run THEN role
            ELSE [role EXCEPT ![input[e].home][r] = value]

-----------------------------------------------------------------------------
(***************************************************************************)
(* manual_trigger, or start-execution by hand.  The execution name hashes  *)
(* the time of the request, so no two triggers share one, and nothing asks *)
(* whether another execution is running: Exclusive is an operator's rule.  *)
(***************************************************************************)
StartExecution(e, i) ==
    /\ status[e] = NotStarted
    /\ Exclusive => \A f \in Execs : ~Running(f)
    /\ status' = [status EXCEPT ![e] = "RUNNING"]
    /\ input' = [input EXCEPT ![e] = i]
    /\ pc' = [pc EXCEPT ![e] = IF i.machine = "failover" THEN "EVALUATE" ELSE "PRECHECK"]
    /\ UNCHANGED <<attempts, promoted, role, control, writer, sns, audit>>

\* The states that only move on: EVALUATE (Pass), the Wait states (their
\* length is the snapshot's; how long is left out) and AURORA_GATE_DECISION.
PassState(e) ==
    /\ \/ At(e, "EVALUATE") /\ GoTo(e, "PRECHECK")
       \/ /\ At(e, "WAIT_DRAIN")
          /\ GoTo(e, IF input[e].machine = "failover" THEN "FLIP_R53_CONTROL_METRIC"
                                                      ELSE "QUIESCE")
       \/ At(e, "QUIESCE") /\ GoTo(e, "FLIP_R53_CONTROL_METRIC")
       \/ At(e, "WAIT_R53_PROPAGATION") /\ GoTo(e, "PROMOTE_TARGET")
       \/ At(e, "AURORA_WAIT") /\ GoTo(e, "AURORA_CONFIRM_LOOP")
       \/ /\ At(e, "AURORA_GATE_DECISION")
          /\ GoTo(e, IF input[e].aurora /\ input[e].manual THEN "AURORA_GATE_PAUSE"
                     ELSE IF input[e].aurora THEN "AURORA_CONFIRM_LOOP" ELSE "POSTCHECK")
    /\ UNCHANGED <<role, control, writer, sns, audit>>

\* PRECHECK: executor_precheck's two checks are stubs that always pass; it
\* writes its executor-run record, dry run or not, and an error of that write
\* fails the attempt.  Failover retries only Lambda service errors: an error
\* raised by the function goes to FAIL at once.
Precheck(e) ==
    /\ At(e, "PRECHECK")
    /\ \/ /\ audit' = audit \cup {e}
          /\ GoTo(e, "NOTIFY_INITIATED")
       \/ /\ audit' \in {audit, audit \cup {e}}
          /\ TaskError(e)
       \/ /\ "task" \in Faults /\ input[e].machine = "failover"
          /\ audit' \in {audit, audit \cup {e}}
          /\ GoTo(e, "FAIL")
    /\ UNCHANGED <<role, control, writer, sns>>

NotifyInitiated(e) ==
    /\ At(e, "NOTIFY_INITIATED")
    /\ \/ Publish(e, "initiated") /\ GoTo(e, "DRAIN_SOURCE")
       \/ (UNCHANGED sns \/ Publish(e, "initiated")) /\ TaskError(e)
    /\ UNCHANGED <<role, control, writer, audit>>

(***************************************************************************)
(* The three Task states that invoke indicator_updater through the SDK     *)
(* integration: the write lands and the state moves on; the attempt fails, *)
(* with the write landed or not; or the function raises, which Invoke      *)
(* reports as FunctionError in a successful response: ResultSelector keeps *)
(* only the payload, so neither Retry nor Catch sees the error.            *)
(***************************************************************************)
InvokeUpdater(e, s, r, value, next) ==
    /\ At(e, s)
    /\ \/ WriteRole(e, r, value) /\ GoTo(e, next)
       \/ (UNCHANGED role \/ WriteRole(e, r, value)) /\ TaskError(e)
       \/ "silent" \in Faults /\ UNCHANGED role /\ GoTo(e, next)
    /\ UNCHANGED <<control, writer, sns, audit>>

\* Mutants: the Catch of DRAIN_SOURCE continues; it drains the wrong region.
DrainBestEffort(e) ==
    \/ InvokeUpdater(e, "DRAIN_SOURCE", input[e].source, "DRAINING", "WAIT_DRAIN")
    \/ /\ At(e, "DRAIN_SOURCE") /\ "task" \in Faults /\ RetriesExhausted(e)
       /\ GoTo(e, "WAIT_DRAIN")
       /\ UNCHANGED <<role, control, writer, sns, audit>>

DrainTarget(e) ==
    InvokeUpdater(e, "DRAIN_SOURCE", input[e].target, "DRAINING", "WAIT_DRAIN")

DrainSource(e) ==
    InvokeUpdater(e, "DRAIN_SOURCE", input[e].source, "DRAINING", "WAIT_DRAIN")

PromoteTarget(e) ==
    InvokeUpdater(e, "PROMOTE_TARGET", input[e].target, "ACTIVE", "AURORA_GATE_DECISION")

\* Mutants: the Catch of DEMOTE_SOURCE continues; it demotes the wrong region.
DemoteBestEffort(e) ==
    \/ InvokeUpdater(e, "DEMOTE_SOURCE", input[e].source, "PASSIVE", "NOTIFY_COMPLETED")
    \/ /\ At(e, "DEMOTE_SOURCE") /\ "task" \in Faults /\ RetriesExhausted(e)
       /\ GoTo(e, "NOTIFY_COMPLETED")
       /\ UNCHANGED <<role, control, writer, sns, audit>>

DemoteTarget(e) ==
    InvokeUpdater(e, "DEMOTE_SOURCE", input[e].target, "PASSIVE", "NOTIFY_COMPLETED")

DemoteSource(e) ==
    InvokeUpdater(e, "DEMOTE_SOURCE", input[e].source, "PASSIVE", "NOTIFY_COMPLETED")

\* Mutant: both directions flip the metric of the region they leave.
FlippedSource(i) == i.source

\* executor_flip_r53_metric: failover trips its source region's control
\* metric (0.0), failback clears its target region's (1.0).
FlippedRegion(i) == IF i.machine = "failover" THEN i.source ELSE i.target
FlipValue(i) == IF i.machine = "failover" THEN "trip" ELSE "clear"

\* Mutant: a dry run emits the metric.
EmitControlAlways(e) ==
    control' = [control EXCEPT ![input[e].home][FlippedRegion(input[e])] = FlipValue(input[e])]

EmitControl(e) ==
    control' = IF input[e].dry_run THEN control
               ELSE [control EXCEPT
                        ![input[e].home][FlippedRegion(input[e])] = FlipValue(input[e])]

\* Mutant: the Catch of FLIP_R53_CONTROL_METRIC continues.
FlipBestEffort(e) ==
    /\ At(e, "FLIP_R53_CONTROL_METRIC")
    /\ \/ EmitControl(e) /\ GoTo(e, "WAIT_R53_PROPAGATION")
       \/ UNCHANGED control /\ GoTo(e, "WAIT_R53_PROPAGATION")
    /\ UNCHANGED <<role, writer, sns, audit>>

FlipR53ControlMetric(e) ==
    /\ At(e, "FLIP_R53_CONTROL_METRIC")
    /\ \/ EmitControl(e) /\ GoTo(e, "WAIT_R53_PROPAGATION")
       \/ (UNCHANGED control \/ EmitControl(e)) /\ TaskError(e)
    /\ UNCHANGED <<role, writer, sns, audit>>

-----------------------------------------------------------------------------
\* AURORA_GATE_PAUSE publishes the task token (a dry run too) and waits.  It
\* has no Retry, and its Catch does not name a failed publish.
GatePaused(e) == At(e, "AURORA_GATE_PAUSE") /\ <<e, "gate_paused">> \in sns

AuroraGatePause(e) ==
    /\ At(e, "AURORA_GATE_PAUSE") /\ ~GatePaused(e)
    /\ \/ sns' = sns \cup {<<e, "gate_paused">>} /\ UNCHANGED execVars
       \/ "task" \in Faults /\ UNCHANGED sns /\ End(e, "FAILED")
    /\ UNCHANGED <<role, control, writer, audit>>

\* Mutant: an abort undoes the promotion.
AbortRollsBack(e) ==
    /\ GatePaused(e)
    /\ WriteRole(e, input[e].target, "DRAINING")
    /\ GoTo(e, "FAIL")
    /\ UNCHANGED <<control, writer, sns, audit>>

\* approval_callback: SendTaskSuccess, or SendTaskFailure(OperatorAbort).  A
\* token whose wait has ended is refused by Step Functions: no step here.
Approve(e) ==
    /\ GatePaused(e)
    /\ GoTo(e, "AURORA_CONFIRM_LOOP")
    /\ UNCHANGED <<role, control, writer, sns, audit>>

Abort(e) ==
    /\ GatePaused(e)
    /\ GoTo(e, "FAIL")
    /\ UNCHANGED <<role, control, writer, sns, audit>>

\* States.Timeout after TimeoutSecondsPath seconds.
GateTimeout(e) ==
    /\ GatePaused(e)
    /\ GoTo(e, "FAIL")
    /\ UNCHANGED <<role, control, writer, sns, audit>>

\* executor_aurora_confirm's evaluate: the writer has moved to the target; how
\* far the replicas lag, which may deny it all the same, is left open.
WriterConfirmed(e) == writer = input[e].target

(***************************************************************************)
(* One poll of executor_aurora_confirm and the Choice on its answer, which *)
(* only e can see.  When the input lacks the two fields the Parameters     *)
(* cannot be resolved: depending on how the service classes that error,    *)
(* the execution fails outright (States.Runtime, which no Catch sees) or   *)
(* goes to FAIL.                                                           *)
(***************************************************************************)
AuroraConfirm(e) ==
    /\ At(e, "AURORA_CONFIRM_LOOP")
    /\ \/ /\ input[e].confirm_fields
          /\ \/ WriterConfirmed(e) /\ GoTo(e, "POSTCHECK")
             \/ GoTo(e, "AURORA_WAIT")
             \/ TaskError(e)
       \/ /\ ~input[e].confirm_fields
          /\ End(e, "FAILED") \/ GoTo(e, "FAIL")
    /\ UNCHANGED <<role, control, writer, sns, audit>>

\* executor_postcheck: the checks are stubs that always pass.
Postcheck(e) ==
    /\ At(e, "POSTCHECK")
    /\ GoTo(e, "DEMOTE_SOURCE") \/ TaskError(e)
    /\ UNCHANGED <<role, control, writer, sns, audit>>

\* NOTIFY_COMPLETED has a Retry and no Catch; STABLE is a Succeed state.
NotifyCompleted(e) ==
    /\ At(e, "NOTIFY_COMPLETED")
    /\ \/ /\ Publish(e, "completed")
          /\ pc' = [pc EXCEPT ![e] = "STABLE"]
          /\ attempts' = [attempts EXCEPT ![e] = 0]
          /\ status' = [status EXCEPT ![e] = "SUCCEEDED"]
          /\ UNCHANGED <<input, promoted>>
       \/ /\ "task" \in Faults
          /\ UNCHANGED sns \/ Publish(e, "completed")
          /\ RetryTask(e) \/ (RetriesExhausted(e) /\ End(e, "FAILED"))
    /\ UNCHANGED <<role, control, writer, audit>>

\* Mutant: FAIL gets a Catch that ends the execution.
FailBestEffort(e) ==
    /\ At(e, "FAIL")
    /\ \/ Publish(e, "failed") /\ End(e, "SUCCEEDED")
       \/ "task" \in Faults /\ UNCHANGED sns /\ End(e, "SUCCEEDED")
    /\ UNCHANGED <<role, control, writer, audit>>

\* FAIL is a Task with "End": true, so the execution it ends SUCCEEDED,
\* unless the notification itself fails (no Retry, no Catch).
Fail(e) ==
    /\ At(e, "FAIL")
    /\ \/ Publish(e, "failed") /\ End(e, "SUCCEEDED")
       \/ /\ "task" \in Faults
          /\ UNCHANGED sns \/ Publish(e, "failed")
          /\ End(e, "FAILED")
    /\ UNCHANGED <<role, control, writer, audit>>

-----------------------------------------------------------------------------
(***************************************************************************)
(* TimeoutSeconds 3600 of the whole execution.  With the profile's bounds  *)
(* (waits of at most 600 s, a gate of at most 240 s, at most four attempts *)
(* of a 30 s Lambda) no execution is that old before the Aurora gate is    *)
(* decided, so the timeout can only strike in the states after it.         *)
(***************************************************************************)
LateStates == {"AURORA_CONFIRM_LOOP", "AURORA_WAIT", "POSTCHECK", "DEMOTE_SOURCE",
               "NOTIFY_COMPLETED", "FAIL"}

\* Mutant: the timeout does not reach the confirmation loop.
TimeoutOutsideLoop(e) ==
    /\ Running(e) /\ pc[e] \in LateStates \ {"AURORA_CONFIRM_LOOP", "AURORA_WAIT"}
    /\ End(e, "TIMED_OUT")
    /\ UNCHANGED <<role, control, writer, sns, audit>>

ExecutionTimeout(e) ==
    /\ Running(e) /\ pc[e] \in LateStates
    /\ End(e, "TIMED_OUT")
    /\ UNCHANGED <<role, control, writer, sns, audit>>

\* stop-execution, by an operator or by scripts/scenario_reset.sh.
StopExecution(e) ==
    /\ "stop" \in Faults
    /\ Running(e)
    /\ End(e, "ABORTED")
    /\ UNCHANGED <<role, control, writer, sns, audit>>

\* failoverctl drain --region h: indicator_updater invoked directly, no execution.
ManualDrain(h) ==
    /\ "drain" \in Faults
    /\ role' = [role EXCEPT ![h][h] = "DRAINING"]
    /\ UNCHANGED <<execVars, control, writer, sns, audit>>

\* The operator promotes the Aurora cluster of a region, at any time; the
\* global cluster has no writer while the promotion runs.
MoveWriter ==
    /\ "writer" \in Faults
    /\ writer' \in (Regions \cup {None}) \ {writer}
    /\ UNCHANGED <<execVars, role, control, sns, audit>>

\* Everything Step Functions does by itself for e.
Step(e) ==
    \/ PassState(e) \/ Precheck(e) \/ NotifyInitiated(e)
    \/ DrainSource(e) \/ FlipR53ControlMetric(e) \/ PromoteTarget(e)
    \/ AuroraGatePause(e) \/ AuroraConfirm(e)
    \/ Postcheck(e) \/ DemoteSource(e) \/ NotifyCompleted(e) \/ Fail(e)

\* What people do.
Operate(e) == Approve(e) \/ Abort(e) \/ StopExecution(e)

Next ==
    \/ \E e \in Execs : \/ \E i \in Inputs : StartExecution(e, i)
                        \/ Step(e) \/ GateTimeout(e) \/ ExecutionTimeout(e)
                        \/ Operate(e)
    \/ \E h \in Regions : ManualDrain(h)
    \/ MoveWriter

Spec == Init /\ [][Next]_vars

\* Step Functions keeps executing the states of a running execution and
\* enforces its timeouts; operators and faults are not fair.
FairSpec ==
    /\ Spec
    /\ \A e \in Execs : /\ WF_vars(Step(e))
                        /\ WF_vars(GateTimeout(e))
                        /\ WF_vars(ExecutionTimeout(e))

-----------------------------------------------------------------------------
TypeOK ==
    /\ pc \in [Execs -> StateNames \cup {NotStarted}]
    /\ status \in [Execs -> Statuses]
    /\ input \in [Execs -> Inputs \cup {NoInput}]
    /\ attempts \in [Execs -> 0..MaxAttempts]
    /\ role \in [Regions -> [Regions -> Role \cup {None}]]
    /\ control \in [Regions -> [Regions -> {None, "trip", "clear"}]]
    /\ writer \in Regions \cup {None}
    /\ sns \subseteq Execs \X Events
    /\ audit \subseteq Execs /\ promoted \subseteq Execs

-----------------------------------------------------------------------------
(***************************************************************************)
(* Safety.                                                                 *)
(***************************************************************************)
\* No SSM store ever shows both regions ACTIVE (indicator_writer's promise),
\* over every sequence of executions, failed, stopped and timed-out ones
\* included, and of manual drains.
OneActive ==
    \A h \in Regions : ~(role[h][Primary] = "ACTIVE" /\ role[h][Secondary] = "ACTIVE")

\* When an execution is about to promote its target, its source has been
\* drained and the control metric has been flipped (SPEC 5.1 and 6.1 steps 4 to
\* 7).  It speaks of the role and of the metric; what Route 53 makes of the
\* metric is Orchestrator's TrafficFollowsPromotion.
PromotionIsSafe ==
    \A e \in Execs : At(e, "PROMOTE_TARGET") /\ ~input[e].dry_run =>
        LET i == input[e]
        IN  /\ role[i.home][i.source] = "DRAINING"
            /\ control[i.home][FlippedRegion(i)] = FlipValue(i)

\* "completed" is only ever announced while the target is ACTIVE and the
\* source PASSIVE: no earlier step was skipped, lost or undone on the way.
CompletionIsTruthful ==
    [][\A e \in Execs : <<e, "completed">> \in sns' \ sns =>
           LET i == input[e]
           IN  role[i.home][i.target] = "ACTIVE" /\ role[i.home][i.source] = "PASSIVE"]_vars

\* Every change of a role or of the control metric is made by a running,
\* non-dry execution of that store's region, for one of its own two regions,
\* after its record reached the audit bucket, or is the DRAINING of an operator's
\* drain, which no execution has a part in; never by anything else.
ChangesAreAccountable ==
    [][\A h, r \in Regions :
           role'[h][r] # role[h][r] \/ control'[h][r] # control[h][r] =>
               \/ \E e \in audit : /\ Running(e) /\ ~input[e].dry_run
                                   /\ input[e].home = h
                                   /\ r \in {input[e].source, input[e].target}
               \/ r = h /\ ManualDrain(h)]_vars

\* Since a failed execution also ends SUCCEEDED, its message is all that tells
\* it from a completed one: the operator has been sent exactly the message that
\* is true, whatever was retried on the way.
OutcomeIsTold ==
    \A e \in Execs : status[e] = "SUCCEEDED" /\ ~input[e].dry_run =>
        /\ pc[e] = "STABLE" <=> <<e, "completed">> \in sns
        /\ pc[e] = "FAIL" <=> <<e, "failed">> \in sns

\* Once an execution has promoted its target, that store's target stays
\* ACTIVE until the execution ends: nothing it does later takes the application
\* down again, not the gate (its wait, its abort, its timeout racing an
\* approval), not a retry, and not FAIL.
PromotionHolds ==
    \A e \in promoted :
        Running(e) /\ ~input[e].dry_run => role[input[e].home][input[e].target] = "ACTIVE"

\* Each region's store follows the abstract indicator protocol: a region
\* becomes ACTIVE only when the other is not, and is made PASSIVE only when it
\* is not ACTIVE.
PrimaryStore == INSTANCE RegionalRole WITH Region <- Regions, role <- role[Primary]
SecondaryStore == INSTANCE RegionalRole WITH Region <- Regions, role <- role[Secondary]

PrimaryStoreImplements == PrimaryStore!Spec
SecondaryStoreImplements == SecondaryStore!Spec

(***************************************************************************)
(* Liveness: an execution ends, whatever fails and whoever fails to        *)
(* answer: the gate's timeout, bounded retries and the execution's own     *)
(* timeout leave no state to wait in for ever.                             *)
(***************************************************************************)
Termination == \A e \in Execs : Running(e) ~> ~Running(e)

(***************************************************************************)
(* Statements of the documentation that the workflow does not meet.        *)
(***************************************************************************)
\* An approved execution whose writer is in the target region completes,
\* unless its hour runs out.
WriterInTarget(e) == status[e] # NotStarted /\ writer = input[e].target

ApprovedCompletes ==
    \A e \in Execs : pc[e] = "AURORA_CONFIRM_LOOP" /\ WriterInTarget(e)
                         ~> \/ pc[e] = "STABLE" \/ status[e] = "TIMED_OUT"
                            \/ ~WriterInTarget(e)
=============================================================================
