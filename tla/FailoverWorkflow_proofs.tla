----------------------- MODULE FailoverWorkflow_proofs -----------------------
(***************************************************************************)
(* Theorems about FailoverWorkflow, for every set of executions, every     *)
(* pair of regions, every set of inputs and every retry bound.             *)
(***************************************************************************)
EXTENDS FailoverWorkflow, TLAPS

(***************************************************************************)
(* Type correctness.                                                       *)
(***************************************************************************)
ExecTypeOK ==
    /\ pc \in [Execs -> StateNames \cup {NotStarted}]
    /\ status \in [Execs -> Statuses]
    /\ input \in [Execs -> Inputs \cup {NoInput}]
    /\ attempts \in [Execs -> 0..MaxAttempts]
    /\ promoted \subseteq Execs

\* The ways a step changes the executions keep their types.
LEMMA GoToType ==
    ASSUME ExecTypeOK, NEW e \in Execs, NEW s \in StateNames, GoTo(e, s)
    PROVE  ExecTypeOK'
BY WorkflowAssumption, SMT DEF ExecTypeOK, GoTo

LEMMA EndType ==
    ASSUME ExecTypeOK, NEW e \in Execs, NEW s \in Statuses, End(e, s)
    PROVE  ExecTypeOK'
BY SMT DEF ExecTypeOK, End

LEMMA RetryType ==
    ASSUME ExecTypeOK, NEW e \in Execs, RetryTask(e)
    PROVE  ExecTypeOK'
BY WorkflowAssumption, SMT DEF ExecTypeOK, RetryTask

LEMMA TaskErrorType ==
    ASSUME ExecTypeOK, NEW e \in Execs, TaskError(e)
    PROVE  ExecTypeOK'
<1>1. "FAIL" \in StateNames
  BY DEF StateNames
<1>2. CASE RetryTask(e)
  BY <1>2, RetryType
<1>3. CASE GoTo(e, "FAIL")
  BY <1>1, <1>3, GoToType
<1> QED
  BY <1>2, <1>3 DEF TaskError

\* Overwriting one entry of a store, of whichever home and region.
LEMMA OverwriteType ==
    ASSUME NEW V, NEW f \in [Regions -> [Regions -> V]], NEW h, NEW r, NEW v \in V
    PROVE  [f EXCEPT ![h][r] = v] \in [Regions -> [Regions -> V]]
<1>1. CASE h \in Regions
  <2>1. [f[h] EXCEPT ![r] = v] \in [Regions -> V]
    BY <1>1
  <2> QED
    BY <1>1, <2>1
<1>2. CASE h \notin Regions
  BY <1>2
<1> QED
  BY <1>1, <1>2

LEMMA WriteRoleType ==
    ASSUME TypeOK, NEW e \in Execs, NEW r, NEW value \in Role, WriteRole(e, r, value)
    PROVE  role' \in [Regions -> [Regions -> Role \cup {None}]]
BY OverwriteType DEF TypeOK, WriteRole

LEMMA PublishType ==
    ASSUME TypeOK, NEW e \in Execs, NEW event \in Events, Publish(e, event)
    PROVE  sns' \subseteq Execs \X Events
BY SMT DEF TypeOK, Publish

\* The three states that invoke indicator_updater.
LEMMA InvokeUpdaterType ==
    ASSUME TypeOK, NEW e \in Execs, NEW s, NEW r, NEW value \in Role,
           NEW next \in StateNames, InvokeUpdater(e, s, r, value, next)
    PROVE  TypeOK'
<1> USE DEF InvokeUpdater
<1>1. ExecTypeOK'
  BY GoToType, TaskErrorType DEF TypeOK, ExecTypeOK
<1>2. role' \in [Regions -> [Regions -> Role \cup {None}]]
  BY WriteRoleType DEF TypeOK
<1> QED
  BY <1>1, <1>2 DEF TypeOK, ExecTypeOK

\* What Step Functions does by itself.
LEMMA StepType ==
    ASSUME TypeOK, NEW e \in Execs, Step(e)
    PROVE  TypeOK'
<1> USE DEF TypeOK, ExecTypeOK
<1>1. CASE PassState(e)
  <2>1. \E s \in StateNames : GoTo(e, s)
    BY <1>1 DEF PassState, StateNames
  <2> QED
    BY <1>1, <2>1, GoToType DEF PassState
<1>2. CASE Precheck(e)
  <2>1. ExecTypeOK'
    BY <1>2, GoToType, TaskErrorType DEF Precheck, StateNames
  <2> QED
    BY <1>2, <2>1 DEF Precheck
<1>3. CASE NotifyInitiated(e)
  <2>1. ExecTypeOK'
    BY <1>3, GoToType, TaskErrorType DEF NotifyInitiated, StateNames
  <2>2. sns' \subseteq Execs \X Events
    BY <1>3, PublishType DEF NotifyInitiated, Events
  <2> QED
    BY <1>3, <2>1, <2>2 DEF NotifyInitiated
<1>4. CASE DrainSource(e)
  BY <1>4, InvokeUpdaterType DEF DrainSource, Role, StateNames
<1>5. CASE FlipR53ControlMetric(e)
  <2>1. ExecTypeOK'
    BY <1>5, GoToType, TaskErrorType DEF FlipR53ControlMetric, StateNames
  <2>2. control' \in [Regions -> [Regions -> {None, "trip", "clear"}]]
    <3>1. FlipValue(input[e]) \in {None, "trip", "clear"}
      BY DEF FlipValue
    <3>2. [control EXCEPT ![input[e].home][FlippedRegion(input[e])] = FlipValue(input[e])]
              \in [Regions -> [Regions -> {None, "trip", "clear"}]]
      BY <3>1, OverwriteType
    <3> QED
      BY <1>5, <3>2 DEF FlipR53ControlMetric, EmitControl
  <2> QED
    BY <1>5, <2>1, <2>2 DEF FlipR53ControlMetric
<1>6. CASE PromoteTarget(e)
  BY <1>6, InvokeUpdaterType DEF PromoteTarget, Role, StateNames
<1>7. CASE AuroraGatePause(e)
  <2>1. ExecTypeOK'
    BY <1>7, EndType DEF AuroraGatePause, Statuses, execVars
  <2> QED
    BY <1>7, <2>1 DEF AuroraGatePause, Events
<1>8. CASE AuroraConfirm(e)
  <2>1. ExecTypeOK'
    BY <1>8, GoToType, EndType, TaskErrorType DEF AuroraConfirm, StateNames, Statuses
  <2> QED
    BY <1>8, <2>1 DEF AuroraConfirm
<1>9. CASE Postcheck(e)
  <2>1. ExecTypeOK'
    BY <1>9, GoToType, TaskErrorType DEF Postcheck, StateNames
  <2> QED
    BY <1>9, <2>1 DEF Postcheck
<1>10. CASE DemoteSource(e)
  BY <1>10, InvokeUpdaterType DEF DemoteSource, Role, StateNames
<1>11. CASE NotifyCompleted(e)
  <2>1. ExecTypeOK'
    <3>1. CASE Publish(e, "completed") /\ UNCHANGED <<input, promoted>> /\ status' = [status EXCEPT ![e] = "SUCCEEDED"]
               /\ pc' = [pc EXCEPT ![e] = "STABLE"] /\ attempts' = [attempts EXCEPT ![e] = 0]
      BY <3>1, WorkflowAssumption DEF StateNames, Statuses
    <3> QED
      BY <1>11, <3>1, RetryType, EndType DEF NotifyCompleted, Statuses
  <2>2. sns' \subseteq Execs \X Events
    BY <1>11, PublishType DEF NotifyCompleted, Events
  <2> QED
    BY <1>11, <2>1, <2>2 DEF NotifyCompleted
<1>12. CASE Fail(e)
  <2>1. ExecTypeOK'
    BY <1>12, EndType DEF Fail, Statuses
  <2>2. sns' \subseteq Execs \X Events
    BY <1>12, PublishType DEF Fail, Events
  <2> QED
    BY <1>12, <2>1, <2>2 DEF Fail
<1> QED
  BY <1>1, <1>2, <1>3, <1>4, <1>5, <1>6, <1>7, <1>8, <1>9, <1>10, <1>11, <1>12 DEF Step

\* Every step, of anyone.
LEMMA NextType == TypeOK /\ [Next]_vars => TypeOK'
<1> SUFFICES ASSUME TypeOK, [Next]_vars PROVE TypeOK'
  OBVIOUS
<1> USE DEF TypeOK, ExecTypeOK
<1>1. ASSUME NEW e \in Execs, NEW i \in Inputs, StartExecution(e, i) PROVE TypeOK'
  BY <1>1 DEF StartExecution, StateNames, Statuses
<1>2. ASSUME NEW e \in Execs, Step(e) PROVE TypeOK'
  BY <1>2, StepType
<1>3. ASSUME NEW e \in Execs, Approve(e) \/ Abort(e) \/ GateTimeout(e) PROVE TypeOK'
  <2>1. ExecTypeOK'
    BY <1>3, GoToType DEF Approve, Abort, GateTimeout, StateNames
  <2> QED
    BY <1>3, <2>1 DEF Approve, Abort, GateTimeout
<1>4. ASSUME NEW e \in Execs, ExecutionTimeout(e) \/ StopExecution(e) PROVE TypeOK'
  <2>1. ExecTypeOK'
    BY <1>4, EndType DEF ExecutionTimeout, StopExecution, Statuses
  <2> QED
    BY <1>4, <2>1 DEF ExecutionTimeout, StopExecution
<1>5. ASSUME NEW h \in Regions, ManualDrain(h) PROVE TypeOK'
  <2>1. role' \in [Regions -> [Regions -> Role \cup {None}]]
    BY <1>5, OverwriteType DEF ManualDrain, Role
  <2> QED
    BY <1>5, <2>1 DEF ManualDrain, execVars
<1>6. CASE MoveWriter
  BY <1>6 DEF MoveWriter, execVars
<1>7. CASE UNCHANGED vars
  BY <1>7 DEF vars
<1> QED
  BY <1>1, <1>2, <1>3, <1>4, <1>5, <1>6, <1>7 DEF Next, Operate

LEMMA InitType == Init => TypeOK
BY WorkflowAssumption DEF Init, NothingRan, PrimaryStoreHolds, TypeOK, StateNames, Statuses, Role, Regions, NotStarted, None

\* Every variable keeps its type: in particular a Retry never exceeds
\* MaxAttempts and an execution never leaves the states of its definition.
THEOREM TypeCorrect == Spec => []TypeOK
BY InitType, NextType, PTL DEF Spec

-----------------------------------------------------------------------------
(***************************************************************************)
(* One ACTIVE region per store, when executions never overlap and no       *)
(* failure of indicator_updater is swallowed.  OneActive is not inductive: *)
(* PROMOTE_TARGET is harmless only because the same execution has drained  *)
(* its source and nobody else has promoted it since, so the invariant adds *)
(* what holds from DRAIN_SOURCE on, and that no other execution runs.      *)
(***************************************************************************)
Cautious == Exclusive /\ "silent" \notin Faults

StartedWithInput == \A e \in Execs : status[e] # NotStarted => input[e] \in Inputs

OneRunning == \A e, f \in Execs : Running(e) /\ Running(f) => e = f

\* The states between a successful drain of the source and its demotion.
Drained == {"WAIT_DRAIN", "QUIESCE", "FLIP_R53_CONTROL_METRIC", "WAIT_R53_PROPAGATION",
            "PROMOTE_TARGET", "AURORA_GATE_DECISION", "AURORA_GATE_PAUSE",
            "AURORA_CONFIRM_LOOP", "AURORA_WAIT", "POSTCHECK"}

\* What e's store shows in the states that follow e's own changes to it.
SourceIsDrained(e) ==
    Running(e) /\ ~input[e].dry_run =>
        /\ pc[e] \in Drained => role[input[e].home][input[e].source] = "DRAINING"
        /\ pc[e] = "DEMOTE_SOURCE" =>
               role[input[e].home][input[e].source] \in {"DRAINING", "PASSIVE"}

MetricIsFlipped(e) ==
    Running(e) /\ ~input[e].dry_run /\ pc[e] \in {"WAIT_R53_PROPAGATION", "PROMOTE_TARGET"} =>
        control[input[e].home][FlippedRegion(input[e])] = FlipValue(input[e])

HandoverInv ==
    /\ TypeOK
    /\ StartedWithInput
    /\ OneRunning
    /\ OneActive
    /\ \A e \in Execs : SourceIsDrained(e) /\ MetricIsFlipped(e)

\* A step of a running execution changes nothing of the others.
Alone(e) ==
    /\ Running(e)
    /\ input' = input
    /\ status'[e] # NotStarted
    /\ \A f \in Execs \ {e} : status'[f] = status[f] /\ pc'[f] = pc[f]

LEMMA GoToAlone ==
    ASSUME TypeOK, NEW e \in Execs, NEW s, Running(e), GoTo(e, s)
    PROVE  Alone(e) /\ status' = status /\ pc'[e] = s
BY DEF TypeOK, GoTo, Running, Alone, NotStarted

LEMMA EndAlone ==
    ASSUME TypeOK, NEW e \in Execs, NEW s \in Statuses \ {NotStarted, "RUNNING"},
           Running(e), End(e, s)
    PROVE  Alone(e) /\ ~Running(e)'
BY DEF TypeOK, End, Running, Alone

LEMMA TaskErrorAlone ==
    ASSUME TypeOK, NEW e \in Execs, Running(e), TaskError(e)
    PROVE  Alone(e) /\ status' = status /\ (pc'[e] = pc[e] \/ pc'[e] = "FAIL")
<1>1. CASE RetryTask(e)
  BY <1>1 DEF RetryTask, Running, Alone, NotStarted
<1>2. CASE GoTo(e, "FAIL")
  BY <1>2, GoToAlone
<1> QED
  BY <1>1, <1>2 DEF TaskError

\* It is enough to follow the execution that steps.
LEMMA AloneSuffices ==
    ASSUME HandoverInv, NEW e \in Execs, Alone(e), TypeOK', OneActive',
           SourceIsDrained(e)', MetricIsFlipped(e)'
    PROVE  HandoverInv'
<1>1. \A f \in Execs \ {e} : ~Running(f)'
  BY DEF HandoverInv, OneRunning, Running, Alone
<1>2. StartedWithInput'
  BY DEF HandoverInv, StartedWithInput, Alone, Running, NotStarted
<1>3. OneRunning'
  BY <1>1 DEF OneRunning
<1>4. ASSUME NEW f \in Execs PROVE SourceIsDrained(f)' /\ MetricIsFlipped(f)'
  BY <1>1 DEF SourceIsDrained, MetricIsFlipped
<1> QED
  BY <1>2, <1>3, <1>4 DEF HandoverInv

\* A step that touches neither store nor metric and does not enter the part
\* of the workflow that relies on them.
LEMMA QuietStep ==
    ASSUME HandoverInv, NEW e \in Execs, Alone(e), TypeOK',
           UNCHANGED <<role, control>>,
           \/ ~Running(e)'
           \/ pc'[e] = pc[e]
           \/ pc'[e] \in Drained /\ pc[e] \in Drained /\ pc'[e] # "WAIT_R53_PROPAGATION"
                 /\ (pc'[e] = "PROMOTE_TARGET" => pc[e] = "WAIT_R53_PROPAGATION")
           \/ pc'[e] = "DEMOTE_SOURCE" /\ pc[e] \in Drained
           \/ pc'[e] \notin Drained \cup {"DEMOTE_SOURCE"}
    PROVE  HandoverInv'
<1>1. OneActive'
  BY DEF HandoverInv, OneActive
<1>2. SourceIsDrained(e)'
  BY DEF HandoverInv, SourceIsDrained, Alone, Drained
<1>3. MetricIsFlipped(e)'
  BY DEF HandoverInv, MetricIsFlipped, Alone, Drained
<1> QED
  BY <1>1, <1>2, <1>3, AloneSuffices

\* What the input of a running execution is known to be.
LEMMA RunningInput ==
    ASSUME HandoverInv, NEW e \in Execs, Running(e)
    PROVE  /\ input[e].home \in Regions
           /\ input[e].source \in Regions /\ input[e].target \in Regions
           /\ input[e].source # input[e].target
           /\ input[e].dry_run \in BOOLEAN
           /\ input[e].machine \in {"failover", "failback"}
<1>1. input[e] \in Inputs
  BY DEF HandoverInv, StartedWithInput, Running, NotStarted
<1> QED
  BY <1>1, WorkflowAssumption DEF Input

\* What a write of indicator_updater leaves in the stores.
LEMMA WriteEffect ==
    ASSUME HandoverInv, NEW e \in Execs, Running(e), NEW r \in Regions, NEW value,
           WriteRole(e, r, value), ~input[e].dry_run
    PROVE  /\ role'[input[e].home][r] = value
           /\ \A h, q \in Regions : h # input[e].home \/ q # r => role'[h][q] = role[h][q]
BY RunningInput DEF WriteRole, HandoverInv, TypeOK

LEMMA DryRunWritesNothing ==
    ASSUME NEW e \in Execs, NEW r, NEW value, WriteRole(e, r, value), input[e].dry_run
    PROVE  role' = role
BY DEF WriteRole

LEMMA DrainSourceStep ==
    ASSUME HandoverInv, NEW e \in Execs, DrainSource(e), TypeOK', "silent" \notin Faults
    PROVE  HandoverInv'
<1> DEFINE i == input[e]
<1>0. Running(e) /\ pc[e] = "DRAIN_SOURCE" /\ UNCHANGED control
  BY DEF DrainSource, InvokeUpdater, At
<1>1. \/ WriteRole(e, i.source, "DRAINING") /\ GoTo(e, "WAIT_DRAIN")
      \/ WriteRole(e, i.source, "DRAINING") /\ TaskError(e)
      \/ UNCHANGED role /\ TaskError(e)
  BY DEF DrainSource, InvokeUpdater
<1>2. Alone(e) /\ status' = status
  BY <1>0, <1>1, GoToAlone, TaskErrorAlone DEF HandoverInv
<1>3. pc'[e] \in {"WAIT_DRAIN", "DRAIN_SOURCE", "FAIL"}
  BY <1>0, <1>1, GoToAlone, TaskErrorAlone DEF HandoverInv
<1>4. pc'[e] = "WAIT_DRAIN" => WriteRole(e, i.source, "DRAINING")
  BY <1>0, <1>1, TaskErrorAlone DEF HandoverInv
<1>5. OneActive'
  <2>1. CASE UNCHANGED role
    BY <2>1 DEF HandoverInv, OneActive
  <2>2. CASE WriteRole(e, i.source, "DRAINING") /\ ~i.dry_run
    BY <1>0, <2>2, WriteEffect, RunningInput DEF HandoverInv, OneActive, Regions
  <2> QED
    BY <1>1, <2>1, <2>2, DryRunWritesNothing
<1>6. SourceIsDrained(e)'
  <2>1. pc'[e] = "WAIT_DRAIN" /\ ~i.dry_run => role'[i.home][i.source] = "DRAINING"
    BY <1>0, <1>4, WriteEffect, RunningInput
  <2> QED
    BY <1>2, <1>3, <2>1 DEF SourceIsDrained, Alone, Drained
<1>7. MetricIsFlipped(e)'
  BY <1>3 DEF MetricIsFlipped
<1> QED
  BY <1>2, <1>5, <1>6, <1>7, AloneSuffices

LEMMA PromoteTargetStep ==
    ASSUME HandoverInv, NEW e \in Execs, PromoteTarget(e), TypeOK', "silent" \notin Faults
    PROVE  HandoverInv'
<1> DEFINE i == input[e]
<1>0. Running(e) /\ pc[e] = "PROMOTE_TARGET" /\ UNCHANGED control
  BY DEF PromoteTarget, InvokeUpdater, At
<1>1. \/ WriteRole(e, i.target, "ACTIVE") /\ GoTo(e, "AURORA_GATE_DECISION")
      \/ WriteRole(e, i.target, "ACTIVE") /\ TaskError(e)
      \/ UNCHANGED role /\ TaskError(e)
  BY DEF PromoteTarget, InvokeUpdater
<1>2. Alone(e) /\ status' = status
  BY <1>0, <1>1, GoToAlone, TaskErrorAlone DEF HandoverInv
<1>3. pc'[e] \in {"AURORA_GATE_DECISION", "PROMOTE_TARGET", "FAIL"}
  BY <1>0, <1>1, GoToAlone, TaskErrorAlone DEF HandoverInv
<1>4. ~i.dry_run => role[i.home][i.source] = "DRAINING"
  BY <1>0 DEF HandoverInv, SourceIsDrained, Drained
<1>5. \/ UNCHANGED role
      \/ WriteRole(e, i.target, "ACTIVE") /\ ~i.dry_run
  BY <1>1, DryRunWritesNothing
<1>6. ~i.dry_run => role'[i.home][i.source] = "DRAINING"
  BY <1>0, <1>4, <1>5, WriteEffect, RunningInput
<1>7. OneActive'
  <2>1. CASE UNCHANGED role
    BY <2>1 DEF HandoverInv, OneActive
  <2>2. CASE WriteRole(e, i.target, "ACTIVE") /\ ~i.dry_run
    BY <1>0, <1>6, <2>2, WriteEffect, RunningInput DEF HandoverInv, OneActive, Regions
  <2> QED
    BY <1>5, <2>1, <2>2
<1>8. SourceIsDrained(e)'
  BY <1>2, <1>3, <1>6 DEF SourceIsDrained, Alone
<1>9. MetricIsFlipped(e)'
  BY <1>0, <1>2, <1>3 DEF HandoverInv, MetricIsFlipped, Alone
<1> QED
  BY <1>2, <1>7, <1>8, <1>9, AloneSuffices

LEMMA DemoteSourceStep ==
    ASSUME HandoverInv, NEW e \in Execs, DemoteSource(e), TypeOK', "silent" \notin Faults
    PROVE  HandoverInv'
<1> DEFINE i == input[e]
<1>0. Running(e) /\ pc[e] = "DEMOTE_SOURCE" /\ UNCHANGED control
  BY DEF DemoteSource, InvokeUpdater, At
<1>1. \/ WriteRole(e, i.source, "PASSIVE") /\ GoTo(e, "NOTIFY_COMPLETED")
      \/ WriteRole(e, i.source, "PASSIVE") /\ TaskError(e)
      \/ UNCHANGED role /\ TaskError(e)
  BY DEF DemoteSource, InvokeUpdater
<1>2. Alone(e) /\ status' = status
  BY <1>0, <1>1, GoToAlone, TaskErrorAlone DEF HandoverInv
<1>3. pc'[e] \in {"NOTIFY_COMPLETED", "DEMOTE_SOURCE", "FAIL"}
  BY <1>0, <1>1, GoToAlone, TaskErrorAlone DEF HandoverInv
<1>4. \/ UNCHANGED role
      \/ WriteRole(e, i.source, "PASSIVE") /\ ~i.dry_run
  BY <1>1, DryRunWritesNothing
<1>5. OneActive'
  <2>1. CASE UNCHANGED role
    BY <2>1 DEF HandoverInv, OneActive
  <2>2. CASE WriteRole(e, i.source, "PASSIVE") /\ ~i.dry_run
    BY <1>0, <2>2, WriteEffect, RunningInput DEF HandoverInv, OneActive, Regions
  <2> QED
    BY <1>4, <2>1, <2>2
<1>6. SourceIsDrained(e)'
  <2>1. CASE UNCHANGED role
    BY <1>0, <1>2, <1>3, <2>1 DEF HandoverInv, SourceIsDrained, Alone, Drained
  <2>2. CASE WriteRole(e, i.source, "PASSIVE") /\ ~i.dry_run
    BY <1>0, <1>2, <1>3, <2>2, WriteEffect, RunningInput DEF SourceIsDrained, Alone, Drained
  <2> QED
    BY <1>4, <2>1, <2>2
<1>7. MetricIsFlipped(e)'
  BY <1>3 DEF MetricIsFlipped
<1> QED
  BY <1>2, <1>5, <1>6, <1>7, AloneSuffices

LEMMA FlipStep ==
    ASSUME HandoverInv, NEW e \in Execs, FlipR53ControlMetric(e), TypeOK'
    PROVE  HandoverInv'
<1> DEFINE i == input[e]
<1>0. Running(e) /\ pc[e] = "FLIP_R53_CONTROL_METRIC" /\ UNCHANGED role
  BY DEF FlipR53ControlMetric, At
<1>1. \/ EmitControl(e) /\ GoTo(e, "WAIT_R53_PROPAGATION")
      \/ TaskError(e)
  BY DEF FlipR53ControlMetric
<1>2. Alone(e) /\ status' = status
  BY <1>0, <1>1, GoToAlone, TaskErrorAlone DEF HandoverInv
<1>3. /\ pc'[e] \in {"WAIT_R53_PROPAGATION", "FLIP_R53_CONTROL_METRIC", "FAIL"}
      /\ pc'[e] = "WAIT_R53_PROPAGATION" => EmitControl(e)
  BY <1>0, <1>1, GoToAlone, TaskErrorAlone DEF HandoverInv
<1>4. OneActive'
  BY <1>0 DEF HandoverInv, OneActive
<1>5. SourceIsDrained(e)'
  BY <1>0, <1>2, <1>3 DEF HandoverInv, SourceIsDrained, Alone, Drained
<1>6. MetricIsFlipped(e)'
  <2>1. EmitControl(e) /\ ~i.dry_run => control'[i.home][FlippedRegion(i)] = FlipValue(i)
    BY <1>0, RunningInput DEF EmitControl, HandoverInv, TypeOK, FlippedRegion
  <2> QED
    BY <1>2, <1>3, <2>1 DEF MetricIsFlipped, Alone
<1> QED
  BY <1>2, <1>4, <1>5, <1>6, AloneSuffices

\* The states that write neither a role nor the metric.
LEMMA QuietSteps ==
    ASSUME HandoverInv, NEW e \in Execs, TypeOK',
           \/ PassState(e) \/ Precheck(e) \/ NotifyInitiated(e) \/ AuroraGatePause(e)
           \/ AuroraConfirm(e) \/ Postcheck(e) \/ NotifyCompleted(e) \/ Fail(e)
           \/ Approve(e) \/ Abort(e) \/ GateTimeout(e)
           \/ ExecutionTimeout(e) \/ StopExecution(e)
    PROVE  HandoverInv'
<1> USE QuietStep, GoToAlone, EndAlone, TaskErrorAlone DEF At, Drained, Statuses, NotStarted
<1>0. TypeOK
  BY DEF HandoverInv
<1>1. CASE PassState(e)
  BY <1>0, <1>1 DEF PassState
<1>2. CASE Precheck(e)
  BY <1>0, <1>2 DEF Precheck
<1>3. CASE NotifyInitiated(e)
  BY <1>0, <1>3 DEF NotifyInitiated
<1>4. CASE AuroraGatePause(e)
  <2>1. Alone(e) /\ (pc'[e] = pc[e] \/ ~Running(e)')
    BY <1>0, <1>4 DEF AuroraGatePause, execVars, Alone, Running
  <2> QED
    BY <1>4, <2>1 DEF AuroraGatePause
<1>5. CASE AuroraConfirm(e)
  BY <1>0, <1>5 DEF AuroraConfirm
<1>6. CASE Postcheck(e)
  BY <1>0, <1>6 DEF Postcheck
<1>7. CASE NotifyCompleted(e)
  <2>1. Alone(e) /\ (pc'[e] = pc[e] \/ ~Running(e)')
    BY <1>0, <1>7 DEF NotifyCompleted, RetryTask, Alone, Running, TypeOK
  <2> QED
    BY <1>7, <2>1 DEF NotifyCompleted
<1>8. CASE Fail(e)
  BY <1>0, <1>8 DEF Fail
<1>9. CASE Approve(e) \/ Abort(e) \/ GateTimeout(e)
  BY <1>0, <1>9 DEF Approve, Abort, GateTimeout, GatePaused
<1>10. CASE ExecutionTimeout(e) \/ StopExecution(e)
  BY <1>0, <1>10 DEF ExecutionTimeout, StopExecution
<1> QED
  BY <1>1, <1>2, <1>3, <1>4, <1>5, <1>6, <1>7, <1>8, <1>9, <1>10

\* A new execution starts only when nothing runs, before DRAIN_SOURCE.
LEMMA StartStep ==
    ASSUME HandoverInv, NEW e \in Execs, NEW i \in Inputs, StartExecution(e, i), TypeOK',
           Exclusive
    PROVE  HandoverInv'
<1>1. \A f \in Execs \ {e} : ~Running(f)' /\ status'[f] = status[f] /\ input'[f] = input[f]
  BY DEF StartExecution, Running, HandoverInv, TypeOK
<1>2. pc'[e] \in {"EVALUATE", "PRECHECK"} /\ input'[e] = i
  BY DEF StartExecution, HandoverInv, TypeOK
<1>3. StartedWithInput'
  BY <1>1, <1>2 DEF HandoverInv, StartedWithInput
<1>4. OneRunning'
  BY <1>1 DEF OneRunning
<1>5. OneActive'
  BY DEF StartExecution, HandoverInv, OneActive
<1>6. \A f \in Execs : SourceIsDrained(f)' /\ MetricIsFlipped(f)'
  BY <1>1, <1>2 DEF SourceIsDrained, MetricIsFlipped, Drained
<1> QED
  BY <1>3, <1>4, <1>5, <1>6 DEF HandoverInv

\* A manual drain can only move a region away from ACTIVE, towards DRAINING.
LEMMA ManualDrainStep ==
    ASSUME HandoverInv, NEW h \in Regions, ManualDrain(h), TypeOK'
    PROVE  HandoverInv'
<1>1. \A k, r \in Regions : role'[k][r] = "DRAINING" \/ role'[k][r] = role[k][r]
  BY DEF ManualDrain, HandoverInv, TypeOK
<1>2. UNCHANGED <<pc, status, input, control>>
  BY DEF ManualDrain, execVars
<1>3. StartedWithInput' /\ OneRunning'
  BY <1>2 DEF HandoverInv, StartedWithInput, OneRunning, Running
<1>4. OneActive'
  BY <1>1 DEF HandoverInv, OneActive, Regions
<1>5. ASSUME NEW e \in Execs PROVE SourceIsDrained(e)' /\ MetricIsFlipped(e)'
  <2>1. CASE Running(e)
    BY <1>1, <1>2, <2>1, RunningInput
       DEF HandoverInv, SourceIsDrained, MetricIsFlipped, Running
  <2>2. CASE ~Running(e)
    BY <1>2, <2>2 DEF SourceIsDrained, MetricIsFlipped, Running
  <2> QED
    BY <2>1, <2>2
<1> QED
  BY <1>3, <1>4, <1>5 DEF HandoverInv

LEMMA HandoverInit == Init => HandoverInv
<1> SUFFICES ASSUME Init PROVE HandoverInv
  OBVIOUS
<1>1. \A e \in Execs : ~Running(e)
  BY DEF Init, NothingRan, PrimaryStoreHolds, Running, NotStarted
<1>2. OneActive
  BY WorkflowAssumption DEF Init, NothingRan, PrimaryStoreHolds, OneActive, Regions, None
<1> QED
  BY <1>1, <1>2, InitType
     DEF Init, NothingRan, PrimaryStoreHolds, HandoverInv, StartedWithInput, OneRunning, SourceIsDrained, MetricIsFlipped

LEMMA HandoverNext ==
    ASSUME Cautious
    PROVE  HandoverInv /\ [Next]_vars => HandoverInv'
<1> SUFFICES ASSUME HandoverInv, [Next]_vars PROVE HandoverInv'
  OBVIOUS
<1>0. TypeOK'
  BY NextType DEF HandoverInv
<1>1. ASSUME NEW e \in Execs, NEW i \in Inputs, StartExecution(e, i) PROVE HandoverInv'
  BY <1>0, <1>1, StartStep DEF Cautious
<1>2. ASSUME NEW e \in Execs, Step(e) PROVE HandoverInv'
  BY <1>0, <1>2, DrainSourceStep, PromoteTargetStep, DemoteSourceStep, FlipStep, QuietSteps
     DEF Step, Cautious
<1>3. ASSUME NEW e \in Execs, GateTimeout(e) \/ ExecutionTimeout(e) \/ Operate(e)
      PROVE  HandoverInv'
  BY <1>0, <1>3, QuietSteps DEF Operate
<1>4. ASSUME NEW h \in Regions, ManualDrain(h) PROVE HandoverInv'
  BY <1>0, <1>4, ManualDrainStep
<1>5. CASE MoveWriter \/ UNCHANGED vars
  BY <1>0, <1>5
     DEF MoveWriter, vars, execVars, HandoverInv, StartedWithInput, OneRunning, Running,
         OneActive, SourceIsDrained, MetricIsFlipped
<1> QED
  BY <1>1, <1>2, <1>3, <1>4, <1>5 DEF Next

\* indicator_writer's promise: when executions do not overlap and every error
\* of indicator_updater reaches Retry and Catch, no store ever shows two
\* ACTIVE regions, whatever fails, stops, times out or is drained by hand.
THEOREM OneActiveAlways ==
    ASSUME Cautious
    PROVE  Spec => []OneActive
<1>1. HandoverInv => OneActive
  BY DEF HandoverInv
<1> QED
  BY <1>1, HandoverInit, HandoverNext, PTL DEF Spec

\* SPEC 5.1: nothing is promoted before its peer is drained and the control
\* metric is flipped, retries, manual drains and earlier failed executions
\* included.
THEOREM PromotionIsAlwaysSafe ==
    ASSUME Cautious
    PROVE  Spec => []PromotionIsSafe
<1>1. HandoverInv => PromotionIsSafe
  BY DEF HandoverInv, PromotionIsSafe, SourceIsDrained, MetricIsFlipped, Drained, At
<1> QED
  BY <1>1, HandoverInit, HandoverNext, PTL DEF Spec

-----------------------------------------------------------------------------
(***************************************************************************)
(* Each region's store implements RegionalRole under the same condition:   *)
(* every write is one of the abstract protocol's steps.                    *)
(***************************************************************************)
\* The abstract steps of store h.
StoreNext(h) ==
    \E r \in Regions :
        \/ role'[h] = [role[h] EXCEPT ![r] = "DRAINING"]
        \/ /\ \A s \in Regions \ {r} : role[h][s] # "ACTIVE"
           /\ role'[h] = [role[h] EXCEPT ![r] = "ACTIVE"]
        \/ /\ role[h][r] # "ACTIVE"
           /\ role'[h] = [role[h] EXCEPT ![r] = "PASSIVE"]

LEMMA StoreWrite ==
    ASSUME HandoverInv, NEW h \in Regions, NEW e \in Execs, Running(e),
           NEW r \in Regions, NEW value, WriteRole(e, r, value)
    PROVE  \/ role'[h] = role[h]
           \/ /\ h = input[e].home /\ ~input[e].dry_run
              /\ role'[h] = [role[h] EXCEPT ![r] = value]
BY RunningInput DEF WriteRole, HandoverInv, TypeOK

\* A step of the workflow is a step of every store, or leaves it alone.
LEMMA StoreStep ==
    ASSUME Cautious, HandoverInv, [Next]_vars, NEW h \in Regions
    PROVE  StoreNext(h) \/ role'[h] = role[h]
<1>1. ASSUME NEW e \in Execs, DrainSource(e) PROVE StoreNext(h) \/ role'[h] = role[h]
  <2>1. Running(e) /\ (UNCHANGED role \/ WriteRole(e, input[e].source, "DRAINING"))
    BY <1>1 DEF DrainSource, InvokeUpdater, At
  <2> QED
    BY <2>1, StoreWrite, RunningInput DEF StoreNext
<1>2. ASSUME NEW e \in Execs, PromoteTarget(e) PROVE StoreNext(h) \/ role'[h] = role[h]
  <2>1. Running(e) /\ (UNCHANGED role \/ WriteRole(e, input[e].target, "ACTIVE"))
    BY <1>2 DEF PromoteTarget, InvokeUpdater, At
  <2>2. ~input[e].dry_run => role[input[e].home][input[e].source] = "DRAINING"
    BY <1>2 DEF PromoteTarget, InvokeUpdater, At, HandoverInv, SourceIsDrained, Drained
  <2>3. \A s \in Regions \ {input[e].target} : s = input[e].source
    BY <2>1, RunningInput DEF Regions
  <2> QED
    BY <2>1, <2>2, <2>3, StoreWrite, RunningInput DEF StoreNext
<1>3. ASSUME NEW e \in Execs, DemoteSource(e) PROVE StoreNext(h) \/ role'[h] = role[h]
  <2>1. Running(e) /\ (UNCHANGED role \/ WriteRole(e, input[e].source, "PASSIVE"))
    BY <1>3 DEF DemoteSource, InvokeUpdater, At
  <2>2. ~input[e].dry_run => role[input[e].home][input[e].source] # "ACTIVE"
    BY <1>3 DEF DemoteSource, InvokeUpdater, At, HandoverInv, SourceIsDrained
  <2> QED
    BY <2>1, <2>2, StoreWrite, RunningInput DEF StoreNext
<1>4. ASSUME NEW d \in Regions, ManualDrain(d) PROVE StoreNext(h) \/ role'[h] = role[h]
  BY <1>4 DEF ManualDrain, StoreNext, HandoverInv, TypeOK
<1>5. ASSUME NEW e \in Execs, NEW i \in Inputs, StartExecution(e, i) PROVE role' = role
  BY <1>5 DEF StartExecution
<1>6. ASSUME NEW e \in Execs, Step(e) PROVE StoreNext(h) \/ role'[h] = role[h]
  BY <1>1, <1>2, <1>3, <1>6
     DEF Step, PassState, Precheck, NotifyInitiated, FlipR53ControlMetric, AuroraGatePause,
         AuroraConfirm, Postcheck, NotifyCompleted, Fail
<1>7. ASSUME NEW e \in Execs, GateTimeout(e) \/ ExecutionTimeout(e) \/ Operate(e)
      PROVE  role' = role
  BY <1>7 DEF GateTimeout, ExecutionTimeout, Operate, Approve, Abort, StopExecution
<1>8. CASE MoveWriter \/ UNCHANGED vars
  BY <1>8 DEF MoveWriter, vars
<1> QED
  BY <1>4, <1>5, <1>6, <1>7, <1>8 DEF Next

LEMMA StoreInit ==
    ASSUME Init, NEW h \in Regions
    PROVE  /\ role[h] \in [Regions -> {None, "ACTIVE"}]
           /\ \A r, s \in Regions : role[h][r] = "ACTIVE" /\ role[h][s] = "ACTIVE" => r = s
BY WorkflowAssumption DEF Init, NothingRan, PrimaryStoreHolds, Regions, None

\* The home region's store follows the abstract indicator protocol.
THEOREM PrimaryStoreRefines ==
    ASSUME Cautious
    PROVE  Spec => PrimaryStoreImplements
<1>1. Init => PrimaryStore!Init
  BY StoreInit DEF PrimaryStore!Init, PrimaryStore!Role, PrimaryStore!Unset, None, Regions
<1>2. HandoverInv /\ [Next]_vars => [PrimaryStore!Next]_(role[Primary])
  BY StoreStep DEF StoreNext, Regions, PrimaryStore!Next, PrimaryStore!Drain,
                   PrimaryStore!Activate, PrimaryStore!Retire
<1> QED
  BY <1>1, <1>2, HandoverInit, HandoverNext, PTL
     DEF Spec, PrimaryStoreImplements, PrimaryStore!Spec

\* So does the other region's.
THEOREM SecondaryStoreRefines ==
    ASSUME Cautious
    PROVE  Spec => SecondaryStoreImplements
<1>1. Init => SecondaryStore!Init
  BY StoreInit DEF SecondaryStore!Init, SecondaryStore!Role, SecondaryStore!Unset, None, Regions
<1>2. HandoverInv /\ [Next]_vars => [SecondaryStore!Next]_(role[Secondary])
  BY StoreStep DEF StoreNext, Regions, SecondaryStore!Next, SecondaryStore!Drain,
                   SecondaryStore!Activate, SecondaryStore!Retire
<1> QED
  BY <1>1, <1>2, HandoverInit, HandoverNext, PTL
     DEF Spec, SecondaryStoreImplements, SecondaryStore!Spec
=============================================================================
