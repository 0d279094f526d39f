------------------------ MODULE Orchestrator_proofs ------------------------
(***************************************************************************)
(* The indicator protocol survives scenario_reset.sh: theorems about       *)
(* Orchestrator, for every set of executions, of inputs and of faults and  *)
(* any number of resets, whatever engines and alarms do meanwhile.         *)
(*                                                                         *)
(* HandoverInv of FailoverWorkflow_proofs is not preserved here: a reset   *)
(* deletes the role of a source that an execution has drained.  What the   *)
(* protocol needs of that source is only that it is not ACTIVE.            *)
(***************************************************************************)
EXTENDS Orchestrator, FailoverWorkflow_proofs, NaturalMinimum, SequenceTheorems

\* The states in which the source of an execution has been stopped.
Handover == Drained \cup {"DEMOTE_SOURCE"}

SourceStopped(e) ==
    Running(e) /\ ~input[e].dry_run /\ pc[e] \in Handover =>
        role[input[e].home][input[e].source] # "ACTIVE"

ResetInv ==
    /\ TypeOK
    /\ StartedWithInput
    /\ OneRunning
    /\ OneActive
    /\ \A e \in Execs : SourceStopped(e)

\* The well-formed input of a running execution.
LEMMA InputKnown ==
    ASSUME ResetInv, NEW e \in Execs, Running(e)
    PROVE  /\ input[e].home \in Regions
           /\ input[e].source \in Regions /\ input[e].target \in Regions
           /\ input[e].source # input[e].target
<1>1. input[e] \in Inputs
  BY DEF ResetInv, StartedWithInput, Running, NotStarted
<1> QED
  BY <1>1, WorkflowAssumption DEF Input

\* What a write of indicator_updater does to each store.
LEMMA StoreAfterWrite ==
    ASSUME ResetInv, NEW h \in Regions, NEW e \in Execs, Running(e),
           NEW r \in Regions, NEW value, WriteRole(e, r, value)
    PROVE  \/ role'[h] = role[h]
           \/ /\ h = input[e].home /\ ~input[e].dry_run
              /\ role'[h] = [role[h] EXCEPT ![r] = value]
BY InputKnown DEF WriteRole, ResetInv, TypeOK

LEMMA RoleAfterWrite ==
    ASSUME ResetInv, NEW e \in Execs, Running(e), NEW r \in Regions, NEW value,
           WriteRole(e, r, value), ~input[e].dry_run
    PROVE  /\ role'[input[e].home][r] = value
           /\ \A q \in Regions \ {r} : role'[input[e].home][q] = role[input[e].home][q]
BY InputKnown DEF WriteRole, ResetInv, TypeOK

-----------------------------------------------------------------------------
(***************************************************************************)
(* Each step of the workflow is a step of the abstract protocol in every   *)
(* store, or leaves it alone.                                              *)
(***************************************************************************)
LEMMA WorkflowStoreStep ==
    ASSUME Cautious, ResetInv, [Next]_vars, NEW h \in Regions
    PROVE  StoreNext(h) \/ role'[h] = role[h]
<1>1. ASSUME NEW e \in Execs, DrainSource(e) PROVE StoreNext(h) \/ role'[h] = role[h]
  <2>1. Running(e) /\ (UNCHANGED role \/ WriteRole(e, input[e].source, "DRAINING"))
    BY <1>1 DEF DrainSource, InvokeUpdater, At
  <2>2. \/ role'[h] = role[h]
        \/ role'[h] = [role[h] EXCEPT ![input[e].source] = "DRAINING"]
    BY <2>1, StoreAfterWrite, InputKnown
  <2> QED
    BY <2>1, <2>2, InputKnown DEF StoreNext
<1>2. ASSUME NEW e \in Execs, PromoteTarget(e) PROVE StoreNext(h) \/ role'[h] = role[h]
  <2>1. Running(e) /\ (UNCHANGED role \/ WriteRole(e, input[e].target, "ACTIVE"))
    BY <1>2 DEF PromoteTarget, InvokeUpdater, At
  <2>2. ~input[e].dry_run => role[input[e].home][input[e].source] # "ACTIVE"
    BY <1>2 DEF PromoteTarget, InvokeUpdater, At, ResetInv, SourceStopped, Handover, Drained
  <2>3. \A s \in Regions \ {input[e].target} : s = input[e].source
    BY <2>1, InputKnown DEF Regions
  <2>4. \/ role'[h] = role[h]
        \/ /\ h = input[e].home /\ ~input[e].dry_run
           /\ role'[h] = [role[h] EXCEPT ![input[e].target] = "ACTIVE"]
    BY <2>1, StoreAfterWrite, InputKnown
  <2> QED
    BY <2>1, <2>2, <2>3, <2>4, InputKnown DEF StoreNext
<1>3. ASSUME NEW e \in Execs, DemoteSource(e) PROVE StoreNext(h) \/ role'[h] = role[h]
  <2>1. Running(e) /\ (UNCHANGED role \/ WriteRole(e, input[e].source, "PASSIVE"))
    BY <1>3 DEF DemoteSource, InvokeUpdater, At
  <2>2. ~input[e].dry_run => role[input[e].home][input[e].source] # "ACTIVE"
    BY <1>3 DEF DemoteSource, InvokeUpdater, At, ResetInv, SourceStopped, Handover
  <2>3. \/ role'[h] = role[h]
        \/ /\ h = input[e].home /\ ~input[e].dry_run
           /\ role'[h] = [role[h] EXCEPT ![input[e].source] = "PASSIVE"]
    BY <2>1, StoreAfterWrite, InputKnown
  <2> QED
    BY <2>1, <2>2, <2>3, InputKnown DEF StoreNext
<1>4. ASSUME NEW d \in Regions, ManualDrain(d) PROVE StoreNext(h) \/ role'[h] = role[h]
  BY <1>4 DEF ManualDrain, StoreNext, ResetInv, TypeOK
<1>5. ASSUME NEW e \in Execs, NEW i \in Inputs, StartExecution(e, i) PROVE role' = role
  BY <1>5 DEF StartExecution
<1>6. ASSUME NEW e \in Execs, Step(e) PROVE StoreNext(h) \/ role'[h] = role[h]
  BY <1>1, <1>2, <1>3, <1>6
     DEF Step, PassState, Precheck, NotifyInitiated, FlipR53ControlMetric, AuroraGatePause,
         AuroraConfirm, Postcheck, NotifyCompleted, Fail
<1>7. ASSUME NEW e \in Execs, GateTimeout(e) \/ ExecutionTimeout(e) \/ Operate(e)
      PROVE  role' = role
  BY <1>7 DEF GateTimeout, ExecutionTimeout, Operate, Approve, Abort, StopExecution
<1>8. CASE MoveWriter \/ UNCHANGED vars
  BY <1>8 DEF MoveWriter, vars
<1> QED
  BY <1>4, <1>5, <1>6, <1>7, <1>8 DEF Next

\* The abstract protocol's steps keep at most one region of a store ACTIVE.
LEMMA StoresKeepOneActive ==
    ASSUME ResetInv, TypeOK',
           \A h \in Regions : StoreNext(h) \/ role'[h] = role[h]
    PROVE  OneActive'
<1> SUFFICES ASSUME NEW h \in Regions
             PROVE  ~(role'[h][Primary] = "ACTIVE" /\ role'[h][Secondary] = "ACTIVE")
  BY DEF OneActive
<1>1. ~(role[h][Primary] = "ACTIVE" /\ role[h][Secondary] = "ACTIVE")
  BY DEF ResetInv, OneActive
<1>2. role[h] \in [Regions -> Role \cup {None}]
  BY DEF ResetInv, TypeOK
<1>3. CASE StoreNext(h)
  BY <1>1, <1>2, <1>3, WorkflowAssumption DEF StoreNext, Regions
<1> QED
  BY <1>1, <1>3

-----------------------------------------------------------------------------
\* It is enough to follow the execution that steps.
LEMMA FollowOne ==
    ASSUME ResetInv, NEW e \in Execs, Alone(e), TypeOK', OneActive', SourceStopped(e)'
    PROVE  ResetInv'
<1>1. \A f \in Execs \ {e} : ~Running(f)'
  BY DEF ResetInv, OneRunning, Running, Alone
<1>2. StartedWithInput'
  BY DEF ResetInv, StartedWithInput, Alone, Running, NotStarted
<1>3. OneRunning'
  BY <1>1 DEF OneRunning
<1>4. ASSUME NEW f \in Execs PROVE SourceStopped(f)'
  BY <1>1 DEF SourceStopped
<1> QED
  BY <1>2, <1>3, <1>4 DEF ResetInv

\* A step that writes no role and enters the handover from nowhere.
LEMMA SilentStep ==
    ASSUME ResetInv, NEW e \in Execs, Alone(e), TypeOK', OneActive', UNCHANGED role,
           ~Running(e)' \/ pc'[e] = pc[e] \/ pc[e] \in Handover \/ pc'[e] \notin Handover
    PROVE  ResetInv'
<1>1. SourceStopped(e)'
  BY DEF ResetInv, SourceStopped, Alone
<1> QED
  BY <1>1, FollowOne

\* The three states that write a role.
LEMMA UpdaterSteps ==
    ASSUME ResetInv, NEW e \in Execs, TypeOK', OneActive', "silent" \notin Faults,
           DrainSource(e) \/ PromoteTarget(e) \/ DemoteSource(e)
    PROVE  ResetInv'
<1> DEFINE i == input[e]
<1>0. Running(e) /\ TypeOK
  BY DEF DrainSource, PromoteTarget, DemoteSource, InvokeUpdater, At, ResetInv
<1>1. CASE DrainSource(e)
  <2>1. \/ WriteRole(e, i.source, "DRAINING") /\ GoTo(e, "WAIT_DRAIN")
        \/ TaskError(e) /\ pc[e] = "DRAIN_SOURCE"
    BY <1>1 DEF DrainSource, InvokeUpdater, At
  <2>2. Alone(e)
    BY <1>0, <2>1, GoToAlone, TaskErrorAlone
  <2>3. \/ WriteRole(e, i.source, "DRAINING")
        \/ pc'[e] \in {"DRAIN_SOURCE", "FAIL"}
    BY <1>0, <2>1, TaskErrorAlone
  <2>4. SourceStopped(e)'
    BY <1>0, <2>2, <2>3, RoleAfterWrite, InputKnown
       DEF SourceStopped, Alone, Handover, Drained
  <2> QED
    BY <2>2, <2>4, FollowOne
<1>2. CASE PromoteTarget(e)
  <2>1. /\ \/ GoTo(e, "AURORA_GATE_DECISION")
           \/ TaskError(e)
        /\ pc[e] = "PROMOTE_TARGET"
        /\ UNCHANGED role \/ WriteRole(e, i.target, "ACTIVE")
    BY <1>2 DEF PromoteTarget, InvokeUpdater, At
  <2>2. Alone(e)
    BY <1>0, <2>1, GoToAlone, TaskErrorAlone
  <2>3. ~i.dry_run => role'[i.home][i.source] # "ACTIVE"
    BY <1>0, <2>1, RoleAfterWrite, InputKnown DEF ResetInv, SourceStopped, Handover, Drained
  <2>4. SourceStopped(e)'
    BY <2>2, <2>3 DEF SourceStopped, Alone
  <2> QED
    BY <2>2, <2>4, FollowOne
<1>3. CASE DemoteSource(e)
  <2>1. /\ \/ GoTo(e, "NOTIFY_COMPLETED")
           \/ TaskError(e)
        /\ pc[e] = "DEMOTE_SOURCE"
        /\ UNCHANGED role \/ WriteRole(e, i.source, "PASSIVE")
    BY <1>3 DEF DemoteSource, InvokeUpdater, At
  <2>2. Alone(e)
    BY <1>0, <2>1, GoToAlone, TaskErrorAlone
  <2>3. ~i.dry_run => role'[i.home][i.source] # "ACTIVE"
    BY <1>0, <2>1, RoleAfterWrite, InputKnown DEF ResetInv, SourceStopped, Handover
  <2>4. SourceStopped(e)'
    BY <2>2, <2>3 DEF SourceStopped, Alone
  <2> QED
    BY <2>2, <2>4, FollowOne
<1> QED
  BY <1>1, <1>2, <1>3

\* The states that write none.
LEMMA OtherSteps ==
    ASSUME ResetInv, NEW e \in Execs, TypeOK', OneActive',
           \/ PassState(e) \/ Precheck(e) \/ NotifyInitiated(e) \/ FlipR53ControlMetric(e)
           \/ AuroraGatePause(e) \/ AuroraConfirm(e) \/ Postcheck(e) \/ NotifyCompleted(e)
           \/ Fail(e) \/ Approve(e) \/ Abort(e) \/ GateTimeout(e)
           \/ ExecutionTimeout(e) \/ StopExecution(e)
    PROVE  ResetInv'
<1> USE SilentStep, GoToAlone, EndAlone, TaskErrorAlone
        DEF At, Handover, Drained, Statuses, NotStarted
<1>0. TypeOK
  BY DEF ResetInv
<1>1. CASE PassState(e)
  BY <1>0, <1>1 DEF PassState
<1>2. CASE Precheck(e)
  BY <1>0, <1>2 DEF Precheck
<1>3. CASE NotifyInitiated(e)
  BY <1>0, <1>3 DEF NotifyInitiated
<1>4. CASE FlipR53ControlMetric(e)
  BY <1>0, <1>4 DEF FlipR53ControlMetric
<1>5. CASE AuroraGatePause(e)
  <2>1. Alone(e) /\ (pc'[e] = pc[e] \/ ~Running(e)')
    BY <1>0, <1>5 DEF AuroraGatePause, execVars, Alone, Running
  <2> QED
    BY <1>5, <2>1 DEF AuroraGatePause
<1>6. CASE AuroraConfirm(e)
  BY <1>0, <1>6 DEF AuroraConfirm
<1>7. CASE Postcheck(e)
  BY <1>0, <1>7 DEF Postcheck
<1>8. CASE NotifyCompleted(e)
  <2>1. Alone(e) /\ (pc'[e] = pc[e] \/ ~Running(e)')
    BY <1>0, <1>8 DEF NotifyCompleted, RetryTask, Alone, Running, TypeOK
  <2> QED
    BY <1>8, <2>1 DEF NotifyCompleted
<1>9. CASE Fail(e)
  BY <1>0, <1>9 DEF Fail
<1>10. CASE Approve(e) \/ Abort(e) \/ GateTimeout(e)
  BY <1>0, <1>10 DEF Approve, Abort, GateTimeout, GatePaused
<1>11. CASE ExecutionTimeout(e) \/ StopExecution(e)
  BY <1>0, <1>11 DEF ExecutionTimeout, StopExecution
<1> QED
  BY <1>1, <1>2, <1>3, <1>4, <1>5, <1>6, <1>7, <1>8, <1>9, <1>10, <1>11

\* A step that starts, moves and ends no execution, and makes no region ACTIVE.
LEMMA RoleOnlyStep ==
    ASSUME ResetInv, UNCHANGED <<pc, status, input>>, TypeOK', OneActive',
           \A h, r \in Regions : role'[h][r] = "ACTIVE" => role[h][r] = "ACTIVE"
    PROVE  ResetInv'
<1>1. StartedWithInput' /\ OneRunning'
  BY DEF ResetInv, StartedWithInput, OneRunning, Running
<1>2. ASSUME NEW e \in Execs PROVE SourceStopped(e)'
  <2>1. CASE Running(e)
    BY <2>1, InputKnown DEF ResetInv, SourceStopped, Running
  <2>2. CASE ~Running(e)
    BY <2>2 DEF SourceStopped, Running
  <2> QED
    BY <2>1, <2>2
<1> QED
  BY <1>1, <1>2 DEF ResetInv

\* A step of the workflow preserves the invariant.
LEMMA WorkflowStep ==
    ASSUME Cautious
    PROVE  ResetInv /\ [Next]_vars => ResetInv'
<1> SUFFICES ASSUME ResetInv, [Next]_vars PROVE ResetInv'
  OBVIOUS
<1>1. TypeOK'
  BY NextType DEF ResetInv
<1>2. OneActive'
  BY <1>1, WorkflowStoreStep, StoresKeepOneActive
<1>3. ASSUME NEW e \in Execs, NEW i \in Inputs, StartExecution(e, i) PROVE ResetInv'
  <2>1. \A f \in Execs \ {e} : ~Running(f)' /\ status'[f] = status[f] /\ input'[f] = input[f]
    BY <1>3 DEF StartExecution, Running, ResetInv, TypeOK, Cautious
  <2>2. pc'[e] \in {"EVALUATE", "PRECHECK"} /\ input'[e] = i
    BY <1>3 DEF StartExecution, ResetInv, TypeOK
  <2>3. StartedWithInput'
    BY <2>1, <2>2 DEF ResetInv, StartedWithInput
  <2>4. OneRunning'
    BY <2>1 DEF OneRunning
  <2>5. \A f \in Execs : SourceStopped(f)'
    BY <2>1, <2>2 DEF SourceStopped, Handover, Drained
  <2> QED
    BY <1>1, <1>2, <2>3, <2>4, <2>5 DEF ResetInv
<1>4. ASSUME NEW e \in Execs, Step(e) PROVE ResetInv'
  BY <1>1, <1>2, <1>4, UpdaterSteps, OtherSteps DEF Step, Cautious
<1>5. ASSUME NEW e \in Execs, GateTimeout(e) \/ ExecutionTimeout(e) \/ Operate(e)
      PROVE  ResetInv'
  BY <1>1, <1>2, <1>5, OtherSteps DEF Operate
<1>6. ASSUME NEW h \in Regions, ManualDrain(h) PROVE ResetInv'
  <2>1. \A k, r \in Regions : role'[k][r] = "ACTIVE" => role[k][r] = "ACTIVE"
    BY <1>6 DEF ManualDrain, ResetInv, TypeOK
  <2> QED
    BY <1>1, <1>2, <1>6, <2>1, RoleOnlyStep DEF ManualDrain, execVars
<1>7. CASE MoveWriter \/ UNCHANGED vars
  BY <1>1, <1>2, <1>7, RoleOnlyStep DEF MoveWriter, vars, execVars
<1> QED
  BY <1>3, <1>4, <1>5, <1>6, <1>7 DEF Next

-----------------------------------------------------------------------------
(***************************************************************************)
(* The composition.                                                        *)
(***************************************************************************)
\* Every step of the composition is the workflow's, or leaves the workflow
\* alone, or deletes a role, or stops an execution.
LEMMA StepsOfTheWhole ==
    ASSUME [OrchestratorNext]_allVars
    PROVE  \/ [Next]_vars
           \/ \E h \in Regions : DeleteRole(h)
           \/ \E e \in Execs : StopListed(e)
<1> USE DEF vars
<1>1. ASSUME NEW e \in Execs, Flip(e) \/ Work(e) PROVE Next
  BY <1>1 DEF Flip, Work, Next, Step
<1>2. ASSUME NEW h \in Regions, Drain(h) PROVE Next
  BY <1>2 DEF Drain, Next
<1>3. ASSUME NEW h \in Regions, Evaluate(h) PROVE UNCHANGED vars
  BY <1>3 DEF Evaluate
<1>4. CASE Minute \/ RacedEngineClears \/ (\E value \in {"trip", "clear"} : EngineEmits(value))
  BY <1>4 DEF Minute, RacedEngineClears, EngineEmits
<1>5. CASE StartReset \/ ResetDies
  BY <1>5 DEF StartReset, ResetDies
<1>6. ASSUME NEW h \in Regions, DeleteDecision(h) \/ ClearControl(h) PROVE UNCHANGED vars
  BY <1>6 DEF DeleteDecision, ClearControl
<1>7. ASSUME NEW h \in Regions, NEW m, ListRunning(m, h) PROVE UNCHANGED vars
  BY <1>7 DEF ListRunning
<1>8. CASE UNCHANGED allVars
  BY <1>8 DEF allVars
<1> QED
  BY <1>1, <1>2, <1>3, <1>4, <1>5, <1>6, <1>7, <1>8 DEF OrchestratorNext, Reset

\* Deleting a role makes no region ACTIVE.
LEMMA DeleteRoleStep ==
    ASSUME ResetInv, NEW h \in Regions, DeleteRole(h)
    PROVE  ResetInv'
<1>0. TypeOK /\ (role' = role \/ role' = [role EXCEPT ![h][h] = None])
  BY DEF DeleteRole, ResetInv
<1>1. UNCHANGED <<pc, status, input, attempts, promoted, control, writer, sns, audit>>
  BY DEF DeleteRole, execVars
<1>2. role' \in [Regions -> [Regions -> Role \cup {None}]]
  <2>1. CASE role' = role
    BY <1>0, <2>1 DEF TypeOK
  <2>2. CASE role' = [role EXCEPT ![h][h] = None]
    BY <1>0, <2>2, OverwriteType DEF TypeOK
  <2> QED
    BY <1>0, <2>1, <2>2
<1>3. TypeOK'
  BY <1>1, <1>2 DEF ResetInv, TypeOK
<1>4. \A k, r \in Regions : role'[k][r] = "ACTIVE" => role[k][r] = "ACTIVE"
  <2>1. CASE role' = role
    BY <2>1
  <2>2. CASE role' = [role EXCEPT ![h][h] = None]
    BY <1>0, <2>2 DEF TypeOK, None
  <2> QED
    BY <1>0, <2>1, <2>2
<1>5. OneActive'
  BY <1>4 DEF ResetInv, OneActive, Regions
<1> QED
  BY <1>1, <1>3, <1>4, <1>5, RoleOnlyStep

\* Stopping an execution is the end of it, wherever it stands.
LEMMA StopListedStep ==
    ASSUME ResetInv, NEW e \in Execs, StopListed(e)
    PROVE  ResetInv'
<1>1. UNCHANGED <<role, control, writer, sns, audit>>
  BY DEF StopListed
<1>2. OneActive'
  BY <1>1 DEF ResetInv, OneActive
<1>3. CASE Running(e) /\ End(e, "ABORTED")
  <2>1. TypeOK'
    BY <1>1, <1>3, EndType DEF ResetInv, TypeOK, ExecTypeOK, Statuses
  <2>2. Alone(e) /\ ~Running(e)'
    BY <1>3, EndAlone DEF ResetInv, Statuses, NotStarted
  <2> QED
    BY <1>1, <1>2, <2>1, <2>2, SilentStep
<1>4. CASE UNCHANGED execVars
  <2>1. TypeOK'
    BY <1>1, <1>4 DEF ResetInv, TypeOK, execVars
  <2> QED
    BY <1>1, <1>2, <1>4, <2>1, RoleOnlyStep DEF execVars
<1> QED
  BY <1>3, <1>4 DEF StopListed

LEMMA ResetInit == OrchestratorInit => ResetInv
<1> SUFFICES ASSUME OrchestratorInit PROVE ResetInv
  OBVIOUS
<1> USE DEF OrchestratorInit, NothingRan, PrimaryStoreHolds
<1>1. TypeOK
  BY WorkflowAssumption DEF TypeOK, StateNames, Statuses, Role, Regions, NotStarted, None
<1>2. \A e \in Execs : ~Running(e) /\ status[e] = NotStarted
  BY DEF Running, NotStarted
<1>3. OneActive
  BY WorkflowAssumption DEF OneActive, Regions, None
<1> QED
  BY <1>1, <1>2, <1>3 DEF ResetInv, StartedWithInput, OneRunning, SourceStopped

LEMMA ResetNext ==
    ASSUME Cautious
    PROVE  ResetInv /\ [OrchestratorNext]_allVars => ResetInv'
BY StepsOfTheWhole, WorkflowStep, DeleteRoleStep, StopListedStep

\* Under the same condition as without resets, no store ever shows two ACTIVE
\* regions, whenever scenario_reset.sh deletes roles and stops executions,
\* however often, and wherever it dies.
THEOREM OneActiveDespiteResets ==
    ASSUME Cautious
    PROVE  OrchestratorSpec => []OneActive
<1>1. ResetInv => OneActive
  BY DEF ResetInv
<1> QED
  BY <1>1, ResetInit, ResetNext, PTL DEF OrchestratorSpec

-----------------------------------------------------------------------------
\* A reset forgets one role, or none, of a store.
LEMMA WholeStoreStep ==
    ASSUME Cautious, ResetInv, [OrchestratorNext]_allVars, NEW h \in Regions
    PROVE  \/ StoreNext(h)
           \/ \E r \in Regions : role'[h] = [role[h] EXCEPT ![r] = None]
           \/ role'[h] = role[h]
<1>1. ASSUME NEW g \in Regions, DeleteRole(g)
      PROVE  \/ \E r \in Regions : role'[h] = [role[h] EXCEPT ![r] = None]
             \/ role'[h] = role[h]
  BY <1>1 DEF DeleteRole, ResetInv, TypeOK
<1>2. ASSUME NEW e \in Execs, StopListed(e) PROVE role'[h] = role[h]
  BY <1>2 DEF StopListed
<1> QED
  BY <1>1, <1>2, StepsOfTheWhole, WorkflowStoreStep

LEMMA WholeStoreInit ==
    ASSUME OrchestratorInit, NEW h \in Regions
    PROVE  /\ role[h] \in [Regions -> {None, "ACTIVE", "PASSIVE"}]
           /\ \A r, s \in Regions : role[h][r] = "ACTIVE" /\ role[h][s] = "ACTIVE" => r = s
BY WorkflowAssumption DEF OrchestratorInit, NothingRan, PrimaryStoreHolds, Regions, None

\* With resets at any moment, the primary's store follows the abstract
\* indicator protocol.
THEOREM PrimaryStoreSurvivesResets ==
    ASSUME Cautious
    PROVE  OrchestratorSpec => PrimaryStoreImplements
<1>1. OrchestratorInit => PrimaryStore!Init
  BY WholeStoreInit DEF PrimaryStore!Init, PrimaryStore!Role, PrimaryStore!Unset, None, Regions
<1>2. ResetInv /\ [OrchestratorNext]_allVars => [PrimaryStore!Next]_(role[Primary])
  BY WholeStoreStep DEF StoreNext, Regions, PrimaryStore!Next, PrimaryStore!Drain,
                        PrimaryStore!Activate, PrimaryStore!Retire, PrimaryStore!Forget,
                        PrimaryStore!Unset, None
<1> QED
  BY <1>1, <1>2, ResetInit, ResetNext, PTL
     DEF OrchestratorSpec, PrimaryStoreImplements, PrimaryStore!Spec

\* So does the secondary's.
THEOREM SecondaryStoreSurvivesResets ==
    ASSUME Cautious
    PROVE  OrchestratorSpec => SecondaryStoreImplements
<1>1. OrchestratorInit => SecondaryStore!Init
  BY WholeStoreInit DEF SecondaryStore!Init, SecondaryStore!Role, SecondaryStore!Unset, None, Regions
<1>2. ResetInv /\ [OrchestratorNext]_allVars => [SecondaryStore!Next]_(role[Secondary])
  BY WholeStoreStep DEF StoreNext, Regions, SecondaryStore!Next, SecondaryStore!Drain,
                        SecondaryStore!Activate, SecondaryStore!Retire, SecondaryStore!Forget,
                        SecondaryStore!Unset, None
<1> QED
  BY <1>1, <1>2, ResetInit, ResetNext, PTL
     DEF OrchestratorSpec, SecondaryStoreImplements, SecondaryStore!Spec
-----------------------------------------------------------------------------
(***************************************************************************)
(* A finished reset has stopped what it owed to stop, however executions   *)
(* overlap and whatever fails: of each execution that is still running,    *)
(* either the script has not asked its region for its machine yet, or the  *)
(* execution is on the list that is being worked off.                      *)
(***************************************************************************)
\* A call of the script is still to be made for e.
StillToList(e) ==
    \E j \in 1..Len(script) : script[j] = <<input[e].machine, input[e].home>>

\* What the script consists of.
ScriptStep == {"role", "decision", "control", "failover", "failback"} \X Regions

StopInv ==
    /\ TypeOK
    /\ StartedWithInput
    /\ script \in Seq(ScriptStep)
    /\ owed \subseteq Execs
    /\ \A e \in owed : /\ status[e] # NotStarted
                       /\ Running(e) => e \in listed \/ StillToList(e)

\* An execution that has been started keeps its input and never runs again
\* once it has ended.
Lasts(e) ==
    status[e] # NotStarted =>
        /\ input'[e] = input[e] /\ status'[e] # NotStarted
        /\ Running(e)' => Running(e)

LEMMA ExecutionsLast ==
    ASSUME TypeOK, [Next]_vars, NEW f \in Execs
    PROVE  Lasts(f)
<1> USE DEF Lasts, Running, NotStarted
<1>1. ASSUME NEW e \in Execs, NEW i \in Inputs, StartExecution(e, i) PROVE Lasts(f)
  BY <1>1 DEF StartExecution, TypeOK
<1>2. ASSUME NEW e \in Execs, NEW s, GoTo(e, s) PROVE Lasts(f)
  BY <1>2 DEF GoTo
<1>3. ASSUME NEW e \in Execs, NEW s \in Statuses \ {NotStarted, "RUNNING"}, End(e, s), Running(e)
      PROVE  Lasts(f)
  BY <1>3 DEF End, TypeOK
<1>4. ASSUME NEW e \in Execs, TaskError(e) PROVE Lasts(f)
  BY <1>2, <1>4 DEF TaskError, RetryTask
<1>5. ASSUME NEW e \in Execs, Step(e) PROVE Lasts(f)
  <2>1. CASE PassState(e)
    BY <1>2, <1>5, <2>1 DEF PassState
  <2>2. CASE Precheck(e) \/ NotifyInitiated(e)
    BY <1>2, <1>4, <1>5, <2>2 DEF Precheck, NotifyInitiated
  <2>3. CASE DrainSource(e) \/ PromoteTarget(e) \/ DemoteSource(e)
    BY <1>2, <1>4, <1>5, <2>3 DEF DrainSource, PromoteTarget, DemoteSource, InvokeUpdater
  <2>4. CASE FlipR53ControlMetric(e) \/ Postcheck(e)
    BY <1>2, <1>4, <1>5, <2>4 DEF FlipR53ControlMetric, Postcheck
  <2>5. CASE AuroraGatePause(e) \/ AuroraConfirm(e)
    <3>1. Running(e) /\ "FAILED" \in Statuses \ {NotStarted, "RUNNING"}
      BY <2>5 DEF AuroraGatePause, AuroraConfirm, At, Statuses
    <3> QED
      BY <1>2, <1>3, <1>4, <1>5, <2>5, <3>1 DEF AuroraGatePause, AuroraConfirm, execVars
  <2>6. CASE NotifyCompleted(e)
    <3>1. Running(e) /\ "FAILED" \in Statuses \ {NotStarted, "RUNNING"}
      BY <2>6 DEF NotifyCompleted, At, Statuses
    <3>2. CASE status' = [status EXCEPT ![e] = "SUCCEEDED"] /\ UNCHANGED input
      BY <3>1, <3>2 DEF TypeOK
    <3>3. CASE RetryTask(e) \/ End(e, "FAILED")
      BY <1>3, <3>1, <3>3 DEF RetryTask
    <3> QED
      BY <2>6, <3>2, <3>3 DEF NotifyCompleted
  <2>7. CASE Fail(e)
    BY <1>3, <2>7 DEF Fail, At, Statuses
  <2> QED
    BY <1>5, <2>1, <2>2, <2>3, <2>4, <2>5, <2>6, <2>7 DEF Step
<1>6. ASSUME NEW e \in Execs, Approve(e) \/ Abort(e) \/ GateTimeout(e) PROVE Lasts(f)
  BY <1>2, <1>6 DEF Approve, Abort, GateTimeout
<1>7. ASSUME NEW e \in Execs, ExecutionTimeout(e) \/ StopExecution(e) PROVE Lasts(f)
  BY <1>3, <1>7 DEF ExecutionTimeout, StopExecution, Statuses
<1>8. CASE MoveWriter \/ UNCHANGED vars \/ \E h \in Regions : ManualDrain(h)
  BY <1>8 DEF MoveWriter, ManualDrain, vars, execVars
<1> QED
  BY <1>1, <1>5, <1>6, <1>7, <1>8 DEF Next, Operate

LEMMA KeepsStartedInput ==
    ASSUME TypeOK, StartedWithInput, [Next]_vars
    PROVE  StartedWithInput'
<1> SUFFICES ASSUME NEW e \in Execs, status'[e] # NotStarted PROVE input'[e] \in Inputs
  BY DEF StartedWithInput
<1>1. CASE status[e] # NotStarted
  BY <1>1, ExecutionsLast DEF Lasts, StartedWithInput
<1>2. CASE status[e] = NotStarted
  <2>1. TypeOK'
    BY NextType
  <2>2. PICK f \in Execs, i \in Inputs : StartExecution(f, i)
    <3>1. ASSUME NEW f \in Execs, Step(f) \/ GateTimeout(f) \/ ExecutionTimeout(f) \/ Operate(f)
          PROVE  status'[e] = status[e]
      <4>1. Running(f)
        BY <3>1 DEF Step, PassState, Precheck, NotifyInitiated, DrainSource, PromoteTarget,
              DemoteSource, InvokeUpdater, FlipR53ControlMetric, AuroraGatePause, AuroraConfirm,
              Postcheck, NotifyCompleted, Fail, GateTimeout, GatePaused, ExecutionTimeout,
              Operate, Approve, Abort, StopExecution, At
      <4>2. status' = status \/ \E s : status' = [status EXCEPT ![f] = s]
        BY <3>1 DEF Step, PassState, Precheck, NotifyInitiated, DrainSource, PromoteTarget,
              DemoteSource, InvokeUpdater, FlipR53ControlMetric, AuroraGatePause, AuroraConfirm,
              Postcheck, NotifyCompleted, Fail, GateTimeout, ExecutionTimeout, Operate, Approve,
              Abort, StopExecution, TaskError, RetryTask, GoTo, End, execVars
      <4> QED
        BY <1>2, <4>1, <4>2 DEF TypeOK, Running, NotStarted
    <3>2. ~(MoveWriter \/ UNCHANGED vars \/ \E h \in Regions : ManualDrain(h))
      BY <1>2 DEF MoveWriter, vars, ManualDrain, execVars
    <3> QED
      BY <1>2, <3>1, <3>2 DEF Next
  <2>3. f = e /\ input'[e] = i
    BY <1>2, <2>2 DEF StartExecution, TypeOK
  <2> QED
    BY <2>3
<1> QED
  BY <1>1, <1>2

LEMMA ResetStepsAre ==
    /\ ResetSteps \in Seq(ScriptStep)
    /\ Len(ResetSteps) = 10
    /\ ResetSteps[4] = <<"failover", Primary>> /\ ResetSteps[5] = <<"failback", Primary>>
    /\ ResetSteps[9] = <<"failover", Secondary>> /\ ResetSteps[10] = <<"failback", Secondary>>
<1> DEFINE p == RegionSteps(Primary)
           q == RegionSteps(Secondary)
<1>1. \A h \in Regions : /\ RegionSteps(h) \in Seq(ScriptStep) /\ Len(RegionSteps(h)) = 5
                         /\ RegionSteps(h)[4] = <<"failover", h>>
                         /\ RegionSteps(h)[5] = <<"failback", h>>
  BY DEF RegionSteps, ScriptStep
<1>2. /\ p \in Seq(ScriptStep) /\ Len(p) = 5
      /\ p[4] = <<"failover", Primary>> /\ p[5] = <<"failback", Primary>>
  BY <1>1 DEF Regions
<1>3. /\ q \in Seq(ScriptStep) /\ Len(q) = 5
      /\ q[4] = <<"failover", Secondary>> /\ q[5] = <<"failback", Secondary>>
  BY <1>1 DEF Regions
<1> HIDE DEF p, q
<1>4. /\ p \o q \in Seq(ScriptStep)
      /\ Len(p \o q) = Len(p) + Len(q)
      /\ \A i \in 1 .. Len(p) + Len(q) : (p \o q)[i] = IF i <= Len(p) THEN p[i] ELSE q[i - Len(p)]
  BY <1>2, <1>3, ConcatProperties, Zenon
<1>5. /\ (p \o q)[4] = p[4] /\ (p \o q)[5] = p[5]
      /\ (p \o q)[9] = q[4] /\ (p \o q)[10] = q[5]
  BY <1>2, <1>3, <1>4
<1> QED
  BY <1>2, <1>3, <1>4, <1>5 DEF ResetSteps, p, q

\* The script makes its next call.
LEMMA ScriptMovesOn ==
    ASSUME script \in Seq(ScriptStep), NEW what, NEW h, Doing(what, h), script' = Tail(script)
    PROVE  /\ script' \in Seq(ScriptStep)
           /\ \A e \in Execs : StillToList(e) /\ <<input[e].machine, input[e].home>> # <<what, h>>
                                  /\ input'[e] = input[e] => StillToList(e)'
<1>1. script # <<>> /\ script[1] = <<what, h>> /\ Len(script) \in Nat
  BY LenProperties DEF Doing
<1>2. /\ Tail(script) \in Seq(ScriptStep) /\ Len(Tail(script)) = Len(script) - 1
      /\ \A i \in 1..Len(Tail(script)) : Tail(script)[i] = script[i + 1]
  BY <1>1, HeadTailProperties
<1>3. ASSUME NEW c, c # <<what, h>>, NEW j \in 1..Len(script), script[j] = c
      PROVE  \E k \in 1..Len(Tail(script)) : Tail(script)[k] = c
  <2>1. j # 1
    BY <1>1, <1>3
  <2>2. j - 1 \in 1..Len(Tail(script)) /\ Tail(script)[j - 1] = c
    BY <1>1, <1>2, <1>3, <2>1
  <2> QED
    BY <2>2
<1> QED
  BY <1>2, <1>3 DEF StillToList

LEMMA DeleteRoleType ==
    ASSUME TypeOK, NEW h \in Regions, DeleteRole(h)
    PROVE  TypeOK'
<1>1. CASE role' = role
  BY <1>1 DEF DeleteRole, TypeOK, execVars
<1>2. CASE role' = [role EXCEPT ![h][h] = None]
  <2>1. role' \in [Regions -> [Regions -> Role \cup {None}]]
    BY <1>2, OverwriteType DEF TypeOK
  <2> QED
    BY <2>1 DEF DeleteRole, TypeOK, execVars
<1> QED
  BY <1>1, <1>2 DEF DeleteRole

\* The parts of the system that leave the script alone.
LEMMA WorkflowStopStep ==
    ASSUME StopInv, [Next]_vars, UNCHANGED <<script, listed, owed>>
    PROVE  StopInv'
<1>1. TypeOK' /\ StartedWithInput'
  BY NextType, KeepsStartedInput DEF StopInv
<1>2. ASSUME NEW e \in owed
      PROVE  status'[e] # NotStarted /\ (Running(e)' => e \in listed' \/ StillToList(e)')
  BY ExecutionsLast DEF StopInv, Lasts, StillToList
<1> QED
  BY <1>1, <1>2 DEF StopInv

\* A call that asks no region for its executions.
LEMMA OtherCallStep ==
    ASSUME StopInv, NEW what \in {"role", "decision", "control"}, NEW h \in Regions,
           Doing(what, h), script' = Tail(script), UNCHANGED <<pc, status, input, listed, owed>>,
           TypeOK'
    PROVE  StopInv'
<1>1. StartedWithInput'
  BY DEF StopInv, StartedWithInput
<1>2. script' \in Seq(ScriptStep)
  BY ScriptMovesOn DEF StopInv
<1>3. ASSUME NEW e \in owed, Running(e) PROVE e \in listed' \/ StillToList(e)'
  <2>1. input[e].machine \in {"failover", "failback"}
    BY <1>3, WorkflowAssumption DEF StopInv, StartedWithInput, Running, NotStarted, Input
  <2>2. StillToList(e)
    BY <1>3 DEF StopInv, Doing
  <2>3. <<input[e].machine, input[e].home>> # <<what, h>>
    BY <2>1
  <2> QED
    BY <2>2, <2>3, ScriptMovesOn DEF StopInv
<1> QED
  BY <1>1, <1>2, <1>3 DEF StopInv, Running

LEMMA ListStep ==
    ASSUME StopInv, NEW m \in {"failover", "failback"}, NEW h \in Regions, ListRunning(m, h)
    PROVE  StopInv'
<1>0. UNCHANGED <<pc, status, input>> /\ Doing(m, h) /\ script' = Tail(script) /\ UNCHANGED vars
  BY DEF ListRunning, vars
<1>1. TypeOK' /\ StartedWithInput'
  BY <1>0 DEF StopInv, TypeOK, StartedWithInput, vars
<1>2. script' \in Seq(ScriptStep) /\ owed' \subseteq owed
  BY <1>0, ScriptMovesOn DEF StopInv, ListRunning
<1>3. ASSUME NEW e \in owed', Running(e) PROVE e \in listed' \/ StillToList(e)'
  <2>1. StillToList(e)
    BY <1>0, <1>2, <1>3 DEF StopInv, Doing
  <2>2. CASE <<input[e].machine, input[e].home>> = <<m, h>>
    <3>1. e \in RunningOf(m, h)
      BY <1>2, <1>3, <2>2 DEF RunningOf, StopInv
    <3> QED
      BY <1>3, <3>1 DEF ListRunning
  <2>3. CASE <<input[e].machine, input[e].home>> # <<m, h>>
    BY <1>0, <1>2, <1>3, <2>1, <2>3, ScriptMovesOn DEF StopInv
  <2> QED
    BY <2>2, <2>3
<1> QED
  BY <1>0, <1>1, <1>2, <1>3 DEF StopInv, Running

LEMMA StopOneStep ==
    ASSUME StopInv, NEW e \in Execs, StopListed(e)
    PROVE  StopInv'
<1>1. CASE Running(e) /\ End(e, "ABORTED") /\ UNCHANGED owed
  <2>1. TypeOK'
    BY <1>1, EndType DEF StopListed, StopInv, TypeOK, ExecTypeOK, Statuses
  <2>2. /\ input' = input /\ status'[e] # NotStarted /\ ~Running(e)'
        /\ \A f \in Execs \ {e} : status'[f] = status[f]
    BY <1>1, EndAlone DEF StopInv, Alone, Statuses, NotStarted
  <2>3. StartedWithInput'
    BY <1>1, <2>2 DEF StopInv, StartedWithInput, Running, NotStarted
  <2>4. ASSUME NEW f \in owed
        PROVE  status'[f] # NotStarted /\ (Running(f)' => f \in listed' \/ StillToList(f)')
    BY <1>1, <2>2 DEF StopListed, StopInv, Running, StillToList
  <2> QED
    BY <1>1, <2>1, <2>3, <2>4 DEF StopListed, StopInv
<1>2. CASE UNCHANGED execVars /\ (owed' = owed \ {e} \/ (UNCHANGED owed /\ ~Running(e)))
  BY <1>2 DEF StopListed, StopInv, TypeOK, StartedWithInput, Running, StillToList, execVars
<1> QED
  BY <1>1, <1>2 DEF StopListed

LEMMA StartResetStep ==
    ASSUME StopInv, StartReset
    PROVE  StopInv'
<1>1. TypeOK' /\ StartedWithInput' /\ script' \in Seq(ScriptStep)
  BY ResetStepsAre DEF StartReset, StopInv, TypeOK, StartedWithInput, vars
<1>2. ASSUME NEW e \in owed' PROVE e \in Execs /\ status'[e] # NotStarted /\ StillToList(e)'
  <2>1. e \in Execs /\ Running(e) /\ script' = ResetSteps /\ input' = input /\ status' = status
    BY <1>2 DEF StartReset, vars
  <2>2. input[e].machine \in {"failover", "failback"} /\ input[e].home \in Regions
    BY <2>1, WorkflowAssumption DEF StopInv, StartedWithInput, Running, NotStarted, Input
  <2>3. \E j \in {4, 5, 9, 10} : ResetSteps[j] = <<input[e].machine, input[e].home>>
    BY <2>2, ResetStepsAre DEF Regions
  <2>4. StillToList(e)'
    BY <2>1, <2>3, ResetStepsAre DEF StillToList
  <2> QED
    BY <2>1, <2>4 DEF Running, NotStarted
<1> QED
  BY <1>1, <1>2 DEF StopInv

LEMMA StopInit == OrchestratorInit => StopInv
<1> SUFFICES ASSUME OrchestratorInit PROVE StopInv
  OBVIOUS
<1>1. TypeOK /\ StartedWithInput
  BY ResetInit DEF ResetInv
<1> QED
  BY <1>1 DEF StopInv, OrchestratorInit

LEMMA StopNext == StopInv /\ [OrchestratorNext]_allVars => StopInv'
<1> SUFFICES ASSUME StopInv, [OrchestratorNext]_allVars PROVE StopInv'
  OBVIOUS
<1>1. ASSUME NEW e \in Execs, Flip(e) \/ Work(e) PROVE StopInv'
  <2>1. Next /\ UNCHANGED <<script, listed, owed>>
    BY <1>1 DEF Flip, Work, Next, Step, scriptVars
  <2> QED
    BY <2>1, WorkflowStopStep
<1>2. ASSUME NEW h \in Regions, Drain(h) PROVE StopInv'
  <2>1. Next /\ UNCHANGED <<script, listed, owed>>
    BY <1>2 DEF Drain, Next, scriptVars
  <2> QED
    BY <2>1, WorkflowStopStep
<1>3. CASE UNCHANGED vars /\ UNCHANGED <<script, listed, owed>>
  BY <1>3, WorkflowStopStep
<1>4. ASSUME NEW h \in Regions, Evaluate(h) PROVE UNCHANGED vars /\ UNCHANGED <<script, listed, owed>>
  BY <1>4 DEF Evaluate, scriptVars
<1>5. CASE Minute \/ RacedEngineClears \/ (\E value \in {"trip", "clear"} : EngineEmits(value))
  <2>1. UNCHANGED vars /\ UNCHANGED <<script, listed, owed>>
    BY <1>5 DEF Minute, RacedEngineClears, EngineEmits, scriptVars
  <2> QED
    BY <1>3, <2>1
<1>6. ASSUME NEW h \in Regions, DeleteRole(h) PROVE StopInv'
  <2>1. TypeOK'
    BY <1>6, DeleteRoleType DEF StopInv
  <2> QED
    BY <1>6, <2>1, OtherCallStep DEF DeleteRole, execVars
<1>7. ASSUME NEW h \in Regions, DeleteDecision(h) \/ ClearControl(h) PROVE StopInv'
  <2>1. UNCHANGED vars /\ TypeOK'
    BY <1>7 DEF DeleteDecision, ClearControl, StopInv, TypeOK, vars
  <2>2. CASE DeleteDecision(h)
    BY <2>1, <2>2, OtherCallStep DEF DeleteDecision, vars
  <2>3. CASE ClearControl(h)
    BY <2>1, <2>3, OtherCallStep DEF ClearControl, vars
  <2> QED
    BY <1>7, <2>2, <2>3
<1>8. ASSUME NEW h \in Regions, NEW m \in {"failover", "failback"}, ListRunning(m, h)
      PROVE  StopInv'
  BY <1>8, ListStep
<1>9. ASSUME NEW e \in Execs, StopListed(e) PROVE StopInv'
  BY <1>9, StopOneStep
<1>10. CASE ResetDies
  <2>1. /\ UNCHANGED vars /\ script' = <<>> /\ owed' = {}
        /\ <<>> \in Seq(ScriptStep)
    BY <1>10 DEF ResetDies
  <2> QED
    BY <2>1 DEF StopInv, TypeOK, StartedWithInput, vars
<1>11. CASE UNCHANGED allVars
  BY <1>3, <1>11 DEF allVars, scriptVars
<1> QED
  BY <1>1, <1>2, <1>3, <1>4, <1>5, <1>6, <1>7, <1>8, <1>9, <1>10, <1>11, StartResetStep
     DEF OrchestratorNext, Reset

\* When scenario_reset.sh has come to its end, every execution it found
\* running has ended, in both regions and of both machines, except those for
\* which a call failed; this needs no rule for the operators.
THEOREM ResetStopsAllOwed == OrchestratorSpec => []ResetStopsAll
<1>1. StopInv => ResetStopsAll
  BY DEF StopInv, ResetStopsAll, ResetDone, StillToList
<1> QED
  BY <1>1, StopInit, StopNext, PTL DEF OrchestratorSpec

-----------------------------------------------------------------------------
(***************************************************************************)
(* DNS and the reset.  The secondary is answered only while its alarm is   *)
(* not breached, which takes a datapoint "clear" of its own metric; the    *)
(* invariant dates every such datapoint, and the alarm's state, by the     *)
(* last reset.                                                             *)
(***************************************************************************)
\* manual_trigger's failbacks return to the primary (ExecutionInput): none
\* clears the metric of the secondary.
FailbacksComeHome == \A i \in Inputs : i.machine = "failback" => i.target = Primary

DnsInv ==
    /\ Dns!TypeOK
    /\ sinceReset \in 0..LongAgo
    /\ \A a \in 0..LookBack : maximum[Secondary][a] = "clear" => sinceReset <= a + 1
    /\ ~alarm[Secondary] => sinceReset <= LookBack + 2

\* An alarm that is not breached has found a datapoint "clear".
LEMMA UnbreachedIsClear ==
    ASSUME Dns!TypeOK, NEW r \in Regions, ~Dns!Breached(r)
    PROVE  \E a \in 0..LookBack : maximum[r][a] = "clear"
<1> DEFINE Found(a) == /\ maximum[r][a] # Dns!NoData
                       /\ \A b \in 0..LookBack : b < a => maximum[r][b] = Dns!NoData
           T == {a \in 0..LookBack : maximum[r][a] # Dns!NoData}
<1>1. Dns!Latest(r) = "clear" /\ "clear" # Dns!NoData
  BY DEF Dns!Breached, Dns!NoData
<1>2. T # {} /\ T \in SUBSET Nat
  BY <1>1, OrchestratorAssumption DEF Dns!Latest
<1> HIDE DEF T
<1>3. PICK a \in T : \A b \in T : a <= b
  BY <1>2, LeastElement
<1>4. a \in 0..LookBack /\ Found(a)
  BY <1>3, OrchestratorAssumption DEF T
<1> HIDE DEF Found
<1>5. (CHOOSE c \in 0..LookBack : Found(c)) \in 0..LookBack
  BY <1>4
<1>6. Dns!Latest(r) = maximum[r][CHOOSE c \in 0..LookBack : Found(c)]
  BY <1>4 DEF Dns!Latest, Found
<1> QED
  BY <1>1, <1>5, <1>6

\* An emission can only be a concern in the secondary, and only a "clear".
LEMMA EmissionKeepsDates ==
    ASSUME DnsInv, NEW r \in Regions, NEW value \in {"trip", "clear"}, Dns!Emit(r, value),
           UNCHANGED alarm, sinceReset' \in {sinceReset, 0},
           r = Secondary /\ value = "clear" => sinceReset' <= 1
    PROVE  DnsInv'
<1>0. LookBack \in Nat /\ LongAgo \in Nat
  BY OrchestratorAssumption DEF LongAgo
<1>1. maximum \in [Regions -> [0..LookBack -> {Dns!NoData, "trip", "clear"}]]
  BY DEF DnsInv, Dns!TypeOK, Dns!Records, Regions
<1>2. /\ \A q \in Regions \ {r} : maximum'[q] = maximum[q]
      /\ maximum'[r] = [maximum[r] EXCEPT ![0] = IF @ = "clear" THEN "clear" ELSE value]
      /\ maximum' \in [Regions -> [0..LookBack -> {Dns!NoData, "trip", "clear"}]]
  <2>1. [maximum[r] EXCEPT ![0] = IF @ = "clear" THEN "clear" ELSE value]
            \in [0..LookBack -> {Dns!NoData, "trip", "clear"}]
    BY <1>1
  <2> QED
    BY <1>1, <2>1 DEF Dns!Emit
<1>3. ASSUME NEW a \in 0..LookBack, maximum'[Secondary][a] = "clear" PROVE sinceReset' <= a + 1
  <2>1. Secondary \in Regions
    BY DEF Regions
  <2>2. CASE maximum[Secondary][a] = "clear"
    BY <1>0, <2>2 DEF DnsInv
  <2>3. CASE maximum[Secondary][a] # "clear"
    <3>1. r = Secondary /\ a = 0 /\ value = "clear"
      BY <1>0, <1>1, <1>2, <1>3, <2>1, <2>3
    <3> QED
      BY <3>1
  <2> QED
    BY <2>2, <2>3
<1>4. sinceReset' \in 0..LongAgo /\ (~alarm'[Secondary] => sinceReset' <= LookBack + 2)
  BY <1>0 DEF DnsInv
<1>5. Dns!TypeOK'
  BY <1>2 DEF DnsInv, Dns!TypeOK, Dns!Records, Regions
<1> QED
  BY <1>3, <1>4, <1>5 DEF DnsInv

LEMMA UnbreachedIsRecent ==
    ASSUME DnsInv, ~Dns!Breached(Secondary)
    PROVE  sinceReset <= LookBack + 1
<1>1. PICK a \in 0..LookBack : maximum[Secondary][a] = "clear"
  BY UnbreachedIsClear DEF DnsInv, Regions
<1>2. sinceReset <= a + 1 /\ LookBack \in Nat /\ LongAgo \in Nat /\ sinceReset \in 0..LongAgo
  BY <1>1, OrchestratorAssumption DEF DnsInv, LongAgo
<1> QED
  BY <1>2

LEMMA EvaluateKeepsDates ==
    ASSUME DnsInv, NEW r \in Regions, Dns!Evaluate(r), UNCHANGED sinceReset
    PROVE  DnsInv'
<1>1. alarm' \in [Regions -> BOOLEAN] /\ UNCHANGED maximum
  BY DEF Dns!Evaluate, DnsInv, Dns!TypeOK, Dns!Records, Dns!Breached, Regions
<1>2. ~alarm'[Secondary] => ~alarm[Secondary] \/ ~Dns!Breached(Secondary)
  BY DEF Dns!Evaluate, DnsInv, Dns!TypeOK, Dns!Records, Regions
<1>3. ~alarm'[Secondary] => sinceReset <= LookBack + 2
  BY <1>2, UnbreachedIsRecent, OrchestratorAssumption DEF DnsInv, LongAgo
<1> QED
  BY <1>1, <1>3 DEF DnsInv, Dns!TypeOK, Dns!Records, Regions

LEMMA MinuteKeepsDates ==
    ASSUME DnsInv, Minute
    PROVE  DnsInv'
<1>0. LookBack \in Nat /\ LongAgo = LookBack + 3
  BY OrchestratorAssumption DEF LongAgo
<1>1. /\ sinceReset' \in 0..LongAgo
      /\ sinceReset <= LookBack + 2 => sinceReset' = sinceReset + 1
  BY <1>0 DEF Minute, DnsInv
<1>2. maximum \in [Regions -> [0..LookBack -> {Dns!NoData, "trip", "clear"}]]
  BY DEF DnsInv, Dns!TypeOK, Dns!Records, Regions
<1>3. ASSUME NEW r \in Regions
      PROVE  /\ maximum'[r] \in [0..LookBack -> {Dns!NoData, "trip", "clear"}]
             /\ \A a \in 0..LookBack : maximum'[r][a] = IF a = 0 THEN Dns!NoData ELSE maximum[r][a - 1]
  <2>1. maximum'[r] = [a \in 0..LookBack |-> IF a = 0 THEN Dns!NoData ELSE maximum[r][a - 1]]
    BY DEF Minute, Dns!Minute, Dns!Records, Regions
  <2> QED
    BY <1>0, <1>2, <2>1
<1>4. Dns!TypeOK'
  <2>1. maximum' \in [Regions -> [0..LookBack -> {Dns!NoData, "trip", "clear"}]]
    BY <1>3 DEF Minute, Dns!Minute, Dns!Records, Regions
  <2>2. alarm' \in [Regions -> BOOLEAN]
    BY DEF Minute, Dns!Minute, Dns!Records, Dns!Breached, Regions
  <2> QED
    BY <2>1, <2>2 DEF Dns!TypeOK, Dns!Records, Regions
<1>5. ASSUME NEW a \in 0..LookBack, maximum'[Secondary][a] = "clear" PROVE sinceReset' <= a + 1
  <2>1. a # 0 /\ maximum[Secondary][a - 1] = "clear"
    BY <1>3, <1>5 DEF Regions, Dns!NoData
  <2>2. a - 1 \in 0..LookBack
    BY <1>0, <2>1
  <2>3. sinceReset <= (a - 1) + 1
    BY <2>1, <2>2 DEF DnsInv
  <2> QED
    BY <1>0, <1>1, <2>2, <2>3 DEF DnsInv
<1>6. ~alarm'[Secondary] => sinceReset' <= LookBack + 2
  <2>1. ~alarm'[Secondary] => ~Dns!Breached(Secondary)
    BY DEF Minute, Dns!Minute, Dns!Records
  <2> QED
    BY <1>0, <1>1, <2>1, UnbreachedIsRecent DEF DnsInv
<1> QED
  BY <1>1, <1>4, <1>5, <1>6 DEF DnsInv

\* FLIP_R53_CONTROL_METRIC never clears the secondary's own metric.
LEMMA FlipKeepsDates ==
    ASSUME FailbacksComeHome, StopInv, DnsInv, NEW e \in Execs, Flip(e)
    PROVE  DnsInv'
<1> DEFINE i == input[e]
<1>1. i \in Inputs /\ UNCHANGED <<alarm, sinceReset>>
  BY DEF Flip, FlipR53ControlMetric, At, StopInv, StartedWithInput, Running, NotStarted, scriptVars
<1>2. CASE UNCHANGED maximum
  BY <1>1, <1>2 DEF DnsInv, Dns!TypeOK
<1>3. CASE Watched(e) /\ Dns!Emit(i.home, FlipValue(i))
  <2>1. i.home \in Regions /\ FlipValue(i) \in {"trip", "clear"}
    BY <1>1, WorkflowAssumption DEF Input, FlipValue
  <2>2. ~(i.home = Secondary /\ FlipValue(i) = "clear")
    BY <1>1, <1>3, WorkflowAssumption DEF FailbacksComeHome, Watched, FlippedRegion, FlipValue, Input
  <2> QED
    BY <1>1, <1>3, <2>1, <2>2, EmissionKeepsDates
<1> QED
  BY <1>2, <1>3 DEF Flip

LEMMA ResetKeepsDates ==
    ASSUME DnsInv, Reset
    PROVE  DnsInv'
<1>0. LongAgo \in Nat /\ LookBack \in Nat
  BY OrchestratorAssumption DEF LongAgo
<1>1. ASSUME UNCHANGED dnsVars, sinceReset' \in {sinceReset, 0} PROVE DnsInv'
  BY <1>0, <1>1 DEF DnsInv, Dns!TypeOK, dnsVars
<1>2. ASSUME NEW h \in Regions, ClearControl(h) PROVE DnsInv'
  <2>1. UNCHANGED alarm /\ sinceReset' \in {sinceReset, 0} /\ (h = Secondary => sinceReset' = 0)
    BY <1>2 DEF ClearControl
  <2>2. CASE UNCHANGED maximum
    BY <1>1, <2>1, <2>2 DEF dnsVars
  <2>3. CASE Dns!Emit(h, "clear")
    BY <2>1, <2>3, EmissionKeepsDates
  <2> QED
    BY <1>2, <2>2, <2>3 DEF ClearControl
<1>3. ASSUME NEW h \in Regions,
             DeleteRole(h) \/ DeleteDecision(h)
                 \/ \E m \in {"failover", "failback"} : ListRunning(m, h)
      PROVE  DnsInv'
  BY <1>1, <1>3 DEF DeleteRole, DeleteDecision, ListRunning
<1>4. ASSUME NEW e \in Execs, StopListed(e) PROVE DnsInv'
  BY <1>1, <1>4 DEF StopListed
<1>5. CASE StartReset \/ ResetDies
  BY <1>1, <1>5 DEF StartReset, ResetDies
<1> QED
  BY <1>2, <1>3, <1>4, <1>5 DEF Reset

LEMMA DnsInit == OrchestratorInit => DnsInv
<1> SUFFICES ASSUME OrchestratorInit PROVE DnsInv
  OBVIOUS
<1>1. LookBack \in Nat /\ sinceReset = LookBack + 3 /\ LongAgo = LookBack + 3
  BY OrchestratorAssumption DEF OrchestratorInit, LongAgo
<1>2. /\ maximum = [r \in Regions |-> [a \in 0..LookBack |-> Dns!NoData]]
      /\ alarm = [r \in Regions |-> TRUE]
  BY DEF OrchestratorInit, Dns!Init, Dns!Records, Regions
<1> QED
  BY <1>1, <1>2 DEF DnsInv, Dns!TypeOK, Dns!Records, Dns!NoData, Regions

LEMMA DnsNext ==
    ASSUME FailbacksComeHome
    PROVE  StopInv /\ DnsInv /\ [OrchestratorNext]_allVars => DnsInv'
<1> SUFFICES ASSUME StopInv, DnsInv, [OrchestratorNext]_allVars PROVE DnsInv'
  OBVIOUS
<1>1. ASSUME UNCHANGED <<dnsVars, sinceReset>> PROVE DnsInv'
  BY <1>1 DEF DnsInv, Dns!TypeOK, dnsVars
<1>2. ASSUME NEW e \in Execs, Flip(e) PROVE DnsInv'
  BY <1>2, FlipKeepsDates
<1>3. ASSUME NEW e \in Execs, Work(e) PROVE DnsInv'
  BY <1>1, <1>3 DEF Work, scriptVars
<1>4. ASSUME NEW h \in Regions, Drain(h) PROVE DnsInv'
  BY <1>1, <1>4 DEF Drain, scriptVars
<1>5. ASSUME NEW h \in Regions, Evaluate(h) PROVE DnsInv'
  BY <1>5, EvaluateKeepsDates DEF Evaluate, scriptVars
<1>6. ASSUME NEW value \in {"trip", "clear"}, EngineEmits(value) PROVE DnsInv'
  BY <1>6, EmissionKeepsDates, WorkflowAssumption DEF EngineEmits, scriptVars, Regions
<1>7. CASE RacedEngineClears
  BY <1>7, EmissionKeepsDates DEF RacedEngineClears, scriptVars, Regions
<1>8. CASE UNCHANGED allVars
  BY <1>1, <1>8 DEF allVars, scriptVars
<1> QED
  BY <1>2, <1>3, <1>4, <1>5, <1>6, <1>7, <1>8, MinuteKeepsDates, ResetKeepsDates
     DEF OrchestratorNext

\* The only thing in the system that sends traffic to the secondary is a
\* reset, and only for the alarm's look-back and two minutes: no execution, in
\* either region, no engine, trip or clear, and no order of alarm evaluations
\* and emissions does.
THEOREM SecondaryAlwaysNeedsReset ==
    ASSUME FailbacksComeHome
    PROVE  OrchestratorSpec => []SecondaryNeedsReset
<1>1. DnsInv => SecondaryNeedsReset
  BY WorkflowAssumption DEF DnsInv, SecondaryNeedsReset, Dns!Answer
<1> QED
  BY <1>1, StopInit, StopNext, DnsInit, DnsNext, PTL DEF OrchestratorSpec
=============================================================================
