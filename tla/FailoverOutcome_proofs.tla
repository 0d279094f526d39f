----------------------- MODULE FailoverOutcome_proofs -----------------------
(***************************************************************************)
(* What an execution of FailoverWorkflow leaves behind: its message, its   *)
(* audit record and the promoted target.  The first two hold however       *)
(* executions overlap and whatever indicator_updater swallows, so they     *)
(* have an invariant of their own, in which executions are independent.    *)
(***************************************************************************)
EXTENDS FailoverWorkflow_proofs

(***************************************************************************)
(* A message is published only at the end it reports; and while e runs, or *)
(* has failed, nothing has been published that a retry could contradict.   *)
(***************************************************************************)
MessageIsTrue(e) ==
    /\ <<e, "completed">> \in sns => pc[e] \in {"NOTIFY_COMPLETED", "STABLE"}
    /\ <<e, "failed">> \in sns => pc[e] = "FAIL"
    /\ status[e] = NotStarted => pc[e] = NotStarted
    /\ pc[e] = "STABLE" => status[e] = "SUCCEEDED"
    /\ status[e] = "SUCCEEDED" =>
           /\ pc[e] \in {"STABLE", "FAIL"}
           /\ ~input[e].dry_run => <<e, IF pc[e] = "STABLE" THEN "completed" ELSE "failed">> \in sns

\* PRECHECK is passed only with its record written.
RecordIsWritten(e) ==
    Running(e) /\ pc[e] \notin {"EVALUATE", "PRECHECK", "FAIL"} => e \in audit

OutcomeInv ==
    /\ TypeOK
    /\ StartedWithInput
    /\ \A e \in Execs : MessageIsTrue(e) /\ RecordIsWritten(e)

\* A step of e publishes and records nothing but its own.
OwnTraces(e) ==
    /\ sns \subseteq sns' /\ sns' \subseteq sns \cup ({e} \X Events)
    /\ audit \subseteq audit'

LEMMA FollowTraces ==
    ASSUME OutcomeInv, NEW e \in Execs, Alone(e), OwnTraces(e), TypeOK',
           MessageIsTrue(e)', RecordIsWritten(e)'
    PROVE  OutcomeInv'
<1>1. StartedWithInput'
  BY DEF OutcomeInv, StartedWithInput, Alone, Running, NotStarted
<1>2. ASSUME NEW f \in Execs, f # e PROVE MessageIsTrue(f)' /\ RecordIsWritten(f)'
  <2>1. pc'[f] = pc[f] /\ status'[f] = status[f] /\ input'[f] = input[f]
    BY <1>2 DEF Alone
  <2>2. \A event : <<f, event>> \in sns' <=> <<f, event>> \in sns
    BY <1>2 DEF OwnTraces
  <2>3. MessageIsTrue(f) /\ RecordIsWritten(f)
    BY DEF OutcomeInv
  <2>4. MessageIsTrue(f)'
    BY <2>1, <2>2, <2>3 DEF MessageIsTrue
  <2>5. RecordIsWritten(f)'
    BY <2>1, <2>3 DEF RecordIsWritten, Running, OwnTraces
  <2> QED
    BY <2>4, <2>5
<1> QED
  BY <1>1, <1>2 DEF OutcomeInv

\* A step of e that moves on, or retries, and reports no outcome.
LEMMA MoveOn ==
    ASSUME OutcomeInv, NEW e \in Execs, Alone(e), OwnTraces(e), TypeOK',
           status' = status,
           sns' \subseteq sns \cup ({e} \X {"initiated", "gate_paused"}),
           pc'[e] = pc[e] \/ pc[e] \notin {"NOTIFY_COMPLETED", "FAIL"},
           pc'[e] \notin {"STABLE", NotStarted},
           \/ e \in audit'
           \/ pc'[e] \in {pc[e], "FAIL"}
           \/ pc'[e] = "PRECHECK"
           \/ pc[e] \notin {"EVALUATE", "PRECHECK", "FAIL"}
    PROVE  OutcomeInv'
<1>1. MessageIsTrue(e) /\ RecordIsWritten(e) /\ status[e] = "RUNNING"
  BY DEF OutcomeInv, Alone, Running
<1>2. /\ <<e, "completed">> \in sns' <=> <<e, "completed">> \in sns
      /\ <<e, "failed">> \in sns' <=> <<e, "failed">> \in sns
  BY DEF OwnTraces
<1>3. MessageIsTrue(e)'
  BY <1>1, <1>2 DEF MessageIsTrue, NotStarted
<1>4. RecordIsWritten(e)'
  BY <1>1 DEF RecordIsWritten, Running, OwnTraces
<1> QED
  BY <1>3, <1>4, FollowTraces

\* The end of e where it stands, with a message if that state sends one.
LEMMA EndHere ==
    ASSUME OutcomeInv, NEW e \in Execs, TypeOK', Running(e), OwnTraces(e),
           NEW s \in Statuses \ {NotStarted, "RUNNING"}, End(e, s),
           \/ UNCHANGED sns
           \/ pc[e] = "NOTIFY_COMPLETED" /\ Publish(e, "completed")
           \/ pc[e] = "FAIL" /\ Publish(e, "failed"),
           s = "SUCCEEDED" => pc[e] = "FAIL" /\ Publish(e, "failed")
    PROVE  OutcomeInv'
<1>1. Alone(e) /\ ~Running(e)' /\ pc' = pc /\ input' = input /\ status'[e] = s
  BY EndAlone DEF OutcomeInv, TypeOK, End
<1>2. MessageIsTrue(e) /\ status[e] = "RUNNING"
  BY DEF OutcomeInv, Running
<1>3. MessageIsTrue(e)'
  BY <1>1, <1>2 DEF MessageIsTrue, Publish, NotStarted
<1>4. RecordIsWritten(e)'
  BY <1>1 DEF RecordIsWritten
<1> QED
  BY <1>1, <1>3, <1>4, FollowTraces

-----------------------------------------------------------------------------
LEMMA PublishOwn ==
    ASSUME NEW e \in Execs, NEW event \in Events, UNCHANGED sns \/ Publish(e, event),
           UNCHANGED audit
    PROVE  OwnTraces(e)
BY DEF OwnTraces, Publish

\* The steps that move on, or end, without a message.
LEMMA SilentSteps ==
    ASSUME OutcomeInv, NEW e \in Execs, TypeOK',
           \/ PassState(e) \/ DrainSource(e) \/ PromoteTarget(e) \/ DemoteSource(e)
           \/ FlipR53ControlMetric(e) \/ AuroraConfirm(e) \/ Postcheck(e)
           \/ Approve(e) \/ Abort(e) \/ GateTimeout(e)
    PROVE  OutcomeInv'
<1>1. /\ Running(e) /\ TypeOK /\ UNCHANGED <<sns, audit>> /\ OwnTraces(e)
      /\ pc[e] \in StateNames \ {"STABLE", "NOTIFY_COMPLETED", "FAIL"}
      /\ \/ \E s \in StateNames \ {"STABLE"} :
                GoTo(e, s) /\ (pc[e] \in {"EVALUATE", "PRECHECK"} => s = "PRECHECK")
         \/ TaskError(e)
         \/ End(e, "FAILED")
  BY DEF OutcomeInv, PassState, DrainSource, PromoteTarget, DemoteSource, InvokeUpdater,
         FlipR53ControlMetric, AuroraConfirm, Postcheck, Approve, Abort, GateTimeout, GatePaused,
         At, StateNames, OwnTraces
<1>2. CASE \E s \in StateNames \ {"STABLE"} :
               GoTo(e, s) /\ (pc[e] \in {"EVALUATE", "PRECHECK"} => s = "PRECHECK")
  BY <1>1, <1>2, GoToAlone, MoveOn DEF StateNames, NotStarted
<1>3. CASE TaskError(e)
  BY <1>1, <1>3, TaskErrorAlone, MoveOn DEF StateNames, NotStarted
<1>4. CASE End(e, "FAILED")
  BY <1>1, <1>4, EndHere DEF Statuses, NotStarted
<1> QED
  BY <1>1, <1>2, <1>3, <1>4

\* PRECHECK writes the record, unless the attempt fails before it.
LEMMA PrecheckTraces ==
    ASSUME OutcomeInv, NEW e \in Execs, Precheck(e), TypeOK'
    PROVE  OutcomeInv'
<1>1. Running(e) /\ TypeOK /\ pc[e] = "PRECHECK" /\ UNCHANGED sns
  BY DEF Precheck, At, OutcomeInv
<1>2. OwnTraces(e)
  BY <1>1 DEF Precheck, OwnTraces
<1>3. CASE audit' = audit \cup {e} /\ GoTo(e, "NOTIFY_INITIATED")
  BY <1>1, <1>2, <1>3, GoToAlone, MoveOn DEF NotStarted
<1>4. CASE TaskError(e)
  BY <1>1, <1>2, <1>4, TaskErrorAlone, MoveOn DEF NotStarted
<1>5. CASE GoTo(e, "FAIL")
  BY <1>1, <1>2, <1>5, GoToAlone, MoveOn DEF NotStarted
<1> QED
  BY <1>3, <1>4, <1>5 DEF Precheck

\* The two messages that report no outcome.
LEMMA NotificationTraces ==
    ASSUME OutcomeInv, NEW e \in Execs, NotifyInitiated(e) \/ AuroraGatePause(e), TypeOK'
    PROVE  OutcomeInv'
<1>1. CASE NotifyInitiated(e)
  <2>1. /\ Running(e) /\ TypeOK /\ pc[e] = "NOTIFY_INITIATED" /\ OwnTraces(e)
        /\ sns' \subseteq sns \cup ({e} \X {"initiated"})
    BY <1>1, PublishOwn DEF NotifyInitiated, At, OutcomeInv, Publish, Events
  <2>2. GoTo(e, "DRAIN_SOURCE") \/ TaskError(e)
    BY <1>1 DEF NotifyInitiated
  <2> QED
    BY <2>1, <2>2, GoToAlone, TaskErrorAlone, MoveOn DEF NotStarted
<1>2. CASE AuroraGatePause(e)
  <2>1. Running(e) /\ TypeOK /\ pc[e] = "AURORA_GATE_PAUSE" /\ UNCHANGED audit
    BY <1>2 DEF AuroraGatePause, At, OutcomeInv
  <2>2. CASE sns' = sns \cup {<<e, "gate_paused">>} /\ UNCHANGED execVars
    <3>1. OwnTraces(e) /\ sns' \subseteq sns \cup ({e} \X {"gate_paused"})
      BY <2>1, <2>2 DEF OwnTraces, Events
    <3>2. Alone(e) /\ status' = status /\ pc' = pc
      BY <2>1, <2>2 DEF execVars, Alone, Running, NotStarted
    <3> QED
      BY <2>1, <3>1, <3>2, MoveOn DEF NotStarted
  <2>3. CASE UNCHANGED sns /\ End(e, "FAILED")
    BY <2>1, <2>3, EndHere DEF OwnTraces, Statuses, NotStarted
  <2> QED
    BY <1>2, <2>2, <2>3 DEF AuroraGatePause
<1> QED
  BY <1>1, <1>2

\* The two messages that do.
LEMMA OutcomeTraces ==
    ASSUME OutcomeInv, NEW e \in Execs, NotifyCompleted(e) \/ Fail(e), TypeOK'
    PROVE  OutcomeInv'
<1>0. Running(e) /\ TypeOK /\ status[e] = "RUNNING" /\ MessageIsTrue(e) /\ RecordIsWritten(e)
  BY DEF NotifyCompleted, Fail, At, OutcomeInv, Running
<1>1. CASE NotifyCompleted(e)
  <2>1. /\ pc[e] = "NOTIFY_COMPLETED" /\ OwnTraces(e)
        /\ UNCHANGED sns \/ Publish(e, "completed")
    BY <1>1, PublishOwn DEF NotifyCompleted, At, Events
  <2>2. CASE /\ Publish(e, "completed")
             /\ pc' = [pc EXCEPT ![e] = "STABLE"]
             /\ status' = [status EXCEPT ![e] = "SUCCEEDED"]
             /\ UNCHANGED input
    <3>1. Alone(e) /\ pc'[e] = "STABLE" /\ status'[e] = "SUCCEEDED" /\ input' = input
      BY <1>0, <2>2 DEF TypeOK, Alone, Running, NotStarted
    <3>2. MessageIsTrue(e)'
      BY <1>0, <2>1, <2>2, <3>1 DEF MessageIsTrue, Publish, NotStarted
    <3>3. RecordIsWritten(e)'
      BY <3>1 DEF RecordIsWritten, Running
    <3> QED
      BY <2>1, <3>1, <3>2, <3>3, FollowTraces
  <2>3. CASE RetryTask(e)
    <3>1. Alone(e) /\ status' = status /\ pc' = pc /\ input' = input
      BY <1>0, <2>3 DEF RetryTask, Alone, Running, NotStarted
    <3>2. MessageIsTrue(e)'
      BY <1>0, <2>1, <3>1 DEF MessageIsTrue, Publish, NotStarted
    <3>3. RecordIsWritten(e)'
      BY <1>0, <2>1, <3>1 DEF RecordIsWritten, Running, OwnTraces
    <3> QED
      BY <2>1, <3>1, <3>2, <3>3, FollowTraces
  <2>4. CASE End(e, "FAILED")
    BY <1>0, <2>1, <2>4, EndHere DEF Statuses, NotStarted
  <2> QED
    BY <1>1, <2>2, <2>3, <2>4 DEF NotifyCompleted
<1>2. CASE Fail(e)
  <2>1. /\ pc[e] = "FAIL" /\ OwnTraces(e)
        /\ UNCHANGED sns \/ Publish(e, "failed")
    BY <1>2, PublishOwn DEF Fail, At, Events
  <2>2. \/ End(e, "SUCCEEDED") /\ Publish(e, "failed")
        \/ End(e, "FAILED")
    BY <1>2 DEF Fail
  <2> QED
    BY <1>0, <2>1, <2>2, EndHere DEF Statuses, NotStarted
<1> QED
  BY <1>1, <1>2

LEMMA StopTraces ==
    ASSUME OutcomeInv, NEW e \in Execs, ExecutionTimeout(e) \/ StopExecution(e), TypeOK'
    PROVE  OutcomeInv'
<1>1. Running(e) /\ OwnTraces(e) /\ UNCHANGED sns /\ (End(e, "TIMED_OUT") \/ End(e, "ABORTED"))
  BY DEF ExecutionTimeout, StopExecution, OwnTraces
<1> QED
  BY <1>1, EndHere DEF Statuses, NotStarted

\* An execution that starts has published nothing yet.
LEMMA StartTraces ==
    ASSUME OutcomeInv, NEW e \in Execs, NEW i \in Inputs, StartExecution(e, i), TypeOK'
    PROVE  OutcomeInv'
<1>1. /\ status'[e] = "RUNNING" /\ input'[e] = i /\ pc'[e] \in {"EVALUATE", "PRECHECK"}
      /\ \A f \in Execs \ {e} :
             status'[f] = status[f] /\ input'[f] = input[f] /\ pc'[f] = pc[f]
      /\ UNCHANGED <<sns, audit>> /\ status[e] = NotStarted
  BY DEF StartExecution, OutcomeInv, TypeOK
<1>2. StartedWithInput'
  BY <1>1 DEF OutcomeInv, StartedWithInput
<1>3. MessageIsTrue(e)' /\ RecordIsWritten(e)'
  BY <1>1 DEF OutcomeInv, MessageIsTrue, RecordIsWritten, NotStarted
<1>4. ASSUME NEW f \in Execs, f # e PROVE MessageIsTrue(f)' /\ RecordIsWritten(f)'
  BY <1>1, <1>4 DEF OutcomeInv, MessageIsTrue, RecordIsWritten, Running
<1> QED
  BY <1>2, <1>3, <1>4 DEF OutcomeInv

LEMMA OutcomeInit == Init => OutcomeInv
BY InitType DEF Init, NothingRan, OutcomeInv, StartedWithInput, MessageIsTrue, RecordIsWritten,
                Running, NotStarted

LEMMA OutcomeNext == OutcomeInv /\ [Next]_vars => OutcomeInv'
<1> SUFFICES ASSUME OutcomeInv, [Next]_vars PROVE OutcomeInv'
  OBVIOUS
<1>0. TypeOK'
  BY NextType DEF OutcomeInv
<1>1. ASSUME NEW e \in Execs, NEW i \in Inputs, StartExecution(e, i) PROVE OutcomeInv'
  BY <1>0, <1>1, StartTraces
<1>2. ASSUME NEW e \in Execs, Step(e) PROVE OutcomeInv'
  BY <1>0, <1>2, SilentSteps, PrecheckTraces, NotificationTraces, OutcomeTraces DEF Step
<1>3. ASSUME NEW e \in Execs, GateTimeout(e) \/ ExecutionTimeout(e) \/ Operate(e)
      PROVE  OutcomeInv'
  BY <1>0, <1>3, SilentSteps, StopTraces DEF Operate
<1>4. CASE UNCHANGED vars \/ MoveWriter \/ \E h \in Regions : ManualDrain(h)
  <2>1. UNCHANGED <<pc, status, input, sns, audit>>
    BY <1>4 DEF vars, MoveWriter, ManualDrain, execVars
  <2> QED
    BY <1>0, <2>1
       DEF OutcomeInv, StartedWithInput, MessageIsTrue, RecordIsWritten, Running
<1> QED
  BY <1>1, <1>2, <1>3, <1>4 DEF Next

\* A status of SUCCEEDED comes with exactly the one message that is true,
\* although FAIL ends SUCCEEDED too and any notification may be retried, fail
\* after it was sent, or belong to a stopped execution.
THEOREM OutcomeIsAlwaysTold == Spec => []OutcomeIsTold
<1>1. OutcomeInv => OutcomeIsTold
  BY DEF OutcomeInv, MessageIsTrue, OutcomeIsTold
<1> QED
  BY <1>1, OutcomeInit, OutcomeNext, PTL DEF Spec

-----------------------------------------------------------------------------
(***************************************************************************)
(* Accountability, from the same invariant: the writes of a role and of    *)
(* the metric come after PRECHECK.                                         *)
(***************************************************************************)
\* e is to blame for a change of region r in store h.
Accountable(e, h, r) ==
    /\ e \in audit /\ Running(e) /\ ~input[e].dry_run
    /\ input[e].home = h /\ r \in {input[e].source, input[e].target}

Changed(h, r) == role'[h][r] # role[h][r] \/ control'[h][r] # control[h][r]

LEMMA UpdaterAccounts ==
    ASSUME OutcomeInv, NEW e \in Execs, DrainSource(e) \/ PromoteTarget(e) \/ DemoteSource(e),
           NEW h \in Regions, NEW r \in Regions, Changed(h, r)
    PROVE  Accountable(e, h, r)
<1>1. /\ Running(e) /\ pc[e] \in {"DRAIN_SOURCE", "PROMOTE_TARGET", "DEMOTE_SOURCE"}
      /\ UNCHANGED control
      /\ \/ UNCHANGED role
         \/ \E q \in {input[e].source, input[e].target}, value \in Role : WriteRole(e, q, value)
  BY DEF DrainSource, PromoteTarget, DemoteSource, InvokeUpdater, At, Role
<1>2. e \in audit
  BY <1>1 DEF OutcomeInv, RecordIsWritten
<1>3. PICK q \in {input[e].source, input[e].target}, value \in Role : WriteRole(e, q, value)
  BY <1>1 DEF Changed
<1>4. role \in [Regions -> [Regions -> Role \cup {None}]]
  BY DEF OutcomeInv, TypeOK
<1>5. ~input[e].dry_run /\ h = input[e].home /\ r = q
  BY <1>1, <1>3, <1>4 DEF WriteRole, Changed
<1> QED
  BY <1>1, <1>2, <1>5 DEF Accountable

LEMMA FlipAccounts ==
    ASSUME OutcomeInv, NEW e \in Execs, FlipR53ControlMetric(e),
           NEW h \in Regions, NEW r \in Regions, Changed(h, r)
    PROVE  Accountable(e, h, r)
<1>1. /\ Running(e) /\ pc[e] = "FLIP_R53_CONTROL_METRIC" /\ UNCHANGED role
      /\ UNCHANGED control \/ EmitControl(e)
  BY DEF FlipR53ControlMetric, At
<1>2. e \in audit
  BY <1>1 DEF OutcomeInv, RecordIsWritten
<1>3. control \in [Regions -> [Regions -> {None, "trip", "clear"}]]
  BY DEF OutcomeInv, TypeOK
<1>4. ~input[e].dry_run /\ h = input[e].home /\ r = FlippedRegion(input[e])
  BY <1>1, <1>3 DEF EmitControl, Changed
<1> QED
  BY <1>1, <1>2, <1>4 DEF Accountable, FlippedRegion

LEMMA NextAccounts ==
    ASSUME OutcomeInv, [Next]_vars, NEW h \in Regions, NEW r \in Regions, Changed(h, r)
    PROVE  (\E e \in Execs : Accountable(e, h, r)) \/ (r = h /\ ManualDrain(h))
<1>1. ASSUME NEW e \in Execs, Step(e) PROVE \E f \in Execs : Accountable(f, h, r)
  <2>1. CASE DrainSource(e) \/ PromoteTarget(e) \/ DemoteSource(e)
    BY <2>1, UpdaterAccounts
  <2>2. CASE FlipR53ControlMetric(e)
    BY <2>2, FlipAccounts
  <2> QED
    BY <1>1, <2>1, <2>2
       DEF Changed, Step, PassState, Precheck, NotifyInitiated, AuroraGatePause,
           AuroraConfirm, Postcheck, NotifyCompleted, Fail
<1>2. ASSUME NEW e \in Execs, NEW i \in Inputs,
             StartExecution(e, i) \/ GateTimeout(e) \/ ExecutionTimeout(e) \/ Operate(e)
      PROVE  FALSE
  BY <1>2 DEF Changed, StartExecution, GateTimeout, ExecutionTimeout, Operate, Approve, Abort,
              StopExecution
<1>3. ASSUME NEW e \in Execs, GateTimeout(e) \/ ExecutionTimeout(e) \/ Operate(e) PROVE FALSE
  BY <1>3 DEF Changed, GateTimeout, ExecutionTimeout, Operate, Approve, Abort, StopExecution
<1>4. ASSUME NEW g \in Regions, ManualDrain(g) PROVE r = h /\ ManualDrain(h)
  <2>1. role \in [Regions -> [Regions -> Role \cup {None}]]
    BY DEF OutcomeInv, TypeOK
  <2>2. h = g /\ r = g
    BY <1>4, <2>1 DEF ManualDrain, Changed
  <2> QED
    BY <1>4, <2>2
<1>5. CASE MoveWriter \/ UNCHANGED vars
  BY <1>5 DEF Changed, MoveWriter, vars
<1> QED
  BY <1>1, <1>2, <1>3, <1>4, <1>5 DEF Next

\* Whoever changes a role or the control metric has left an audit record, in
\* that region, before: executions that overlap, dry runs, swallowed errors and
\* stopped executions included.  A manual drain is the only exception.
THEOREM ChangesAreAlwaysAccountable == Spec => ChangesAreAccountable
<1>1. OutcomeInv /\ [Next]_vars =>
          [\A h, r \in Regions :
               role'[h][r] # role[h][r] \/ control'[h][r] # control[h][r] =>
                   \/ \E e \in audit : /\ Running(e) /\ ~input[e].dry_run
                                       /\ input[e].home = h
                                       /\ r \in {input[e].source, input[e].target}
                   \/ r = h /\ ManualDrain(h)]_vars
  BY NextAccounts DEF Accountable, Changed
<1> QED
  BY <1>1, OutcomeInit, OutcomeNext, PTL DEF Spec, ChangesAreAccountable
-----------------------------------------------------------------------------
(***************************************************************************)
(* What a promotion leaves in the store.  On top of HandoverInv, the       *)
(* invariant says who has promoted a target, that this target serves, and  *)
(* what NOTIFY_COMPLETED relies on.  A manual drain of the promoted region *)
(* is an operator's decision to undo it, so there must be none.            *)
(***************************************************************************)
Undisturbed == Cautious /\ "drain" \notin Faults

\* The states that follow PROMOTE_TARGET.
Promoted == {"AURORA_GATE_DECISION", "AURORA_GATE_PAUSE"} \cup (LateStates \ {"FAIL"})

\* Whoever runs past PROMOTE_TARGET has promoted its target, and nobody has
\* who has not been started.
PromotionIsKnown(e) ==
    /\ Running(e) /\ pc[e] \in Promoted => e \in promoted
    /\ e \in promoted => status[e] # NotStarted

TargetServes(e) ==
    e \in promoted /\ Running(e) /\ ~input[e].dry_run =>
        role[input[e].home][input[e].target] = "ACTIVE"

SourceRetired(e) ==
    Running(e) /\ ~input[e].dry_run /\ pc[e] = "NOTIFY_COMPLETED" =>
        role[input[e].home][input[e].source] = "PASSIVE"

PromotionInv ==
    HandoverInv /\ \A e \in Execs : PromotionIsKnown(e) /\ TargetServes(e) /\ SourceRetired(e)

\* A step of e leaves the promotions of the others alone.
OwnPromotion(e) == promoted \subseteq promoted' /\ promoted' \subseteq promoted \cup {e}

LEMMA FollowPromotion ==
    ASSUME PromotionInv, NEW e \in Execs, Alone(e), HandoverInv', OwnPromotion(e),
           PromotionIsKnown(e)', TargetServes(e)', SourceRetired(e)'
    PROVE  PromotionInv'
<1>1. \A f \in Execs \ {e} : ~Running(f)' /\ status'[f] = status[f]
  BY DEF PromotionInv, HandoverInv, OneRunning, Running, Alone
<1>2. \A f \in Execs : PromotionIsKnown(f)' /\ TargetServes(f)' /\ SourceRetired(f)'
  BY <1>1 DEF PromotionInv, PromotionIsKnown, TargetServes, SourceRetired, OwnPromotion
<1> QED
  BY <1>2 DEF PromotionInv

\* A step that writes no role and reaches no state that relies on one.
LEMMA QuietPromotion ==
    ASSUME PromotionInv, NEW e \in Execs, Alone(e), HandoverInv', UNCHANGED <<role, promoted>>,
           \/ ~Running(e)'
           \/ pc'[e] = pc[e]
           \/ pc'[e] \notin Promoted
           \/ pc'[e] # "NOTIFY_COMPLETED" /\ pc[e] \in Promoted
    PROVE  PromotionInv'
<1>1. TargetServes(e)'
  BY DEF PromotionInv, TargetServes, Alone
<1>2. SourceRetired(e)'
  BY DEF PromotionInv, SourceRetired, Alone, Promoted, LateStates
<1>3. PromotionIsKnown(e)' /\ OwnPromotion(e)
  BY DEF PromotionInv, PromotionIsKnown, OwnPromotion, Alone
<1> QED
  BY <1>1, <1>2, <1>3, FollowPromotion

\* Only PROMOTE_TARGET, left for the gate, adds to the history.
LEMMA GoToPromotes ==
    ASSUME NEW e \in Execs, NEW s, GoTo(e, s)
    PROVE  /\ OwnPromotion(e)
           /\ pc[e] # "PROMOTE_TARGET" \/ s = "FAIL" => promoted' = promoted
           /\ pc[e] = "PROMOTE_TARGET" /\ s # "FAIL" => e \in promoted'
  BY DEF GoTo, OwnPromotion

LEMMA OthersPromoteNothing ==
    ASSUME NEW e \in Execs, NEW s, End(e, s) \/ RetryTask(e) \/ TaskError(e)
    PROVE  promoted' = promoted
  BY GoToPromotes DEF End, RetryTask, TaskError

LEMMA QuietPromotionSteps ==
    ASSUME PromotionInv, NEW e \in Execs, HandoverInv',
           \/ PassState(e) \/ Precheck(e) \/ NotifyInitiated(e) \/ FlipR53ControlMetric(e)
           \/ AuroraGatePause(e) \/ AuroraConfirm(e) \/ Postcheck(e)
           \/ NotifyCompleted(e) \/ Fail(e) \/ Approve(e) \/ Abort(e) \/ GateTimeout(e)
           \/ ExecutionTimeout(e) \/ StopExecution(e)
    PROVE  PromotionInv'
<1> USE QuietPromotion, GoToAlone, EndAlone, TaskErrorAlone, GoToPromotes, OthersPromoteNothing
    DEF At, Promoted, LateStates, Statuses, NotStarted
<1>0. TypeOK
  BY DEF PromotionInv, HandoverInv
<1>1. CASE PassState(e)
  BY <1>0, <1>1 DEF PassState
<1>2. CASE Precheck(e)
  BY <1>0, <1>2 DEF Precheck
<1>3. CASE NotifyInitiated(e)
  BY <1>0, <1>3 DEF NotifyInitiated
<1>4. CASE AuroraGatePause(e)
  <2>1. Alone(e) /\ promoted' = promoted /\ (pc'[e] = pc[e] \/ ~Running(e)')
    BY <1>0, <1>4 DEF AuroraGatePause, execVars, Alone, Running
  <2> QED
    BY <1>4, <2>1 DEF AuroraGatePause
<1>5. CASE AuroraConfirm(e)
  BY <1>0, <1>5 DEF AuroraConfirm
<1>6. CASE Postcheck(e)
  BY <1>0, <1>6 DEF Postcheck
<1>7. CASE NotifyCompleted(e)
  <2>1. Alone(e) /\ promoted' = promoted /\ (pc'[e] = pc[e] \/ ~Running(e)')
    BY <1>0, <1>7 DEF NotifyCompleted, RetryTask, Alone, Running, TypeOK
  <2> QED
    BY <1>7, <2>1 DEF NotifyCompleted
<1>8. CASE Fail(e)
  BY <1>0, <1>8 DEF Fail
<1>9. CASE Approve(e) \/ Abort(e) \/ GateTimeout(e)
  BY <1>0, <1>9 DEF Approve, Abort, GateTimeout, GatePaused
<1>10. CASE ExecutionTimeout(e) \/ StopExecution(e)
  BY <1>0, <1>10 DEF ExecutionTimeout, StopExecution
<1>11. CASE FlipR53ControlMetric(e)
  BY <1>0, <1>11 DEF FlipR53ControlMetric
<1> QED
  BY <1>1, <1>2, <1>3, <1>4, <1>5, <1>6, <1>7, <1>8, <1>9, <1>10, <1>11

PromotionRecorded(e, s) == s = "PROMOTE_TARGET" => e \in promoted'

\* What a state that invokes indicator_updater does when no error is swallowed.
LEMMA UpdaterStep ==
    ASSUME HandoverInv, "silent" \notin Faults, NEW e \in Execs, NEW s, NEW r, NEW value,
           NEW next, InvokeUpdater(e, s, r, value, next), s # "FAIL", next # s, next # "FAIL"
    PROVE  /\ Running(e) /\ pc[e] = s /\ Alone(e) /\ status' = status
           /\ UNCHANGED role \/ WriteRole(e, r, value)
           /\ pc'[e] \in {s, next, "FAIL"}
           /\ pc'[e] = next => WriteRole(e, r, value)
           /\ OwnPromotion(e) /\ (pc'[e] = next => PromotionRecorded(e, s))
           /\ pc'[e] # next \/ s # "PROMOTE_TARGET" => promoted' = promoted
<1>1. Running(e) /\ pc[e] = s /\ TypeOK
  BY DEF InvokeUpdater, At, HandoverInv
<1>2. CASE WriteRole(e, r, value) /\ GoTo(e, next)
  BY <1>1, <1>2, GoToAlone, GoToPromotes DEF PromotionRecorded
<1>3. CASE (UNCHANGED role \/ WriteRole(e, r, value)) /\ TaskError(e)
  BY <1>1, <1>3, TaskErrorAlone, OthersPromoteNothing DEF OwnPromotion
<1> QED
  BY <1>2, <1>3 DEF InvokeUpdater

\* The drain and the demotion leave the target alone; the promotion serves it.
LEMMA UpdaterPromotionSteps ==
    ASSUME PromotionInv, NEW e \in Execs, HandoverInv', "silent" \notin Faults,
           DrainSource(e) \/ PromoteTarget(e) \/ DemoteSource(e)
    PROVE  PromotionInv'
<1> DEFINE i == input[e]
<1>0. HandoverInv /\ TargetServes(e) /\ PromotionIsKnown(e)
  BY DEF PromotionInv
<1>1. CASE DrainSource(e)
  <2>1. /\ Running(e) /\ Alone(e) /\ pc'[e] \in {"DRAIN_SOURCE", "WAIT_DRAIN", "FAIL"}
        /\ UNCHANGED role \/ WriteRole(e, i.source, "DRAINING")
        /\ promoted' = promoted
    BY <1>0, <1>1, UpdaterStep DEF DrainSource
  <2>2. ~i.dry_run /\ e \in promoted => role'[i.home][i.target] = "ACTIVE"
    BY <1>0, <2>1, WriteEffect, RunningInput DEF TargetServes
  <2>3. PromotionIsKnown(e)' /\ TargetServes(e)' /\ SourceRetired(e)' /\ OwnPromotion(e)
    BY <1>0, <2>1, <2>2
       DEF PromotionIsKnown, TargetServes, SourceRetired, OwnPromotion, Alone, Promoted, LateStates
  <2> QED
    BY <2>1, <2>3, FollowPromotion
<1>2. CASE PromoteTarget(e)
  <2>1. /\ Running(e) /\ Alone(e) /\ pc'[e] \in {"PROMOTE_TARGET", "AURORA_GATE_DECISION", "FAIL"}
        /\ UNCHANGED role \/ WriteRole(e, i.target, "ACTIVE")
        /\ pc'[e] = "AURORA_GATE_DECISION" => WriteRole(e, i.target, "ACTIVE") /\ e \in promoted'
        /\ pc'[e] # "AURORA_GATE_DECISION" => promoted' = promoted
        /\ OwnPromotion(e)
    BY <1>0, <1>2, UpdaterStep DEF PromoteTarget, PromotionRecorded
  <2>2. ~i.dry_run /\ e \in promoted' => role'[i.home][i.target] = "ACTIVE"
    BY <1>0, <2>1, WriteEffect, RunningInput DEF TargetServes
  <2>3. PromotionIsKnown(e)' /\ TargetServes(e)' /\ SourceRetired(e)'
    BY <1>0, <2>1, <2>2
       DEF PromotionIsKnown, TargetServes, SourceRetired, Alone, Promoted, LateStates
  <2> QED
    BY <2>1, <2>3, FollowPromotion
<1>3. CASE DemoteSource(e)
  <2>1. /\ Running(e) /\ pc[e] = "DEMOTE_SOURCE" /\ Alone(e)
        /\ pc'[e] \in {"DEMOTE_SOURCE", "NOTIFY_COMPLETED", "FAIL"}
        /\ UNCHANGED role \/ WriteRole(e, i.source, "PASSIVE")
        /\ pc'[e] = "NOTIFY_COMPLETED" => WriteRole(e, i.source, "PASSIVE")
        /\ promoted' = promoted /\ e \in promoted
    BY <1>0, <1>3, UpdaterStep DEF DemoteSource, PromotionIsKnown, Promoted, LateStates
  <2>2. ~i.dry_run => role[i.home][i.target] = "ACTIVE"
    BY <1>0, <2>1 DEF TargetServes
  <2>3. ~i.dry_run => role'[i.home][i.target] = "ACTIVE"
    BY <1>0, <2>1, <2>2, WriteEffect, RunningInput
  <2>4. pc'[e] = "NOTIFY_COMPLETED" /\ ~i.dry_run => role'[i.home][i.source] = "PASSIVE"
    BY <1>0, <2>1, WriteEffect, RunningInput
  <2>5. PromotionIsKnown(e)' /\ TargetServes(e)' /\ SourceRetired(e)' /\ OwnPromotion(e)
    BY <2>1, <2>3, <2>4 DEF PromotionIsKnown, TargetServes, SourceRetired, OwnPromotion, Alone
  <2> QED
    BY <2>1, <2>5, FollowPromotion
<1> QED
  BY <1>1, <1>2, <1>3

LEMMA PromotionInit == Init => PromotionInv
<1> SUFFICES ASSUME Init PROVE PromotionInv
  OBVIOUS
<1>1. \A e \in Execs : ~Running(e)
  BY DEF Init, NothingRan, Running, NotStarted
<1> QED
  BY <1>1, HandoverInit
     DEF PromotionInv, PromotionIsKnown, TargetServes, SourceRetired, Init, NothingRan

LEMMA PromotionNext ==
    ASSUME Undisturbed
    PROVE  PromotionInv /\ [Next]_vars => PromotionInv'
<1> SUFFICES ASSUME PromotionInv, [Next]_vars PROVE PromotionInv'
  OBVIOUS
<1>0. HandoverInv' /\ HandoverInv
  BY HandoverNext DEF PromotionInv, Undisturbed
<1>1. ASSUME NEW e \in Execs, NEW i \in Inputs, StartExecution(e, i) PROVE PromotionInv'
  <2>1. \A f \in Execs \ {e} : ~Running(f)'
    BY <1>0, <1>1 DEF StartExecution, Running, HandoverInv, TypeOK, Undisturbed, Cautious
  <2>2. pc'[e] \in {"EVALUATE", "PRECHECK"}
    BY <1>0, <1>1 DEF StartExecution, HandoverInv, TypeOK
  <2>4. promoted' = promoted /\ e \notin promoted
    BY <1>1 DEF StartExecution, PromotionInv, PromotionIsKnown
  <2>5. \A f \in Execs \ {e} : status'[f] = status[f]
    BY <1>0, <1>1 DEF StartExecution, HandoverInv, TypeOK
  <2>3. \A f \in Execs : PromotionIsKnown(f)' /\ TargetServes(f)' /\ SourceRetired(f)'
    BY <2>1, <2>2, <2>4, <2>5
       DEF PromotionInv, PromotionIsKnown, TargetServes, SourceRetired, Promoted, LateStates
  <2> QED
    BY <1>0, <2>3 DEF PromotionInv
<1>2. ASSUME NEW e \in Execs, Step(e) PROVE PromotionInv'
  BY <1>0, <1>2, QuietPromotionSteps, UpdaterPromotionSteps DEF Step, Undisturbed, Cautious
<1>3. ASSUME NEW e \in Execs, GateTimeout(e) \/ ExecutionTimeout(e) \/ Operate(e)
      PROVE  PromotionInv'
  BY <1>0, <1>3, QuietPromotionSteps DEF Operate
<1>4. CASE MoveWriter \/ UNCHANGED vars
  BY <1>0, <1>4
     DEF MoveWriter, vars, execVars, PromotionInv, PromotionIsKnown, TargetServes, SourceRetired,
         Running
<1>5. ~\E h \in Regions : ManualDrain(h)
  BY DEF ManualDrain, Undisturbed
<1> QED
  BY <1>1, <1>2, <1>3, <1>4, <1>5 DEF Next

\* Once an execution has promoted its target, its region stays up until the
\* execution ends: at the gate, after its abort or its timeout, in FAIL, over
\* every retry and every sequence of earlier executions.
THEOREM PromotionAlwaysHolds ==
    ASSUME Undisturbed
    PROVE  Spec => []PromotionHolds
<1>1. PromotionInv => PromotionHolds
  BY DEF PromotionInv, HandoverInv, TypeOK, TargetServes, PromotionHolds
<1> QED
  BY <1>1, PromotionInit, PromotionNext, PTL DEF Spec

\* Only NOTIFY_COMPLETED announces a completion.
LEMMA OnlyNotifyCompletes ==
    ASSUME [Next]_vars, NEW e \in Execs, <<e, "completed">> \in sns' \ sns
    PROVE  NotifyCompleted(e) /\ ~input[e].dry_run
<1>1. ASSUME NEW f \in Execs, Step(f) PROVE NotifyCompleted(e) /\ ~input[e].dry_run
  BY <1>1 DEF Step, PassState, Precheck, NotifyInitiated, DrainSource, PromoteTarget,
              DemoteSource, InvokeUpdater, FlipR53ControlMetric, AuroraGatePause,
              AuroraConfirm, Postcheck, NotifyCompleted, Fail, Publish
<1>2. ASSUME NEW f \in Execs, NEW i \in Inputs, StartExecution(f, i) PROVE FALSE
  BY <1>2 DEF StartExecution
<1>3. ASSUME NEW f \in Execs, GateTimeout(f) \/ ExecutionTimeout(f) \/ Operate(f) PROVE FALSE
  BY <1>3 DEF GateTimeout, ExecutionTimeout, Operate, Approve, Abort, StopExecution
<1>4. CASE MoveWriter \/ UNCHANGED vars \/ \E h \in Regions : ManualDrain(h)
  BY <1>4 DEF MoveWriter, ManualDrain, vars
<1> QED
  BY <1>1, <1>2, <1>3, <1>4 DEF Next

\* "completed" is announced only with the target ACTIVE and the source PASSIVE
\* in the execution's own store: no retried, failed or timed-out state before
\* it can have been passed over.
THEOREM CompletionIsAlwaysTruthful ==
    ASSUME Undisturbed
    PROVE  Spec => CompletionIsTruthful
<1>1. PromotionInv /\ [Next]_vars =>
          [\A e \in Execs : <<e, "completed">> \in sns' \ sns =>
               LET i == input[e]
               IN  role[i.home][i.target] = "ACTIVE" /\ role[i.home][i.source] = "PASSIVE"]_vars
  <2> SUFFICES ASSUME PromotionInv, [Next]_vars, NEW e \in Execs,
                      <<e, "completed">> \in sns' \ sns
               PROVE  /\ role[input[e].home][input[e].target] = "ACTIVE"
                      /\ role[input[e].home][input[e].source] = "PASSIVE"
    OBVIOUS
  <2>1. At(e, "NOTIFY_COMPLETED") /\ ~input[e].dry_run
    BY OnlyNotifyCompletes DEF NotifyCompleted
  <2> QED
    BY <2>1 DEF PromotionInv, PromotionIsKnown, TargetServes, SourceRetired, At, Promoted, LateStates
<1> QED
  BY <1>1, PromotionInit, PromotionNext, PTL DEF Spec, CompletionIsTruthful
=============================================================================
