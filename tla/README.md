# Verification of the failover orchestrator

TLA+ modules, TLC configurations and TLAPS proofs for the regional failover
orchestrator of this repository. Paths such as `lambdas/...` are relative to
`src/`; line numbers refer to the commit beside which this directory is kept.

Contents: 1 the system, 2 what is modelled and how, 3 the runs, 4 the proofs,
5 disagreements between code and documentation, 6 what is not modelled, 7 plan.

## 1. The system

An application runs in two AWS regions, a *primary* (use1) and a *secondary*
(use2). The orchestrator, deployed in both, decides when the primary has failed
and moves the application: it takes the primary out of DNS, stops its Kafka
consumers, starts the secondary's, waits for an operator to move the Aurora
writer, and moves everything back on request.

| Component | State it keeps | Operations | Correct when |
|---|---|---|---|
| Failover and failback state machines (`statemachines/*.asl.json`) | the executions of Step Functions | about 17 states each: precheck, notify, drain, wait, flip, wait, promote, Aurora gate, postcheck, demote, notify, FAIL | nothing is promoted before its peer is drained and the control metric flipped; every execution ends; a completion is true and a failure is known |
| Executors (`lambdas/executor_*`) | audit records (S3), control metric (CloudWatch) | precheck, notify, flip, Aurora confirm, postcheck | a dry run changes nothing |
| Regional indicator (`lambdas/indicator_updater`, `lib/indicator_writer.py`) | SSM parameter `/failover/<app>/<region>/role` | unconditional overwrite | at most one region ACTIVE |
| Trigger, approval, CLI (`lambdas/manual_trigger`, `lambdas/approval_callback`, `cli/failoverctl.py`) | none | start, approve, abort, drain | one execution at a time |
| Decision Engine (`lambdas/decision_engine`) | latest decision (SSM), decision history (S3), the metric `tier1_quorum_red` | once a minute: count red signals, check quorum, dwell and hysteresis, record, trip or clear the control metric, publish | no false alarm, no missed outage, no oscillation, recovery is noticed |
| Signal Collector (`lambdas/signal_collector`) | one metric per signal | loads the profile, reads every source, emits every signal, archives a snapshot | no red without a cause, no outage without a datapoint, no signal lost to another's failure |
| Profile loader (`lib/profile_loader.py`, `profiles/profile.schema.json`) | none; S3 or an environment variable holds the document | two validations, afresh in each invocation | what a profile declares is what is monitored |
| Route 53 control (`terraform/modules/...`) | two CloudWatch alarms, two health checks, one failover record | follows the control metric | the record answers with the region that is being promoted |
| State store (`lib/state_store.py`) | decision parameter, audit objects | read, write (its in-flight slot has no callers) | the record an engine acts on is the one it wrote |
| `scripts/scenario_reset.sh` | none | deletes parameters, stops executions, emits 1.0 | the roles stay consistent beside what is running, and what it found running is stopped |
| Kafka consumer (the application; contract in SPEC.md) | its own view of the role | polls its region's role | consumes only while ACTIVE |

The remaining parts (SNS formatting, AWS clients, canary, infrastructure,
scenario validators) keep no state of their own; PROJECT.json lists them all.

**Interactions.** EventBridge invokes the Signal Collector and the Decision
Engine each minute; they talk through CloudWatch metrics, whose datapoints
arrive late and are read back over a range of minutes. The engine's output is
another metric, `PrimaryHealthControl`, which an alarm turns into a Route 53
health check; executions and the reset script write it too. The engine does
*not* start the state machines: an operator does, through `failoverctl` and
`manual_trigger`. An execution reads and writes only
the stores of the region it runs in, and shares them with every other
execution, with `failoverctl drain` and with the reset script.

**What is hard here.** Executions are not mutually exclusive and overwrite
the same parameters. Every state can fail before or after its effect and is
retried. The SDK integration hides errors of one Lambda. An execution may stop,
be aborted or time out between any two states and the next one starts from
whatever it left. An engine invocation reads metrics, writes a record, reads it
back and acts on it, and each of those calls may fail or meet a reset, another
invocation, or a datapoint that is not visible yet. A collector invocation is a
chain of a dozen calls, any of which ends it, over sources that change while it
reads. The reset script is a chain of unguarded calls made while all of this
goes on. PROJECT.json lists these hazards, each at its line and with the
properties aimed at it.

## 2. What is modelled, and how

| Module | Models |
|---|---|
| `RegionalRole` | what the indicator promises: four steps (drain, activate, retire, forget) over any number of regions |
| `FailoverWorkflow` | both state machines, their Lambdas, the trigger, the operator |
| `DnsControl` | the watched metric, the alarms, the health checks and the failover record |
| `Orchestrator` | the composition: `FailoverWorkflow`, `DnsControl`, the engines' emissions and `scenario_reset.sh` |
| `DecisionEngine` | the primary region's engine with the metrics it reads and writes |
| `ProfileLoader` | which documents are profiles, and where they are loaded from |
| `SignalCollector` | an invocation of the collector, over `ProfileLoader` |
| `FailoverWorkflow_proofs`, `FailoverOutcome_proofs`, `Orchestrator_proofs`, `DecisionEngine_proofs`, `SignalCollector_proofs` | theorems about those modules (two for the workflow: what it does, and what it leaves behind) |
| `NaturalMinimum` | the one lemma about numbers that two of them need |
| `MC...` | the instances TLC checks |

The Orchestrator EXTENDS the workflow and instantiates `DnsControl`; the engine
stands in it as "emits 0.0 or 1.0 in any minute", which over-approximates what
`DecisionEngine` lets it emit. The collector's datapoints are `DecisionEngine`'s
`Collect`.

### FailoverWorkflow

*State.* `pc`, `status`, `input` and `attempts` are what Step Functions keeps
of each execution (the current state, the status an operator sees, the
immutable input, the retries used). `role[h][r]` is the parameter of region `r`
in the Parameter Store of region `h`: there are two stores, and the state
machine of a region writes to its own store only. `control[h][r]` is likewise
the last value of the control metric. `writer` is where the Aurora writer is.
`sns` and `audit` record what was published and which executions left a record;
`promoted` remembers, for the properties, which executions have left
PROMOTE_TARGET other than to FAIL.

*Actions.* One per state of the definitions (the pure `Pass`, `Wait` and
`Choice` states share `PassState`), named after it: `Precheck`,
`NotifyInitiated`, `DrainSource`, `FlipR53ControlMetric`, `PromoteTarget`,
`AuroraGatePause`, `AuroraConfirm`, `Postcheck`, `DemoteSource`,
`NotifyCompleted`, `Fail`. Each includes what its Lambda does and what its
Retry and Catch make of an error. Then the answers to the gate (`Approve`,
`Abort`, `GateTimeout`), the execution's timeout, and what people do outside it
(`StopExecution`, `ManualDrain`, `MoveWriter`). `Faults` names which of these
interventions and errors a run allows.

*Retry and Catch.* A failed attempt takes effect or not before it fails.
`RetryTask` counts it against `MaxAttempts`; when the retries are used up the
Catch leads to FAIL. `InvokeUpdater` is shared by the three states that use
`aws-sdk:lambda:invoke`: an error *of the function* is a successful response
there, so the third disjunct (`"silent"`) moves on with nothing written.

*Dry runs.* The executors return early: `Publish`, `WriteRole` and
`EmitControl` do nothing then. The gate's publish is not an executor and
happens in a dry run too.

*Time.* The lengths of waits are left out. The one place where they matter is
the execution's timeout of 3600 s: the profile bounds each wait by 600 s and the
gate by 240 s, and each Lambda has at most four attempts of 30 s, so an
execution cannot be that old before the gate is decided. `LateStates` are the
states the timeout can strike in.

*The confirmation's missing fields.* `AURORA_CONFIRM_LOOP` refers to two
input fields that the trigger does not supply. Which error class the service
gives such a failure is not something the repository can tell, so the model
allows both: the execution fails outright, or its Catch applies.
`confirm_fields` is TRUE for an input written by hand that supplies them.

*Exclusive.* Nothing in the code keeps two executions from overlapping; the
operators are meant to. The constant states whether they do. Both values are
checked.

### RegionalRole, and the refinement

`RegionalRole` is the promise of `lib/indicator_writer.py` alone, from any roles
of which at most one is ACTIVE. Each region's
store of `FailoverWorkflow` is mapped to it by `role <- role[h]`
(`PrimaryStore`, `SecondaryStore`). A step of an execution is a step of the
protocol or leaves that store alone; what has to be shown is that `Activate`
is taken only when the peer is not ACTIVE and `Retire` only of a region that is
not ACTIVE (drained, or already PASSIVE), neither of which the code tests. `Forget` is the reset's deletion of
a parameter; the Orchestrator implements the same protocol with it.

### DecisionEngine

*State.* `red` holds the collector's red datapoints; `sampled` and
`redSampled` the engine's own minutely metric (whether a minute has a datapoint,
and whether its count was at least 1, which is all the history query
distinguishes). `inv` is what each invocation is doing. `record` is the decision
parameter, `control` the last value the engine emitted, `authorized` the minutes
of the published authorizations.

*Actions.* An invocation is `Observe` (up to `evaluate`), `WriteDecision`, and
`Act`, so that invocations, resets and errors come between them. `Collect` may
happen at any point of a minute, before or after the engine looks. `Tick` is the
next minute; no invocation outlives the minute after its own, because the Lambda
is stopped after 30 s.

*The arithmetic of the windows.* CloudWatch rounds the start of a range down to
the minute, so a range of `k` minutes holds up to `k + 1` datapoints: the look-back
of two minutes is `Since(now, 2)` and the history of `dwell + 2` minutes is
`Since(now, Dwell + 3)`. A minute without datapoint is skipped and not counted
as green, and the datapoint just emitted may or may not be seen.

*Left out.* The secondary region's engine has no red signals and only records
GREEN; `RacedEngineClears` of `Orchestrator` is the one case in which it emits. `secondary_warm_standby_ready` is a stub that answers True, so
`FAILOVER_AUTHORIZED_BUT_UNSAFE` cannot be reached.

### DnsControl and Orchestrator

*State.* `maximum[r][a]` is the Maximum of region `r`'s watched metric `a`
minutes ago, the statistic the alarm uses, or `NoData`; `alarm[r]` is the
alarm, which the health check of `r` follows. `script` is what a running
`scenario_reset.sh` has still to do, `listed` the executions its last
`list-executions` returned, `owed` those it found running when it began and has
had no failed call about. `sinceReset` counts the minutes since it last touched
the secondary's decision or metric.

*Actions.* `Emit` is a datapoint: within a minute a 1.0 hides any 0.0. `Evaluate`
is one region's alarm at any moment of a minute, and `Minute` ends the minute
with both evaluated. A missing datapoint is not breaching at once: the alarm
goes back to the last one within its evaluation range (`LookBack`), and
`treat_missing_data` applies when there is none. `Flip` is the workflow's flip
with what the alarm sees of it: an alarm watches its own region's CloudWatch and
its own dimension, so a flip made by an execution of the *other* region reaches
no alarm (`Watched`). Each AWS call of the reset script is a step; "|| true"
makes a failed call a step that does nothing, an unguarded one (`ResetDies`)
ends the script.

*The secondary's engine.* It clears its metric only if its record has just been
deleted (`RacedEngineClears`), in the minute of the deletion or, when the
invocation straddles its end, in the next. This is the second minute in the
bound of `SecondaryNeedsReset`: the look-back, that minute, and the one that is
under way.

### ProfileLoader and SignalCollector

*Documents.* A profile is a record of what the two validators tell apart:
ranges, the relation of `components` to the optional blocks and to the API
Gateway ids, the regions. `wellFormed` is what both ask in the same words
(fields, types, patterns). They disagree: the schema lets a missing block pass
and the models do not, and the models let an undeclared gateway have an empty
id, which the schema's pattern rejects. A document must pass both.

*State.* `bad[s]` is how long ago the source of `s` had its last bad minute,
`runs` what the canary reported in each of the last minutes: both of minutes
that have ended. The current minute's datapoints appear while the invocation
reads: any reader may see one (`Collected`), or not yet, and `fresh` remembers
what has been seen and cannot be unseen. `stage`, `next`, `profile` and `reds`
are the invocation; `errors`, `troubled` and `straddled` remember, for the
properties, which calls failed, which sources were bad shortly before it began
and whether a minute has ended since.

*Actions.* `Invoke` loads the profile or fails. `ReadCounted`, `ReadCanary`,
`ReadHealth` and `ReadOther` are one reader each, in the order of `collect_all`;
`ReadFails` is an error that the reader does not swallow, or the end of the
Lambda's time, and ends the invocation. The canary's failures and its runs come
from two calls, each with its own view of the current minute. `Emit` is one
`put_metric_data`, `Archive` the snapshot. `Tick` may come between any two of
them, once: the Lambda lives 30 s.

*The NLB.* A minute counts as bad when its maximum of unhealthy targets is above
zero (`NlbTargetHealthRed`); of the `Targets`, at most `MostUnhealthy` are
unhealthy at once, which says whether an outage may be total.

## 3. The runs

`CHECK_DEADLOCK FALSE` is set where the system really stops: all executions have
ended and none is left to start, or the last minute explored is reached.

### Properties that hold

| Run | Instance | Shows |
|---|---|---|
| `workflow` | two executions one after the other, failover and failback, either home region, and by hand through an Aurora gate that can be confirmed; task errors, stops, writer moves; 1 retry | `OneActive`, `PromotionIsSafe`, `PromotionHolds`, `OutcomeIsTold`, `CompletionIsTruthful`, and both stores implement `RegionalRole` |
| `overlap` | two *overlapping* executions, an Aurora gate that cannot be confirmed, no gate, a dry run; task errors, swallowed errors, manual drains; 1 retry | `ChangesAreAccountable`, `Termination` |
| `reset` | one execution of either direction (or a failback from the other region), from home or failed over; one run of `scenario_reset.sh` with failing calls; manual drains, engine emissions; `LookBack` 1 | `OneActive`, both stores implement `RegionalRole`, `ResetStopsAll`, `SecondaryNeedsReset` |
| `engine_earned` | two overlapping invocations, two signals, quorum 2, dwell 2, hysteresis 0; errors, missed minutes, resets; minutes 0 to 3 | `AuthorizationIsEarned`, `OutageIsAuthorized` |
| `engine_spaced` | one signal, quorum 1, dwell 2, hysteresis 2; errors, missed minutes; minutes 0 to 6 | `AuthorizationsAreSpaced`, `TripIsRecorded` |
| `collector` | every failure of every call, a minute's end anywhere, datapoints seen at once or later, a full and a lean profile, fifteen bad documents; `Short` 2, `Long` 3, two targets | `RedHasCause`, `OutageIsReported`, `DarkIsReported`, `DeclaredIsMonitored` |

`OutageIsAuthorized` is about outages: quorum red in every minute of the window
and an invocation that ran to its record in each; a missed or failed minute
breaks the window, which is a hole in the data the code skips.
`SecondaryNeedsReset` is a true statement of an unwelcome fact, see 5.4: it
also says that no execution, from either region, can send traffic to the
secondary by mistake, and an engine only as a consequence of a reset.
`PromotionHolds` speaks of every state after the promotion, the gate's wait, its
abort and timeout and FAIL included. `RedHasCause` asks for a cause by the
code's own rules; that the NLB's rule is not the documented one is 5.6.
`OutageIsReported` holds although the current minute is seen late, because what
it asks for is one minute less than the look-back; the docstring of the NLB's
reader names that minute only, and with a look-back as short as that the property
fails (it is the mutant). Failed invocations are covered with it: what they did
not emit, the next one that succeeds does, while it is in the look-back.

*Bounds.* Two executions are enough for every pairwise interaction: an
execution meets the others only through the role, the metric and the writer, and
the second one starts from every state in which the first can leave them
(completed, failed, stopped anywhere, aborted). Two regions are what the
system has. One retry (`MaxAttempts = 1`) has the cases "failed and repeated"
and "exhausted"; the theorems hold for every bound. Two signals and a quorum of 2
distinguish no, some and enough red signals. The minutes explored cover an
outage window (`Dwell + 2`) with minutes before and after it; two
authorizations do occur in the `engine_spaced` run. The reset has one execution
to interfere with, since it treats each by itself; that execution may start
before, during or after it, and from either configuration. `LookBack` 1 stands
for CloudWatch's range of a few minutes: what matters is before, within and
after. `Short` 2 is the NLB reader's own; `Long` 3 gives the canary up to four
runs in its range and one more before it, with rates below, at and above the
thresholds of the two profiles (1% and 75%, the highest that `DarkIsReported`
allows for 3 minutes). `engine_earned` has few
minutes because it has the most behaviour in each; a whole window for dwell 2
needs only minutes 0 to 3, and windows that reach back further only have more
room for the red minutes the property asks for.

*Fairness.* Only `Termination` and the violated `ApprovedCompletes` are temporal
properties of `FairSpec`: weak fairness of `Step`, `GateTimeout` and
`ExecutionTimeout` for each execution. Step Functions drives the states of an
execution and enforces its two timeouts with nobody's help. Operators and
faults have no fairness: no answer, no approval and no recovery is assumed.
`AURORA_CONFIRM_LOOP` and `AURORA_WAIT` form a cycle, so `Termination` rests on
the execution's timeout there.

### Statements the system does not meet

`concurrent`, `approved`, `traffic`, `engine_hysteresis`, `tier3` and `zone` each check
one sentence of the documentation and find it
violated: see section 5.

Every property of a passing run has a mutant, a plausible bug in a definition
the property depends on, under which TLC finds the property violated. The
mutated forms stand before the definitions they replace and are marked "Mutant".

## 4. The proofs

Every safety property that a passing run checks, and every refinement, is also
a theorem. The theorems hold for every set of executions (failovers, regions,
signals, invocations, documents) and of inputs, every bound, threshold and
look-back, and every choice of faults within their assumptions.

| Theorem | Assumes | States |
|---|---|---|
| `AtMostOneConsumes` | nothing | the four steps of the abstract protocol keep at most one region ACTIVE, for any set of regions |
| `TypeCorrect` | `WorkflowAssumption` | `Spec => []TypeOK` |
| `OneActiveAlways` | and `Cautious` | `Spec => []OneActive` |
| `PromotionIsAlwaysSafe` | and `Cautious` | `Spec => []PromotionIsSafe` |
| `PrimaryStoreRefines`, `SecondaryStoreRefines` | and `Cautious` | the workflow implements `RegionalRole` in either region's store |
| `OneActiveDespiteResets` | and `Cautious` | `OrchestratorSpec => []OneActive`: the same with any number of runs of the reset script, from home or failed over |
| `PrimaryStoreSurvivesResets`, `SecondaryStoreSurvivesResets` | and `Cautious` | the composition implements `RegionalRole` in either region's store |
| `OutcomeIsAlwaysTold`, `ChangesAreAlwaysAccountable` | `WorkflowAssumption` | `OutcomeIsTold` and the action property `ChangesAreAccountable`, however executions overlap |
| `PromotionAlwaysHolds`, `CompletionIsAlwaysTruthful` | and `Undisturbed` | `PromotionHolds` and the action property `CompletionIsTruthful` |
| `ResetStopsAllOwed` | `OrchestratorAssumption` | `OrchestratorSpec => []ResetStopsAll`, however executions overlap |
| `SecondaryAlwaysNeedsReset` | and `FailbacksComeHome` | `OrchestratorSpec => []SecondaryNeedsReset` |
| `EngineTypeCorrect`, `AuthorizationsAreAlwaysEarned` | `EngineAssumption` | `TypeOK` and `AuthorizationIsEarned` of `DecisionEngine`, however invocations overlap and whatever is reset |
| `OutageIsAlwaysAuthorized` | and `Hysteresis = 0` | `OutageIsAuthorized` |
| `AuthorizationsAreAlwaysSpaced`, `TripIsAlwaysRecorded` | and `Serial` | `AuthorizationsAreSpaced` and the action property `TripIsRecorded` |
| `CollectorTypeCorrect`, `RedAlwaysHasCause`, `OutageIsAlwaysReported`, `DarkIsAlwaysReported`, `DeclaredIsAlwaysMonitored` | `CollectorAssumption` | the five invariants of `SignalCollector` |

`WorkflowAssumption` is the well-formedness of the constants: two regions, and
inputs whose source differs from their target. `Cautious` says that operators
run one execution at a time (`Exclusive`) and that `indicator_updater` does not
raise. Neither is enforced by the code, and both are needed: `concurrent`
violates `OneActive` without the first, and section 5.7 describes how it fails
without the second.

The other hypotheses, and why each is there:

- `Undisturbed` is `Cautious` without manual drains: `failoverctl drain` of the
  promoted region is an operator undoing the promotion.
- `FailbacksComeHome`: a failback's target is the primary, which is what
  `build_execution_input` writes into every one (`ExecutionInput`). An input
  written by hand could clear the secondary's metric.
- `Hysteresis = 0`: with any other value the engine misses outages, see 5.3. It
  is a value the profile may have, and the one the property is about.
- `Serial`: invocations do not overlap and no reset deletes the record.
  EventBridge invokes once a minute and the Lambda is stopped after 30 s, so
  only a repeated delivery or a retry overlaps. The hysteresis is looked up in
  the record: it forgets with the record, and two invocations
  that read the same record may both authorize. The run `engine_spaced` has the
  same instance; `engine_earned`, and the theorems of its properties, do not
  assume it.
- `OrchestratorAssumption`, `EngineAssumption`, `CollectorAssumption`: ranges of
  the constants, finite sets of signals, look-backs of at least a minute, and
  the division of labour between `Orchestrator` and `FailoverWorkflow` (below).

*The argument.* `OneActive` is not inductive: a state in which the source is
ACTIVE and an execution stands at PROMOTE_TARGET satisfies it and its successor
does not. The inductive invariant `HandoverInv` adds what excludes that state:
at most one execution runs (`OneRunning`), every started execution has one of the
inputs (`StartedWithInput`), from DRAIN_SOURCE's success until DEMOTE_SOURCE's
the source of a running, non-dry execution is DRAINING in its home store
(`SourceIsDrained`), and from the flip until PROMOTE_TARGET's success the
control metric has the execution's value (`MetricIsFlipped`). At DEMOTE_SOURCE, whose attempts may
be repeated after one has landed, the source is DRAINING or already PASSIVE;
this is what makes the demotion a `Retire`. Errors, stops and timeouts preserve
it trivially, as they end the execution or leave it where it is; a manual drain
can only make a region DRAINING. One lemma per action that
writes a role or the metric carries the argument, and `QuietSteps` covers the
others. The refinement uses the same invariant, one store at a time.

*With resets.* `HandoverInv` is not preserved by the composition: a reset deletes
the DRAINING of a source that a running execution has drained. `ResetInv` keeps
of it only that this source is not ACTIVE (`SourceStopped`), which is all that a
promotion needs. `StepsOfTheWhole` shows that every step of the
composition is the workflow's, or leaves the workflow alone, or deletes a role or
stops an execution; the last two make no region ACTIVE. `PromotionIsSafe` has no
such theorem, as it is false with resets: the script forgets the drained role
of an execution it has yet to stop. `OrchestratorAssumption` leaves failed task attempts out,
which the theorems of `FailoverWorkflow` cover.

*The outcome.* `OutcomeInv` has one part per execution (`MessageIsTrue`,
`RecordIsWritten`) and no relation between executions, so it needs no hypothesis:
a step of one execution moves that one and publishes only its own messages
(`OwnTraces`), and `FollowTraces` carries the parts of the others over. Both
theorems are about retries: a publish or a record that landed before its attempt
failed is repeated or followed by FAIL, and what is known then is what
`MessageIsTrue` says of each state. `ChangesAreAccountable` follows since every
state that writes comes after PRECHECK, which is passed only with the record
written.

*The promotion.* `PromotionInv` is `HandoverInv` with what each later state relies
on: who runs in a state after PROMOTE_TARGET is in `promoted`
(`PromotionIsKnown`), the target of a running execution that has promoted is
ACTIVE wherever it stands, FAIL included (`TargetServes`), and the source is
PASSIVE at NOTIFY_COMPLETED (`SourceRetired`). That FAIL can be reached from
before and after the promotion is why the history is needed.

*The reset's stops.* `ResetStopsAll` speaks of a finished script; `StopInv` says
of an unfinished one that an execution it owes to stop, and which still runs, is
on the list being worked off or still has its `list-executions` ahead
(`StillToList`). It needs that executions keep their input and do not run again
(`ExecutionsLast`), and what is in the script's tail.

*DNS.* `DnsInv` dates every datapoint "clear" of the secondary's metric, and its
alarm's state, by the last reset: a datapoint of age `a` means that the reset was
at most `a` minutes ago. The alarm judges by the *latest* datapoint in its range,
which exists because every nonempty set of natural numbers has a least element
(`LeastElement` in `NaturalMinimum`, from the well-foundedness of `<`). This is
how such steps are done without an induction principle over a predicate.

*The engine.* Each property has its own invariant. `EarnedInv`: whatever state an
invocation under way has decided on was earned for its minute, and later
datapoints spoil nothing earned (`EarnedStays`); the heart is a counting lemma
(`LastOnes`): the last `Dwell` samples of the history, which the engine finds
red, are `Dwell` distinct minutes of its window, whichever samples were visible.
`OutageInv`: while an outage fills the window, every invocation of this minute
has decided to authorize and a record of this minute says so; the samples needed
are those of *past* minutes (`SamplesFollow`: a sample taken a minute after a red
datapoint is red), so that it does not matter whether the collector or the
engine comes first in a minute, nor which of two invocations writes last.
`SpacedInv`: no authorization is later than the record, so that a hysteresis
measured from the record covers them all; a written record is the one its
invocation acts on.

*The collector.* `CollectorInv` follows an invocation through its plan. A source
that was bad shortly before it began was so less than a look-back ago, plus the
minute that may have ended since (`RecentInv`), which is still within the range
its reader asks for; a canary without a good run in the range stays so whatever
part of the current minute is counted, by the threshold's room for one run
(`DarkIsRed`). Both are in `MustBeRed`: what of it has been read was found red
(`ReadInv`), and, once all is read, all of it (`FoundInv`). In the other
direction `CauseInv` carries the cause of each red signal from its reading to
its emission: when a minute ends in between, what was seen of it is settled and
every range moves by one (`CountsAge`). The lemmas `Tier1Is` to `PlanIs` say what
a plan holds for any profile, `PlanMatchesProfile` what it holds for an accepted
one (the two validators together leave no combination of blocks, flags and API
Gateway ids that the plan would miss), and `LoadableIsAccepted` that nothing else
reaches an invocation. `CanaryRedHasCause` is an arithmetical point: no threshold
that the loader accepts makes zero failed runs a failure. The type theorem bounds
the position in the plan by its nine signals.

Each of these invariants was also checked by TLC on the instance of the run its
property belongs to.

*Only model-checked.* `Termination`, since liveness under fairness is beyond the
proof system, and the six violated statements, of which TLC gives the
counterexamples.

## 5. Disagreements between the code and its documentation

Shown by a run, and a `finding` with its quotations in PROJECT.json:

1. *Overlapping executions leave both regions ACTIVE* (`concurrent`). The trigger
   does not ask whether an execution is running and `write_role` does not
   compare sequence numbers, though a scenario says stale writes are rejected.
2. *An approved execution cannot complete* (`approved`): its confirmation refers
   to input fields that the trigger does not write.
3. *With the default hysteresis the engine never authorizes* (`engine_hysteresis`):
   each minute's GREEN record restarts the period.
4. *A failover does not move the traffic* (`traffic`): the secondary's alarm
   treats missing data as breaching and nothing emits its metric, so its health
   check never passes, and Route 53, with no healthy record, answers with the
   primary. `SecondaryNeedsReset` shows the other half: the only thing that
   makes the secondary healthy, for some minutes, is a run of the reset script.
5. *An inner ALB can blind the engine* (`tier3`): all reads come before all
   emissions, so an error of a Tier 3 reader costs the Tier 1 datapoints.
6. *The loss of one zone turns the NLB's signal red* (`zone`): one unhealthy target
   in one minute is enough (`NlbTargetHealthRed`), where SPEC.md:137,
   docs/decision-engine.md:33 and docs/customer-walkthrough.md:106 ask for all
   targets during the dwell, and a scenario for green. (The comment on the line
   calls it conservative. docs/decision-engine.md:95-97 expects a count of zero
   with a zone down.)

Seen in the code while modelling it, part of the actions, and not given a run
of their own:

7. A failed drain can be followed by a promotion: the SDK integration reports an
   exception of `indicator_updater` as success (`InvokeUpdater`, fault
   `"silent"`). `OneActive` fails when a run of one execution allows it.
8. A failover run from the secondary region leaves both *applications* ACTIVE,
   each reading its own region's store, and one run from the primary never
   tells the secondary's consumers (SPEC.md:106, SPEC.md:203). The comment at
   stepfunctions.tf:8 concedes it as a simplification.
9. Recovery is never noticed: `StateChanged` compares the record just written
   with itself (decision_engine/aws.py:87-89 says 1.0 clears the check).
10. An execution can fail without announcing it: `NotifyCompleted` and `Fail` have
    no Catch, the gate catches two errors only, and `ExecutionTimeout` bypasses
    every state (SPEC.md:224 says any failure reaches FAIL). `OutcomeIsTold` is
    what remains true: a status of SUCCEEDED always comes with its message.
11. A failover that was aborted or whose gate timed out ends SUCCEEDED, since FAIL
    is a Task with `"End": true` (statemachines/failover.asl.json:138 says it is
    marked FAILED).
12. A dry run publishes nothing (`Publish`; SPEC.md:734 says it emits all events).
13. `failoverctl drain` and the reset script write the role outside any execution
    (`ManualDrain`, `DeleteRole`; lib/indicator_writer.py:12-15 says only the
    state machines do). `ChangesAreAccountable` names the drain as its
    one exception; the reset is outside its run.
14. The dwell counts minutes with any red signal, not minutes with a quorum, and
    each datapoint counts for the two following minutes (`DwellHeld`;
    docs/decision-engine.md:65-66): two unrelated blips of a minute, two minutes
    apart, authorize with a dwell of 3. `AuthorizationIsEarned` states what the
    dwell does guarantee.
15. `scenario_reset.sh` deletes the roles before it stops the executions, so that
    a role can be written again behind it, prints OK when calls have failed, and
    deletes from each store only that region's own role: what an execution wrote
    for the other region stays (`DeleteRole`). `ResetStopsAll` is what a finished
    reset does guarantee.
16. A tripped alarm does not stay tripped for a reason: when the last datapoint
    ages out, missing data breaches as well, so that a *clear* is forgotten after
    some minutes too (`Latest`; SPEC.md:256 speaks of DNS that does not roll back
    automatically, which holds only because both records are then unhealthy).
17. `tier1_quorum` may be 5 to 10 although there are four Tier 1 signals
    (`InRange`): such a profile is accepted and never authorizes.
18. `dns_first_failover: false` is accepted and changes nothing; SPEC.md describes
    a writer-first variant.
19. AWS Health is not "treated as permanently green if unavailable"
    (docs/customer-walkthrough.md:108) in every case: an endpoint that is unset or
    does not answer, and a missing subscription, are; any other refusal, of a
    permission or of too many calls, is raised again (aws.py:112-120) and costs
    every signal of the minute (`ReadFails`).
20. `components.kafka_consumer` has no signal, and the ElastiCache reader is a stub
    that always answers healthy (aws.py:178-181).
21. While the canary's runs are visible before their failures (two calls,
    aws.py:41-60), a threshold above 83% is missed by a region all of whose runs
    fail (`DarkIsReported` says which thresholds are safe; the schema allows 100).
22. `claim_in_flight` is documented as atomic (lib/state_store.py:199) and is a
    read followed by an unconditional overwrite. Nothing calls it, nor
    `release_in_flight`, so no behaviour of the system depends on it.

## 6. What is not modelled

- *The consumer*: application code outside the repository; only its contract
  (SPEC.md:98-105) is here.
- *SNS formatting, logging, the canary's probe, infrastructure, scenario
  validators, documentation generators*: stateless or static; PROJECT.json gives
  the reason for each.
- *When the engine trips, inside the composition*: `DecisionEngine` with the
  workflow and the alarms together is beyond TLC; `Orchestrator` lets the
  primary's engine emit anything at any time instead.
- *DNS caching* (a TTL of 30 s), and the delay between an alarm and its health
  check.
- *Values of Tier 2 and Tier 3 signals* (replica lag, 5xx rate): nothing reads
  them.
- *A Step Functions execution of the same name*: the name hashes the time of the
  request, so the "already exists" answer needs two requests in one instant.
- *Durations of calls*. The 30 s of a Lambda may run out at any call
  (`ReadFails`; the failing steps of `DecisionEngine`), and clients retry as
  part of a call. That the Health client's shorter retries leave time for the other
  calls is configuration (lib/aws_clients.py:144-168) that no model looks at.
- *Publishing delays of more than a minute*. The collector's sources are taken as
  settled when their minute has ended. A longer delay would use up the minute by
  which the NLB's look-back exceeds what `OutageIsReported` asks for.
- *Minutes ending inside `Observe`* of `DecisionEngine`, which merges the metric
  reads, the emission and the two look-ups before `evaluate` into one step.
- *A Lambda that outlives its execution*: one already invoked when the execution
  is stopped or times out may still write its role afterwards
  (`StopExecution`, `ExecutionTimeout`); in the models its write lands before or
  never.
- *The in-flight slot* of `lib/state_store.py`: it has no callers, and
  `scenario_reset.sh:19` is the only code that touches its parameter.
- *Corrupt stored data*: the decision parameter and the roles are written only
  by the code modelled here and by the reset.

## 7. Plan

1. Proofs: that the emissions of `DecisionEngine` are among those `Orchestrator`
   allows (a refinement of the engine's metric), and what remains of
   `PromotionIsSafe` with resets.
2. `ConsumerGate` (a poll every 15 s, PASSIVE after 2 minutes without an answer)
   composed with the workflow's stores: does `WAIT_DRAIN` (at least 10 s by the
   profile's range) cover the poll?
3. The Aurora gate's clock: the profile's minutes reach a parameter in seconds.
