-------------------------- MODULE SignalCollector --------------------------
(***************************************************************************)
(* The Signal Collector (lambdas/signal_collector) of one region: every    *)
(* minute it loads the profile, reads its sources one after the other,     *)
(* emits one datapoint per signal and archives a snapshot.  An error that  *)
(* no reader swallows ends the invocation where it is, and so does the     *)
(* Lambda's timeout, at any call.  A retry, and the next minute's          *)
(* invocation, start again from nothing.                                   *)
(*                                                                         *)
(* The sources are CloudWatch metrics with a period of a minute.  What     *)
(* they hold of a minute that has ended is settled and visible; what they  *)
(* hold of the current minute may be visible to one call and not yet to    *)
(* the next.  Invocations share nothing but the datapoints they add, so    *)
(* the model follows one at a time.  Whether Tier 2 and Tier 3 signals are *)
(* red matters to nobody in the system and is left out.                    *)
(***************************************************************************)
EXTENDS ProfileLoader, Sequences, FiniteSets

CONSTANTS
    Region,         \* AWS_REGION of the Lambda
    Documents,      \* what S3 may hold as the profile
    InlineDocuments,\* what PROFILE_YAML may hold
    Short,          \* minutes the NLB reader looks back (2 in the code)
    Long,           \* minutes the canary and endpoint readers look back (5)
    Targets,        \* targets of the outer NLB
    MostUnhealthy   \* of which at most so many are unhealthy at once

ASSUME CollectorAssumption ==
    /\ Region \in RegionNames
    /\ Short \in Nat /\ Long \in Nat /\ 0 < Short /\ Short <= Long
    /\ Targets \in Nat /\ MostUnhealthy \in 0..Targets

VARIABLES
    bad,        \* bad[s]: age of the last settled minute in which s's source was bad
    runs,       \* runs[a]: what the canary reported in the settled minute of age a
    fresh,      \* signals of whose current minute a bad datapoint has been seen
    stage,      \* what the invocation does, or was doing when it ended
    outcome,    \* of the current or last invocation
    profile,    \* the profile it loaded
    next,       \* the signal it reads or emits next
    reds,       \* Tier 1 signals it found red
    errors,     \* its calls that failed and were not swallowed
    troubled,   \* signals whose source was bad shortly before it started
    straddled   \* a minute has ended since it started

invocation == <<stage, outcome, profile, next, reds, errors, troubled, straddled>>
world == <<bad, runs, fresh>>
vars == <<world, invocation>>

Tier1 == <<"outer_nlb_unhealthy", "cross_region_canary_fail", "aws_health_open",
           "vpc_endpoint_errors">>

Nlb == "outer_nlb_unhealthy"
Canary == "cross_region_canary_fail"
Health == "aws_health_open"
Endpoint == "vpc_endpoint_errors"

\* Sources of which a single bad datapoint in the look-back turns the signal red.
Counted == {Nlb, Endpoint}
LookBack(s) == IF s = Nlb THEN Short ELSE Long

\* Ages are counted up to two minutes beyond the look-back.
LongAgo(s) == LookBack(s) + 2
Ages == 1..(Long + 1)

Init ==
    /\ bad = [s \in Counted |-> LongAgo(s)]
    /\ runs = [a \in Ages |-> "none"]
    /\ fresh = {}
    /\ stage = "idle" /\ outcome = "none" /\ profile = Rejected /\ next = 1
    /\ reds = {} /\ errors = {} /\ troubled = {} /\ straddled = FALSE

-----------------------------------------------------------------------------
\* collect_tier2: the Aurora signals are two readers, ElastiCache a constant.
Tier2(p) ==
    (IF p.aurora = Given THEN <<"aurora_writer_location", "aurora_replica_lag_high">> ELSE <<>>)
    \o (IF p.elasticache = Given THEN <<"elasticache_replication">> ELSE <<>>)

\* The API Gateway of the collector's own region.
OwnApi(p) == IF Region = p.primary_region THEN p.api_gw_id_primary ELSE p.api_gw_id_secondary

\* Mutant: an identifier is enough, whatever the profile declares.
Tier3ByIdOnly(p) ==
    <<"alb_unhealthy">> \o (IF OwnApi(p) = Given THEN <<"api_gw_5xx">> ELSE <<>>)

\* collect_tier3.
Tier3(p) ==
    <<"alb_unhealthy">>
    \o (IF p.components.api_gateway /\ OwnApi(p) = Given
        THEN <<"api_gw_5xx">> ELSE <<>>)

\* collect_all: the order of reading, and of emitting.
Plan(p) == Tier1 \o Tier2(p) \o Tier3(p)

-----------------------------------------------------------------------------
\* _nlb_target_health_red: any unhealthy target, not all of them.
NlbTargetHealthRed(unhealthy) == unhealthy > 0

\* A minute of the source of s can hold a datapoint that counts as red; the
\* endpoints' error counts are not bounded by anything.
CanBeBad(s) == s = Nlb => \E unhealthy \in 0..MostUnhealthy : NlbTargetHealthRed(unhealthy)

\* Mutant: the look-back is the minutes its docstring names, less the current one.
CountedRedLastMinute(s, seen) == seen \/ bad[s] < LookBack(s)

\* nlb_unhealthy_count and vpc_endpoint_errors: a count above zero in one of
\* the minutes of the look-back, whose start CloudWatch rounds down to a whole
\* minute, or in what is visible of the current one.
CountedRed(s, seen) == seen \/ bad[s] <= LookBack(s)

\* The canary's runs in the settled minutes of some ages.
Runs(results, ages) == {a \in ages : runs[a] \in results}
Failed(ages) == Cardinality(Runs({"failed"}, ages))
Ran(ages) == Cardinality(Runs({"ok", "failed"}, ages))

\* Mutant: no run counts as a failure of every run.
CanaryRedWithoutRuns(f, t) ==
    (Failed(1..Long) + f) * 100 >= profile.signals.canary_failure_rate_pct * (Ran(1..Long) + t)

\* Mutant: the rate must exceed the threshold.
CanaryRedAbove(f, t) ==
    (Failed(1..Long) + f) * 100 > profile.signals.canary_failure_rate_pct * (Ran(1..Long) + t)

\* canary_failure_pct and _canary_red: the failures come from one call and the
\* runs from another; f and t are what each of them sees of the current
\* minute's run.  No run at all is not a failure.
CanaryRed(f, t) ==
    /\ Ran(1..Long) + t > 0
    /\ (Failed(1..Long) + f) * 100 >= profile.signals.canary_failure_rate_pct * (Ran(1..Long) + t)

-----------------------------------------------------------------------------
\* The minute ends and is settled: what a call has seen of it stays, the rest
\* turns out one way or the other.  An invocation that has ended is history.
Tick ==
    /\ ~straddled
    /\ \E worse \in SUBSET {s \in Counted : CanBeBad(s)} :
           /\ fresh \cap Counted \subseteq worse
           /\ bad' = [s \in Counted |-> IF s \in worse THEN 1
                                        ELSE IF bad[s] < LongAgo(s) THEN bad[s] + 1
                                        ELSE LongAgo(s)]
    /\ \E run \in IF Canary \in fresh THEN {"failed"} ELSE {"none", "ok", "failed"} :
           runs' = [a \in Ages |-> IF a = 1 THEN run ELSE runs[a - 1]]
    /\ fresh' = {}
    /\ IF outcome = "running"
       THEN straddled' = TRUE /\ UNCHANGED <<stage, outcome, profile, next, reds, errors, troubled>>
       ELSE /\ stage' = "idle" /\ outcome' = "none" /\ profile' = Rejected /\ next' = 1
            /\ reds' = {} /\ errors' = {} /\ troubled' = {} /\ straddled' = FALSE

\* The invocation is over; when it failed, its findings are lost with it.
Ends(how, failed) ==
    /\ outcome' = how
    /\ errors' = errors \cup failed
    /\ IF how = "ok" THEN UNCHANGED <<reds, troubled>> ELSE reds' = {} /\ troubled' = {}
    /\ straddled' = FALSE
    /\ UNCHANGED <<world, stage, profile, next>>

\* What load_profile may return or raise.
Loadable == {LoadProfile(inline, stored) : inline \in InlineDocuments \cup {Unset},
                                           stored \in Documents \cup {Unreadable}}

\* EventBridge, or Lambda's retry: load_profile first.
Invoke ==
    /\ outcome # "running"
    /\ \E p \in Loadable :
           /\ profile' = p
           /\ outcome' = IF p = Rejected THEN "error" ELSE "running"
           /\ errors' = IF p = Rejected THEN {"load_profile"} ELSE {}
           /\ troubled' = IF p = Rejected THEN {} ELSE {s \in Counted : bad[s] < LookBack(s)}
    /\ stage' = "reading" /\ next' = 1 /\ reds' = {}
    /\ straddled' = FALSE
    /\ UNCHANGED world

Current == Plan(profile)[next]

Reading == outcome = "running" /\ stage = "reading"

\* A reader has answered, and has perhaps seen the current minute go bad.
Collected(red, seen) ==
    /\ reds' = IF red THEN reds \cup {Current} ELSE reds
    /\ fresh' = IF seen THEN fresh \cup {Current} ELSE fresh
    /\ IF next < Len(Plan(profile)) THEN next' = next + 1 /\ UNCHANGED stage
                                    ELSE next' = 1 /\ stage' = "emitting"
    /\ UNCHANGED <<bad, runs, outcome, profile, errors, troubled, straddled>>

ReadCounted ==
    /\ Reading /\ Current \in Counted
    /\ \E seen \in {FALSE} \cup {b \in {TRUE} : CanBeBad(Current)} :
           Collected(CountedRed(Current, seen), seen)

ReadCanary ==
    /\ Reading /\ Current = Canary
    /\ \E f \in {0, 1}, t \in {0, 1} : Collected(CanaryRed(f, t), f = 1)

\* aws_health_open_events: events are open, or none are; none, too, when no
\* endpoint is configured, the account has no support plan or nobody answers.
ReadHealth ==
    /\ Reading /\ Current = Health
    /\ \E open \in BOOLEAN : Collected(open, FALSE)

\* The readers of Tier 2 and Tier 3.
ReadOther ==
    /\ Reading /\ Current \notin Counted \cup {Canary, Health}
    /\ Collected(FALSE, FALSE)

\* CloudWatch, RDS or the Health API answers with an error that is not
\* swallowed, or the Lambda's time runs out.  elasticache_replication_healthy
\* calls nothing.
ReadFails ==
    /\ Reading /\ Current # "elasticache_replication"
    /\ Ends("error", {Current})

\* emit_metric, one call per signal.
Emit ==
    /\ outcome = "running" /\ stage = "emitting"
    /\ \/ /\ next' = next + 1
          /\ stage' = IF next = Len(Plan(profile)) THEN "archiving" ELSE stage
          /\ UNCHANGED <<world, outcome, profile, reds, errors, troubled, straddled>>
       \/ Ends("error", {"put_metric_data"})

\* write_observation_snapshot.
Archive ==
    /\ outcome = "running" /\ stage = "archiving"
    /\ Ends("ok", {}) \/ Ends("error", {"put_object"})

Next ==
    \/ Tick \/ Invoke
    \/ ReadCounted \/ ReadCanary \/ ReadHealth \/ ReadOther \/ ReadFails
    \/ Emit \/ Archive

Spec == Init /\ [][Next]_vars

-----------------------------------------------------------------------------
TypeOK ==
    /\ bad \in [Counted -> Nat] /\ \A s \in Counted : bad[s] \in 1..LongAgo(s)
    /\ runs \in [Ages -> {"none", "ok", "failed"}]
    /\ fresh \subseteq Counted \cup {Canary}
    /\ straddled \in BOOLEAN
    /\ stage \in {"idle", "reading", "emitting", "archiving"}
    /\ outcome \in {"none", "running", "ok", "error"}
    /\ profile \in Documents \cup InlineDocuments \cup {Rejected}
    /\ next \in 1..(Len(Tier1) + 3 + 2 + 1)
    /\ reds \subseteq {Nlb, Canary, Health, Endpoint} /\ troubled \subseteq Counted

SignalsOf(plan) == {plan[i] : i \in 1..Len(plan)}

\* The signals whose datapoint of this invocation reached CloudWatch.
Emitted ==
    CASE stage \in {"idle", "reading"} -> {}
      [] stage = "emitting" -> {Plan(profile)[i] : i \in 1..(next - 1)}
      [] stage = "archiving" -> SignalsOf(Plan(profile))

Ended == outcome \in {"ok", "error"}

\* A bad datapoint that was seen in the current minute, or not.
Seen(s) == IF s \in fresh THEN 1 ELSE 0

\* Until its last datapoint is emitted, what an invocation found red has a
\* cause by the code's own rule, though a minute may have ended since it was
\* read: a bad datapoint of the NLB or of the endpoints within the look-back,
\* or canary failures that reach the profile's threshold among the runs of the
\* look-back.  (Health's events are taken as Health gives them.)
RedHasCause ==
    outcome = "running" =>
        LET late == IF straddled THEN 1 ELSE 0
        IN  /\ \A s \in reds \cap Counted : s \in fresh \/ bad[s] <= LookBack(s) + late
            /\ Canary \in reds =>
                   LET failed == Failed(1..(Long + late)) + Seen(Canary)
                   IN  /\ failed > 0
                       /\ failed * 100 >= profile.signals.canary_failure_rate_pct
                                              * Ran((1 + late)..Long)

\* No outage of the NLB or of the endpoints without a datapoint: an invocation
\* that succeeds has reported each of the two sources that was bad in the last
\* minutes before it started, even when the source has recovered and a minute
\* ends while it runs.  All but the last minute of the look-back count, so
\* that what failed invocations did not emit, the next one makes good.
OutageIsReported == outcome = "ok" => troubled \subseteq reds \cap Emitted

\* A dark region turns the canary's signal red: when every run of the last
\* minutes failed, an invocation that succeeds has emitted a red datapoint,
\* even when it counts the current minute's run and does not see its failure
\* yet; for this the threshold must leave room for one run (at most 83% with
\* the code's five minutes, 80% by default).
DarkIsReported ==
    /\ outcome = "ok"
    /\ \A a \in Ages : runs[a] = "failed"
    /\ profile.signals.canary_failure_rate_pct * (Long + 1) <= Long * 100
    => Canary \in reds \cap Emitted

\* No silent gap: whatever document is uploaded, an invocation that goes on
\* plans a signal for each of the three components that have one and that its
\* profile declares, and none for the others.  (components.kafka_consumer has
\* no signal, and ElastiCache's reader is a stub that always answers healthy.)
DeclaredIsMonitored ==
    outcome = "running" =>
        LET signals == SignalsOf(Plan(profile))
        IN  /\ profile.components.aurora <=> "aurora_replica_lag_high" \in signals
            /\ profile.components.elasticache <=> "elasticache_replication" \in signals
            /\ profile.components.api_gateway <=> "api_gw_5xx" \in signals

(***************************************************************************)
(* Statements of the documentation that the collector does not meet.       *)
(***************************************************************************)
\* Tier 3 gates nothing (docs/customer-walkthrough.md:119): an invocation in
\* which only Tier 3 reads failed has emitted the Tier 1 signals.
Tier3NeverGates ==
    Ended /\ errors \subseteq SignalsOf(<<"alb_unhealthy", "api_gw_5xx">>)
        => SignalsOf(Tier1) \subseteq Emitted

\* The loss of a zone keeps outer_nlb_unhealthy green, because other targets
\* are healthy (docs/scenarios/scenario-03-single-az-outage.md:31): it is red
\* only while all of them are unhealthy.
ZoneOutageStaysGreen == MostUnhealthy < Targets => Nlb \notin reds
=============================================================================
