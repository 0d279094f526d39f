--------------------------- MODULE DecisionEngine ---------------------------
(***************************************************************************)
(* The Decision Engine of the primary region (lambdas/decision_engine):    *)
(* EventBridge invokes it once a minute; it counts the red Tier 1 signals, *)
(* emits that count, reads its own history back, and decides.  An          *)
(* invocation is three steps, so that invocations and resets interleave:   *)
(* observe and evaluate, write the decision, act on it.                    *)
(*                                                                         *)
(* The secondary region's engine is given no signals: it only ever records *)
(* GREEN, and is left out.  So is secondary_warm_standby_ready, a stub     *)
(* that answers True: FAILOVER_AUTHORIZED_BUT_UNSAFE cannot be reached.    *)
(***************************************************************************)
EXTENDS Naturals, FiniteSets

CONSTANTS
    Signals,        \* names of the Tier 1 signals
    Quorum,         \* profile.signals.tier1_quorum
    Dwell,          \* profile.signals.dwell_minutes
    Hysteresis,     \* profile.signals.hysteresis_minutes
    AutoFailover,   \* profile.failover.auto_failover
    Invocations,    \* invocations that may overlap
    MaxTime,        \* bound: minutes explored
    Faults          \* what may go wrong, of FaultKinds

\* "error": an AWS call fails, which ends the invocation.
\* "skip":  EventBridge or Lambda misses a minute.
\* "reset": scripts/scenario_reset.sh deletes the decision.
FaultKinds == {"error", "skip", "reset"}

ASSUME EngineAssumption ==
    /\ IsFiniteSet(Signals)
    /\ Quorum \in 1..10 /\ Dwell \in 1..60 /\ Hysteresis \in 0..60
    /\ AutoFailover \in BOOLEAN
    /\ MaxTime \in Nat
    /\ Faults \subseteq FaultKinds

VARIABLES
    now,            \* the current minute
    red,            \* <<s, m>>: signal_collector's datapoint of s in minute m is red
    sampled,        \* minutes with a datapoint of tier1_quorum_red
    redSampled,     \* those of them whose Sum is at least 1
    inv,            \* inv[i]: what invocation i is doing
    record,         \* the decision parameter, or NoDecision
    control,        \* last PrimaryHealthControl the engine emitted, or None
    authorized      \* minutes whose failover_authorized event was published

vars == <<now, red, sampled, redSampled, inv, record, control, authorized>>

None == "None"
NoDecision == [state |-> None]
Idle == [phase |-> "idle"]
Minutes == 0..MaxTime

States == {"GREEN", "WATCHING", "FAILOVER_AUTHORIZED", "FAILOVER_AUTHORIZED_BUT_NOT_AUTO"}

Init ==
    /\ now = 0
    /\ red = {} /\ sampled = {} /\ redSampled = {}
    /\ inv = [i \in Invocations |-> Idle]
    /\ record = NoDecision /\ control = None
    /\ authorized = {}

Since(m, minutes) == {k \in Minutes : k <= m /\ k + minutes >= m}

-----------------------------------------------------------------------------
\* Mutant: only this minute's datapoints.
SignalsOfThisMinute == {s \in Signals : <<s, now>> \in red}

\* fetch_current_red_signals: the highest datapoint of the last two minutes;
\* CloudWatch rounds the start of the range down to a whole minute.
CurrentRedSignals == {s \in Signals : \E m \in Since(now, 2) : <<s, m>> \in red}

QuorumHeld(reds) == Cardinality(reds) >= Quorum

\* fetch_signal_red_history and _dwell_held: the history is the list of the
\* datapoints found in dwell + 2 minutes (one more for the rounding), a
\* minute without one is skipped; the last Dwell of them must be red.
History(samples) == samples \cap Since(now, Dwell + 3)

\* Mutant: one sample too few.
DwellOffByOne(samples, reds) ==
    LET history == History(samples)
    IN  \A m \in history : Cardinality({k \in history : k > m}) < Dwell - 1 => m \in reds

DwellHeld(samples, reds) ==
    LET history == History(samples)
    IN  /\ Cardinality(history) >= Dwell
        /\ \A m \in history : Cardinality({k \in history : k > m}) < Dwell => m \in reds

\* Mutant: the hysteresis gate is left out.
NoHysteresis == TRUE

HysteresisHeld == record # NoDecision => now >= record.at + Hysteresis

Evaluate(reds, samples, redSamples) ==
    IF ~QuorumHeld(reds) THEN IF reds = {} THEN "GREEN" ELSE "WATCHING"
    ELSE IF ~DwellHeld(samples, redSamples) \/ ~HysteresisHeld THEN "WATCHING"
    ELSE IF AutoFailover THEN "FAILOVER_AUTHORIZED" ELSE "FAILOVER_AUTHORIZED_BUT_NOT_AUTO"

\* Mutant: the evaluation itself is recorded.
RecordedRaw(state) == state

\* The state the record keeps of an evaluation.
Recorded(state) ==
    IF state \in {"FAILOVER_AUTHORIZED", "FAILOVER_AUTHORIZED_BUT_NOT_AUTO"}
    THEN "FAILOVER_AUTHORIZED" ELSE "GREEN"

-----------------------------------------------------------------------------
\* The next minute.  An invocation lives at most 30 s (lambda.tf), so it
\* never sees a second minute begin; without "skip" each minute has one.
Tick ==
    /\ now < MaxTime
    /\ \A i \in Invocations : inv[i] # Idle => inv[i].at = now
    /\ "skip" \in Faults \/ (record # NoDecision /\ record.at = now /\ \A i \in Invocations : inv[i] = Idle)
    /\ now' = now + 1
    /\ UNCHANGED <<red, sampled, redSampled, inv, record, control, authorized>>

\* signal_collector emits a red datapoint.
Collect(s) ==
    /\ red' = red \cup {<<s, now>>}
    /\ UNCHANGED <<now, sampled, redSampled, inv, record, control, authorized>>

\* lambda_handler up to evaluate.  The datapoint just emitted may not be
\* visible yet to the query that follows it.
Observe(i) ==
    /\ inv[i] = Idle
    /\ sampled' = sampled \cup {now}
    /\ redSampled' = IF CurrentRedSignals = {} THEN redSampled ELSE redSampled \cup {now}
    /\ \/ \E seen \in {<<sampled, redSampled>>, <<sampled', redSampled'>>} :
              inv' = [inv EXCEPT ![i] =
                  [phase |-> "evaluated", at |-> now, green |-> CurrentRedSignals = {},
                   state |-> Evaluate(CurrentRedSignals, seen[1], seen[2])]]
       \/ "error" \in Faults /\ UNCHANGED inv
    /\ UNCHANGED <<now, red, record, control, authorized>>

\* write_decision: SSM, then S3.  An error of either ends the invocation.
WriteDecision(i) ==
    /\ inv[i].phase = "evaluated"
    /\ \/ /\ record' = [state |-> Recorded(inv[i].state), at |-> inv[i].at]
          /\ inv' = [inv EXCEPT ![i].phase = "written"]
       \/ /\ "error" \in Faults
          /\ record' \in {record, [state |-> Recorded(inv[i].state), at |-> inv[i].at]}
          /\ inv' = [inv EXCEPT ![i] = Idle]
    /\ UNCHANGED <<now, red, sampled, redSampled, control, authorized>>

\* state_changed compares the record just written with itself, read back:
\* only a reset or another invocation in between makes it True.
StateChanged(i) == record = NoDecision \/ record.state # Recorded(inv[i].state)

\* Mutant: the side effects come before the record.
ActEarly(i) ==
    /\ inv[i].phase = "evaluated"
    /\ inv[i].state = "FAILOVER_AUTHORIZED"
    /\ control' = "trip"
    /\ authorized' = authorized \cup {inv[i].at}
    /\ inv' = [inv EXCEPT ![i] = Idle]
    /\ UNCHANGED <<now, red, sampled, redSampled, record>>

\* The side effects of a decision.  A failed publish loses the event, a
\* failed put_metric_data that and the event.
Act(i) ==
    /\ inv[i].phase = "written"
    /\ \/ /\ inv[i].state = "FAILOVER_AUTHORIZED"
          /\ control' = "trip"
          /\ authorized' = authorized \cup {inv[i].at}
       \/ /\ inv[i].state = "FAILOVER_AUTHORIZED" /\ "error" \in Faults
          /\ control' \in {control, "trip"} /\ UNCHANGED authorized
       \/ /\ inv[i].state = "FAILOVER_AUTHORIZED_BUT_NOT_AUTO"
          /\ UNCHANGED control
          /\ authorized' = authorized \cup {inv[i].at}
       \/ /\ inv[i].state = "FAILOVER_AUTHORIZED_BUT_NOT_AUTO" /\ "error" \in Faults
          /\ UNCHANGED <<control, authorized>>
       \/ /\ inv[i].state \in {"GREEN", "WATCHING"}
          /\ IF StateChanged(i) /\ Recorded(inv[i].state) = "GREEN" /\ inv[i].green
             THEN control' = "clear" \/ ("error" \in Faults /\ UNCHANGED control)
             ELSE UNCHANGED control
          /\ UNCHANGED authorized
    /\ inv' = [inv EXCEPT ![i] = Idle]
    /\ UNCHANGED <<now, red, sampled, redSampled, record>>

\* scripts/scenario_reset.sh: the decision is deleted, then 1.0 emitted.
ResetDecision ==
    /\ "reset" \in Faults
    /\ record' = NoDecision
    /\ control' = "clear"
    /\ UNCHANGED <<now, red, sampled, redSampled, inv, authorized>>

Next ==
    \/ Tick
    \/ \E s \in Signals : Collect(s)
    \/ \E i \in Invocations : Observe(i) \/ WriteDecision(i) \/ Act(i)
    \/ ResetDecision

Spec == Init /\ [][Next]_vars

-----------------------------------------------------------------------------
TypeOK ==
    /\ now \in Minutes
    /\ red \subseteq Signals \X Minutes
    /\ sampled \subseteq Minutes /\ redSampled \subseteq sampled
    /\ inv \in [Invocations -> {Idle} \cup
           [phase : {"evaluated", "written"}, at : Minutes, green : BOOLEAN, state : States]]
    /\ record \in {NoDecision} \cup [state : {"GREEN", "FAILOVER_AUTHORIZED"}, at : Minutes]
    /\ control \in {None, "trip", "clear"}
    /\ authorized \subseteq Minutes

RedIn(m) == {s \in Signals : \E k \in Since(m, 2) : <<s, k>> \in red}

\* No false alarm: a failover is authorized only when a quorum of distinct
\* signals has been red in the last minutes, and Dwell distinct minutes of
\* the window each had a red signal (its own, or up to two minutes old):
\* a blip shorter than Dwell - 2 minutes never authorizes anything, however
\* invocations overlap, fail, repeat or are reset.
AuthorizationIsEarned ==
    \A t \in authorized :
        /\ QuorumHeld(RedIn(t))
        /\ Cardinality({m \in Since(t, Dwell + 3) : RedIn(m) # {}}) >= Dwell

\* Decisions do not oscillate: two authorizations are at least Hysteresis
\* minutes apart, whatever writes, reads and invocations fail.
AuthorizationsAreSpaced ==
    \A t, u \in authorized : t < u => u >= t + Hysteresis

\* The engine trips the health check only while its record, which operators
\* and the audit trail show, says FAILOVER_AUTHORIZED.
TripIsRecorded ==
    [][control' = "trip" /\ control # "trip" =>
           record # NoDecision /\ record.state = "FAILOVER_AUTHORIZED"]_vars

\* No missed outage: when a quorum of signals has been red in each of the
\* last Dwell + 2 minutes, each of which has a sample, whatever record this
\* minute has says FAILOVER_AUTHORIZED, whichever invocation wrote it last.
OutageWindow == {m \in Minutes : m <= now /\ m + Dwell + 1 >= now}

OutageIsAuthorized ==
    /\ Cardinality(OutageWindow) = Dwell + 2 /\ OutageWindow \subseteq sampled
    /\ \A m \in OutageWindow : Cardinality({s \in Signals : <<s, m>> \in red}) >= Quorum
    /\ record # NoDecision /\ record.at = now
    => record.state = "FAILOVER_AUTHORIZED"
=============================================================================
