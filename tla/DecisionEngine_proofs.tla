------------------------ MODULE DecisionEngine_proofs ------------------------
(***************************************************************************)
(* Theorems about DecisionEngine, for every set of signals, quorum, dwell, *)
(* hysteresis and horizon.                                                 *)
(***************************************************************************)
EXTENDS DecisionEngine, NaturalMinimum, FiniteSetTheorems, TLAPS

(***************************************************************************)
(* Type correctness.                                                       *)
(***************************************************************************)
\* An invocation at work.
AtWork == [phase : {"evaluated", "written"}, at : Minutes, green : BOOLEAN, state : States]

Busy(i) == inv[i].phase \in {"evaluated", "written"}

LEMMA BusyIsAtWork ==
    ASSUME TypeOK, NEW i \in Invocations
    PROVE  /\ Busy(i) => inv[i] \in AtWork
           /\ Busy(i) <=> inv[i] # Idle
BY DEF TypeOK, Busy, AtWork, Idle

LEMMA EvaluateType ==
    ASSUME NEW reds, NEW samples, NEW redSamples
    PROVE  Evaluate(reds, samples, redSamples) \in States
BY DEF Evaluate, States

LEMMA RecordedType ==
    ASSUME NEW state
    PROVE  Recorded(state) \in {"GREEN", "FAILOVER_AUTHORIZED"}
BY DEF Recorded

\* What an observation leaves behind.
Observed(i) ==
    \E seen \in {<<sampled, redSampled>>, <<sampled', redSampled'>>} :
        inv' = [inv EXCEPT ![i] =
            [phase |-> "evaluated", at |-> now, green |-> CurrentRedSignals = {},
             state |-> Evaluate(CurrentRedSignals, seen[1], seen[2])]]

LEMMA ObservedType ==
    ASSUME TypeOK, NEW i \in Invocations, Observed(i)
    PROVE  inv' \in [Invocations -> {Idle} \cup AtWork]
<1>1. PICK samples, redSamples :
          inv' = [inv EXCEPT ![i] =
              [phase |-> "evaluated", at |-> now, green |-> CurrentRedSignals = {},
               state |-> Evaluate(CurrentRedSignals, samples, redSamples)]]
  BY DEF Observed
<1>2. Evaluate(CurrentRedSignals, samples, redSamples) \in States
  BY EvaluateType
<1>3. now \in Minutes /\ inv \in [Invocations -> {Idle} \cup AtWork]
  BY DEF TypeOK, AtWork
<1> DEFINE new == [phase |-> "evaluated", at |-> now, green |-> CurrentRedSignals = {},
                   state |-> Evaluate(CurrentRedSignals, samples, redSamples)]
<1>4. new \in AtWork
  <2>1. (CurrentRedSignals = {}) \in BOOLEAN
    OBVIOUS
  <2> HIDE DEF new
  <2> QED
    BY <1>2, <1>3, <2>1 DEF AtWork, new
<1> HIDE DEF new
<1>5. inv' = [inv EXCEPT ![i] = new]
  BY <1>1 DEF new
<1> QED
  BY <1>3, <1>4, <1>5

LEMMA EngineNextType == TypeOK /\ [Next]_vars => TypeOK'
<1> SUFFICES ASSUME TypeOK, [Next]_vars PROVE TypeOK'
  OBVIOUS
<1>0. MaxTime \in Nat
  BY EngineAssumption
<1>1. CASE Tick
  BY <1>0, <1>1 DEF Tick, TypeOK, Minutes
<1>2. ASSUME NEW s \in Signals, Collect(s) PROVE TypeOK'
  BY <1>2 DEF Collect, TypeOK
<1>3. ASSUME NEW i \in Invocations, Observe(i) PROVE TypeOK'
  <2>1. inv' \in [Invocations -> {Idle} \cup AtWork]
    <3>1. CASE Observed(i)
      BY <3>1, ObservedType
    <3>2. CASE UNCHANGED inv
      BY <3>2 DEF TypeOK, AtWork
    <3> QED
      BY <1>3, <3>1, <3>2 DEF Observe, Observed
  <2>2. sampled' \subseteq Minutes /\ redSampled' \subseteq sampled'
    BY <1>3 DEF Observe, TypeOK
  <2> QED
    BY <1>3, <2>1, <2>2 DEF Observe, TypeOK, AtWork
<1>4. ASSUME NEW i \in Invocations, WriteDecision(i) PROVE TypeOK'
  <2>1. inv[i] \in AtWork
    BY <1>4, BusyIsAtWork DEF WriteDecision, Busy
  <2>2. record' \in {NoDecision} \cup [state : {"GREEN", "FAILOVER_AUTHORIZED"}, at : Minutes]
    BY <1>4, <2>1, RecordedType DEF WriteDecision, TypeOK, AtWork
  <2>3. inv' \in [Invocations -> {Idle} \cup AtWork]
    BY <1>4, <2>1 DEF WriteDecision, TypeOK, AtWork
  <2> QED
    BY <1>4, <2>2, <2>3 DEF WriteDecision, TypeOK, AtWork
<1>5. ASSUME NEW i \in Invocations, Act(i) PROVE TypeOK'
  <2>1. inv[i] \in AtWork
    BY <1>5, BusyIsAtWork DEF Act, Busy
  <2>2. control' \in {None, "trip", "clear"} /\ authorized' \subseteq Minutes
    BY <1>5, <2>1 DEF Act, TypeOK, AtWork
  <2>3. inv' \in [Invocations -> {Idle} \cup AtWork]
    BY <1>5 DEF Act, TypeOK, AtWork
  <2> QED
    BY <1>5, <2>2, <2>3 DEF Act, TypeOK, AtWork
<1>6. CASE ResetDecision
  BY <1>6 DEF ResetDecision, TypeOK
<1>7. CASE UNCHANGED vars
  BY <1>7 DEF vars, TypeOK
<1> QED
  BY <1>1, <1>2, <1>3, <1>4, <1>5, <1>6, <1>7 DEF Next

LEMMA EngineInitType == Init => TypeOK
BY EngineAssumption DEF Init, TypeOK, Minutes

\* Every variable keeps its type: in particular the record never holds
\* WATCHING or FAILOVER_AUTHORIZED_BUT_NOT_AUTO, and a red sample is a sample.
THEOREM EngineTypeCorrect == Spec => []TypeOK
BY EngineInitType, EngineNextType, PTL DEF Spec

-----------------------------------------------------------------------------
(***************************************************************************)
(* The record and the side effects, when invocations do not overlap and    *)
(* nobody deletes the record: what Act does is what the record says, and   *)
(* the hysteresis gate, which looks only at the record, covers every       *)
(* authorization before it, for no authorization is later than the record. *)
(***************************************************************************)
Serial == (\A i, j \in Invocations : i = j) /\ "reset" \notin Faults

AuthorizingStates == {"FAILOVER_AUTHORIZED", "FAILOVER_AUTHORIZED_BUT_NOT_AUTO"}

\* Where invocation i stands with respect to the record and the past.
InStep(i) ==
    Busy(i) =>
        /\ inv[i].at <= now
        /\ record # NoDecision => record.at <= inv[i].at
        /\ inv[i].phase = "written" =>
               record = [state |-> Recorded(inv[i].state), at |-> inv[i].at]
        /\ inv[i].state \in AuthorizingStates =>
               \A t \in authorized : inv[i].at >= t + Hysteresis

SpacedInv ==
    /\ TypeOK
    /\ record # NoDecision => record.at <= now
    /\ \A t \in authorized : record # NoDecision /\ t <= record.at
    /\ AuthorizationsAreSpaced
    /\ \A i \in Invocations : InStep(i)

LEMMA EvaluateHonoursHysteresis ==
    ASSUME NEW reds, NEW samples, NEW redSamples,
           Evaluate(reds, samples, redSamples) \in AuthorizingStates
    PROVE  HysteresisHeld
BY DEF Evaluate, AuthorizingStates

LEMMA SpacedObserve ==
    ASSUME Serial, SpacedInv, TypeOK', NEW i \in Invocations, Observe(i)
    PROVE  SpacedInv'
<1>0. UNCHANGED <<now, record, authorized>> /\ now \in Nat /\ Hysteresis \in Nat
  BY EngineAssumption DEF Observe, SpacedInv, TypeOK, Minutes
<1>1. CASE UNCHANGED inv
  BY <1>0, <1>1 DEF SpacedInv, AuthorizationsAreSpaced, InStep, Busy
<1>2. CASE Observed(i)
  <2>1. PICK samples, redSamples :
            inv' = [inv EXCEPT ![i] =
                [phase |-> "evaluated", at |-> now, green |-> CurrentRedSignals = {},
                 state |-> Evaluate(CurrentRedSignals, samples, redSamples)]]
    BY <1>2 DEF Observed
  <2>2. /\ inv'[i].phase = "evaluated" /\ inv'[i].at = now
        /\ inv'[i].state = Evaluate(CurrentRedSignals, samples, redSamples)
    BY <2>1 DEF SpacedInv, TypeOK
  <2>3. ASSUME inv'[i].state \in AuthorizingStates, NEW t \in authorized
        PROVE  now >= t + Hysteresis
    <3>1. HysteresisHeld
      BY <2>2, <2>3, EvaluateHonoursHysteresis
    <3>2. record # NoDecision /\ t <= record.at
      BY DEF SpacedInv
    <3>3. record.at \in Nat /\ t \in Nat
      BY <3>2 DEF SpacedInv, TypeOK, Minutes
    <3> QED
      BY <1>0, <3>1, <3>2, <3>3 DEF HysteresisHeld
  <2>4. InStep(i)'
    BY <1>0, <2>2, <2>3 DEF InStep, SpacedInv
  <2>5. \A j \in Invocations : InStep(j)'
    BY <2>4 DEF Serial
  <2> QED
    BY <1>0, <2>5 DEF SpacedInv, AuthorizationsAreSpaced
<1> QED
  BY <1>1, <1>2 DEF Observe, Observed

LEMMA SpacedWrite ==
    ASSUME Serial, SpacedInv, TypeOK', NEW i \in Invocations, WriteDecision(i)
    PROVE  SpacedInv'
<1> DEFINE written == [state |-> Recorded(inv[i].state), at |-> inv[i].at]
<1>0. /\ UNCHANGED <<now, authorized>> /\ now \in Nat /\ authorized \subseteq Nat
      /\ inv[i].phase = "evaluated" /\ Busy(i) /\ InStep(i) /\ inv[i].at \in Nat
  <2>1. inv[i].phase = "evaluated" /\ Busy(i) /\ UNCHANGED <<now, authorized>>
    BY DEF WriteDecision, Busy
  <2>2. inv[i] \in AtWork
    BY <2>1, BusyIsAtWork DEF SpacedInv
  <2> QED
    BY <2>1, <2>2 DEF SpacedInv, TypeOK, AtWork, Minutes
<1>1. record # NoDecision => record.at <= inv[i].at /\ record.at \in Nat
  BY <1>0 DEF InStep, SpacedInv, TypeOK, Minutes
<1>2. written # NoDecision /\ written.at = inv[i].at
  BY DEF NoDecision
<1>3. record' \in {record, written}
  BY DEF WriteDecision
<1>4. \A t \in authorized : record' # NoDecision /\ t <= record'.at
  <2> SUFFICES ASSUME NEW t \in authorized PROVE record' # NoDecision /\ t <= record'.at
    OBVIOUS
  <2>1. record # NoDecision /\ t <= record.at /\ t \in Nat
    BY <1>0 DEF SpacedInv
  <2> QED
    BY <1>0, <1>1, <1>2, <1>3, <2>1
<1>5. record' # NoDecision => record'.at <= now
  BY <1>0, <1>1, <1>2, <1>3 DEF InStep, SpacedInv
<1>6. InStep(i)'
  <2>1. CASE record' = written /\ inv' = [inv EXCEPT ![i].phase = "written"]
    <3>1. /\ inv'[i].phase = "written" /\ inv'[i].at = inv[i].at
          /\ inv'[i].state = inv[i].state
      BY <2>1 DEF SpacedInv, TypeOK
    <3> QED
      BY <1>0, <1>2, <2>1, <3>1 DEF InStep
  <2>2. CASE inv' = [inv EXCEPT ![i] = Idle]
    <3>1. inv'[i] = Idle
      BY <2>2 DEF SpacedInv, TypeOK
    <3> QED
      BY <3>1 DEF InStep, Busy, Idle
  <2> QED
    BY <2>1, <2>2 DEF WriteDecision
<1>7. \A j \in Invocations : InStep(j)'
  BY <1>6 DEF Serial
<1> QED
  BY <1>0, <1>4, <1>5, <1>7 DEF SpacedInv, AuthorizationsAreSpaced

LEMMA SpacedAct ==
    ASSUME Serial, SpacedInv, TypeOK', NEW i \in Invocations, Act(i)
    PROVE  SpacedInv'
<1>0. /\ UNCHANGED <<now, record>> /\ now \in Nat /\ authorized \subseteq Nat
      /\ inv[i].phase = "written" /\ Busy(i) /\ InStep(i) /\ inv[i].at \in Nat
      /\ inv'[i] = Idle
  <2>1. inv[i].phase = "written" /\ Busy(i) /\ UNCHANGED <<now, record>>
    BY DEF Act, Busy
  <2>2. inv[i] \in AtWork
    BY <2>1, BusyIsAtWork DEF SpacedInv
  <2> QED
    BY <2>1, <2>2 DEF Act, SpacedInv, TypeOK, AtWork, Minutes
<1>1. record # NoDecision /\ record.at = inv[i].at
  BY <1>0 DEF InStep, NoDecision
<1>2. \A j \in Invocations : InStep(j)'
  BY <1>0 DEF Serial, InStep, Busy, Idle
<1>3. CASE UNCHANGED authorized
  BY <1>0, <1>2, <1>3 DEF SpacedInv, AuthorizationsAreSpaced
<1>4. CASE /\ inv[i].state \in AuthorizingStates
           /\ authorized' = authorized \cup {inv[i].at}
  <2>1. \A t \in authorized : inv[i].at >= t + Hysteresis /\ t <= inv[i].at
    BY <1>0, <1>1, <1>4 DEF InStep, SpacedInv
  <2>2. AuthorizationsAreSpaced'
    BY <1>0, <1>4, <2>1 DEF SpacedInv, AuthorizationsAreSpaced
  <2>3. \A t \in authorized' : t <= record.at
    BY <1>0, <1>1, <1>4, <2>1
  <2> QED
    BY <1>0, <1>1, <1>2, <2>2, <2>3 DEF SpacedInv
<1> QED
  BY <1>3, <1>4 DEF Act, AuthorizingStates

LEMMA SpacedInit == Init => SpacedInv
BY EngineInitType DEF Init, SpacedInv, AuthorizationsAreSpaced, InStep, Busy, Idle, NoDecision

LEMMA SpacedNext ==
    ASSUME Serial
    PROVE  SpacedInv /\ [Next]_vars => SpacedInv'
<1> SUFFICES ASSUME SpacedInv, [Next]_vars PROVE SpacedInv'
  OBVIOUS
<1>0. TypeOK'
  BY EngineNextType DEF SpacedInv
<1>1. CASE Tick
  <2>1. /\ now' = now + 1 /\ now \in Nat
        /\ UNCHANGED <<inv, record, authorized>>
    BY <1>1 DEF Tick, SpacedInv, TypeOK, Minutes
  <2>2. record # NoDecision => record.at \in Nat
    BY DEF SpacedInv, TypeOK, Minutes
  <2>3. \A i \in Invocations : Busy(i) => inv[i].at \in Nat
    BY BusyIsAtWork DEF SpacedInv, AtWork, Minutes
  <2>4. \A i \in Invocations : InStep(i)'
    BY <2>1, <2>3 DEF SpacedInv, InStep, Busy
  <2> QED
    BY <1>0, <2>1, <2>2, <2>4 DEF SpacedInv, AuthorizationsAreSpaced
<1>2. CASE UNCHANGED <<now, inv, record, authorized>>
  BY <1>0, <1>2 DEF SpacedInv, AuthorizationsAreSpaced, InStep, Busy
<1>3. ASSUME NEW s \in Signals, Collect(s) PROVE SpacedInv'
  BY <1>2, <1>3 DEF Collect
<1>4. ~ResetDecision
  BY DEF ResetDecision, Serial
<1>5. CASE UNCHANGED vars
  BY <1>2, <1>5 DEF vars
<1> QED
  BY <1>0, <1>1, <1>3, <1>4, <1>5, SpacedObserve, SpacedWrite, SpacedAct DEF Next

\* Decisions do not oscillate: authorizations are Hysteresis minutes apart,
\* for every hysteresis and horizon, whatever calls fail and minutes are missed.
THEOREM AuthorizationsAreAlwaysSpaced ==
    ASSUME Serial
    PROVE  Spec => []AuthorizationsAreSpaced
<1>1. SpacedInv => AuthorizationsAreSpaced
  BY DEF SpacedInv
<1> QED
  BY <1>1, SpacedInit, SpacedNext, PTL DEF Spec

LEMMA TripMeansRecord ==
    ASSUME SpacedInv, [Next]_vars, "reset" \notin Faults, control' = "trip", control # "trip"
    PROVE  record # NoDecision /\ record.state = "FAILOVER_AUTHORIZED"
<1>1. PICK i \in Invocations : Act(i)
  BY DEF Next, Tick, Collect, Observe, WriteDecision, ResetDecision, vars
<1>2. inv[i].phase = "written" /\ inv[i].state = "FAILOVER_AUTHORIZED"
  <2>1. inv[i].phase = "written"
    BY <1>1 DEF Act
  <2>2. inv[i] \in AtWork
    BY <2>1, BusyIsAtWork DEF SpacedInv, Busy
  <2> QED
    BY <1>1, <2>1 DEF Act
<1>3. record = [state |-> "FAILOVER_AUTHORIZED", at |-> inv[i].at]
  BY <1>2 DEF SpacedInv, InStep, Busy, Recorded
<1> QED
  BY <1>3 DEF NoDecision

\* The health check is never tripped behind the record's back: a write that
\* fails half-way, or an invocation that dies, leaves the record ahead of the
\* metric and never the metric ahead of the record.
THEOREM TripIsAlwaysRecorded ==
    ASSUME Serial
    PROVE  Spec => TripIsRecorded
<1>1. SpacedInv /\ [Next]_vars =>
          [control' = "trip" /\ control # "trip" =>
               record # NoDecision /\ record.state = "FAILOVER_AUTHORIZED"]_vars
  BY TripMeansRecord DEF Serial
<1> QED
  BY <1>1, SpacedInit, SpacedNext, PTL DEF Spec, TripIsRecorded

-----------------------------------------------------------------------------
(***************************************************************************)
(* No false alarm.  An authorization rests on what one invocation saw, and *)
(* red datapoints are only ever added, so what it saw stays true.          *)
(***************************************************************************)
Later(history, m) == {k \in history : k > m}

\* Sets of minutes are finite.
LEMMA BoundedIsFinite ==
    ASSUME NEW b \in Nat, NEW S \in SUBSET (0..b)
    PROVE  IsFiniteSet(S)
<1>1. IsFiniteSet(0..b)
  BY FS_Interval
<1> QED
  BY <1>1, FS_Subset

\* Of at least n numbers, at least n have fewer than n above them: the last n.
LEMMA LastOnes ==
    ASSUME NEW history, NEW n \in Nat, NEW b \in Nat, history \subseteq 0..b,
           Cardinality(history) >= n
    PROVE  Cardinality({m \in history : Cardinality(Later(history, m)) < n}) >= n
<1> DEFINE last == {m \in history : Cardinality(Later(history, m)) < n}
           early == history \ last
           fromTop == {b - m : m \in early}
<1>0. IsFiniteSet(history) /\ history \in SUBSET Nat
  <2>1. history \in SUBSET (0..b)
    OBVIOUS
  <2>2. IsFiniteSet(history)
    BY <2>1, BoundedIsFinite
  <2> QED
    BY <2>1, <2>2
<1>1. IsFiniteSet(last) /\ Cardinality(last) \in Nat
  BY <1>0, FS_Subset, FS_CardinalityType
<1>2. SUFFICES ASSUME Cardinality(last) < n PROVE FALSE
  BY <1>1
<1>3. last # history
  BY <1>2, <1>1
<1>4. fromTop \in SUBSET Nat /\ fromTop # {}
  <2>1. \A m \in early : b - m \in Nat
    OBVIOUS
  <2>2. early # {}
    BY <1>3
  <2> HIDE DEF early
  <2> QED
    BY <2>1, <2>2
<1> HIDE DEF fromTop
<1>5. PICK top \in fromTop : \A k \in fromTop : top <= k
  BY <1>4, LeastElement
<1>6. PICK m \in early : top = b - m
  BY <1>5 DEF fromTop
<1>7. \A k \in early : k <= m
  <2> SUFFICES ASSUME NEW k \in early PROVE k <= m
    OBVIOUS
  <2>1. b - k \in fromTop
    BY DEF fromTop
  <2>2. b - m <= b - k
    BY <1>5, <1>6, <2>1
  <2>3. k \in 0..b /\ m \in 0..b
    OBVIOUS
  <2> QED
    BY <2>2, <2>3
<1>8. Later(history, m) \subseteq last
  <2> SUFFICES ASSUME NEW k \in history, k > m PROVE k \in last
    BY DEF Later
  <2>1. k \in 0..b /\ m \in 0..b
    OBVIOUS
  <2>2. k \notin early
    BY <1>7, <2>1
  <2> QED
    BY <2>2
<1>9. Cardinality(Later(history, m)) <= Cardinality(last)
  BY <1>1, <1>8, FS_Subset
<1>10. Cardinality(Later(history, m)) \in Nat
  BY <1>1, <1>8, FS_Subset, FS_CardinalityType
<1>11. Cardinality(Later(history, m)) < n
  BY <1>1, <1>2, <1>9, <1>10
<1> QED
  BY <1>11

\* A dwell that is held shows Dwell red samples in its window.
LEMMA DwellCounts ==
    ASSUME NEW samples, NEW reds, now \in Minutes, DwellHeld(samples, reds)
    PROVE  Cardinality({m \in Since(now, Dwell + 3) : m \in reds}) >= Dwell
<1> DEFINE history == History(samples)
           last == {m \in history : Cardinality(Later(history, m)) < Dwell}
           counted == {m \in Since(now, Dwell + 3) : m \in reds}
<1>0. Dwell \in Nat /\ MaxTime \in Nat
  BY EngineAssumption
<1>1. history \subseteq 0..MaxTime
  BY DEF History, Since, Minutes
<1>2. Cardinality(history) >= Dwell
  BY DEF DwellHeld
<1>3. Cardinality(last) >= Dwell
  <2> HIDE DEF history
  <2> QED
    BY <1>0, <1>1, <1>2, LastOnes
<1>4. last \subseteq counted
  BY DEF DwellHeld, Later, History
<1>5. counted \in SUBSET (0..MaxTime)
  BY DEF Since, Minutes
<1>6. IsFiniteSet(counted)
  BY <1>0, <1>5, BoundedIsFinite
<1>7. /\ Cardinality(last) <= Cardinality(counted)
      /\ Cardinality(last) \in Nat /\ Cardinality(counted) \in Nat
  <2> HIDE DEF last, counted
  <2> QED
    BY <1>4, <1>6, FS_Subset, FS_CardinalityType
<1> QED
  BY <1>0, <1>3, <1>7

\* What an authorization for minute t must rest on.
Earned(t) ==
    /\ QuorumHeld(RedIn(t))
    /\ Cardinality({m \in Since(t, Dwell + 3) : RedIn(m) # {}}) >= Dwell

EarnedInv ==
    /\ TypeOK
    /\ \A m \in redSampled : RedIn(m) # {}
    /\ \A i \in Invocations : Busy(i) /\ inv[i].state \in AuthorizingStates => Earned(inv[i].at)
    /\ \A t \in authorized : Earned(t)

LEMMA CardinalityGrows ==
    ASSUME NEW T, IsFiniteSet(T), NEW S \in SUBSET T, NEW n \in Nat, Cardinality(S) >= n
    PROVE  Cardinality(T) >= n
BY FS_Subset, FS_CardinalityType

\* Datapoints that are added spoil no authorization.
LEMMA EarnedStays ==
    ASSUME red \subseteq red', NEW t, Earned(t)
    PROVE  Earned(t)'
<1>0. /\ Quorum \in Nat /\ Dwell \in Nat /\ MaxTime \in Nat
      /\ IsFiniteSet(Signals)
  BY EngineAssumption
<1>1. \A m : RedIn(m) \subseteq RedIn(m)' /\ RedIn(m)' \subseteq Signals
  BY DEF RedIn
<1>2. QuorumHeld(RedIn(t))'
  <2>1. IsFiniteSet(RedIn(t)') /\ RedIn(t) \in SUBSET RedIn(t)'
    BY <1>0, <1>1, FS_Subset
  <2>2. Cardinality(RedIn(t)) >= Quorum
    BY DEF Earned, QuorumHeld
  <2>3. Cardinality(RedIn(t)') >= Quorum
    BY <1>0, <2>1, <2>2, CardinalityGrows
  <2> QED
    BY <2>3 DEF QuorumHeld
<1>3. Cardinality({m \in Since(t, Dwell + 3) : RedIn(m)' # {}}) >= Dwell
  <2> DEFINE S == {m \in Since(t, Dwell + 3) : RedIn(m) # {}}
             T == {m \in Since(t, Dwell + 3) : RedIn(m)' # {}}
  <2>1. S \in SUBSET T
    BY <1>1
  <2>2. T \in SUBSET (0..MaxTime)
    BY DEF Since, Minutes
  <2>3. IsFiniteSet(T)
    BY <1>0, <2>2, BoundedIsFinite
  <2>4. Cardinality(S) >= Dwell
    BY DEF Earned
  <2> HIDE DEF S, T
  <2>5. Cardinality(T) >= Dwell
    BY <1>0, <2>1, <2>3, <2>4, CardinalityGrows
  <2> QED
    BY <2>5 DEF T
<1> QED
  BY <1>2, <1>3 DEF Earned

\* An evaluation that authorizes has earned it.
LEMMA EvaluationEarns ==
    ASSUME TypeOK, NEW samples, NEW redSamples, \A m \in redSamples : RedIn(m) # {},
           Evaluate(CurrentRedSignals, samples, redSamples) \in AuthorizingStates
    PROVE  Earned(now)
<1>1. QuorumHeld(CurrentRedSignals) /\ DwellHeld(samples, redSamples)
  BY DEF Evaluate, AuthorizingStates
<1>2. CurrentRedSignals = RedIn(now)
  BY DEF CurrentRedSignals, RedIn
<1> DEFINE S == {m \in Since(now, Dwell + 3) : m \in redSamples}
           T == {m \in Since(now, Dwell + 3) : RedIn(m) # {}}
<1>3. Cardinality(S) >= Dwell
  BY <1>1, DwellCounts DEF TypeOK
<1>4. S \in SUBSET T /\ T \in SUBSET (0..MaxTime)
  BY DEF Since, Minutes
<1> HIDE DEF S, T
<1>5. Dwell \in Nat /\ MaxTime \in Nat
  BY EngineAssumption
<1>6. IsFiniteSet(T)
  BY <1>4, <1>5, BoundedIsFinite
<1>7. Cardinality(T) >= Dwell
  BY <1>3, <1>4, <1>5, <1>6, CardinalityGrows
<1> QED
  BY <1>1, <1>2, <1>7 DEF Earned, T

LEMMA EarnedObserve ==
    ASSUME EarnedInv, TypeOK', NEW i \in Invocations, Observe(i)
    PROVE  EarnedInv'
<1>0. UNCHANGED <<now, red, authorized>>
  BY DEF Observe
<1>1. \A t : Earned(t) => Earned(t)'
  BY <1>0, EarnedStays
<1>2. \A m : RedIn(m)' = RedIn(m)
  BY <1>0 DEF RedIn
<1>3. \A m \in redSampled' : RedIn(m) # {}
  <2>1. CurrentRedSignals = RedIn(now)
    BY DEF CurrentRedSignals, RedIn
  <2> QED
    BY <2>1 DEF Observe, EarnedInv
<1>4. ASSUME NEW j \in Invocations, Busy(j)', inv'[j].state \in AuthorizingStates
      PROVE  Earned(inv'[j].at)
  <2>1. CASE UNCHANGED inv
    BY <1>4, <2>1 DEF EarnedInv, Busy
  <2>2. CASE Observed(i) /\ j = i
    <3>1. PICK samples, redSamples :
              /\ redSamples \in {redSampled, redSampled'}
              /\ inv' = [inv EXCEPT ![i] =
                  [phase |-> "evaluated", at |-> now, green |-> CurrentRedSignals = {},
                   state |-> Evaluate(CurrentRedSignals, samples, redSamples)]]
      BY <2>2 DEF Observed
    <3>2. inv'[i].at = now /\ inv'[i].state = Evaluate(CurrentRedSignals, samples, redSamples)
      BY <3>1 DEF EarnedInv, TypeOK
    <3>3. \A m \in redSamples : RedIn(m) # {}
      BY <1>3, <3>1 DEF EarnedInv
    <3> QED
      BY <1>4, <2>2, <3>2, <3>3, EvaluationEarns DEF EarnedInv
  <2>3. CASE Observed(i) /\ j # i
    <3>1. inv'[j] = inv[j]
      BY <2>3 DEF Observed, EarnedInv, TypeOK
    <3> QED
      BY <1>4, <3>1 DEF EarnedInv, Busy
  <2> QED
    BY <2>1, <2>2, <2>3 DEF Observe, Observed
<1>5. \A j \in Invocations :
          (Busy(j) /\ inv[j].state \in AuthorizingStates => Earned(inv[j].at))'
  BY <1>1, <1>4
<1>6. \A t \in authorized' : Earned(t)'
  BY <1>0, <1>1 DEF EarnedInv
<1> QED
  BY <1>2, <1>3, <1>5, <1>6 DEF EarnedInv

\* What an invocation does later claims no more than it has evaluated.
LEMMA EarnedLater ==
    ASSUME EarnedInv, TypeOK', red \subseteq red', UNCHANGED redSampled,
           \A j \in Invocations :
               Busy(j)' => Busy(j) /\ inv'[j].state = inv[j].state /\ inv'[j].at = inv[j].at,
           \A t \in authorized' \ authorized :
               \E j \in Invocations : Busy(j) /\ inv[j].state \in AuthorizingStates /\ t = inv[j].at
    PROVE  EarnedInv'
<1>1. \A t : Earned(t) => Earned(t)'
  BY EarnedStays
<1>2. \A m \in redSampled' : RedIn(m)' # {}
  BY DEF EarnedInv, RedIn
<1>3. \A j \in Invocations :
          (Busy(j) /\ inv[j].state \in AuthorizingStates => Earned(inv[j].at))'
  BY <1>1 DEF EarnedInv
<1>4. \A t \in authorized' : Earned(t)'
  BY <1>1 DEF EarnedInv
<1> QED
  BY <1>2, <1>3, <1>4 DEF EarnedInv

LEMMA EarnedInit == Init => EarnedInv
BY EngineInitType DEF Init, EarnedInv, Busy, Idle

LEMMA EarnedNext == EarnedInv /\ [Next]_vars => EarnedInv'
<1> SUFFICES ASSUME EarnedInv, [Next]_vars PROVE EarnedInv'
  OBVIOUS
<1>0. TypeOK'
  BY EngineNextType DEF EarnedInv
<1>1. ASSUME NEW i \in Invocations, WriteDecision(i) PROVE EarnedInv'
  <2>1. \A j \in Invocations :
            Busy(j)' => Busy(j) /\ inv'[j].state = inv[j].state /\ inv'[j].at = inv[j].at
    <3>1. inv[i] \in AtWork /\ inv \in [Invocations -> {Idle} \cup AtWork]
      BY <1>1, BusyIsAtWork DEF WriteDecision, Busy, EarnedInv, TypeOK, AtWork
    <3>2. inv' \in {[inv EXCEPT ![i].phase = "written"], [inv EXCEPT ![i] = Idle]}
      BY <1>1 DEF WriteDecision
    <3> QED
      BY <1>1, <3>1, <3>2 DEF WriteDecision, Busy, Idle, AtWork
  <2> QED
    BY <1>0, <1>1, <2>1, EarnedLater DEF WriteDecision
<1>2. ASSUME NEW i \in Invocations, Act(i) PROVE EarnedInv'
  <2>1. inv' = [inv EXCEPT ![i] = Idle] /\ UNCHANGED <<red, redSampled>> /\ Busy(i)
    BY <1>2 DEF Act, Busy
  <2>2. \A j \in Invocations :
            Busy(j)' => Busy(j) /\ inv'[j].state = inv[j].state /\ inv'[j].at = inv[j].at
    BY <2>1 DEF EarnedInv, TypeOK, Busy, Idle
  <2>3. authorized' = authorized \/ (authorized' = authorized \cup {inv[i].at}
                                     /\ inv[i].state \in AuthorizingStates)
    BY <1>2 DEF Act, AuthorizingStates
  <2> QED
    BY <1>0, <2>1, <2>2, <2>3, EarnedLater
<1>3. CASE red \subseteq red' /\ UNCHANGED <<redSampled, inv, authorized>>
  BY <1>0, <1>3, EarnedLater DEF Busy
<1>4. ASSUME NEW s \in Signals, Collect(s) PROVE EarnedInv'
  BY <1>3, <1>4 DEF Collect
<1>5. CASE Tick \/ ResetDecision \/ UNCHANGED vars
  BY <1>3, <1>5 DEF Tick, ResetDecision, vars
<1> QED
  BY <1>0, <1>1, <1>2, <1>4, <1>5, EarnedObserve DEF Next

\* No false alarm: an authorization has a quorum of distinct signals in its
\* last minutes and Dwell distinct red minutes in its window, for every quorum,
\* dwell and set of signals, however invocations overlap, fail and are reset.
THEOREM AuthorizationsAreAlwaysEarned == Spec => []AuthorizationIsEarned
<1>1. EarnedInv => AuthorizationIsEarned
  BY DEF EarnedInv, AuthorizationIsEarned, Earned
<1> QED
  BY <1>1, EarnedInit, EarnedNext, PTL DEF Spec

-----------------------------------------------------------------------------
(***************************************************************************)
(* No missed outage, without hysteresis (with it, the property fails).     *)
(* Every evaluation of a minute that ends an outage window authorizes:     *)
(* each of the last samples was taken a minute after a red datapoint, so   *)
(* it is red whatever was collected later in its own minute.               *)
(***************************************************************************)
\* The minutes before n of an outage that ends in n: they are history, and
\* nothing of minute n changes them.
Before(n) == {m \in Minutes : m < n /\ m + Dwell + 1 >= n}

RedSignals(m) == {s \in Signals : <<s, m>> \in red}

OutageUntil(n) ==
    /\ n >= Dwell + 1
    /\ \A m \in Before(n) : m \in sampled /\ Cardinality(RedSignals(m)) >= Quorum

\* Nothing is dated in the future.
DatesPast ==
    /\ \A m \in sampled : m <= now
    /\ \A s \in Signals, m \in Minutes : <<s, m>> \in red => m <= now
    /\ record # NoDecision => record.at <= now
    /\ \A i \in Invocations : Busy(i) => inv[i].at <= now

\* A sample is red when there was a red datapoint the minute before.
SamplesFollow ==
    \A m \in Minutes, s \in Signals : <<s, m>> \in red /\ m + 1 \in sampled => m + 1 \in redSampled

OutageInv ==
    /\ TypeOK
    /\ DatesPast
    /\ SamplesFollow
    /\ OutageUntil(now) =>
           /\ \A i \in Invocations : Busy(i) /\ inv[i].at = now => inv[i].state \in AuthorizingStates
           /\ record # NoDecision /\ record.at = now => record.state = "FAILOVER_AUTHORIZED"

\* The sets the engine looks at have the sizes it asks for.
LEMMA OutageHoldsQuorum ==
    ASSUME TypeOK, OutageUntil(now)
    PROVE  QuorumHeld(CurrentRedSignals)
<1>0. /\ now \in Nat /\ now <= MaxTime /\ MaxTime \in Nat
      /\ Dwell \in Nat /\ Dwell >= 1 /\ Quorum \in Nat /\ IsFiniteSet(Signals)
  BY EngineAssumption DEF TypeOK, Minutes
<1>1. now >= 2
  BY <1>0 DEF OutageUntil
<1>2. now - 1 \in Before(now) /\ now - 1 \in Since(now, 2)
  BY <1>0, <1>1 DEF Before, Since, Minutes
<1>3. Cardinality(RedSignals(now - 1)) >= Quorum
  BY <1>2 DEF OutageUntil
<1>4. RedSignals(now - 1) \in SUBSET CurrentRedSignals /\ CurrentRedSignals \in SUBSET Signals
  BY <1>2 DEF RedSignals, CurrentRedSignals
<1>5. IsFiniteSet(CurrentRedSignals)
  BY <1>0, <1>4, FS_Subset
<1>6. Cardinality(CurrentRedSignals) >= Quorum
  BY <1>0, <1>3, <1>4, <1>5, CardinalityGrows
<1> QED
  BY <1>6 DEF QuorumHeld

\* Of the samples the engine may see, one of the last Dwell is a sample of the
\* outage, other than its first.
LEMMA OutageHoldsDwell ==
    ASSUME TypeOK, DatesPast, SamplesFollow, OutageUntil(now),
           NEW samples, NEW redSamples,
           sampled \subseteq samples, samples \subseteq sampled \cup {now},
           redSampled \subseteq redSamples, now \in samples => now \in redSamples
    PROVE  DwellHeld(samples, redSamples)
<1> DEFINE history == History(samples)
           lastOnes == (now - Dwell)..(now - 1)
<1>0. /\ now \in Nat /\ now <= MaxTime /\ MaxTime \in Nat
      /\ Dwell \in Nat /\ Dwell >= 1 /\ Quorum \in Nat /\ Quorum >= 1
  BY EngineAssumption DEF TypeOK, Minutes
<1>1. now >= Dwell + 1
  BY DEF OutageUntil
<1>2. lastOnes \in SUBSET history
  <2> SUFFICES ASSUME NEW m \in lastOnes PROVE m \in samples /\ m \in Since(now, Dwell + 3)
    BY DEF History
  <2>1. m \in Before(now) /\ m \in Since(now, Dwell + 3)
    BY <1>0, <1>1 DEF Before, Since, Minutes
  <2> QED
    BY <2>1 DEF OutageUntil
<1>3. Cardinality(lastOnes) = Dwell
  <2>1. now - Dwell \in Int /\ now - 1 \in Int /\ ~(now - Dwell > now - 1)
    BY <1>0
  <2>2. Cardinality(lastOnes) = (now - 1) - (now - Dwell) + 1
    BY <2>1, FS_Interval
  <2> QED
    BY <1>0, <2>2
<1>4. history \in SUBSET (0..MaxTime)
  BY DEF History, Since, Minutes
<1> HIDE DEF lastOnes, history
<1>5. IsFiniteSet(history)
  BY <1>0, <1>4, BoundedIsFinite
<1>6. Cardinality(history) >= Dwell
  BY <1>0, <1>2, <1>3, <1>5, CardinalityGrows
<1>7. ASSUME NEW m \in history, Cardinality({k \in history : k > m}) < Dwell
      PROVE  m \in redSamples
  <2>0. m \in samples /\ m \in Nat /\ m <= now /\ m \in Minutes
    BY <1>0 DEF history, History, Since, Minutes
  <2>1. m + Dwell >= now
    <3> SUFFICES ASSUME m + Dwell < now PROVE FALSE
      BY <1>0, <2>0
    <3>1. lastOnes \in SUBSET {k \in history : k > m}
      BY <1>0, <1>2, <2>0 DEF lastOnes
    <3>2. {k \in history : k > m} \in SUBSET (0..MaxTime)
      BY <1>4
    <3>3. IsFiniteSet({k \in history : k > m})
      BY <1>0, <3>2, BoundedIsFinite
    <3> DEFINE later == {k \in history : k > m}
    <3> HIDE DEF later
    <3>4. Cardinality(later) >= Dwell /\ Cardinality(later) \in Nat
      <4>1. lastOnes \in SUBSET later /\ IsFiniteSet(later)
        BY <3>1, <3>3 DEF later
      <4>2. Cardinality(lastOnes) >= Dwell
        BY <1>0, <1>3
      <4> QED
        BY <1>0, <4>1, <4>2, CardinalityGrows, FS_CardinalityType
    <3>5. Cardinality(later) < Dwell
      BY <1>7 DEF later
    <3> QED
      BY <1>0, <3>4, <3>5
  <2>2. CASE m = now
    BY <2>0, <2>2
  <2>3. CASE m # now
    <3>1. m \in sampled
      BY <2>0, <2>3
    <3>2. m - 1 \in Before(now) /\ m - 1 \in Minutes
      BY <1>0, <1>1, <2>0, <2>1 DEF Before, Minutes
    <3>3. Cardinality(RedSignals(m - 1)) >= Quorum
      BY <3>2 DEF OutageUntil
    <3>4. RedSignals(m - 1) # {}
      BY <1>0, <3>3, FS_EmptySet
    <3>5. PICK s \in Signals : <<s, m - 1>> \in red
      BY <3>4 DEF RedSignals
    <3>6. (m - 1) + 1 = m
      BY <2>0
    <3>7. m \in redSampled
      BY <3>1, <3>2, <3>5, <3>6 DEF SamplesFollow
    <3> QED
      BY <3>7
  <2> QED
    BY <2>2, <2>3
<1> QED
  BY <1>6, <1>7 DEF DwellHeld, history

\* Without hysteresis, an outage authorizes whatever the record says.
LEMMA OutageAuthorizes ==
    ASSUME Hysteresis = 0, OutageInv, OutageUntil(now), NEW samples, NEW redSamples,
           sampled \subseteq samples, samples \subseteq sampled \cup {now},
           redSampled \subseteq redSamples, now \in samples => now \in redSamples
    PROVE  Evaluate(CurrentRedSignals, samples, redSamples) \in AuthorizingStates
<1>1. QuorumHeld(CurrentRedSignals)
  BY OutageHoldsQuorum DEF OutageInv
<1>2. DwellHeld(samples, redSamples)
  BY OutageHoldsDwell DEF OutageInv
<1>3. HysteresisHeld
  <2>1. record # NoDecision => record.at \in Nat /\ record.at <= now /\ now \in Nat
    BY DEF OutageInv, DatesPast, TypeOK, Minutes
  <2> QED
    BY <2>1 DEF HysteresisHeld
<1> QED
  BY <1>1, <1>2, <1>3 DEF Evaluate, AuthorizingStates

\* What is added in this minute does not change the minutes before it.
LEMMA OutageIsHistory ==
    ASSUME TypeOK, now' = now, sampled' \subseteq sampled \cup {now},
           \A s \in Signals, m \in Minutes : <<s, m>> \in red' => <<s, m>> \in red \/ m = now,
           red \subseteq red', OutageUntil(now)'
    PROVE  OutageUntil(now)
<1>1. now \in Nat
  BY DEF TypeOK, Minutes
<1>2. ASSUME NEW m \in Before(now) PROVE m \in sampled /\ Cardinality(RedSignals(m)) >= Quorum
  <2>1. m \in Nat /\ m < now /\ m \in Minutes /\ m \in Before(now)'
    BY <1>1 DEF Before, Minutes
  <2>2. m \in sampled' /\ Cardinality(RedSignals(m)') >= Quorum
    BY <2>1 DEF OutageUntil
  <2>3. RedSignals(m)' = RedSignals(m)
    BY <1>1, <2>1 DEF RedSignals
  <2> QED
    BY <1>1, <2>1, <2>2, <2>3
<1> QED
  BY <1>2 DEF OutageUntil

LEMMA OutageObserve ==
    ASSUME Hysteresis = 0, OutageInv, TypeOK', NEW i \in Invocations, Observe(i)
    PROVE  OutageInv'
<1>0. /\ UNCHANGED <<now, red, record>> /\ now \in Nat /\ now \in Minutes
      /\ sampled' = sampled \cup {now} /\ redSampled \subseteq redSampled'
      /\ CurrentRedSignals # {} => redSampled' = redSampled \cup {now}
  BY DEF Observe, OutageInv, TypeOK, Minutes
<1>1. \A j \in Invocations :
          Busy(j)' => \/ Busy(j) /\ inv'[j] = inv[j]
                      \/ j = i /\ Observed(i) /\ inv'[i].at = now
  <2>1. CASE Observed(i)
    <3>1. PICK state : inv' = [inv EXCEPT ![i] = [phase |-> "evaluated", at |-> now,
                                                 green |-> CurrentRedSignals = {}, state |-> state]]
      BY <2>1 DEF Observed
    <3>2. inv'[i].at = now /\ \A j \in Invocations \ {i} : inv'[j] = inv[j]
      BY <3>1 DEF OutageInv, TypeOK
    <3> QED
      BY <2>1, <3>2 DEF Busy
  <2>2. CASE UNCHANGED inv
    BY <2>2 DEF Busy
  <2> QED
    BY <2>1, <2>2 DEF Observe, Observed
<1>2. DatesPast'
  BY <1>0, <1>1 DEF OutageInv, DatesPast
<1>3. SamplesFollow'
  <2> SUFFICES ASSUME NEW m \in Minutes, NEW s \in Signals, <<s, m>> \in red,
                      m + 1 \in sampled'
               PROVE  m + 1 \in redSampled'
    BY <1>0 DEF SamplesFollow
  <2>1. CASE m + 1 \in sampled
    BY <1>0, <2>1 DEF OutageInv, SamplesFollow
  <2>2. CASE m + 1 = now
    <3>1. m \in Since(now, 2)
      BY <1>0, <2>2 DEF Since, Minutes
    <3>2. s \in CurrentRedSignals
      BY <3>1 DEF CurrentRedSignals
    <3> QED
      BY <1>0, <2>2, <3>2
  <2> QED
    BY <1>0, <2>1, <2>2
<1>4. ASSUME OutageUntil(now)', NEW j \in Invocations, Busy(j)', inv'[j].at = now
      PROVE  inv'[j].state \in AuthorizingStates
  <2>1. OutageUntil(now)
    BY <1>0, <1>4, OutageIsHistory DEF OutageInv
  <2>2. CASE Busy(j) /\ inv'[j] = inv[j]
    BY <1>4, <2>1, <2>2 DEF OutageInv
  <2>3. CASE j = i /\ Observed(i)
    <3>1. PICK seen \in {<<sampled, redSampled>>, <<sampled', redSampled'>>} :
              inv' = [inv EXCEPT ![i] =
                  [phase |-> "evaluated", at |-> now, green |-> CurrentRedSignals = {},
                   state |-> Evaluate(CurrentRedSignals, seen[1], seen[2])]]
      BY <2>3 DEF Observed
    <3>2. inv'[i].state = Evaluate(CurrentRedSignals, seen[1], seen[2])
      BY <3>1 DEF OutageInv, TypeOK
    <3>3. CurrentRedSignals # {}
      <4>1. Cardinality(CurrentRedSignals) >= Quorum /\ Quorum \in Nat /\ Quorum >= 1
        BY <2>1, OutageHoldsQuorum, EngineAssumption DEF OutageInv, QuorumHeld
      <4> QED
        BY <4>1, FS_EmptySet
    <3>4. now \in sampled => now \in redSampled
      <4>1. now >= 2 /\ now - 1 \in Before(now) /\ Quorum \in Nat /\ Quorum >= 1
        BY <1>0, <2>1, EngineAssumption DEF OutageUntil, Before, Minutes
      <4>2. Cardinality(RedSignals(now - 1)) >= Quorum
        BY <2>1, <4>1 DEF OutageUntil
      <4>3. RedSignals(now - 1) # {}
        BY <4>1, <4>2, FS_EmptySet
      <4>4. PICK s \in Signals : <<s, now - 1>> \in red
        BY <4>3 DEF RedSignals
      <4>5. now - 1 \in Minutes /\ (now - 1) + 1 = now
        BY <1>0, <4>1 DEF Before
      <4> QED
        BY <4>4, <4>5 DEF OutageInv, SamplesFollow
    <3>5. CASE seen = <<sampled, redSampled>>
      BY <2>1, <2>3, <3>2, <3>4, <3>5, OutageAuthorizes
    <3>6. CASE seen = <<sampled', redSampled'>>
      BY <1>0, <2>1, <2>3, <3>2, <3>3, <3>6, OutageAuthorizes
    <3> QED
      BY <3>5, <3>6
  <2> QED
    BY <1>1, <1>4, <2>2, <2>3
<1>5. OutageUntil(now)' /\ record' # NoDecision /\ record'.at = now
          => record'.state = "FAILOVER_AUTHORIZED"
  BY <1>0, OutageIsHistory DEF OutageInv
<1> QED
  BY <1>0, <1>2, <1>3, <1>4, <1>5 DEF OutageInv

\* A record written is the record of an evaluation.
LEMMA OutageWrite ==
    ASSUME OutageInv, TypeOK', NEW i \in Invocations, WriteDecision(i)
    PROVE  OutageInv'
<1> DEFINE written == [state |-> Recorded(inv[i].state), at |-> inv[i].at]
<1>0. /\ UNCHANGED <<now, red, sampled, redSampled>> /\ Busy(i) /\ inv[i] \in AtWork
      /\ inv \in [Invocations -> {Idle} \cup AtWork]
      /\ record' \in {record, written}
      /\ inv' \in {[inv EXCEPT ![i].phase = "written"], [inv EXCEPT ![i] = Idle]}
  BY BusyIsAtWork DEF WriteDecision, Busy, OutageInv, TypeOK, AtWork
<1>1. \A j \in Invocations :
          Busy(j)' => Busy(j) /\ inv'[j].state = inv[j].state /\ inv'[j].at = inv[j].at
  BY <1>0 DEF Busy, Idle, AtWork
<1>2. DatesPast'
  BY <1>0, <1>1 DEF OutageInv, DatesPast
<1>3. SamplesFollow' /\ (OutageUntil(now)' <=> OutageUntil(now))
  BY <1>0 DEF OutageInv, SamplesFollow, OutageUntil, RedSignals, Before
<1>4. ASSUME OutageUntil(now), record' # NoDecision, record'.at = now
      PROVE  record'.state = "FAILOVER_AUTHORIZED"
  <2>1. CASE record' = record
    BY <1>4, <2>1 DEF OutageInv
  <2>2. CASE record' = written
    <3>1. inv[i].at = now
      BY <1>4, <2>2
    <3>2. inv[i].state \in AuthorizingStates
      BY <1>0, <1>4, <3>1 DEF OutageInv
    <3> QED
      BY <2>2, <3>2 DEF Recorded, AuthorizingStates
  <2> QED
    BY <1>0, <2>1, <2>2
<1>5. ASSUME OutageUntil(now), NEW j \in Invocations, Busy(j)', inv'[j].at = now
      PROVE  inv'[j].state \in AuthorizingStates
  BY <1>1, <1>5 DEF OutageInv
<1> QED
  BY <1>0, <1>2, <1>3, <1>4, <1>5 DEF OutageInv

\* With the minute, everything that is dated becomes past.
LEMMA OutageTick ==
    ASSUME OutageInv, TypeOK', Tick
    PROVE  OutageInv'
<1>0. /\ now' = now + 1 /\ now \in Nat
      /\ UNCHANGED <<red, sampled, redSampled, inv, record>>
  BY DEF Tick, OutageInv, TypeOK, Minutes
<1>1. /\ \A m \in sampled : m \in Nat
      /\ \A m \in Minutes : m \in Nat
      /\ record # NoDecision => record.at \in Nat
      /\ \A i \in Invocations : Busy(i) => inv[i].at \in Nat
  BY BusyIsAtWork DEF OutageInv, TypeOK, Minutes, AtWork
<1>2. DatesPast'
  BY <1>0, <1>1 DEF OutageInv, DatesPast, Busy
<1>3. SamplesFollow'
  BY <1>0 DEF OutageInv, SamplesFollow
<1>4. /\ \A i \in Invocations : Busy(i)' => inv'[i].at # now'
      /\ record' # NoDecision => record'.at # now'
  BY <1>0, <1>1 DEF OutageInv, DatesPast, Busy
<1> QED
  BY <1>2, <1>3, <1>4 DEF OutageInv

LEMMA OutageCollect ==
    ASSUME OutageInv, TypeOK', NEW s \in Signals, Collect(s)
    PROVE  OutageInv'
<1>0. /\ UNCHANGED <<now, sampled, redSampled, inv, record>>
      /\ red' = red \cup {<<s, now>>} /\ now \in Nat
      /\ \A m \in Minutes : m \in Nat
  BY DEF Collect, OutageInv, TypeOK, Minutes
<1>1. DatesPast'
  BY <1>0 DEF OutageInv, DatesPast, Busy
<1>2. SamplesFollow'
  <2>1. now + 1 \notin sampled
    BY <1>0 DEF OutageInv, DatesPast
  <2> QED
    BY <1>0, <2>1 DEF OutageInv, SamplesFollow
<1>3. OutageUntil(now)' => OutageUntil(now)
  BY <1>0, OutageIsHistory DEF OutageInv
<1> QED
  BY <1>0, <1>1, <1>2, <1>3 DEF OutageInv, Busy

LEMMA OutageInit == Init => OutageInv
<1> SUFFICES ASSUME Init PROVE OutageInv
  OBVIOUS
<1>1. TypeOK /\ \A i \in Invocations : ~Busy(i)
  BY EngineInitType DEF Init, Busy, Idle
<1> QED
  BY <1>1 DEF Init, OutageInv, DatesPast, SamplesFollow

LEMMA OutageNext ==
    ASSUME Hysteresis = 0
    PROVE  OutageInv /\ [Next]_vars => OutageInv'
<1> SUFFICES ASSUME OutageInv, [Next]_vars PROVE OutageInv'
  OBVIOUS
<1>0. TypeOK'
  BY EngineNextType DEF OutageInv
<1>1. ASSUME NEW i \in Invocations, Act(i) PROVE OutageInv'
  <2>1. /\ UNCHANGED <<now, red, sampled, redSampled, record>>
        /\ inv' = [inv EXCEPT ![i] = Idle]
    BY <1>1 DEF Act
  <2>2. \A j \in Invocations : Busy(j)' => Busy(j) /\ inv'[j] = inv[j]
    BY <2>1 DEF OutageInv, TypeOK, Busy, Idle
  <2> QED
    BY <1>0, <2>1, <2>2
       DEF OutageInv, DatesPast, SamplesFollow, OutageUntil, RedSignals, Before
<1>2. CASE UNCHANGED <<now, red, sampled, redSampled, inv>> /\ record' \in {record, NoDecision}
  BY <1>0, <1>2
     DEF OutageInv, DatesPast, SamplesFollow, OutageUntil, RedSignals, Before, Busy
<1>3. CASE ResetDecision \/ UNCHANGED vars
  BY <1>2, <1>3 DEF ResetDecision, vars
<1> QED
  BY <1>0, <1>1, <1>3, OutageTick, OutageCollect, OutageObserve, OutageWrite DEF Next

\* A window of full length is an outage that ends now.
LEMMA WindowIsOutage ==
    ASSUME TypeOK, Cardinality(OutageWindow) = Dwell + 2, OutageWindow \subseteq sampled,
           \A m \in OutageWindow : Cardinality({s \in Signals : <<s, m>> \in red}) >= Quorum
    PROVE  OutageUntil(now)
<1>0. now \in Nat /\ Dwell \in Nat /\ MaxTime \in Nat /\ now <= MaxTime
  BY EngineAssumption DEF TypeOK, Minutes
<1>1. now >= Dwell + 1
  <2> SUFFICES ASSUME now < Dwell + 1 PROVE FALSE
    BY <1>0
  <2>1. OutageWindow = 0..now
    BY <1>0 DEF OutageWindow, Minutes
  <2>2. Cardinality(0..now) = now + 1
    BY <1>0, FS_Interval
  <2> QED
    BY <1>0, <2>1, <2>2
<1>2. Before(now) \subseteq OutageWindow
  BY <1>0 DEF Before, OutageWindow, Minutes
<1> QED
  BY <1>1, <1>2 DEF OutageUntil, RedSignals

\* No missed outage: once a quorum has been red for Dwell + 2 sampled minutes,
\* whatever is recorded in that minute authorizes the failover, for every
\* quorum and dwell, however invocations overlap, fail and are reset.  The
\* condition is necessary: with a hysteresis the engine suppresses itself.
THEOREM OutageIsAlwaysAuthorized ==
    ASSUME Hysteresis = 0
    PROVE  Spec => []OutageIsAuthorized
<1>1. OutageInv => OutageIsAuthorized
  BY WindowIsOutage DEF OutageInv, OutageIsAuthorized
<1> QED
  BY <1>1, OutageInit, OutageNext, PTL DEF Spec
=============================================================================
