-------------------------- MODULE MCDecisionEngine --------------------------
\* Instances of DecisionEngine for TLC.
EXTENDS DecisionEngine, TLC

CONSTANTS s1, s2, i1, i2

OneSignal == {s1}
TwoSignals == {s1, s2}
OneAtATime == {i1}
Overlapping == {i1, i2}

\* Signals are interchangeable, and so are overlapping invocations.
SignalSymmetry == Permutations(TwoSignals)
FullSymmetry == SignalSymmetry \cup Permutations(Overlapping)
=============================================================================
