--------------------------- MODULE MCOrchestrator ---------------------------
\* Instances of Orchestrator for TLC.
EXTENDS Orchestrator, TLC

CONSTANT e1

OneExec == {e1}

NoAurora == [aurora |-> FALSE, manual |-> FALSE]

\* Both directions, started in either region.
BothHomes == {ExecutionInput(d, NoAurora, h, FALSE) : d \in {"failover", "failback"},
                                                      h \in Regions}

\* Both directions, started in the primary region.
PrimaryInputs == {i \in BothHomes : i.home = Primary}

\* And a failback started in the secondary, whose metric no alarm watches.
WatchedOrNot == PrimaryInputs \cup {ExecutionInput("failback", NoAurora, Secondary, FALSE)}
=============================================================================
