------------------------- MODULE MCFailoverWorkflow -------------------------
\* Instances of FailoverWorkflow for TLC: the execution inputs of each run.
EXTENDS FailoverWorkflow, TLC

CONSTANTS e1, e2

TwoExecs == {e1, e2}
OneExec == {e1}

NoAurora == [aurora |-> FALSE, manual |-> FALSE]
AuroraAuto == [aurora |-> TRUE, manual |-> FALSE]
AuroraGated == [aurora |-> TRUE, manual |-> TRUE]

\* What manual_trigger builds, for a profile p and a home region h.
Triggered(p, h) ==
    {ExecutionInput(d, p, h, FALSE) : d \in {"failover", "failback", "dryrun"}}

\* An input written by hand for start-execution can hold the two fields the
\* confirmation needs.
ByHand(p, h) == {[i EXCEPT !.confirm_fields = TRUE] : i \in Triggered(p, h)}

\* Both directions and a dry run, started in the primary region.
PrimaryInputs == Triggered(NoAurora, Primary)

\* Both directions, started in either region.
BothHomes == {ExecutionInput(d, NoAurora, h, FALSE) : d \in {"failover", "failback"},
                                                      h \in Regions}

\* Both directions from either region, and by hand through an Aurora gate that
\* can be confirmed.
GatedOrNot == BothHomes \cup {i \in ByHand(AuroraGated, Primary) : ~i.dry_run}

\* The Aurora states with a gate whose confirmation cannot be invoked and with
\* no gate (GatedOrNot has the gate that can be confirmed); and a dry run.
AuroraInputs ==
    {ExecutionInput("failover", AuroraGated, Primary, FALSE),
     [ExecutionInput("failback", AuroraAuto, Primary, FALSE) EXCEPT !.confirm_fields = TRUE],
     ExecutionInput("dryrun", NoAurora, Primary, FALSE)}

\* The deployed test-app profile, triggered as documented.
GatedInputs == {ExecutionInput(d, AuroraGated, Primary, FALSE) : d \in {"failover", "failback"}}
=============================================================================
