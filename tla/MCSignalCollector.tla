------------------------- MODULE MCSignalCollector -------------------------
\* Instances of SignalCollector for TLC: the documents of each run.
EXTENDS SignalCollector, TLC

\* Every component, the ranges at one end.
Full ==
    [mapping |-> TRUE, wellFormed |-> TRUE,
     primary_region |-> "us-east-1", secondary_region |-> "us-east-2",
     components |-> [api_gateway |-> TRUE, aurora |-> TRUE, elasticache |-> TRUE],
     api_gw_id_primary |-> Given, api_gw_id_secondary |-> Given,
     aurora |-> Given, aurora_confirm_timeout_minutes |-> 240, elasticache |-> Given,
     signals |-> [tier1_quorum |-> 10, dwell_minutes |-> 60, hysteresis_minutes |-> 60,
                  canary_failure_rate_pct |-> 75],
     failover |-> [auto_failback |-> FALSE, drain_seconds |-> 600, quiesce_seconds |-> 600,
                   r53_propagation_seconds |-> 600, stable_minutes_before_failback |-> 1440],
     slo |-> [rto_minutes |-> 240, rpo_minutes |-> 240]]

\* No component, though the API Gateways have ids; the regions exchanged, the
\* ranges at the other end.
Lean ==
    [Full EXCEPT !.primary_region = "us-east-2", !.secondary_region = "us-east-1",
                 !.components = [api_gateway |-> FALSE, aurora |-> FALSE, elasticache |-> FALSE],
                 !.aurora = Null, !.elasticache = Null,
                 !.signals = [tier1_quorum |-> 1, dwell_minutes |-> 1, hysteresis_minutes |-> 0,
                              canary_failure_rate_pct |-> 1]]

\* One mistake each, which one of the validators, or both, must find.
Mistaken ==
    {[Full EXCEPT !.mapping = FALSE],
     [Full EXCEPT !.wellFormed = FALSE],
     [Full EXCEPT !.secondary_region = "us-east-1"],
     [Full EXCEPT !.failover.auto_failback = TRUE],
     [Full EXCEPT !.signals.dwell_minutes = 0],
     [Full EXCEPT !.failover.r53_propagation_seconds = 10],
     [Full EXCEPT !.api_gw_id_secondary = Null],
     [Full EXCEPT !.api_gw_id_secondary = Empty],
     [Lean EXCEPT !.api_gw_id_primary = Empty],
     [Full EXCEPT !.aurora = Null],
     [Full EXCEPT !.aurora = Absent],
     [Lean EXCEPT !.aurora = Absent],
     [Lean EXCEPT !.aurora = Given],
     [Lean EXCEPT !.components.elasticache = TRUE]}

Uploads == {Full, Lean} \cup Mistaken
Inlines == {Lean, [Lean EXCEPT !.failover.drain_seconds = 0]}
=============================================================================
