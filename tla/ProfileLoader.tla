--------------------------- MODULE ProfileLoader ---------------------------
(***************************************************************************)
(* lib/profile_loader.py: which documents parse accepts as a profile, and  *)
(* where load_profile takes the document from.  A document is a record of  *)
(* what the two validators (the JSON schema, then the Pydantic models)     *)
(* tell apart; wellFormed stands for what both ask in the same words:      *)
(* required fields, no other fields, types, patterns and enumerations.     *)
(***************************************************************************)
EXTENDS Naturals

RegionNames == {"us-east-1", "us-east-2"}

\* A nullable field that is missing, null, an empty string, or has content.
Absent == "absent"
Null == "null"
Empty == ""
Given == "given"

\* Field(ge, le) of the models, minimum and maximum of the schema.
InRange(doc) ==
    /\ doc.signals.tier1_quorum \in 1..10
    /\ doc.signals.dwell_minutes \in 1..60
    /\ doc.signals.hysteresis_minutes \in 0..60
    /\ doc.signals.canary_failure_rate_pct \in 1..100
    /\ doc.failover.drain_seconds \in 10..600
    /\ doc.failover.quiesce_seconds \in 10..600
    /\ doc.failover.r53_propagation_seconds \in 30..600
    /\ doc.failover.stable_minutes_before_failback \in 5..1440
    /\ doc.slo.rto_minutes \in 1..240
    /\ doc.slo.rpo_minutes \in 0..240
    /\ doc.aurora = Given => doc.aurora_confirm_timeout_minutes \in 1..240

RegionsDiffer(doc) == doc.primary_region # doc.secondary_region

NeverFailsBack(doc) == ~doc.failover.auto_failback

\* profile.schema.json: a nullable block that is left out passes, whatever the
\* components say; an API Gateway id, when it is a string, has the pattern
\* ^[a-z0-9]{8,}$, declared or not, which leaves no empty one.
SchemaAccepts(doc) ==
    /\ doc.wellFormed /\ InRange(doc) /\ RegionsDiffer(doc) /\ NeverFailsBack(doc)
    /\ doc.aurora # Absent => (doc.components.aurora <=> doc.aurora = Given)
    /\ doc.elasticache # Absent => (doc.components.elasticache <=> doc.elasticache = Given)
    /\ Empty \notin {doc.api_gw_id_primary, doc.api_gw_id_secondary}
    /\ doc.components.api_gateway =>
           {doc.api_gw_id_primary, doc.api_gw_id_secondary} = {Given}

\* _cross_field_consistency: an undeclared API Gateway may have any ids here.
CrossFieldConsistent(doc) ==
    /\ doc.components.aurora <=> doc.aurora = Given
    /\ doc.components.elasticache <=> doc.elasticache = Given
    /\ doc.components.api_gateway =>
           {doc.api_gw_id_primary, doc.api_gw_id_secondary} = {Given}

\* Profile.model_validate: both blocks are nullable but required.
ModelAccepts(doc) ==
    /\ doc.wellFormed /\ InRange(doc) /\ RegionsDiffer(doc) /\ NeverFailsBack(doc)
    /\ Absent \notin {doc.aurora, doc.elasticache}
    /\ CrossFieldConsistent(doc)

\* parse.
Accepts(doc) == doc.mapping /\ SchemaAccepts(doc) /\ ModelAccepts(doc)

NoDocument(why) == [mapping |-> FALSE, why |-> why]

Unset == NoDocument("PROFILE_YAML is not set, or is empty")
Unreadable == NoDocument("no bucket or key is configured, or the S3 read fails")
Rejected == NoDocument("load_profile raises")

\* Mutant: the document is used as it was found.
LoadUnvalidated(inline, stored) == IF inline = Unset THEN stored ELSE inline

\* load_profile: the inline document if there is one, else the object in S3,
\* read and validated afresh by every invocation.
LoadProfile(inline, stored) ==
    LET doc == IF inline = Unset THEN stored ELSE inline
    IN  IF Accepts(doc) THEN doc ELSE Rejected
=============================================================================
