----------------------------- MODULE DnsControl -----------------------------
(***************************************************************************)
(* The traffic switch (terraform/modules/orchestrator-runtime): in each    *)
(* region an alarm watches that region's own PrimaryHealthControl metric,  *)
(* a Route 53 health check follows each alarm, and a failover record       *)
(* answers with one of the two regions.  CloudWatch and Route 53 evaluate  *)
(* on their own, some time within each minute, and never both at once.     *)
(***************************************************************************)
EXTENDS Naturals

CONSTANTS
    Primary,        \* the region of the PRIMARY record
    Secondary,      \* the region of the SECONDARY record
    LookBack        \* minutes for which an alarm still finds its last datapoint

VARIABLES
    maximum,    \* maximum[r][a]: Maximum of r's watched metric, a minutes ago
    alarm       \* alarm[r]: the alarm of r is in ALARM and its health check fails

Records == {Primary, Secondary}
NoData == "NoData"

\* Nothing has ever been emitted, and both alarms have been evaluated.
Init ==
    /\ maximum = [r \in Records |-> [a \in 0..LookBack |-> NoData]]
    /\ alarm = [r \in Records |-> TRUE]

\* put_metric_data of 1.0 ("clear") or 0.0 ("trip"): within a period, the
\* alarm's statistic is the Maximum, so that a clear hides any trip.
Emit(r, value) ==
    maximum' = [maximum EXCEPT ![r][0] = IF @ = "clear" THEN "clear" ELSE value]

\* One evaluation period, but the last datapoint found within the look-back
\* decides; treat_missing_data only applies when there is none.
Latest(r) ==
    IF \A a \in 0..LookBack : maximum[r][a] = NoData THEN NoData
    ELSE LET last == CHOOSE a \in 0..LookBack :
                         /\ maximum[r][a] # NoData
                         /\ \A b \in 0..LookBack : b < a => maximum[r][b] = NoData
         IN  maximum[r][last]

\* Below 0.5, or missing: treat_missing_data = "breaching".
Breached(r) == Latest(r) # "clear"

\* The alarm of r is evaluated.
Evaluate(r) ==
    /\ alarm' = [alarm EXCEPT ![r] = Breached(r)]
    /\ UNCHANGED maximum

\* The minute ends; each alarm has been evaluated at least once in it.
Minute ==
    /\ alarm' = [r \in Records |-> Breached(r)]
    /\ maximum' = [r \in Records |-> [a \in 0..LookBack |->
                       IF a = 0 THEN NoData ELSE maximum[r][a - 1]]]

\* The failover record: the secondary only when it alone is healthy; when no
\* record is healthy Route 53 answers with the primary.
Answer == IF alarm[Primary] /\ ~alarm[Secondary] THEN Secondary ELSE Primary

TypeOK ==
    /\ maximum \in [Records -> [0..LookBack -> {NoData, "trip", "clear"}]]
    /\ alarm \in [Records -> BOOLEAN]
=============================================================================
