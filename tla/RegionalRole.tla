---------------------------- MODULE RegionalRole ----------------------------
(***************************************************************************)
(* What the regional indicator promises to the Kafka consumers of an       *)
(* application, as lib/indicator_writer.py and the state-machine           *)
(* definitions state it: at most one region is ACTIVE, DRAINING precedes   *)
(* the other region becoming ACTIVE, and a region that is ACTIVE is never  *)
(* made PASSIVE at once.  FailoverWorkflow.tla shows which executions of   *)
(* the real workflow keep this promise.                                    *)
(***************************************************************************)
EXTENDS TLAPS

CONSTANT Region

VARIABLE role      \* role[r]: the value of /failover/<app>/<r>/role

Role == {"ACTIVE", "PASSIVE", "DRAINING"}

\* No parameter exists before the first write; read_role answers None.
Unset == "None"

Init ==
    /\ role \in [Region -> Role \cup {Unset}]
    /\ \A r, s \in Region : role[r] = "ACTIVE" /\ role[s] = "ACTIVE" => r = s

\* A region stops consuming.
Drain(r) == role' = [role EXCEPT ![r] = "DRAINING"]

\* A region starts consuming; every other region has stopped.
Activate(r) ==
    /\ \A s \in Region \ {r} : role[s] # "ACTIVE"
    /\ role' = [role EXCEPT ![r] = "ACTIVE"]

\* A region that does not consume becomes the standby.
Retire(r) ==
    /\ role[r] # "ACTIVE"
    /\ role' = [role EXCEPT ![r] = "PASSIVE"]

\* A region's indicator is deleted: its application reads no role.
Forget(r) == role' = [role EXCEPT ![r] = Unset]

Next == \E r \in Region : Drain(r) \/ Activate(r) \/ Retire(r) \/ Forget(r)

Spec == Init /\ [][Next]_role

-----------------------------------------------------------------------------
\* At most one region consumes: what the protocol is for.
OneActive == \A r, s \in Region : role[r] = "ACTIVE" /\ role[s] = "ACTIVE" => r = s

TypeOK == role \in [Region -> Role \cup {Unset}]

\* The protocol's four steps keep it, for any number of regions.
THEOREM AtMostOneConsumes == Spec => []OneActive
<1>1. Init => TypeOK /\ OneActive
  BY DEF Init, TypeOK, OneActive, Role, Unset
<1>2. TypeOK /\ OneActive /\ [Next]_role => TypeOK' /\ OneActive'
  BY DEF TypeOK, OneActive, Next, Drain, Activate, Retire, Forget, Role, Unset
<1> QED
  BY <1>1, <1>2, PTL DEF Spec
=============================================================================
