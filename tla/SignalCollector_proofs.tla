------------------------ MODULE SignalCollector_proofs ------------------------
(***************************************************************************)
(* Theorems about SignalCollector, for every set of documents that may be  *)
(* uploaded and every look-back.                                           *)
(***************************************************************************)
EXTENDS SignalCollector, SequenceTheorems, FiniteSetTheorems, TLAPS

(***************************************************************************)
(* The plan of an invocation: what collect_all reads.                      *)
(***************************************************************************)
\* A concatenation has the signals of both sequences.
LEMMA ConcatSignals ==
    ASSUME NEW S, NEW p \in Seq(S), NEW q \in Seq(S)
    PROVE  /\ p \o q \in Seq(S)
           /\ Len(p \o q) = Len(p) + Len(q)
           /\ SignalsOf(p \o q) = SignalsOf(p) \cup SignalsOf(q)
<1>1. /\ p \o q \in Seq(S)
      /\ Len(p \o q) = Len(p) + Len(q)
      /\ \A i \in 1 .. Len(p) + Len(q) : (p \o q)[i] = IF i <= Len(p) THEN p[i] ELSE q[i - Len(p)]
  BY ConcatProperties, Zenon
<1>2. Len(p) \in Nat /\ Len(q) \in Nat
  BY LenProperties
<1>3. \A j \in 1..Len(p) : (p \o q)[j] = p[j]
  BY <1>1, <1>2
<1>4. ASSUME NEW j \in 1..Len(q) PROVE j + Len(p) \in 1..Len(p \o q) /\ (p \o q)[j + Len(p)] = q[j]
  BY <1>1, <1>2
<1>5. ASSUME NEW j \in 1..Len(p \o q)
      PROVE  (p \o q)[j] \in SignalsOf(p) \cup SignalsOf(q)
  <2>1. CASE j <= Len(p)
    BY <1>1, <1>2, <2>1 DEF SignalsOf
  <2>2. CASE j > Len(p)
    <3>1. j - Len(p) \in 1..Len(q) /\ (p \o q)[j] = q[j - Len(p)]
      BY <1>1, <1>2, <2>2
    <3> QED
      BY <3>1 DEF SignalsOf
  <2> QED
    BY <1>1, <1>2, <2>1, <2>2
<1>6. SignalsOf(p \o q) \subseteq SignalsOf(p) \cup SignalsOf(q)
  BY <1>5 DEF SignalsOf
<1>7. SignalsOf(p) \subseteq SignalsOf(p \o q)
  <2>1. \A j \in 1..Len(p) : j \in 1..Len(p \o q)
    BY <1>1, <1>2
  <2> QED
    BY <1>3, <2>1 DEF SignalsOf
<1>8. SignalsOf(q) \subseteq SignalsOf(p \o q)
  BY <1>4 DEF SignalsOf
<1> QED
  BY <1>1, <1>6, <1>7, <1>8

\* The signals of the sequences the plan is put together from.
LEMMA NoSignals ==
    ASSUME NEW S
    PROVE  << >> \in Seq(S) /\ Len(<< >>) = 0 /\ SignalsOf(<< >>) = {}
<1>1. << >> \in Seq(S) /\ Len(<< >>) = 0
  OBVIOUS
<1>2. \A i : i \notin 1..0
  OBVIOUS
<1> QED
  BY <1>1, <1>2 DEF SignalsOf

LEMMA OneSignal ==
    ASSUME NEW S, NEW a \in S
    PROVE  <<a>> \in Seq(S) /\ Len(<<a>>) = 1 /\ SignalsOf(<<a>>) = {a}
<1>1. <<a>> \in Seq(S) /\ Len(<<a>>) = 1 /\ <<a>>[1] = a
  OBVIOUS
<1>2. 1..1 = {1}
  OBVIOUS
<1> QED
  BY <1>1, <1>2 DEF SignalsOf

LEMMA TwoSignals ==
    ASSUME NEW S, NEW a \in S, NEW b \in S
    PROVE  <<a, b>> \in Seq(S) /\ Len(<<a, b>>) = 2 /\ SignalsOf(<<a, b>>) = {a, b}
<1>1. <<a, b>> \in Seq(S) /\ Len(<<a, b>>) = 2 /\ <<a, b>>[1] = a /\ <<a, b>>[2] = b
  OBVIOUS
<1>2. 1..2 = {1, 2}
  OBVIOUS
<1> QED
  BY <1>1, <1>2 DEF SignalsOf

Tier1Signals == {Nlb, Canary, Health, Endpoint}

AllSignals == Tier1Signals \cup {"aurora_writer_location", "aurora_replica_lag_high",
                                 "elasticache_replication", "alb_unhealthy", "api_gw_5xx"}

LEMMA Tier1Is ==
    /\ Tier1 \in Seq(AllSignals) /\ Len(Tier1) = 4
    /\ SignalsOf(Tier1) = Tier1Signals
<1> DEFINE t == <<Nlb, Canary, Health, Endpoint>>
<1>1. Tier1 = t
  BY DEF Tier1, Nlb, Canary, Health, Endpoint
<1>2. /\ Nlb \in AllSignals /\ Canary \in AllSignals
      /\ Health \in AllSignals /\ Endpoint \in AllSignals
  BY DEF AllSignals, Tier1Signals
<1>3. t \in Seq(AllSignals) /\ Len(t) = 4
  BY <1>2
<1>4. /\ t[1] = Nlb /\ t[2] = Canary /\ t[3] = Health /\ t[4] = Endpoint
  OBVIOUS
<1>5. 1..4 = {1, 2, 3, 4}
  OBVIOUS
<1> HIDE DEF t
<1> QED
  BY <1>1, <1>3, <1>4, <1>5 DEF SignalsOf, Tier1Signals

\* The part of Tier 2 that a block of the profile switches on.
LEMMA Tier2Is ==
    ASSUME NEW p
    PROVE  /\ Tier2(p) \in Seq(AllSignals) /\ Len(Tier2(p)) \in 0..3
           /\ SignalsOf(Tier2(p)) =
                  (IF p.aurora = Given THEN {"aurora_writer_location", "aurora_replica_lag_high"} ELSE {})
                  \cup (IF p.elasticache = Given THEN {"elasticache_replication"} ELSE {})
<1> DEFINE a == IF p.aurora = Given THEN <<"aurora_writer_location", "aurora_replica_lag_high">> ELSE <<>>
           c == IF p.elasticache = Given THEN <<"elasticache_replication">> ELSE <<>>
<1>1. /\ a \in Seq(AllSignals) /\ Len(a) \in {0, 2}
      /\ SignalsOf(a) = IF p.aurora = Given
                        THEN {"aurora_writer_location", "aurora_replica_lag_high"} ELSE {}
  <2>1. CASE p.aurora = Given
    <3>1. "aurora_writer_location" \in AllSignals /\ "aurora_replica_lag_high" \in AllSignals
      BY DEF AllSignals
    <3>2. a = <<"aurora_writer_location", "aurora_replica_lag_high">>
      BY <2>1
    <3> HIDE DEF a
    <3> QED
      BY <2>1, <3>1, <3>2, TwoSignals
  <2>2. CASE p.aurora # Given
    BY <2>2, NoSignals
  <2> QED
    BY <2>1, <2>2
<1>2. /\ c \in Seq(AllSignals) /\ Len(c) \in {0, 1}
      /\ SignalsOf(c) = IF p.elasticache = Given THEN {"elasticache_replication"} ELSE {}
  <2>1. CASE p.elasticache = Given
    <3>1. "elasticache_replication" \in AllSignals
      BY DEF AllSignals
    <3>2. c = <<"elasticache_replication">>
      BY <2>1
    <3> HIDE DEF c
    <3> QED
      BY <2>1, <3>1, <3>2, OneSignal
  <2>2. CASE p.elasticache # Given
    BY <2>2, NoSignals
  <2> QED
    BY <2>1, <2>2
<1>4. Tier2(p) = a \o c
  BY DEF Tier2
<1> HIDE DEF a, c
<1>3. a \o c \in Seq(AllSignals) /\ Len(a \o c) = Len(a) + Len(c)
      /\ SignalsOf(a \o c) = SignalsOf(a) \cup SignalsOf(c)
  <2>1. a \in Seq(AllSignals) /\ c \in Seq(AllSignals)
    BY <1>1, <1>2
  <2> QED
    BY <2>1, ConcatSignals
<1>5. Len(a) + Len(c) \in 0..3
  <2>1. \A m \in {0, 2}, n \in {0, 1} : m + n \in 0..3
    OBVIOUS
  <2> QED
    BY <1>1, <1>2, <2>1, Zenon
<1> QED
  BY <1>1, <1>2, <1>3, <1>4, <1>5, Zenon

LEMMA Tier3Is ==
    ASSUME NEW p
    PROVE  /\ Tier3(p) \in Seq(AllSignals) /\ Len(Tier3(p)) \in 1..2
           /\ SignalsOf(Tier3(p)) =
                  {"alb_unhealthy"} \cup (IF p.components.api_gateway /\ OwnApi(p) = Given
                                          THEN {"api_gw_5xx"} ELSE {})
<1> DEFINE a == <<"alb_unhealthy">>
           g == IF p.components.api_gateway /\ OwnApi(p) = Given THEN <<"api_gw_5xx">> ELSE <<>>
<1>0. "alb_unhealthy" \in AllSignals /\ "api_gw_5xx" \in AllSignals
  BY DEF AllSignals
<1>1. a \in Seq(AllSignals) /\ Len(a) = 1 /\ SignalsOf(a) = {"alb_unhealthy"}
  BY <1>0, OneSignal
<1>2. /\ g \in Seq(AllSignals) /\ Len(g) \in {0, 1}
      /\ SignalsOf(g) = IF p.components.api_gateway /\ OwnApi(p) = Given THEN {"api_gw_5xx"} ELSE {}
  <2>1. CASE p.components.api_gateway /\ OwnApi(p) = Given
    <3>1. g = <<"api_gw_5xx">>
      BY <2>1
    <3> HIDE DEF g
    <3> QED
      BY <1>0, <2>1, <3>1, OneSignal
  <2>2. CASE ~(p.components.api_gateway /\ OwnApi(p) = Given)
    <3>1. g = << >>
      BY <2>2
    <3> HIDE DEF g
    <3> QED
      BY <2>2, <3>1, NoSignals
  <2> QED
    BY <2>1, <2>2
<1>3. Tier3(p) = a \o g
  BY DEF Tier3
<1> HIDE DEF a, g
<1>5. a \o g \in Seq(AllSignals) /\ Len(a \o g) = Len(a) + Len(g)
      /\ SignalsOf(a \o g) = SignalsOf(a) \cup SignalsOf(g)
  <2>1. a \in Seq(AllSignals) /\ g \in Seq(AllSignals)
    BY <1>1, <1>2
  <2> QED
    BY <2>1, ConcatSignals
<1>6. Len(a) + Len(g) \in 1..2
  <2>1. \A n \in {0, 1} : 1 + n \in 1..2
    OBVIOUS
  <2> QED
    BY <1>1, <1>2, <2>1, Zenon
<1> QED
  BY <1>1, <1>2, <1>3, <1>5, <1>6, Zenon

\* collect_all reads the four signals of Tier 1, the ones of Tier 2 and of
\* Tier 3, and at most nine in all.
LEMMA PlanIs ==
    ASSUME NEW p
    PROVE  /\ Plan(p) \in Seq(AllSignals)
           /\ Len(Plan(p)) \in 5..9
           /\ SignalsOf(Plan(p)) = (Tier1Signals \cup SignalsOf(Tier2(p))) \cup SignalsOf(Tier3(p))
<1> DEFINE t == Tier1 \o Tier2(p)
<1>0. /\ Tier1 \in Seq(AllSignals) /\ Tier2(p) \in Seq(AllSignals) /\ Tier3(p) \in Seq(AllSignals)
      /\ Len(Tier2(p)) \in 0..3 /\ Len(Tier3(p)) \in 1..2
  BY Tier1Is, Tier2Is, Tier3Is, Zenon
<1>1. /\ t \in Seq(AllSignals) /\ Len(t) = Len(Tier1) + Len(Tier2(p))
      /\ SignalsOf(t) = SignalsOf(Tier1) \cup SignalsOf(Tier2(p))
  BY <1>0, ConcatSignals, Zenon
<1>2. Plan(p) = t \o Tier3(p)
  <2>1. \A u, v, w : u \o v \o w = (u \o v) \o w
    OBVIOUS
  <2> QED
    BY <2>1 DEF Plan
<1> HIDE DEF t
<1>3. /\ t \o Tier3(p) \in Seq(AllSignals)
      /\ Len(t \o Tier3(p)) = Len(t) + Len(Tier3(p))
      /\ SignalsOf(t \o Tier3(p)) = SignalsOf(t) \cup SignalsOf(Tier3(p))
  <2>1. t \in Seq(AllSignals) /\ Tier3(p) \in Seq(AllSignals)
    BY <1>0, <1>1
  <2> QED
    BY <2>1, ConcatSignals
<1>4. Len(t) + Len(Tier3(p)) \in 5..9
  <2>1. \A m \in 0..3, n \in 1..2 : (4 + m) + n \in 5..9
    OBVIOUS
  <2> QED
    BY <1>0, <1>1, <2>1, Tier1Is, Zenon
<1> QED
  BY <1>1, <1>2, <1>3, <1>4, Tier1Is, Zenon

\* What an accepted profile declares is what its plan reads, in both regions.
LEMMA PlanMatchesProfile ==
    ASSUME NEW p, Accepts(p)
    PROVE  LET signals == SignalsOf(Plan(p))
           IN  /\ p.components.aurora <=> "aurora_replica_lag_high" \in signals
               /\ p.components.elasticache <=> "elasticache_replication" \in signals
               /\ p.components.api_gateway <=> "api_gw_5xx" \in signals
<1>1. /\ p.components.aurora <=> p.aurora = Given
      /\ p.components.elasticache <=> p.elasticache = Given
      /\ p.components.api_gateway =>
             p.api_gw_id_primary = Given /\ p.api_gw_id_secondary = Given
  <2>1. CrossFieldConsistent(p)
    BY DEF Accepts, ModelAccepts
  <2> QED
    BY <2>1 DEF CrossFieldConsistent
<1>2. p.components.api_gateway => OwnApi(p) = Given
  BY <1>1 DEF OwnApi
<1> DEFINE two == SignalsOf(Tier2(p))
           three == SignalsOf(Tier3(p))
<1>3. SignalsOf(Plan(p)) = (Tier1Signals \cup two) \cup three
  BY PlanIs
<1>4. two = (IF p.aurora = Given THEN {"aurora_writer_location", "aurora_replica_lag_high"} ELSE {})
            \cup (IF p.elasticache = Given THEN {"elasticache_replication"} ELSE {})
  BY Tier2Is
<1>5. three = {"alb_unhealthy"} \cup (IF p.components.api_gateway /\ OwnApi(p) = Given
                                      THEN {"api_gw_5xx"} ELSE {})
  BY Tier3Is
<1>6. "aurora_replica_lag_high" \notin Tier1Signals /\ "elasticache_replication" \notin Tier1Signals
      /\ "api_gw_5xx" \notin Tier1Signals
  BY DEF Tier1Signals, Nlb, Canary, Health, Endpoint
<1> HIDE DEF two, three
<1>7. p.aurora = Given <=> "aurora_replica_lag_high" \in SignalsOf(Plan(p))
  BY <1>3, <1>4, <1>5, <1>6
<1>8. p.elasticache = Given <=> "elasticache_replication" \in SignalsOf(Plan(p))
  BY <1>3, <1>4, <1>5, <1>6
<1>9. p.components.api_gateway <=> "api_gw_5xx" \in SignalsOf(Plan(p))
  BY <1>2, <1>3, <1>4, <1>5, <1>6
<1> QED
  BY <1>1, <1>7, <1>8, <1>9

(***************************************************************************)
(* The canary's counts.                                                    *)
(***************************************************************************)
\* Numbers that a fixed step moves into a set are no more than its elements.
LEMMA ShiftedIsNoMore ==
    ASSUME NEW A \in SUBSET Int, NEW T \in SUBSET Int, IsFiniteSet(T), NEW d \in Int,
           \A a \in A : a + d \in T
    PROVE  Cardinality(A) <= Cardinality(T)
<1> DEFINE f == [a \in A |-> a + d]
<1>1. \A a, b \in A : a + d = b + d => a = b
  OBVIOUS
<1>2. f \in Injection(A, T)
  BY <1>1 DEF Injection, IsInjective
<1> HIDE DEF f
<1> QED
  BY <1>2, FS_Injection

\* The runs of an interval of ages are finitely many, and no more than those of
\* a wider one.
LEMMA Counts ==
    ASSUME NEW m \in Int, NEW n \in Int
    PROVE  /\ \A results : IsFiniteSet(Runs(results, m..n)) /\ Runs(results, m..n) \subseteq m..n
           /\ Failed(m..n) \in Nat /\ Ran(m..n) \in Nat
<1>1. IsFiniteSet(m..n)
  BY FS_Interval
<1>2. ASSUME NEW results
      PROVE  /\ IsFiniteSet(Runs(results, m..n)) /\ Runs(results, m..n) \subseteq m..n
             /\ Cardinality(Runs(results, m..n)) \in Nat
  <2>1. Runs(results, m..n) \subseteq m..n
    BY DEF Runs
  <2>2. IsFiniteSet(Runs(results, m..n))
    BY <1>1, <2>1, FS_Subset
  <2> QED
    BY <2>1, <2>2, FS_CardinalityType
<1> QED
  BY <1>2 DEF Failed, Ran

LEMMA CountsGrow ==
    ASSUME NEW m \in Int, NEW n \in Int, NEW k \in Int, NEW l \in Int, m..n \subseteq k..l
    PROVE  Failed(m..n) <= Failed(k..l) /\ Ran(m..n) <= Ran(k..l)
<1>1. ASSUME NEW results
      PROVE  Cardinality(Runs(results, m..n)) <= Cardinality(Runs(results, k..l))
  <2>1. Runs(results, m..n) \subseteq Runs(results, k..l)
    BY DEF Runs
  <2>2. IsFiniteSet(Runs(results, k..l))
    BY Counts
  <2> QED
    BY <2>1, <2>2, FS_Subset
<1> QED
  BY <1>1 DEF Failed, Ran

\* When more runs failed than needed, or fewer ran, the threshold is met still.
LEMMA Fewer ==
    ASSUME NEW pct \in 1..100, NEW f \in Nat, NEW t \in Nat, NEW g \in Nat, NEW r \in Nat,
           f > 0, f * 100 >= pct * t, f <= g, r <= t
    PROVE  g > 0 /\ g * 100 >= pct * r
<1>1. pct \in Nat /\ t - r \in Nat /\ t = r + (t - r)
  OBVIOUS
<1>2. \A p, a, b \in Nat : p * (a + b) = p * a + p * b /\ p * b >= 0 /\ p * a \in Int
  OBVIOUS
<1>3. pct * t >= pct * r /\ pct * t \in Int /\ pct * r \in Int
  BY <1>1, <1>2
<1> QED
  BY <1>3

\* And a threshold that some run meets takes a failure.
LEMMA Threshold ==
    ASSUME NEW pct \in 1..100, NEW f \in Nat, NEW t \in Nat, NEW g \in Nat, NEW r \in Nat,
           t > 0, f * 100 >= pct * t, f <= g, r <= t
    PROVE  g > 0 /\ g * 100 >= pct * r
<1>1. \A p \in Nat, a \in Nat : p >= 1 /\ a > 0 => p * a > 0 /\ p * a \in Int
  OBVIOUS
<1>2. pct * t > 0 /\ pct * t \in Int
  BY <1>1
<1>3. f > 0
  BY <1>2
<1> QED
  BY <1>3, Fewer

Percentage(p) == p.signals.canary_failure_rate_pct

LEMMA PercentageIs == ASSUME NEW p, Accepts(p) PROVE Percentage(p) \in 1..100
  BY DEF Accepts, ModelAccepts, InRange, Percentage

\* What makes the canary red is a cause for RedHasCause, read in the minute in
\* which the invocation started (late = 0) or in the next.
LEMMA CanaryRedHasCause ==
    ASSUME Accepts(profile), NEW f \in {0, 1}, NEW t \in {0, 1}, CanaryRed(f, t),
           NEW late \in {0, 1}, NEW seen \in {0, 1}, f <= seen
    PROVE  /\ Failed(1..(Long + late)) + seen > 0
           /\ (Failed(1..(Long + late)) + seen) * 100
                  >= Percentage(profile) * Ran((1 + late)..Long)
<1>1. Long \in Int /\ Long + late \in Int /\ 1 + late \in Int
  BY CollectorAssumption
<1>2. /\ Failed(1..Long) \in Nat /\ Failed(1..(Long + late)) \in Nat
      /\ Ran(1..Long) \in Nat /\ Ran((1 + late)..Long) \in Nat
  <2>1. \A m, n \in Int : Failed(m..n) \in Nat /\ Ran(m..n) \in Nat
    BY Counts, Zenon
  <2>2. 1 \in Int
    OBVIOUS
  <2> QED
    BY <1>1, <2>1, <2>2, Zenon
<1>3. Failed(1..Long) <= Failed(1..(Long + late)) /\ Ran((1 + late)..Long) <= Ran(1..Long)
  <2>1. 1..Long \subseteq 1..(Long + late) /\ (1 + late)..Long \subseteq 1..Long
    BY <1>1
  <2> QED
    BY <1>1, <2>1, CountsGrow
<1>4. /\ Ran(1..Long) + t > 0
      /\ (Failed(1..Long) + f) * 100 >= Percentage(profile) * (Ran(1..Long) + t)
  BY DEF CanaryRed, Percentage
<1>5. /\ Failed(1..Long) + f \in Nat /\ Ran(1..Long) + t \in Nat
      /\ Failed(1..(Long + late)) + seen \in Nat
      /\ Failed(1..Long) + f <= Failed(1..(Long + late)) + seen
      /\ Ran((1 + late)..Long) <= Ran(1..Long) + t
  BY <1>2, <1>3
<1> DEFINE n == Failed(1..Long) + f
           m == Ran(1..Long) + t
           k == Failed(1..(Long + late)) + seen
           l == Ran((1 + late)..Long)
<1>6. /\ Percentage(profile) \in 1..100 /\ n \in Nat /\ m \in Nat /\ k \in Nat /\ l \in Nat
      /\ m > 0 /\ n * 100 >= Percentage(profile) * m /\ n <= k /\ l <= m
  BY <1>2, <1>4, <1>5, PercentageIs
<1> HIDE DEF n, m, k, l
<1>7. k > 0 /\ k * 100 >= Percentage(profile) * l
  BY <1>6, Threshold
<1> QED
  BY <1>7 DEF k, l

\* When every run of the look-back failed and the threshold leaves room for one
\* more, the canary is red whatever its two calls see of the current minute.
LEMMA DarkIsRed ==
    ASSUME Accepts(profile), \A a \in 1..Long : runs[a] = "failed",
           Percentage(profile) * (Long + 1) <= Long * 100,
           NEW f \in {0, 1}, NEW t \in {0, 1}
    PROVE  CanaryRed(f, t)
<1>1. Long \in Nat /\ Long >= 1 /\ Percentage(profile) \in Nat
  BY CollectorAssumption, PercentageIs
<1>2. Runs({"failed"}, 1..Long) = 1..Long /\ Runs({"ok", "failed"}, 1..Long) = 1..Long
  BY DEF Runs
<1>3. Failed(1..Long) = Long /\ Ran(1..Long) = Long
  <2>1. Cardinality(1..Long) = Long
    BY <1>1, FS_Interval
  <2> QED
    BY <1>2, <2>1 DEF Failed, Ran
<1>4. \A p, n \in Nat : p * (n + 1) = p * n + p /\ p * n \in Nat
  OBVIOUS
<1>5. Percentage(profile) * (Long + t) <= Percentage(profile) * (Long + 1)
  BY <1>1, <1>4
<1>6. (Long + f) * 100 >= Long * 100
  BY <1>1
<1>7. (Long + f) * 100 >= Percentage(profile) * (Long + t)
  <2>1. /\ (Long + f) * 100 \in Int /\ Long * 100 \in Int
        /\ Percentage(profile) * (Long + t) \in Int /\ Percentage(profile) * (Long + 1) \in Int
    BY <1>1
  <2> QED
    BY <1>5, <1>6, <2>1
<1>8. Long + t > 0
  BY <1>1
<1> QED
  BY <1>3, <1>7, <1>8 DEF CanaryRed, Percentage

\* A minute later the failures are still there, the one that was seen included,
\* and the runs that have left the look-back are not counted.
LEMMA CountsAge ==
    ASSUME \A a \in Ages : a <= Long => runs'[a + 1] = runs[a],
           Canary \in fresh => runs'[1] = "failed"
    PROVE  /\ (Failed(1..(Long + 1)))' >= Failed(1..Long) + Seen(Canary)
           /\ (Ran(2..Long))' <= Ran(1..Long)
<1> DEFINE older == {a \in 1..(Long + 1) : runs'[a] \in {"failed"}}
           rans == {a \in 2..Long : runs'[a] \in {"ok", "failed"}}
<1>0. Long \in Nat /\ Long >= 1 /\ Long \in Int /\ Long + 1 \in Int
  BY CollectorAssumption
<1>1. (Failed(1..(Long + 1)))' = Cardinality(older) /\ (Ran(2..Long))' = Cardinality(rans)
  BY DEF Failed, Ran, Runs
<1>2. \A a \in 1..Long : runs'[a + 1] = runs[a]
  BY <1>0 DEF Ages
<1>3. IsFiniteSet(older) /\ older \subseteq 1..(Long + 1)
  <2>1. IsFiniteSet(1..(Long + 1))
    BY <1>0, FS_Interval
  <2> QED
    BY <2>1, FS_Subset
<1>4. ASSUME NEW T \in SUBSET older, \A a \in 1..Long : runs[a] = "failed" => a + 1 \in T
      PROVE  Failed(1..Long) <= Cardinality(T)
  <2> DEFINE A == Runs({"failed"}, 1..Long)
  <2>1. A \in SUBSET Int /\ T \in SUBSET Int /\ 1 \in Int
    BY <1>3 DEF Runs
  <2>2. IsFiniteSet(T)
    BY <1>3, FS_Subset
  <2>3. \A a \in A : a + 1 \in T
    BY <1>4 DEF Runs
  <2> HIDE DEF older, A
  <2>4. Cardinality(A) <= Cardinality(T)
    BY <2>1, <2>2, <2>3, ShiftedIsNoMore
  <2> QED
    BY <2>4 DEF Failed, A
<1>5. \A a \in 1..Long : runs[a] = "failed" => a + 1 \in older /\ a + 1 # 1
  BY <1>0, <1>2
<1>6. Cardinality(older) >= Failed(1..Long) + Seen(Canary)
  <2>1. CASE Canary \in fresh
    <3>1. 1 \in older
      BY <1>0, <2>1
    <3>2. Failed(1..Long) <= Cardinality(older \ {1})
      BY <1>4, <1>5
    <3>3. Cardinality(older \ {1}) = Cardinality(older) - 1 /\ Cardinality(older) \in Nat
      BY <1>3, <3>1, FS_RemoveElement, FS_CardinalityType
    <3>4. Failed(1..Long) \in Nat
      BY <1>0, Counts
    <3> HIDE DEF older
    <3> QED
      BY <2>1, <3>2, <3>3, <3>4 DEF Seen
  <2>2. CASE Canary \notin fresh
    <3>1. Failed(1..Long) <= Cardinality(older)
      BY <1>4, <1>5
    <3>2. Failed(1..Long) \in Nat
      BY <1>0, Counts
    <3>3. Cardinality(older) \in Nat
      BY <1>3, FS_CardinalityType
    <3> HIDE DEF older
    <3> QED
      BY <2>2, <3>1, <3>2, <3>3 DEF Seen
  <2> QED
    BY <2>1, <2>2
<1>7. Cardinality(rans) <= Ran(1..Long)
  <2> DEFINE T == Runs({"ok", "failed"}, 1..Long)
  <2>1. IsFiniteSet(T) /\ T \in SUBSET Int
    <3>1. IsFiniteSet(T)
      BY <1>0, Counts
    <3> QED
      BY <3>1 DEF Runs
  <2>2. \A a \in rans : a + (-1) \in T
    <3>1. ASSUME NEW a \in rans PROVE a + (-1) \in T
      <4>1. a - 1 \in 1..Long /\ (a - 1) + 1 = a /\ a + (-1) = a - 1
        BY <1>0
      <4>2. runs'[a] = runs[a - 1]
        BY <1>2, <4>1
      <4> QED
        BY <4>1, <4>2 DEF Runs
    <3> QED
      BY <3>1
  <2>3. rans \in SUBSET Int /\ -1 \in Int
    BY <1>0
  <2> HIDE DEF rans, T
  <2>4. Cardinality(rans) <= Cardinality(T)
    BY <2>1, <2>2, <2>3, ShiftedIsNoMore
  <2> QED
    BY <2>4 DEF Ran, T
<1> QED
  BY <1>1, <1>6, <1>7

(***************************************************************************)
(* The inductive invariant.                                                *)
(***************************************************************************)
Late == IF straddled THEN 1 ELSE 0

\* An invocation that goes on has an accepted profile, and a signal to read or
\* to emit until there is none left.
RunningInv ==
    outcome = "running" =>
        /\ Accepts(profile)
        /\ stage # "idle"
        /\ stage \in {"reading", "emitting"} => next <= Len(Plan(profile))

\* A source that was bad shortly before the invocation started is within the
\* look-back still, even when a minute has ended since.
RecentInv == outcome = "running" => \A s \in troubled : bad[s] < LookBack(s) + Late

\* The two halves of RedHasCause.
CountedCause == \A s \in reds \cap Counted : s \in fresh \/ bad[s] <= LookBack(s) + Late
CanaryCause ==
    Canary \in reds =>
        /\ Failed(1..(Long + Late)) + Seen(Canary) > 0
        /\ (Failed(1..(Long + Late)) + Seen(Canary)) * 100
               >= Percentage(profile) * Ran((1 + Late)..Long)
CauseInv == outcome = "running" => CountedCause /\ CanaryCause

\* The look-back of the canary, and the minute before it when the invocation
\* may have read it a minute ago, or has ended.
Watched == IF outcome = "running" /\ ~straddled THEN 1..Long ELSE Ages

Dark ==
    /\ Percentage(profile) * (Long + 1) <= Long * 100
    /\ \A a \in Watched : runs[a] = "failed"

MustBeRed == troubled \cup {s \in {Canary} : Dark}

\* What must be red and has been read was found red.
ReadInv ==
    Reading => \A j \in 1..(next - 1) :
                   Plan(profile)[j] \in MustBeRed => Plan(profile)[j] \in reds

FoundInv ==
    outcome \in {"running", "ok"} /\ stage \in {"emitting", "archiving"} => MustBeRed \subseteq reds

EndInv == outcome = "ok" => stage = "archiving"

CollectorInv ==
    /\ TypeOK
    /\ RunningInv
    /\ RecentInv
    /\ CauseInv
    /\ ReadInv
    /\ FoundInv
    /\ EndInv

\* The plan depends on the profile only.
LEMMA PlanStays ==
    ASSUME NEW p, profile' = p
    PROVE  Plan(profile)' = Plan(p)
  BY DEF Plan, Tier1, Tier2, Tier3, OwnApi

LEMMA Ranges ==
    /\ Long \in Nat /\ Long >= 1
    /\ \A s : LookBack(s) \in Nat /\ LookBack(s) >= 1 /\ LongAgo(s) = LookBack(s) + 2
    /\ \A n : n \in 1..(Len(Tier1) + 3 + 2 + 1) <=> n \in 1..10
<1>1. Long \in Nat /\ Long >= 1
  BY CollectorAssumption
<1>2. \A s : LookBack(s) \in Nat /\ LookBack(s) >= 1 /\ LongAgo(s) = LookBack(s) + 2
  BY CollectorAssumption DEF LookBack, LongAgo
<1>3. Len(Tier1) = 4
  BY Tier1Is
<1>4. 4 + 3 + 2 + 1 = 10
  OBVIOUS
<1> QED
  BY <1>1, <1>2, <1>3, <1>4

LEMMA CollectorInit == Init => CollectorInv
<1> SUFFICES ASSUME Init PROVE CollectorInv
  OBVIOUS
<1>1. TypeOK
  <2>1. next \in 1..(Len(Tier1) + 3 + 2 + 1)
    BY Ranges DEF Init
  <2>2. bad \in [Counted -> Nat] /\ \A s \in Counted : bad[s] \in 1..LongAgo(s)
    <3>1. \A s : LongAgo(s) \in Nat /\ LongAgo(s) \in 1..LongAgo(s)
      BY Ranges
    <3> QED
      BY <3>1 DEF Init
  <2>3. runs \in [Ages -> {"none", "ok", "failed"}]
    BY DEF Init
  <2> QED
    BY <2>1, <2>2, <2>3 DEF Init, TypeOK
<1>2. outcome = "none" /\ ~Reading /\ stage = "idle"
  BY DEF Init, Reading
<1> QED
  BY <1>1, <1>2 DEF CollectorInv, RunningInv, RecentInv, CauseInv, ReadInv, FoundInv, EndInv

(***************************************************************************)
(* What each kind of step keeps.                                           *)
(***************************************************************************)
\* While neither the canary's past nor the invocation's profile, outcome and
\* minute changes, what must be red does not change.
LEMMA MustBeRedStays ==
    ASSUME UNCHANGED <<runs, outcome, profile, troubled, straddled>>
    PROVE  MustBeRed' = MustBeRed /\ Dark' = Dark
<1>1. Percentage(profile)' = Percentage(profile)
  BY DEF Percentage
<1>2. Dark' = Dark
  BY <1>1 DEF Dark, Watched
<1> QED
  BY <1>2 DEF MustBeRed

\* A minute passes: what was bad becomes a minute older, or is bad again.
LEMMA SourcesAge ==
    ASSUME TypeOK, Tick
    PROVE  /\ bad' \in [Counted -> Nat]
           /\ \A s \in Counted : /\ bad'[s] \in 1..LongAgo(s) /\ bad'[s] <= bad[s] + 1
                                 /\ s \in fresh => bad'[s] = 1
           /\ runs' \in [Ages -> {"none", "ok", "failed"}]
           /\ \A a \in Ages : a <= Long => a + 1 \in Ages /\ runs'[a + 1] = runs[a]
           /\ Canary \in fresh => runs'[1] = "failed"
<1> USE Ranges
<1>1. PICK worse \in SUBSET Counted :
          /\ fresh \cap Counted \subseteq worse
          /\ bad' = [s \in Counted |-> IF s \in worse THEN 1
                                       ELSE IF bad[s] < LongAgo(s) THEN bad[s] + 1 ELSE LongAgo(s)]
  BY DEF Tick
<1>2. ASSUME NEW s \in Counted
      PROVE  /\ bad'[s] \in Nat /\ bad'[s] \in 1..LongAgo(s) /\ bad'[s] <= bad[s] + 1
             /\ s \in fresh => bad'[s] = 1
  <2>1. bad[s] \in 1..LongAgo(s) /\ LongAgo(s) \in Nat /\ LongAgo(s) >= 1
    BY DEF TypeOK
  <2>2. bad'[s] = IF s \in worse THEN 1 ELSE IF bad[s] < LongAgo(s) THEN bad[s] + 1 ELSE LongAgo(s)
    BY <1>1
  <2>3. s \in fresh => s \in worse
    BY <1>1
  <2> QED
    BY <2>1, <2>2, <2>3
<1>3. bad' \in [Counted -> Nat]
  BY <1>1, <1>2
<1>4. PICK run \in {"none", "ok", "failed"} :
          /\ Canary \in fresh => run = "failed"
          /\ runs' = [a \in Ages |-> IF a = 1 THEN run ELSE runs[a - 1]]
  BY DEF Tick
<1>5. ASSUME NEW a \in Ages
      PROVE  runs'[a] \in {"none", "ok", "failed"}
  <2>1. a # 1 => a - 1 \in Ages
    BY DEF Ages
  <2> QED
    BY <1>4, <2>1 DEF TypeOK
<1>6. ASSUME NEW a \in Ages, a <= Long
      PROVE  a + 1 \in Ages /\ runs'[a + 1] = runs[a]
  <2>1. a + 1 \in Ages /\ a + 1 # 1 /\ (a + 1) - 1 = a
    BY <1>6 DEF Ages
  <2> QED
    BY <1>4, <2>1
<1>7. runs' \in [Ages -> {"none", "ok", "failed"}]
  BY <1>4, <1>5
<1>8. Canary \in fresh => runs'[1] = "failed"
  <2>1. 1 \in Ages
    BY DEF Ages
  <2> QED
    BY <1>4, <2>1
<1> QED
  BY <1>2, <1>3, <1>6, <1>7, <1>8

LEMMA TickKeeps == CollectorInv /\ Tick => CollectorInv'
<1> SUFFICES ASSUME CollectorInv, Tick PROVE CollectorInv'
  OBVIOUS
<1> USE Ranges
<1>1. ~straddled /\ fresh' = {} /\ TypeOK
  BY DEF CollectorInv, Tick
<1>2. /\ bad' \in [Counted -> Nat]
      /\ \A s \in Counted : /\ bad'[s] \in 1..LongAgo(s) /\ bad'[s] <= bad[s] + 1
                            /\ s \in fresh => bad'[s] = 1
      /\ runs' \in [Ages -> {"none", "ok", "failed"}]
      /\ \A a \in Ages : a <= Long => a + 1 \in Ages /\ runs'[a + 1] = runs[a]
      /\ Canary \in fresh => runs'[1] = "failed"
  BY <1>1, SourcesAge
<1>3. \A s \in Counted : bad[s] \in 1..LongAgo(s) /\ LongAgo(s) \in Nat
  BY <1>1 DEF TypeOK
<1>4. CASE outcome = "running"
  <2>1. /\ straddled' = TRUE
        /\ UNCHANGED <<stage, outcome, profile, next, reds, errors, troubled>>
    BY <1>4 DEF Tick
  <2>2. Plan(profile)' = Plan(profile)
    BY <2>1, PlanStays
  <2>3. TypeOK'
    BY <1>1, <1>2, <2>1 DEF TypeOK, LongAgo, LookBack
  <2>4. RunningInv'
    BY <2>1, <2>2 DEF CollectorInv, RunningInv
  <2>5. RecentInv'
    <3>1. ASSUME NEW s \in troubled PROVE bad'[s] < LookBack(s) + 1
      <4>1. s \in Counted
        BY <1>1 DEF TypeOK
      <4>2. bad[s] < LookBack(s) + 0 /\ LookBack(s) \in Nat
        BY <1>1, <1>4 DEF CollectorInv, RecentInv, Late
      <4> QED
        BY <1>2, <1>3, <4>1, <4>2
    <3> QED
      BY <2>1, <3>1 DEF RecentInv, Late, LookBack
  <2>6. CauseInv'
    <3>1. CountedCause /\ CanaryCause /\ Late = 0 /\ Late' = 1
      BY <1>1, <1>4, <2>1 DEF CollectorInv, CauseInv, Late
    <3>2. CountedCause'
      <4>1. ASSUME NEW s \in reds \cap Counted PROVE bad'[s] <= LookBack(s) + 1
        <5>1. s \in fresh \/ bad[s] <= LookBack(s) + 0
          BY <3>1 DEF CountedCause
        <5> QED
          BY <1>2, <1>3, <5>1
      <4> QED
        BY <2>1, <3>1, <4>1 DEF CountedCause, LookBack
    <3>3. CanaryCause'
      <4>1. SUFFICES ASSUME Canary \in reds
                     PROVE  /\ (Failed(1..(Long + 1)))' + 0 > 0
                            /\ ((Failed(1..(Long + 1)))' + 0) * 100
                                   >= Percentage(profile) * (Ran((1 + 1)..Long))'
        <5>1. Seen(Canary)' = 0
          BY <1>1 DEF Seen
        <5> QED
          BY <2>1, <3>1, <5>1 DEF CanaryCause, Percentage, Failed, Ran, Runs
      <4>2. /\ Failed(1..(Long + 0)) + Seen(Canary) > 0
            /\ (Failed(1..(Long + 0)) + Seen(Canary)) * 100
                   >= Percentage(profile) * Ran((1 + 0)..Long)
        BY <3>1, <4>1 DEF CanaryCause
      <4>3. Long + 0 = Long /\ 1 + 0 = 1 /\ 1 + 1 = 2
        OBVIOUS
      <4>4. /\ (Failed(1..(Long + 1)))' >= Failed(1..Long) + Seen(Canary)
            /\ (Ran(2..Long))' <= Ran(1..Long)
        BY <1>2, CountsAge
      <4> DEFINE f == Failed(1..Long) + Seen(Canary)
                 t == Ran(1..Long)
                 g == (Failed(1..(Long + 1)))'
                 r == (Ran(2..Long))'
                 pct == Percentage(profile)
      <4>5. f \in Nat /\ t \in Nat
        <5>1. Failed(1..Long) \in Nat /\ Ran(1..Long) \in Nat
          BY Counts
        <5> QED
          BY <5>1 DEF Seen
      <4>6. g \in Nat /\ r \in Nat
        <5>1. g = Cardinality({a \in 1..(Long + 1) : runs'[a] \in {"failed"}})
              /\ r = Cardinality({a \in 2..Long : runs'[a] \in {"ok", "failed"}})
          BY DEF Failed, Ran, Runs
        <5>2. IsFiniteSet(1..(Long + 1)) /\ IsFiniteSet(2..Long)
          BY FS_Interval
        <5>3. IsFiniteSet({a \in 1..(Long + 1) : runs'[a] \in {"failed"}})
              /\ IsFiniteSet({a \in 2..Long : runs'[a] \in {"ok", "failed"}})
          BY <5>2, FS_Subset
        <5> HIDE DEF g, r
        <5> QED
          BY <5>1, <5>3, FS_CardinalityType
      <4>7. pct \in 1..100
        BY <1>4, PercentageIs DEF CollectorInv, RunningInv
      <4>8. f > 0 /\ f * 100 >= pct * t /\ f <= g /\ r <= t
        BY <4>2, <4>3, <4>4, <4>5, <4>6
      <4> HIDE DEF f, t, g, r, pct
      <4>9. g > 0 /\ g * 100 >= pct * r
        BY <4>5, <4>6, <4>7, <4>8, Fewer
      <4> QED
        BY <4>3, <4>6, <4>9 DEF g, r, pct
    <3> QED
      BY <3>2, <3>3 DEF CauseInv
  <2>7. MustBeRed' \subseteq MustBeRed
    <3>1. Dark' => Dark
      <4>1. SUFFICES ASSUME Dark' PROVE \A a \in 1..Long : runs[a] = "failed"
        BY <1>1, <1>4, <2>1 DEF Dark, Watched, Percentage
      <4>2. \A a \in Ages : runs'[a] = "failed"
        BY <2>1, <4>1 DEF Dark, Watched, Ages
      <4>3. \A a \in 1..Long : a \in Ages /\ a <= Long
        BY DEF Ages
      <4> QED
        BY <1>2, <4>2, <4>3
    <3> QED
      BY <2>1, <3>1 DEF MustBeRed
  <2>8. ReadInv' /\ FoundInv' /\ EndInv'
    BY <2>1, <2>2, <2>7 DEF CollectorInv, ReadInv, FoundInv, EndInv, Reading
  <2> QED
    BY <2>3, <2>4, <2>5, <2>6, <2>8 DEF CollectorInv
<1>5. CASE outcome # "running"
  <2>1. /\ stage' = "idle" /\ outcome' = "none" /\ profile' = Rejected /\ next' = 1
        /\ reds' = {} /\ errors' = {} /\ troubled' = {} /\ straddled' = FALSE
    BY <1>5 DEF Tick
  <2>2. TypeOK'
    <3>1. next' \in 1..(Len(Tier1) + 3 + 2 + 1)
      BY <2>1
    <3> QED
      BY <1>1, <1>2, <2>1, <3>1 DEF TypeOK, LongAgo, LookBack
  <2>3. RunningInv' /\ RecentInv' /\ CauseInv'
    BY <2>1 DEF RunningInv, RecentInv, CauseInv
  <2>4. ReadInv' /\ FoundInv' /\ EndInv'
    BY <2>1 DEF ReadInv, FoundInv, EndInv, Reading
  <2> QED
    BY <2>2, <2>3, <2>4 DEF CollectorInv
<1> QED
  BY <1>4, <1>5

\* What load_profile returns is a document that was accepted, or none.
LEMMA LoadableIsAccepted ==
    ASSUME NEW p \in Loadable, p # Rejected
    PROVE  Accepts(p) /\ p \in Documents \cup InlineDocuments
<1>1. PICK inline \in InlineDocuments \cup {Unset}, stored \in Documents \cup {Unreadable} :
          p = LoadProfile(inline, stored)
  BY DEF Loadable
<1>2. ~Unset.mapping /\ ~Unreadable.mapping
  BY DEF Unset, Unreadable, NoDocument
<1>3. ~Accepts(Unset) /\ ~Accepts(Unreadable)
  BY <1>2 DEF Accepts
<1>4. PICK doc \in Documents \cup InlineDocuments \cup {Unset, Unreadable} :
          p = IF Accepts(doc) THEN doc ELSE Rejected
  <2> DEFINE d == IF inline = Unset THEN stored ELSE inline
  <2>1. p = IF Accepts(d) THEN d ELSE Rejected
    BY <1>1 DEF LoadProfile
  <2>2. d \in Documents \cup InlineDocuments \cup {Unset, Unreadable}
    OBVIOUS
  <2> HIDE DEF d
  <2> QED
    BY <2>1, <2>2
<1>5. Accepts(doc) /\ p = doc
  BY <1>4
<1> QED
  BY <1>3, <1>4, <1>5

LEMMA InvokeKeeps == CollectorInv /\ Invoke => CollectorInv'
<1> SUFFICES ASSUME CollectorInv, Invoke PROVE CollectorInv'
  OBVIOUS
<1>1. PICK p \in Loadable :
          /\ profile' = p
          /\ outcome' = IF p = Rejected THEN "error" ELSE "running"
          /\ troubled' = IF p = Rejected THEN {} ELSE {s \in Counted : bad[s] < LookBack(s)}
  BY DEF Invoke
<1>2. /\ stage' = "reading" /\ next' = 1 /\ reds' = {} /\ straddled' = FALSE
      /\ bad' = bad /\ runs' = runs /\ fresh' = fresh
  BY DEF Invoke, world
<1>3. Plan(profile)' = Plan(p)
  BY <1>1, PlanStays
<1>4. p # Rejected => Accepts(p) /\ p \in Documents \cup InlineDocuments
  BY LoadableIsAccepted
<1>5. TypeOK'
  <2>1. profile' \in Documents \cup InlineDocuments \cup {Rejected}
    BY <1>1, <1>4
  <2>2. outcome' \in {"none", "running", "ok", "error"} /\ troubled' \subseteq Counted
    BY <1>1
  <2>3. next' \in 1..(Len(Tier1) + 3 + 2 + 1)
    BY <1>2, Ranges
  <2> QED
    BY <1>2, <2>1, <2>2, <2>3 DEF CollectorInv, TypeOK, LongAgo, LookBack
<1>6. RunningInv'
  <2>1. Len(Plan(p)) >= 1
    <3>1. Len(Plan(p)) \in 5..9
      BY PlanIs
    <3>2. \A n \in 5..9 : n >= 1
      OBVIOUS
    <3> QED
      BY <3>1, <3>2, Zenon
  <2>2. outcome' = "running" => Accepts(p)
    BY <1>1, <1>4
  <2>3. next' <= Len(Plan(profile))'
    BY <1>2, <1>3, <2>1
  <2>4. outcome' = "running" => Accepts(profile)'
    BY <1>1, <2>2
  <2> QED
    BY <1>2, <2>3, <2>4 DEF RunningInv
<1>7. RecentInv'
  <2>1. SUFFICES ASSUME NEW s \in troubled' PROVE bad[s] < LookBack(s) + 0
    BY <1>2 DEF RecentInv, Late, LookBack
  <2>2. bad[s] < LookBack(s) /\ LookBack(s) \in Nat
    BY <1>1, <2>1, Ranges
  <2> QED
    BY <2>2
<1>8. CauseInv'
  BY <1>2 DEF CauseInv, CountedCause, CanaryCause
<1>9. ReadInv'
  <2>1. \A j : j \notin 1..(1 - 1)
    OBVIOUS
  <2> QED
    BY <1>2, <2>1 DEF ReadInv
<1>10. FoundInv' /\ EndInv'
  BY <1>1, <1>2 DEF FoundInv, EndInv
<1> QED
  BY <1>5, <1>6, <1>7, <1>8, <1>9, <1>10 DEF CollectorInv

\* The end of an invocation that succeeds keeps all it found.
LEMMA EndsKeeps ==
    ASSUME CollectorInv, outcome = "running",
           NEW how \in {"ok", "error"}, NEW failed, Ends(how, failed),
           how = "ok" => stage = "archiving"
    PROVE  CollectorInv'
<1>1. /\ outcome' = how /\ straddled' = FALSE
      /\ UNCHANGED <<bad, runs, fresh, stage, profile, next>>
      /\ \/ reds' = reds /\ troubled' = troubled
         \/ how = "error" /\ reds' = {} /\ troubled' = {}
  BY DEF Ends, world
<1>2. outcome' # "running"
  BY <1>1
<1>3. TypeOK'
  <2>1. reds' \subseteq {Nlb, Canary, Health, Endpoint} /\ troubled' \subseteq Counted
    BY <1>1 DEF CollectorInv, TypeOK
  <2> QED
    BY <1>1, <2>1 DEF CollectorInv, TypeOK, LongAgo, LookBack
<1>4. RunningInv' /\ RecentInv' /\ CauseInv' /\ ReadInv'
  BY <1>2 DEF RunningInv, RecentInv, CauseInv, ReadInv, Reading
<1>5. FoundInv'
  <2>1. SUFFICES ASSUME how = "ok" PROVE MustBeRed' \subseteq reds'
    BY <1>1 DEF FoundInv
  <2>2. MustBeRed \subseteq reds /\ reds' = reds /\ troubled' = troubled
    BY <1>1, <2>1 DEF CollectorInv, FoundInv
  <2>3. Dark' => Dark
    <3>1. SUFFICES ASSUME Dark' PROVE \A a \in Watched : runs[a] = "failed"
      BY <1>1 DEF Dark, Percentage
    <3>2. \A a \in Ages : runs[a] = "failed"
      BY <1>1, <1>2, <3>1 DEF Dark, Watched, Ages
    <3>3. Watched \subseteq Ages
      BY Ranges DEF Watched, Ages
    <3> QED
      BY <3>2, <3>3
  <2> QED
    BY <2>2, <2>3 DEF MustBeRed
<1>6. EndInv'
  BY <1>1 DEF EndInv
<1> QED
  BY <1>3, <1>4, <1>5, <1>6 DEF CollectorInv

\* A reader's answer, red only for a cause, and red when it must be.
LEMMA CollectedKeeps ==
    ASSUME CollectorInv, Reading, NEW red \in BOOLEAN, NEW seen \in BOOLEAN, Collected(red, seen),
           red => Current \in Tier1Signals,
           seen => Current \in Counted \cup {Canary},
           red /\ Current \in Counted => CountedRed(Current, seen),
           red /\ Current = Canary =>
               \E f \in {0, 1}, t \in {0, 1} : CanaryRed(f, t) /\ (f = 1 => seen),
           Current \in MustBeRed => red
    PROVE  CollectorInv'
<1> DEFINE plan == Plan(profile)
           found == IF red THEN reds \cup {Current} ELSE reds
<1>1. /\ reds' = found
      /\ fresh' = IF seen THEN fresh \cup {Current} ELSE fresh
      /\ UNCHANGED <<bad, runs, outcome, profile, errors, troubled, straddled>>
      /\ outcome = "running" /\ stage = "reading"
  BY DEF Collected, Reading
<1>2. Plan(profile)' = plan /\ MustBeRed' = MustBeRed
  BY <1>1, PlanStays, MustBeRedStays
<1>3. next \in 1..10 /\ plan \in Seq(AllSignals) /\ Len(plan) \in 5..9 /\ next <= Len(plan)
  <2>1. next \in 1..10
    BY Ranges DEF CollectorInv, TypeOK
  <2>2. plan \in Seq(AllSignals) /\ Len(plan) \in 5..9
    BY PlanIs
  <2> QED
    BY <1>1, <2>1, <2>2 DEF CollectorInv, RunningInv
<1>4. \/ next < Len(plan) /\ next' = next + 1 /\ stage' = "reading"
      \/ next = Len(plan) /\ next' = 1 /\ stage' = "emitting"
  <2>1. \A n \in 5..9 : n \in Int
    OBVIOUS
  <2>2. Len(plan) \in Int
    BY <1>3, <2>1
  <2> QED
    BY <1>1, <1>3, <2>2 DEF Collected
<1>5. Current = plan[next]
  BY DEF Current
<1>6. \A j \in 1..next : plan[j] \in MustBeRed => plan[j] \in found
  <2>1. SUFFICES ASSUME NEW j \in 1..next, plan[j] \in MustBeRed PROVE plan[j] \in found
    OBVIOUS
  <2>2. CASE j = next
    BY <1>5, <2>1, <2>2
  <2>3. CASE j # next
    <3>1. j \in 1..(next - 1)
      BY <1>3, <2>3
    <3> QED
      BY <1>1, <2>1, <3>1 DEF CollectorInv, ReadInv, Reading
  <2> QED
    BY <2>2, <2>3
<1> HIDE DEF plan, found
<1>7. TypeOK'
  <2>1. next' \in 1..(Len(Tier1) + 3 + 2 + 1)
    <3>1. \A n \in 5..9, k \in 1..10 : k < n => k + 1 \in 1..10
      OBVIOUS
    <3>2. next < Len(plan) => next + 1 \in 1..10
      BY <1>3, <3>1, Zenon
    <3>3. 1 \in 1..10
      OBVIOUS
    <3>4. next' \in 1..10
      BY <1>4, <3>2, <3>3, Zenon
    <3> QED
      BY <3>4, Ranges
  <2>2. reds' \subseteq {Nlb, Canary, Health, Endpoint}
    BY <1>1 DEF CollectorInv, TypeOK, found, Tier1Signals
  <2>3. stage' \in {"idle", "reading", "emitting", "archiving"}
    BY <1>4
  <2>4. fresh' \subseteq Counted \cup {Canary}
    BY <1>1 DEF CollectorInv, TypeOK
  <2> QED
    BY <1>1, <2>1, <2>2, <2>3, <2>4 DEF CollectorInv, TypeOK, LongAgo, LookBack
<1>8. RunningInv'
  <2>1. next' <= Len(plan)
    <3>1. \A n \in 5..9, k \in 1..10 : k < n => k + 1 <= n
      OBVIOUS
    <3>2. \A n \in 5..9 : 1 <= n
      OBVIOUS
    <3> QED
      BY <1>3, <1>4, <3>1, <3>2
  <2>2. stage' # "idle"
    BY <1>4
  <2>3. Accepts(profile)
    BY <1>1 DEF CollectorInv, RunningInv
  <2>4. Accepts(profile)'
    BY <1>1, <2>3
  <2> QED
    BY <1>2, <2>1, <2>2, <2>4 DEF RunningInv
<1>9. RecentInv'
  BY <1>1 DEF CollectorInv, RecentInv, Late, LookBack
<1>10. CauseInv'
  <2>1. /\ CountedCause /\ CanaryCause /\ Late \in {0, 1} /\ Late' = Late
        /\ fresh \subseteq fresh'
    BY <1>1 DEF CollectorInv, CauseInv, Late
  <2>2. CountedCause'
    <3>1. ASSUME red, Current \in Counted
          PROVE  Current \in fresh' \/ bad[Current] <= LookBack(Current) + Late
      <4>1. seen \/ bad[Current] <= LookBack(Current)
        BY <3>1 DEF CountedRed
      <4>2. bad[Current] \in Nat /\ LookBack(Current) \in Nat
        BY <3>1, Ranges DEF CollectorInv, TypeOK
      <4> QED
        BY <1>1, <2>1, <4>1, <4>2
    <3>2. \A s \in reds \cap Counted : s \in fresh' \/ bad[s] <= LookBack(s) + Late
      BY <2>1 DEF CountedCause
    <3> QED
      BY <1>1, <2>1, <3>1, <3>2 DEF CountedCause, LookBack, found
  <2>3. CanaryCause'
    <3> DEFINE F == Failed(1..(Long + Late))
               R == Ran((1 + Late)..Long)
    <3>1. Failed(1..(Long + Late))' = F /\ Ran((1 + Late)..Long)' = R
          /\ Percentage(profile)' = Percentage(profile)
      BY <1>1, <2>1 DEF Failed, Ran, Runs, Percentage
    <3>2. SUFFICES ASSUME Canary \in found
                   PROVE  /\ F + Seen(Canary)' > 0
                          /\ (F + Seen(Canary)') * 100 >= Percentage(profile) * R
      BY <1>1, <3>1 DEF CanaryCause
    <3>3. Seen(Canary) \in {0, 1} /\ Seen(Canary)' \in {0, 1} /\ Seen(Canary) <= Seen(Canary)'
      BY <2>1 DEF Seen
    <3>4. Accepts(profile)
      BY <1>1 DEF CollectorInv, RunningInv
    <3>5. CASE red /\ Current = Canary
      <4>1. PICK f \in {0, 1}, t \in {0, 1} : CanaryRed(f, t) /\ (f = 1 => seen)
        BY <3>5
      <4>2. f <= Seen(Canary)'
        <5>1. CASE f = 0
          BY <3>3, <5>1
        <5>2. CASE f = 1
          <6>1. Canary \in fresh'
            BY <1>1, <3>5, <4>1, <5>2
          <6> QED
            BY <5>2, <6>1 DEF Seen
        <5> QED
          BY <5>1, <5>2
      <4> DEFINE n == Seen(Canary)'
                 l == Late
      <4>3. n \in {0, 1} /\ l \in {0, 1} /\ f <= n
        BY <2>1, <3>3, <4>2
      <4> HIDE DEF n, l
      <4>4. /\ Failed(1..(Long + l)) + n > 0
            /\ (Failed(1..(Long + l)) + n) * 100 >= Percentage(profile) * Ran((1 + l)..Long)
        BY <3>4, <4>1, <4>3, CanaryRedHasCause
      <4> QED
        BY <4>4 DEF n, l
    <3>6. CASE Canary \in reds
      <4>1. F + Seen(Canary) > 0 /\ (F + Seen(Canary)) * 100 >= Percentage(profile) * R
        BY <2>1, <3>6 DEF CanaryCause
      <4>2. F \in Nat /\ R \in Nat
        <5>1. \A m, n \in Int : Failed(m..n) \in Nat /\ Ran(m..n) \in Nat
          BY Counts, Zenon
        <5>2. 1 \in Int /\ Long \in Int /\ Long + Late \in Int /\ 1 + Late \in Int
          BY <2>1, Ranges
        <5> QED
          BY <5>1, <5>2, Zenon
      <4>3. Percentage(profile) \in 1..100
        BY <3>4, PercentageIs
      <4> DEFINE n == Seen(Canary)'
                 o == Seen(Canary)
                 pct == Percentage(profile)
      <4> HIDE DEF F, R, n, o, pct
      <4>4. pct * R \in Int
        BY <4>2, <4>3 DEF pct
      <4>5. n \in {0, 1} /\ o \in {0, 1} /\ o <= n /\ F + o > 0 /\ (F + o) * 100 >= pct * R
        BY <3>3, <4>1 DEF n, o, pct
      <4>6. F + n > 0 /\ (F + n) * 100 >= pct * R
        BY <4>2, <4>4, <4>5
      <4> QED
        BY <4>6 DEF n, pct
    <3> QED
      BY <3>2, <3>5, <3>6 DEF found
  <2> QED
    BY <2>2, <2>3 DEF CauseInv
<1>11. ReadInv'
  <2>1. SUFFICES ASSUME stage' = "reading", NEW j \in 1..(next' - 1), plan[j] \in MustBeRed
                 PROVE  plan[j] \in found
    BY <1>1, <1>2 DEF ReadInv, Reading
  <2>2. next' = next + 1
    BY <1>4, <2>1
  <2>3. j \in 1..next
    BY <1>3, <2>2
  <2> QED
    BY <1>6, <2>1, <2>3
<1>12. FoundInv'
  <2>1. SUFFICES ASSUME stage' = "emitting", NEW s \in MustBeRed PROVE s \in found
    BY <1>1, <1>2, <1>4 DEF FoundInv
  <2>2. s \in Tier1Signals
    BY DEF MustBeRed, CollectorInv, TypeOK, Counted, Tier1Signals
  <2>3. s \in SignalsOf(plan)
    BY <2>2, PlanIs DEF plan
  <2>4. PICK j \in 1..Len(plan) : s = plan[j]
    BY <2>3 DEF SignalsOf
  <2>5. j \in 1..next
    BY <1>4, <2>1
  <2> QED
    BY <1>6, <2>1, <2>4, <2>5
<1>13. EndInv'
  BY <1>1 DEF EndInv
<1> QED
  BY <1>7, <1>8, <1>9, <1>10, <1>11, <1>12, <1>13 DEF CollectorInv

LEMMA EmitKeeps == CollectorInv /\ Emit => CollectorInv'
<1> SUFFICES ASSUME CollectorInv, Emit PROVE CollectorInv'
  OBVIOUS
<1>1. CASE Ends("error", {"put_metric_data"})
  <2>1. outcome = "running"
    BY DEF Emit
  <2> QED
    BY <1>1, <2>1, EndsKeeps
<1>2. CASE /\ next' = next + 1
           /\ stage' = IF next = Len(Plan(profile)) THEN "archiving" ELSE stage
           /\ UNCHANGED <<world, outcome, profile, reds, errors, troubled, straddled>>
  <2>1. /\ outcome = "running" /\ stage = "emitting" /\ next' = next + 1
        /\ UNCHANGED <<bad, runs, fresh, outcome, profile, reds, errors, troubled, straddled>>
        /\ stage' = IF next = Len(Plan(profile)) THEN "archiving" ELSE "emitting"
    BY <1>2 DEF Emit, world
  <2>2. Plan(profile)' = Plan(profile) /\ MustBeRed' = MustBeRed
    BY <2>1, PlanStays, MustBeRedStays
  <2>3. next \in 1..10 /\ Len(Plan(profile)) \in 5..9 /\ next <= Len(Plan(profile))
    BY <2>1, Ranges, PlanIs DEF CollectorInv, TypeOK, RunningInv
  <2>4. TypeOK'
    <3>1. \A n \in 5..9, k \in 1..10 : k <= n => k + 1 \in 1..10
      OBVIOUS
    <3>2. next' \in 1..(Len(Tier1) + 3 + 2 + 1)
      BY <2>1, <2>3, <3>1, Ranges
    <3>3. stage' \in {"idle", "reading", "emitting", "archiving"}
      BY <2>1
    <3> QED
      BY <2>1, <3>2, <3>3 DEF CollectorInv, TypeOK, LongAgo, LookBack
  <2>5. RunningInv'
    <3>1. stage' = "emitting" => next' <= Len(Plan(profile))
      <4>1. \A n \in 5..9, k \in 1..10 : k <= n /\ k # n => k + 1 <= n
        OBVIOUS
      <4> QED
        BY <2>1, <2>3, <4>1
    <3>2. stage' # "idle" /\ stage' # "reading"
      BY <2>1
    <3>3. Accepts(profile)
      BY <2>1 DEF CollectorInv, RunningInv
    <3>4. Accepts(profile)'
      BY <2>1, <3>3
    <3> QED
      BY <2>2, <3>1, <3>2, <3>4 DEF RunningInv
  <2>6. RecentInv' /\ CauseInv' /\ EndInv'
    BY <2>1 DEF CollectorInv, RecentInv, CauseInv, CountedCause, CanaryCause, EndInv, Late, LookBack,
                Seen, Failed, Ran, Runs, Percentage
  <2>7. ReadInv' /\ FoundInv'
    <3>1. stage' # "reading" /\ MustBeRed \subseteq reds
      BY <2>1 DEF CollectorInv, FoundInv
    <3> QED
      BY <2>1, <2>2, <3>1 DEF ReadInv, FoundInv, Reading
  <2> QED
    BY <2>4, <2>5, <2>6, <2>7 DEF CollectorInv
<1> QED
  BY <1>1, <1>2 DEF Emit

LEMMA ReadCountedKeeps == CollectorInv /\ ReadCounted => CollectorInv'
<1> SUFFICES ASSUME CollectorInv, ReadCounted PROVE CollectorInv'
  OBVIOUS
<1>1. Reading /\ outcome = "running" /\ Current \in Counted
  BY DEF ReadCounted, Reading
<1>2. PICK seen \in BOOLEAN : Collected(CountedRed(Current, seen), seen)
  BY DEF ReadCounted
<1> DEFINE red == CountedRed(Current, seen)
<1>3. Current # Canary /\ Current \in Tier1Signals
  BY <1>1 DEF Counted, Canary, Nlb, Endpoint, Tier1Signals
<1>4. red \in BOOLEAN
  BY DEF CountedRed
<1>5. Current \in MustBeRed => red
  <2>1. SUFFICES ASSUME Current \in troubled PROVE bad[Current] <= LookBack(Current)
    BY <1>3 DEF MustBeRed, CountedRed
  <2>2. bad[Current] < LookBack(Current) + Late /\ Late \in {0, 1}
    BY <1>1, <2>1 DEF CollectorInv, RecentInv, Late
  <2>3. bad[Current] \in Nat /\ LookBack(Current) \in Nat
    BY <1>1, Ranges DEF CollectorInv, TypeOK
  <2> QED
    BY <2>2, <2>3
<1>6. red /\ Current \in Counted => CountedRed(Current, seen)
  OBVIOUS
<1> HIDE DEF red
<1>7. Collected(red, seen)
  BY <1>2 DEF red
<1> QED
  BY <1>1, <1>3, <1>4, <1>5, <1>6, <1>7, CollectedKeeps

LEMMA ReadCanaryKeeps == CollectorInv /\ ReadCanary => CollectorInv'
<1> SUFFICES ASSUME CollectorInv, ReadCanary PROVE CollectorInv'
  OBVIOUS
<1>1. Reading /\ outcome = "running" /\ Current = Canary
  BY DEF ReadCanary, Reading
<1>2. PICK f \in {0, 1}, t \in {0, 1} : Collected(CanaryRed(f, t), f = 1)
  BY DEF ReadCanary
<1> DEFINE red == CanaryRed(f, t)
           seen == f = 1
<1>3. Current \notin Counted /\ Current \in Tier1Signals
  BY <1>1 DEF Counted, Canary, Nlb, Endpoint, Tier1Signals
<1>4. red \in BOOLEAN /\ seen \in BOOLEAN
  BY DEF CanaryRed
<1>5. Current \in MustBeRed => red
  <2>1. Current \notin troubled
    BY <1>3 DEF CollectorInv, TypeOK
  <2>2. SUFFICES ASSUME Dark PROVE CanaryRed(f, t)
    BY <2>1 DEF MustBeRed
  <2>3. 1..Long \subseteq Watched
    BY Ranges DEF Watched, Ages
  <2>4. \A a \in 1..Long : runs[a] = "failed"
    BY <2>2, <2>3 DEF Dark
  <2>5. Percentage(profile) * (Long + 1) <= Long * 100
    BY <2>2 DEF Dark
  <2>6. Accepts(profile)
    BY <1>1 DEF CollectorInv, RunningInv
  <2> QED
    BY <2>4, <2>5, <2>6, DarkIsRed
<1>6. red => CanaryRed(f, t) /\ (f = 1 => seen)
  OBVIOUS
<1> HIDE DEF red, seen
<1>7. Collected(red, seen)
  BY <1>2 DEF red, seen
<1> QED
  BY <1>1, <1>3, <1>4, <1>5, <1>6, <1>7, CollectedKeeps

LEMMA OtherReadersKeep == CollectorInv /\ (ReadHealth \/ ReadOther \/ ReadFails) => CollectorInv'
<1> SUFFICES ASSUME CollectorInv, ReadHealth \/ ReadOther \/ ReadFails PROVE CollectorInv'
  OBVIOUS
<1>1. Reading /\ outcome = "running"
  BY DEF ReadHealth, ReadOther, ReadFails, Reading
<1>2. CASE ReadFails
  <2>1. Ends("error", {Current})
    BY <1>2 DEF ReadFails
  <2> QED
    BY <1>1, <2>1, EndsKeeps
<1>3. ASSUME Current \notin Counted \cup {Canary}
      PROVE  Current \notin MustBeRed
  BY <1>3 DEF MustBeRed, CollectorInv, TypeOK
<1>4. CASE ReadHealth
  <2>1. Current = Health /\ Current \in Tier1Signals
    BY <1>4 DEF ReadHealth, Tier1Signals
  <2>2. Current \notin Counted \cup {Canary}
    BY <2>1 DEF Health, Counted, Canary, Nlb, Endpoint
  <2>3. PICK open \in BOOLEAN : Collected(open, FALSE)
    BY <1>4 DEF ReadHealth
  <2> QED
    BY <1>1, <1>3, <2>1, <2>2, <2>3, CollectedKeeps
<1>5. CASE ReadOther
  <2>1. Current \notin Counted \cup {Canary} /\ Collected(FALSE, FALSE)
    BY <1>5 DEF ReadOther
  <2> QED
    BY <1>1, <1>3, <2>1, CollectedKeeps
<1> QED
  BY <1>2, <1>4, <1>5

LEMMA CollectorStep == CollectorInv /\ [Next]_vars => CollectorInv'
<1>1. CASE Archive
  <2>1. ASSUME CollectorInv PROVE CollectorInv'
    <3>1. outcome = "running" /\ stage = "archiving"
      BY <1>1 DEF Archive
    <3>2. Ends("ok", {}) \/ Ends("error", {"put_object"})
      BY <1>1 DEF Archive
    <3>3. CASE Ends("ok", {})
      BY <2>1, <3>1, <3>3, EndsKeeps
    <3>4. CASE Ends("error", {"put_object"})
      BY <2>1, <3>1, <3>4, EndsKeeps
    <3> QED
      BY <3>2, <3>3, <3>4
  <2> QED
    BY <2>1
<1>2. CASE UNCHANGED vars
  <2> SUFFICES ASSUME CollectorInv PROVE CollectorInv'
    OBVIOUS
  <2>1. UNCHANGED <<bad, runs, fresh, stage, outcome, profile, next, reds, errors, troubled, straddled>>
    BY <1>2 DEF vars, world, invocation
  <2>2. Plan(profile)' = Plan(profile) /\ MustBeRed' = MustBeRed
    BY <2>1, PlanStays, MustBeRedStays
  <2>3. TypeOK' /\ RecentInv' /\ EndInv'
    BY <2>1 DEF CollectorInv, TypeOK, RecentInv, EndInv, Late, LookBack, LongAgo
  <2>4. CauseInv'
    BY <2>1 DEF CollectorInv, CauseInv, CountedCause, CanaryCause, Late, LookBack,
                Seen, Failed, Ran, Runs, Percentage
  <2>5. RunningInv' /\ ReadInv' /\ FoundInv'
    BY <2>1, <2>2 DEF CollectorInv, RunningInv, ReadInv, FoundInv, Reading
  <2> QED
    BY <2>3, <2>4, <2>5 DEF CollectorInv
<1> QED
  BY <1>1, <1>2, TickKeeps, InvokeKeeps, ReadCountedKeeps, ReadCanaryKeeps, OtherReadersKeep,
     EmitKeeps DEF Next

LEMMA CollectorHolds == Spec => []CollectorInv
  BY CollectorInit, CollectorStep, PTL DEF Spec

(***************************************************************************)
(* The theorems.                                                           *)
(***************************************************************************)
\* The Signal Collector's state keeps its types, whatever is uploaded: the
\* position in the plan never passes its nine signals.
THEOREM CollectorTypeCorrect == Spec => []TypeOK
<1>1. CollectorInv => TypeOK
  BY DEF CollectorInv
<1> QED
  BY <1>1, CollectorHolds, PTL

\* A signal is red only for a cause by the code's own rule, whatever the calls
\* see of the current minute: for every length of the look-backs, every canary
\* threshold the profile loader accepts and every number of targets.
THEOREM RedAlwaysHasCause == Spec => []RedHasCause
<1>1. CollectorInv => RedHasCause
  BY DEF CollectorInv, CauseInv, CountedCause, CanaryCause, RedHasCause, Late, Percentage
<1> QED
  BY <1>1, CollectorHolds, PTL

\* What must be red has been emitted when an invocation succeeds.
LEMMA FoundIsEmitted ==
    ASSUME CollectorInv, outcome = "ok"
    PROVE  MustBeRed \subseteq reds \cap Emitted
<1>1. stage = "archiving" /\ MustBeRed \subseteq reds
  BY DEF CollectorInv, EndInv, FoundInv
<1>2. Emitted = SignalsOf(Plan(profile))
  BY <1>1 DEF Emitted
<1>3. Tier1Signals \subseteq SignalsOf(Plan(profile))
  BY PlanIs
<1>4. MustBeRed \subseteq Tier1Signals
  BY DEF MustBeRed, CollectorInv, TypeOK, Counted, Tier1Signals
<1> QED
  BY <1>1, <1>2, <1>3, <1>4

\* An invocation that succeeds has emitted a red datapoint for each of the NLB
\* and the endpoints that was bad in the last minutes before it started.
THEOREM OutageIsAlwaysReported == Spec => []OutageIsReported
<1>1. CollectorInv => OutageIsReported
  BY FoundIsEmitted DEF OutageIsReported, MustBeRed
<1> QED
  BY <1>1, CollectorHolds, PTL

\* An invocation that succeeds after minutes in which every canary run failed
\* has emitted a red datapoint for the canary, for every look-back and every
\* threshold that leaves room for the current minute's run.
THEOREM DarkIsAlwaysReported == Spec => []DarkIsReported
<1>1. CollectorInv => DarkIsReported
  <2> SUFFICES ASSUME CollectorInv, outcome = "ok", \A a \in Ages : runs[a] = "failed",
                      Percentage(profile) * (Long + 1) <= Long * 100
               PROVE  Canary \in reds \cap Emitted
    BY DEF DarkIsReported, Percentage
  <2>1. Dark
    BY DEF Dark, Watched
  <2> QED
    BY <2>1, FoundIsEmitted DEF MustBeRed
<1> QED
  BY <1>1, CollectorHolds, PTL

\* Of the components that have a signal, every one that an accepted profile
\* declares has it in the plan, and no other: the validators leave no document
\* for which the plan of an invocation and the profile's components disagree,
\* in either region.
THEOREM DeclaredIsAlwaysMonitored == Spec => []DeclaredIsMonitored
<1>1. CollectorInv => DeclaredIsMonitored
  <2> SUFFICES ASSUME CollectorInv, outcome = "running" PROVE DeclaredIsMonitored
    BY DEF DeclaredIsMonitored
  <2>1. Accepts(profile)
    BY DEF CollectorInv, RunningInv
  <2> QED
    BY <2>1, PlanMatchesProfile DEF DeclaredIsMonitored
<1> QED
  BY <1>1, CollectorHolds, PTL
=============================================================================
