--------------------------- MODULE NaturalMinimum ---------------------------
(***************************************************************************)
(* Every nonempty set of natural numbers has a least element.  The         *)
(* induction theorems of the library take an operator, which no prover     *)
(* here can instantiate; that < is well-founded does not, and an induction *)
(* is then the choice of a least counterexample.                           *)
(***************************************************************************)
EXTENDS Naturals, WellFoundedInduction, TLAPS

\* What "the last datapoint found" (DnsControl) and "the last Dwell samples"
\* (DecisionEngine) rest on: the code's sorts and scans find what they look for.
LEMMA LeastElement ==
    ASSUME NEW T \in SUBSET Nat, T # {}
    PROVE  \E m \in T : \A k \in T : m <= k
<1> DEFINE R == {ss \in Nat \X Nat : ss[1] < ss[2]}
<1>1. IsWellFoundedOn(R, Nat)
  BY NatLessThanWellFounded DEF OpToRel
<1>2. PICK x \in T : \A y \in T : <<y, x>> \notin R
  BY <1>1, WFMin
<1>3. \A y \in T : ~(y < x)
  BY <1>2
<1> QED
  BY <1>3
=============================================================================
