------------------------- MODULE Convergence_proofs -------------------------
(***************************************************************************)
(* What the rules of Convergence guarantee, for every panel.               *)
(***************************************************************************)
EXTENDS Convergence, FiniteSetTheorems, TLAPS

\* One blocking objection stops every rule but advisory, however many approve.
THEOREM ObjectionVetoes ==
  ASSUME NEW rule \in Rules \ {"advisory"}, NEW policy, NEW enabled, NEW votes,
         Converged(rule, policy, enabled, votes)
  PROVE  Objectors(votes) = {}
<1>1. CASE rule = "unanimous"
  <2>1. Unanimous(policy, enabled, votes)  BY <1>1 DEF Converged
  <2>2. DOMAIN votes \ For(votes) = {}     BY <2>1 DEF Unanimous
  <2> QED BY <2>2 DEF For, Objectors
<1>2. CASE rule # "unanimous"
  BY <1>2 DEF Converged, Majority
<1> QED BY <1>1, <1>2

\* Under treat-as-blocking a contributor that did not answer stops every rule
\* but advisory, majorities included (H-7).
THEOREM SilenceVetoes ==
  ASSUME NEW rule \in Rules \ {"advisory"}, NEW enabled, NEW votes,
         Converged(rule, "treat-as-blocking", enabled, votes)
  PROVE  enabled \subseteq DOMAIN votes
<1>1. TimeoutBlock("treat-as-blocking", enabled, votes) = {}
  <2>1. CASE rule = "unanimous"
    <3>1. Unanimous("treat-as-blocking", enabled, votes) BY <2>1 DEF Converged
    <3> QED BY <3>1 DEF Unanimous
  <2>2. CASE rule # "unanimous"
    BY <2>2 DEF Converged, Majority
  <2> QED BY <2>1, <2>2
<1> QED BY <1>1 DEF TimeoutBlock, TimedOut

\* Unanimous means everybody that answered is for it.
THEOREM UnanimousIsUnanimous ==
  ASSUME NEW policy, NEW enabled, NEW votes,
         Converged("unanimous", policy, enabled, votes)
  PROVE  For(votes) = DOMAIN votes
<1>1. DOMAIN votes \ For(votes) = {}  BY DEF Converged, Unanimous
<1> QED BY <1>1 DEF For

LEMMA ElectorateIsFinite ==
  ASSUME NEW policy, NEW enabled, IsFiniteSet(enabled), NEW votes,
         DOMAIN votes \subseteq enabled
  PROVE  /\ IsFiniteSet(Electorate(policy, enabled, votes))
         /\ IsFiniteSet(For(votes))
<1>1. IsFiniteSet(DOMAIN votes)    BY FS_Subset
<1>2. For(votes) \subseteq DOMAIN votes  BY DEF For
<1> QED BY <1>1, <1>2, FS_Subset DEF Electorate

\* Nothing converges with nobody for it, unless the rule is inclusive-majority
\* and timeouts shrink the quorum, to nobody if need be.
THEOREM SomebodyIsFor ==
  ASSUME NEW rule \in Rules \ {"advisory"}, NEW policy, NEW enabled, NEW votes,
         IsFiniteSet(enabled), enabled # {}, DOMAIN votes \subseteq enabled,
         rule # "inclusive-majority" \/ policy # "shrink-quorum",
         Converged(rule, policy, enabled, votes)
  PROVE  For(votes) # {}
<1> DEFINE E == Electorate(policy, enabled, votes)
           n == Cardinality(E)
           m == Cardinality(For(votes))
<1>1. IsFiniteSet(E) /\ IsFiniteSet(For(votes))  BY ElectorateIsFinite
<1>2. n \in Nat /\ m \in Nat                     BY <1>1, FS_CardinalityType
<1>3. m > 0 => For(votes) # {}
  <2>1. Cardinality({}) = 0  BY FS_EmptySet
  <2> QED BY <2>1
<1>4. CASE rule = "unanimous"
  <2>1. Unanimous(policy, enabled, votes)  BY <1>4 DEF Converged
  <2>2. m = n /\ n > 0                     BY <2>1 DEF Unanimous
  <2> QED BY <1>2, <1>3, <2>2
<1>5. CASE rule = "strict-majority"
  <2>1. Majority(n \div 2 + 1, policy, enabled, votes)  BY <1>5 DEF Converged
  <2>2. m >= n \div 2 + 1                               BY <2>1 DEF Majority
  <2> HIDE DEF n, m
  <2>3. m > 0  BY <1>2, <2>2
  <2> QED BY <1>3, <2>3
<1>6. CASE rule = "inclusive-majority"
  <2>1. E = enabled  BY <1>6 DEF Electorate
  <2>2. n > 0
    <3>1. Cardinality(enabled) # 0  BY FS_EmptySet
    <3> QED BY <1>2, <2>1, <3>1
  <2>3. Majority((n + 1) \div 2, policy, enabled, votes)  BY <1>6 DEF Converged
  <2>4. m >= (n + 1) \div 2                               BY <2>3 DEF Majority
  <2> HIDE DEF n, m
  <2>5. m > 0  BY <1>2, <2>2, <2>4
  <2> QED BY <1>3, <2>5
<1> QED BY <1>4, <1>5, <1>6 DEF Rules

\* Two strict majorities of one panel have an approver in common, so what a
\* later round or call converges on is backed by somebody who backed the
\* first. With shrink-quorum this is not so: the panels counted may differ.
THEOREM MajoritiesMeet ==
  ASSUME NEW policy \in Policies \ {"shrink-quorum"}, NEW enabled, IsFiniteSet(enabled),
         NEW votes1, DOMAIN votes1 \subseteq enabled,
         NEW votes2, DOMAIN votes2 \subseteq enabled,
         Converged("strict-majority", policy, enabled, votes1),
         Converged("strict-majority", policy, enabled, votes2)
  PROVE  For(votes1) \cap For(votes2) # {}
<1> DEFINE n == Cardinality(enabled)
           A == For(votes1)
           B == For(votes2)
<1>1. A \subseteq enabled /\ B \subseteq enabled  BY DEF For
<1>2. IsFiniteSet(A) /\ IsFiniteSet(B) /\ IsFiniteSet(A \cup B)
  BY <1>1, FS_Subset, FS_Union
<1>3. Cardinality(A) >= n \div 2 + 1 /\ Cardinality(B) >= n \div 2 + 1
  BY DEF Converged, Majority, Electorate
<1>4. Cardinality(A \cup B) =< n
  <2>1. A \cup B \subseteq enabled  BY <1>1
  <2> QED BY <2>1, FS_Subset
<1>5. Cardinality(A \cup B) = Cardinality(A) + Cardinality(B) - Cardinality(A \cap B)
  BY <1>2, FS_Union
<1>6. /\ n \in Nat /\ Cardinality(A) \in Nat /\ Cardinality(B) \in Nat
      /\ Cardinality(A \cup B) \in Nat
  BY <1>2, FS_CardinalityType
<1>7. SUFFICES ASSUME A \cap B = {} PROVE FALSE
  OBVIOUS
<1>8. Cardinality(A \cap B) = 0  BY <1>7, FS_EmptySet
<1> HIDE DEF n, A, B
<1> QED BY <1>3, <1>4, <1>5, <1>6, <1>8
=============================================================================
