---------------------------- MODULE Convergence -----------------------------
(***************************************************************************)
(* How a panel's votes make a verdict: WorkflowEngine._evaluate_convergence *)
(* as operators. `votes' maps the contributors that answered to what they   *)
(* voted; `enabled' are the contributors that were expected to.             *)
(***************************************************************************)
EXTENDS Integers, FiniteSets

Rules    == {"unanimous", "strict-majority", "inclusive-majority", "advisory"}
Policies == {"treat-as-no-vote", "treat-as-blocking", "shrink-quorum"}
\* goal_satisfied with nothing in blocking_objections; not satisfied, and
\* nothing there either; something there, whatever goal_satisfied says.
Votes == {"approve", "soft-no", "objection"}

For(votes)       == {c \in DOMAIN votes : votes[c] = "approve"}
Objectors(votes) == {c \in DOMAIN votes : votes[c] = "objection"}
TimedOut(enabled, votes) == enabled \ DOMAIN votes

TimeoutIgnored(policy, enabled, votes) == {}
\* The votes that count as timed out, which a majority cannot overrule.
TimeoutBlock(policy, enabled, votes) ==
  IF policy = "treat-as-blocking" THEN TimedOut(enabled, votes) ELSE {}
\* Whose approval the rule counts against.
Electorate(policy, enabled, votes) ==
  IF policy = "shrink-quorum" THEN DOMAIN votes ELSE enabled

\* The rule `unanimous': nobody is against, everybody counted is for.
Unanimous(policy, enabled, votes) ==
  LET n == Cardinality(Electorate(policy, enabled, votes))
  IN  /\ (DOMAIN votes \ For(votes)) \cup TimeoutBlock(policy, enabled, votes) = {}
      /\ Cardinality(For(votes)) = n
      /\ n > 0
\* The majority rules: a soft no is only a missing approval.
Majority(threshold, policy, enabled, votes) ==
  /\ Cardinality(For(votes)) >= threshold
  /\ Objectors(votes) = {}
  /\ TimeoutBlock(policy, enabled, votes) = {}

Converged(rule, policy, enabled, votes) ==
  LET n == Cardinality(Electorate(policy, enabled, votes))
  IN  \/ rule = "unanimous" /\ Unanimous(policy, enabled, votes)
      \/ rule = "strict-majority" /\ Majority(n \div 2 + 1, policy, enabled, votes)
      \/ rule = "inclusive-majority" /\ Majority((n + 1) \div 2, policy, enabled, votes)
      \/ rule = "advisory"
=============================================================================
