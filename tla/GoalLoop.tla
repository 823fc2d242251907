------------------------------ MODULE GoalLoop ------------------------------
(***************************************************************************)
(* loop.run_goal over an iteration: its stop rules and the state it reads  *)
(* off the files, next to reviewers, a client that calls the tools,        *)
(* people who edit and commit, and a server that may die.                  *)
(***************************************************************************)
EXTENDS PatchTools

VARIABLES
  spent    \* calls of tools, edits by hand and reviews so far

\* How a review is written: whether it counts for the gate, names its actor, and
\* went through review.write_and_seal, which stamps sealed_at_utc and packet_sha256.
Forms == [eligible : BOOLEAN, named : BOOLEAN, sealed : BOOLEAN]

ASSUME GoalAssumption ==
  /\ \A s \in Setups :
       /\ s.authorized \in BOOLEAN /\ s.repeats \in BOOLEAN
       /\ s.allowed \subseteq Files /\ s.forbidden \subseteq Files /\ s.sections \subseteq Files
       /\ s.max \in Nat /\ s.size \in Nat /\ s.calls \in Nat /\ s.edits \in Nat
       /\ s.reviews \in Nat /\ s.authored \in [Docs -> Nat] /\ s.patches \subseteq Patches
       /\ s.gates \in {"defined", "undefined"} /\ s.checks \in {None, "pass", "fail"}
       /\ s.writes \subseteq SUBSET Docs /\ s.crashes \in BOOLEAN /\ s.ledger \in BOOLEAN
       /\ s.time \in Nat /\ s.forms \subseteq Forms
  /\ {"packet", "consensus", "ledger", "outcome"} \subseteq Docs
  /\ \A p \in Patches : p.files \subseteq Files

\* What stands for nothing is no time, no family and no state of a patch.
ASSUME NoneAssumption ==
  /\ None \notin Nat
  /\ None \notin Families \cup {"codex_patch_proposed", "patch_corrected"}

vars == <<setup, files, head, docs, reviews, audit, certificate, now,
          verdicts, tool, hurt, spent>>
-----------------------------------------------------------------------------
\* _self_drive.cmd_check_stop_rules. apply_step_landed is what the tools log;
\* what is counted here is patch_applied.
Rounds == {i \in DOMAIN audit : audit[i].event = "patch_applied"}
Satisfied(w) == IF reviews[w] = None THEN None ELSE reviews[w].satisfied
Clean(w) == reviews[w] # None /\ reviews[w].satisfied /\ ~reviews[w].blocks

BudgetSpent  == Cardinality(Rounds) >= setup.max
Touched      == Changed \cap setup.forbidden
Disagreement ==
  /\ reviews["claude"] # None /\ reviews["codex"] # None
  /\ Satisfied("claude") # Satisfied("codex")
Oversized    == setup.size > 0 /\ Cardinality(Changed) > setup.size
Repeated     == setup.repeats /\ \E w \in Families : reviews[w] # None
Drifted      == reviews["claude"] # None /\ reviews["claude"].packet # docs["packet"]
Contradicted ==
  \/ setup.checks = "pass" /\ \E w \in Families : reviews[w] # None /\ ~Clean(w)
  \/ setup.checks = "fail" /\ \A w \in Families : Clean(w)
\* Nothing is said when no review follows the mutation.
Unverified ==
  LET lm == LastMutation(audit)
  IN  /\ lm # None /\ Candidates(lm) # {}
      /\ ~CheckClosure(lm, reviews[Closer(Candidates(lm))])

StopRules ==
  {fired \in {"budget", "forbidden", "disagreement", "size", "gates", "repeated", "drift",
              "validator", "closure"} :
    CASE fired = "budget"       -> BudgetSpent
      [] fired = "forbidden"    -> Touched # {}
      [] fired = "disagreement" -> Disagreement
      [] fired = "size"         -> Oversized
      [] fired = "gates"        -> setup.gates = "undefined"
      [] fired = "repeated"     -> Repeated
      [] fired = "drift"        -> Drifted
      [] fired = "validator"    -> Contradicted
      [] fired = "closure"      -> Unverified}

\* A mutant: with one approved patch none is pending.
PatchStateOfAny ==
  IF \E p \in reviews["codex"].patches : verdicts[p.id] = "approved" THEN None
  ELSE IF reviews["codex"].patches = {} THEN None ELSE "codex_patch_proposed"
\* _detect_patch_verification_state: the patches of the present codex review.
PatchState ==
  LET proposed == {verdicts[p.id] : p \in reviews["codex"].patches}
  IN  CASE proposed = {} -> None
        [] None \in proposed -> "codex_patch_proposed"
        [] None \notin proposed /\ "corrected" \in proposed -> "patch_corrected"
        [] proposed = {"approved"} -> "patch_verified"

\* _detect_state_from_files: whether it is over, what stops it, what is missing.
Blocked == {"blocked_disagreement", "blocked_closure", "blocked_stop_rule"}
Closed  == docs["outcome"] > 0
Pending ==
  CASE docs["packet"] = 0 -> "needs_implementation"
    [] docs["packet"] > 0 /\ reviews["claude"] = None -> "needs_claude_review"
    [] docs["packet"] > 0 /\ reviews["claude"] # None /\ reviews["codex"] = None ->
         "ready_for_codex"
    [] OTHER ->
         IF PatchState # None THEN PatchState
         ELSE IF docs["consensus"] > 0 /\ Clean("claude") /\ Clean("codex")
              THEN IF Unverified THEN "blocked_closure" ELSE "ready_to_close"
              ELSE "needs_consensus"
State ==
  CASE Closed -> "closed"
    [] ~Closed /\ Disagreement -> "blocked_disagreement"
    [] ~Closed /\ ~Disagreement /\ Unverified -> "blocked_closure"
    [] ~Closed /\ ~Disagreement /\ ~Unverified /\ StopRules # {} -> "blocked_stop_rule"
    [] ~Closed /\ StopRules = {} -> Pending
-----------------------------------------------------------------------------
Tools  == <<verdicts, tool, hurt>>
Tree   == <<files, head, now>>
Count(what) == spent' = [spent EXCEPT ![what] = @ + 1]

Proposals == {[id |-> p.id, number |-> p.number, files |-> p.files, base |-> Bundle(p.files)] :
                p \in setup.patches}
\* Codex numbers its findings: an id stands for one of them.
Proposable == {ps \in SUBSET Proposals : \A p, q \in ps : p.id = q.id => p = q}

\* loop.run_goal where it acts: codex is dispatched, and what it answers is
\* sealed without a created_at_utc, a family or a target; or it fails.
RunGoal ==
  /\ tool.op = "none" /\ State = "ready_for_codex" /\ spent.reviews < setup.reviews
  /\ \E satisfied \in BOOLEAN, ps \in Proposable :
       reviews' = [reviews EXCEPT !["codex"] =
                     [at |-> None, sealed |-> now, family |-> None, actor |-> None,
                      eligible |-> TRUE, target |-> None,
                      satisfied |-> satisfied, blocks |-> ~satisfied,
                      patches |-> ps, packet |-> None, saw |-> files]]
  /\ Count("reviews")
  /\ UNCHANGED <<setup, docs, audit, certificate, Tools, Tree>>

\* A review written by a person or a session of that family, of the tree as it
\* is; whoever writes again replaces.
WriteReview(w) ==
  /\ docs["packet"] > 0 /\ spent.reviews < setup.reviews
  /\ \E satisfied \in BOOLEAN, form \in setup.forms, ps \in Proposable :
       /\ w = "claude" => ps = {}
       /\ reviews' = [reviews EXCEPT ![w] =
            [at |-> now, sealed |-> IF form.sealed THEN now ELSE None,
             family |-> w, actor |-> IF form.named THEN w ELSE None, eligible |-> form.eligible,
             target |-> IF LastMutation(audit) = None THEN None
                        ELSE Bundle(LastMutation(audit).files \cap Files),
             satisfied |-> satisfied, blocks |-> ~satisfied, patches |-> ps,
             packet |-> IF w = "claude" THEN docs["packet"] ELSE None, saw |-> files]]
  /\ Count("reviews")
  /\ UNCHANGED <<setup, docs, audit, certificate, Tools, Tree>>

\* Documents of the iteration, written without a tool.
Author(d) ==
  /\ docs[d] < setup.authored[d]
  /\ docs' = [docs EXCEPT ![d] = @ + 1]
  /\ UNCHANGED <<setup, reviews, audit, certificate, spent, Tools, Tree>>

Edit(f) ==
  /\ spent.edits < setup.edits /\ Count("edits")
  /\ files' \in {[files EXCEPT ![f] = Hand(spent.edits + 1)], [files EXCEPT ![f] = head[f]]}
  /\ UNCHANGED <<setup, head, docs, reviews, audit, certificate, now, Tools>>
Commit ==
  /\ spent.edits < setup.edits /\ Count("edits") /\ head' = files
  /\ UNCHANGED <<setup, files, docs, reviews, audit, certificate, now, Tools>>
Tick ==
  /\ now < setup.time /\ now' = now + 1
  /\ UNCHANGED <<setup, files, head, docs, reviews, audit, certificate, spent, Tools>>

\* A call of a tool begins, goes on, or ends with the server.
Call ==
  /\ spent.calls < setup.calls /\ Count("calls")
  /\ \/ \E p \in setup.patches, family \in Families : ApplyCheck(p.id, family)
     \/ \E ds \in setup.writes : ConsensusPatch(ds)
     \/ setup.ledger /\ UpdateLedger
     \/ \E f \in Files : SectionRead(f)
     \/ \E p \in setup.patches, verdict \in {"approved", "corrected"} : RecordVerdict(p.id, verdict)
     \/ CloseCheck
Go == ToolStep /\ UNCHANGED spent
Crash ==
  /\ setup.crashes /\ tool.op # "none" /\ tool' = Idle
  /\ hurt' = IF tool.op = "applying" /\ tool.done # {} THEN hurt \cup {tool.patch.number} ELSE hurt
  /\ UNCHANGED <<setup, docs, reviews, audit, certificate, spent, verdicts, Tree>>

Init ==
  /\ setup \in Setups
  /\ files = [f \in Files |-> Hand(0)] /\ head = files
  /\ docs = [d \in Docs |-> 0] /\ reviews = [w \in Families |-> None]
  /\ audit = <<>> /\ certificate = None /\ now = 0
  /\ verdicts = [id \in Ids |-> None] /\ tool = Idle /\ hurt = {}
  /\ spent = [calls |-> 0, edits |-> 0, reviews |-> 0]

Next ==
  \/ RunGoal \/ (\E w \in Families : WriteReview(w))
  \/ (\E d \in Docs : Author(d))
  \/ (\E f \in Files : Edit(f)) \/ Commit \/ Tick
  \/ Call \/ Go \/ Crash

Spec == Init /\ [][Next]_vars
-----------------------------------------------------------------------------
Contents ==
  {Hand(n) : n \in 0..setup.edits} \cup {Patched(p) : p \in Patches} \cup {Section, Missing}
Trees(fs) == [fs -> Contents]

\* The variables stay in their ranges: the log holds mutations and closings.
TypeOK ==
  /\ setup \in Setups /\ now \in 0..setup.time
  /\ files \in Trees(Files) /\ head \in Trees(Files) /\ docs \in [Docs -> Nat]
  /\ verdicts \in [Ids -> {None, "approved", "corrected"}]
  /\ hurt \subseteq {p.number : p \in Patches}
  /\ \A i \in DOMAIN audit :
       /\ audit[i].event \in {"apply_step_landed", "iteration_closed"} /\ audit[i].at \in 0..now
       /\ audit[i].event = "apply_step_landed" =>
            audit[i].post = None \/ audit[i].post \in Trees(audit[i].files)

\* What a patch left in the tree is accounted for: between calls, a changed file
\* with the content of a patch is covered by an event of that patch, unless a call
\* of it died, could not be rolled back or not be logged, or a commit kept what
\* the rollback took out of the tree (apply.codex_patch).
LandedIsLogged ==
  tool.op = "none" =>
    \A p \in Patches : p.number \notin hurt =>
      \A f \in p.files \cap Changed : files[f] = Patched(p) =>
        \E i \in Applies(audit) : audit[i].patch = p.number /\ f \in audit[i].files

\* A patch lands within the scope of the goal only, also one that a later
\* review put under the id that was verified (apply.codex_patch's scope check).
ScopeHolds ==
  \A f \in Files : files[f][1] = "patch" => f \in setup.allowed \ setup.forbidden

\* A closing rests on a verdict of another family that is newer than the last
\* mutation, by someone who saw what that mutation left (check_closure_invariant).
VerdictSawMutation ==
  certificate # None =>
    LET lm == certificate.mutation
    IN  /\ certificate.verdict.family # lm.family /\ certificate.verdict.at > lm.at
        /\ \A f \in lm.files : certificate.verdict.saw[f] = lm.post[f]

\* While the mutation of a certificate is the last one, its verdict still there
\* and no other review scanned as newer, the scan finds the iteration compliant.
Standing ==
  /\ certificate # None /\ certificate.mutation = LastMutation(audit)
  /\ certificate.verdict \in {reviews[w] : w \in Families}
  /\ \A w \in Families : reviews[w] # None /\ reviews[w] # certificate.verdict =>
       Scanned(w).at < certificate.verdict.at
\* The scanner bears such a certificate out, unless the review went through
\* review.write_and_seal: it then compares the packet's hash with what the
\* mutation left, and retracts every one (scan_iteration, _load_review_yaml).
ScanAgrees == Standing => (Scan = "compliant" <=> certificate.verdict.sealed = None)

\* run_goal never comes to ready_to_close over a patch that was sent back
\* ("forbidden: corrected_resubmit -> ready_to_close", _NEXT_ACTION).
NoCloseOverCorrection ==
  reviews["codex"] # None /\ (\E p \in reviews["codex"].patches : verdicts[p.id] = "corrected")
    => State # "ready_to_close"

\* A patch replaces what its author saw, or what came while it was being
\* applied: never an older edit (apply.codex_patch's base check).
OverwritesOnlyReviewed ==
  [][\A f \in Files :
       tool.op = "applying" /\ tool'.op = "applying" /\ f \in tool'.done \ tool.done =>
         files[f] = tool.patch.base[f] \/ files[f] # tool.read[f]]_vars
=============================================================================
