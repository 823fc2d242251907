----------------------------- MODULE GoalActors -----------------------------
(***************************************************************************)
(* Everybody but the supervisor who writes in a goal: the architect and    *)
(* reviewer a host calls on, the human at the spec gate and at cleanup     *)
(* (architect_gates), the operator and the rest of the repository.         *)
(***************************************************************************)
EXTENDS ArchitectGoal
-----------------------------------------------------------------------------
(***************************************************************************)
(* The models and people an answer calls on. They act on the answer they   *)
(* got, whatever has changed since.                                        *)
(***************************************************************************)
Answered(s, asks) == resp[s].state \in asks /\ resp' = [resp EXCEPT ![s] = NoAnswer]

\* The spec file changes, so a HANDOFF.md written before is not newer.
SpecSealed ==
  /\ spec < MaxSpecs /\ spec' = spec + 1
  /\ Sealed("spec", 0)
  /\ handoff' = IF handoff = None THEN None ELSE [handoff EXCEPT !.newer = FALSE]
  /\ baseline' = BaselineAfter(0)
  /\ drift' = TreeTouched(None)
  /\ UNCHANGED <<approval, lock, breach, outcome, integrity, cycleVars,
                 laneVars, mainHead, humanVars, pc, job>>

SealSpec(s) == Answered(s, {"needs_spec"}) /\ SpecSealed
\* spec-rev-N.yaml, which the architect may seal at any time.
SealSpecRev == spec # 0 /\ SpecSealed /\ UNCHANGED resp

\* A reviewer or architect binds the lane commit the answer was about or the
\* one that is there now.
SealReview(s) ==
  LET c == resp[s].cycle
  IN  /\ Answered(s, {"needs_review", "signer_invariant_violated"})
      /\ \E h \in {resp[s].head, laneHead} :
           review' = [review EXCEPT ![c] = [head |-> h, fresh |-> TRUE]]
      /\ Sealed("review", c)
      /\ baseline' = BaselineAfter(c)
      /\ drift' = TreeTouched(None)
      /\ UNCHANGED <<spec, approval, lock, breach, outcome, handoff,
                     integrity, build, verification, ruling, laneVars,
                     mainHead, humanVars, pc, job>>

SealRuling(s) ==
  LET c == resp[s].cycle
      choices == CASE resp[s].state = "pushback_raised" -> Dispositions
                   [] resp[s].state = "needs_ruling" -> Dispositions \ {"overrule"}
                   [] OTHER -> {"accept"}
  IN  /\ Answered(s, {"pushback_raised", "needs_ruling", "signer_invariant_violated"})
      /\ \E d \in choices, h \in {resp[s].head, laneHead} :
           ruling' = [ruling EXCEPT ![c] = [disposition |-> d, head |-> h, fresh |-> TRUE]]
      /\ Sealed("ruling", c)
      /\ baseline' = BaselineAfter(c)
      /\ drift' = TreeTouched(None)
      /\ UNCHANGED <<spec, approval, lock, breach, outcome, handoff,
                     integrity, build, verification, review, laneVars,
                     mainHead, humanVars, pc, job>>

\* The human has merged the delivery and seals outcome.yaml.
SealDelivered(s) ==
  /\ Answered(s, {"awaiting_delivery_approval"})
  /\ outcome = None /\ outcome' = "delivered" /\ Sealed("outcome", 0)
  /\ baseline' = BaselineAfter(0)
  /\ drift' = TreeTouched(None)
  /\ UNCHANGED <<spec, approval, lock, breach, handoff, integrity, cycleVars,
                 laneVars, mainHead, humanVars, pc, job>>

Host(s) == SealSpec(s) \/ SealReview(s) \/ SealRuling(s) \/ SealDelivered(s)
-----------------------------------------------------------------------------
(***************************************************************************)
(* approve_spec and cleanup, run by a human.                               *)
(***************************************************************************)
\* Up to the first write: an approval of another spec is to be archived.
ApproveCheck ==
  /\ approver.pc = "idle" /\ spec # 0 /\ Intact("spec", 0) /\ lock = None
  /\ \/ /\ approval = None
        /\ approver' = [pc |-> "archived", spec |-> spec, base |-> None]
     \/ /\ approval # None /\ Intact("approval", 0) /\ approval.spec # spec
        /\ approver' = [pc |-> "checked", spec |-> spec, base |-> approval.base]
  /\ UNCHANGED <<goalVars, cycleVars, laneVars, mainHead, overtime, approved,
                 stepVars>>

ApproveArchive ==
  /\ approver.pc = "checked"
  /\ approval' = None /\ Sealed("approval", 0)
  /\ baseline' = BaselineAfter(0)
  /\ drift' = TreeTouched(None)
  /\ approver' = [approver EXCEPT !.pc = "archived"]
  /\ UNCHANGED <<spec, lock, breach, outcome, handoff, integrity, cycleVars,
                 laneVars, mainHead, overtime, approved, pc, job, resp>>

\* Faulty: no fallback to HEAD when there is no approval to carry from.
CarriedBaseOnly == approver.base
CarriedBase == IF approver.base # None /\ laneBase # None THEN approver.base
               ELSE mainHead

ApproveSeal ==
  /\ approver.pc = "archived"
  /\ approval' = [spec |-> approver.spec, base |-> CarriedBase]
  /\ Sealed("approval", 0)
  /\ approved' = approved \cup {approver.spec}
  /\ overtime' = FALSE
  /\ baseline' = BaselineAfter(0)
  /\ drift' = TreeTouched(None)
  /\ approver' = [pc |-> "idle", spec |-> 0, base |-> None]
  /\ UNCHANGED <<spec, lock, breach, outcome, handoff, integrity, cycleVars,
                 laneVars, mainHead, pc, job, resp>>

ApproveCrash ==
  /\ approver.pc # "idle"
  /\ approver' = [pc |-> "idle", spec |-> 0, base |-> None]
  /\ UNCHANGED <<goalVars, cycleVars, laneVars, mainHead, overtime, approved,
                 stepVars>>

\* remove_lane: worktree and branch; nothing else of the goal is touched.
Cleanup ==
  /\ outcome = "delivered" /\ Intact("outcome", 0) /\ laneBase # None
  /\ laneBase' = None /\ laneState' = "clean"
  /\ UNCHANGED <<goalVars, cycleVars, laneHead, mainHead, humanVars,
                 stepVars>>

Approver == ApproveCheck \/ ApproveArchive \/ ApproveSeal
-----------------------------------------------------------------------------
(***************************************************************************)
(* The operator and the rest of the repository.                            *)
(***************************************************************************)
\* A lock outlives the longest call before it is stale, and nobody removes
\* the lock of a call that runs.
RemoveStaleLock ==
  /\ lock # None /\ pc[lock] \notin Locked
  /\ lock' = None
  /\ UNCHANGED <<spec, approval, breach, outcome, handoff, integrity,
                 baseline, corrupt, cycleVars, laneVars, mainHead, humanVars,
                 stepVars>>

\* The record is deleted once the breach has been looked into.
ClearBreach ==
  /\ breach /\ breach' = FALSE
  /\ drift' = TreeTouched(None)
  /\ UNCHANGED <<spec, approval, lock, outcome, handoff, integrity, baseline,
                 corrupt, cycleVars, laneVars, mainHead, humanVars, pc, job,
                 resp>>

MainChanges ==
  /\ mainHead < MaxMain /\ mainHead' \in {mainHead, mainHead + 1}
  /\ integrity' = IF integrity = None THEN None ELSE "dirty"
  /\ drift' = MainTouched
  /\ UNCHANGED <<spec, approval, lock, breach, outcome, handoff, baseline,
                 corrupt, cycleVars, laneVars, humanVars, pc, job, resp>>

\* Another goal under .consensus/architect goes on.
SiblingChanges ==
  /\ Siblings
  /\ baseline' = BaselineAfter(0)
  /\ drift' = TreeTouched(None)
  /\ UNCHANGED <<spec, approval, lock, breach, outcome, handoff, integrity,
                 corrupt, cycleVars, laneVars, mainHead, humanVars, pc, job,
                 resp>>

Overtime ==
  /\ WallClock /\ approval # None /\ overtime' = TRUE
  /\ UNCHANGED <<goalVars, cycleVars, laneVars, mainHead, approver, approved,
                 stepVars>>

\* A sealed artifact is edited, and its payload_sha256 no longer reproduces.
Exists(kind, n) ==
  CASE kind = "spec" -> n = 0 /\ spec # 0
    [] kind = "approval" -> n = 0 /\ approval # None
    [] kind = "outcome" -> n = 0 /\ outcome # None
    [] kind = "integrity" -> n = 0 /\ integrity # None
    [] kind = "baseline" -> n = 0 /\ baseline # None
    [] kind = "build" -> n # 0 /\ build[n] # None
    [] kind = "verification" -> n # 0 /\ verification[n] # None
    [] kind = "review" -> n # 0 /\ review[n] # None
    [] kind = "ruling" -> n # 0 /\ ruling[n] # None

Corrupt(kind, n) ==
  /\ kind \in Corruptible /\ Exists(kind, n)
  /\ Cardinality(corrupt) < MaxCorrupt
  /\ corrupt' = corrupt \cup {<<kind, n>>}
  /\ IF kind = "ruling"
     THEN \E d \in Dispositions : ruling' = [ruling EXCEPT ![n].disposition = d]
     ELSE UNCHANGED ruling
  /\ baseline' = IF kind = "baseline" THEN baseline ELSE BaselineAfter(n)
  /\ drift' = TreeTouched(None)
  /\ UNCHANGED <<spec, approval, lock, breach, outcome, handoff, integrity,
                 build, verification, review, laneVars, mainHead, humanVars,
                 pc, job, resp>>

Environment ==
  \/ RemoveStaleLock \/ ClearBreach \/ MainChanges \/ SiblingChanges \/ Overtime
  \/ \E kind \in CycleKinds \cup GoalKinds, n \in 0 .. MaxCycles : Corrupt(kind, n)
=============================================================================
