--------------------------- MODULE ArchitectGoal ----------------------------
(***************************************************************************)
(* One goal of the architect-build workflow: its directory under           *)
(* .consensus/architect/, the lane worktree inside it, the main repository *)
(* around it, the processes at work on it, and what the supervisor reads   *)
(* off the files (architect.loop_step, _architect_paths).                  *)
(*                                                                         *)
(* A file that is not there is None. What a sealed artifact says is cut    *)
(* down to what the supervisor compares: specs, lane commits and main      *)
(* commits are numbered in the order they appear.                          *)
(***************************************************************************)
EXTENDS Naturals, FiniteSets

CONSTANTS
  Steps,           \* callers of loop_step
  None,            \* an absent file or field
  MaxCycles,       \* architect_loop.max_cycles
  Signatures,      \* failure signatures of the verification command
  GateOn,          \* architect_loop.verification is not empty
  Siblings,        \* other goals go on under the same architect root
  WallClock,       \* architect_loop.max_wall_clock_minutes is not zero
  ReviewerCross,   \* the reviewer's family differs from the builder's
  ArchitectCross,  \* the architect's family differs from the builder's
  MaxSpecs,        \* bound: specs the architect ever seals
  MaxHeads,        \* bound: commits ever made in the lane
  MaxMain,         \* bound: commits ever made in the main repository
  Corruptible,     \* kinds of artifact that get edited after sealing
  MaxCorrupt       \* bound: artifacts in that state at a time

CycleKinds == {"build", "verification", "review", "ruling"}
GoalKinds  == {"spec", "approval", "outcome", "integrity", "baseline"}

ASSUME ConstantsAssumption ==
  /\ Steps # {} /\ None \notin Steps
  /\ MaxCycles \in Nat \ {0}
  /\ {GateOn, Siblings, WallClock, ReviewerCross, ArchitectCross} \subseteq BOOLEAN
  /\ MaxSpecs \in Nat \ {0} /\ MaxHeads \in Nat /\ MaxMain \in Nat
  /\ MaxCorrupt \in Nat
  /\ Corruptible \subseteq CycleKinds \cup GoalKinds

\* cfg._validate_architect_build: one of the two signers is cross-family.
ASSUME FamilyFloor == ReviewerCross \/ ArchitectCross

VARIABLES
  \* files of the goal directory
  spec,            \* number of the latest sealed spec, 0 before the first
  approval,        \* spec-approval.yaml: the spec and base it binds
  lock,            \* dispatch-in-flight.yaml: the step that created it
  breach,          \* containment-breach.yaml is there
  outcome,         \* outcome.yaml: its closing_state
  handoff,         \* HANDOFF.md: spec it names, newer than the spec file?
  integrity,       \* integrity-before.yaml: does main still match it?
  baseline,        \* architect-tree-baseline.yaml: places changed since it
  build, verification, review, ruling,  \* the files of the cycle-N dirs
  corrupt,         \* sealed artifacts whose payload_sha256 is now wrong
  \* repositories
  laneBase,        \* main commit the lane was branched from
  laneHead,        \* HEAD of the lane
  laneState,       \* working tree of the lane: clean, dirty or bad links
  mainHead,        \* HEAD of the main repository
  \* processes
  pc, job, drift,  \* a step: where it is, what it holds, what moved
  resp,            \* a step: its last answer, until somebody acts on it
  approver,        \* the running approve_spec call
  overtime,        \* the wall clock budget of this approval is used up
  approved         \* history: specs a human ever approved

goalVars  == <<spec, approval, lock, breach, outcome, handoff, integrity,
               baseline, corrupt>>
cycleVars == <<build, verification, review, ruling>>
laneVars  == <<laneBase, laneHead, laneState>>
stepVars  == <<pc, job, drift, resp>>
humanVars == <<approver, overtime, approved>>
\* Everything but the steps themselves.
world     == <<goalVars, cycleVars, laneVars, mainHead, humanVars>>
vars      == <<world, stepVars>>
-----------------------------------------------------------------------------
(***************************************************************************)
(* Types.                                                                  *)
(***************************************************************************)
Cycles       == 1 .. MaxCycles
Specs        == 0 .. MaxSpecs
Heads        == 0 .. MaxHeads
Commits      == 0 .. MaxMain
Dispositions == {"accept", "revise", "overrule", "kill"}
Asks         == {"needs_spec", "pushback_raised", "needs_review",
                 "needs_ruling", "signer_invariant_violated",
                 "awaiting_delivery_approval"}
\* Answers that ask nothing of anybody in the model are not told apart.
States       == Asks \cup {"other"}

Approvals    == [spec : Specs, base : Commits]
BuildResults == [head : Heads, pushback : BOOLEAN]
\* The command's output names no commit: head is the lane HEAD it ran on.
Records      == [passed : BOOLEAN, signature : Signatures, head : Heads]
Reviews      == [head : Heads, fresh : BOOLEAN]
Rulings      == [disposition : Dispositions, head : Heads \cup {None},
                 fresh : BOOLEAN]
\* A file that is there is told from one that is not.
ASSUME NoneAssumption ==
  None \notin Approvals \cup BuildResults \cup Records \cup Reviews \cup Rulings

Jobs         == [cycle : Cycles \cup {None}, approval : Approvals \cup {None},
                 pushback : BOOLEAN, head : Heads \cup {None},
                 read : Specs, next : States]
Answers      == [state : States, cycle : Cycles \cup {None},
                 head : Heads \cup {None}]
Locations    == {"idle", "build", "building", "commit", "check", "seal",
                 "verify", "verifying", "red", "gated", "handoff"}
\* A step holds the in-flight lock here ...
Locked       == {"building", "verifying", "red", "gated"}
\* ... and has a snapshot of the architect tree to compare with here.
Brackets     == {"building", "verifying"}

NoJob    == [cycle |-> None, approval |-> None, pushback |-> FALSE,
             head |-> None, read |-> 0, next |-> "other"]
NoAnswer == [state |-> "other", cycle |-> None, head |-> None]

GoalTypeOK ==
  /\ spec \in Specs
  /\ approval \in Approvals \cup {None}
  /\ lock \in Steps \cup {None}
  /\ breach \in BOOLEAN
  /\ outcome \in {None, "killed", "delivered"}
  /\ handoff \in [spec : Specs, newer : BOOLEAN] \cup {None}
  /\ integrity \in {None, "clean", "dirty"}
  /\ baseline \in (SUBSET (0 .. MaxCycles)) \cup {None}
  /\ corrupt \subseteq (CycleKinds \cup GoalKinds) \X (0 .. MaxCycles)

CycleTypeOK ==
  /\ build \in [Cycles -> BuildResults \cup {None}]
  /\ verification \in [Cycles -> Records \cup {None}]
  /\ review \in [Cycles -> Reviews \cup {None}]
  /\ ruling \in [Cycles -> Rulings \cup {None}]

LaneTypeOK ==
  /\ laneBase \in Commits \cup {None}
  /\ laneHead \in Heads
  /\ laneState \in {"clean", "dirty", "bad"}
  /\ mainHead \in Commits

StepTypeOK ==
  /\ pc \in [Steps -> Locations]
  /\ job \in [Steps -> Jobs]
  /\ drift \in [Steps -> SUBSET {"tree", "main"}]
  /\ resp \in [Steps -> Answers]

HumanTypeOK ==
  /\ approver \in [pc : {"idle", "checked", "archived"}, spec : Specs,
                   base : Commits \cup {None}]
  /\ overtime \in BOOLEAN
  /\ approved \subseteq Specs

TypeOK == /\ GoalTypeOK /\ CycleTypeOK /\ LaneTypeOK /\ StepTypeOK
          /\ HumanTypeOK
-----------------------------------------------------------------------------
(***************************************************************************)
(* What the supervisor reads off the files.                                *)
(***************************************************************************)
Intact(kind, n) == <<kind, n>> \notin corrupt

\* _architect_paths.current_cycle: the newest cycle directory, or the one
\* after it when its ruling closed it. The seal of that ruling is not looked at.
HasDir(c) == \/ build[c] # None \/ verification[c] # None
             \/ review[c] # None \/ ruling[c] # None
Closed(c) == ruling[c] # None /\ ruling[c].disposition \in {"revise", "overrule"}
IsCurrent(c) ==
  /\ \A d \in Cycles : d > c => ~HasDir(d)
  /\ c \in Cycles => ~(HasDir(c) /\ Closed(c))
  /\ \/ c \in Cycles /\ HasDir(c)
     \/ c = 1
     \/ c - 1 \in Cycles /\ HasDir(c - 1) /\ Closed(c - 1)

\* _check_stop_rules. A stale lock (stale_dispatch_in_flight) stops a call
\* just as a fresh one does, in Route.
SameRed(sig, c) == /\ verification[c] # None
                   /\ ~verification[c].passed /\ verification[c].signature = sig
\* Faulty: the open cycle is counted among the last three.
RepeatedRedOpen(c) == \E sig \in Signatures :
                        c > 3 /\ \A d \in (c - 2) .. c : d \in Cycles /\ SameRed(sig, d)
RepeatedRed(c) == \E sig \in Signatures :
                    c > 3 /\ \A d \in (c - 3) .. (c - 1) : SameRed(sig, d)
HandoffDrift   == handoff # None /\ handoff.newer /\ handoff.spec # spec
StopRules(c)   == \/ c > MaxCycles
                  \/ breach
                  \/ RepeatedRed(c)
                  \/ WallClock /\ overtime
                  \/ HandoffDrift

\* Faulty: any approval will do.
BoundToAny == approval # None /\ Intact("approval", 0)
\* _binding_stop after the seal check: the approval is of the latest spec.
Bound == /\ approval # None /\ Intact("approval", 0)
         /\ approval.spec = spec

\* Faulty: the ruling is only read.
SpecIntact(c) == Intact("spec", 0)
\* What _run_build verifies again, and of the ruling before, at point of use.
BuildInputsIntact(c) == Intact("spec", 0) /\ (c > 1 => Intact("ruling", c - 1))

\* _signer_violations is empty.
SignerOk(c) ==
  LET signer == IF ReviewerCross THEN review[c] ELSE ruling[c]
  IN  /\ ReviewerCross \/ ArchitectCross
      /\ review[c] # None
      /\ \A a \in {review[c], signer} : a.head = build[c].head /\ a.fresh

\* The rechecks of the accept transition: main against integrity-before.yaml,
\* the lane against the build, the architect tree against the baseline with
\* nothing but the current cycle's artifacts exempt.
RecheckOk(c) ==
  /\ integrity = "clean" /\ Intact("integrity", 0)
  /\ laneState # "bad" /\ laneHead = build[c].head
  /\ baseline # None /\ Intact("baseline", 0) /\ baseline \subseteq {c}

RulingRoute(c) ==
  LET accepted == ruling[c].disposition = "accept" /\ ~build[c].pushback
  IN  IF ruling[c].disposition = "kill" THEN "killed"
      ELSE IF accepted /\ ~SignerOk(c) THEN "signer_invariant_violated"
      ELSE IF accepted /\ RecheckOk(c) THEN "awaiting_delivery_approval"
      ELSE "other"

\* Faulty: only the first build has to pass.
NeedsGateOnce(c) == GateOn /\ c = 1 /\ ~build[c].pushback
\* A pushback is a refusal, not work: there is nothing to verify.
NeedsGate(c)  == GateOn /\ ~build[c].pushback
\* Faulty: the file verification.yaml is enough to go on.
RedPendingNever(c) == FALSE
\* The RED verification was sealed, the mechanical revise was not.
RedPending(c) == NeedsGate(c) /\ ~verification[c].passed /\ ruling[c] = None

CycleRoute(c) ==
  IF ~Intact("build", c) \/ ~Intact("ruling", c) THEN "other"
  ELSE IF build[c] = None
       THEN IF BuildInputsIntact(c) THEN "needs_build" ELSE "other"
  ELSE IF build[c].pushback /\ ruling[c] = None THEN "pushback_raised"
  ELSE IF ~Intact("verification", c) THEN "other"
  ELSE IF NeedsGate(c) /\ verification[c] = None THEN "needs_verification"
  ELSE IF RedPending(c) THEN "verification_red"
  ELSE IF ~Intact("review", c) THEN "other"
  ELSE IF ruling[c] # None THEN RulingRoute(c)
  ELSE IF review[c] = None THEN "needs_review" ELSE "needs_ruling"

\* The cascade of handle(); "other" where it reports and does nothing more.
Route(c) ==
  IF outcome # None \/ StopRules(c) \/ lock # None THEN "other"
  ELSE IF spec = 0 THEN "needs_spec"
  ELSE IF Bound /\ mainHead = approval.base THEN CycleRoute(c) ELSE "other"

\* derive_goal_public_state: the same cascade for presentation, without git,
\* without the stop rules but the breach, and with its own order of checks.
\* "other" stands for what Route has no name for; configured is the argument
\* verification_configured.
PublicCycle(c, configured) ==
  IF build[c] = None THEN "needs_build"
  ELSE IF build[c].pushback /\ ruling[c] = None THEN "pushback_raised"
  ELSE IF configured /\ ~build[c].pushback /\ verification[c] = None
       THEN "needs_verification"
  ELSE IF verification[c] # None /\ ~verification[c].passed /\ ruling[c] = None
       THEN "verification_red"
  ELSE IF ruling[c] = None
       THEN IF review[c] = None THEN "needs_review" ELSE "needs_ruling"
  ELSE IF ruling[c].disposition = "accept" THEN "awaiting_delivery_approval"
  ELSE "needs_ruling"

PublicState(c, configured) ==
  IF outcome # None \/ breach THEN "other"
  ELSE IF spec = 0 THEN "needs_spec"
  ELSE IF ~Bound \/ lock # None THEN "other"
  ELSE IF c \in Cycles THEN PublicCycle(c, configured) ELSE "needs_build"

\* handle(), up to where it acts: caller s finds the goal in state st.
Routed(s, c, st) == pc[s] = "idle" /\ IsCurrent(c) /\ Route(c) = st
-----------------------------------------------------------------------------
(***************************************************************************)
(* Who notices a write. A write under .consensus/architect outside the     *)
(* lane is seen by every snapshot of the tree that is open, and by the     *)
(* recheck of the baseline unless its place is exempt; a change of the     *)
(* main repository by every open snapshot of main.                         *)
(***************************************************************************)
Noticed(s, what, where) ==
  [t \in Steps |-> IF t # s /\ pc[t] \in where THEN drift[t] \cup {what}
                   ELSE drift[t]]
TreeTouched(s) == Noticed(s, "tree", Brackets)
MainTouched    == Noticed(None, "main", Brackets \cup {"commit", "check"})
\* A commit in the lane is a change of main to a verification: no exemption.
LaneTouched(s) == Noticed(s, "main", {"verifying"})
BaselineAfter(n) == IF baseline = None THEN None ELSE baseline \cup {n}

Sealed(kind, n) == corrupt' = corrupt \ {<<kind, n>>}
Goto(s, loc)    == pc' = [pc EXCEPT ![s] = loc]
Return(s, a)    == /\ Goto(s, "idle")
                   /\ job' = [job EXCEPT ![s] = NoJob]
                   /\ resp' = [resp EXCEPT ![s] = a]
Forget(s)       == drift' = [drift EXCEPT ![s] = {}]
\* seal_artifact of containment-breach.yaml, the end of the call.
Breach(s) == /\ breach' = TRUE
             /\ drift' = [TreeTouched(s) EXCEPT ![s] = {}]
             /\ Return(s, NoAnswer)
=============================================================================
