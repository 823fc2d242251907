------------------------------ MODULE LoopStep ------------------------------
(***************************************************************************)
(* The supervisor: the calls of architect.loop_step (handle) on one goal.  *)
(* Each call derives the state of the goal from the files, advances it by  *)
(* one step and answers the host with what to do next. A call reads what   *)
(* it routes on in one step; its waits (for the lock, the builder, the     *)
(* verification command) and the writes that follow are steps of their own.*)
(***************************************************************************)
EXTENDS ArchitectGoal
-----------------------------------------------------------------------------
(***************************************************************************)
(* loop_step: answers that change no file.                                 *)
(***************************************************************************)
Ask(s) ==
  \E c \in Cycles, st \in Asks \ {"awaiting_delivery_approval"} :
    /\ Routed(s, c, st)
    /\ resp' = [resp EXCEPT ![s] = [state |-> st, cycle |-> c, head |-> laneHead]]
    /\ UNCHANGED <<world, pc, job, drift>>

\* Also what a call with auto_dispatch = FALSE answers when a build is due.
Report(s) ==
  /\ \E c \in 1 .. MaxCycles + 1, st \in {"other", "needs_build"} : Routed(s, c, st)
  /\ resp' = [resp EXCEPT ![s] = NoAnswer]
  /\ UNCHANGED <<world, pc, job, drift>>
-----------------------------------------------------------------------------
(***************************************************************************)
(* loop_step: the builder dispatch, _run_build.                            *)
(***************************************************************************)
StartBuild(s) ==
  \E c \in Cycles :
    /\ Routed(s, c, "needs_build")
    /\ Goto(s, "build")
    /\ job' = [job EXCEPT ![s] = [NoJob EXCEPT !.cycle = c, !.approval = approval,
                                                !.read = spec]]
    /\ UNCHANGED <<world, drift, resp>>

\* Faulty: the lock file is written as seal_artifact writes, over any other.
LockClobbered == TRUE
\* acquire_lock_artifact: O_EXCL, so only one of two concurrent calls wins.
LockFree == lock = None

\* The lane is created or found again (create_lane) and main is recorded
\* before the snapshot of the tree; what was routed on is not read again.
LockBuild(s) ==
  /\ pc[s] = "build" /\ LockFree /\ laneState # "bad"
  /\ lock' = s
  /\ laneBase' = IF laneBase = None THEN job[s].approval.base ELSE laneBase
  /\ integrity' = "clean" /\ Sealed("integrity", 0)
  /\ baseline' = BaselineAfter(0)
  /\ drift' = [TreeTouched(s) EXCEPT ![s] = {}]
  /\ Goto(s, "building")
  /\ UNCHANGED <<spec, approval, breach, outcome, handoff, cycleVars,
                 laneHead, laneState, mainHead, humanVars, job, resp>>

\* Somebody holds the lock, or the lane is not one git may be run in.
LockBuildFails(s) ==
  /\ pc[s] = "build" /\ (~LockFree \/ laneState = "bad")
  /\ Return(s, NoAnswer)
  /\ UNCHANGED <<world, drift>>

\* The builder edits files of the lane, for better or worse.
BuilderWrites(s) ==
  /\ pc[s] = "building" /\ laneHead < MaxHeads /\ laneBase # None
  /\ laneState' \in {"dirty", "bad"}
  /\ UNCHANGED <<goalVars, cycleVars, laneBase, laneHead, mainHead, humanVars,
                 stepVars>>

\* The lock is gone before the lane is scanned, committed and sealed.
BuilderReturns(s) ==
  /\ pc[s] = "building" /\ "tree" \notin drift[s]
  /\ lock' = None
  /\ Goto(s, "commit")
  /\ \E p \in BOOLEAN : job' = [job EXCEPT ![s].pushback = p]
  /\ UNCHANGED <<spec, approval, breach, outcome, handoff, integrity,
                 baseline, corrupt, cycleVars, laneVars, mainHead, humanVars,
                 drift, resp>>

\* Faulty: the exception leaves the call before the lock is unlinked.
BuilderFailsHolding(s) ==
  /\ pc[s] = "building" /\ "tree" \notin drift[s]
  /\ Return(s, NoAnswer) /\ Forget(s)
  /\ UNCHANGED world

\* BuilderDispatchError: a timeout, a bad exit, output that does not parse.
BuilderFails(s) ==
  /\ pc[s] = "building" /\ "tree" \notin drift[s]
  /\ lock' = None
  /\ Return(s, NoAnswer) /\ Forget(s)
  /\ UNCHANGED <<spec, approval, breach, outcome, handoff, integrity,
                 baseline, corrupt, cycleVars, laneVars, mainHead, humanVars>>

\* Either way, when the tree moved under the builder.
BuildBreach(s) ==
  /\ pc[s] = "building" /\ "tree" \in drift[s]
  /\ lock' = None /\ Breach(s)
  /\ UNCHANGED <<spec, approval, outcome, handoff, integrity, baseline,
                 corrupt, cycleVars, laneVars, mainHead, humanVars>>

\* scan_lane_integrity finds nothing, commit_lane commits what there is.
CommitLane(s) ==
  /\ pc[s] = "commit" /\ laneBase # None /\ laneState # "bad"
  /\ laneHead' = IF laneState = "dirty" THEN laneHead + 1 ELSE laneHead
  /\ laneState' = "clean"
  /\ drift' = IF laneState = "dirty" THEN LaneTouched(s) ELSE drift
  /\ Goto(s, "check")
  /\ job' = [job EXCEPT ![s].head = laneHead']
  /\ UNCHANGED <<goalVars, cycleVars, laneBase, mainHead, humanVars, resp>>

ScanBreach(s) ==
  /\ pc[s] = "commit" /\ (laneBase = None \/ laneState = "bad")
  /\ Breach(s)
  /\ UNCHANGED <<spec, approval, lock, outcome, handoff, integrity, baseline,
                 corrupt, cycleVars, laneVars, mainHead, humanVars>>

MainUnchanged(s) ==
  /\ pc[s] = "check" /\ "main" \notin drift[s]
  /\ Goto(s, "seal") /\ Forget(s)
  /\ UNCHANGED <<world, job, resp>>

MainBreach(s) ==
  /\ pc[s] = "check" /\ "main" \in drift[s]
  /\ Breach(s)
  /\ UNCHANGED <<spec, approval, lock, outcome, handoff, integrity, baseline,
                 corrupt, cycleVars, laneVars, mainHead, humanVars>>

\* A review or ruling of the build this one replaces stays fresh only if it
\* was sealed in the same second.
Aged(a, tie) == IF a = None THEN None ELSE [a EXCEPT !.fresh = @ /\ tie]

SealBuild(s) ==
  LET c == job[s].cycle
  IN  /\ pc[s] = "seal"
      /\ build' = [build EXCEPT ![c] = [head |-> job[s].head,
                                       pushback |-> job[s].pushback]]
      /\ \E tie \in BOOLEAN :
           /\ review' = [review EXCEPT ![c] = Aged(@, tie)]
           /\ ruling' = [ruling EXCEPT ![c] = Aged(@, tie)]
      /\ baseline' = {c}
      /\ corrupt' = corrupt \ {<<"build", c>>, <<"baseline", 0>>}
      /\ drift' = TreeTouched(s)
      /\ Goto(s, "handoff")
      /\ job' = [job EXCEPT ![s].read = spec]
      /\ UNCHANGED <<spec, approval, lock, breach, outcome, handoff,
                     integrity, verification, laneVars, mainHead, humanVars,
                     resp>>
-----------------------------------------------------------------------------
(***************************************************************************)
(* loop_step: the frozen gate, _run_verification.                          *)
(***************************************************************************)
StartVerification(s) ==
  \E c \in Cycles :
    /\ Routed(s, c, "needs_verification")
    /\ Goto(s, "verify")
    /\ job' = [job EXCEPT ![s] = [NoJob EXCEPT !.cycle = c]]
    /\ UNCHANGED <<world, drift, resp>>

LockVerification(s) ==
  /\ pc[s] = "verify" /\ LockFree
  /\ lock' = s
  /\ drift' = [drift EXCEPT ![s] = {}]
  /\ Goto(s, "verifying")
  /\ job' = [job EXCEPT ![s].head = laneHead]
  /\ UNCHANGED <<spec, approval, breach, outcome, handoff, integrity,
                 baseline, corrupt, cycleVars, laneVars, mainHead, humanVars,
                 resp>>

LockVerificationFails(s) ==
  /\ pc[s] = "verify" /\ ~LockFree
  /\ Return(s, NoAnswer)
  /\ UNCHANGED <<world, drift>>

\* The command, ended or killed with its process tree, may have left files in
\* the lane, which only exists until a cleanup.
LaneAfterCommand ==
  IF laneBase # None /\ laneHead < MaxHeads THEN {laneState, "dirty"} ELSE {laneState}

SealVerification(s) ==
  LET c == job[s].cycle
  IN  /\ pc[s] = "verifying" /\ drift[s] = {}
      /\ \E passed \in BOOLEAN, sig \in Signatures :
           /\ verification' = [verification EXCEPT
                ![c] = [passed |-> passed, signature |-> sig, head |-> job[s].head]]
           /\ Goto(s, IF passed THEN "gated" ELSE "red")
           /\ job' = [job EXCEPT ![s].read = spec,
                                 ![s].next = IF passed THEN "needs_review" ELSE "other"]
      /\ laneState' \in LaneAfterCommand
      /\ baseline' = {c}
      /\ corrupt' = corrupt \ {<<"verification", c>>, <<"baseline", 0>>}
      /\ UNCHANGED <<spec, approval, lock, breach, outcome, handoff,
                     integrity, build, review, ruling, laneBase, laneHead,
                     mainHead, humanVars, drift, resp>>

\* The tree or main moved while the command ran.
VerificationBreach(s) ==
  /\ pc[s] = "verifying" /\ drift[s] # {}
  /\ lock' = None /\ Breach(s)
  /\ laneState' \in LaneAfterCommand
  /\ UNCHANGED <<spec, approval, outcome, handoff, integrity, baseline,
                 corrupt, cycleVars, laneBase, laneHead, mainHead, humanVars>>

MechanicalRevise == [disposition |-> "revise", head |-> None, fresh |-> TRUE]

\* _seal_mechanical_revise, in the call that found the build RED ...
SealRevise(s) ==
  LET c == job[s].cycle
  IN  /\ pc[s] = "red"
      /\ ruling' = [ruling EXCEPT ![c] = MechanicalRevise]
      /\ Sealed("ruling", c)
      /\ drift' = TreeTouched(s)
      /\ baseline' = BaselineAfter(c)
      /\ Goto(s, "gated")
      /\ job' = [job EXCEPT ![s].read = spec]
      /\ UNCHANGED <<spec, approval, lock, breach, outcome, handoff,
                     integrity, build, verification, review, laneVars,
                     mainHead, humanVars, resp>>

\* ... or in a later one, when that call was interrupted.
ResealRevise(s) ==
  \E c \in Cycles :
    /\ Routed(s, c, "verification_red")
    /\ ruling' = [ruling EXCEPT ![c] = MechanicalRevise]
    /\ Sealed("ruling", c)
    /\ drift' = TreeTouched(s)
    /\ baseline' = BaselineAfter(c)
    /\ Goto(s, "handoff")
    /\ job' = [job EXCEPT ![s] = [NoJob EXCEPT !.cycle = c, !.read = spec]]
    /\ UNCHANGED <<spec, approval, lock, breach, outcome, handoff, integrity,
                   build, verification, review, laneVars, mainHead, humanVars,
                   resp>>
-----------------------------------------------------------------------------
(***************************************************************************)
(* loop_step: the end of a goal, and the handoff every change ends with.   *)
(***************************************************************************)
Kill(s) ==
  \E c \in Cycles :
    /\ Routed(s, c, "killed")
    /\ outcome' = "killed" /\ Sealed("outcome", 0)
    /\ drift' = TreeTouched(s)
    /\ baseline' = BaselineAfter(0)
    /\ Goto(s, "handoff")
    /\ job' = [job EXCEPT ![s] = [NoJob EXCEPT !.cycle = c, !.read = spec]]
    /\ UNCHANGED <<spec, approval, lock, breach, handoff, integrity,
                   cycleVars, laneVars, mainHead, humanVars, resp>>

Deliver(s) ==
  \E c \in Cycles :
    /\ Routed(s, c, "awaiting_delivery_approval")
    /\ Goto(s, "handoff")
    /\ job' = [job EXCEPT ![s] = [NoJob EXCEPT
                 !.cycle = c, !.approval = approval, !.head = laneHead,
                 !.read = spec, !.next = "awaiting_delivery_approval"]]
    /\ UNCHANGED <<world, drift, resp>>

\* write_handoff writes what it rendered a moment ago, and the call returns;
\* a verification gives the lock back only now.
WriteHandoff(s) ==
  /\ pc[s] \in {"gated", "handoff"}
  /\ handoff' = [spec |-> job[s].read, newer |-> TRUE]
  /\ lock' = IF pc[s] = "gated" THEN None ELSE lock
  /\ drift' = TreeTouched(s)
  /\ Return(s, IF job[s].next = "other" THEN NoAnswer
               ELSE [state |-> job[s].next, cycle |-> job[s].cycle,
                     head |-> job[s].head])
  /\ UNCHANGED <<spec, approval, breach, outcome, integrity, baseline,
                 corrupt, cycleVars, laneVars, mainHead, humanVars>>

\* git, a snapshot, the creation of the lock or the write of a seal fails: the
\* call ends with what it has done so far (LaneError is answered, any other
\* exception leaves handle) and, if it has the lock, unlinks it on the way.
CallFails(s) ==
  /\ pc[s] # "idle"
  /\ lock' = IF pc[s] \in Locked THEN None ELSE lock
  /\ laneState' \in IF pc[s] = "verifying" THEN LaneAfterCommand ELSE {laneState}
  /\ Return(s, NoAnswer) /\ Forget(s)
  /\ UNCHANGED <<spec, approval, breach, outcome, handoff, integrity,
                 baseline, corrupt, cycleVars, laneBase, laneHead, mainHead,
                 humanVars>>

\* The process of the call dies. Only its lock stays behind.
Crash(s) ==
  /\ pc[s] # "idle"
  /\ Return(s, NoAnswer) /\ Forget(s)
  /\ UNCHANGED world
-----------------------------------------------------------------------------
Dispatch(s) ==
  \/ StartBuild(s) \/ LockBuild(s) \/ LockBuildFails(s) \/ BuilderReturns(s)
  \/ BuilderFails(s) \/ BuildBreach(s) \/ CommitLane(s) \/ ScanBreach(s)
  \/ MainUnchanged(s) \/ MainBreach(s) \/ SealBuild(s)

Verify(s) ==
  \/ StartVerification(s) \/ LockVerification(s) \/ LockVerificationFails(s)
  \/ SealVerification(s) \/ VerificationBreach(s) \/ SealRevise(s)
  \/ ResealRevise(s)

\* What a running supervisor is sure to go on with.
Handle(s) ==
  \/ Ask(s) \/ Report(s) \/ Dispatch(s) \/ Verify(s)
  \/ Kill(s) \/ Deliver(s) \/ WriteHandoff(s) \/ CallFails(s)
=============================================================================
