--------------------------- MODULE ArchitectLoop ----------------------------
(***************************************************************************)
(* The architect-build loop on one goal: concurrent loop_step calls, the   *)
(* models and people they call on, crashes, and the world around them.     *)
(***************************************************************************)
EXTENDS LoopStep, GoalActors

Init ==
  /\ spec = 0 /\ approval = None /\ lock = None /\ breach = FALSE
  /\ outcome = None /\ handoff = None /\ integrity = None /\ baseline = None
  /\ build = [c \in Cycles |-> None] /\ verification = [c \in Cycles |-> None]
  /\ review = [c \in Cycles |-> None] /\ ruling = [c \in Cycles |-> None]
  /\ corrupt = {}
  /\ laneBase = None /\ laneHead = 0 /\ laneState = "clean" /\ mainHead = 0
  /\ pc = [s \in Steps |-> "idle"] /\ job = [s \in Steps |-> NoJob]
  /\ drift = [s \in Steps |-> {}] /\ resp = [s \in Steps |-> NoAnswer]
  /\ approver = [pc |-> "idle", spec |-> 0, base |-> None]
  /\ overtime = FALSE /\ approved = {}
-----------------------------------------------------------------------------
\* Everything but the death of a process.
Work ==
  \/ \E s \in Steps : Handle(s) \/ BuilderWrites(s) \/ Host(s)
  \/ SealSpecRev \/ Approver \/ Cleanup \/ Environment

Next == Work \/ ApproveCrash \/ \E s \in Steps : Crash(s)

Spec == Init /\ [][Next]_vars

\* Calls go on: builder and verification command have timeouts. And an
\* operator looks into a stale_dispatch_in_flight stop and removes the lock.
CallsGoOn == \A s \in Steps : WF_vars(Handle(s))
FairSpec  == Spec /\ CallsGoOn /\ WF_vars(RemoveStaleLock)
\* No call is killed, no operator is about.
AloneSpec == Init /\ [][Work]_vars /\ CallsGoOn
-----------------------------------------------------------------------------
(***************************************************************************)
(* The inductive invariant: what a step relies on when it goes on.         *)
(***************************************************************************)
\* A call that was routed has what its next steps read from its job.
JobOK ==
  \A s \in Steps :
    /\ pc[s] # "idle" => job[s].cycle \in Cycles
    /\ pc[s] = "build" => job[s].approval \in Approvals
    /\ pc[s] \in {"check", "seal", "verifying"} => job[s].head \in Heads
    /\ job[s].next # "other" => job[s].head \in Heads
\* An answer that asks something says for which cycle and lane commit.
AnswerOK ==
  \A s \in Steps : resp[s].state # "other" =>
    resp[s].cycle \in Cycles /\ resp[s].head \in Heads
\* What is uncommitted in the lane can be committed within the bound.
RoomOK == laneState = "dirty" => laneHead < MaxHeads
\* The lock file is that of the call at work; the file of a dead call keeps
\* every other out until the operator removes it.
LockOwner == \A s \in Steps : pc[s] \in Locked => lock = s
\* What is approved, and what was read as approved, a human approved.
ApprovalOK ==
  /\ approval # None => approval.spec \in approved
  /\ \A s \in Steps : pc[s] \in {"build", "building"} => job[s].read \in approved
IInv == TypeOK /\ JobOK /\ AnswerOK /\ RoomOK /\ LockOwner /\ ApprovalOK
-----------------------------------------------------------------------------
(***************************************************************************)
(* Properties.                                                             *)
(***************************************************************************)
\* Two calls are never both at work in the lane under the in-flight lock: the
\* O_EXCL create is a mutex, also across crashes, stale locks and the
\* operator who removes them (_run_build, _run_verification).
LaneMutex == \A s, t \in Steps : {pc[s], pc[t]} \subseteq Locked => s = t

\* The spec in a builder's prompt is one a human approved, whatever the
\* architect seals meanwhile and whatever is re-approved (_binding_stop).
DispatchedSpecIsApproved ==
  \A s \in Steps : pc[s] \in {"build", "building"} => job[s].read \in approved

\* The reviewer is only ever called for a build the frozen gate passed, also
\* when the call that found it RED died before it sealed the revise.
ReviewedIsGreen ==
  \A s \in Steps : GateOn /\ resp[s].state = "needs_review" =>
    LET v == verification[resp[s].cycle] IN v # None /\ v.passed

\* What is put before the human for delivery is one commit all the way: the
\* lane is at it, the builder was not refusing, the gate passed on it, the
\* reviewer saw it.
DeliveryIsEarned ==
  [][\A s \in Steps : pc[s] = "idle" /\ job'[s].next = "awaiting_delivery_approval" =>
       LET c == job'[s].cycle
       IN  /\ build[c].head = laneHead /\ ~build[c].pushback
           /\ review[c] # None /\ review[c].head = laneHead
           /\ GateOn => /\ verification[c] # None /\ verification[c].passed
                        /\ verification[c].head = laneHead]_vars

\* What a call acts on is as it was sealed: an edited artifact never makes a
\* goal progress, though the cycle it is in is told from rulings nobody checks
\* (M1: point-of-use seal verification).
ActedOn(loc, next, c) ==
  {<<"approval", 0>>, <<"build", c>>, <<"ruling", c>>}
    \cup (IF loc = "build" THEN {<<"spec", 0>>, <<"ruling", c - 1>>} ELSE {})
    \cup (IF loc = "handoff" THEN {<<"verification", c>>} ELSE {})
    \cup (IF next = "awaiting_delivery_approval"
          THEN {<<"review", c>>, <<"integrity", 0>>, <<"baseline", 0>>} ELSE {})
TamperedNeverActedOn ==
  [][\A s \in Steps : pc[s] = "idle" /\ pc'[s] # "idle" =>
       corrupt \cap ActedOn(pc'[s], job'[s].next, job'[s].cycle) = {}]_vars

\* Once the gate was RED with one signature in three cycles in a row, no later
\* cycle is ever built, over rulings edited in between and calls that died or
\* failed between the two seals of a RED (_check_stop_rules, whose window has
\* to be that of the last closed cycles).
NoFourthSameRed ==
  \A c, d \in Cycles, sig \in Signatures :
    /\ c + 2 < d
    /\ \A e \in c .. (c + 2) : /\ verification[e] # None
                               /\ ~verification[e].passed
                               /\ verification[e].signature = sig
    => build[d] = None

\* With no stop rule, no drift and nothing tampered with, and until a ruling
\* has been sealed in the cycle, what is presented about a goal is what the
\* supervisor would answer (derive_goal_public_state mirrors handle()).
Undisturbed(c) == /\ ~StopRules(c) /\ lock = None /\ corrupt = {}
                  /\ approval # None => mainHead = approval.base
PublicStateMirrorsOpen ==
  \A c \in Cycles : IsCurrent(c) /\ Undisturbed(c) /\ ruling[c] = None =>
    Route(c) = PublicState(c, GateOn)

\* A call that is not killed gives the lock back, whatever becomes of its
\* builder or its verification, and without anybody's help.
LockIsReleased == lock # None ~> lock = None

\* A RED build gets its mechanical revise, also when the call that found it
\* RED died between the two seals.
Red(c) == /\ GateOn /\ build[c] # None /\ ~build[c].pushback
          /\ verification[c] # None /\ ~verification[c].passed
RedIsRevised == \A c \in Cycles : Red(c) ~> ruling[c] # None
=============================================================================
