---------------------- MODULE ArchitectAnswers_proofs -----------------------
(***************************************************************************)
(* What a call of loop_step acts on and what it answers.                   *)
(*                                                                         *)
(* However many callers there are: no call acts on an edited artifact, and *)
(* the presented state is the routed one while the cycle is open. With one *)
(* caller: only green builds are put before the reviewer and before the    *)
(* human, and three equal REDs stop the loop. (Two callers that verify the *)
(* same cycle break all three of the latter.)                              *)
(*                                                                         *)
(* The seals are what the argument turns on. With one caller a build and a *)
(* verification, once sealed, are never sealed again: what was routed on   *)
(* still holds when the call, or the model it calls on, acts.              *)
(***************************************************************************)
EXTENDS ArchitectLoop_proofs

-----------------------------------------------------------------------------
(***************************************************************************)
(* The invariants.                                                         *)
(***************************************************************************)
\* Nothing is verified unless there is a verification command.
GateOK ==
  GateOn \/ /\ \A c \in Cycles : verification[c] = None
            /\ \A s \in Steps : pc[s] \notin {"verify", "verifying"}
\* A call that is over holds no job, and cycle 0 has no ruling to edit.
RestOK == /\ \A s \in Steps : pc[s] = "idle" => job[s] = NoJob
          /\ <<"ruling", 0>> \notin corrupt
\* What is verified, or found RED, was built.
UnderGate == {"verify", "verifying", "red"}
BuiltOK   == \A s \in Steps : pc[s] \in UnderGate => build[job[s].cycle] # None
AnyInv == IInv /\ GateOK /\ RestOK /\ BuiltOK

Passed(c) == GateOn => verification[c] # None /\ verification[c].passed
\* What may be accepted: a refusal, or work the gate passed.
Earned(c) == build[c] # None /\ (build[c].pushback \/ Passed(c))

Building  == {"build", "building", "commit", "check", "seal"}
Verifying == {"verify", "verifying"}

\* What a call is on its way to seal is not there yet, and what it was routed
\* on still holds.
BuildDue(s) ==
  pc[s] \in Building =>
    /\ build[job[s].cycle] = None /\ ~RepeatedRed(job[s].cycle)
    /\ job[s].cycle > 1 => build[job[s].cycle - 1] # None
    /\ pc[s] \in {"check", "seal"} => job[s].head <= laneHead
VerifyDue(s) ==
  LET c == job[s].cycle
  IN  pc[s] \in Verifying =>
        /\ build[c] # None /\ ~build[c].pushback /\ verification[c] = None
        /\ \A d \in Cycles : d > c => build[d] = None
        /\ pc[s] = "verifying" => build[c].head <= job[s].head /\ job[s].head <= laneHead
ReviewDue(s) == /\ job[s].next \in {"other", "needs_review", "awaiting_delivery_approval"}
                /\ job[s].next = "needs_review" =>
                     build[job[s].cycle] # None /\ Passed(job[s].cycle)
JobDue(s)    == BuildDue(s) /\ VerifyDue(s) /\ ReviewDue(s)

\* An answer is still true when somebody acts on it.
AnswerDue(s) ==
  LET c == resp[s].cycle
  IN  /\ resp[s].state = "needs_review" => build[c] # None /\ Passed(c)
      /\ resp[s].state \in {"pushback_raised", "needs_ruling",
                            "signer_invariant_violated"} => Earned(c)

Accepts(c) == /\ ruling[c] # None /\ ruling[c].disposition = "accept"
              /\ Intact("ruling", c)
RulingOK   == \A c \in Cycles : Accepts(c) => Earned(c)
\* The lane only moves on from what was built to what was verified.
HeadsOK ==
  \A c \in Cycles :
    /\ build[c] # None => build[c].head <= laneHead
    /\ verification[c] # None =>
         /\ build[c] # None /\ build[c].head <= verification[c].head
         /\ verification[c].head <= laneHead

\* Cycles are built one after the other; what is judged was built.
Judged(c) == review[c] # None \/ ruling[c] # None
ChainOK ==
  \A c \in Cycles : /\ Judged(c) => build[c] # None
                    /\ build[c] # None /\ c > 1 => build[c - 1] # None

OneCaller == \A s, t \in Steps : s = t
SoleInv == /\ AnyInv
           /\ \A s \in Steps : JobDue(s) /\ AnswerDue(s)
           /\ RulingOK /\ HeadsOK /\ ChainOK /\ NoFourthSameRed

-----------------------------------------------------------------------------
(***************************************************************************)
(* What a call that was routed knows.                                      *)
(***************************************************************************)
LEMMA RoutedInCycle ==
  ASSUME NEW c, Route(c) \notin {"other", "needs_spec"}
  PROVE  /\ lock = None /\ ~StopRules(c) /\ Bound /\ spec # 0
         /\ Route(c) = CycleRoute(c)
  BY DEF Route

LEMMA RoutedIntact ==
  ASSUME NEW c, Route(c) \notin {"other", "needs_spec"}
  PROVE  {<<"approval", 0>>, <<"build", c>>, <<"ruling", c>>} \cap corrupt = {}
  BY RoutedInCycle DEF CycleRoute, Bound, Intact

\* Past the gate the verification is as it was sealed, and the gate passed
\* unless a ruling is there already.
LEMMA RoutedPastGate ==
  ASSUME NEW c,
         Route(c) \notin {"other", "needs_spec", "needs_build", "pushback_raised",
                          "needs_verification"}
  PROVE  /\ build[c] # None /\ Intact("verification", c)
         /\ build[c].pushback => ruling[c] # None
         /\ NeedsGate(c) => verification[c] # None
         /\ Route(c) # "verification_red" =>
              /\ ~RedPending(c) /\ Intact("review", c)
              /\ ruling[c] # None => Route(c) = RulingRoute(c)
              /\ ruling[c] = None => Route(c) \in {"needs_review", "needs_ruling"}
  BY RoutedInCycle DEF CycleRoute

LEMMA RoutedToRuling ==
  ASSUME NEW c,
         Route(c) \in {"killed", "signer_invariant_violated", "awaiting_delivery_approval"}
  PROVE  ruling[c] # None /\ Route(c) = RulingRoute(c)
  BY RoutedPastGate

LEMMA RoutedToBuild ==
  ASSUME NEW c, Route(c) = "needs_build"
  PROVE  build[c] = None /\ BuildInputsIntact(c) /\ ~RepeatedRed(c)
  <1>1. Route(c) = CycleRoute(c) /\ ~RepeatedRed(c)
    BY RoutedInCycle DEF StopRules
  <1>2. RulingRoute(c) # "needs_build"
    BY DEF RulingRoute
  <1> QED BY <1>1, <1>2 DEF CycleRoute

LEMMA RoutedToGate ==
  ASSUME NEW c, Route(c) = "needs_verification"
  PROVE  build[c] # None /\ NeedsGate(c) /\ verification[c] = None
  <1>1. Route(c) = CycleRoute(c)
    BY RoutedInCycle
  <1>2. RulingRoute(c) # "needs_verification"
    BY DEF RulingRoute
  <1> QED BY <1>1, <1>2 DEF CycleRoute

\* The signer and the three rechecks of the accept transition.
LEMMA RoutedToDelivery ==
  ASSUME NEW c, Route(c) = "awaiting_delivery_approval"
  PROVE  /\ ruling[c].disposition = "accept" /\ ~build[c].pushback
         /\ SignerOk(c) /\ RecheckOk(c)
  BY RoutedToRuling DEF RulingRoute
-----------------------------------------------------------------------------
(***************************************************************************)
(* The shapes of steps, as seen by the calls and the seals they rely on.   *)
(***************************************************************************)
\* An accept that was not there is one somebody put there, and nobody judges
\* what is not built.
RulingsKept ==
  \A c \in Cycles : /\ Accepts(c)' => Accepts(c)
                    /\ Judged(c)' => Judged(c) \/ build[c] # None
NoCycleZero == <<"ruling", 0>> \notin corrupt'
\* People and the world: no call moves.
Outside == /\ UNCHANGED <<build, verification, laneHead, pc, job, resp>>
           /\ RulingsKept /\ NoCycleZero
\* Call s returns with an answer.
Ends(s, a) == /\ Return(s, a) /\ RulingsKept /\ NoCycleZero
              /\ UNCHANGED <<build, verification, laneHead>>
\* Call s answers, or somebody acts on its answer.
Says(s, a) == /\ resp' = [resp EXCEPT ![s] = a] /\ NoCycleZero
              /\ UNCHANGED <<build, verification, laneHead, pc, job>>
\* Call s goes on to another place, with another job.
Goes(s, loc, j) == /\ Goto(s, loc) /\ job' = [job EXCEPT ![s] = j] /\ NoCycleZero
                   /\ UNCHANGED <<build, verification, resp>>

LEMMA OutsideSteps ==
  ASSUME AnyInv,
         \/ \E s \in Steps : BuilderWrites(s)
         \/ SealSpecRev \/ Approver \/ ApproveCrash \/ Cleanup \/ Environment
         \/ UNCHANGED vars
  PROVE  Outside
  <1> USE DEF AnyInv, RestOK, Outside, RulingsKept, NoCycleZero, Accepts, Judged, Intact,
              Sealed, BuiltOK,
              goalVars, cycleVars, laneVars, stepVars, humanVars, world, vars
  <1>1. CASE \E s \in Steps : BuilderWrites(s)
    BY <1>1 DEF BuilderWrites
  <1>2. CASE SealSpecRev
    BY <1>2 DEF SealSpecRev, SpecSealed
  <1>3. CASE Approver
    BY <1>3 DEF Approver, ApproveCheck, ApproveArchive, ApproveSeal
  <1>4. CASE ApproveCrash \/ Cleanup \/ UNCHANGED vars
    BY <1>4 DEF ApproveCrash, Cleanup
  <1>5. CASE RemoveStaleLock \/ ClearBreach \/ MainChanges \/ SiblingChanges \/ Overtime
    BY <1>5 DEF RemoveStaleLock, ClearBreach, MainChanges, SiblingChanges, Overtime
  <1>6. ASSUME NEW kind \in CycleKinds \cup GoalKinds, NEW n \in 0 .. MaxCycles,
               Corrupt(kind, n)
        PROVE  Outside
    <2>1. /\ UNCHANGED <<build, verification, laneHead, pc, job, resp>>
          /\ corrupt' = corrupt \cup {<<kind, n>>}
      BY <1>6 DEF Corrupt
    <2>2. kind = "ruling" => n # 0
      BY <1>6 DEF Corrupt, Exists
    <2>3. NoCycleZero
      BY <2>1, <2>2
    <2>4. \A c \in Cycles : <<kind, n>> # <<"ruling", c>> => ruling'[c] = ruling[c]
      <3>1. CASE kind = "ruling"
        BY <1>6, <3>1 DEF Corrupt, IInv, TypeOK, CycleTypeOK
      <3>2. CASE kind # "ruling"
        BY <1>6, <3>2 DEF Corrupt
      <3> QED BY <3>1, <3>2
    <2>5. \A c \in Cycles : Accepts(c)' => Accepts(c)
      BY <2>1, <2>4
    <2>6. \A c \in Cycles : Judged(c)' => Judged(c)
      BY <1>6, <2>4 DEF Corrupt, Exists
    <2> QED BY <2>1, <2>3, <2>5, <2>6
  <1> QED BY <1>1, <1>2, <1>3, <1>4, <1>5, <1>6 DEF Environment

\* Every way out of a call but the handoff answers nothing.
EndsQuietly(s) ==
  \/ LockBuildFails(s) \/ BuilderFails(s) \/ BuildBreach(s) \/ ScanBreach(s)
  \/ MainBreach(s) \/ LockVerificationFails(s) \/ VerificationBreach(s)
  \/ CallFails(s) \/ Crash(s)

LEMMA EndingSteps ==
  ASSUME AnyInv, NEW s \in Steps, EndsQuietly(s)
  PROVE  Ends(s, NoAnswer)
  BY DEF EndsQuietly, LockBuildFails, BuilderFails, BuildBreach, ScanBreach, MainBreach,
         LockVerificationFails, VerificationBreach, CallFails, Crash, Breach, AnyInv, RestOK,
         Ends, RulingsKept, NoCycleZero, Accepts, Judged, Intact, cycleVars, laneVars, goalVars,
         humanVars, world

HandoffAnswer(s) == IF job[s].next = "other" THEN NoAnswer
                    ELSE [state |-> job[s].next, cycle |-> job[s].cycle,
                          head |-> job[s].head]
LEMMA HandoffStep ==
  ASSUME AnyInv, NEW s \in Steps, WriteHandoff(s)
  PROVE  Ends(s, HandoffAnswer(s))
  BY DEF WriteHandoff, HandoffAnswer, AnyInv, RestOK, Ends, RulingsKept, NoCycleZero,
         Accepts, Judged, Intact, cycleVars, laneVars

LEMMA AskStep ==
  ASSUME AnyInv, NEW s \in Steps, Ask(s)
  PROVE  \E c \in Cycles, st \in Asks \ {"awaiting_delivery_approval"} :
           /\ Route(c) = st /\ RulingsKept
           /\ Says(s, [state |-> st, cycle |-> c, head |-> laneHead])
  BY DEF Ask, Routed, Says, AnyInv, RestOK, NoCycleZero, RulingsKept, Accepts,
         Judged, Intact, cycleVars, laneVars, goalVars, humanVars, world

\* The host that sees to an answer has it seen to.
LEMMA SpentSteps ==
  ASSUME AnyInv, NEW s \in Steps,
         Report(s) \/ SealSpec(s) \/ SealDelivered(s)
  PROVE  Says(s, NoAnswer) /\ RulingsKept
  BY DEF Report, SealSpec, SpecSealed, SealDelivered, Answered, Sealed, Says, AnyInv,
         RestOK, NoCycleZero, RulingsKept, Accepts, Judged, Intact, cycleVars, laneVars,
         goalVars, humanVars, world

LEMMA SealReviewStep ==
  ASSUME AnyInv, NEW s \in Steps, SealReview(s)
  PROVE  /\ Says(s, NoAnswer)
         /\ resp[s].state \in {"needs_review", "signer_invariant_violated"}
         /\ \A c \in Cycles : Accepts(c)' => Accepts(c)
         /\ \A c \in Cycles : c # resp[s].cycle => (Judged(c)' => Judged(c))
  <1>1. resp[s].cycle \in Cycles /\ review \in [Cycles -> Reviews \cup {None}]
    BY DEF SealReview, Answered, AnyInv, IInv, AnswerOK, TypeOK, CycleTypeOK
  <1>2. Says(s, NoAnswer) /\ resp[s].state \in {"needs_review", "signer_invariant_violated"}
    BY DEF SealReview, Answered, Sealed, Says, AnyInv, RestOK, NoCycleZero, laneVars
  <1>3. \A c \in Cycles : Accepts(c)' => Accepts(c)
    BY DEF SealReview, Sealed, Accepts, Intact
  <1>4. \A c \in Cycles : c # resp[s].cycle => (Judged(c)' => Judged(c))
    BY <1>1 DEF SealReview, Judged
  <1> QED BY <1>2, <1>3, <1>4

LEMMA SealRulingStep ==
  ASSUME AnyInv, NEW s \in Steps, SealRuling(s)
  PROVE  /\ Says(s, NoAnswer)
         /\ resp[s].state \in {"pushback_raised", "needs_ruling", "signer_invariant_violated"}
         /\ \A c \in Cycles : c # resp[s].cycle =>
              (Accepts(c)' => Accepts(c)) /\ (Judged(c)' => Judged(c))
  <1>1. resp[s].cycle \in Cycles /\ ruling \in [Cycles -> Rulings \cup {None}]
    BY DEF SealRuling, Answered, AnyInv, IInv, AnswerOK, TypeOK, CycleTypeOK
  <1>2. Says(s, NoAnswer)
    BY DEF SealRuling, Answered, Sealed, Says, AnyInv, RestOK, NoCycleZero, laneVars
  <1>3. \A c \in Cycles : c # resp[s].cycle =>
          (Accepts(c)' => Accepts(c)) /\ (Judged(c)' => Judged(c))
    BY <1>1 DEF SealRuling, Sealed, Accepts, Judged, Intact
  <1> QED BY <1>2, <1>3 DEF SealRuling, Answered

\* The calls at work on a build ...
LEMMA StartBuildStep ==
  ASSUME AnyInv, NEW s \in Steps, StartBuild(s)
  PROVE  \E c \in Cycles :
           /\ Route(c) = "needs_build" /\ IsCurrent(c) /\ laneHead' = laneHead /\ RulingsKept
           /\ Goes(s, "build", [NoJob EXCEPT !.cycle = c, !.approval = approval, !.read = spec])
  BY DEF StartBuild, Routed, Goes, AnyInv, RestOK, NoCycleZero, RulingsKept, Accepts,
         Judged, Intact, cycleVars, laneVars, goalVars, humanVars, world

LEMMA SameJob ==
  ASSUME AnyInv, NEW s \in Steps
  PROVE  job = [job EXCEPT ![s] = job[s]]
  BY DEF AnyInv, IInv, TypeOK, StepTypeOK

LEMMA BuildingSteps ==
  ASSUME AnyInv, NEW s \in Steps
  PROVE  /\ LockBuild(s) => /\ pc[s] = "build" /\ Goes(s, "building", job[s])
                            /\ laneHead' = laneHead /\ RulingsKept
         /\ BuilderReturns(s) =>
              /\ pc[s] = "building" /\ laneHead' = laneHead /\ RulingsKept
              /\ \E p \in BOOLEAN : Goes(s, "commit", [job[s] EXCEPT !.pushback = p])
         /\ CommitLane(s) =>
              /\ pc[s] = "commit" /\ laneHead' \in {laneHead, laneHead + 1} /\ RulingsKept
              /\ Goes(s, "check", [job[s] EXCEPT !.head = laneHead'])
         /\ MainUnchanged(s) => /\ pc[s] = "check" /\ Goes(s, "seal", job[s])
                                /\ laneHead' = laneHead /\ RulingsKept
  <1> USE SameJob DEF AnyInv, RestOK, NoCycleZero, RulingsKept, Accepts, Judged, Intact,
          Goes, Sealed, cycleVars, laneVars, goalVars, humanVars, world
  <1>1. LockBuild(s) => /\ pc[s] = "build" /\ Goes(s, "building", job[s])
                        /\ laneHead' = laneHead /\ RulingsKept
    BY DEF LockBuild
  <1>2. BuilderReturns(s) =>
          /\ pc[s] = "building" /\ laneHead' = laneHead /\ RulingsKept
          /\ \E p \in BOOLEAN : Goes(s, "commit", [job[s] EXCEPT !.pushback = p])
    BY DEF BuilderReturns
  <1>3. CommitLane(s) =>
          /\ pc[s] = "commit" /\ laneHead' \in {laneHead, laneHead + 1} /\ RulingsKept
          /\ Goes(s, "check", [job[s] EXCEPT !.head = laneHead'])
    BY DEF CommitLane
  <1>4. MainUnchanged(s) => /\ pc[s] = "check" /\ Goes(s, "seal", job[s])
                            /\ laneHead' = laneHead /\ RulingsKept
    BY DEF MainUnchanged
  <1> QED BY <1>1, <1>2, <1>3, <1>4

\* ... on a verification ...
LEMMA VerifyingSteps ==
  ASSUME AnyInv, NEW s \in Steps
  PROVE  /\ StartVerification(s) => \E c \in Cycles :
              /\ Route(c) = "needs_verification" /\ laneHead' = laneHead /\ RulingsKept
              /\ IsCurrent(c) /\ Goes(s, "verify", [NoJob EXCEPT !.cycle = c])
         /\ LockVerification(s) =>
              /\ pc[s] = "verify" /\ laneHead' = laneHead /\ RulingsKept
              /\ Goes(s, "verifying", [job[s] EXCEPT !.head = laneHead])
  BY DEF StartVerification, LockVerification, Routed, Goes, AnyInv, RestOK, NoCycleZero,
         RulingsKept, Accepts, Judged, Intact, cycleVars, laneVars, goalVars, humanVars, world

\* ... and those that change a goal for good.
LEMMA ReviseKeepsRulings ==
  ASSUME AnyInv, NEW c \in Cycles, ruling' = [ruling EXCEPT ![c] = MechanicalRevise],
         Sealed("ruling", c), build[c] # None, UNCHANGED review
  PROVE  RulingsKept /\ NoCycleZero
  <1>1. ruling \in [Cycles -> Rulings \cup {None}]
    BY DEF AnyInv, IInv, TypeOK, CycleTypeOK
  <1>2. ruling'[c].disposition = "revise" /\ \A d \in Cycles : d # c => ruling'[d] = ruling[d]
    BY <1>1 DEF MechanicalRevise
  <1>3. RulingsKept
    BY <1>2 DEF RulingsKept, Accepts, Judged, Intact, Sealed
  <1>4. NoCycleZero
    BY DEF NoCycleZero, Sealed, AnyInv, RestOK
  <1> QED BY <1>3, <1>4

LEMMA ReviseSteps ==
  ASSUME AnyInv, NEW s \in Steps
  PROVE  /\ SealRevise(s) => /\ pc[s] = "red" /\ laneHead' = laneHead /\ RulingsKept
                             /\ Goes(s, "gated", [job[s] EXCEPT !.read = spec])
         /\ ResealRevise(s) => \E c \in Cycles :
              /\ Route(c) = "verification_red" /\ laneHead' = laneHead /\ RulingsKept
              /\ Goes(s, "handoff", [NoJob EXCEPT !.cycle = c, !.read = spec])
  <1> USE DEF Goes, laneVars
  <1>1. pc[s] = "red" => job[s].cycle \in Cycles /\ build[job[s].cycle] # None
    BY DEF AnyInv, IInv, JobOK, BuiltOK, UnderGate
  <1>2. SealRevise(s) => /\ pc[s] = "red" /\ laneHead' = laneHead /\ RulingsKept
                         /\ Goes(s, "gated", [job[s] EXCEPT !.read = spec])
    BY <1>1, ReviseKeepsRulings DEF SealRevise
  <1>3. ASSUME NEW c \in Cycles, Routed(s, c, "verification_red"),
               ruling' = [ruling EXCEPT ![c] = MechanicalRevise], Sealed("ruling", c),
               UNCHANGED review
        PROVE  Route(c) = "verification_red" /\ RulingsKept /\ NoCycleZero
    BY <1>3, ReviseKeepsRulings, RoutedPastGate DEF Routed
  <1>4. ResealRevise(s) => \E c \in Cycles :
          /\ Route(c) = "verification_red" /\ laneHead' = laneHead /\ RulingsKept
          /\ Goes(s, "handoff", [NoJob EXCEPT !.cycle = c, !.read = spec])
    BY <1>3 DEF ResealRevise
  <1> QED BY <1>2, <1>4

LEMMA ClosingSteps ==
  ASSUME AnyInv, NEW s \in Steps
  PROVE  /\ Kill(s) => \E c \in Cycles :
              /\ Route(c) = "killed" /\ laneHead' = laneHead /\ RulingsKept
              /\ Goes(s, "handoff", [NoJob EXCEPT !.cycle = c, !.read = spec])
         /\ Deliver(s) => \E c \in Cycles :
              /\ Route(c) = "awaiting_delivery_approval" /\ laneHead' = laneHead
              /\ RulingsKept
              /\ Goes(s, "handoff", [NoJob EXCEPT
                        !.cycle = c, !.approval = approval, !.head = laneHead,
                        !.read = spec, !.next = "awaiting_delivery_approval"])
  BY DEF Kill, Deliver, Routed, Goes, Sealed, AnyInv, RestOK, NoCycleZero, RulingsKept,
         Accepts, Judged, Intact, cycleVars, laneVars, goalVars, humanVars, world
-----------------------------------------------------------------------------
(***************************************************************************)
(* For any number of callers.                                              *)
(***************************************************************************)
LEMMA MovedOnly ==
  ASSUME AnyInv, NEW s \in Steps, NEW loc, Goto(s, loc)
  PROVE  pc'[s] = loc /\ \A t \in Steps : t # s => pc'[t] = pc[t]
  BY DEF Goto, AnyInv, IInv, TypeOK, StepTypeOK

LEMMA JobOnly ==
  ASSUME AnyInv, NEW s \in Steps, NEW j, job' = [job EXCEPT ![s] = j]
  PROVE  job'[s] = j /\ \A t \in Steps : t # s => job'[t] = job[t]
  BY DEF AnyInv, IInv, TypeOK, StepTypeOK

LEMMA OutsideKeepsAny ==
  ASSUME AnyInv, Outside
  PROVE  GateOK' /\ RestOK' /\ BuiltOK'
  BY DEF AnyInv, GateOK, RestOK, BuiltOK, Outside, NoCycleZero

LEMMA SaysKeepsAny ==
  ASSUME AnyInv, NEW s \in Steps, NEW a, Says(s, a)
  PROVE  GateOK' /\ RestOK' /\ BuiltOK'
  BY DEF AnyInv, GateOK, RestOK, BuiltOK, Says, NoCycleZero

LEMMA EndsKeepsAny ==
  ASSUME AnyInv, NEW s \in Steps, NEW a, Ends(s, a)
  PROVE  GateOK' /\ RestOK' /\ BuiltOK'
  <1>1. Goto(s, "idle") /\ job' = [job EXCEPT ![s] = NoJob]
    BY DEF Ends, Return
  <1>2. /\ pc'[s] = "idle" /\ \A t \in Steps : t # s => pc'[t] = pc[t]
        /\ job'[s] = NoJob /\ \A t \in Steps : t # s => job'[t] = job[t]
    BY <1>1, MovedOnly, JobOnly
  <1>3. GateOK'
    BY <1>2 DEF AnyInv, GateOK, Ends
  <1>4. RestOK'
    BY <1>2 DEF AnyInv, RestOK, Ends, NoCycleZero
  <1>5. BuiltOK'
    BY <1>2 DEF AnyInv, BuiltOK, UnderGate, Ends
  <1> QED BY <1>3, <1>4, <1>5

LEMMA GoesKeepsAny ==
  ASSUME AnyInv, NEW s \in Steps, NEW loc, NEW j, Goes(s, loc, j), loc # "idle",
         loc \in Verifying => GateOn, loc \in UnderGate => build[j.cycle] # None
  PROVE  GateOK' /\ RestOK' /\ BuiltOK'
  <1>1. Goto(s, loc) /\ job' = [job EXCEPT ![s] = j]
    BY DEF Goes
  <1>2. GateOK' /\ RestOK'
    BY <1>1, MovedOnly, JobOnly DEF AnyInv, GateOK, RestOK, Goes, NoCycleZero, Verifying
  <1>3. BuiltOK'
    <2> SUFFICES ASSUME NEW t \in Steps, pc'[t] \in UnderGate PROVE build'[job'[t].cycle] # None
      BY DEF BuiltOK, UnderGate
    <2>1. build' = build /\ UnderGate = UnderGate'
      BY DEF Goes, UnderGate
    <2>2. CASE t = s
      <3>1. pc'[s] = loc /\ job'[s] = j
        BY <1>1, MovedOnly, JobOnly
      <3>2. build[j.cycle] # None
        BY <2>2, <3>1
      <3> QED BY <2>1, <2>2, <3>1, <3>2
    <2>3. CASE t # s
      BY <1>1, <2>1, <2>3, MovedOnly, JobOnly DEF AnyInv, BuiltOK
    <2> QED BY <2>2, <2>3
  <1> QED BY <1>2, <1>3

LEMMA HandleKeepsAny ==
  ASSUME AnyInv, NEW s \in Steps, Handle(s)
  PROVE  GateOK' /\ RestOK' /\ BuiltOK'
  <1>1. CASE Ask(s) \/ Report(s)
    BY <1>1, AskStep, SpentSteps, SaysKeepsAny
  <1>2. CASE EndsQuietly(s) \/ WriteHandoff(s)
    BY <1>2, EndingSteps, HandoffStep, EndsKeepsAny
  <1>3. CASE \/ StartBuild(s) \/ LockBuild(s) \/ BuilderReturns(s) \/ CommitLane(s)
             \/ MainUnchanged(s)
    <2>1. \E loc \in {"build", "building", "commit", "check", "seal"} : \E j : Goes(s, loc, j)
      BY <1>3, StartBuildStep, BuildingSteps
    <2> QED BY <2>1, GoesKeepsAny DEF Verifying, UnderGate
  <1>4. CASE SealRevise(s) \/ ResealRevise(s) \/ Kill(s) \/ Deliver(s)
    <2>1. \E loc \in {"gated", "handoff"} : \E j : Goes(s, loc, j)
      BY <1>4, ReviseSteps, ClosingSteps
    <2> QED BY <2>1, GoesKeepsAny DEF Verifying, UnderGate
  <1>5. CASE StartVerification(s)
    <2>1. PICK c \in Cycles : /\ Route(c) = "needs_verification"
                              /\ Goes(s, "verify", [NoJob EXCEPT !.cycle = c])
      BY <1>5, VerifyingSteps
    <2>2. GateOn /\ build[c] # None
      BY <2>1, RoutedToGate DEF NeedsGate
    <2> DEFINE j == [NoJob EXCEPT !.cycle = c]
    <2>3. j.cycle = c
      BY DEF NoJob
    <2> HIDE DEF j
    <2> QED BY <2>1, <2>2, <2>3, GoesKeepsAny DEF j
  <1>6. CASE LockVerification(s)
    <2>1. pc[s] = "verify" /\ Goes(s, "verifying", [job[s] EXCEPT !.head = laneHead])
      BY <1>6, VerifyingSteps
    <2>2. GateOn /\ build[job[s].cycle] # None
      BY <2>1 DEF AnyInv, GateOK, BuiltOK, UnderGate
    <2> DEFINE j == [job[s] EXCEPT !.head = laneHead]
    <2>3. j.cycle = job[s].cycle
      BY DEF AnyInv, IInv, TypeOK, StepTypeOK, Jobs
    <2> HIDE DEF j
    <2> QED BY <2>1, <2>2, <2>3, GoesKeepsAny DEF j
  <1>7. CASE SealBuild(s)
    <2>1. Goto(s, "handoff") /\ job' = [job EXCEPT ![s].read = spec]
          /\ UNCHANGED verification /\ NoCycleZero
      BY <1>7 DEF SealBuild, NoCycleZero, AnyInv, RestOK
    <2>2. GateOK'
      BY <2>1, MovedOnly DEF AnyInv, GateOK
    <2>3. RestOK'
      BY <2>1, MovedOnly, JobOnly DEF AnyInv, RestOK, NoCycleZero
    <2>4. \A c \in Cycles : build[c] # None => build'[c] # None
      <3>1. build' \in [Cycles -> BuildResults \cup {None}]
        BY <1>7, HandleKeeps DEF AnyInv, IInv, TypeOK, CycleTypeOK
      <3> DEFINE b == [head |-> job[s].head, pushback |-> job[s].pushback]
      <3>2. b \in BuildResults
        BY <1>7 DEF SealBuild, AnyInv, IInv, JobOK, TypeOK, StepTypeOK, Jobs, BuildResults
      <3>3. build' = [build EXCEPT ![job[s].cycle] = b]
        BY <1>7 DEF SealBuild
      <3>4. b # None
        BY <3>2, NoneAssumption
      <3> HIDE DEF b
      <3> QED BY <3>1, <3>3, <3>4 DEF AnyInv, IInv, TypeOK, CycleTypeOK
    <2>5. BuiltOK'
      BY <2>1, <2>4, MovedOnly, JobOnly DEF AnyInv, BuiltOK, UnderGate, IInv, JobOK
    <2> QED BY <2>2, <2>3, <2>5
  <1>8. CASE SealVerification(s)
    <2>1. pc[s] = "verifying" /\ NoCycleZero
      BY <1>8 DEF SealVerification, NoCycleZero, AnyInv, RestOK
    <2>2. PICK loc, j : /\ loc \in {"gated", "red"} /\ Goto(s, loc)
                        /\ job' = [job EXCEPT ![s] = j] /\ j.cycle = job[s].cycle
      <3> DEFINE k(next) == [job[s] EXCEPT !.read = spec, !.next = next]
      <3>1. job[s] \in Jobs
        BY DEF AnyInv, IInv, TypeOK, StepTypeOK
      <3>2. k("needs_review").cycle = job[s].cycle /\ k("other").cycle = job[s].cycle
        BY <3>1 DEF Jobs
      <3>3. PICK passed \in BOOLEAN :
              /\ Goto(s, IF passed THEN "gated" ELSE "red")
              /\ job' = [job EXCEPT ![s] = k(IF passed THEN "needs_review" ELSE "other")]
        BY <1>8 DEF SealVerification, AnyInv, IInv, TypeOK, StepTypeOK
      <3> HIDE DEF k
      <3>4. CASE passed = TRUE
        BY <3>2, <3>3, <3>4
      <3>5. CASE passed = FALSE
        BY <3>2, <3>3, <3>5
      <3> QED BY <3>4, <3>5
    <2>3. GateOn
      BY <2>1 DEF AnyInv, GateOK
    <2>4. RestOK'
      BY <2>1, <2>2, MovedOnly, JobOnly DEF AnyInv, RestOK, NoCycleZero
    <2>5. BuiltOK'
      <3>1. build' = build /\ build[job[s].cycle] # None
        BY <1>8, <2>1 DEF SealVerification, AnyInv, BuiltOK, UnderGate
      <3> QED BY <2>2, <3>1, MovedOnly, JobOnly DEF AnyInv, BuiltOK
    <2> QED BY <2>3, <2>4, <2>5 DEF GateOK
  <1> QED BY <1>1, <1>2, <1>3, <1>4, <1>5, <1>6, <1>7, <1>8
          DEF Handle, Dispatch, Verify, EndsQuietly

LEMMA AnyNext == AnyInv /\ [Next]_vars => AnyInv'
  <1> SUFFICES ASSUME AnyInv, [Next]_vars PROVE AnyInv'
    OBVIOUS
  <1>1. IInv'
    BY NextKeeps DEF AnyInv
  <1>2. CASE \/ \E s \in Steps : BuilderWrites(s)
             \/ SealSpecRev \/ Approver \/ ApproveCrash \/ Cleanup \/ Environment
             \/ UNCHANGED vars
    BY <1>1, <1>2, OutsideSteps, OutsideKeepsAny DEF AnyInv
  <1>3. CASE \E s \in Steps : Handle(s)
    BY <1>1, <1>3, HandleKeepsAny DEF AnyInv
  <1>4. CASE \E s \in Steps : Host(s)
    BY <1>1, <1>4, SpentSteps, SealReviewStep, SealRulingStep, SaysKeepsAny DEF AnyInv, Host
  <1>5. CASE \E s \in Steps : Crash(s)
    BY <1>1, <1>5, EndingSteps, EndsKeepsAny DEF AnyInv, EndsQuietly
  <1> QED BY <1>2, <1>3, <1>4, <1>5 DEF Next, Work

\* Whatever the callers do, a call at rest holds nothing and no gate is run
\* where none is configured.
THEOREM AnyInvariant == Spec => []AnyInv
  <1>1. Init => AnyInv
    <2> SUFFICES ASSUME Init PROVE AnyInv
      OBVIOUS
    <2>1. GateOK /\ RestOK /\ BuiltOK
      BY DEF Init, GateOK, RestOK, BuiltOK, UnderGate
    <2> QED BY <2>1, InitIInv DEF AnyInv
  <1> QED BY <1>1, AnyNext, PTL DEF Spec

\* Only a call that is routed leaves rest.
LEMMA WhoStarts ==
  ASSUME AnyInv, [Next]_vars, NEW s \in Steps, pc[s] = "idle", pc'[s] # "idle"
  PROVE  StartBuild(s) \/ StartVerification(s) \/ ResealRevise(s) \/ Kill(s) \/ Deliver(s)
  <1> DEFINE Others == \A t \in Steps : t # s => pc'[t] = pc[t]
  <1>1. CASE \/ \E t \in Steps : BuilderWrites(t)
             \/ SealSpecRev \/ Approver \/ ApproveCrash \/ Cleanup \/ Environment
             \/ UNCHANGED vars
    BY <1>1, OutsideSteps DEF Outside
  <1>2. CASE \E t \in Steps : Ask(t) \/ Report(t) \/ Host(t)
    BY <1>2, AskStep, SpentSteps, SealReviewStep, SealRulingStep DEF Host, Says
  <1>3. CASE \E t \in Steps : EndsQuietly(t) \/ WriteHandoff(t)
    BY <1>3, EndingSteps, HandoffStep, MovedOnly DEF Ends, Return
  <1>4. ASSUME NEW t \in Steps, Handle(t),
               ~(Ask(t) \/ Report(t) \/ EndsQuietly(t) \/ WriteHandoff(t))
        PROVE  StartBuild(s) \/ StartVerification(s) \/ ResealRevise(s) \/ Kill(s) \/ Deliver(s)
    <2>1. PICK loc : Goto(t, loc)
      BY <1>4 DEF Handle, Dispatch, Verify, EndsQuietly, StartBuild, StartVerification,
                  ResealRevise, Kill, Deliver, LockBuild, BuilderReturns, CommitLane,
                  MainUnchanged, SealBuild, LockVerification, SealVerification, SealRevise
    <2>2. t = s
      BY <2>1, MovedOnly
    <2> QED BY <1>4, <2>2
            DEF Handle, Dispatch, Verify, EndsQuietly, LockBuild, BuilderReturns, CommitLane,
                MainUnchanged, SealBuild, LockVerification, SealVerification, SealRevise
  <1> QED BY <1>1, <1>2, <1>3, <1>4 DEF Next, Work, EndsQuietly

\* Where call s, which was routed to st in a cycle, goes and to what end.
Started(s, st, loc, next) ==
  \E c \in Cycles : /\ Route(c) = st /\ pc'[s] = loc
                    /\ job'[s].cycle = c /\ job'[s].next = next

LEMMA StartedAt ==
  ASSUME AnyInv, NEW s \in Steps,
         StartBuild(s) \/ StartVerification(s) \/ ResealRevise(s) \/ Kill(s) \/ Deliver(s)
  PROVE  \/ Started(s, "needs_build", "build", "other")
         \/ Started(s, "needs_verification", "verify", "other")
         \/ Started(s, "verification_red", "handoff", "other")
         \/ Started(s, "killed", "handoff", "other")
         \/ Started(s, "awaiting_delivery_approval", "handoff", "awaiting_delivery_approval")
  <1>1. ASSUME NEW loc, NEW j, NEW c \in Cycles, Goes(s, loc, j), j.cycle = c
        PROVE  Started(s, Route(c), loc, j.next)
    <2>1. pc'[s] = loc /\ job'[s] = j
      BY <1>1, MovedOnly, JobOnly DEF Goes
    <2> QED BY <1>1, <2>1 DEF Started
  <1>2. CASE StartBuild(s)
    <2>1. PICK c \in Cycles :
            /\ Route(c) = "needs_build"
            /\ Goes(s, "build", [NoJob EXCEPT !.cycle = c, !.approval = approval, !.read = spec])
      BY <1>2, StartBuildStep
    <2> DEFINE j == [NoJob EXCEPT !.cycle = c, !.approval = approval, !.read = spec]
    <2>2. j.cycle = c /\ j.next = "other"
      BY DEF NoJob
    <2> HIDE DEF j
    <2>3. Started(s, "needs_build", "build", "other")
      BY <1>1, <2>1, <2>2 DEF j
    <2> QED BY <2>3
  <1>3. CASE StartVerification(s)
    <2>1. PICK c \in Cycles : /\ Route(c) = "needs_verification"
                              /\ Goes(s, "verify", [NoJob EXCEPT !.cycle = c])
      BY <1>3, VerifyingSteps
    <2> DEFINE j == [NoJob EXCEPT !.cycle = c]
    <2>2. j.cycle = c /\ j.next = "other"
      BY DEF NoJob
    <2> HIDE DEF j
    <2>3. Started(s, "needs_verification", "verify", "other")
      BY <1>1, <2>1, <2>2 DEF j
    <2> QED BY <2>3
  <1>4. CASE ResealRevise(s) \/ Kill(s)
    <2>1. PICK c \in Cycles, st \in {"verification_red", "killed"} :
            /\ Route(c) = st
            /\ Goes(s, "handoff", [NoJob EXCEPT !.cycle = c, !.read = spec])
      BY <1>4, ReviseSteps, ClosingSteps
    <2> DEFINE j == [NoJob EXCEPT !.cycle = c, !.read = spec]
    <2>2. j.cycle = c /\ j.next = "other"
      BY DEF NoJob
    <2> HIDE DEF j
    <2>3. Started(s, st, "handoff", "other")
      BY <1>1, <2>1, <2>2 DEF j
    <2> QED BY <2>1, <2>3
  <1>5. CASE Deliver(s)
    <2>1. PICK c \in Cycles :
            /\ Route(c) = "awaiting_delivery_approval"
            /\ Goes(s, "handoff", [NoJob EXCEPT
                      !.cycle = c, !.approval = approval, !.head = laneHead,
                      !.read = spec, !.next = "awaiting_delivery_approval"])
      BY <1>5, ClosingSteps
    <2> DEFINE j == [NoJob EXCEPT
                       !.cycle = c, !.approval = approval, !.head = laneHead,
                       !.read = spec, !.next = "awaiting_delivery_approval"]
    <2>2. j.cycle = c /\ j.next = "awaiting_delivery_approval"
      BY DEF NoJob
    <2> HIDE DEF j
    <2>3. Started(s, "awaiting_delivery_approval", "handoff", "awaiting_delivery_approval")
      BY <1>1, <2>1, <2>2 DEF j
    <2> QED BY <2>3
  <1> QED BY <1>2, <1>3, <1>4, <1>5

\* No call goes on with an artifact it read and that was edited after it was
\* sealed (_verified_load at the point of use), in whatever way cycles were
\* told apart.
THEOREM EditedIsNotActedOn == Spec => TamperedNeverActedOn
  <1>1. AnyInv /\ [Next]_vars =>
          [\A s \in Steps : pc[s] = "idle" /\ pc'[s] # "idle" =>
             corrupt \cap ActedOn(pc'[s], job'[s].next, job'[s].cycle) = {}]_vars
    <2> SUFFICES ASSUME AnyInv, [Next]_vars, NEW s \in Steps,
                        pc[s] = "idle", pc'[s] # "idle"
                 PROVE  corrupt \cap ActedOn(pc'[s], job'[s].next, job'[s].cycle) = {}
      OBVIOUS
    <2>1. StartBuild(s) \/ StartVerification(s) \/ ResealRevise(s) \/ Kill(s) \/ Deliver(s)
      BY WhoStarts
    <2>2. CASE Started(s, "needs_build", "build", "other")
      <3>1. PICK c \in Cycles : /\ Route(c) = "needs_build" /\ pc'[s] = "build"
                                /\ job'[s].cycle = c /\ job'[s].next = "other"
        BY <2>2 DEF Started
      <3>2. {<<"approval", 0>>, <<"build", c>>, <<"ruling", c>>} \cap corrupt = {}
        BY <3>1, RoutedIntact
      <3>3. <<"spec", 0>> \notin corrupt /\ (c > 1 => <<"ruling", c - 1>> \notin corrupt)
        BY <3>1, RoutedToBuild DEF BuildInputsIntact, Intact
      <3>4. <<"ruling", c - 1>> \notin corrupt
        <4>1. CASE c = 1
          BY <4>1 DEF AnyInv, RestOK
        <4>2. CASE c # 1
          BY <3>3, <4>2, ConstantsAssumption DEF Cycles
        <4> QED BY <4>1, <4>2
      <3> QED BY <3>1, <3>2, <3>3, <3>4 DEF ActedOn
    <2>3. CASE Started(s, "needs_verification", "verify", "other")
      BY <2>3, RoutedIntact DEF Started, ActedOn
    <2>4. CASE \/ Started(s, "verification_red", "handoff", "other")
               \/ Started(s, "killed", "handoff", "other")
      BY <2>4, RoutedIntact, RoutedPastGate DEF Started, ActedOn, Intact
    <2>5. CASE Started(s, "awaiting_delivery_approval", "handoff", "awaiting_delivery_approval")
      <3>1. PICK c \in Cycles :
              /\ Route(c) = "awaiting_delivery_approval" /\ pc'[s] = "handoff"
              /\ job'[s].cycle = c /\ job'[s].next = "awaiting_delivery_approval"
        BY <2>5 DEF Started
      <3>2. {<<"approval", 0>>, <<"build", c>>, <<"ruling", c>>} \cap corrupt = {}
        BY <3>1, RoutedIntact
      <3>3. {<<"verification", c>>, <<"review", c>>} \cap corrupt = {}
        BY <3>1, RoutedPastGate DEF Intact
      <3>4. {<<"integrity", 0>>, <<"baseline", 0>>} \cap corrupt = {}
        BY <3>1, RoutedToDelivery DEF RecheckOk, Intact
      <3> QED BY <3>1, <3>2, <3>3, <3>4 DEF ActedOn
    <2> QED BY <2>1, <2>2, <2>3, <2>4, <2>5, StartedAt
  <1> QED BY AnyInvariant, <1>1, PTL DEF TamperedNeverActedOn, Spec

\* While a cycle is open and nothing is disturbed, what is presented about a
\* goal (derive_goal_public_state) is what the next call will answer.
THEOREM PresentedIsRouted == Spec => []PublicStateMirrorsOpen
  <1>1. AnyInv => PublicStateMirrorsOpen
    <2> SUFFICES ASSUME AnyInv, NEW c \in Cycles, Undisturbed(c), ruling[c] = None
                 PROVE  Route(c) = PublicState(c, GateOn)
      BY DEF PublicStateMirrorsOpen
    <2>1. ~breach /\ \A kind, n : Intact(kind, n)
      BY DEF Undisturbed, StopRules, Intact
    <2>2. NeedsGate(c) \/ build[c].pushback \/ verification[c] = None
      BY DEF NeedsGate, AnyInv, GateOK
    <2>3. CycleRoute(c) = PublicCycle(c, GateOn)
      BY <2>1, <2>2 DEF CycleRoute, PublicCycle, NeedsGate, RedPending, BuildInputsIntact
    <2> QED BY <2>1, <2>3 DEF Route, PublicState, Undisturbed, Bound
  <1> QED BY AnyInvariant, <1>1, PTL
-----------------------------------------------------------------------------
(***************************************************************************)
(* For one caller.                                                         *)
(***************************************************************************)
LEMMA Numbers ==
  ASSUME AnyInv
  PROVE  /\ laneHead \in Nat
         /\ \A c \in Cycles : build[c] # None => build[c].head \in Nat
         /\ \A c \in Cycles : verification[c] # None => verification[c].head \in Nat
         /\ \A s \in Steps : job[s].head \in Heads => job[s].head \in Nat
  BY ConstantsAssumption
  DEF AnyInv, IInv, TypeOK, LaneTypeOK, CycleTypeOK, Heads, BuildResults, Records

\* As long as nothing is built or verified, what was due stays due.
LEMMA Settled ==
  ASSUME SoleInv, UNCHANGED <<build, verification>>,
         laneHead' \in Nat, laneHead <= laneHead'
  PROVE  /\ HeadsOK' /\ NoFourthSameRed'
         /\ \A c \in Cycles : Passed(c) <=> Passed(c)'
         /\ \A c \in Cycles : Earned(c) <=> Earned(c)'
         /\ \A s \in Steps : pc'[s] = pc[s] /\ job'[s] = job[s] => JobDue(s)'
         /\ \A s \in Steps : resp'[s] = resp[s] => AnswerDue(s)'
  <1> USE DEF SoleInv
  <1>1. HeadsOK'
    BY Numbers DEF HeadsOK
  <1>2. \A c \in Cycles : RepeatedRed(c) <=> RepeatedRed(c)'
    BY DEF RepeatedRed, SameRed
  <1>3. \A c \in Cycles : (Passed(c) <=> Passed(c)') /\ (Earned(c) <=> Earned(c)')
    BY DEF Passed, Earned
  <1>4. NoFourthSameRed'
    BY <1>2 DEF NoFourthSameRed
  <1>5. ASSUME NEW s \in Steps, pc'[s] = pc[s], job'[s] = job[s]
        PROVE  JobDue(s)'
    <2>1. BuildDue(s)' /\ VerifyDue(s)'
      <3>1. JobOK
        BY DEF AnyInv, IInv
      <3>2. pc[s] \in Building \cup Verifying => job[s].cycle \in Cycles
        BY <3>1 DEF JobOK, Building, Verifying
      <3>3. pc[s] \in {"check", "seal", "verifying"} => job[s].head \in Nat
        BY <3>1, Numbers DEF JobOK
      <3>4. BuildDue(s) /\ VerifyDue(s)
        BY DEF JobDue
      <3>5. BuildDue(s)'
        BY <1>2, <1>5, <3>2, <3>3, <3>4, Numbers DEF BuildDue
      <3>6. VerifyDue(s)'
        BY <1>5, <3>2, <3>3, <3>4, Numbers DEF VerifyDue
      <3> QED BY <3>5, <3>6
    <2>2. ReviewDue(s)'
      BY <1>5 DEF JobDue, ReviewDue, Passed
    <2> QED BY <2>1, <2>2 DEF JobDue
  <1>6. ASSUME NEW s \in Steps, resp'[s] = resp[s]
        PROVE  AnswerDue(s)'
    BY <1>6 DEF AnswerDue, Passed, Earned
  <1> QED BY <1>1, <1>3, <1>4, <1>5, <1>6

\* Nobody accepts but what was earned, or judges but what was built.
LEMMA AcceptsKept ==
  ASSUME SoleInv, UNCHANGED <<build, verification>>, laneHead' \in Nat, laneHead <= laneHead',
         \A c \in Cycles : Accepts(c)' => Accepts(c) \/ Earned(c),
         \A c \in Cycles : Judged(c)' => Judged(c) \/ build[c] # None
  PROVE  RulingOK' /\ ChainOK'
  <1>1. RulingOK'
    BY Settled DEF SoleInv, RulingOK
  <1>2. ChainOK'
    BY DEF SoleInv, ChainOK
  <1> QED BY <1>1, <1>2

LEMMA OutsideKeepsSole ==
  ASSUME SoleInv, AnyInv', Outside
  PROVE  SoleInv'
  <1>1. UNCHANGED <<build, verification>> /\ laneHead' \in Nat /\ laneHead <= laneHead'
    BY Numbers DEF Outside, SoleInv
  <1>2. RulingOK' /\ ChainOK'
    BY <1>1, AcceptsKept DEF Outside, RulingsKept
  <1>3. \A s \in Steps : JobDue(s)' /\ AnswerDue(s)'
    BY <1>1, Settled DEF Outside
  <1> QED BY <1>1, <1>2, <1>3, Settled DEF SoleInv

\* What an answer asks for is due.
Due(a) == /\ a.state = "needs_review" => build[a.cycle] # None /\ Passed(a.cycle)
          /\ a.state \in {"pushback_raised", "needs_ruling", "signer_invariant_violated"} =>
               Earned(a.cycle)

LEMMA AnswersKept ==
  ASSUME SoleInv, UNCHANGED <<build, verification>>, laneHead' \in Nat, laneHead <= laneHead',
         NEW s \in Steps, NEW a, resp' = [resp EXCEPT ![s] = a], Due(a)
  PROVE  \A t \in Steps : AnswerDue(t)'
  <1>1. resp'[s] = a /\ \A t \in Steps : t # s => resp'[t] = resp[t]
    BY DEF SoleInv, AnyInv, IInv, TypeOK, StepTypeOK
  <1>2. AnswerDue(s)'
    BY <1>1 DEF AnswerDue, Due, Passed, Earned
  <1> QED BY <1>1, <1>2, Settled

LEMMA SaysKeepsSole ==
  ASSUME SoleInv, AnyInv', NEW s \in Steps, NEW a, Says(s, a), Due(a),
         \A c \in Cycles : Accepts(c)' => Accepts(c) \/ Earned(c),
         \A c \in Cycles : Judged(c)' => Judged(c) \/ build[c] # None
  PROVE  SoleInv'
  <1>1. UNCHANGED <<build, verification>> /\ laneHead' \in Nat /\ laneHead <= laneHead'
    BY Numbers DEF Says, SoleInv
  <1>2. RulingOK' /\ ChainOK'
    BY <1>1, AcceptsKept
  <1>3. \A t \in Steps : AnswerDue(t)'
    BY <1>1, AnswersKept DEF Says
  <1>4. \A t \in Steps : JobDue(t)'
    BY <1>1, Settled DEF Says
  <1> QED BY <1>1, <1>2, <1>3, <1>4, Settled DEF SoleInv

LEMMA NothingDue == Due(NoAnswer)
  BY DEF Due, NoAnswer

LEMMA EndsKeepsSole ==
  ASSUME SoleInv, AnyInv', NEW s \in Steps, NEW a, Ends(s, a), Due(a)
  PROVE  SoleInv'
  <1>1. UNCHANGED <<build, verification>> /\ laneHead' \in Nat /\ laneHead <= laneHead'
    BY Numbers DEF Ends, SoleInv
  <1>2. RulingOK' /\ ChainOK'
    BY <1>1, AcceptsKept DEF Ends, RulingsKept
  <1>3. \A t \in Steps : AnswerDue(t)'
    BY <1>1, AnswersKept DEF Ends, Return
  <1>4. /\ pc'[s] = "idle" /\ \A t \in Steps : t # s => pc'[t] = pc[t]
        /\ job'[s] = NoJob /\ \A t \in Steps : t # s => job'[t] = job[t]
    <2>1. Goto(s, "idle") /\ job' = [job EXCEPT ![s] = NoJob]
      BY DEF Ends, Return
    <2> QED BY <2>1, MovedOnly, JobOnly DEF SoleInv
  <1>5. JobDue(s)'
    BY <1>4 DEF JobDue, BuildDue, VerifyDue, ReviewDue, Building, Verifying, NoJob
  <1> QED BY <1>1, <1>2, <1>3, <1>4, <1>5, Settled DEF SoleInv

LEMMA GoesKeepsSole ==
  ASSUME SoleInv, AnyInv', NEW s \in Steps, NEW loc, NEW j, Goes(s, loc, j),
         laneHead' \in Nat, laneHead <= laneHead', RulingsKept, JobDue(s)'
  PROVE  SoleInv'
  <1>1. UNCHANGED <<build, verification>>
    BY DEF Goes
  <1>2. RulingOK' /\ ChainOK'
    BY <1>1, AcceptsKept DEF RulingsKept
  <1>3. \A t \in Steps : AnswerDue(t)'
    BY <1>1, Settled DEF Goes
  <1>4. \A t \in Steps : t # s => JobDue(t)'
    BY <1>1, MovedOnly, JobOnly, Settled DEF Goes, SoleInv
  <1> QED BY <1>1, <1>2, <1>3, <1>4, Settled DEF SoleInv

\* What a call answers is due when it answers.
LEMMA AskIsDue ==
  ASSUME SoleInv, NEW c \in Cycles, NEW h
  PROVE  Due([state |-> Route(c), cycle |-> c, head |-> h])
  <1> DEFINE a == [state |-> Route(c), cycle |-> c, head |-> h]
  <1>1. Route(c) \in {"needs_review", "needs_ruling"} =>
          build[c] # None /\ Passed(c)
    <2> SUFFICES ASSUME Route(c) \in {"needs_review", "needs_ruling"}
                 PROVE  build[c] # None /\ Passed(c)
      OBVIOUS
    <2>1. build[c] # None /\ (NeedsGate(c) => verification[c] # None) /\ ~RedPending(c)
      BY RoutedPastGate
    <2>2. ruling[c] = None
      <3>1. ruling[c] # None => Route(c) = RulingRoute(c)
        BY RoutedPastGate
      <3> QED BY <3>1 DEF RulingRoute
    <2>3. ~build[c].pushback
      BY <2>2, RoutedPastGate
    <2> QED BY <2>1, <2>2, <2>3 DEF Passed, NeedsGate, RedPending
  <1>2. Route(c) = "pushback_raised" => build[c] # None /\ build[c].pushback
    <2>1. Route(c) = "pushback_raised" => Route(c) = CycleRoute(c)
      BY RoutedInCycle
    <2>2. RulingRoute(c) # "pushback_raised"
      BY DEF RulingRoute
    <2> QED BY <2>1, <2>2 DEF CycleRoute
  <1>3. Route(c) = "signer_invariant_violated" => Earned(c)
    <2> SUFFICES ASSUME Route(c) = "signer_invariant_violated" PROVE Earned(c)
      OBVIOUS
    <2>1. ruling[c] # None /\ Route(c) = RulingRoute(c)
      BY RoutedToRuling
    <2>2. ruling[c].disposition = "accept"
      BY <2>1 DEF RulingRoute
    <2>3. Accepts(c)
      BY <2>1, <2>2, RoutedIntact DEF Accepts, Intact
    <2> QED BY <2>3 DEF SoleInv, RulingOK
  <1>4. a.state = Route(c) /\ a.cycle = c
    OBVIOUS
  <1> HIDE DEF a
  <1> QED BY <1>1, <1>2, <1>3, <1>4 DEF Due, Earned, a

LEMMA HandoffIsDue ==
  ASSUME SoleInv, NEW s \in Steps
  PROVE  Due(HandoffAnswer(s))
  <1>1. ReviewDue(s)
    BY DEF SoleInv, JobDue
  <1> QED BY <1>1, NothingDue DEF HandoffAnswer, ReviewDue, Due

\* A call that goes on: what it is on its way to seal is not there yet.
LEMMA StartBuildSole ==
  ASSUME SoleInv, AnyInv', NEW s \in Steps, StartBuild(s)
  PROVE  SoleInv'
  <1>1. PICK c \in Cycles :
          /\ Route(c) = "needs_build" /\ IsCurrent(c) /\ laneHead' = laneHead /\ RulingsKept
          /\ Goes(s, "build", [NoJob EXCEPT !.cycle = c, !.approval = approval, !.read = spec])
    BY StartBuildStep DEF SoleInv
  <1> DEFINE j == [NoJob EXCEPT !.cycle = c, !.approval = approval, !.read = spec]
  <1>2. j.cycle = c /\ j.next = "other"
    BY DEF NoJob
  <1>3. Goes(s, "build", j)
    BY <1>1
  <1> HIDE DEF j
  <1>4. pc'[s] = "build" /\ job'[s] = j
    BY <1>3, MovedOnly, JobOnly DEF Goes, SoleInv
  <1>5. build'[c] = None /\ ~RepeatedRed(c)'
    BY <1>1, RoutedToBuild DEF Goes, RepeatedRed, SameRed
  <1>7. c > 1 => build'[c - 1] # None
    <2>1. build[c] = None /\ build' = build
      BY <1>1, RoutedToBuild DEF Goes
    <2>2. ~HasDir(c)
      BY <2>1 DEF HasDir, SoleInv, HeadsOK, ChainOK, Judged
    <2>3. c > 1 => c - 1 \in Cycles /\ Closed(c - 1)
      BY <1>1, <2>2, ConstantsAssumption DEF IsCurrent, Cycles
    <2> QED BY <2>1, <2>3 DEF Closed, SoleInv, ChainOK, Judged
  <1>6. JobDue(s)'
    BY <1>2, <1>4, <1>5, <1>7 DEF JobDue, BuildDue, VerifyDue, ReviewDue, Verifying
  <1> QED BY <1>1, <1>3, <1>6, GoesKeepsSole, Numbers DEF SoleInv

LEMMA BuildingSole ==
  ASSUME SoleInv, AnyInv', NEW s \in Steps,
         LockBuild(s) \/ BuilderReturns(s) \/ CommitLane(s) \/ MainUnchanged(s)
  PROVE  SoleInv'
  <1>0. PICK loc \in {"building", "commit", "check", "seal"} : \E j :
          /\ pc[s] \in Building /\ Goes(s, loc, j) /\ RulingsKept
          /\ laneHead' \in {laneHead, laneHead + 1}
          /\ j.cycle = job[s].cycle /\ j.next = job[s].next
          /\ loc \in {"check", "seal"} =>
               j.head = laneHead' \/ (pc[s] = "check" /\ j = job[s] /\ laneHead' = laneHead)
    <2> USE BuildingSteps DEF SoleInv, Building
    <2>1. CASE LockBuild(s)
      BY <2>1
    <2>2. CASE BuilderReturns(s)
      <3>1. PICK p \in BOOLEAN : Goes(s, "commit", [job[s] EXCEPT !.pushback = p])
        BY <2>2
      <3>2. pc[s] = "building" /\ laneHead' = laneHead /\ RulingsKept
        BY <2>2
      <3>3. job[s] \in Jobs
        BY DEF AnyInv, IInv, TypeOK, StepTypeOK
      <3>4. /\ [job[s] EXCEPT !.pushback = p].cycle = job[s].cycle
            /\ [job[s] EXCEPT !.pushback = p].next = job[s].next
        BY <3>3 DEF Jobs
      <3> QED BY <3>1, <3>2, <3>4
    <2>3. CASE CommitLane(s)
      <3>1. /\ pc[s] = "commit" /\ laneHead' \in {laneHead, laneHead + 1} /\ RulingsKept
            /\ Goes(s, "check", [job[s] EXCEPT !.head = laneHead'])
        BY <2>3
      <3>2. job[s] \in Jobs
        BY DEF AnyInv, IInv, TypeOK, StepTypeOK
      <3> DEFINE k == [job[s] EXCEPT !.head = laneHead']
      <3>3. k.cycle = job[s].cycle /\ k.next = job[s].next /\ k.head = laneHead'
        BY <3>2 DEF Jobs
      <3>4. Goes(s, "check", k)
        BY <3>1
      <3> HIDE DEF k
      <3> QED BY <3>1, <3>3, <3>4
    <2>4. CASE MainUnchanged(s)
      BY <2>4
    <2> QED BY <2>1, <2>2, <2>3, <2>4
  <1>1. PICK j :
          /\ pc[s] \in Building /\ Goes(s, loc, j) /\ RulingsKept
          /\ laneHead' \in {laneHead, laneHead + 1}
          /\ j.cycle = job[s].cycle /\ j.next = job[s].next
          /\ loc \in {"check", "seal"} =>
               j.head = laneHead' \/ (pc[s] = "check" /\ j = job[s] /\ laneHead' = laneHead)
    BY <1>0
  <1>2. /\ pc'[s] = loc /\ job'[s] = j /\ UNCHANGED <<build, verification>>
        /\ laneHead \in Nat /\ laneHead' \in Nat /\ laneHead <= laneHead'
    <2>1. pc'[s] = loc /\ job'[s] = j /\ UNCHANGED <<build, verification>>
      BY <1>1, MovedOnly, JobOnly DEF Goes, SoleInv
    <2>2. laneHead \in Nat /\ laneHead' \in Nat /\ laneHead <= laneHead'
      BY <1>1, Numbers DEF SoleInv
    <2> QED BY <2>1, <2>2
  <1>3. /\ build[job[s].cycle] = None /\ ~RepeatedRed(job[s].cycle) /\ ReviewDue(s)
        /\ job[s].cycle > 1 => build[job[s].cycle - 1] # None
        /\ pc[s] = "check" => job[s].head <= laneHead /\ job[s].head \in Nat
    BY <1>1, Numbers DEF SoleInv, JobDue, BuildDue, Building, AnyInv, IInv, JobOK
  <1>4. BuildDue(s)'
    BY <1>1, <1>2, <1>3 DEF BuildDue, Building, RepeatedRed, SameRed
  <1>5. VerifyDue(s)' /\ ReviewDue(s)'
    BY <1>1, <1>2, <1>3 DEF VerifyDue, ReviewDue, Verifying, Passed
  <1>6. JobDue(s)'
    BY <1>4, <1>5 DEF JobDue
  <1> QED BY <1>1, <1>2, <1>6, GoesKeepsSole

LEMMA VerifyingSole ==
  ASSUME SoleInv, AnyInv', NEW s \in Steps, StartVerification(s) \/ LockVerification(s)
  PROVE  SoleInv'
  <1>1. CASE StartVerification(s)
    <2>1. PICK c \in Cycles :
            /\ Route(c) = "needs_verification" /\ laneHead' = laneHead /\ RulingsKept
            /\ IsCurrent(c) /\ Goes(s, "verify", [NoJob EXCEPT !.cycle = c])
      BY <1>1, VerifyingSteps DEF SoleInv
    <2> DEFINE j == [NoJob EXCEPT !.cycle = c]
    <2>2. j.cycle = c /\ j.next = "other"
      BY DEF NoJob
    <2> HIDE DEF j
    <2>3. pc'[s] = "verify" /\ job'[s] = j /\ UNCHANGED <<build, verification>>
      BY <2>1, MovedOnly, JobOnly DEF Goes, SoleInv, j
    <2>4. /\ build[c] # None /\ ~build[c].pushback /\ verification[c] = None
          /\ \A d \in Cycles : d > c => build[d] = None
      BY <2>1, RoutedToGate DEF NeedsGate, IsCurrent, HasDir
    <2>5. JobDue(s)'
      BY <2>2, <2>3, <2>4 DEF JobDue, BuildDue, VerifyDue, ReviewDue, Building
    <2> QED BY <2>1, <2>5, GoesKeepsSole, Numbers DEF j, SoleInv
  <1>2. CASE LockVerification(s)
    <2>1. /\ pc[s] = "verify" /\ laneHead' = laneHead /\ RulingsKept
          /\ Goes(s, "verifying", [job[s] EXCEPT !.head = laneHead])
      BY <1>2, VerifyingSteps DEF SoleInv
    <2> DEFINE j == [job[s] EXCEPT !.head = laneHead]
    <2>2. j.cycle = job[s].cycle /\ j.next = job[s].next /\ j.head = laneHead
      BY DEF SoleInv, AnyInv, IInv, TypeOK, StepTypeOK, Jobs
    <2> HIDE DEF j
    <2>3. pc'[s] = "verifying" /\ job'[s] = j /\ UNCHANGED <<build, verification>>
      BY <2>1, MovedOnly, JobOnly DEF Goes, SoleInv, j
    <2>4. job[s].cycle \in Cycles /\ VerifyDue(s) /\ ReviewDue(s)
      BY <2>1 DEF SoleInv, JobDue, AnyInv, IInv, JobOK
    <2>5. build[job[s].cycle].head <= laneHead
      BY <2>1, <2>4 DEF SoleInv, HeadsOK, VerifyDue, Verifying
    <2>6. VerifyDue(s)'
      BY <2>1, <2>2, <2>3, <2>4, <2>5, Numbers DEF VerifyDue, Verifying, SoleInv
    <2>7. BuildDue(s)' /\ ReviewDue(s)'
      BY <2>2, <2>3, <2>4 DEF BuildDue, ReviewDue, Building, Passed
    <2>8. JobDue(s)'
      BY <2>6, <2>7 DEF JobDue
    <2> QED BY <2>1, <2>8, GoesKeepsSole, Numbers DEF j, SoleInv
  <1> QED BY <1>1, <1>2

LEMMA ClosingSole ==
  ASSUME SoleInv, AnyInv', NEW s \in Steps,
         SealRevise(s) \/ ResealRevise(s) \/ Kill(s) \/ Deliver(s)
  PROVE  SoleInv'
  <1>0. PICK loc \in {"gated", "handoff"} : \E j :
          /\ Goes(s, loc, j) /\ RulingsKept /\ laneHead' = laneHead
          /\ \/ j.next \in {"other", "awaiting_delivery_approval"}
             \/ j.next = job[s].next /\ j.cycle = job[s].cycle
    <2>1. CASE SealRevise(s)
      <3>1. /\ Goes(s, "gated", [job[s] EXCEPT !.read = spec]) /\ RulingsKept
            /\ laneHead' = laneHead
        BY <2>1, ReviseSteps DEF SoleInv
      <3>2. job[s] \in Jobs
        BY DEF SoleInv, AnyInv, IInv, TypeOK, StepTypeOK
      <3>3. /\ [job[s] EXCEPT !.read = spec].next = job[s].next
            /\ [job[s] EXCEPT !.read = spec].cycle = job[s].cycle
        BY <3>2 DEF Jobs
      <3> QED BY <3>1, <3>3
    <2>2. CASE ResealRevise(s) \/ Kill(s)
      <3>1. PICK c \in Cycles :
              /\ Goes(s, "handoff", [NoJob EXCEPT !.cycle = c, !.read = spec])
              /\ RulingsKept /\ laneHead' = laneHead
        BY <2>2, ReviseSteps, ClosingSteps DEF SoleInv
      <3>2. [NoJob EXCEPT !.cycle = c, !.read = spec].next = "other"
        BY DEF NoJob
      <3> QED BY <3>1, <3>2
    <2>3. CASE Deliver(s)
      <3> DEFINE k(c) == [NoJob EXCEPT
                            !.cycle = c, !.approval = approval, !.head = laneHead,
                            !.read = spec, !.next = "awaiting_delivery_approval"]
      <3>1. PICK c \in Cycles : Goes(s, "handoff", k(c)) /\ RulingsKept /\ laneHead' = laneHead
        BY <2>3, ClosingSteps DEF SoleInv
      <3>2. k(c).next = "awaiting_delivery_approval"
        BY DEF NoJob
      <3> HIDE DEF k
      <3> QED BY <3>1, <3>2
    <2> QED BY <2>1, <2>2, <2>3
  <1>1. PICK j :
          /\ Goes(s, loc, j) /\ RulingsKept /\ laneHead' = laneHead
          /\ \/ j.next \in {"other", "awaiting_delivery_approval"}
             \/ j.next = job[s].next /\ j.cycle = job[s].cycle
    BY <1>0
  <1>2. pc'[s] = loc /\ job'[s] = j /\ UNCHANGED <<build, verification>>
    BY <1>1, MovedOnly, JobOnly DEF Goes, SoleInv
  <1>3. ReviewDue(s)'
    BY <1>1, <1>2 DEF SoleInv, JobDue, ReviewDue, Passed
  <1>4. JobDue(s)'
    BY <1>1, <1>2, <1>3 DEF JobDue, BuildDue, VerifyDue, Building, Verifying
  <1> QED BY <1>1, <1>4, GoesKeepsSole, Numbers DEF SoleInv

\* With one caller a build is sealed once: what anybody relied on stays.
LEMMA SealBuildSole ==
  ASSUME OneCaller, SoleInv, AnyInv', NEW s \in Steps, SealBuild(s)
  PROVE  SoleInv'
  <1> DEFINE c == job[s].cycle
  <1>1. /\ pc[s] = "seal" /\ c \in Cycles /\ job[s].head \in Nat /\ job[s].head <= laneHead
        /\ build[c] = None /\ ~RepeatedRed(c) /\ ReviewDue(s)
        /\ c > 1 => build[c - 1] # None
    BY Numbers DEF SealBuild, SoleInv, JobDue, BuildDue, Building, AnyInv, IInv, JobOK
  <1>2. verification[c] = None
    BY <1>1 DEF SoleInv, HeadsOK
  <1>3. /\ verification' = verification /\ laneHead' = laneHead /\ resp' = resp
        /\ build'[c] = [head |-> job[s].head, pushback |-> job[s].pushback]
        /\ build'[c] # None
        /\ \A d \in Cycles : d # c => build'[d] = build[d]
    <2>1. build \in [Cycles -> BuildResults \cup {None}]
          /\ build' \in [Cycles -> BuildResults \cup {None}]
      BY DEF SoleInv, AnyInv, IInv, TypeOK, CycleTypeOK
    <2>2. build' = [build EXCEPT ![c] = [head |-> job[s].head, pushback |-> job[s].pushback]]
          /\ verification' = verification /\ laneHead' = laneHead /\ resp' = resp
      BY DEF SealBuild, laneVars
    <2>3. [head |-> job[s].head, pushback |-> job[s].pushback] \in BuildResults
      BY <1>1 DEF SoleInv, AnyInv, IInv, JobOK, TypeOK, StepTypeOK, Jobs, BuildResults
    <2>4. [head |-> job[s].head, pushback |-> job[s].pushback] # None
      BY <2>3, NoneAssumption
    <2> QED BY <1>1, <2>1, <2>2, <2>4
  <1>4. pc'[s] = "handoff" /\ job'[s].cycle = c /\ job'[s].next = job[s].next
    <2>1. job[s] \in Jobs
      BY DEF SoleInv, AnyInv, IInv, TypeOK, StepTypeOK
    <2> DEFINE j == [job[s] EXCEPT !.read = spec]
    <2>2. Goto(s, "handoff") /\ job' = [job EXCEPT ![s] = j]
      BY DEF SealBuild
    <2>3. j.cycle = c /\ j.next = job[s].next
      BY <2>1 DEF Jobs
    <2> HIDE DEF j
    <2> QED BY <2>2, <2>3, MovedOnly, JobOnly DEF SoleInv
  <1>5. RulingsKept
    <2>1. PICK tie \in BOOLEAN : ruling' = [ruling EXCEPT ![c] = Aged(@, tie)]
      BY DEF SealBuild
    <2>2. ruling \in [Cycles -> Rulings \cup {None}]
      BY DEF SoleInv, AnyInv, IInv, TypeOK, CycleTypeOK
    <2>3. \A d \in Cycles : ruling'[d] # None =>
            ruling[d] # None /\ ruling'[d].disposition = ruling[d].disposition
      BY <1>1, <2>1, <2>2 DEF Aged, Rulings
    <2>4. \A d \in Cycles : Intact("ruling", d)' => Intact("ruling", d)
      BY DEF SealBuild, Intact
    <2>5. \A d \in Cycles : review'[d] # None => review[d] # None
      BY <1>1 DEF SealBuild, Aged, SoleInv, AnyInv, IInv, TypeOK, CycleTypeOK
    <2> QED BY <2>3, <2>4, <2>5 DEF RulingsKept, Accepts, Judged
  <1> HIDE DEF c
  <1>6. \A d \in Cycles : (Passed(d) => Passed(d)') /\ (Earned(d) => Earned(d)')
    BY <1>1, <1>3 DEF Passed, Earned
  <1>7. JobDue(s)'
    BY <1>1, <1>3, <1>4 DEF JobDue, BuildDue, VerifyDue, ReviewDue, Building, Verifying, Passed, c
  <1>8. AnswerDue(s)'
    <2>1. AnswerDue(s) /\ (resp[s].state # "other" => resp[s].cycle \in Cycles)
      BY DEF SoleInv, AnyInv, IInv, AnswerOK
    <2> QED BY <1>3, <1>6, <2>1 DEF AnswerDue
  <1>9. RulingOK'
    BY <1>5, <1>6 DEF SoleInv, RulingOK, RulingsKept
  <1>10. HeadsOK'
    <2> SUFFICES ASSUME NEW d \in Cycles PROVE
                   /\ build'[d] # None => build'[d].head <= laneHead'
                   /\ verification'[d] # None =>
                        /\ build'[d] # None /\ build'[d].head <= verification'[d].head
                        /\ verification'[d].head <= laneHead'
      BY DEF HeadsOK
    <2>1. CASE d = c
      BY <1>1, <1>2, <1>3, <2>1
    <2>2. CASE d # c
      BY <1>3, <2>2 DEF SoleInv, HeadsOK
    <2> QED BY <2>1, <2>2
  <1>11. NoFourthSameRed'
    <2> SUFFICES ASSUME NEW e \in Cycles, NEW d \in Cycles, NEW g \in Signatures, e + 2 < d,
                        \A k \in e .. (e + 2) : SameRed(g, k)
                 PROVE  build'[d] = None
      BY <1>3 DEF NoFourthSameRed, SameRed
    <2>1. build[d] = None
      BY DEF SoleInv, NoFourthSameRed, SameRed
    <2>2. e \in Nat /\ d \in Nat /\ e > 0
      BY ConstantsAssumption DEF Cycles
    <2>3. ASSUME d = c PROVE FALSE
      <3>1. CASE e + 3 = c
        BY <1>1, <2>2, <3>1 DEF RepeatedRed
      <3>2. CASE e + 3 < c
        <4>1. c - 1 \in Cycles /\ e + 2 < c - 1 /\ build[c - 1] # None
          BY <1>1, <2>2, <3>2, ConstantsAssumption DEF Cycles
        <4> QED BY <4>1 DEF SoleInv, NoFourthSameRed, SameRed
      <3> QED BY <2>2, <2>3, <3>1, <3>2
    <2> QED BY <1>3, <2>1, <2>3
  <1>12. ChainOK'
    <2>1. \A d \in Cycles : build[d] # None => build'[d] # None
      BY <1>3
    <2>2. \A d \in Cycles : Judged(d)' => build'[d] # None
      BY <1>5, <2>1 DEF RulingsKept, SoleInv, ChainOK
    <2>3. \A d \in Cycles : build'[d] # None /\ d > 1 => build[d - 1] # None
      BY <1>1, <1>3 DEF SoleInv, ChainOK
    <2>4. \A d \in Cycles : d > 1 => d - 1 \in Cycles
      BY ConstantsAssumption DEF Cycles
    <2> QED BY <2>1, <2>2, <2>3, <2>4 DEF ChainOK
  <1>13. \A t \in Steps : JobDue(t)' /\ AnswerDue(t)'
    BY <1>7, <1>8 DEF OneCaller
  <1> QED BY <1>9, <1>10, <1>11, <1>12, <1>13 DEF SoleInv

\* And so is a verification.
LEMMA SealVerificationSole ==
  ASSUME OneCaller, SoleInv, AnyInv', NEW s \in Steps, SealVerification(s)
  PROVE  SoleInv'
  <1> DEFINE c == job[s].cycle
  <1>1. /\ pc[s] = "verifying" /\ c \in Cycles /\ job[s].head \in Nat
        /\ build[c] # None /\ ~build[c].pushback /\ verification[c] = None
        /\ \A d \in Cycles : d > c => build[d] = None
        /\ build[c].head <= job[s].head /\ job[s].head <= laneHead /\ GateOn
    BY Numbers DEF SealVerification, SoleInv, JobDue, VerifyDue, Verifying, AnyInv, IInv, JobOK,
                   GateOK
  <1>2. PICK passed \in BOOLEAN, sig \in Signatures :
          /\ verification' = [verification EXCEPT
               ![c] = [passed |-> passed, signature |-> sig, head |-> job[s].head]]
          /\ Goto(s, IF passed THEN "gated" ELSE "red")
          /\ job' = [job EXCEPT ![s].read = spec,
                                ![s].next = IF passed THEN "needs_review" ELSE "other"]
    BY DEF SealVerification
  <1> DEFINE v == [passed |-> passed, signature |-> sig, head |-> job[s].head]
  <1>3. /\ build' = build /\ laneHead' = laneHead /\ resp' = resp
        /\ verification'[c] = v /\ v # None
        /\ \A d \in Cycles : d # c => verification'[d] = verification[d]
    <2>1. verification \in [Cycles -> Records \cup {None}]
      BY DEF SoleInv, AnyInv, IInv, TypeOK, CycleTypeOK
    <2>2. build' = build /\ laneHead' = laneHead /\ resp' = resp
      BY DEF SealVerification
    <2>3. v # None
      BY <1>1, NoneAssumption DEF Records, Heads, SoleInv, AnyInv, IInv, JobOK
    <2> HIDE DEF v
    <2> QED BY <1>1, <1>2, <2>1, <2>2, <2>3 DEF v
  <1>4. /\ pc'[s] = IF passed THEN "gated" ELSE "red"
        /\ job'[s].cycle = c /\ job'[s].next = IF passed THEN "needs_review" ELSE "other"
    <2>1. job[s] \in Jobs
      BY DEF SoleInv, AnyInv, IInv, TypeOK, StepTypeOK
    <2> DEFINE next == IF passed THEN "needs_review" ELSE "other"
               j == [job[s] EXCEPT !.read = spec, !.next = next]
    <2>2. job' = [job EXCEPT ![s] = j]
      BY <1>2, <2>1 DEF SoleInv, AnyInv, IInv, TypeOK, StepTypeOK
    <2>3. j.cycle = c /\ j.next = next
      BY <2>1 DEF Jobs
    <2> HIDE DEF j, next
    <2>4. job'[s] = j
      BY <2>2, JobOnly DEF SoleInv
    <2> QED BY <1>2, <2>3, <2>4, MovedOnly DEF SoleInv, next
  <1>5. RulingsKept
    BY DEF SealVerification, RulingsKept, Accepts, Judged, Intact
  <1> HIDE DEF c
  <1>6. \A d \in Cycles : (Passed(d) => Passed(d)') /\ (Earned(d) => Earned(d)')
    <2>1. \A d \in Cycles : Passed(d) => Passed(d)'
      BY <1>1, <1>3 DEF Passed
    <2> QED BY <1>3, <2>1 DEF Earned
  <1>7. JobDue(s)'
    <2>1. BuildDue(s)' /\ VerifyDue(s)'
      BY <1>4 DEF BuildDue, VerifyDue, Building, Verifying
    <2>2. ASSUME passed = TRUE
          PROVE  verification'[c] # None /\ verification'[c].passed
      <3>1. v.passed = passed
        OBVIOUS
      <3> HIDE DEF v
      <3> QED BY <1>3, <2>2, <3>1
    <2>3. ReviewDue(s)'
      <3>1. CASE passed = TRUE
        BY <1>1, <1>3, <1>4, <2>2, <3>1 DEF ReviewDue, Passed
      <3>2. CASE passed = FALSE
        BY <1>4, <3>2 DEF ReviewDue
      <3> QED BY <3>1, <3>2
    <2> QED BY <2>1, <2>3 DEF JobDue
  <1>8. AnswerDue(s)'
    <2>1. AnswerDue(s) /\ (resp[s].state # "other" => resp[s].cycle \in Cycles)
      BY DEF SoleInv, AnyInv, IInv, AnswerOK
    <2> QED BY <1>3, <1>6, <2>1 DEF AnswerDue
  <1>9. RulingOK'
    BY <1>5, <1>6 DEF SoleInv, RulingOK, RulingsKept
  <1>10. HeadsOK'
    <2> SUFFICES ASSUME NEW d \in Cycles PROVE
                   /\ build'[d] # None => build'[d].head <= laneHead'
                   /\ verification'[d] # None =>
                        /\ build'[d] # None /\ build'[d].head <= verification'[d].head
                        /\ verification'[d].head <= laneHead'
      BY DEF HeadsOK
    <2>1. CASE d = c
      <3>1. build[c].head <= laneHead
        BY <1>1 DEF SoleInv, HeadsOK
      <3> QED BY <1>1, <1>3, <2>1, <3>1
    <2>2. CASE d # c
      BY <1>3, <2>2 DEF SoleInv, HeadsOK
    <2> QED BY <2>1, <2>2
  <1>11. NoFourthSameRed'
    <2> SUFFICES ASSUME NEW e \in Cycles, NEW d \in Cycles, NEW g \in Signatures, e + 2 < d,
                        \A k \in e .. (e + 2) : SameRed(g, k)', build[d] # None
                 PROVE  FALSE
      BY <1>3 DEF NoFourthSameRed, SameRed
    <2>1. d <= c /\ d \in Nat /\ c \in Nat /\ e \in Nat
      BY <1>1, ConstantsAssumption DEF Cycles
    <2>2. \A k \in e .. (e + 2) : SameRed(g, k)
      BY <1>3, <2>1, ConstantsAssumption DEF SameRed, Cycles
    <2> QED BY <2>2 DEF SoleInv, NoFourthSameRed, SameRed
  <1>12. \A t \in Steps : JobDue(t)' /\ AnswerDue(t)'
    BY <1>7, <1>8 DEF OneCaller
  <1>13. ChainOK'
    BY <1>3, <1>5 DEF RulingsKept, SoleInv, ChainOK
  <1> QED BY <1>9, <1>10, <1>11, <1>12, <1>13 DEF SoleInv

LEMMA HandleKeepsSole ==
  ASSUME OneCaller, SoleInv, AnyInv', NEW s \in Steps, Handle(s)
  PROVE  SoleInv'
  <1>1. CASE Ask(s)
    <2>1. PICK c \in Cycles :
            /\ RulingsKept
            /\ Says(s, [state |-> Route(c), cycle |-> c, head |-> laneHead])
      BY <1>1, AskStep DEF SoleInv
    <2> QED BY <2>1, AskIsDue, SaysKeepsSole DEF RulingsKept
  <1>2. CASE Report(s)
    BY <1>2, SpentSteps, NothingDue, SaysKeepsSole DEF RulingsKept, SoleInv
  <1>3. CASE EndsQuietly(s)
    BY <1>3, EndingSteps, NothingDue, EndsKeepsSole DEF SoleInv
  <1>4. CASE WriteHandoff(s)
    BY <1>4, HandoffStep, HandoffIsDue, EndsKeepsSole DEF SoleInv
  <1>5. CASE StartBuild(s) \/ LockBuild(s) \/ BuilderReturns(s) \/ CommitLane(s) \/ MainUnchanged(s)
    BY <1>5, StartBuildSole, BuildingSole
  <1>6. CASE StartVerification(s) \/ LockVerification(s)
    BY <1>6, VerifyingSole
  <1>7. CASE SealRevise(s) \/ ResealRevise(s) \/ Kill(s) \/ Deliver(s)
    BY <1>7, ClosingSole
  <1>8. CASE SealBuild(s) \/ SealVerification(s)
    BY <1>8, SealBuildSole, SealVerificationSole
  <1> QED BY <1>1, <1>2, <1>3, <1>4, <1>5, <1>6, <1>7, <1>8
          DEF Handle, Dispatch, Verify, EndsQuietly

LEMMA HostKeepsSole ==
  ASSUME SoleInv, AnyInv', NEW s \in Steps, Host(s)
  PROVE  SoleInv'
  <1>1. CASE SealSpec(s) \/ SealDelivered(s)
    BY <1>1, SpentSteps, NothingDue, SaysKeepsSole DEF RulingsKept, SoleInv
  <1>3. CASE SealReview(s)
    <2>1. /\ Says(s, NoAnswer)
          /\ resp[s].state \in {"needs_review", "signer_invariant_violated"}
          /\ \A c \in Cycles : Accepts(c)' => Accepts(c)
          /\ \A c \in Cycles : c # resp[s].cycle => (Judged(c)' => Judged(c))
      BY <1>3, SealReviewStep DEF SoleInv
    <2>2. build[resp[s].cycle] # None
      BY <2>1 DEF SoleInv, AnswerDue, Earned
    <2> QED BY <2>1, <2>2, NothingDue, SaysKeepsSole
  <1>2. CASE SealRuling(s)
    <2>1. /\ Says(s, NoAnswer)
          /\ resp[s].state \in {"pushback_raised", "needs_ruling", "signer_invariant_violated"}
          /\ \A c \in Cycles : c # resp[s].cycle =>
               (Accepts(c)' => Accepts(c)) /\ (Judged(c)' => Judged(c))
      BY <1>2, SealRulingStep DEF SoleInv
    <2>2. Earned(resp[s].cycle)
      BY <2>1 DEF SoleInv, AnswerDue
    <2>3. \A c \in Cycles : /\ Accepts(c)' => Accepts(c) \/ Earned(c)
                            /\ Judged(c)' => Judged(c) \/ build[c] # None
      BY <2>1, <2>2 DEF Earned
    <2> QED BY <2>1, <2>3, NothingDue, SaysKeepsSole
  <1> QED BY <1>1, <1>2, <1>3 DEF Host

LEMMA SoleNext == OneCaller /\ SoleInv /\ [Next]_vars => SoleInv'
  <1> SUFFICES ASSUME OneCaller, SoleInv, [Next]_vars PROVE SoleInv'
    OBVIOUS
  <1>1. AnyInv /\ AnyInv'
    BY AnyNext DEF SoleInv
  <1>2. CASE \/ \E s \in Steps : BuilderWrites(s)
             \/ SealSpecRev \/ Approver \/ ApproveCrash \/ Cleanup \/ Environment
             \/ UNCHANGED vars
    BY <1>1, <1>2, OutsideSteps, OutsideKeepsSole
  <1>3. CASE \E s \in Steps : Handle(s) \/ Host(s)
    BY <1>1, <1>3, HandleKeepsSole, HostKeepsSole
  <1>4. CASE \E s \in Steps : Crash(s)
    BY <1>1, <1>4, EndingSteps, NothingDue, EndsKeepsSole DEF EndsQuietly
  <1> QED BY <1>2, <1>3, <1>4 DEF Next, Work

\* With one caller, whatever dies, is edited or is sealed late: what was
\* routed on still holds when it is acted on.
THEOREM SoleInvariant ==
  ASSUME OneCaller
  PROVE  Spec => []SoleInv
  <1>1. Init => SoleInv
    <2> SUFFICES ASSUME Init PROVE SoleInv
      OBVIOUS
    <2>1. AnyInv
      BY InitIInv DEF Init, GateOK, RestOK, BuiltOK, UnderGate, AnyInv
    <2>2. \A s \in Steps : JobDue(s) /\ AnswerDue(s)
      BY DEF Init, JobDue, BuildDue, VerifyDue, ReviewDue, AnswerDue, NoJob, NoAnswer,
             Building, Verifying
    <2>3. RulingOK /\ HeadsOK /\ ChainOK /\ NoFourthSameRed
      BY DEF Init, RulingOK, HeadsOK, ChainOK, NoFourthSameRed, Accepts, Judged
    <2> QED BY <2>1, <2>2, <2>3 DEF SoleInv
  <1>2. SoleInv /\ [Next]_vars => SoleInv'
    BY SoleNext
  <1> QED BY <1>1, <1>2, PTL DEF Spec

\* With one caller the reviewer is never called for a build the frozen gate
\* did not pass (loop_step after _run_verification).
THEOREM OnlyGreenIsReviewed ==
  ASSUME OneCaller
  PROVE  Spec => []ReviewedIsGreen
  <1>1. SoleInv => ReviewedIsGreen
    BY DEF SoleInv, AnswerDue, Passed, ReviewedIsGreen
  <1> QED BY SoleInvariant, <1>1, PTL

\* With one caller, three cycles RED with one signature are never followed by
\* a fourth build (_check_stop_rules), though which cycle is open is told from
\* rulings that may have been edited.
THEOREM ThreeEqualRedsStop ==
  ASSUME OneCaller
  PROVE  Spec => []NoFourthSameRed
  <1>1. SoleInv => NoFourthSameRed
    BY DEF SoleInv
  <1> QED BY SoleInvariant, <1>1, PTL

\* With one caller, what is put before the human for delivery was built,
\* passed the gate and was reviewed at one lane commit (the accept
\* transition of loop_step). With two it need not be.
THEOREM OneCommitIsDelivered ==
  ASSUME OneCaller
  PROVE  Spec => DeliveryIsEarned
  <1>1. SoleInv /\ [Next]_vars =>
          [\A s \in Steps :
             pc[s] = "idle" /\ job'[s].next = "awaiting_delivery_approval" =>
               LET c == job'[s].cycle
               IN  /\ build[c].head = laneHead /\ ~build[c].pushback
                   /\ review[c] # None /\ review[c].head = laneHead
                   /\ GateOn => /\ verification[c] # None /\ verification[c].passed
                                /\ verification[c].head = laneHead]_vars
    <2> SUFFICES ASSUME SoleInv, AnyInv', [Next]_vars, NEW s \in Steps,
                        pc[s] = "idle", job'[s].next = "awaiting_delivery_approval"
                 PROVE  LET c == job'[s].cycle
                        IN  /\ build[c].head = laneHead /\ ~build[c].pushback
                            /\ review[c] # None /\ review[c].head = laneHead
                            /\ GateOn => /\ verification[c] # None /\ verification[c].passed
                                         /\ verification[c].head = laneHead
      BY AnyNext DEF SoleInv
    <2>1. pc'[s] # "idle"
      BY DEF AnyInv, RestOK, NoJob
    <2>2. StartBuild(s) \/ StartVerification(s) \/ ResealRevise(s) \/ Kill(s) \/ Deliver(s)
      BY <2>1, WhoStarts DEF SoleInv
    <2>3. Started(s, "awaiting_delivery_approval", "handoff", "awaiting_delivery_approval")
      BY <2>2, StartedAt DEF Started, SoleInv
    <2>4. PICK c \in Cycles : Route(c) = "awaiting_delivery_approval" /\ job'[s].cycle = c
      BY <2>3 DEF Started
    <2>5. /\ ruling[c].disposition = "accept" /\ ~build[c].pushback
          /\ SignerOk(c) /\ RecheckOk(c) /\ ruling[c] # None /\ build[c] # None
      BY <2>4, RoutedToDelivery, RoutedToRuling, RoutedPastGate
    <2>6. Accepts(c)
      BY <2>4, <2>5, RoutedIntact DEF Accepts, Intact
    <2>7. laneHead = build[c].head /\ review[c] # None /\ review[c].head = laneHead
      BY <2>5 DEF SignerOk, RecheckOk
    <2>8. Passed(c)
      BY <2>5, <2>6 DEF SoleInv, RulingOK, Earned
    <2>9. verification[c] # None => verification[c].head = laneHead
      BY <2>5, <2>7, Numbers DEF SoleInv, HeadsOK
    <2> QED BY <2>4, <2>5, <2>7, <2>8, <2>9 DEF Passed
  <1> QED BY SoleInvariant, <1>1, PTL DEF DeliveryIsEarned, Spec
=============================================================================
