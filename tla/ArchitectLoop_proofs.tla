------------------------ MODULE ArchitectLoop_proofs ------------------------
(***************************************************************************)
(* The in-flight lock is a mutex and only approved specs reach a builder,  *)
(* for every set of callers and every value of the bounds. Both follow     *)
(* from IInv, which every action of the loop preserves: one lemma per      *)
(* action, and in it one step per part of IInv the action touches; what is *)
(* left unchanged is the last step.                                        *)
(***************************************************************************)
EXTENDS ArchitectLoop, TLAPS

-----------------------------------------------------------------------------
(***************************************************************************)
(* The values that are stored.                                             *)
(***************************************************************************)
LEMMA Defaults ==
  /\ NoJob \in Jobs /\ NoJob.next = "other"
  /\ NoAnswer \in Answers /\ NoAnswer.state = "other"
  BY ConstantsAssumption DEF NoJob, Jobs, NoAnswer, Answers, States, Specs

LEMMA Truth == TRUE \in BOOLEAN /\ FALSE \in BOOLEAN
  OBVIOUS

\* Who notices a write notices nothing but a write.
LEMMA NoticedType ==
  ASSUME StepTypeOK, NEW s, NEW what \in {"tree", "main"}, NEW where
  PROVE  Noticed(s, what, where) \in [Steps -> SUBSET {"tree", "main"}]
  BY DEF StepTypeOK, Noticed

\* A call that goes from one place to another.
LEMMA GotoType ==
  ASSUME StepTypeOK, NEW s \in Steps, NEW loc \in Locations, Goto(s, loc)
  PROVE  /\ pc' \in [Steps -> Locations] /\ pc'[s] = loc
         /\ \A t \in Steps : t # s => pc'[t] = pc[t]
  BY DEF StepTypeOK, Goto

\* A call that takes on a job, or a new state of the one it has.
LEMMA JobType ==
  ASSUME StepTypeOK, NEW s \in Steps, NEW j \in Jobs, job' = [job EXCEPT ![s] = j]
  PROVE  /\ job' \in [Steps -> Jobs] /\ job'[s] = j
         /\ \A t \in Steps : t # s => job'[t] = job[t]
  BY DEF StepTypeOK

\* A call that returns with an answer.
LEMMA ReturnType ==
  ASSUME StepTypeOK, NEW s \in Steps, NEW a \in Answers, Return(s, a)
  PROVE  /\ pc' \in [Steps -> Locations] /\ pc'[s] = "idle"
         /\ job' \in [Steps -> Jobs] /\ job'[s] = NoJob
         /\ resp' \in [Steps -> Answers] /\ resp'[s] = a
         /\ \A t \in Steps : t # s => /\ pc'[t] = pc[t] /\ job'[t] = job[t]
                                     /\ resp'[t] = resp[t]
  BY Defaults DEF StepTypeOK, Return, Goto, Locations

\* JobOK and AnswerOK need only be looked at for the call that moves.
LEMMA JobKeeps ==
  ASSUME StepTypeOK, JobOK, NEW s \in Steps, NEW loc \in Locations,
         NEW j \in Jobs, Goto(s, loc), job' = [job EXCEPT ![s] = j],
         loc # "idle" => j.cycle \in Cycles,
         loc = "build" => j.approval \in Approvals,
         loc \in {"check", "seal", "verifying"} => j.head \in Heads,
         j.next # "other" => j.head \in Heads
  PROVE  JobOK'
  <1>1. /\ pc'[s] = loc /\ job'[s] = j
        /\ \A t \in Steps : t # s => pc'[t] = pc[t] /\ job'[t] = job[t]
    BY GotoType, JobType
  <1> SUFFICES ASSUME NEW t \in Steps
               PROVE  /\ pc'[t] # "idle" => job'[t].cycle \in Cycles
                      /\ pc'[t] = "build" => job'[t].approval \in Approvals
                      /\ pc'[t] \in {"check", "seal", "verifying"} =>
                           job'[t].head \in Heads
                      /\ job'[t].next # "other" => job'[t].head \in Heads
    BY DEF JobOK
  <1>2. CASE t = s
    BY <1>1, <1>2
  <1>3. CASE t # s
    BY <1>1, <1>3 DEF JobOK
  <1> QED BY <1>2, <1>3

LEMMA ApprovalKeeps ==
  ASSUME StepTypeOK, ApprovalOK, NEW s \in Steps, NEW loc \in Locations,
         NEW j \in Jobs, Goto(s, loc), job' = [job EXCEPT ![s] = j],
         UNCHANGED <<approval, approved>>,
         loc \in {"build", "building"} => j.read \in approved
  PROVE  ApprovalOK'
  <1>1. /\ pc'[s] = loc /\ job'[s] = j
        /\ \A t \in Steps : t # s => pc'[t] = pc[t] /\ job'[t] = job[t]
    BY GotoType, JobType
  <1>2. ASSUME NEW t \in Steps, pc'[t] \in {"build", "building"}
        PROVE  job'[t].read \in approved
    BY <1>1, <1>2 DEF ApprovalOK
  <1> QED BY <1>2 DEF ApprovalOK

LEMMA AnswerKeeps ==
  ASSUME StepTypeOK, AnswerOK, NEW s \in Steps, NEW a \in Answers,
         resp' = [resp EXCEPT ![s] = a],
         a.state # "other" => a.cycle \in Cycles /\ a.head \in Heads
  PROVE  resp' \in [Steps -> Answers] /\ AnswerOK'
  BY DEF StepTypeOK, AnswerOK

\* A call that is over keeps no job.
LEMMA ReturnKeeps ==
  ASSUME StepTypeOK, JobOK, AnswerOK, NEW s \in Steps, NEW a \in Answers,
         Return(s, a),
         a.state # "other" => a.cycle \in Cycles /\ a.head \in Heads
  PROVE  JobOK' /\ AnswerOK'
  <1>1. JobOK'
    BY Defaults, ReturnType DEF JobOK
  <1>2. AnswerOK'
    BY ReturnType DEF AnswerOK
  <1> QED BY <1>1, <1>2

\* A builder is only dispatched under an approval of the latest spec.
LEMMA BuildIsBound ==
  ASSUME NEW c, Route(c) = "needs_build"
  PROVE  approval # None /\ approval.spec = spec
  BY DEF Route, Bound

LEMMA InitIInv == Init => IInv
  <1> SUFFICES ASSUME Init PROVE IInv
    OBVIOUS
  <1> USE ConstantsAssumption DEF Init, Specs, Heads, Commits, Cycles
  <1>1. breach \in BOOLEAN /\ overtime \in BOOLEAN
    BY Zenon DEF Init
  <1>2. GoalTypeOK
    BY <1>1 DEF GoalTypeOK
  <1>3. CycleTypeOK /\ LaneTypeOK
    BY DEF CycleTypeOK, LaneTypeOK
  <1>4. StepTypeOK
    BY Defaults DEF StepTypeOK, Locations
  <1>5. HumanTypeOK
    BY <1>1 DEF HumanTypeOK
  <1>6. JobOK /\ AnswerOK
    BY DEF JobOK, NoJob, AnswerOK, NoAnswer
  <1>7. RoomOK /\ LockOwner /\ ApprovalOK
    BY DEF RoomOK, LockOwner, ApprovalOK, Locked
  <1> QED BY <1>2, <1>3, <1>4, <1>5, <1>6, <1>7 DEF IInv, TypeOK
-----------------------------------------------------------------------------
(***************************************************************************)
(* Every action preserves IInv.                                            *)
(***************************************************************************)
LEMMA AskKeeps ==
  ASSUME IInv, NEW s \in Steps, Ask(s)
  PROVE  IInv'
  <1> USE DEF IInv, TypeOK, Ask, cycleVars, goalVars, humanVars, laneVars,
              world
  <1> DEFINE a(c, st) == [state |-> st, cycle |-> c, head |-> laneHead]
  <1>1. PICK c \in Cycles, st \in Asks : resp' = [resp EXCEPT ![s] = a(c, st)]
    OBVIOUS
  <1>2. a(c, st) \in Answers /\ a(c, st).cycle \in Cycles /\ a(c, st).head \in Heads
    BY DEF Answers, States, LaneTypeOK
  <1> HIDE DEF a
  <1>3. StepTypeOK'
    BY <1>1, <1>2, AnswerKeeps DEF StepTypeOK
  <1>4. AnswerOK'
    BY <1>1, <1>2, AnswerKeeps
  <1>5. GoalTypeOK' /\ CycleTypeOK' /\ LaneTypeOK' /\ HumanTypeOK'
        /\ JobOK' /\ RoomOK' /\ LockOwner' /\ ApprovalOK'
    BY DEF GoalTypeOK, CycleTypeOK, LaneTypeOK, HumanTypeOK, JobOK, RoomOK,
           LockOwner, ApprovalOK
  <1> QED BY <1>3, <1>4, <1>5

LEMMA ReportKeeps ==
  ASSUME IInv, NEW s \in Steps, Report(s)
  PROVE  IInv'
  <1> USE DEF IInv, TypeOK, Report, cycleVars, goalVars, humanVars, laneVars,
              world
  <1>1. StepTypeOK'
    BY Defaults, AnswerKeeps DEF StepTypeOK
  <1>2. AnswerOK'
    BY Defaults, AnswerKeeps
  <1>3. GoalTypeOK' /\ CycleTypeOK' /\ LaneTypeOK' /\ HumanTypeOK'
        /\ JobOK' /\ RoomOK' /\ LockOwner' /\ ApprovalOK'
    BY DEF GoalTypeOK, CycleTypeOK, LaneTypeOK, HumanTypeOK, JobOK, RoomOK,
           LockOwner, ApprovalOK
  <1> QED BY <1>1, <1>2, <1>3

LEMMA StartBuildKeeps ==
  ASSUME IInv, NEW s \in Steps, StartBuild(s)
  PROVE  IInv'
  <1> USE DEF IInv, TypeOK, StartBuild, cycleVars, goalVars, humanVars,
              laneVars, world
  <1> DEFINE j(c) == [NoJob EXCEPT !.cycle = c, !.approval = approval, !.read = spec]
  <1>1. PICK c \in Cycles : /\ Routed(s, c, "needs_build") /\ Goto(s, "build")
                           /\ job' = [job EXCEPT ![s] = j(c)]
    OBVIOUS
  <1>2. j(c) \in Jobs /\ j(c).cycle = c /\ j(c).next = "other"
       /\ j(c).approval = approval /\ j(c).read = spec
    BY Defaults, ConstantsAssumption DEF NoJob, Jobs, States, GoalTypeOK
  <1> HIDE DEF j
  <1>3. "build" \in Locations
    BY DEF Locations
  <1>4. StepTypeOK'
    BY <1>1, <1>2, <1>3, JobType, GotoType, NoticedType DEF StepTypeOK
  <1>5. JobOK'
    BY <1>1, <1>2, <1>3, JobKeeps, BuildIsBound DEF Routed, GoalTypeOK
  <1>6. LockOwner'
    BY <1>1, <1>3, GotoType DEF LockOwner, Locked
  <1>7. ApprovalOK'
    <2>1. spec \in approved
      BY <1>1, BuildIsBound DEF Routed, ApprovalOK
    <2> QED BY <2>1, <1>1, <1>2, <1>3, ApprovalKeeps
  <1>8. GoalTypeOK' /\ CycleTypeOK' /\ LaneTypeOK' /\ HumanTypeOK'
        /\ AnswerOK' /\ RoomOK'
    BY DEF GoalTypeOK, CycleTypeOK, LaneTypeOK, HumanTypeOK, AnswerOK, RoomOK
  <1> QED BY <1>4, <1>5, <1>6, <1>7, <1>8

LEMMA LockBuildKeeps ==
  ASSUME IInv, NEW s \in Steps, LockBuild(s)
  PROVE  IInv'
  <1> USE DEF IInv, TypeOK, LockBuild, Goto, Sealed, TreeTouched,
              BaselineAfter, LockFree, cycleVars, humanVars
  <1>1. GoalTypeOK'
    BY ConstantsAssumption DEF GoalTypeOK, CycleKinds, GoalKinds
  <1>2. LaneTypeOK'
    BY DEF LaneTypeOK, JobOK, Approvals
  <1>3. StepTypeOK'
    BY NoticedType DEF StepTypeOK, Locations
  <1>4. JobOK'
    BY DEF JobOK, StepTypeOK
  <1>5. LockOwner'
    BY ConstantsAssumption DEF LockOwner, Locked, StepTypeOK
  <1>6. ApprovalOK'
    BY DEF ApprovalOK, StepTypeOK
  <1>7. CycleTypeOK' /\ HumanTypeOK' /\ AnswerOK' /\ RoomOK'
    BY DEF CycleTypeOK, HumanTypeOK, AnswerOK, RoomOK
  <1> QED BY <1>1, <1>2, <1>3, <1>4, <1>5, <1>6, <1>7

LEMMA LockBuildFailsKeeps ==
  ASSUME IInv, NEW s \in Steps, LockBuildFails(s)
  PROVE  IInv'
  <1> USE DEF IInv, TypeOK, LockBuildFails, LockFree, cycleVars, goalVars,
              humanVars, laneVars, world
  <1>1. StepTypeOK'
    BY Defaults, ReturnType, NoticedType DEF StepTypeOK
  <1>2. JobOK'
    BY Defaults, ReturnKeeps
  <1>3. AnswerOK'
    BY Defaults, ReturnKeeps
  <1>4. LockOwner'
    BY Defaults, ReturnType DEF LockOwner, Locked
  <1>5. ApprovalOK'
    BY Defaults, ReturnType DEF ApprovalOK
  <1>6. GoalTypeOK' /\ CycleTypeOK' /\ LaneTypeOK' /\ HumanTypeOK' /\ RoomOK'
    BY DEF GoalTypeOK, CycleTypeOK, LaneTypeOK, HumanTypeOK, RoomOK
  <1> QED BY <1>1, <1>2, <1>3, <1>4, <1>5, <1>6

LEMMA BuilderWritesKeeps ==
  ASSUME IInv, NEW s \in Steps, BuilderWrites(s)
  PROVE  IInv'
  <1> USE DEF IInv, TypeOK, BuilderWrites, cycleVars, goalVars, humanVars,
              stepVars
  <1>1. LaneTypeOK'
    BY DEF LaneTypeOK
  <1>2. RoomOK'
    BY DEF RoomOK, LaneTypeOK, Heads
  <1>3. GoalTypeOK' /\ CycleTypeOK' /\ StepTypeOK' /\ HumanTypeOK'
        /\ JobOK' /\ AnswerOK' /\ LockOwner' /\ ApprovalOK'
    BY DEF GoalTypeOK, CycleTypeOK, StepTypeOK, HumanTypeOK, JobOK, AnswerOK,
           LockOwner, ApprovalOK
  <1> QED BY <1>1, <1>2, <1>3

LEMMA BuilderReturnsKeeps ==
  ASSUME IInv, NEW s \in Steps, BuilderReturns(s)
  PROVE  IInv'
  <1> USE DEF IInv, TypeOK, BuilderReturns, cycleVars, humanVars, laneVars
  <1> DEFINE j(p) == [job[s] EXCEPT !.pushback = p]
  <1>1. PICK p \in BOOLEAN : Goto(s, "commit") /\ job' = [job EXCEPT ![s] = j(p)]
    OBVIOUS
  <1>2. j(p) \in Jobs /\ j(p).cycle \in Cycles
       /\ (j(p).next # "other" => j(p).head \in Heads)
    BY DEF StepTypeOK, Jobs, JobOK
  <1> HIDE DEF j
  <1>3. "commit" \in Locations
    BY DEF Locations
  <1>4. GoalTypeOK'
    BY DEF GoalTypeOK, JobOK, StepTypeOK
  <1>5. StepTypeOK'
    BY <1>1, <1>2, <1>3, JobType, GotoType DEF StepTypeOK
  <1>6. JobOK'
    BY <1>1, <1>2, <1>3, JobKeeps
  <1>7. LockOwner'
    BY <1>1, <1>3, GotoType DEF LockOwner, Locked
  <1>8. ApprovalOK'
    BY <1>1, <1>2, <1>3, JobType, GotoType DEF ApprovalOK
  <1>9. CycleTypeOK' /\ LaneTypeOK' /\ HumanTypeOK' /\ AnswerOK' /\ RoomOK'
    BY DEF CycleTypeOK, LaneTypeOK, HumanTypeOK, AnswerOK, RoomOK
  <1> QED BY <1>4, <1>5, <1>6, <1>7, <1>8, <1>9

LEMMA BuilderFailsKeeps ==
  ASSUME IInv, NEW s \in Steps, BuilderFails(s)
  PROVE  IInv'
  <1> USE DEF IInv, TypeOK, BuilderFails, Forget, cycleVars, humanVars,
              laneVars
  <1>1. GoalTypeOK'
    BY Truth DEF GoalTypeOK
  <1>2. StepTypeOK'
    BY Defaults, ReturnType, NoticedType DEF StepTypeOK
  <1>3. JobOK'
    BY Defaults, ReturnKeeps
  <1>4. AnswerOK'
    BY Defaults, ReturnKeeps
  <1>5. LockOwner'
    BY Defaults, ReturnType DEF LockOwner, Locked
  <1>6. ApprovalOK'
    BY Defaults, ReturnType DEF ApprovalOK
  <1>7. CycleTypeOK' /\ LaneTypeOK' /\ HumanTypeOK' /\ RoomOK'
    BY DEF CycleTypeOK, LaneTypeOK, HumanTypeOK, RoomOK
  <1> QED BY <1>1, <1>2, <1>3, <1>4, <1>5, <1>6, <1>7

LEMMA BuildBreachKeeps ==
  ASSUME IInv, NEW s \in Steps, BuildBreach(s)
  PROVE  IInv'
  <1> USE DEF IInv, TypeOK, BuildBreach, Breach, TreeTouched, cycleVars,
              humanVars, laneVars
  <1>1. GoalTypeOK'
    BY Truth DEF GoalTypeOK
  <1>2. StepTypeOK'
    BY Defaults, ReturnType, NoticedType DEF StepTypeOK
  <1>3. JobOK'
    BY Defaults, ReturnKeeps
  <1>4. AnswerOK'
    BY Defaults, ReturnKeeps
  <1>5. LockOwner'
    BY Defaults, ReturnType DEF LockOwner, Locked
  <1>6. ApprovalOK'
    BY Defaults, ReturnType DEF ApprovalOK
  <1>7. CycleTypeOK' /\ LaneTypeOK' /\ HumanTypeOK' /\ RoomOK'
    BY DEF CycleTypeOK, LaneTypeOK, HumanTypeOK, RoomOK
  <1> QED BY <1>1, <1>2, <1>3, <1>4, <1>5, <1>6, <1>7

LEMMA CommitLaneKeeps ==
  ASSUME IInv, NEW s \in Steps, CommitLane(s)
  PROVE  IInv'
  <1> USE DEF IInv, TypeOK, CommitLane, LaneTouched, cycleVars, goalVars,
              humanVars
  <1> DEFINE j == [job[s] EXCEPT !.head = laneHead']
  <1>1. Goto(s, "check") /\ job' = [job EXCEPT ![s] = j]
    OBVIOUS
  <1>2. j \in Jobs /\ j.cycle \in Cycles /\ j.head \in Heads
    <2>1. laneHead' \in Heads
      BY ConstantsAssumption DEF LaneTypeOK, RoomOK, Heads
    <2> QED BY <2>1 DEF StepTypeOK, Jobs, JobOK
  <1> HIDE DEF j
  <1>3. "check" \in Locations
    BY DEF Locations
  <1>4. LaneTypeOK'
    BY ConstantsAssumption DEF LaneTypeOK, RoomOK, Heads
  <1>5. StepTypeOK'
    BY <1>1, <1>2, <1>3, JobType, GotoType, NoticedType DEF StepTypeOK
  <1>6. JobOK'
    BY <1>1, <1>2, <1>3, JobKeeps
  <1>7. RoomOK'
    BY ConstantsAssumption DEF RoomOK, Heads, LaneTypeOK
  <1>8. LockOwner'
    BY <1>1, <1>3, GotoType DEF LockOwner, Locked
  <1>9. ApprovalOK'
    BY <1>1, <1>2, <1>3, JobType, GotoType DEF ApprovalOK
  <1>10. GoalTypeOK' /\ CycleTypeOK' /\ HumanTypeOK' /\ AnswerOK'
    BY DEF GoalTypeOK, CycleTypeOK, HumanTypeOK, AnswerOK
  <1> QED BY <1>4, <1>5, <1>6, <1>7, <1>8, <1>9, <1>10

LEMMA ScanBreachKeeps ==
  ASSUME IInv, NEW s \in Steps, ScanBreach(s)
  PROVE  IInv'
  <1> USE DEF IInv, TypeOK, ScanBreach, Breach, TreeTouched, cycleVars,
              humanVars, laneVars
  <1>1. GoalTypeOK'
    BY Truth DEF GoalTypeOK
  <1>2. StepTypeOK'
    BY Defaults, ReturnType, NoticedType DEF StepTypeOK
  <1>3. JobOK'
    BY Defaults, ReturnKeeps
  <1>4. AnswerOK'
    BY Defaults, ReturnKeeps
  <1>5. LockOwner'
    BY Defaults, ReturnType DEF LockOwner, Locked
  <1>6. ApprovalOK'
    BY Defaults, ReturnType DEF ApprovalOK
  <1>7. CycleTypeOK' /\ LaneTypeOK' /\ HumanTypeOK' /\ RoomOK'
    BY DEF CycleTypeOK, LaneTypeOK, HumanTypeOK, RoomOK
  <1> QED BY <1>1, <1>2, <1>3, <1>4, <1>5, <1>6, <1>7

LEMMA MainUnchangedKeeps ==
  ASSUME IInv, NEW s \in Steps, MainUnchanged(s)
  PROVE  IInv'
  <1> USE DEF IInv, TypeOK, MainUnchanged, Goto, Forget, cycleVars, goalVars,
              humanVars, laneVars, world
  <1>1. StepTypeOK'
    BY DEF StepTypeOK, Locations
  <1>2. JobOK'
    BY DEF JobOK, StepTypeOK
  <1>3. LockOwner'
    BY DEF LockOwner, Locked, StepTypeOK
  <1>4. ApprovalOK'
    BY DEF ApprovalOK, StepTypeOK
  <1>5. GoalTypeOK' /\ CycleTypeOK' /\ LaneTypeOK' /\ HumanTypeOK'
        /\ AnswerOK' /\ RoomOK'
    BY DEF GoalTypeOK, CycleTypeOK, LaneTypeOK, HumanTypeOK, AnswerOK, RoomOK
  <1> QED BY <1>1, <1>2, <1>3, <1>4, <1>5

LEMMA MainBreachKeeps ==
  ASSUME IInv, NEW s \in Steps, MainBreach(s)
  PROVE  IInv'
  <1> USE DEF IInv, TypeOK, MainBreach, Breach, TreeTouched, cycleVars,
              humanVars, laneVars
  <1>1. GoalTypeOK'
    BY Truth DEF GoalTypeOK
  <1>2. StepTypeOK'
    BY Defaults, ReturnType, NoticedType DEF StepTypeOK
  <1>3. JobOK'
    BY Defaults, ReturnKeeps
  <1>4. AnswerOK'
    BY Defaults, ReturnKeeps
  <1>5. LockOwner'
    BY Defaults, ReturnType DEF LockOwner, Locked
  <1>6. ApprovalOK'
    BY Defaults, ReturnType DEF ApprovalOK
  <1>7. CycleTypeOK' /\ LaneTypeOK' /\ HumanTypeOK' /\ RoomOK'
    BY DEF CycleTypeOK, LaneTypeOK, HumanTypeOK, RoomOK
  <1> QED BY <1>1, <1>2, <1>3, <1>4, <1>5, <1>6, <1>7

LEMMA AgedType ==
  ASSUME NEW a, NEW tie \in BOOLEAN
  PROVE  /\ a \in Reviews \cup {None} => Aged(a, tie) \in Reviews \cup {None}
         /\ a \in Rulings \cup {None} => Aged(a, tie) \in Rulings \cup {None}
  <1>1. CASE a = None
    BY <1>1 DEF Aged
  <1>2. CASE a # None
    <2>1. (a.fresh /\ tie) \in BOOLEAN
      OBVIOUS
    <2> DEFINE f == a.fresh /\ tie
    <2>2. f \in BOOLEAN /\ Aged(a, tie) = [a EXCEPT !.fresh = f]
      BY <1>2, <2>1 DEF Aged
    <2> HIDE DEF f
    <2> QED BY <1>2, <2>2 DEF Reviews, Rulings
  <1> QED BY <1>1, <1>2

LEMMA SealBuildKeeps ==
  ASSUME IInv, NEW s \in Steps, SealBuild(s)
  PROVE  IInv'
  <1> USE DEF IInv, TypeOK, SealBuild, TreeTouched, humanVars, laneVars
  <1> DEFINE j == [job[s] EXCEPT !.read = spec]
  <1>1. Goto(s, "handoff") /\ job' = [job EXCEPT ![s] = j]
    OBVIOUS
  <1>2. j \in Jobs /\ j.cycle \in Cycles
       /\ (j.next # "other" => j.head \in Heads)
    BY DEF StepTypeOK, Jobs, JobOK, GoalTypeOK
  <1> HIDE DEF j
  <1>3. "handoff" \in Locations
    BY DEF Locations
  <1>4. GoalTypeOK'
    BY ConstantsAssumption DEF GoalTypeOK, CycleKinds, GoalKinds, Cycles, JobOK,
                           StepTypeOK
  <1>5. CycleTypeOK'
    <2>1. build' \in [Cycles -> BuildResults \cup {None}]
      BY DEF CycleTypeOK, BuildResults, StepTypeOK, Jobs, JobOK
    <2>2. PICK tie \in BOOLEAN :
            /\ review' = [review EXCEPT ![job[s].cycle] = Aged(@, tie)]
            /\ ruling' = [ruling EXCEPT ![job[s].cycle] = Aged(@, tie)]
      OBVIOUS
    <2>3. job[s].cycle \in Cycles
      BY DEF JobOK
    <2> QED BY <2>1, <2>2, <2>3, AgedType DEF CycleTypeOK
  <1>6. StepTypeOK'
    BY <1>1, <1>2, <1>3, JobType, GotoType, NoticedType DEF StepTypeOK
  <1>7. JobOK'
    BY <1>1, <1>2, <1>3, JobKeeps
  <1>8. LockOwner'
    BY <1>1, <1>3, GotoType DEF LockOwner, Locked
  <1>9. ApprovalOK'
    BY <1>1, <1>2, <1>3, JobType, GotoType DEF ApprovalOK
  <1>10. LaneTypeOK' /\ HumanTypeOK' /\ AnswerOK' /\ RoomOK'
    BY DEF LaneTypeOK, HumanTypeOK, AnswerOK, RoomOK
  <1> QED BY <1>4, <1>5, <1>6, <1>7, <1>8, <1>9, <1>10

LEMMA StartVerificationKeeps ==
  ASSUME IInv, NEW s \in Steps, StartVerification(s)
  PROVE  IInv'
  <1> USE DEF IInv, TypeOK, StartVerification, cycleVars, goalVars, humanVars,
              laneVars, world
  <1> DEFINE j(c) == [NoJob EXCEPT !.cycle = c]
  <1>1. PICK c \in Cycles : /\ Routed(s, c, "needs_verification") /\ Goto(s, "verify")
                           /\ job' = [job EXCEPT ![s] = j(c)]
    OBVIOUS
  <1>2. j(c) \in Jobs /\ j(c).cycle = c /\ j(c).next = "other"
    BY Defaults, ConstantsAssumption DEF NoJob, Jobs, States, GoalTypeOK
  <1> HIDE DEF j
  <1>3. "verify" \in Locations
    BY DEF Locations
  <1>4. StepTypeOK'
    BY <1>1, <1>2, <1>3, JobType, GotoType, NoticedType DEF StepTypeOK
  <1>5. JobOK'
    BY <1>1, <1>2, <1>3, JobKeeps
  <1>6. LockOwner'
    BY <1>1, <1>3, GotoType DEF LockOwner, Locked
  <1>7. ApprovalOK'
    BY <1>1, <1>2, <1>3, JobType, GotoType DEF ApprovalOK
  <1>8. GoalTypeOK' /\ CycleTypeOK' /\ LaneTypeOK' /\ HumanTypeOK'
        /\ AnswerOK' /\ RoomOK'
    BY DEF GoalTypeOK, CycleTypeOK, LaneTypeOK, HumanTypeOK, AnswerOK, RoomOK
  <1> QED BY <1>4, <1>5, <1>6, <1>7, <1>8

LEMMA LockVerificationKeeps ==
  ASSUME IInv, NEW s \in Steps, LockVerification(s)
  PROVE  IInv'
  <1> USE DEF IInv, TypeOK, LockVerification, LockFree, cycleVars, humanVars,
              laneVars
  <1> DEFINE j == [job[s] EXCEPT !.head = laneHead]
  <1>1. Goto(s, "verifying") /\ job' = [job EXCEPT ![s] = j]
    OBVIOUS
  <1>2. j \in Jobs /\ j.cycle \in Cycles /\ j.head \in Heads
    BY DEF StepTypeOK, Jobs, JobOK, LaneTypeOK
  <1> HIDE DEF j
  <1>3. "verifying" \in Locations
    BY DEF Locations
  <1>4. GoalTypeOK'
    BY DEF GoalTypeOK
  <1>5. StepTypeOK'
    BY <1>1, <1>2, <1>3, JobType, GotoType, NoticedType DEF StepTypeOK
  <1>6. JobOK'
    BY <1>1, <1>2, <1>3, JobKeeps
  <1>7. LockOwner'
    BY <1>1, <1>3, GotoType, ConstantsAssumption DEF LockOwner, Locked
  <1>8. ApprovalOK'
    BY <1>1, <1>2, <1>3, JobType, GotoType DEF ApprovalOK
  <1>9. CycleTypeOK' /\ LaneTypeOK' /\ HumanTypeOK' /\ AnswerOK' /\ RoomOK'
    BY DEF CycleTypeOK, LaneTypeOK, HumanTypeOK, AnswerOK, RoomOK
  <1> QED BY <1>4, <1>5, <1>6, <1>7, <1>8, <1>9

LEMMA LockVerificationFailsKeeps ==
  ASSUME IInv, NEW s \in Steps, LockVerificationFails(s)
  PROVE  IInv'
  <1> USE DEF IInv, TypeOK, LockVerificationFails, LockFree, cycleVars,
              goalVars, humanVars, laneVars, world
  <1>1. StepTypeOK'
    BY Defaults, ReturnType, NoticedType DEF StepTypeOK
  <1>2. JobOK'
    BY Defaults, ReturnKeeps
  <1>3. AnswerOK'
    BY Defaults, ReturnKeeps
  <1>4. LockOwner'
    BY Defaults, ReturnType DEF LockOwner, Locked
  <1>5. ApprovalOK'
    BY Defaults, ReturnType DEF ApprovalOK
  <1>6. GoalTypeOK' /\ CycleTypeOK' /\ LaneTypeOK' /\ HumanTypeOK' /\ RoomOK'
    BY DEF GoalTypeOK, CycleTypeOK, LaneTypeOK, HumanTypeOK, RoomOK
  <1> QED BY <1>1, <1>2, <1>3, <1>4, <1>5, <1>6

\* What a command leaves in the lane, there is room to commit.
LEMMA AfterCommandOK ==
  ASSUME IInv, laneState' \in LaneAfterCommand, UNCHANGED <<laneBase, laneHead, mainHead>>
  PROVE  LaneTypeOK' /\ RoomOK'
  <1>1. laneState' = laneState \/ (laneState' = "dirty" /\ laneHead < MaxHeads)
    BY DEF LaneAfterCommand
  <1>2. LaneTypeOK'
    BY <1>1 DEF IInv, TypeOK, LaneTypeOK
  <1>3. RoomOK'
    BY <1>1 DEF IInv, RoomOK
  <1> QED BY <1>2, <1>3

LEMMA SealVerificationKeeps ==
  ASSUME IInv, NEW s \in Steps, SealVerification(s)
  PROVE  IInv'
  <1> USE DEF IInv, TypeOK, SealVerification, humanVars
  <1> DEFINE j(next) == [job[s] EXCEPT !.read = spec, !.next = next]
  <1>1. PICK next \in {"needs_review", "other"}, loc \in {"gated", "red"} :
          Goto(s, loc) /\ job' = [job EXCEPT ![s] = j(next)]
    OBVIOUS
  <1>2. j(next) \in Jobs /\ j(next).cycle \in Cycles /\ j(next).head \in Heads
    <2>1. job[s] \in Jobs /\ job[s].cycle \in Cycles /\ job[s].head \in Heads
      BY DEF StepTypeOK, JobOK
    <2>2. spec \in Specs /\ next \in States
      BY <1>1 DEF GoalTypeOK, States, Asks
    <2> HIDE DEF SealVerification
    <2> QED BY <2>1, <2>2 DEF Jobs
  <1> HIDE DEF j
  <1>3. {"gated", "red"} \subseteq Locations
    BY DEF Locations
  <1>4. GoalTypeOK'
    BY ConstantsAssumption DEF GoalTypeOK, CycleKinds, GoalKinds, Cycles, JobOK,
                           StepTypeOK
  <1>5. CycleTypeOK'
    BY DEF CycleTypeOK, Records, JobOK, StepTypeOK
  <1>6. LaneTypeOK' /\ RoomOK'
    BY AfterCommandOK
  <1>7. StepTypeOK'
    BY <1>1, <1>2, <1>3, JobType, GotoType DEF StepTypeOK
  <1>8. JobOK'
    BY <1>1, <1>2, <1>3, JobKeeps
  <1>9. LockOwner'
    BY <1>1, <1>3, GotoType DEF LockOwner, Locked
  <1>10. ApprovalOK'
    BY <1>1, <1>2, <1>3, ApprovalKeeps
  <1>11. HumanTypeOK' /\ AnswerOK'
    BY DEF HumanTypeOK, AnswerOK
  <1> QED BY <1>4, <1>5, <1>6, <1>7, <1>8, <1>9, <1>10, <1>11

LEMMA VerificationBreachKeeps ==
  ASSUME IInv, NEW s \in Steps, VerificationBreach(s)
  PROVE  IInv'
  <1> USE DEF IInv, TypeOK, VerificationBreach, Breach, TreeTouched,
              cycleVars, humanVars, laneVars
  <1>1. GoalTypeOK'
    BY Truth DEF GoalTypeOK
  <1>2. StepTypeOK'
    BY Defaults, ReturnType, NoticedType DEF StepTypeOK
  <1>3. JobOK'
    BY Defaults, ReturnKeeps
  <1>4. AnswerOK'
    BY Defaults, ReturnKeeps
  <1>5. LockOwner'
    BY Defaults, ReturnType DEF LockOwner, Locked
  <1>6. ApprovalOK'
    BY Defaults, ReturnType DEF ApprovalOK
  <1>7. CycleTypeOK' /\ LaneTypeOK' /\ HumanTypeOK' /\ RoomOK'
    BY AfterCommandOK DEF CycleTypeOK, HumanTypeOK
  <1> QED BY <1>1, <1>2, <1>3, <1>4, <1>5, <1>6, <1>7

LEMMA SealReviseKeeps ==
  ASSUME IInv, NEW s \in Steps, SealRevise(s)
  PROVE  IInv'
  <1> USE DEF IInv, TypeOK, SealRevise, Sealed, TreeTouched, BaselineAfter,
              MechanicalRevise, humanVars, laneVars
  <1> DEFINE j == [job[s] EXCEPT !.read = spec]
  <1>1. Goto(s, "gated") /\ job' = [job EXCEPT ![s] = j]
    OBVIOUS
  <1>2. j \in Jobs /\ j.cycle \in Cycles
       /\ (j.next # "other" => j.head \in Heads)
    <2>1. job[s] \in Jobs /\ spec \in Specs
      BY DEF StepTypeOK, GoalTypeOK
    <2>2. job[s].cycle \in Cycles /\ (job[s].next # "other" => job[s].head \in Heads)
      BY DEF JobOK
    <2> QED BY <2>1, <2>2 DEF Jobs
  <1> HIDE DEF j
  <1>3. "gated" \in Locations
    BY DEF Locations
  <1>4. GoalTypeOK'
    BY ConstantsAssumption DEF GoalTypeOK, CycleKinds, GoalKinds, Cycles, JobOK,
                           StepTypeOK
  <1>5. CycleTypeOK'
    BY DEF CycleTypeOK, Rulings, Dispositions, JobOK, StepTypeOK
  <1>6. StepTypeOK'
    BY <1>1, <1>2, <1>3, JobType, GotoType, NoticedType DEF StepTypeOK
  <1>7. JobOK'
    BY <1>1, <1>2, <1>3, JobKeeps
  <1>8. LockOwner'
    BY <1>1, <1>3, GotoType DEF LockOwner, Locked
  <1>9. ApprovalOK'
    BY <1>1, <1>2, <1>3, JobType, GotoType DEF ApprovalOK
  <1>10. LaneTypeOK' /\ HumanTypeOK' /\ AnswerOK' /\ RoomOK'
    BY DEF LaneTypeOK, HumanTypeOK, AnswerOK, RoomOK
  <1> QED BY <1>4, <1>5, <1>6, <1>7, <1>8, <1>9, <1>10

LEMMA ResealReviseKeeps ==
  ASSUME IInv, NEW s \in Steps, ResealRevise(s)
  PROVE  IInv'
  <1> USE DEF IInv, TypeOK, ResealRevise, Sealed, TreeTouched, BaselineAfter,
              MechanicalRevise, humanVars, laneVars
  <1> DEFINE j(c) == [NoJob EXCEPT !.cycle = c, !.read = spec]
  <1>1. PICK c \in Cycles : /\ Routed(s, c, "verification_red") /\ Goto(s, "handoff")
                           /\ job' = [job EXCEPT ![s] = j(c)]
    OBVIOUS
  <1>2. j(c) \in Jobs /\ j(c).cycle = c /\ j(c).next = "other"
    BY Defaults, ConstantsAssumption DEF NoJob, Jobs, States, GoalTypeOK
  <1> HIDE DEF j
  <1>3. "handoff" \in Locations
    BY DEF Locations
  <1>4. GoalTypeOK'
    BY ConstantsAssumption DEF GoalTypeOK, CycleKinds, GoalKinds, Cycles
  <1>5. CycleTypeOK'
    BY DEF CycleTypeOK, Rulings, Dispositions
  <1>6. StepTypeOK'
    <2>1. pc' \in [Steps -> Locations] /\ job' \in [Steps -> Jobs]
      BY <1>1, <1>2, <1>3, JobType, GotoType
    <2>2. drift' \in [Steps -> SUBSET {"tree", "main"}] /\ resp' = resp
      BY NoticedType
    <2> QED BY <2>1, <2>2 DEF StepTypeOK
  <1>7. JobOK'
    BY <1>1, <1>2, <1>3, JobKeeps
  <1>8. LockOwner'
    BY <1>1, <1>3, GotoType DEF LockOwner, Locked
  <1>9. ApprovalOK'
    BY <1>1, <1>2, <1>3, JobType, GotoType DEF ApprovalOK
  <1>10. LaneTypeOK' /\ HumanTypeOK' /\ AnswerOK' /\ RoomOK'
    BY DEF LaneTypeOK, HumanTypeOK, AnswerOK, RoomOK
  <1> QED BY <1>4, <1>5, <1>6, <1>7, <1>8, <1>9, <1>10

LEMMA KillKeeps ==
  ASSUME IInv, NEW s \in Steps, Kill(s)
  PROVE  IInv'
  <1> USE DEF IInv, TypeOK, Kill, Sealed, TreeTouched, BaselineAfter,
              cycleVars, humanVars, laneVars
  <1> DEFINE j(c) == [NoJob EXCEPT !.cycle = c, !.read = spec]
  <1>1. PICK c \in Cycles : /\ Routed(s, c, "killed") /\ Goto(s, "handoff")
                           /\ job' = [job EXCEPT ![s] = j(c)]
    OBVIOUS
  <1>2. j(c) \in Jobs /\ j(c).cycle = c /\ j(c).next = "other"
    BY Defaults, ConstantsAssumption DEF NoJob, Jobs, States, GoalTypeOK
  <1> HIDE DEF j
  <1>3. "handoff" \in Locations
    BY DEF Locations
  <1>4. GoalTypeOK'
    BY ConstantsAssumption DEF GoalTypeOK, CycleKinds, GoalKinds
  <1>5. StepTypeOK'
    BY <1>1, <1>2, <1>3, JobType, GotoType, NoticedType, SMTT(30) DEF StepTypeOK
  <1>6. JobOK'
    BY <1>1, <1>2, <1>3, JobKeeps
  <1>7. LockOwner'
    BY <1>1, <1>3, GotoType DEF LockOwner, Locked
  <1>8. ApprovalOK'
    BY <1>1, <1>2, <1>3, JobType, GotoType DEF ApprovalOK
  <1>9. CycleTypeOK' /\ LaneTypeOK' /\ HumanTypeOK' /\ AnswerOK' /\ RoomOK'
    BY DEF CycleTypeOK, LaneTypeOK, HumanTypeOK, AnswerOK, RoomOK
  <1> QED BY <1>4, <1>5, <1>6, <1>7, <1>8, <1>9

LEMMA DeliverKeeps ==
  ASSUME IInv, NEW s \in Steps, Deliver(s)
  PROVE  IInv'
  <1> USE DEF IInv, TypeOK, Deliver, cycleVars, goalVars, humanVars, laneVars,
              world
  <1> DEFINE j(c) == [NoJob EXCEPT !.cycle = c, !.approval = approval,
                               !.head = laneHead, !.read = spec,
                               !.next = "awaiting_delivery_approval"]
  <1>1. PICK c \in Cycles : /\ Routed(s, c, "awaiting_delivery_approval") /\ Goto(s, "handoff")
                           /\ job' = [job EXCEPT ![s] = j(c)]
    OBVIOUS
  <1>2. j(c) \in Jobs /\ j(c).cycle = c /\ j(c).head \in Heads
    BY Defaults, ConstantsAssumption DEF NoJob, Jobs, States, GoalTypeOK, Asks, LaneTypeOK
  <1> HIDE DEF j
  <1>3. "handoff" \in Locations
    BY DEF Locations
  <1>4. StepTypeOK'
    BY <1>1, <1>2, <1>3, JobType, GotoType, NoticedType DEF StepTypeOK
  <1>5. JobOK'
    BY <1>1, <1>2, <1>3, JobKeeps
  <1>6. LockOwner'
    BY <1>1, <1>3, GotoType DEF LockOwner, Locked
  <1>7. ApprovalOK'
    BY <1>1, <1>2, <1>3, JobType, GotoType DEF ApprovalOK
  <1>8. GoalTypeOK' /\ CycleTypeOK' /\ LaneTypeOK' /\ HumanTypeOK'
        /\ AnswerOK' /\ RoomOK'
    BY DEF GoalTypeOK, CycleTypeOK, LaneTypeOK, HumanTypeOK, AnswerOK, RoomOK
  <1> QED BY <1>4, <1>5, <1>6, <1>7, <1>8

LEMMA WriteHandoffKeeps ==
  ASSUME IInv, NEW s \in Steps, WriteHandoff(s)
  PROVE  IInv'
  <1> USE DEF IInv, TypeOK, WriteHandoff, TreeTouched, cycleVars, humanVars,
              laneVars
  <1> DEFINE a == IF job[s].next = "other" THEN NoAnswer
                  ELSE [state |-> job[s].next, cycle |-> job[s].cycle,
                        head |-> job[s].head]
  <1>1. Return(s, a)
    OBVIOUS
  <1>2. a \in Answers /\ (a.state # "other" => a.cycle \in Cycles /\ a.head \in Heads)
    BY Defaults DEF StepTypeOK, JobOK, Jobs, Answers
  <1> HIDE DEF a
  <1>3. GoalTypeOK'
    BY DEF GoalTypeOK, StepTypeOK, Jobs
  <1>4. StepTypeOK'
    BY <1>1, <1>2, ReturnType, NoticedType DEF StepTypeOK
  <1>5. JobOK'
    BY <1>1, <1>2, ReturnKeeps
  <1>6. AnswerOK'
    BY <1>1, <1>2, ReturnKeeps
  <1>7. LockOwner'
    BY <1>1, <1>2, ReturnType DEF LockOwner, Locked
  <1>8. ApprovalOK'
    BY <1>1, <1>2, ReturnType DEF ApprovalOK
  <1>9. CycleTypeOK' /\ LaneTypeOK' /\ HumanTypeOK' /\ RoomOK'
    BY DEF CycleTypeOK, LaneTypeOK, HumanTypeOK, RoomOK
  <1> QED BY <1>3, <1>4, <1>5, <1>6, <1>7, <1>8, <1>9

LEMMA CallFailsKeeps ==
  ASSUME IInv, NEW s \in Steps, CallFails(s)
  PROVE  IInv'
  <1> USE DEF IInv, TypeOK, CallFails, Forget, cycleVars, humanVars
  <1>1. StepTypeOK'
    BY Defaults, ReturnType, NoticedType DEF StepTypeOK
  <1>2. JobOK' /\ AnswerOK'
    BY Defaults, ReturnKeeps
  <1>3. LockOwner'
    BY Defaults, ReturnType DEF LockOwner, Locked
  <1>4. ApprovalOK'
    BY Defaults, ReturnType DEF ApprovalOK
  <1>5. LaneTypeOK' /\ RoomOK'
    <2>1. CASE laneState' \in LaneAfterCommand
      BY <2>1, AfterCommandOK
    <2>2. CASE laneState' = laneState
      BY <2>2 DEF LaneTypeOK, RoomOK
    <2> QED BY <2>1, <2>2
  <1>6. GoalTypeOK' /\ CycleTypeOK' /\ HumanTypeOK'
    BY DEF GoalTypeOK, CycleTypeOK, HumanTypeOK
  <1> QED BY <1>1, <1>2, <1>3, <1>4, <1>5, <1>6

LEMMA CrashKeeps ==
  ASSUME IInv, NEW s \in Steps, Crash(s)
  PROVE  IInv'
  <1> USE DEF IInv, TypeOK, Crash, Forget, cycleVars, goalVars, humanVars,
              laneVars, world
  <1>1. StepTypeOK'
    BY Defaults, ReturnType, NoticedType DEF StepTypeOK
  <1>2. JobOK'
    BY Defaults, ReturnKeeps
  <1>3. AnswerOK'
    BY Defaults, ReturnKeeps
  <1>4. LockOwner'
    BY Defaults, ReturnType DEF LockOwner, Locked
  <1>5. ApprovalOK'
    BY Defaults, ReturnType DEF ApprovalOK
  <1>6. GoalTypeOK' /\ CycleTypeOK' /\ LaneTypeOK' /\ HumanTypeOK' /\ RoomOK'
    BY DEF GoalTypeOK, CycleTypeOK, LaneTypeOK, HumanTypeOK, RoomOK
  <1> QED BY <1>1, <1>2, <1>3, <1>4, <1>5, <1>6

LEMMA SpecSealedKeeps ==
  ASSUME IInv, SpecSealed
  PROVE  /\ GoalTypeOK' /\ CycleTypeOK' /\ LaneTypeOK' /\ HumanTypeOK'
         /\ drift' \in [Steps -> SUBSET {"tree", "main"}]
         /\ JobOK' /\ RoomOK' /\ LockOwner' /\ ApprovalOK'
         /\ UNCHANGED <<pc, job>>
  <1> USE DEF IInv, TypeOK, SpecSealed, TreeTouched, BaselineAfter, cycleVars,
              humanVars, laneVars
  <1>1. GoalTypeOK'
    <2>1. spec' \in Specs
      BY ConstantsAssumption DEF GoalTypeOK, Specs
    <2>2. handoff' \in [spec : Specs, newer : BOOLEAN] \cup {None}
      BY DEF GoalTypeOK
    <2>3. baseline' \in (SUBSET (0 .. MaxCycles)) \cup {None}
      BY ConstantsAssumption DEF GoalTypeOK
    <2>4. corrupt' \subseteq corrupt
      BY DEF Sealed
    <2>5. UNCHANGED <<approval, lock, breach, outcome, integrity>>
      OBVIOUS
    <2> HIDE DEF SpecSealed
    <2> QED BY <2>1, <2>2, <2>3, <2>4, <2>5 DEF GoalTypeOK
  <1>2. drift' \in [Steps -> SUBSET {"tree", "main"}]
    BY NoticedType
  <1>3. CycleTypeOK' /\ LaneTypeOK' /\ HumanTypeOK' /\ JobOK' /\ RoomOK'
        /\ LockOwner' /\ ApprovalOK'
    BY DEF CycleTypeOK, LaneTypeOK, HumanTypeOK, JobOK, RoomOK, LockOwner,
           ApprovalOK
  <1> QED BY <1>1, <1>2, <1>3

LEMMA SealSpecKeeps ==
  ASSUME IInv, NEW s \in Steps, SealSpec(s)
  PROVE  IInv'
  <1> USE DEF IInv, TypeOK, SealSpec, Answered
  <1>1. resp' \in [Steps -> Answers] /\ AnswerOK'
    BY Defaults, AnswerKeeps
  <1> QED BY <1>1, SpecSealedKeeps DEF StepTypeOK

LEMMA SealSpecRevKeeps ==
  ASSUME IInv, SealSpecRev
  PROVE  IInv'
  <1> USE DEF IInv, TypeOK, SealSpecRev
  <1>1. AnswerOK'
    BY DEF AnswerOK
  <1> QED BY <1>1, SpecSealedKeeps DEF StepTypeOK

LEMMA SealReviewKeeps ==
  ASSUME IInv, NEW s \in Steps, SealReview(s)
  PROVE  IInv'
  <1> USE DEF IInv, TypeOK, SealReview, Sealed, TreeTouched, BaselineAfter,
              Answered, humanVars, laneVars
  <1>1. resp[s].cycle \in Cycles /\ resp[s].head \in Heads /\ laneHead \in Heads
    BY DEF AnswerOK, LaneTypeOK
  <1>2. GoalTypeOK'
    <2>1. baseline' \in (SUBSET (0 .. MaxCycles)) \cup {None}
      BY <1>1, ConstantsAssumption DEF GoalTypeOK, Cycles
    <2>2. corrupt' \subseteq corrupt
      OBVIOUS
    <2>3. UNCHANGED <<spec, approval, lock, breach, outcome, handoff, integrity>>
      OBVIOUS
    <2> HIDE DEF SealReview
    <2> QED BY <2>1, <2>2, <2>3 DEF GoalTypeOK
  <1>3. CycleTypeOK'
    BY <1>1 DEF CycleTypeOK, Reviews
  <1>4. StepTypeOK'
    BY Defaults, AnswerKeeps, NoticedType DEF StepTypeOK
  <1>5. AnswerOK'
    BY Defaults, AnswerKeeps
  <1>6. LaneTypeOK' /\ HumanTypeOK' /\ JobOK' /\ RoomOK' /\ LockOwner'
        /\ ApprovalOK'
    BY DEF LaneTypeOK, HumanTypeOK, JobOK, RoomOK, LockOwner, ApprovalOK
  <1> QED BY <1>2, <1>3, <1>4, <1>5, <1>6

LEMMA SealRulingKeeps ==
  ASSUME IInv, NEW s \in Steps, SealRuling(s)
  PROVE  IInv'
  <1> USE DEF IInv, TypeOK, SealRuling, Sealed, TreeTouched, BaselineAfter,
              Answered, humanVars, laneVars
  <1>1. resp[s].cycle \in Cycles /\ resp[s].head \in Heads /\ laneHead \in Heads
    BY DEF AnswerOK, LaneTypeOK
  <1>2. GoalTypeOK'
    BY <1>1, ConstantsAssumption DEF GoalTypeOK, Cycles
  <1>3. CycleTypeOK'
    BY <1>1 DEF CycleTypeOK, Rulings, Dispositions
  <1>4. StepTypeOK'
    BY Defaults, AnswerKeeps, NoticedType DEF StepTypeOK
  <1>5. AnswerOK'
    BY Defaults, AnswerKeeps
  <1>6. LaneTypeOK' /\ HumanTypeOK' /\ JobOK' /\ RoomOK' /\ LockOwner'
        /\ ApprovalOK'
    BY DEF LaneTypeOK, HumanTypeOK, JobOK, RoomOK, LockOwner, ApprovalOK
  <1> QED BY <1>2, <1>3, <1>4, <1>5, <1>6

LEMMA SealDeliveredKeeps ==
  ASSUME IInv, NEW s \in Steps, SealDelivered(s)
  PROVE  IInv'
  <1> USE DEF IInv, TypeOK, SealDelivered, Sealed, TreeTouched, BaselineAfter,
              Answered, cycleVars, humanVars, laneVars
  <1>1. GoalTypeOK'
    BY ConstantsAssumption DEF GoalTypeOK, CycleKinds, GoalKinds
  <1>2. StepTypeOK'
    BY Defaults, AnswerKeeps, NoticedType DEF StepTypeOK
  <1>3. AnswerOK'
    BY Defaults, AnswerKeeps
  <1>4. CycleTypeOK' /\ LaneTypeOK' /\ HumanTypeOK' /\ JobOK' /\ RoomOK'
        /\ LockOwner' /\ ApprovalOK'
    BY DEF CycleTypeOK, LaneTypeOK, HumanTypeOK, JobOK, RoomOK, LockOwner,
           ApprovalOK
  <1> QED BY <1>1, <1>2, <1>3, <1>4

LEMMA ApproveCheckKeeps ==
  ASSUME IInv, ApproveCheck
  PROVE  IInv'
  <1> USE DEF IInv, TypeOK, ApproveCheck, cycleVars, goalVars, laneVars,
              stepVars
  <1>1. HumanTypeOK'
    BY DEF HumanTypeOK, GoalTypeOK, Approvals
  <1>2. GoalTypeOK' /\ CycleTypeOK' /\ LaneTypeOK' /\ StepTypeOK' /\ JobOK'
        /\ AnswerOK' /\ RoomOK' /\ LockOwner' /\ ApprovalOK'
    BY DEF GoalTypeOK, CycleTypeOK, LaneTypeOK, StepTypeOK, JobOK, AnswerOK,
           RoomOK, LockOwner, ApprovalOK
  <1> QED BY <1>1, <1>2

LEMMA ApproveArchiveKeeps ==
  ASSUME IInv, ApproveArchive
  PROVE  IInv'
  <1> USE DEF IInv, TypeOK, ApproveArchive, Sealed, TreeTouched,
              BaselineAfter, cycleVars, laneVars
  <1>1. GoalTypeOK'
    BY ConstantsAssumption DEF GoalTypeOK, CycleKinds, GoalKinds, HumanTypeOK
  <1>2. StepTypeOK'
    BY NoticedType DEF StepTypeOK
  <1>3. HumanTypeOK'
    BY DEF HumanTypeOK
  <1>4. ApprovalOK'
    BY DEF ApprovalOK, HumanTypeOK
  <1>5. CycleTypeOK' /\ LaneTypeOK' /\ JobOK' /\ AnswerOK' /\ RoomOK'
        /\ LockOwner'
    BY DEF CycleTypeOK, LaneTypeOK, JobOK, AnswerOK, RoomOK, LockOwner
  <1> QED BY <1>1, <1>2, <1>3, <1>4, <1>5

LEMMA ApproveSealKeeps ==
  ASSUME IInv, ApproveSeal
  PROVE  IInv'
  <1> USE DEF IInv, TypeOK, ApproveSeal, Sealed, TreeTouched, BaselineAfter,
              CarriedBase, cycleVars, laneVars
  <1>1. GoalTypeOK'
    BY ConstantsAssumption DEF GoalTypeOK, HumanTypeOK, LaneTypeOK, Approvals
  <1>2. StepTypeOK'
    BY NoticedType DEF StepTypeOK
  <1>3. HumanTypeOK'
    <2>1. overtime' \in BOOLEAN
      BY Truth
    <2>2. approved' \subseteq Specs
      BY DEF HumanTypeOK
    <2>3. approver' = [pc |-> "idle", spec |-> 0, base |-> None]
      OBVIOUS
    <2> HIDE DEF ApproveSeal
    <2> QED BY <2>1, <2>2, <2>3, ConstantsAssumption DEF HumanTypeOK, Specs
  <1>4. ApprovalOK'
    BY DEF ApprovalOK, HumanTypeOK
  <1>5. CycleTypeOK' /\ LaneTypeOK' /\ JobOK' /\ AnswerOK' /\ RoomOK'
        /\ LockOwner'
    BY DEF CycleTypeOK, LaneTypeOK, JobOK, AnswerOK, RoomOK, LockOwner
  <1> QED BY <1>1, <1>2, <1>3, <1>4, <1>5

LEMMA ApproveCrashKeeps ==
  ASSUME IInv, ApproveCrash
  PROVE  IInv'
  <1> USE DEF IInv, TypeOK, ApproveCrash, cycleVars, goalVars, laneVars,
              stepVars
  <1>1. HumanTypeOK'
    BY ConstantsAssumption, Truth DEF HumanTypeOK, Specs
  <1>2. GoalTypeOK' /\ CycleTypeOK' /\ LaneTypeOK' /\ StepTypeOK' /\ JobOK'
        /\ AnswerOK' /\ RoomOK' /\ LockOwner' /\ ApprovalOK'
    BY DEF GoalTypeOK, CycleTypeOK, LaneTypeOK, StepTypeOK, JobOK, AnswerOK,
           RoomOK, LockOwner, ApprovalOK
  <1> QED BY <1>1, <1>2

LEMMA CleanupKeeps ==
  ASSUME IInv, Cleanup
  PROVE  IInv'
  <1> USE DEF IInv, TypeOK, Cleanup, cycleVars, goalVars, humanVars, stepVars
  <1>1. LaneTypeOK'
    BY DEF LaneTypeOK
  <1>2. RoomOK'
    BY DEF RoomOK, LaneTypeOK, Heads
  <1>3. GoalTypeOK' /\ CycleTypeOK' /\ StepTypeOK' /\ HumanTypeOK'
        /\ JobOK' /\ AnswerOK' /\ LockOwner' /\ ApprovalOK'
    BY DEF GoalTypeOK, CycleTypeOK, StepTypeOK, HumanTypeOK, JobOK, AnswerOK,
           LockOwner, ApprovalOK
  <1> QED BY <1>1, <1>2, <1>3

LEMMA RemoveStaleLockKeeps ==
  ASSUME IInv, RemoveStaleLock
  PROVE  IInv'
  <1> USE DEF IInv, TypeOK, RemoveStaleLock, cycleVars, humanVars, laneVars,
              stepVars
  <1>1. GoalTypeOK'
    BY DEF GoalTypeOK
  <1>2. LockOwner'
    BY DEF LockOwner, Locked, StepTypeOK
  <1>3. CycleTypeOK' /\ LaneTypeOK' /\ StepTypeOK' /\ HumanTypeOK'
        /\ JobOK' /\ AnswerOK' /\ RoomOK' /\ ApprovalOK'
    BY DEF CycleTypeOK, LaneTypeOK, StepTypeOK, HumanTypeOK, JobOK, AnswerOK,
           RoomOK, ApprovalOK
  <1> QED BY <1>1, <1>2, <1>3

LEMMA ClearBreachKeeps ==
  ASSUME IInv, ClearBreach
  PROVE  IInv'
  <1> USE DEF IInv, TypeOK, ClearBreach, TreeTouched, cycleVars, humanVars,
              laneVars
  <1>1. GoalTypeOK'
    BY Truth DEF GoalTypeOK
  <1>2. StepTypeOK'
    BY NoticedType DEF StepTypeOK
  <1>3. CycleTypeOK' /\ LaneTypeOK' /\ HumanTypeOK' /\ JobOK' /\ AnswerOK'
        /\ RoomOK' /\ LockOwner' /\ ApprovalOK'
    BY DEF CycleTypeOK, LaneTypeOK, HumanTypeOK, JobOK, AnswerOK, RoomOK,
           LockOwner, ApprovalOK
  <1> QED BY <1>1, <1>2, <1>3

LEMMA MainChangesKeeps ==
  ASSUME IInv, MainChanges
  PROVE  IInv'
  <1> USE DEF IInv, TypeOK, MainChanges, MainTouched, cycleVars, humanVars,
              laneVars
  <1>1. GoalTypeOK'
    BY DEF GoalTypeOK
  <1>2. LaneTypeOK'
    BY ConstantsAssumption DEF LaneTypeOK, Commits
  <1>3. StepTypeOK'
    BY NoticedType DEF StepTypeOK
  <1>4. CycleTypeOK' /\ HumanTypeOK' /\ JobOK' /\ AnswerOK' /\ RoomOK'
        /\ LockOwner' /\ ApprovalOK'
    BY DEF CycleTypeOK, HumanTypeOK, JobOK, AnswerOK, RoomOK, LockOwner,
           ApprovalOK
  <1> QED BY <1>1, <1>2, <1>3, <1>4

LEMMA SiblingChangesKeeps ==
  ASSUME IInv, SiblingChanges
  PROVE  IInv'
  <1> USE DEF IInv, TypeOK, SiblingChanges, TreeTouched, BaselineAfter,
              cycleVars, humanVars, laneVars
  <1>1. GoalTypeOK'
    BY ConstantsAssumption DEF GoalTypeOK
  <1>2. StepTypeOK'
    BY NoticedType DEF StepTypeOK
  <1>3. CycleTypeOK' /\ LaneTypeOK' /\ HumanTypeOK' /\ JobOK' /\ AnswerOK'
        /\ RoomOK' /\ LockOwner' /\ ApprovalOK'
    BY DEF CycleTypeOK, LaneTypeOK, HumanTypeOK, JobOK, AnswerOK, RoomOK,
           LockOwner, ApprovalOK
  <1> QED BY <1>1, <1>2, <1>3

LEMMA OvertimeKeeps ==
  ASSUME IInv, Overtime
  PROVE  IInv'
  <1> USE DEF IInv, TypeOK, Overtime, cycleVars, goalVars, laneVars, stepVars
  <1>1. HumanTypeOK'
    BY DEF HumanTypeOK
  <1>2. GoalTypeOK' /\ CycleTypeOK' /\ LaneTypeOK' /\ StepTypeOK' /\ JobOK'
        /\ AnswerOK' /\ RoomOK' /\ LockOwner' /\ ApprovalOK'
    BY DEF GoalTypeOK, CycleTypeOK, LaneTypeOK, StepTypeOK, JobOK, AnswerOK,
           RoomOK, LockOwner, ApprovalOK
  <1> QED BY <1>1, <1>2

LEMMA CorruptKeeps ==
  ASSUME IInv, NEW kind \in CycleKinds \cup GoalKinds,
         NEW n \in 0 .. MaxCycles, Corrupt(kind, n)
  PROVE  IInv'
  <1> USE DEF IInv, TypeOK, Corrupt, TreeTouched, BaselineAfter, humanVars,
              laneVars
  <1>1. GoalTypeOK'
    BY ConstantsAssumption DEF GoalTypeOK, CycleKinds, GoalKinds
  <1>2. StepTypeOK'
    BY NoticedType DEF StepTypeOK
  <1>3. CycleTypeOK'
    <2>1. UNCHANGED <<build, verification, review>>
      OBVIOUS
    <2>2. CASE kind = "ruling"
      <3>1. PICK d \in Dispositions : ruling' = [ruling EXCEPT ![n].disposition = d]
        BY <2>2
      <3>2. n \in Cycles /\ ruling[n] # None
        BY <2>2, ConstantsAssumption DEF Exists, Cycles
      <3>3. [ruling[n] EXCEPT !.disposition = d] \in Rulings
        BY <3>2 DEF CycleTypeOK, Rulings
      <3> HIDE DEF Corrupt
      <3> QED BY <2>1, <3>1, <3>2, <3>3 DEF CycleTypeOK
    <2>3. CASE kind # "ruling"
      BY <2>1, <2>3 DEF CycleTypeOK
    <2> QED BY <2>2, <2>3
  <1>4. LaneTypeOK' /\ HumanTypeOK' /\ JobOK' /\ AnswerOK' /\ RoomOK'
        /\ LockOwner' /\ ApprovalOK'
    BY DEF LaneTypeOK, HumanTypeOK, JobOK, AnswerOK, RoomOK, LockOwner,
           ApprovalOK
  <1> QED BY <1>1, <1>2, <1>3, <1>4

LEMMA StutterKeeps ==
  ASSUME IInv, UNCHANGED vars
  PROVE  IInv'
  <1> USE DEF IInv, TypeOK, vars, world, goalVars, cycleVars, laneVars,
              humanVars, stepVars
  <1>1. GoalTypeOK' /\ CycleTypeOK' /\ LaneTypeOK' /\ StepTypeOK'
        /\ HumanTypeOK'
    BY DEF GoalTypeOK, CycleTypeOK, LaneTypeOK, StepTypeOK, HumanTypeOK
  <1>2. JobOK' /\ AnswerOK' /\ RoomOK' /\ LockOwner' /\ ApprovalOK'
    BY DEF JobOK, AnswerOK, RoomOK, LockOwner, ApprovalOK
  <1> QED BY <1>1, <1>2
-----------------------------------------------------------------------------
(***************************************************************************)
(* The steps of each actor, and the theorems.                              *)
(***************************************************************************)
LEMMA DispatchKeeps ==
  ASSUME IInv, NEW s \in Steps, Dispatch(s)
  PROVE  IInv'
  BY StartBuildKeeps, LockBuildKeeps, LockBuildFailsKeeps, BuilderReturnsKeeps,
     BuilderFailsKeeps, BuildBreachKeeps, CommitLaneKeeps, ScanBreachKeeps,
     MainUnchangedKeeps, MainBreachKeeps, SealBuildKeeps
  DEF Dispatch

LEMMA VerifyKeeps ==
  ASSUME IInv, NEW s \in Steps, Verify(s)
  PROVE  IInv'
  BY StartVerificationKeeps, LockVerificationKeeps, LockVerificationFailsKeeps,
     SealVerificationKeeps, VerificationBreachKeeps, SealReviseKeeps,
     ResealReviseKeeps
  DEF Verify

LEMMA HandleKeeps ==
  ASSUME IInv, NEW s \in Steps, Handle(s)
  PROVE  IInv'
  BY AskKeeps, ReportKeeps, DispatchKeeps, VerifyKeeps, KillKeeps,
     DeliverKeeps, WriteHandoffKeeps, CallFailsKeeps
  DEF Handle

LEMMA HostKeeps ==
  ASSUME IInv, NEW s \in Steps, Host(s)
  PROVE  IInv'
  BY SealSpecKeeps, SealReviewKeeps, SealRulingKeeps, SealDeliveredKeeps
  DEF Host

LEMMA EnvironmentKeeps ==
  ASSUME IInv, Environment
  PROVE  IInv'
  BY RemoveStaleLockKeeps, ClearBreachKeeps, MainChangesKeeps,
     SiblingChangesKeeps, OvertimeKeeps, CorruptKeeps
  DEF Environment

LEMMA NextKeeps == IInv /\ [Next]_vars => IInv'
  <1> SUFFICES ASSUME IInv, [Next]_vars PROVE IInv'
    OBVIOUS
  <1>1. CASE Work
    <2>1. CASE \E s \in Steps : Handle(s) \/ BuilderWrites(s) \/ Host(s)
      BY <2>1, HandleKeeps, BuilderWritesKeeps, HostKeeps
    <2>2. CASE Approver
      BY <2>2, ApproveCheckKeeps, ApproveArchiveKeeps, ApproveSealKeeps
      DEF Approver
    <2>3. CASE SealSpecRev \/ Cleanup \/ Environment
      BY <2>3, SealSpecRevKeeps, CleanupKeeps, EnvironmentKeeps
    <2> QED BY <1>1, <2>1, <2>2, <2>3 DEF Work
  <1>2. CASE ApproveCrash
    BY <1>2, ApproveCrashKeeps
  <1>3. CASE \E s \in Steps : Crash(s)
    BY <1>3, CrashKeeps
  <1>4. CASE UNCHANGED vars
    BY <1>4, StutterKeeps
  <1> QED BY <1>1, <1>2, <1>3, <1>4 DEF Next

\* Whatever the calls, the people they call on and the world around them do,
\* in any order and with calls dying anywhere, the goal keeps to IInv.
THEOREM Inductive == Spec => []IInv
  BY InitIInv, NextKeeps, PTL DEF Spec

\* Every file, lane, call and answer keeps its shape: no action of _run_build,
\* _run_verification, approve_spec or of a host writes what the next cannot
\* read.
THEOREM TypeCorrect == Spec => []TypeOK
  <1>1. IInv => TypeOK
    BY DEF IInv
  <1> QED BY Inductive, <1>1, PTL

\* However many calls there are, only one of them is at work under the
\* in-flight lock (acquire_lock_artifact), also after calls died and an
\* operator removed what they left.
THEOREM MutualExclusion == Spec => []LaneMutex
  <1>1. IInv => LaneMutex
    BY DEF IInv, LockOwner, LaneMutex
  <1> QED BY Inductive, <1>1, PTL

\* However many specs the architect seals and in whatever order they are
\* approved, a builder is given one that a human approved (_binding_stop).
THEOREM OnlyApprovedSpecs == Spec => []DispatchedSpecIsApproved
  <1>1. IInv => DispatchedSpecIsApproved
    BY DEF IInv, ApprovalOK, DispatchedSpecIsApproved
  <1> QED BY Inductive, <1>1, PTL
=============================================================================
