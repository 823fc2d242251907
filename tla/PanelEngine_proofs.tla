------------------------- MODULE PanelEngine_proofs -------------------------
(***************************************************************************)
(* Proofs about PanelEngine. The votes of a plan are counted when it is    *)
(* written, so what the rules guarantee (Convergence_proofs) carries over  *)
(* as soon as the panel is known to converge under a rule that counts.     *)
(***************************************************************************)
EXTENDS PanelEngine, Convergence_proofs

\* The convergence rounds are those of a propose-converge configuration.
Counting ==
  /\ setup \in Setups
  /\ phase \in {"propose", "converge"} => setup.mode = "propose-converge"
  /\ plan # None => setup.rule # "advisory"

LEMMA CountingInvariant == Spec => []Counting
<1>1. Init => Counting
  BY PanelAssumption DEF Init, Counting
<1>2. Counting /\ [Next]_vars => Counting'
  <2> SUFFICES ASSUME Counting, [Next]_vars PROVE Counting'
    OBVIOUS
  <2> USE DEF Counting
  <2>1. CASE Start
    BY <2>1, PanelAssumption DEF Start
  <2>2. CASE Abort
    BY <2>2 DEF Abort, End, Gone
  <2>3. CASE Proposed
    <3>1. setup.mode = "propose-converge"
      BY <2>3, PanelAssumption DEF Proposed
    <3> QED BY <2>3, <3>1 DEF Proposed, End, Gone, Reveal
  <2>4. CASE Round
    BY <2>4, PanelAssumption DEF Round, SealPlan, End, Gone, Reveal
  <2>5. CASE Reviewed
    BY <2>5 DEF Reviewed, End, Gone
  <2>6. CASE Crash
    BY <2>6 DEF Crash, Gone
  <2>7. CASE UNCHANGED engine
    BY <2>7 DEF engine
  <2> QED
    BY <2>1, <2>2, <2>3, <2>4, <2>5, <2>6, <2>7
    DEF Next, Engine, Thread, Answer, vars
<1> QED BY <1>1, <1>2, PTL DEF Spec

\* What _seal_converged_plan is called with is a ballot of the panel that the
\* rule accepts; a plan it leaves was backed before.
LEMMA SealedBallotIsBacked ==
  ASSUME Counting, PlanIsBacked, Round, Decided, SealPlan
  PROVE  PlanIsBacked'
<1>1. setup \in Setups /\ setup.rule \in Rules \ {"advisory"} /\ setup.mode = "propose-converge"
  BY PanelAssumption DEF Counting, Round
<1>2. UNCHANGED setup /\ Panel' = Panel
  BY DEF SealPlan, End, Panel
<1>3. Panel = Contributors /\ IsFiniteSet(Panel) /\ Panel # {}
  BY <1>1, ArchiveAssumption DEF Panel
<1>4. DOMAIN Ballot = Done /\ Done \subseteq Panel
  BY DEF Ballot, Done
<1>5. Converged(setup.rule, setup.policy, Panel, Ballot)
  BY DEF Decided
<1>6. Objectors(Ballot) = {}
  BY <1>1, <1>5, ObjectionVetoes
<1>7. setup.policy = "treat-as-blocking" => Panel \subseteq DOMAIN Ballot
  BY <1>1, <1>5, SilenceVetoes
<1>8. setup.rule = "unanimous" => For(Ballot) = DOMAIN Ballot
  BY <1>5, UnanimousIsUnanimous
<1>9. ~NobodyNeeded => For(Ballot) # {}
  <2> SUFFICES ASSUME ~NobodyNeeded PROVE For(Ballot) # {}
    OBVIOUS
  <2>1. setup.rule # "inclusive-majority" \/ setup.policy # "shrink-quorum"
    BY DEF NobodyNeeded
  <2> QED BY <1>1, <1>3, <1>4, <1>5, <2>1, SomebodyIsFor
<1>10. plan' # None => plan' = plan \/ plan'.votes = Ballot
  BY DEF SealPlan
<1>11. CASE plan' = plan
  BY <1>2, <1>11 DEF PlanIsBacked, NobodyNeeded
<1>12. CASE plan' # plan
  BY <1>2, <1>4, <1>6, <1>7, <1>8, <1>9, <1>10, <1>12 DEF PlanIsBacked, NobodyNeeded
<1> QED BY <1>11, <1>12

\* Whatever is retried, re-run or cut short, no converged plan overrules an
\* objection, nor under treat-as-blocking a silence, and unless the rule needs
\* nobody somebody is for it: for any panel, any rounds and any crashes.
THEOREM PlansAreBacked == Spec => []PlanIsBacked
<1>1. Init => PlanIsBacked
  BY DEF Init, PlanIsBacked
<1>2. Counting /\ PlanIsBacked /\ [Next]_vars => PlanIsBacked'
  <2> SUFFICES ASSUME Counting, PlanIsBacked, [Next]_vars PROVE PlanIsBacked'
    OBVIOUS
  <2>1. ASSUME UNCHANGED <<setup, plan>> PROVE PlanIsBacked'
    BY <2>1 DEF PlanIsBacked, Panel, NobodyNeeded
  <2>2. CASE Start
    BY <2>1, <2>2 DEF Start
  <2>3. CASE Abort
    BY <2>1, <2>3 DEF Abort, End
  <2>4. CASE Proposed
    BY <2>1, <2>4 DEF Proposed, End, Reveal
  <2>5. CASE Round
    <3>1. CASE Decided
      BY <2>5, <3>1, SealedBallotIsBacked DEF Round
    <3>2. CASE ~Decided
      BY <2>1, <2>5, <3>2 DEF Round, End, Reveal
    <3> QED BY <3>1, <3>2
  <2>6. CASE Reviewed
    BY <2>1, <2>6 DEF Reviewed, End
  <2>7. CASE Crash
    BY <2>1, <2>7 DEF Crash
  <2>8. CASE UNCHANGED engine
    BY <2>1, <2>8 DEF engine
  <2> QED
    BY <2>2, <2>3, <2>4, <2>5, <2>6, <2>7, <2>8
    DEF Next, Engine, Thread, Answer, vars
<1> QED BY <1>1, <1>2, CountingInvariant, PTL DEF Spec
-----------------------------------------------------------------------------
(***************************************************************************)
(* The archive. Between the moment a thread finds a name free and the      *)
(* moment it writes the packet nobody else can take the name, since a pass *)
(* id carries its contributor; so the write replaces nothing.              *)
(***************************************************************************)
Holding == {"answered", "looked", "filed", "staged", "indexed", "logging", "sealed", "done"}
Written == Holding \ {"answered", "looked"}

Shape == DOMAIN at = Contributors /\ DOMAIN answer = Contributors /\ DOMAIN read = Contributors
Named(c)  == at[c] \in Holding => answer[c].pass = Pass(c, phase, round)
Free(c)   == at[c] = "looked" =>
               \E d \in Days : /\ Known(read[c], answer[c].pass) = {[pass |-> answer[c].pass, day |-> d]}
                              /\ At(answer[c].pass, d) = {}
Filed(c)  == at[c] \in Written => \E f \in files : f.packet = answer[c]

ArchiveInv ==
  /\ Shape /\ day \in Days
  /\ \A c \in Contributors : Named(c) /\ Free(c) /\ Filed(c)

LEMMA AuthorOfPass ==
  \A c, ph, r : Pass(c, ph, r).by = c
BY DEF Pass

\* What holds of the threads that do not move goes on holding: their answers
\* stay, and files come by that are another author's.
LEMMA OthersStand ==
  ASSUME ArchiveInv, UNCHANGED <<phase, round>>, NEW c \in Contributors, NEW d \in Contributors, d # c,
         at'[d] = at[d], answer'[d] = answer[d], read'[d] = read[d],
         files \subseteq files', \A f \in files' \ files : f.packet.pass.by = c
  PROVE  Named(d)' /\ Free(d)' /\ Filed(d)'
<1>1. Named(d) /\ Free(d) /\ Filed(d)  BY DEF ArchiveInv
<1>2. Named(d)'  BY <1>1 DEF Named, Pass
<1>3. Filed(d)'  BY <1>1 DEF Filed
<1>4. Free(d)'
  <2> SUFFICES ASSUME at[d] = "looked" PROVE Free(d)'
    BY DEF Free
  <2>1. PICK e \in Days : /\ Known(read[d], answer[d].pass) = {[pass |-> answer[d].pass, day |-> e]}
                          /\ At(answer[d].pass, e) = {}
    BY <1>1 DEF Free
  <2>2. answer[d].pass.by = d
    BY <1>1, AuthorOfPass DEF Named, Holding
  <2>3. At(answer[d].pass, e)' = {}
    BY <2>1, <2>2 DEF At
  <2>4. Known(read[d], answer[d].pass)' = {[pass |-> answer'[d].pass, day |-> e]}
    BY <2>1 DEF Known
  <2>5. Days' = Days
    BY DEF Days
  <2> QED BY <2>1, <2>3, <2>4, <2>5 DEF Free
<1> QED BY <1>2, <1>3, <1>4

\* Each step of review.write_and_seal keeps the invariant and every file.
LEMMA SealKeeps ==
  ASSUME ArchiveInv, UNCHANGED engine, NEW c \in Contributors, NEW attested,
         Seal(c, attested)
  PROVE  ArchiveInv' /\ files \subseteq files'
<1>0. UNCHANGED <<phase, round, day>>
  BY DEF engine, Seal, SealKnown, SealNew, WritePacket, WriteIndex, ReplaceIndex, ReplaceFails,
         ReadAudit, WriteAudit, Mirror, archive
<1>1. Shape'
  BY DEF ArchiveInv, Shape, Seal, SealKnown, SealNew, WritePacket, WriteIndex, ReplaceIndex,
         ReplaceFails, ReadAudit, WriteAudit, Mirror, archive
<1>2. \A d \in Contributors \ {c} : at'[d] = at[d] /\ answer'[d] = answer[d] /\ read'[d] = read[d]
  BY DEF ArchiveInv, Shape, Seal, SealKnown, SealNew, WritePacket, WriteIndex, ReplaceIndex,
         ReplaceFails, ReadAudit, WriteAudit, Mirror, archive
<1>3. Named(c) /\ Free(c) /\ Filed(c)
  BY DEF ArchiveInv
<1>4. Named(c)'
  BY <1>0, <1>3
  DEF ArchiveInv, Shape, Named, Holding, Pass, Seal, SealKnown, SealNew, WritePacket, WriteIndex,
      ReplaceIndex, ReplaceFails, ReadAudit, WriteAudit, Mirror, archive
<1>5. /\ files \subseteq files' /\ \A f \in files' \ files : f.packet.pass.by = c
      /\ Free(c)' /\ Filed(c)'
  <2>1. CASE WritePacket(c)
    <3>1. PICK d \in Days : /\ Known(read[c], answer[c].pass) = {[pass |-> answer[c].pass, day |-> d]}
                            /\ At(answer[c].pass, d) = {}
      BY <1>3, <2>1 DEF Free, WritePacket
    <3> DEFINE entry == [pass |-> answer[c].pass, day |-> d]
               file  == [packet |-> answer[c], day |-> d]
    <3>2. files' = files \cup {file}
      <4>1. (CHOOSE e \in Known(read[c], answer[c].pass) : TRUE) = entry
        <5>1. \A e : e \in {entry} <=> e = entry  OBVIOUS
        <5> QED BY <3>1
      <4>2. files' = (files \ At(answer[c].pass, entry.day)) \cup {[packet |-> answer[c], day |-> entry.day]}
        BY <2>1, <4>1 DEF WritePacket
      <4> QED BY <3>1, <4>2
    <3>3. answer[c].pass.by = c
      BY <1>3, <2>1, AuthorOfPass DEF Named, Holding, WritePacket
    <3>4. at'[c] = "filed" /\ answer'[c] = answer[c]
      BY <2>1 DEF WritePacket, ArchiveInv, Shape
    <3>5. Free(c)'  BY <3>4 DEF Free
    <3>6. Filed(c)'
      <4>1. file \in files' /\ file.packet = answer'[c]  BY <3>2, <3>4
      <4> QED BY <4>1 DEF Filed
    <3>7. \A f \in files' \ files : f.packet.pass.by = c
      <4> SUFFICES ASSUME NEW f \in files' \ files PROVE f.packet.pass.by = c
        OBVIOUS
      <4>1. f = file  BY <3>2
      <4> QED BY <3>3, <4>1
    <3> QED BY <3>2, <3>5, <3>6, <3>7
  <2>2. CASE SealNew(c)
    <3>1. files' = files /\ answer' = answer
      BY <2>2 DEF SealNew, archive
    <3>2. CASE NameTaken(c)
      <4>1. at'[c] = "failed"  BY <2>2, <3>2 DEF SealNew, ArchiveInv, Shape
      <4> QED BY <3>1, <4>1 DEF Free, Filed, Written, Holding
    <3>3. CASE ~NameTaken(c)
      <4>1. at'[c] = "looked" /\ read'[c] = index \cup {[pass |-> answer[c].pass, day |-> day]}
        BY <2>2, <3>3 DEF SealNew, Appended, EntryOf, ArchiveInv, Shape
      <4>2. Known(index, answer[c].pass) = {}  BY <2>2 DEF SealNew
      <4>3. Known(read'[c], answer'[c].pass) = {[pass |-> answer'[c].pass, day |-> day]}
        BY <3>1, <4>1, <4>2 DEF Known
      <4>4. At(answer[c].pass, day)' = {}  BY <1>0, <3>1, <3>3 DEF NameTaken, At
      <4>5. Known(read[c], answer[c].pass)' = Known(read'[c], answer'[c].pass)  BY DEF Known
      <4>6. day \in Days /\ Days' = Days  BY DEF ArchiveInv, Days
      <4>7. Free(c)'  BY <1>0, <3>1, <4>3, <4>4, <4>5, <4>6 DEF Free, At
      <4> QED BY <3>1, <4>1, <4>7 DEF Filed, Written, Holding
    <3> QED BY <3>2, <3>3
  <2>3. CASE SealKnown(c)
    <3>1. files' = files /\ answer' = answer
      BY <2>3 DEF SealKnown, archive
    <3>2. \/ at'[c] = "failed"
          \/ at'[c] = "sealed" /\ \E f \in files : f.packet = answer[c]
      BY <2>3 DEF SealKnown, SameContent, ArchiveInv, Shape
    <3> QED BY <3>1, <3>2 DEF Free, Filed, Written, Holding
  <2>4. CASE ~(WritePacket(c) \/ SealNew(c) \/ SealKnown(c))
    <3>1. files' = files /\ answer' = answer
      BY <2>4 DEF Seal, WriteIndex, ReplaceIndex, ReplaceFails, ReadAudit, WriteAudit, Mirror, archive
    <3>2. at[c] \in Written /\ at'[c] # "looked"
      BY <2>4 DEF Seal, WriteIndex, ReplaceIndex, ReplaceFails, ReadAudit, WriteAudit, Mirror,
                  Written, Holding, ArchiveInv, Shape
    <3> QED BY <1>3, <3>1, <3>2 DEF Free, Filed
  <2> QED BY <2>1, <2>2, <2>3, <2>4
<1>6. \A d \in Contributors \ {c} : Named(d)' /\ Free(d)' /\ Filed(d)'
  BY <1>0, <1>2, <1>5, OthersStand
<1>7. day' \in Days'  BY <1>0 DEF ArchiveInv, Days
<1> QED BY <1>1, <1>4, <1>5, <1>6, <1>7 DEF ArchiveInv

\* When the engine asks the panel anew, or its call is gone, no thread holds
\* anything.
LEMMA NewThreads ==
  ASSUME NEW stage \in {"pending", "idle"}, Threads(stage), UNCHANGED <<archive, day>>,
         ArchiveInv
  PROVE  ArchiveInv' /\ files \subseteq files'
<1>1. \A c \in Contributors : at'[c] \in {"pending", "idle"}
  BY DEF Threads
<1>2. \A c \in Contributors : Named(c)' /\ Free(c)' /\ Filed(c)'
  BY <1>1 DEF Named, Free, Filed, Holding, Written
<1>3. Shape' /\ day' \in Days'
  BY DEF Threads, Shape, ArchiveInv, Days
<1> QED BY <1>2, <1>3 DEF ArchiveInv, archive

LEMMA ArchiveStep ==
  ASSUME ArchiveInv, [Next]_vars
  PROVE  ArchiveInv' /\ files \subseteq files'
<1>1. CASE Start
  BY <1>1, NewThreads DEF Start
<1>2. ASSUME Gone, UNCHANGED <<archive, day>> PROVE ArchiveInv' /\ files \subseteq files'
  BY <1>2, NewThreads DEF Gone
<1>3. CASE Abort
  BY <1>2, <1>3 DEF Abort, End
<1>4. CASE Proposed
  BY <1>2, <1>4, NewThreads DEF Proposed, End, Reveal
<1>5. CASE Round
  BY <1>2, <1>5, NewThreads DEF Round, SealPlan, End, Reveal
<1>6. CASE Reviewed
  BY <1>2, <1>6 DEF Reviewed, End
<1>7. CASE Crash
  BY <1>2, <1>7 DEF Crash
<1>8. CASE DayPasses /\ UNCHANGED engine
  <2>1. day' \in Days'
    BY <1>8, ArchiveAssumption DEF DayPasses, ArchiveInv, Days
  <2>2. \A c \in Contributors : Named(c)' /\ Free(c)' /\ Filed(c)'
    BY <1>8 DEF DayPasses, archive, threads, engine, ArchiveInv, Named, Free, Filed, Known, At,
                Days, Pass
  <2>3. Shape'
    BY <1>8 DEF DayPasses, threads, ArchiveInv, Shape
  <2> QED BY <1>8, <2>1, <2>2, <2>3 DEF ArchiveInv, DayPasses, archive
<1>9. ASSUME NEW c \in Contributors, Thread(c) PROVE ArchiveInv' /\ files \subseteq files'
  <2>1. CASE Answer(c)
    <3>1. UNCHANGED engine /\ UNCHANGED archive /\ UNCHANGED <<read, day>>
      BY <2>1 DEF Answer
    <3>2. Shape'
      BY <2>1 DEF Answer, ArchiveInv, Shape
    <3>3. \A d \in Contributors \ {c} : at'[d] = at[d] /\ answer'[d] = answer[d] /\ read'[d] = read[d]
      BY <2>1 DEF Answer, ArchiveInv, Shape
    <3>4. Named(c)' /\ Free(c)' /\ Filed(c)'
      <4>1. \/ at'[c] = "failed"
            \/ at'[c] = "answered" /\ answer'[c].pass = Pass(c, phase, round)
        BY <2>1 DEF Answer, ArchiveInv, Shape, PacketOf
      <4> QED BY <3>1, <4>1 DEF Named, Free, Filed, Holding, Written, Pass, engine
    <3>5. \A d \in Contributors \ {c} : Named(d)' /\ Free(d)' /\ Filed(d)'
      BY <3>1, <3>3, OthersStand DEF engine, archive
    <3> QED BY <3>1, <3>2, <3>4, <3>5 DEF ArchiveInv, Days, archive
  <2>2. CASE Seal(c, c \in Hosts => host.attested) /\ UNCHANGED engine
    BY <2>2, SealKeeps
  <2> QED BY <1>9, <2>1, <2>2 DEF Thread
<1>10. CASE UNCHANGED vars
  <2>1. \A c \in Contributors : Named(c)' /\ Free(c)' /\ Filed(c)'
    BY <1>10 DEF vars, engine, archive, threads, ArchiveInv, Named, Free, Filed, Known, At, Days, Pass
  <2> QED BY <1>10, <2>1 DEF vars, archive, threads, ArchiveInv, Shape, Days
<1> QED
  BY <1>1, <1>3, <1>4, <1>5, <1>6, <1>7, <1>8, <1>9, <1>10 DEF Next, Engine

LEMMA ArchiveInvariant == Spec => []ArchiveInv
<1>1. Init => ArchiveInv
  BY ArchiveAssumption DEF Init, ArchiveInv, Shape, Named, Free, Filed, Holding, Written, Days
<1> QED BY <1>1, ArchiveStep, PTL DEF Spec

\* No step of any thread, of a later call or after a crash rewrites or removes
\* a packet, however many workers seal at once.
THEOREM PacketsStay == Spec => PacketsAreImmutable
BY ArchiveInvariant, ArchiveStep, PTL DEF Spec, PacketsAreImmutable

\* The plan names no vote that is not in the archive as that contributor's of
\* that round: for any panel, also when threads fail, calls die and are made
\* again, and the same pass id is sealed twice.
THEOREM VotesInArchive == Spec => []VotesAreSealed
<1>1. Init => VotesAreSealed
  BY DEF Init, VotesAreSealed
<1>2. Counting /\ ArchiveInv /\ VotesAreSealed /\ [Next]_vars => VotesAreSealed'
  <2> SUFFICES ASSUME Counting, ArchiveInv, VotesAreSealed, [Next]_vars PROVE VotesAreSealed'
    OBVIOUS
  <2>1. files \subseteq files'
    BY ArchiveStep
  <2>2. ASSUME UNCHANGED plan PROVE VotesAreSealed'
    BY <2>1, <2>2 DEF VotesAreSealed, Pass
  <2>3. ASSUME phase = "converge", SealPlan PROVE VotesAreSealed'
    <3>1. SUFFICES ASSUME plan' # None, plan' # plan PROVE VotesAreSealed'
      BY <2>2 DEF VotesAreSealed
    <3>2. plan'.round = round /\ plan'.votes = Ballot
      BY <2>3, <3>1 DEF SealPlan
    <3>3. ASSUME NEW c \in DOMAIN Ballot
          PROVE  \E f \in files : /\ f.packet.pass = Pass(c, "converge", round)
                                 /\ f.packet.vote = Ballot[c]
      <4>1. c \in Contributors /\ at[c] = "done" /\ Ballot[c] = answer[c].vote
        BY <3>3 DEF Ballot, Done, Panel
      <4>2. answer[c].pass = Pass(c, "converge", round)
        BY <2>3, <4>1 DEF ArchiveInv, Named, Holding
      <4>3. PICK f \in files : f.packet = answer[c]
        BY <4>1 DEF ArchiveInv, Filed, Written, Holding
      <4> QED BY <4>1, <4>2, <4>3
    <3> QED BY <2>1, <3>2, <3>3 DEF VotesAreSealed, Pass
  <2>4. CASE Round
    BY <2>2, <2>3, <2>4 DEF Round, End, Reveal
  <2>5. CASE ~Round
    <3>1. UNCHANGED plan
      BY <2>5 DEF Next, Engine, Start, Abort, Proposed, Reviewed, Reveal, Crash, Thread, Answer,
                  engine, vars
    <3> QED BY <2>2, <3>1
  <2> QED BY <2>4, <2>5
<1> QED BY <1>1, <1>2, CountingInvariant, ArchiveInvariant, PTL DEF Spec
-----------------------------------------------------------------------------
(***************************************************************************)
(* The types, and what a thread has when it goes on: a vote to answer      *)
(* with, an answer, at the end a copy of it under the name that is shown.  *)
(***************************************************************************)
HostAnswer == [vote : Votes, attested : BOOLEAN]
Equipped ==
  /\ phase # "idle" => host \in HostAnswer
  /\ phase = "idle" => \A c \in Contributors : at[c] = "idle"
  /\ \A c \in Contributors :
       /\ at[c] \in Holding => answer[c] \in Packets
       /\ at[c] = "done" => MirrorName(c, answer[c].pass) \in DOMAIN mirror

\* The types of what one thread holds.
ThreadTypeOK(c) ==
  /\ at[c] \in Stages
  /\ answer[c] = None \/ answer[c] \in {a \in Packets : a.pass.by = c}
  /\ at[c] \in {"looked", "filed", "staged"} => read[c] \subseteq Entries
  /\ at[c] = "logging" => read[c] \subseteq Passes
  /\ at[c] \in Holding => answer[c] \in Packets
  /\ at[c] = "done" => MirrorName(c, answer[c].pass) \in DOMAIN mirror

EngineTypeOK ==
  /\ setup \in Setups /\ run \in 0..MaxRuns /\ round \in 1..MaxRounds /\ day \in Days
  /\ host = None \/ host \in HostAnswer
  /\ phase \in {"idle"} \cup Phases
  /\ phase # "idle" => host \in HostAnswer
  /\ proposals \subseteq Packets /\ packet \subseteq Packets /\ revealed \subseteq DOMAIN mirror
ArchiveTypeOK ==
  /\ files \subseteq Files /\ index \subseteq Entries /\ audit \subseteq Passes
  /\ tmp = None \/ tmp \subseteq Entries
  /\ \A n \in DOMAIN mirror : mirror[n] \in Packets
Types ==
  /\ EngineTypeOK /\ ArchiveTypeOK /\ \A c \in Contributors : ThreadTypeOK(c)
  /\ phase = "idle" => \A c \in Contributors : at[c] = "idle"

LEMMA TypesAreThese == Types <=> TypeOK /\ Equipped
BY DEF Types, TypeOK, Equipped, EngineTypeOK, ArchiveTypeOK, ThreadTypeOK, HostAnswer

\* No nonce is out of the range of the calls and rounds.
LEMMA NonceType ==
  ASSUME run \in 0..MaxRuns, round \in 1..MaxRounds
  PROVE  run * (MaxRounds + 1) + round \in Nonces /\ 0 \in Nonces
<1>1. MaxRuns \in Nat /\ MaxRounds \in Nat /\ run \in Nat /\ round \in Nat
  BY PanelAssumption, ArchiveAssumption
<1>2. \A a, b, k \in Nat : a <= b => a * k <= b * k /\ a * k \in Nat
  OBVIOUS
<1> DEFINE k == MaxRounds + 1
<1>3. k \in Nat
  BY <1>1
<1>4. run * k <= MaxRuns * k /\ run * k \in Nat /\ MaxRuns * k \in Nat
  <2> HIDE DEF k
  <2> QED BY <1>1, <1>2, <1>3
<1> QED
  <2> DEFINE a == run * k
             b == MaxRuns * k
  <2>1. a <= b /\ a \in Nat /\ b \in Nat
    BY <1>4
  <2>2. Nonces = 0..(b + MaxRounds)
    BY DEF Nonces
  <2> SUFFICES a + round \in 0..(b + MaxRounds) /\ 0 \in 0..(b + MaxRounds)
    BY <2>2
  <2> HIDE DEF a, b, k
  <2> QED BY <1>1, <2>1

LEMMA PassType ==
  ASSUME NEW c \in Contributors, NEW ph \in Phases, round \in 1..MaxRounds
  PROVE  Pass(c, ph, round) \in Passes /\ Pass(c, ph, round).by = c
BY ArchiveAssumption DEF Pass, Passes

LEMMA AnswerTypes ==
  ASSUME Types, ArchiveInv, NEW c \in Contributors, Answer(c)
  PROVE  Types'
<1>1. UNCHANGED <<engine, archive, read, day>>
  BY DEF Answer
<1>2. EngineTypeOK' /\ ArchiveTypeOK'
  BY <1>1 DEF engine, archive, Types, EngineTypeOK, ArchiveTypeOK, Days
<1>3. phase # "idle" /\ phase \in Phases /\ host \in HostAnswer
  BY DEF Answer, Types, EngineTypeOK
<1>4. \A d \in Contributors \ {c} : ThreadTypeOK(d)'
  BY <1>1 DEF Answer, Types, ThreadTypeOK, ArchiveInv, Shape, archive
<1>5. ThreadTypeOK(c)'
  <2>1. CASE at' = [at EXCEPT ![c] = "failed"] /\ UNCHANGED answer
    <3>1. at'[c] = "failed" /\ answer'[c] = answer[c]
      BY <2>1 DEF ArchiveInv, Shape
    <3> QED BY <3>1 DEF Types, ThreadTypeOK, Stages, Holding
  <2>2. ASSUME NEW v \in Answers(c), answer' = [answer EXCEPT ![c] = PacketOf(c, v)],
               at' = [at EXCEPT ![c] = "answered"]
        PROVE  ThreadTypeOK(c)'
    <3>1. at'[c] = "answered" /\ answer'[c] = PacketOf(c, v)
      BY <2>2 DEF ArchiveInv, Shape
    <3>2. v \in Votes
      BY <1>3, PanelAssumption DEF Answers, HostAnswer, Votes
    <3>3. PacketOf(c, v).nonce \in Nonces
      BY NonceType DEF PacketOf, Types, EngineTypeOK
    <3>4. PacketOf(c, v) \in Packets /\ PacketOf(c, v).pass.by = c
      BY <1>3, <3>2, <3>3, PassType DEF PacketOf, Packets, Types, EngineTypeOK
    <3> QED BY <3>1, <3>4 DEF ThreadTypeOK, Stages, Holding
  <2> QED BY <2>1, <2>2 DEF Answer
<1> QED BY <1>1, <1>2, <1>3, <1>4, <1>5 DEF Types, engine

\* The threads that do not seal keep what they have.
LEMMA OthersTyped ==
  ASSUME Types, NEW d \in Contributors,
         at'[d] = at[d], answer'[d] = answer[d], read'[d] = read[d],
         DOMAIN mirror \subseteq DOMAIN mirror'
  PROVE  ThreadTypeOK(d)'
BY DEF Types, ThreadTypeOK

LEMMA SealTypes ==
  ASSUME Types, ArchiveInv, UNCHANGED engine, NEW c \in Contributors, NEW attested,
         Seal(c, attested)
  PROVE  Types'
<1> USE DEF SealKnown, SealNew, WritePacket, WriteIndex, ReplaceIndex, ReplaceFails,
            ReadAudit, WriteAudit, Mirror
<1>1. /\ day' = day /\ at[c] \in Holding /\ answer' = answer /\ DOMAIN mirror \subseteq DOMAIN mirror'
      /\ setup' = setup /\ phase' = phase
  BY DEF engine, Seal, archive, Holding
<1>2. /\ answer[c] \in Packets /\ answer[c].pass \in Passes /\ ThreadTypeOK(c)
  BY <1>1 DEF Types, ThreadTypeOK, Packets
<1>3. \A d \in Contributors \ {c} : at'[d] = at[d] /\ answer'[d] = answer[d] /\ read'[d] = read[d]
  BY DEF Seal, ArchiveInv, Shape, archive
<1>4. \A d \in Contributors \ {c} : ThreadTypeOK(d)'
  BY <1>1, <1>3, OthersTyped
<1>5. EngineTypeOK'
  BY <1>1 DEF engine, Types, EngineTypeOK, Days
<1>6. phase' # "idle"
  BY <1>1 DEF Types, Holding
<1>7. ArchiveTypeOK' /\ ThreadTypeOK(c)'
  <2>0. ArchiveTypeOK
    BY DEF Types
  <2>1. CASE SealKnown(c)
    <3>1. UNCHANGED archive /\ at'[c] \in {"sealed", "failed"} /\ read' = read
      BY <2>1 DEF ArchiveInv, Shape
    <3> QED BY <3>1, <2>0, <1>1, <1>2 DEF ArchiveTypeOK, ThreadTypeOK, Stages, archive
  <2>2. CASE SealNew(c)
    <3>1. CASE NameTaken(c)
      <4>1. UNCHANGED archive /\ at'[c] = "failed" /\ read' = read
        BY <2>2, <3>1 DEF ArchiveInv, Shape
      <4> QED BY <4>1, <2>0, <1>1, <1>2 DEF ArchiveTypeOK, ThreadTypeOK, Stages, Holding, archive
    <3>2. CASE ~NameTaken(c)
      <4>1. UNCHANGED archive /\ at'[c] = "looked" /\ read'[c] = Appended(c)
        BY <2>2, <3>2 DEF ArchiveInv, Shape
      <4>2. Appended(c) \subseteq Entries
        BY <2>0, <1>2 DEF Appended, EntryOf, ArchiveTypeOK, Entries, ArchiveInv
      <4> QED BY <4>1, <4>2, <2>0, <1>1, <1>2 DEF ArchiveTypeOK, ThreadTypeOK, Stages, archive
    <3> QED BY <3>1, <3>2
  <2>3. CASE WritePacket(c)
    <3>1. PICK d \in Days : Known(read[c], answer[c].pass) = {[pass |-> answer[c].pass, day |-> d]}
      BY <2>3 DEF ArchiveInv, Free
    <3> DEFINE entry == [pass |-> answer[c].pass, day |-> d]
    <3>2. (CHOOSE e \in Known(read[c], answer[c].pass) : TRUE) = entry
      <4>1. \A e : e \in {entry} <=> e = entry
        OBVIOUS
      <4> QED BY <3>1
    <3>3. files' = (files \ At(answer[c].pass, d)) \cup {[packet |-> answer[c], day |-> d]}
      <4>1. entry.day = d
        OBVIOUS
      <4> HIDE DEF entry
      <4> QED BY <2>3, <3>2, <4>1
    <3>4. files' \subseteq Files
      BY <3>3, <2>0, <1>2 DEF ArchiveTypeOK, Files
    <3>5. ArchiveTypeOK'
      BY <2>3, <3>4, <2>0 DEF ArchiveTypeOK
    <3>6. at'[c] = "filed" /\ read' = read /\ at[c] = "looked"
      BY <2>3 DEF ArchiveInv, Shape
    <3> QED BY <3>5, <3>6, <1>1, <1>2 DEF ThreadTypeOK, Stages
  <2>4. CASE WriteIndex(c)
    <3>1. at'[c] = "staged" /\ at[c] = "filed" /\ read'[c] = {} /\ tmp' = read[c]
      BY <2>4 DEF ArchiveInv, Shape
    <3>2. ArchiveTypeOK'
      BY <2>4, <3>1, <2>0, <1>2 DEF ArchiveTypeOK, ThreadTypeOK
    <3> QED BY <3>1, <3>2, <1>1, <1>2 DEF ThreadTypeOK, Stages
  <2>5. CASE ReplaceIndex(c)
    <3>1. at'[c] = "indexed" /\ index' = tmp /\ tmp' = None /\ tmp # None
      BY <2>5 DEF ArchiveInv, Shape
    <3>2. ArchiveTypeOK'
      BY <2>5, <3>1, <2>0 DEF ArchiveTypeOK
    <3> QED BY <3>1, <3>2, <1>1, <1>2 DEF ThreadTypeOK, Stages
  <2>6. CASE ReplaceFails(c)
    <3>1. at'[c] \in {"raised", "failed"} /\ UNCHANGED archive
      BY <2>6 DEF ArchiveInv, Shape
    <3> QED BY <3>1, <2>0, <1>1, <1>2 DEF ArchiveTypeOK, ThreadTypeOK, Stages, Holding, archive
  <2>7. CASE ReadAudit(c, attested)
    <3>1. UNCHANGED archive
      BY <2>7
    <3>2. \/ at'[c] = "logging" /\ read'[c] = audit
          \/ at'[c] = "failed"
      BY <2>7 DEF ArchiveInv, Shape
    <3> QED BY <3>1, <3>2, <2>0, <1>1, <1>2 DEF ArchiveTypeOK, ThreadTypeOK, Stages, Holding, archive
  <2>8. CASE WriteAudit(c)
    <3>1. at'[c] = "sealed" /\ at[c] = "logging" /\ audit' = read[c] \cup {answer[c].pass}
      BY <2>8 DEF ArchiveInv, Shape
    <3>2. ArchiveTypeOK'
      BY <2>8, <3>1, <2>0, <1>2 DEF ArchiveTypeOK, ThreadTypeOK
    <3> QED BY <3>1, <3>2, <1>1, <1>2 DEF ThreadTypeOK, Stages
  <2>9. CASE Mirror(c)
    <3>1. /\ at'[c] = "done"
          /\ mirror' = [n \in DOMAIN mirror \cup {MirrorName(c, answer[c].pass)} |->
                          IF n = MirrorName(c, answer[c].pass) THEN answer[c] ELSE mirror[n]]
          /\ UNCHANGED <<files, index, tmp, audit>>
      BY <2>9 DEF ArchiveInv, Shape
    <3>2. ArchiveTypeOK'
      BY <3>1, <2>0, <1>2 DEF ArchiveTypeOK
    <3>3. MirrorName(c, answer[c].pass) \in DOMAIN mirror'
      BY <3>1
    <3> QED BY <3>1, <3>2, <3>3, <1>1, <1>2 DEF ThreadTypeOK, Stages, MirrorName
  <2> QED BY <2>1, <2>2, <2>3, <2>4, <2>5, <2>6, <2>7, <2>8, <2>9 DEF Seal
<1> QED BY <1>1, <1>4, <1>5, <1>6, <1>7 DEF Types

LEMMA TypesStep ==
  ASSUME Types, ArchiveInv, [Next]_vars
  PROVE  Types'
<1>0. MaxRounds \in Nat \ {0} /\ MaxRuns \in Nat \ {0}
  BY ArchiveAssumption, PanelAssumption
<1>1. ASSUME NEW stage \in {"pending", "idle"}, Threads(stage), UNCHANGED archive,
             EngineTypeOK', stage = "idle" => phase' = "idle", stage = "pending" => phase' # "idle"
      PROVE  Types'
  <2>1. \A c \in Contributors : at'[c] \in {"idle", "pending"} /\ answer'[c] = None
    BY <1>1 DEF Threads
  <2>2. \A c \in Contributors : ThreadTypeOK(c)'
    BY <2>1 DEF ThreadTypeOK, Stages, Holding
  <2>3. phase' = "idle" => \A c \in Contributors : at'[c] = "idle"
    BY <1>1 DEF Threads
  <2>4. ArchiveTypeOK'
    BY <1>1 DEF Types, ArchiveTypeOK, archive
  <2> QED BY <1>1, <2>2, <2>3, <2>4 DEF Types
<1>2. EngineTypeOK /\ ArchiveTypeOK
  BY DEF Types
<1>3. CASE Start
  <2>1. phase' \in {"propose", "review"} /\ host' \in HostAnswer
    BY <1>3, PanelAssumption DEF Start, HostAnswer
  <2>2. EngineTypeOK'
    BY <1>0, <1>2, <1>3, <2>1 DEF Start, EngineTypeOK, Phases, Days, archive
  <2> QED BY <1>1, <1>3, <2>1, <2>2 DEF Start
<1>4. ASSUME Gone, UNCHANGED <<setup, run, archive, day>> PROVE Types'
  <2>1. EngineTypeOK' /\ phase' = "idle" /\ Threads("idle")
    BY <1>0, <1>2, <1>4 DEF Gone, EngineTypeOK, Days
  <2> QED BY <1>1, <1>4, <2>1
<1>5. ASSUME NEW r \in 1..MaxRounds, phase # "idle", Reveal(NamesOf(Done), r),
             proposals' \subseteq Packets
      PROVE  Types'
  <2>1. NamesOf(Done) \subseteq DOMAIN mirror
    BY DEF NamesOf, Done, Panel, Types, ThreadTypeOK
  <2>2. /\ revealed' \subseteq DOMAIN mirror /\ packet' = {mirror[n] : n \in revealed'}
        /\ mirror' = mirror
    BY <1>2, <1>5, <2>1 DEF Reveal, EngineTypeOK, archive, Contents
  <2>3. packet' \subseteq Packets
    BY <1>2, <2>2 DEF ArchiveTypeOK
  <2>4. phase' = "converge" /\ host' = host /\ host \in HostAnswer
    BY <1>5, <1>2 DEF Reveal, EngineTypeOK
  <2>5. EngineTypeOK'
    BY <1>2, <1>5, <2>2, <2>3, <2>4 DEF Reveal, EngineTypeOK, Phases, Days
  <2> QED BY <1>1, <1>5, <2>4, <2>5 DEF Reveal
<1>6. CASE Abort
  BY <1>4, <1>6 DEF Abort, End
<1>7. CASE Proposed
  <2>1. CASE Done # {} /\ proposals' = {answer[c] : c \in Done} /\ Reveal(NamesOf(Done), 1)
    <3>1. {answer[c] : c \in Done} \subseteq Packets
      BY DEF Done, Panel, Types, ThreadTypeOK, Holding
    <3> QED BY <1>0, <1>5, <1>7, <2>1, <3>1 DEF Proposed
  <2> QED BY <1>4, <1>7, <2>1 DEF Proposed, End
<1>8. CASE Round
  <2>1. CASE ~LastRound /\ Reveal(NamesOf(Done), round + 1) /\ UNCHANGED proposals
    BY <1>0, <1>2, <1>5, <1>8, <2>1 DEF Round, LastRound, EngineTypeOK
  <2> QED BY <1>4, <1>8, <2>1 DEF Round, SealPlan, End
<1>9. CASE Reviewed
  BY <1>4, <1>9 DEF Reviewed, End
<1>10. CASE Crash
  BY <1>4, <1>10 DEF Crash
<1>11. CASE DayPasses /\ UNCHANGED engine
  <2>1. day' \in Days
    BY <1>2, <1>11, ArchiveAssumption DEF DayPasses, EngineTypeOK, Days
  <2>2. EngineTypeOK' /\ ArchiveTypeOK'
    BY <1>2, <1>11, <2>1 DEF DayPasses, engine, archive, EngineTypeOK, ArchiveTypeOK, Days
  <2>3. \A c \in Contributors : ThreadTypeOK(c)'
    BY <1>11 DEF DayPasses, threads, archive, Types, ThreadTypeOK
  <2> QED BY <1>11, <2>2, <2>3 DEF Types, DayPasses, threads, engine
<1>12. ASSUME NEW c \in Contributors, Thread(c) PROVE Types'
  BY <1>12, AnswerTypes, SealTypes DEF Thread
<1>13. CASE UNCHANGED vars
  <2>1. EngineTypeOK' /\ ArchiveTypeOK'
    BY <1>2, <1>13 DEF vars, engine, archive, EngineTypeOK, ArchiveTypeOK, Days
  <2>2. \A c \in Contributors : ThreadTypeOK(c)'
    BY <1>13 DEF vars, threads, archive, Types, ThreadTypeOK
  <2> QED BY <1>13, <2>1, <2>2 DEF Types, vars, threads, engine
<1> QED
  BY <1>3, <1>6, <1>7, <1>8, <1>9, <1>10, <1>11, <1>12, <1>13 DEF Next, Engine

LEMMA TypesInvariant == Spec => []Types
<1>1. Init => Types
  <2> SUFFICES ASSUME Init PROVE Types
    OBVIOUS
  <2>1. EngineTypeOK /\ ArchiveTypeOK
    BY ArchiveAssumption, PanelAssumption DEF Init, EngineTypeOK, ArchiveTypeOK, Days
  <2>2. \A c \in Contributors : ThreadTypeOK(c)
    BY DEF Init, ThreadTypeOK, Stages, Holding
  <2> QED BY <2>1, <2>2 DEF Types, Init
<1> QED BY <1>1, TypesStep, ArchiveInvariant, PTL DEF Spec

\* The archive, the threads and the engine stay in their types.
THEOREM PanelTypes == Spec => []TypeOK
BY TypesInvariant, TypesAreThese, PTL
-----------------------------------------------------------------------------
(***************************************************************************)
(* Sealing one at a time. The one thread that seals holds the index as it  *)
(* is, and its new pass; so the index only grows by that pass, whose       *)
(* packet is there, and what was sealed keeps its content.                 *)
(***************************************************************************)
\* The index with the new pass of a thread.
Extended(c, entries) ==
  /\ Known(index, answer[c].pass) = {}
  /\ \E d \in Days : entries = index \cup {[pass |-> answer[c].pass, day |-> d]}
\* The packet the entries of a pass point to is there.
Backed(c, entries) == \E e \in Known(entries, answer[c].pass) : At(answer[c].pass, e.day) # {}
AtWork(c) == at[c] \notin {"idle", "pending", "done", "failed", "raised"}
Serial ==
  Workers = 1 =>
    /\ \A c, d \in Contributors : AtWork(c) /\ AtWork(d) => c = d
    /\ \A c \in Contributors :
         /\ at[c] = "looked" => Extended(c, read[c])
         /\ at[c] = "filed" => Extended(c, read[c]) /\ Backed(c, read[c])
         /\ at[c] = "staged" => Extended(c, tmp) /\ Backed(c, tmp)

LEMMA SerialSeal ==
  ASSUME Types, ArchiveInv, Serial, Workers = 1, UNCHANGED engine,
         NEW c \in Contributors, NEW attested, Seal(c, attested)
  PROVE  /\ \A d \in Contributors \ {c} : ~AtWork(d)'
         /\ at'[c] = "looked" => Extended(c, read[c])'
         /\ at'[c] = "filed" => Extended(c, read[c])' /\ Backed(c, read[c])'
         /\ at'[c] = "staged" => Extended(c, tmp)' /\ Backed(c, tmp)'
<1> USE DEF SealKnown, SealNew, WritePacket, WriteIndex, ReplaceIndex, ReplaceFails,
            ReadAudit, WriteAudit, Mirror
<1>1. AtWork(c) /\ answer' = answer /\ day' = day
  BY DEF AtWork, Seal, archive
<1>2. \A d \in Contributors \ {c} : at'[d] = at[d]
  BY DEF Seal, ArchiveInv, Shape
<1>3. \A d \in Contributors \ {c} : ~AtWork(d)'
  BY <1>1, <1>2 DEF Serial, AtWork
<1>4. /\ at[c] = "looked" => Extended(c, read[c])
      /\ at[c] = "filed" => Extended(c, read[c]) /\ Backed(c, read[c])
  BY DEF Serial
<1> DEFINE Goal == /\ at'[c] = "looked" => Extended(c, read[c])'
                   /\ at'[c] = "filed" => Extended(c, read[c])' /\ Backed(c, read[c])'
                   /\ at'[c] = "staged" => Extended(c, tmp)' /\ Backed(c, tmp)'
<1> SUFFICES Goal
  BY <1>3
<1>5. CASE SealNew(c)
  <2>1. CASE NameTaken(c)
    <3>1. at'[c] = "failed"
      BY <1>5, <2>1 DEF ArchiveInv, Shape
    <3> QED BY <3>1
  <2>2. CASE ~NameTaken(c)
    <3>1. at'[c] = "looked" /\ read'[c] = index \cup {[pass |-> answer[c].pass, day |-> day]} /\ index' = index
      BY <1>5, <2>2 DEF ArchiveInv, Shape, Appended, EntryOf, archive
    <3>2. Extended(c, read[c])'
      BY <1>1, <1>5, <3>1 DEF Extended, Known, ArchiveInv, Days
    <3> QED BY <3>1, <3>2
  <2> QED BY <2>1, <2>2
<1>6. CASE WritePacket(c)
  <2>1. PICK d \in Days : Known(read[c], answer[c].pass) = {[pass |-> answer[c].pass, day |-> d]}
    BY <1>6 DEF ArchiveInv, Free
  <2> DEFINE entry == [pass |-> answer[c].pass, day |-> d]
             file  == [packet |-> answer[c], day |-> d]
  <2>2. (CHOOSE e \in Known(read[c], answer[c].pass) : TRUE) = entry
    <3>1. \A e : e \in {entry} <=> e = entry
      OBVIOUS
    <3> QED BY <2>1
  <2>3. file \in files'
    <3>1. entry.day = d
      OBVIOUS
    <3> HIDE DEF entry
    <3> QED BY <1>6, <2>2, <3>1
  <2>4. at'[c] = "filed" /\ read' = read /\ index' = index /\ at[c] = "looked"
    BY <1>6 DEF ArchiveInv, Shape
  <2>5. Extended(c, read[c])'
    BY <1>1, <1>4, <2>4 DEF Extended, Known, Days
  <2>6. Backed(c, read[c])'
    <3>1. PICK e : e = entry
      OBVIOUS
    <3>2. e.day = d /\ e \in Known(read'[c], answer'[c].pass)
      BY <1>1, <2>1, <2>4, <3>1 DEF Known
    <3>3. file \in At(answer[c].pass, d)'
      BY <1>1, <2>3 DEF At
    <3> HIDE DEF entry, file
    <3>4. At(answer[c].pass, e.day)' # {}
      BY <3>2, <3>3
    <3>5. \E x \in Known(read'[c], answer'[c].pass) : At(answer[c].pass, x.day)' # {}
      BY <3>2, <3>4
    <3> QED BY <3>5 DEF Backed, Known, At
  <2> QED BY <2>4, <2>5, <2>6
<1>7. CASE WriteIndex(c)
  <2>1. at'[c] = "staged" /\ at[c] = "filed" /\ tmp' = read[c] /\ index' = index /\ files' = files
    BY <1>7 DEF ArchiveInv, Shape
  <2> QED BY <1>1, <1>4, <2>1 DEF Extended, Backed, Known, At, Days
<1>8. CASE SealKnown(c) \/ ReplaceIndex(c) \/ ReplaceFails(c) \/ ReadAudit(c, attested)
           \/ WriteAudit(c) \/ Mirror(c)
  <2>1. at'[c] \notin {"looked", "filed", "staged"}
    BY <1>8 DEF ArchiveInv, Shape
  <2> QED BY <2>1
<1> QED BY <1>3, <1>5, <1>6, <1>7, <1>8 DEF Seal

LEMMA SetupStays ==
  ASSUME [Next]_vars
  PROVE  setup' = setup /\ Workers' = Workers
<1>1. setup' = setup
  BY DEF Next, Engine, Start, Abort, Proposed, Round, SealPlan, Reviewed, Reveal, End, Crash,
         Thread, Answer, engine, vars
<1> QED BY <1>1 DEF Workers

LEMMA SerialStep ==
  ASSUME Types, ArchiveInv, Serial, [Next]_vars
  PROVE  Serial'
<1> SUFFICES ASSUME Workers = 1
             PROVE  Serial'
  BY SetupStays DEF Serial
<1>1. ASSUME NEW stage \in {"pending", "idle"}, Threads(stage) PROVE Serial'
  <2>1. \A c \in Contributors : at'[c] \in {"idle", "pending"}
    BY <1>1 DEF Threads
  <2> QED BY <2>1 DEF Serial, AtWork
<1>2. CASE Start
  BY <1>1, <1>2 DEF Start
<1>3. ASSUME Gone PROVE Serial'
  BY <1>1, <1>3 DEF Gone
<1>4. CASE Abort
  BY <1>3, <1>4 DEF Abort, End
<1>5. CASE Proposed
  BY <1>1, <1>3, <1>5 DEF Proposed, End, Reveal
<1>6. CASE Round
  BY <1>1, <1>3, <1>6 DEF Round, SealPlan, End, Reveal
<1>7. CASE Reviewed
  BY <1>3, <1>7 DEF Reviewed, End
<1>8. CASE Crash
  BY <1>3, <1>8 DEF Crash
<1>9. ASSUME UNCHANGED <<archive, threads, setup>> PROVE Serial'
  BY <1>9 DEF archive, threads, Serial, AtWork, Extended, Backed, Known, At, Days, Workers
<1>10. CASE DayPasses /\ UNCHANGED engine
  BY <1>9, <1>10 DEF DayPasses, engine
<1>11. ASSUME NEW c \in Contributors, Thread(c) PROVE Serial'
  <2>1. CASE Answer(c)
    <3>1. Busy = {}
      <4>1. IsFiniteSet(Busy)
        BY ArchiveAssumption, FS_Subset DEF Busy
      <4>2. Cardinality(Busy) < 1
        BY <2>1 DEF Answer
      <4>3. Cardinality(Busy) \in Nat
        BY <4>1, FS_CardinalityType
      <4>4. Cardinality(Busy) = 0
        BY <4>2, <4>3
      <4> QED BY <4>1, <4>4, FS_EmptySet
    <3>2. \A d \in Contributors : ~AtWork(d)
      BY <3>1 DEF Busy, AtWork
    <3>3. /\ \A d \in Contributors \ {c} : at'[d] = at[d]
          /\ at'[c] \in {"answered", "failed"}
      BY <2>1 DEF Answer, ArchiveInv, Shape
    <3>4. \A d \in Contributors \ {c} : ~AtWork(d)'
      BY <3>2, <3>3 DEF AtWork
    <3>5. \A d \in Contributors : at'[d] \notin {"looked", "filed", "staged"}
      BY <3>3, <3>4 DEF AtWork
    <3> QED BY <3>4, <3>5 DEF Serial
  <2>2. CASE Seal(c, c \in Hosts => host.attested) /\ UNCHANGED engine
    <3>1. \A d \in Contributors \ {c} : ~AtWork(d)'
      BY <2>2, SerialSeal
    <3>2. /\ at'[c] = "looked" => Extended(c, read[c])'
          /\ at'[c] = "filed" => Extended(c, read[c])' /\ Backed(c, read[c])'
          /\ at'[c] = "staged" => Extended(c, tmp)' /\ Backed(c, tmp)'
      BY <2>2, SerialSeal
    <3>3. \A d \in Contributors \ {c} : at'[d] \notin {"looked", "filed", "staged"}
      BY <3>1 DEF AtWork
    <3> QED BY <3>1, <3>2, <3>3 DEF Serial
  <2> QED BY <1>11, <2>1, <2>2 DEF Thread
<1>12. CASE UNCHANGED vars
  BY <1>9, <1>12 DEF vars, engine
<1> QED BY <1>2, <1>4, <1>5, <1>6, <1>7, <1>8, <1>10, <1>11, <1>12 DEF Next, Engine

LEMMA SerialInvariant == Spec => []Serial
<1>1. Init => Serial
  BY DEF Init, Serial, AtWork
<1> QED BY <1>1, SerialStep, TypesInvariant, ArchiveInvariant, PTL DEF Spec

\* What the archive holds, as SealedPasses sees it.
Sealed == IF Workers = 1 THEN [p \in Indexed |-> Content(p)] ELSE <<>>

\* The content of a pass is told from its entries and the files they name.
LEMMA ContentStays ==
  ASSUME NEW p, \A e : e.pass = p => (e \in index' <=> e \in index),
         \A f : f.packet.pass = p => (f \in files' <=> f \in files)
  PROVE  Content(p)' = Content(p)
<1>1. Known(index, p)' = Known(index, p)
  BY DEF Known
<1>2. \A d : At(p, d)' = At(p, d)
  BY DEF At
<1> DEFINE S == {f.packet : f \in UNION {At(p, e.day) : e \in Known(index, p)}}
<1>3. S' = S
  BY <1>1, <1>2
<1>4. /\ Content(p) = CHOOSE x \in S : TRUE
      /\ Content(p)' = CHOOSE x \in S' : TRUE
  BY DEF Content
<1> HIDE DEF S
<1>5. PICK T : T = S /\ T = S'
  BY <1>3
<1>6. (CHOOSE x \in S : TRUE) = (CHOOSE x \in T : TRUE)
  BY <1>5
<1>7. (CHOOSE x \in S' : TRUE) = (CHOOSE x \in T : TRUE)
  BY <1>5
<1> QED BY <1>4, <1>6, <1>7

LEMMA IndexedIsKnown ==
  ASSUME NEW p
  PROVE  p \in Indexed <=> Known(index, p) # {}
BY DEF Indexed, Known

\* A packet that is written is not that of a sealed pass.
LEMMA WriteSealsNothing ==
  ASSUME Types, ArchiveInv, Serial, Workers = 1, NEW c \in Contributors, WritePacket(c)
  PROVE  index' = index /\ \A p \in Indexed : Content(p)' = Content(p)
<1>1. /\ at[c] = "looked" /\ index' = index
      /\ \E d : files' = (files \ At(answer[c].pass, d)) \cup {[packet |-> answer[c], day |-> d]}
  BY DEF WritePacket
<1>2. answer[c].pass \notin Indexed
  BY <1>1, IndexedIsKnown DEF Serial, Extended
<1>3. ASSUME NEW p \in Indexed, NEW f, f.packet.pass = p
      PROVE  f \in files' <=> f \in files
  BY <1>1, <1>2, <1>3 DEF At
<1> QED BY <1>1, <1>3, ContentStays

\* The index that takes the place of another has its new pass and no less.
LEMMA ReplaceSeals ==
  ASSUME Types, ArchiveInv, Serial, Workers = 1, NEW c \in Contributors, ReplaceIndex(c),
         setup' = setup
  PROVE  LET p == answer[c].pass
         IN  /\ p \in Passes /\ p \notin Indexed /\ Indexed' = Indexed \cup {p}
             /\ Content(p)' \in Packets /\ \A q \in Indexed : Content(q)' = Content(q)
<1> DEFINE p == answer[c].pass
<1>1. at[c] = "staged" /\ index' = tmp /\ files' = files /\ answer' = answer
  BY DEF ReplaceIndex
<1>2. Known(index, p) = {} /\ Backed(c, tmp)
  BY <1>1 DEF Serial, Extended
<1>3. PICK d \in Days : tmp = index \cup {[pass |-> p, day |-> d]}
  BY <1>1 DEF Serial, Extended
<1>4. p \in Passes
  BY <1>1 DEF Types, ThreadTypeOK, Holding, Packets
<1>5. p \notin Indexed
  BY <1>2, IndexedIsKnown
<1>6. Indexed' = Indexed \cup {p}
  <2>1. \A e \in index' : e \in index \/ e.pass = p
    BY <1>1, <1>3
  <2>2. index \subseteq index' /\ \E e \in index' : e.pass = p
    <3>1. PICK e : e = [pass |-> p, day |-> d]
      OBVIOUS
    <3>2. e.pass = p /\ index' = index \cup {e}
      BY <1>1, <1>3, <3>1
    <3> QED BY <3>2
  <2> QED BY <2>1, <2>2 DEF Indexed
<1>7. Content(p)' \in Packets
  <2>1. PICK q : q = p
    OBVIOUS
  <2> DEFINE S == {f.packet : f \in UNION {At(q, e.day)' : e \in Known(index', q)}}
  <2>2. Content(q)' = CHOOSE x \in S : TRUE
    BY DEF Content, Known
  <2>3. S # {}
    <3>1. PICK e \in Known(tmp, p) : At(p, e.day) # {}
      BY <1>2 DEF Backed
    <3>2. e \in Known(index', q) /\ At(q, e.day)' # {}
      BY <1>1, <2>1, <3>1 DEF Known, At
    <3> QED BY <3>2
  <2>4. S \subseteq Packets
    BY <1>1 DEF Types, ArchiveTypeOK, Files, At
  <2> HIDE DEF S
  <2>5. Content(q)' \in Packets
    BY <2>2, <2>3, <2>4
  <2> QED BY <1>1, <2>1, <2>5
<1>8. ASSUME NEW q \in Indexed
      PROVE  Content(q)' = Content(q)
  <2>1. \A e : e.pass = q => (e \in index' <=> e \in index)
    BY <1>1, <1>3, <1>5, <1>8
  <2> QED BY <1>1, <2>1, ContentStays
<1> QED BY <1>4, <1>5, <1>6, <1>7, <1>8

LEMMA SealedStep ==
  ASSUME Types, ArchiveInv, Serial, [Next]_vars
  PROVE  Sealed' = Sealed \/ \E p \in Passes :
           /\ p \notin DOMAIN Sealed /\ DOMAIN Sealed' = DOMAIN Sealed \cup {p}
           /\ Sealed'[p] \in Packets /\ \A q \in DOMAIN Sealed : Sealed'[q] = Sealed[q]
<1>0. setup' = setup /\ Workers' = Workers
  BY SetupStays
<1>1. CASE Workers # 1
  BY <1>0, <1>1 DEF Sealed
<1>2. ASSUME Workers = 1, index' = index, \A p \in Indexed : Content(p)' = Content(p)
      PROVE  Sealed' = Sealed
  BY <1>0, <1>2 DEF Sealed, Indexed
<1>3. ASSUME Workers = 1, UNCHANGED <<index, files>>
      PROVE  Sealed' = Sealed
  BY <1>2, <1>3, ContentStays
<1>4. ASSUME Workers = 1, NEW c \in Contributors, WritePacket(c)
      PROVE  Sealed' = Sealed
  BY <1>2, <1>4, WriteSealsNothing
<1>5. ASSUME Workers = 1, NEW c \in Contributors, ReplaceIndex(c)
      PROVE  \E p \in Passes :
               /\ p \notin DOMAIN Sealed /\ DOMAIN Sealed' = DOMAIN Sealed \cup {p}
               /\ Sealed'[p] \in Packets /\ \A q \in DOMAIN Sealed : Sealed'[q] = Sealed[q]
  <2>1. PICK p \in Passes : p = answer[c].pass
    BY <1>0, <1>5, ReplaceSeals
  <2>2. /\ p \notin Indexed /\ Indexed' = Indexed \cup {p}
        /\ \A q \in Indexed : Content(q)' = Content(q)
    BY <1>0, <1>5, <2>1, ReplaceSeals
  <2>3. Content(p)' \in Packets
    <3>1. Content(answer[c].pass)' \in Packets /\ answer'[c].pass = p
      BY <1>0, <1>5, <2>1, ReplaceSeals DEF ReplaceIndex
    <3> QED BY <3>1
  <2>4. Sealed = [q \in Indexed |-> Content(q)] /\ Sealed' = [q \in Indexed' |-> Content(q)']
    BY <1>0, <1>5 DEF Sealed
  <2>5. DOMAIN Sealed = Indexed /\ DOMAIN Sealed' = Indexed \cup {p} /\ Sealed'[p] = Content(p)'
    BY <2>2, <2>4
  <2>6. \A q \in Indexed : Sealed'[q] = Sealed[q]
    BY <2>2, <2>4
  <2> QED BY <2>2, <2>3, <2>5, <2>6
<1>6. ASSUME NEW c \in Contributors, Thread(c),
             ~WritePacket(c), ~ReplaceIndex(c)
      PROVE  UNCHANGED <<index, files>>
  BY <1>6 DEF Thread, Answer, Seal, SealKnown, SealNew, WriteIndex, ReplaceFails, ReadAudit,
              WriteAudit, Mirror, archive
<1>7. (~\E c \in Contributors : Thread(c)) => UNCHANGED <<index, files>>
  BY DEF Next, Engine, Start, Abort, Proposed, Round, SealPlan, Reviewed, Reveal, End, Crash,
         DayPasses, archive, vars
<1> QED BY <1>1, <1>3, <1>4, <1>5, <1>6, <1>7

\* Sealing one at a time, the archive keeps its promise: a pass is sealed once,
\* with one content, and stays; whatever is retried, re-run or cut short.
THEOREM SerialArchiveKeepsItsPromise == Spec => SerialArchive
<1>1. Init => Sealed = <<>>
  <2>1. ASSUME Init PROVE Sealed = <<>>
    <3>1. Indexed = {}
      BY <2>1 DEF Init, Indexed
    <3>2. [p \in {} |-> Content(p)] = <<>>
      OBVIOUS
    <3> QED BY <3>1, <3>2 DEF Sealed
  <2> QED BY <2>1
<1>2. Types /\ ArchiveInv /\ Serial /\ [Next]_vars =>
        [\E p \in Passes : OneByOne!SealPass(p)]_Sealed
  BY SealedStep DEF OneByOne!SealPass, Sealed
<1> QED BY <1>1, <1>2, TypesInvariant, ArchiveInvariant, SerialInvariant, PTL
        DEF Spec, SerialArchive, OneByOne!Spec, OneByOne!Init, Sealed
=============================================================================
