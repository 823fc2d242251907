---------------------------- MODULE PanelEngine -----------------------------
(***************************************************************************)
(* WorkflowEngine on one iteration directory: the panel is asked in        *)
(* parallel threads, every answer is sealed, and when all have returned    *)
(* the engine counts, goes on to the next round, or ends. A process may    *)
(* die and consensus.run_iteration be called again.                        *)
(***************************************************************************)
EXTENDS Convergence, ReviewArchive

CONSTANTS Setups,  \* the configurations: [mode, rule, policy, workers]
          Ballots, \* the votes that are cast
          MaxRuns

ASSUME PanelAssumption ==
  /\ Setups \subseteq [mode : {"propose-converge", "post-review", "advisory"},
                       rule : Rules, policy : Policies, workers : Nat \ {0}]
  /\ \A s \in Setups : s.rule = "advisory" <=> s.mode = "advisory"
  /\ "approve" \in Ballots /\ Ballots \subseteq Votes
  /\ MaxRuns \in Nat \ {0}

VARIABLES
  setup,      \* effective-config.yaml
  run,        \* calls of run_iteration so far
  host,       \* claude_proposal_yaml of this call: its vote, and whether attested
  phase, round,
  proposals,  \* the blind proposals of this call
  revealed,   \* proposal_paths: the names of the copies the panel is shown
  packet,     \* this round's convergence-packet-round-<n>.yaml: what it holds of them
  plan,       \* converged-plan.yaml: the call, the round and the votes
  outcome     \* what the last call answered

engine == <<setup, run, host, phase, round, proposals, revealed, packet, plan, outcome>>
vars   == <<engine, archive, threads, day>>

\* claude wrote what a post-review looks at, and has no vote on it.
Panel == IF setup.mode = "post-review" THEN Contributors \ Hosts ELSE Contributors
\* CONSENSUS_MCP_MAX_DISPATCH_WORKERS; an advisory panel is asked one by one.
Workers == IF setup.mode = "advisory" THEN 1 ELSE setup.workers
Busy == {c \in Contributors : at[c] \notin {"idle", "pending", "done", "failed", "raised"}}
Done == {c \in Panel : at[c] = "done"}

\* The answers of the panel's models: a proposal's vote is never counted.
\* A model never gives the same answer twice; the orchestrator's is fixed.
PacketOf(c, vote) ==
  [pass |-> Pass(c, phase, round), vote |-> vote,
   nonce |-> IF c \in Hosts THEN 0 ELSE run * (MaxRounds + 1) + round]
Answers(c) == IF c \in Hosts THEN {host.vote}
              ELSE IF phase = "propose" THEN {"approve"} ELSE Ballots

\* An adapter returns with an answer to seal, or raises DispatchError: the
\* watchdog fired, the CLI failed, its output did not parse.
Answer(c) ==
  /\ at[c] = "pending" /\ Cardinality(Busy) < Workers
  /\ \/ /\ \E v \in Answers(c) : answer' = [answer EXCEPT ![c] = PacketOf(c, v)]
        /\ at' = [at EXCEPT ![c] = "answered"]
     \/ /\ c \notin Hosts
        /\ at' = [at EXCEPT ![c] = "failed"] /\ UNCHANGED answer
  /\ UNCHANGED <<engine, archive, read, day>>

Thread(c) ==
  \/ Answer(c)
  \/ Seal(c, c \in Hosts => host.attested) /\ UNCHANGED engine
-----------------------------------------------------------------------------
Threads(stage) ==
  /\ at' = [c \in Contributors |-> IF c \in Panel THEN stage ELSE "idle"]
  /\ answer' = [c \in Contributors |-> None]
  /\ read' = [c \in Contributors |-> {}]
\* The call's own state is gone with it; run_iteration starts with none.
Gone ==
  /\ phase' = "idle" /\ Threads("idle")
  /\ round' = 1 /\ host' = None
  /\ proposals' = {} /\ revealed' = {} /\ packet' = {}
AllAnswered == phase # "idle" /\ Done = Panel
Returned ==
  /\ phase # "idle"
  /\ \A c \in Panel : at[c] \in {"done", "failed", "raised"}
\* An exception that is no DispatchError ends the call.
Raised == \E c \in Panel : at[c] = "raised"

Ballot   == [c \in Done |-> answer[c].vote]
Decided  == Converged(setup.rule, setup.policy, Panel, Ballot)
NamesOf(cs) == {MirrorName(c, answer[c].pass) : c \in cs}
Contents(names) == {mirror[n] : n \in names}

Start ==
  /\ phase = "idle" /\ run < MaxRuns
  /\ run' = run + 1
  /\ \E v \in Ballots, a \in BOOLEAN : host' = [vote |-> v, attested |-> a]
  /\ phase' = IF setup.mode = "propose-converge" THEN "propose" ELSE "review"
  /\ Threads("pending") /\ outcome' = None
  /\ UNCHANGED <<setup, round, proposals, revealed, packet, plan, archive, day>>

End(result) ==
  /\ outcome' = result /\ Gone
  /\ UNCHANGED <<setup, run, archive, day>>
Answered(converged, error) == [run |-> run, converged |-> converged, error |-> error]

Abort == Returned /\ Raised /\ End(Answered(FALSE, TRUE)) /\ UNCHANGED plan

\* The round that follows: its packet bundles what the revealed names hold.
Reveal(names, r) ==
  /\ revealed' = revealed \cup names
  /\ packet' = Contents(revealed')
  /\ phase' = "converge" /\ round' = r /\ Threads("pending")
  /\ UNCHANGED <<setup, run, host, plan, outcome, archive, day>>

Proposed ==
  /\ phase = "propose" /\ Returned /\ ~Raised
  /\ \/ /\ Done = {}
        /\ End(Answered(FALSE, TRUE)) /\ UNCHANGED plan
     \/ /\ Done # {}
        /\ proposals' = {answer[c] : c \in Done}
        /\ Reveal(NamesOf(Done), 1)

\* _seal_converged_plan writes the plan, or the convention validator rejects
\* it and an earlier plan goes too, or convention-input.yaml does not parse and
\* an earlier plan stays; outcome.convergence is set by then.
SealPlan ==
  \E error \in BOOLEAN :
    /\ plan' \in IF error THEN {None, plan} ELSE {[run |-> run, round |-> round, votes |-> Ballot]}
    /\ End(Answered(TRUE, error))

RoundsExceeded == round > MaxRounds
LastRound      == round = MaxRounds

Round ==
  /\ phase = "converge" /\ Returned /\ ~Raised
  /\ \/ /\ Decided
        /\ SealPlan
     \/ /\ ~Decided /\ ~LastRound
        /\ Reveal(NamesOf(Done), round + 1)
        /\ UNCHANGED proposals
     \/ /\ ~Decided /\ LastRound
        /\ End(Answered(FALSE, TRUE)) /\ UNCHANGED plan

\* Post-review counts; advisory leaves the decision to the orchestrator.
Reviewed ==
  /\ phase = "review" /\ Returned /\ ~Raised
  /\ End(Answered(Decided, FALSE)) /\ UNCHANGED plan

Crash ==
  /\ phase # "idle" /\ Gone
  /\ UNCHANGED <<setup, run, plan, outcome, archive, day>>
-----------------------------------------------------------------------------
Init ==
  /\ setup \in Setups /\ run = 0 /\ host = None
  /\ phase = "idle" /\ round = 1 /\ proposals = {} /\ revealed = {} /\ packet = {}
  /\ plan = None /\ outcome = None
  /\ files = {} /\ index = {} /\ tmp = None /\ audit = {} /\ mirror = <<>>
  /\ at = [c \in Contributors |-> "idle"] /\ answer = [c \in Contributors |-> None]
  /\ read = [c \in Contributors |-> {}] /\ day = 1

Engine == Start \/ Abort \/ Proposed \/ Round \/ Reviewed
Next == \/ Engine \/ Crash
        \/ DayPasses /\ UNCHANGED engine
        \/ \E c \in Contributors : Thread(c)
Spec == Init /\ [][Next]_vars

\* Dispatches end (the watchdogs see to it) and the engine's code goes on.
FairSpec == Spec /\ WF_vars(Engine) /\ \A c \in Contributors : WF_vars(Thread(c))
-----------------------------------------------------------------------------
Nonces  == 0..(MaxRuns * (MaxRounds + 1) + MaxRounds)
Packets == [pass : Passes, vote : Votes, nonce : Nonces]
Files   == [packet : Packets, day : Days]
Stages  == {"idle", "pending", "answered", "looked", "filed", "staged", "indexed",
            "logging", "sealed", "done", "failed", "raised"}

\* The types of the variables, and that a packet is in its author's name.
TypeOK ==
  /\ setup \in Setups /\ run \in 0..MaxRuns /\ round \in 1..MaxRounds /\ day \in Days
  /\ host = None \/ host \in [vote : Votes, attested : BOOLEAN]
  /\ phase \in {"idle"} \cup Phases
  /\ proposals \subseteq Packets /\ packet \subseteq Packets /\ revealed \subseteq DOMAIN mirror
  /\ files \subseteq Files /\ index \subseteq Entries /\ audit \subseteq Passes
  /\ tmp = None \/ tmp \subseteq Entries
  /\ \A n \in DOMAIN mirror : mirror[n] \in Packets
  /\ \A c \in Contributors :
       /\ at[c] \in Stages
       /\ answer[c] = None \/ answer[c] \in {a \in Packets : a.pass.by = c}
       /\ at[c] \in {"looked", "filed", "staged"} => read[c] \subseteq Entries
       /\ at[c] = "logging" => read[c] \subseteq Passes

\* converged-plan.yaml holds no vote but the sealed ones: for each contributor
\* it counts, the archive has a review of that contributor and round with
\* that vote, whatever was retried, re-run or cut short before.
VotesAreSealed ==
  plan # None =>
    \A c \in DOMAIN plan.votes :
      \E f \in files : /\ f.packet.pass = Pass(c, "converge", plan.round)
                       /\ f.packet.vote = plan.votes[c]

\* Nobody's objection, and under treat-as-blocking nobody's silence, is
\* overruled in a plan; and somebody is for it, unless half of the nobody
\* that answered is enough (inclusive-majority of a quorum that shrinks).
NobodyNeeded == setup.rule = "inclusive-majority" /\ setup.policy = "shrink-quorum"
PlanIsBacked ==
  plan # None =>
    /\ Objectors(plan.votes) = {}
    /\ setup.policy = "treat-as-blocking" => DOMAIN plan.votes = Panel
    /\ setup.rule = "unanimous" => For(plan.votes) = DOMAIN plan.votes
    /\ NobodyNeeded \/ For(plan.votes) # {}

\* A sealed packet is never rewritten or removed: not by a retry, not by a
\* later round, not by the call that follows a crash between packet and index.
PacketsAreImmutable == [][files \subseteq files']_vars

\* The content of each indexed pass. A pass whose file is missing has none.
Indexed == {e.pass : e \in index}
Content(p) == CHOOSE x \in {f.packet : f \in UNION {At(p, e.day) : e \in Known(index, p)}} : TRUE
\* Sealing one at a time, the archive keeps its promise; with more workers
\* index.yaml is replaced by what a thread read before the others wrote.
OneByOne == INSTANCE SealedPasses
              WITH PassIds <- Passes, Packets <- Packets,
                   sealed <- IF Workers = 1 THEN [p \in Indexed |-> Content(p)] ELSE <<>>
SerialArchive == OneByOne!Spec

\* A call of run_iteration comes to an end, in an answer or a crash.
RunEnds == (phase # "idle") ~> (phase = "idle")

\* A contributor whose dispatch returned an artifact has its review in the
\* index, however many workers seal at once.
AnswerIsIndexed ==
  \A c \in Contributors : at[c] = "done" => answer[c].pass \in Indexed
=============================================================================
