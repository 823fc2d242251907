------------------------------ MODULE Consult -------------------------------
(***************************************************************************)
(* The commands that open, approve and close a consult: start_consult,     *)
(* seal_iteration (prepare, mint, close) and approve_consult.  Each is a   *)
(* sequence of reads, atomic file writes and unlinks, between which the    *)
(* host, the panel and the other shells go on, and at each of which it can *)
(* fail or die.                                                            *)
(***************************************************************************)
EXTENDS DesignApproval

At(s, op, point) == cmd[s] # None /\ cmd[s].op \in op /\ cmd[s].at = point
It(s)            == cmd[s].it
Goes(s, point)   == cmd' = [cmd EXCEPT ![s].at = point]
Ends(s)          == cmd' = [cmd EXCEPT ![s] = None]

\* A command begins, after the checks that refuse it before it wrote anything.
Begins(s, op, i, scope, point) ==
  /\ s \in setup.shells /\ cmd[s] = None
  /\ calls < setup.calls /\ calls' = calls + 1
  /\ cmd' = [cmd EXCEPT ![s] =
       [op |-> op, it |-> i, scope |-> scope, at |-> point, armed |-> continuous,
        plan    |-> IF op = "mint" THEN iters[i].plan.version ELSE 0,
        created |-> FALSE,                             \* approve wrote the outcome
        changed |-> IF op = "close" THEN ChangedIn(scope) ELSE {},
        seen    |-> IF op = "close" THEN tree ELSE None,
        found   |-> None]]                             \* what approve found there

CanFail(what) == what \in setup.fails

\* What the design marker holds, and what a command has read and done so far.
Points   == {"make", "packets", "question", "session", "seal", "hash", "mint", "revalidate",
             "marker", "outcome", "tokens", "clear", "unlink"}
Designs  == [ref : Iterations, scope : Scopes, plan : 1..MaxPlans]
Found    == [outcome : Outcomes, design : Designs \cup {None}]
Commands == [op : {"start", "approve", "mint", "close", "abandon"},
             it : Iterations \cup {None}, scope : SUBSET Files, at : Points,
             armed : BOOLEAN, plan : 0..MaxPlans, created : BOOLEAN, changed : SUBSET Files,
             seen : [Files -> Nat] \cup {None}, found : Found \cup {None}]
Tokens   == [version : Nat, ref : Iterations]
ASSUME NoneAssumption ==
  None \notin Iterations \cup Plans \cup Directory \cup Designs \cup Commands \cup Tokens
-----------------------------------------------------------------------------
(* consensus-mcp-start-consult *)

StartOver(s, i) ==
  /\ i \in setup.starts
  /\ Begins(s, "start", i, setup.scope[i], "make")
  /\ UNCHANGED <<repo, markers, mode>>

\* A design marker left from the consult before would authorise its scope.
StartConsult(s, i) ==
  /\ i \in setup.starts
  /\ Begins(s, "start", i, setup.scope[i], "make")
  /\ design' = IF continuous THEN None ELSE design
  /\ UNCHANGED <<repo, session, mode>>

Empty == [packet |-> FALSE, forbidden |-> {}, reviews |-> {}, plan |-> None, outcome |-> "none"]
MakeIteration(s) ==
  /\ At(s, {"start"}, "make")
  /\ \/ Exists(It(s)) /\ Ends(s) /\ UNCHANGED iters
     \/ /\ ~Exists(It(s)) /\ Goes(s, "packets")
        /\ iters' = [iters EXCEPT ![It(s)] = Empty]
  /\ UNCHANGED <<tree, head, gone, tokens, tool, markers, calls, mode>>

\* The goal packet, then the review packet, which only the reviewers read. Both
\* are plain writes: failing one ends the command and takes nothing back.
WriteGoalPacket(s) ==
  /\ At(s, {"start"}, "packets")
  /\ \/ Change(It(s), "packet", TRUE) /\ Goes(s, "question")
     \/ CanFail("write") /\ Ends(s) /\ UNCHANGED iters
  /\ UNCHANGED <<tree, head, gone, tokens, tool, markers, calls, mode>>

WriteReviewPacket(s) ==
  /\ At(s, {"start"}, "question")
  /\ \/ IF cmd[s].armed THEN Goes(s, "session") ELSE Ends(s)
     \/ CanFail("write") /\ Ends(s)
  /\ UNCHANGED <<repo, markers, calls, mode>>

\* write_session_marker: the last step of start, approve and mint. Failing
\* it, approve and mint take back what they did.
ArmGate(s) ==
  /\ At(s, {"start", "approve", "mint"}, "session")
  /\ \/ session' = It(s) /\ Ends(s)
     \/ /\ CanFail("write") /\ UNCHANGED session
        /\ IF cmd[s].op = "start" THEN Ends(s) ELSE Goes(s, "marker")
  /\ UNCHANGED <<repo, design, calls, mode>>
-----------------------------------------------------------------------------
(* consensus-mcp-approve *)

Within(scope, i)    == scope \subseteq setup.scope[i]
Forbidden(scope, i) == scope \cap iters[i].forbidden # {}

Approve(s, i, scope) ==
  /\ Exists(i) /\ Independent(i) /\ iters[i].plan # None
  /\ iters[i].packet /\ Within(scope, i) /\ ~Forbidden(scope, i)
  /\ Begins(s, "approve", i, scope, "seal")
  /\ UNCHANGED <<repo, markers, mode>>

SealDraft(s) ==
  /\ At(s, {"approve"}, "seal")
  /\ cmd' = [cmd EXCEPT ![s].created = iters[It(s)].outcome = "none", ![s].at = "hash",
                         ![s].found = [outcome |-> iters[It(s)].outcome, design |-> design]]
  /\ Change(It(s), "outcome", "sealed")
  /\ UNCHANGED <<tree, head, gone, tokens, tool, markers, calls, mode>>

\* _ensure_sealed_outcome: a sealed outcome is left as it is, a draft is not.
SealOutcome(s) ==
  /\ At(s, {"approve"}, "seal")
  /\ cmd' = [cmd EXCEPT ![s].created = ~Sealed(It(s)), ![s].at = "hash",
                         ![s].found = [outcome |-> iters[It(s)].outcome, design |-> design]]
  /\ Change(It(s), "outcome", "sealed")
  /\ UNCHANGED <<tree, head, gone, tokens, tool, markers, calls, mode>>

HashNothing(s) ==
  /\ At(s, {"approve"}, "hash")
  /\ IF iters[It(s)].plan.parses
     THEN Goes(s, IF continuous THEN "mint" ELSE "clear")
     ELSE Ends(s)
  /\ UNCHANGED <<repo, markers, calls, mode>>

\* The plan is hashed and the mode read. A plan that does not parse raises
\* here, outside every handler; on demand there is nothing to arm.
HashPlan(s) ==
  /\ At(s, {"approve"}, "hash")
  /\ IF iters[It(s)].plan.parses
     THEN cmd' = [cmd EXCEPT ![s].plan = iters[It(s)].plan.version,
                             ![s].at = IF continuous THEN "mint" ELSE "clear"]
     ELSE Ends(s)
  /\ UNCHANGED <<repo, markers, calls, mode>>

\* mint_design_approval: an overbroad scope is a ValueError, which the callers
\* catch. Failing its write is an OSError, which neither does: the command is
\* over and nothing is taken back.
Mint(s) ==
  /\ At(s, {"approve", "mint"}, "mint")
  /\ \/ Overbroad(cmd[s].scope) /\ Goes(s, "outcome") /\ UNCHANGED design
     \/ /\ ~Overbroad(cmd[s].scope)
        /\ design' = [ref |-> It(s), scope |-> cmd[s].scope, plan |-> cmd[s].plan]
        /\ Goes(s, IF cmd[s].op = "approve" THEN "revalidate" ELSE "session")
     \/ ~Overbroad(cmd[s].scope) /\ CanFail("write") /\ Ends(s) /\ UNCHANGED design
  /\ UNCHANGED <<repo, session, calls, mode>>

Revalidate(s) ==
  /\ At(s, {"approve"}, "revalidate")
  /\ Goes(s, IF Revalidated([ref |-> It(s), plan |-> cmd[s].plan]) THEN "session" ELSE "marker")
  /\ UNCHANGED <<repo, markers, calls, mode>>

RollbackNoMarker(s) ==
  /\ At(s, {"approve", "mint"}, "marker")
  /\ Goes(s, "outcome")
  /\ UNCHANGED <<repo, markers, calls, mode>>

\* _rollback: the design marker that is there, then the outcome this call wrote.
RollbackMarker(s) ==
  /\ At(s, {"approve", "mint"}, "marker")
  /\ \/ design' = None
     \/ CanFail("unlink") /\ UNCHANGED design
  /\ Goes(s, "outcome")
  /\ UNCHANGED <<repo, session, calls, mode>>

RollbackOutcome(s) ==
  /\ At(s, {"approve", "mint"}, "outcome")
  /\ \/ cmd[s].created /\ Change(It(s), "outcome", "none")
     \/ (cmd[s].created => CanFail("unlink")) /\ UNCHANGED iters
  /\ Ends(s)
  /\ UNCHANGED <<tree, head, gone, tokens, tool, markers, calls, mode>>
-----------------------------------------------------------------------------
(* consensus-mcp-seal-iteration *)

\* prepare writes a skeleton outcome; the copies it makes of the reviews are
\* of families that count already.
Prepare(i) ==
  /\ Exists(i) /\ iters[i].outcome = "none"
  /\ Change(i, "outcome", "draft")
  /\ UNCHANGED <<tree, head, gone, tokens, tool, markers, shells, mode>>

Lints(i) == iters[i].plan # None => iters[i].plan.parses

\* mint: lint, a tight scope, a sealed outcome and a plan. Neither the goal
\* packet nor the reviewers are looked at.
MintByHand(s, i, scope) ==
  /\ setup.mints
  /\ Exists(i) /\ Lints(i) /\ ~Overbroad(scope)
  /\ Sealed(i) /\ iters[i].plan # None
  /\ Begins(s, "mint", i, scope, "mint")
  /\ UNCHANGED <<repo, markers, mode>>

\* close goes by the design marker, whichever iteration it is called for: the
\* files of its scope that git calls changed need a token each. Without git
\* every file of the scope does.
Close(s) ==
  /\ design # None
  /\ Begins(s, "close", None, design.scope, "tokens")
  /\ UNCHANGED <<repo, markers, mode>>

\* That a token is there is enough: what it was minted for is not read.
Missing(s) == {f \in cmd[s].changed : tokens[f] = None}

CheckTokens(s) ==
  /\ At(s, {"close"}, "tokens")
  /\ IF Missing(s) # {} THEN Ends(s) ELSE Goes(s, "clear")
  /\ UNCHANGED <<repo, markers, calls, mode>>

Abandon(s) ==
  /\ Begins(s, "abandon", None, {}, "clear")
  /\ UNCHANGED <<repo, markers, mode>>

\* clear_session_marker says nothing when the unlink fails.
ClearSession(s) ==
  /\ At(s, {"approve", "close", "abandon"}, "clear")
  /\ \/ session' = None
     \/ CanFail("unlink") /\ UNCHANGED session
  /\ Goes(s, "unlink")
  /\ UNCHANGED <<repo, design, calls, mode>>

UnlinkDesign(s) ==
  /\ At(s, {"approve", "close", "abandon"}, "unlink")
  /\ \/ design' = None
     \/ CanFail("unlink") /\ UNCHANGED design
  /\ Ends(s)
  /\ UNCHANGED <<repo, session, calls, mode>>
-----------------------------------------------------------------------------
Dies(s) ==
  /\ setup.crashes /\ cmd[s] # None /\ Ends(s)
  /\ UNCHANGED <<repo, markers, calls, mode>>

Init ==
  /\ setup \in Setups /\ continuous = setup.continuous /\ switched = 0
  /\ iters = setup.found /\ session = None /\ design = None
  /\ tree = [f \in Files |-> 0] /\ head = tree
  /\ gone = {} /\ tokens = [f \in Files |-> None] /\ tool = None
  /\ cmd = [s \in Shells |-> None] /\ calls = 0

Command(s) ==
  \/ MakeIteration(s) \/ WriteGoalPacket(s) \/ WriteReviewPacket(s) \/ ArmGate(s)
  \/ SealOutcome(s) \/ HashPlan(s) \/ Mint(s) \/ Revalidate(s)
  \/ RollbackMarker(s) \/ RollbackOutcome(s)
  \/ CheckTokens(s) \/ ClearSession(s) \/ UnlinkDesign(s) \/ Dies(s)

Next ==
  \/ \E s \in Shells : \/ Command(s) \/ Close(s) \/ Abandon(s)
                       \/ \E i \in Iterations : StartConsult(s, i)
                       \/ \E i \in Iterations, scope \in Scopes :
                            \/ Approve(s, i, scope)
                            \/ MintByHand(s, i, scope)
  \/ \E i \in Iterations : \/ Prepare(i) \/ PanelAndHost(i)
                           \/ \E f \in Files : MintToken(f, i)
  \/ \E kind \in Tools, f \in Files : HostCalls(kind, f)
  \/ ToolRuns \/ Commit \/ SwitchMode

Spec == Init /\ [][Next]_vars
-----------------------------------------------------------------------------
\* The types of the variables; that a rollback is on only of an approval or a
\* mint, and a plan is named by who has hashed it.
TypeOK ==
  /\ setup \in Setups /\ continuous \in BOOLEAN /\ switched \in 0..setup.switches
  /\ iters \in [Iterations -> Directory \cup {None}]
  /\ session \in Iterations \cup {None}
  /\ design \in Designs \cup {None}
  /\ {tree, head} \subseteq [Files -> 0..setup.edits] /\ gone \subseteq Files
  /\ \A f \in Files : \/ tokens[f] = None
                      \/ tokens[f] \in [version : 0..tree[f], ref : Iterations]
  /\ tool = None \/ tool \in [kind : Tools, file : Files, gated : BOOLEAN,
                               ref : Iterations \cup {None}]
  /\ calls \in 0..setup.calls
  /\ \A s \in Shells :
       cmd[s] # None =>
         /\ s \in setup.shells /\ cmd[s].at \in Points
         /\ cmd[s].at \in {"marker", "outcome"} => cmd[s].op \in {"approve", "mint"}
         /\ cmd[s].at \in {"mint", "revalidate"} => cmd[s].plan \in 1..MaxPlans

\* An edit that the gate judged and let through is of a file the consult was started
\* for and nobody forbade, under a plan that two families besides the host
\* reviewed: through start, approval, hook and tool call, with all that
\* other shells and a change of mode can do in between, as long as the operator
\* does not put another state in the place of the consult's.
EditsWereApproved ==
  [][\A f \in Files :
       tree'[f] # tree[f] /\ tool.kind = "edit" /\ tool.gated /\ ~setup.mints /\ setup.restores = 0 =>
         /\ tool.ref # None /\ Exists(tool.ref)
         /\ iters[tool.ref].packet /\ iters[tool.ref].plan # None
         /\ \E a, b \in iters[tool.ref].reviews \ {"claude"} : a # b
         /\ f \in setup.scope[tool.ref] \ iters[tool.ref].forbidden]_vars

\* One shell, and no death or failing unlink in the middle of an approval:
\* between commands the two markers are of the same consult, so a consult
\* that was started never works under the scope of the one before.
Undisturbed  == ~setup.crashes /\ Cardinality(setup.shells) = 1 /\ "unlink" \notin setup.fails
MarkersAgree ==
  Undisturbed /\ (\A s \in Shells : cmd[s] = None) /\ session # None /\ design # None
    => design.ref = session

\* One shell: the design marker is never there without the seal it points at,
\* also after a rollback that died half way.
MarkerIsBacked ==
  Cardinality(setup.shells) = 1 /\ "unlink" \notin setup.fails /\ setup.restores = 0
    /\ design # None => Sealed(design.ref) /\ iters[design.ref].plan # None

\* One shell: when close disarms, each file of the approved scope that is there
\* and differs from its last commit has a token, unless it was edited after the
\* tree was looked at. Without git every file that is there has.
ClosedWithTokens ==
  [][\A s \in Shells :
       At(s, {"close"}, "unlink") /\ design' # design /\ Cardinality(setup.shells) = 1 =>
         \A f \in design.scope \ gone :
           /\ tree[f] # head[f] \/ ~setup.git
           /\ tree[f] = cmd[s].seen[f]
           => tokens[f] # None]_vars

\* An approval that is rolled back leaves no seal that it did not find.
RollbackUnseals ==
  [][\A s \in Shells :
       At(s, {"approve"}, "outcome") /\ cmd'[s] = None /\ Undisturbed
         /\ cmd[s].found.outcome # "sealed" => iters'[cmd[s].it].outcome # "sealed"]_vars

\* "A failed approve leaves the repo exactly as it was found."
ApproveIsTransactional ==
  [][\A s \in Shells :
       At(s, {"approve"}, cmd[s].at) /\ cmd[s].at \in {"hash", "outcome"} /\ cmd'[s] = None
         /\ Undisturbed =>
         /\ iters'[cmd[s].it].outcome = cmd[s].found.outcome
         /\ design' = cmd[s].found.design]_vars
=============================================================================
