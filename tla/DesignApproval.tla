--------------------------- MODULE DesignApproval ---------------------------
(***************************************************************************)
(* What a consult leaves on disk: the iteration directories, the session   *)
(* marker and the design-approved marker, and the PreToolUse hook that     *)
(* reads them.  A marker carries no trust of its own: each check goes back *)
(* to the iteration it points at.                                          *)
(***************************************************************************)
EXTENDS Integers, FiniteSets

CONSTANTS Setups,      \* what is on disk, and how much goes on
          Iterations,  \* iteration ids: each is a hash of the question and the scope
          Families,    \* reviewer families
          Files,       \* source files
          Shells,      \* terminals, and the MCP server, that run the commands
          MaxPlans,    \* bound: times a converged plan is written
          None

\* converged-plan.yaml: its version, and whether it parses.
Plans      == [version : 1..MaxPlans, parses : BOOLEAN]
Outcomes   == {"none", "draft", "sealed"}
Directory  == [packet : BOOLEAN, forbidden : SUBSET Files, reviews : SUBSET Families,
               plan : Plans \cup {None}, outcome : Outcomes]

Tools      == {"edit", "bash"}
Scopes     == SUBSET Files \ {{}}

ASSUME ConsultAssumption ==
  /\ Setups \subseteq [scope : [Iterations -> Scopes],
                       found : [Iterations -> Directory \cup {None}],
                       continuous : BOOLEAN, shells : SUBSET Shells,
                       calls : Nat, edits : Nat, switches : Nat, plans : 0..MaxPlans,
                       panel : SUBSET Families, forbids : BOOLEAN,
                       starts : SUBSET Iterations, refs : SUBSET Iterations, tools : SUBSET Tools,
                       mints : BOOLEAN, crashes : BOOLEAN, git : BOOLEAN, restores : Nat,
                       fails : SUBSET {"write", "unlink", "hook"}]
  /\ "claude" \in Families /\ MaxPlans \in Nat /\ IsFiniteSet(Shells)

VARIABLES
  setup,
  continuous,  \* governance_mode is continuous, not on_demand
  switched,    \* times the operator changed it
  iters,       \* consensus-state/active: the iteration directories
  session,     \* .consensus/session-active: the iteration it names
  design,      \* .consensus/design-approved: [ref, scope, plan]
  tree, head,  \* version of each source file, and of its last commit
  gone,        \* source files that are not there: a removal is a version too
  tokens,      \* .delivery-readiness: [version, ref] per file
  tool,        \* the host's tool call that the hook let through
  cmd,         \* the command each shell is in
  calls        \* commands so far

repo    == <<iters, tree, head, gone, tokens, tool>>
markers == <<session, design>>
shells  == <<cmd, calls>>
mode    == <<setup, continuous, switched>>
vars    == <<repo, markers, shells, mode>>

\* None, or the iteration under consensus-state/active.
Exists(i)  == iters[i] # None
Change(i, field, value) == iters' = [iters EXCEPT ![i][field] = value]
-----------------------------------------------------------------------------
(* The seal of an iteration. *)

\* '*' and '**' are refused, whatever else the panel agreed to.
Overbroad(scope) == scope = Files

Sealed(i) == Exists(i) /\ iters[i].outcome = "sealed"

IndependentOrHost(i) == Cardinality(iters[i].reviews) >= 2

\* Reviews of two families that are not the host's: no self-approval.
Independent(i) == Cardinality(iters[i].reviews \ {"claude"}) >= 2

\* The iteration the marker names is sealed and reviewed, and its plan is the
\* one that was approved.
Revalidated(marker) ==
  /\ Sealed(marker.ref) /\ Independent(marker.ref)
  /\ iters[marker.ref].plan # None /\ iters[marker.ref].plan.parses
  /\ iters[marker.ref].plan.version = marker.plan

MarkerIsSealed == design # None /\ ~Overbroad(design.scope) /\ Revalidated(design)
Approves(f)    == MarkerIsSealed /\ f \in design.scope
-----------------------------------------------------------------------------
(* The host's tool calls: the hook answers first, the tool runs later. *)

\* The gate is there in continuous mode only; .consensus/ and
\* consensus-state/ are not behind it, nor is a read-only Bash command.
\* A Bash command may write any file: a sealed marker is all it needs.
HookAllows(kind, f) ==
  \/ ~continuous
  \/ kind = "edit" /\ Approves(f)
  \/ kind = "bash" /\ MarkerIsSealed

\* _main_fail_open: a hook that raises has judged nothing and lets everything pass.
HookFails == "hook" \in setup.fails

HostCalls(kind, f) ==
  /\ kind \in setup.tools /\ tool = None /\ tree[f] < setup.edits
  /\ \E judged \in BOOLEAN :
       /\ IF judged THEN HookAllows(kind, f) ELSE HookFails
       /\ tool' = [kind |-> kind, file |-> f, gated |-> continuous /\ judged,
                   ref |-> IF design = None THEN None ELSE design.ref]
  /\ UNCHANGED <<iters, tree, head, gone, tokens, markers, shells, mode>>

\* It writes the file, there before or not; a Bash command may remove it.
ToolRuns ==
  /\ tool # None
  /\ tree' = [tree EXCEPT ![tool.file] = @ + 1] /\ tool' = None
  /\ \/ gone' = gone \ {tool.file}
     \/ tool.kind = "bash" /\ tool.file \notin gone /\ gone' = gone \cup {tool.file}
  /\ UNCHANGED <<iters, head, tokens, markers, shells, mode>>

\* git commit -a, of the host or the operator.
Commit ==
  /\ tree # head /\ head' = tree
  /\ UNCHANGED <<iters, tree, gone, tokens, tool, markers, shells, mode>>

\* The files of an iteration are the panel's and the host's to write.
PanelAndHost(i) ==
  /\ Exists(i)
  /\ \/ \E family \in setup.panel \ iters[i].reviews :
          Change(i, "reviews", iters[i].reviews \cup {family})
     \/ \E parses \in BOOLEAN :
          LET last == IF iters[i].plan = None THEN 0 ELSE iters[i].plan.version
          IN  /\ last < setup.plans
              /\ Change(i, "plan", [version |-> last + 1, parses |-> parses])
     \* The operator fills in the skeleton, or forbids a file before the panel is asked.
     \/ iters[i].outcome = "draft" /\ Change(i, "outcome", "sealed")
     \/ /\ setup.forbids /\ iters[i].packet
        /\ iters[i].reviews = {} /\ iters[i].forbidden = {}
        /\ \E f \in Files : Change(i, "forbidden", {f})
  /\ UNCHANGED <<tree, head, gone, tokens, tool, markers, shells, mode>>

\* The operator edits .consensus/config.yaml.
SwitchMode ==
  /\ switched < setup.switches /\ switched' = switched + 1
  /\ continuous' = ~continuous
  /\ UNCHANGED <<setup, repo, markers, shells>>
-----------------------------------------------------------------------------
(* The delivery tokens. *)

\* consensus-mcp-deliver: any sealed iteration will do, and the reviewers who
\* vetted the file are whoever the caller says.
MintToken(f, i) ==
  /\ i \in setup.refs /\ Sealed(i) /\ f \notin gone
  /\ tokens[f] # [version |-> tree[f], ref |-> i]
  /\ tokens' = [tokens EXCEPT ![f] = [version |-> tree[f], ref |-> i]]
  /\ UNCHANGED <<iters, tree, head, gone, tool, markers, shells, mode>>

ChangedInGit(scope) == {f \in scope \ gone : tree[f] # head[f] /\ setup.git}

\* The files of a scope, of those that are there, that git status calls
\* changed; without git, all of them. A file that was removed is not looked for.
ChangedIn(scope) == {f \in scope \ gone : tree[f] # head[f] \/ ~setup.git}
=============================================================================
