--------------------------- MODULE Consult_proofs ---------------------------
(***************************************************************************)
(* What the markers of a consult promise, for any number of shells,        *)
(* consults, files and families, next to a host, an operator who restores, *)
(* failing writes and deaths at any point.                                 *)
(*                                                                         *)
(* A command is judged by what it has read, and others go on meanwhile. So *)
(* the argument has two halves: what a consult has gained it keeps         *)
(* (Grows), and each command carries what it still relies on (CmdOK).      *)
(***************************************************************************)
EXTENDS Snapshots, FiniteSetTheorems, SequenceTheorems, TLAPS

Ways == ({"start"} \X {"make", "packets", "question", "session"})
   \cup ({"approve"} \X {"seal", "hash", "mint", "revalidate", "session", "marker", "outcome",
                         "clear", "unlink"})
   \cup ({"mint"} \X {"mint", "session", "marker", "outcome"})
   \cup ({"close"} \X {"tokens", "clear", "unlink"})
   \cup ({"abandon"} \X {"clear", "unlink"})
Active(s) == cmd[s] # None
-----------------------------------------------------------------------------
(***************************************************************************)
(* The inductive invariant.                                                *)
(***************************************************************************)
\* Two families besides the host reviewed it.
Vetted(i) == \E a, b \in iters[i].reviews \ {"claude"} : a # b
\* What an approval looks for: it stays, as nothing is forbidden once there
\* are reviews.
Approvable(i, scope) ==
  /\ Exists(i) /\ iters[i].packet /\ iters[i].plan # None /\ Vetted(i)
  /\ scope \subseteq setup.scope[i] \ iters[i].forbidden

\* What TypeOK leaves out, and that a tool call that was let through can still run.
CmdType == cmd \in [Shells -> Commands \cup {None}]
TreeOK ==
  /\ tree \in [Files -> 0..setup.edits] /\ head \in [Files -> 0..setup.edits]
  /\ tokens \in [Files -> Tokens \cup {None}]
  /\ \A f \in Files : tokens[f] = None \/ tokens[f].version <= tree[f]
  /\ tool = None \/ tool \in [kind : Tools, file : Files, gated : BOOLEAN,
                              ref : Iterations \cup {None}]
  /\ tool # None => tree[tool.file] < setup.edits
  /\ gone \subseteq Files
StateOK ==
  /\ TypeOK /\ TreeOK /\ CmdType

\* Where a command is, and what it goes by.
CmdOK(s) ==
  Active(s) =>
    /\ <<cmd[s].op, cmd[s].at>> \in Ways
    /\ cmd[s].op \in {"start", "approve", "mint"} => It(s) \in Iterations
    /\ cmd[s].op = "start" /\ cmd[s].at # "make" => Exists(It(s))
    /\ cmd[s].op = "start" /\ cmd[s].at = "session" => cmd[s].armed
    /\ cmd[s].op \in {"approve", "mint"} =>
         cmd[s].scope \in Scopes /\ Exists(It(s)) /\ iters[It(s)].plan # None
    /\ cmd[s].op = "approve" => Approvable(It(s), cmd[s].scope)
    /\ cmd[s].op = "approve" /\ cmd[s].at # "seal" =>
         cmd[s].found \in Found /\ cmd[s].created = (cmd[s].found.outcome # "sealed")
    /\ cmd[s].op = "mint" => setup.mints /\ ~cmd[s].created

\* What closing goes by: an edit after git was asked is not looked for.
CloseOK(s) ==
  Active(s) /\ cmd[s].op = "close" =>
    /\ cmd[s].seen \in [Files -> Nat]
    /\ \A f \in Files : cmd[s].seen[f] <= tree[f]
    /\ \A f \in cmd[s].scope \ gone : tree[f] = cmd[s].seen[f] /\ (tree[f] # head[f] \/ ~setup.git) =>
         f \in cmd[s].changed
    /\ cmd[s].at # "tokens" => Missing(s) = {}

\* A marker that no hand minted and no restore went behind, and the edits let
\* through under it.
Minted == ~setup.mints /\ setup.restores = 0
MarkerOK == Minted /\ design # None => Approvable(design.ref, design.scope)
ToolOK ==
  Minted /\ tool # None /\ tool.kind = "edit" /\ tool.gated =>
    tool.ref \in Iterations /\ Approvable(tool.ref, {tool.file})

\* With one shell: what its command does to the markers nobody else undoes.
OneShell  == \E s \in Shells : setup.shells = {s}
Backed    == setup.restores = 0 /\ "unlink" \notin setup.fails
Armed     == {"revalidate", "session", "marker"}
ShellOK(s) ==
  Active(s) =>
    /\ cmd[s].op \in {"approve", "mint"} /\ cmd[s].at \in Armed =>
         design # None /\ design.ref = It(s)
    /\ cmd[s].op = "start" /\ cmd[s].armed => design = None
    /\ cmd[s].op = "close" => design # None /\ design.scope = cmd[s].scope
    /\ cmd[s].op \in {"approve", "mint"} /\ cmd[s].at \in Armed \cup {"hash", "mint"} =>
         Sealed(It(s))
    /\ Backed /\ cmd[s].op = "approve" /\ cmd[s].created /\ cmd[s].at \in {"hash", "mint", "outcome"}
         /\ design # None => design.ref # It(s)
BackedOK == Backed /\ design # None => Sealed(design.ref) /\ iters[design.ref].plan # None
AgreeOK ==
  ~setup.crashes /\ "unlink" \notin setup.fails /\ session # None /\ design # None
    /\ design.ref # session =>
    \E s \in Shells : Active(s) /\ cmd[s].op \in {"approve", "mint"} /\ cmd[s].at \in Armed
OneShellOK == OneShell => BackedOK /\ AgreeOK /\ \A s \in Shells : ShellOK(s)

\* The operator's commands and the shells' exclude each other.
SavedFiles == (Iterations \X {"packet"} \X SUBSET Files) \cup (Iterations \X {"plan"} \X Plans)
    \cup (Iterations \X {"outcome"} \X (Outcomes \ {"none"})) \cup (Iterations \X Families \X {"review"})
Keeping == [stage : {"none", "copy", "tag", "advance", "extract", "clean", "fill"}, tag : Nat,
            scope : SUBSET Iterations, force : BOOLEAN, files : SUBSET SavedFiles, log : SUBSET Nat,
            seen : SUBSET SavedFiles, at : [Iterations -> Directory \cup {None}] \cup {None},
            calm : BOOLEAN]
SavedCommits == [files : SUBSET SavedFiles, log : SUBSET Nat]
KeepOK ==
  /\ keep \in Keeping /\ kept \in Nat /\ branch \in {None} \cup 0..Len(snapshots)
  /\ snapshots \in Seq(SavedCommits)
  /\ keep.tag \in 0..Len(snapshots)
  /\ keep.stage \in {"extract", "clean", "fill"} => keep.tag # 0
  /\ keep.stage # "none" => setup.restores # 0 /\ \A s \in Shells : ~Active(s)

ConsultInv ==
  /\ StateOK /\ MarkerOK /\ ToolOK /\ OneShellOK /\ KeepOK
  /\ \A s \in Shells : CmdOK(s) /\ CloseOK(s)
-----------------------------------------------------------------------------
(***************************************************************************)
(* What one step does to the command of a shell.                           *)
(***************************************************************************)
Others(s) == \A t \in Shells : t # s => cmd'[t] = cmd[t]
Kept(s) ==
  /\ cmd'[s].op = cmd[s].op /\ cmd'[s].it = cmd[s].it /\ cmd'[s].scope = cmd[s].scope
  /\ cmd'[s].armed = cmd[s].armed /\ cmd'[s].changed = cmd[s].changed
  /\ cmd'[s].seen = cmd[s].seen

LEMMA GoesOn ==
  ASSUME CmdType, NEW s \in Shells, Active(s), NEW point \in Points, Goes(s, point)
  PROVE  /\ CmdType' /\ cmd'[s] \in Commands /\ cmd'[s] # None /\ Others(s) /\ Kept(s)
         /\ cmd'[s].at = point /\ cmd'[s].plan = cmd[s].plan
         /\ cmd'[s].created = cmd[s].created /\ cmd'[s].found = cmd[s].found
<1>1. cmd[s] \in Commands
  BY DEF CmdType, Active
<1>2. [cmd[s] EXCEPT !.at = point] \in Commands
  BY <1>1 DEF Commands
<1>3. cmd' = [cmd EXCEPT ![s] = [cmd[s] EXCEPT !.at = point]]
  BY DEF Goes
<1> QED BY <1>1, <1>2, <1>3, NoneAssumption DEF CmdType, Others, Kept, Commands

LEMMA IsOver ==
  ASSUME CmdType, NEW s \in Shells, Ends(s)
  PROVE  CmdType' /\ cmd'[s] = None /\ Others(s)
BY DEF CmdType, Ends, Others

Begun(s, op, i, scope, point) ==
  /\ CmdType' /\ cmd'[s] \in Commands /\ cmd'[s] # None /\ Others(s)
  /\ cmd[s] = None /\ s \in setup.shells /\ calls' \in 0..setup.calls
  /\ cmd'[s].op = op /\ cmd'[s].it = i /\ cmd'[s].scope = scope /\ cmd'[s].at = point
  /\ cmd'[s].armed = continuous /\ cmd'[s].created = FALSE
  /\ op = "mint" => cmd'[s].plan \in 1..MaxPlans
  /\ op = "close" => cmd'[s].seen = tree /\ cmd'[s].changed = ChangedIn(scope)

LEMMA BeginsAs ==
  ASSUME StateOK, NEW s \in Shells, NEW op \in {"start", "approve", "mint", "close", "abandon"},
         NEW i \in Iterations \cup {None}, NEW scope \in SUBSET Files, NEW point \in Points,
         op = "mint" => i \in Iterations /\ Exists(i) /\ iters[i].plan # None,
         Begins(s, op, i, scope, point)
  PROVE  Begun(s, op, i, scope, point)
<1> DEFINE plan == IF op = "mint" THEN iters[i].plan.version ELSE 0
           seen == IF op = "close" THEN tree ELSE None
           changed == IF op = "close" THEN ChangedIn(scope) ELSE {}
           new == [op |-> op, it |-> i, scope |-> scope, at |-> point, armed |-> continuous,
                   plan |-> plan, created |-> FALSE, changed |-> changed, seen |-> seen,
                   found |-> None]
<1>1. /\ setup \in Setups /\ continuous \in BOOLEAN /\ tree \in [Files -> Nat]
      /\ iters \in [Iterations -> Directory \cup {None}] /\ CmdType /\ MaxPlans \in Nat
      /\ setup.calls \in Nat /\ calls \in 0..setup.calls /\ setup.edits \in Nat
  BY ConsultAssumption DEF StateOK, TypeOK, CmdType
<1>2. plan \in 0..MaxPlans /\ (op = "mint" => plan \in 1..MaxPlans)
  BY <1>1 DEF Exists, Directory, Plans
<1>3. seen \in [Files -> Nat] \cup {None} /\ changed \in SUBSET Files
  BY <1>1 DEF ChangedIn
<1>4. cmd' = [cmd EXCEPT ![s] = new] /\ cmd[s] = None /\ s \in setup.shells
      /\ calls' \in 0..setup.calls
  BY <1>1 DEF Begins
<1> HIDE DEF plan, seen, changed
<1>5. new \in Commands
  BY <1>1, <1>2, <1>3 DEF Commands
<1>6. /\ new.op = op /\ new.it = i /\ new.scope = scope /\ new.at = point
      /\ new.armed = continuous /\ new.created = FALSE /\ new.plan = plan
      /\ new.seen = seen /\ new.changed = changed
  OBVIOUS
<1> HIDE DEF new
<1>7. CmdType' /\ cmd'[s] = new /\ Others(s)
  BY <1>1, <1>4, <1>5 DEF CmdType, Others
<1> QED BY <1>2, <1>4, <1>5, <1>6, <1>7, NoneAssumption DEF seen, changed, Begun

LEMMA SetupTypes ==
  ASSUME setup \in Setups
  PROVE  /\ setup.scope \in [Iterations -> Scopes] /\ setup.found \in [Iterations -> Directory \cup {None}]
         /\ setup.calls \in Nat /\ setup.edits \in Nat /\ setup.switches \in Nat
         /\ setup.plans \in 0..MaxPlans /\ setup.panel \subseteq Families
         /\ setup.refs \subseteq Iterations /\ setup.starts \subseteq Iterations
         /\ setup.tools \subseteq Tools /\ setup.shells \subseteq Shells /\ MaxPlans \in Nat
         /\ setup.continuous \in BOOLEAN
BY ConsultAssumption
-----------------------------------------------------------------------------
(***************************************************************************)
(* What a consult has gained it keeps, unless an operator restores.        *)
(***************************************************************************)
IterType == iters \in [Iterations -> Directory \cup {None}]
Grows ==
  \A i \in Iterations : Exists(i) =>
    /\ Exists(i)' /\ (iters[i].packet => iters'[i].packet)
    /\ iters[i].plan # None => iters'[i].plan # None
    /\ iters[i].reviews \subseteq iters'[i].reviews
    /\ iters[i].reviews # {} => iters'[i].forbidden = iters[i].forbidden
\* How one iteration changes to another.
Becomes(i, d) == iters' = [iters EXCEPT ![i] = d]

LEMMA OneChanges ==
  ASSUME IterType, NEW i \in Iterations, NEW d \in Directory, Becomes(i, d),
         Exists(i) => /\ iters[i].packet => d.packet
                      /\ iters[i].plan # None => d.plan # None
                      /\ iters[i].reviews \subseteq d.reviews
                      /\ iters[i].reviews # {} => d.forbidden = iters[i].forbidden
  PROVE  IterType' /\ Grows /\ iters'[i] = d /\ \A j \in Iterations : j # i => iters'[j] = iters[j]
BY NoneAssumption DEF IterType, Becomes, Grows, Exists

LEMMA FieldChanges ==
  ASSUME IterType, NEW i \in Iterations, Exists(i),
         \/ Change(i, "packet", TRUE)
         \/ \E plan \in Plans : Change(i, "plan", plan)
         \/ \E more \in SUBSET Families : Change(i, "reviews", iters[i].reviews \cup more)
         \/ iters[i].reviews = {} /\ \E forbidden \in SUBSET Files : Change(i, "forbidden", forbidden)
  PROVE  /\ IterType' /\ Grows /\ \A j \in Iterations : j # i => iters'[j] = iters[j]
         /\ iters'[i].outcome = iters[i].outcome
<1> DEFINE Goal == /\ IterType' /\ Grows /\ \A j \in Iterations : j # i => iters'[j] = iters[j]
                   /\ iters'[i].outcome = iters[i].outcome
<1>1. iters[i] \in Directory
  BY DEF IterType, Exists
<1>2. CASE Change(i, "packet", TRUE)
  <2> DEFINE d == [iters[i] EXCEPT !.packet = TRUE]
  <2>1. Becomes(i, d)
    BY <1>2 DEF Change, Becomes
  <2>2. /\ d \in Directory /\ d.outcome = iters[i].outcome
        /\ iters[i].packet => d.packet
        /\ iters[i].plan # None => d.plan # None
        /\ iters[i].reviews \subseteq d.reviews
        /\ iters[i].reviews # {} => d.forbidden = iters[i].forbidden
    BY <1>1, <1>2, NoneAssumption DEF Directory
  <2> HIDE DEF d
  <2> QED BY <2>1, <2>2, OneChanges
<1>3. ASSUME NEW plan \in Plans, Change(i, "plan", plan) PROVE Goal
  <2> DEFINE d == [iters[i] EXCEPT !.plan = plan]
  <2>1. Becomes(i, d)
    BY <1>3 DEF Change, Becomes
  <2>2. /\ d \in Directory /\ d.outcome = iters[i].outcome
        /\ iters[i].packet => d.packet
        /\ iters[i].plan # None => d.plan # None
        /\ iters[i].reviews \subseteq d.reviews
        /\ iters[i].reviews # {} => d.forbidden = iters[i].forbidden
    BY <1>1, <1>3, NoneAssumption DEF Directory
  <2> HIDE DEF d
  <2> QED BY <2>1, <2>2, OneChanges
<1>4. ASSUME NEW more \in SUBSET Families, Change(i, "reviews", iters[i].reviews \cup more)
      PROVE  Goal
  <2> DEFINE d == [iters[i] EXCEPT !.reviews = @ \cup more]
  <2>1. Becomes(i, d)
    BY <1>4 DEF Change, Becomes
  <2>2. /\ d \in Directory /\ d.outcome = iters[i].outcome
        /\ iters[i].packet => d.packet
        /\ iters[i].plan # None => d.plan # None
        /\ iters[i].reviews \subseteq d.reviews
        /\ iters[i].reviews # {} => d.forbidden = iters[i].forbidden
    BY <1>1, <1>4, NoneAssumption DEF Directory
  <2> HIDE DEF d
  <2> QED BY <2>1, <2>2, OneChanges
<1>5. ASSUME NEW forbidden \in SUBSET Files, Change(i, "forbidden", forbidden), iters[i].reviews = {}
      PROVE  Goal
  <2> DEFINE d == [iters[i] EXCEPT !.forbidden = forbidden]
  <2>1. Becomes(i, d)
    BY <1>5 DEF Change, Becomes
  <2>2. /\ d \in Directory /\ d.outcome = iters[i].outcome
        /\ iters[i].packet => d.packet
        /\ iters[i].plan # None => d.plan # None
        /\ iters[i].reviews \subseteq d.reviews
        /\ iters[i].reviews # {} => d.forbidden = iters[i].forbidden
    BY <1>1, <1>5, NoneAssumption DEF Directory
  <2> HIDE DEF d
  <2> QED BY <2>1, <2>2, OneChanges
<1> QED BY <1>2, <1>3, <1>4, <1>5

LEMMA OutcomeChanges ==
  ASSUME IterType, NEW i \in Iterations, Exists(i), NEW outcome \in Outcomes,
         Change(i, "outcome", outcome)
  PROVE  /\ IterType' /\ Grows /\ \A j \in Iterations : j # i => iters'[j] = iters[j]
         /\ iters'[i].outcome = outcome /\ iters'[i].plan = iters[i].plan
<1> DEFINE d == [iters[i] EXCEPT !.outcome = outcome]
<1>1. iters[i] \in Directory
  BY DEF IterType, Exists
<1>2. Becomes(i, d)
  BY DEF Change, Becomes
<1>3. /\ d \in Directory /\ d.outcome = outcome
      /\ d.packet = iters[i].packet /\ d.plan = iters[i].plan
      /\ d.reviews = iters[i].reviews /\ d.forbidden = iters[i].forbidden
  BY <1>1 DEF Directory
<1> HIDE DEF d
<1> QED BY <1>2, <1>3, OneChanges

LEMMA EmptyIs == Empty \in Directory
BY DEF Empty, Directory, Outcomes

LEMMA ItersGrow ==
  ASSUME IterType, setup \in Setups, \A s \in Shells : CmdOK(s), Next
  PROVE  IterType' /\ Grows
<1>1. ASSUME UNCHANGED iters PROVE IterType' /\ Grows
  BY <1>1 DEF IterType, Grows, Exists
<1>2. ASSUME NEW s \in Shells, MakeIteration(s), ~UNCHANGED iters PROVE IterType' /\ Grows
  <2>1. It(s) \in Iterations /\ ~Exists(It(s)) /\ Becomes(It(s), Empty)
    BY <1>2 DEF MakeIteration, CmdOK, Active, At, Becomes
  <2>2. Empty \in Directory
    BY EmptyIs
  <2> QED BY <2>1, <2>2, OneChanges
<1>3. ASSUME NEW s \in Shells, WriteGoalPacket(s), ~UNCHANGED iters PROVE IterType' /\ Grows
  <2>1. It(s) \in Iterations /\ Exists(It(s)) /\ Change(It(s), "packet", TRUE)
    BY <1>3 DEF WriteGoalPacket, CmdOK, Active, At
  <2> QED BY <2>1, FieldChanges
<1>4. ASSUME NEW s \in Shells, SealOutcome(s) \/ RollbackOutcome(s), ~UNCHANGED iters
      PROVE  IterType' /\ Grows
  <2>1. /\ It(s) \in Iterations /\ Exists(It(s))
        /\ \E outcome \in Outcomes : Change(It(s), "outcome", outcome)
    BY <1>4 DEF SealOutcome, RollbackOutcome, CmdOK, Active, At, Outcomes
  <2> QED BY <2>1, OutcomeChanges
<1>5. ASSUME NEW i \in Iterations, Prepare(i) PROVE IterType' /\ Grows
  BY <1>5, OutcomeChanges DEF Prepare, Outcomes
<1>6. ASSUME NEW i \in Iterations, PanelAndHost(i) PROVE IterType' /\ Grows
  <2>1. Exists(i) /\ iters[i] \in Directory
    BY <1>6 DEF PanelAndHost, IterType, Exists
  <2>2. ASSUME NEW family \in setup.panel \ iters[i].reviews,
               Change(i, "reviews", iters[i].reviews \cup {family})
        PROVE  IterType' /\ Grows
    <3>1. {family} \in SUBSET Families
      BY <2>2, SetupTypes
    <3> QED BY <2>1, <2>2, <3>1, FieldChanges
  <2>3. ASSUME NEW parses \in BOOLEAN, NEW last, last < setup.plans,
               last = IF iters[i].plan = None THEN 0 ELSE iters[i].plan.version,
               Change(i, "plan", [version |-> last + 1, parses |-> parses])
        PROVE  IterType' /\ Grows
    <3>1. last \in 0..MaxPlans /\ last + 1 \in 1..MaxPlans
      BY <2>1, <2>3, SetupTypes DEF Directory, Plans
    <3>2. [version |-> last + 1, parses |-> parses] \in Plans
      BY <3>1 DEF Plans
    <3> QED BY <2>1, <2>3, <3>2, FieldChanges
  <2>4. CASE Change(i, "outcome", "sealed")
    BY <2>1, <2>4, OutcomeChanges DEF Outcomes
  <2>5. ASSUME NEW f \in Files, iters[i].reviews = {}, Change(i, "forbidden", {f})
        PROVE  IterType' /\ Grows
    BY <2>1, <2>5, FieldChanges
  <2> QED BY <1>6, <2>2, <2>3, <2>4, <2>5 DEF PanelAndHost
<1>7. ASSUME NEW s \in Shells, WriteReviewPacket(s) PROVE UNCHANGED iters
  BY <1>7 DEF WriteReviewPacket, repo
<1> QED
  BY <1>1, <1>2, <1>3, <1>4, <1>5, <1>6, <1>7, ZenonT(60)
  DEF Next, Command, MakeIteration, ArmGate, HashPlan, Mint, Revalidate, RollbackMarker,
      RollbackOutcome, CheckTokens, ClearSession, UnlinkDesign, Dies, Close, Abandon, StartConsult,
      Approve, MintByHand, MintToken, HostCalls, ToolRuns, Commit, SwitchMode, repo
Starts(s) ==
  \/ Close(s) \/ Abandon(s) \/ \E i \in Iterations : StartConsult(s, i)
  \/ \E i \in Iterations, scope \in Scopes : Approve(s, i, scope) \/ MintByHand(s, i, scope)

LEMMA ShellSteps ==
  ASSUME NEW s \in Shells, Command(s) \/ Starts(s)
  PROVE  UNCHANGED <<tree, head, gone, tokens, tool, mode>>
<1>1. CASE Command(s)
  <2>1. CASE MakeIteration(s) \/ WriteGoalPacket(s) \/ WriteReviewPacket(s) \/ ArmGate(s) \/ SealOutcome(s) \/ HashPlan(s)
    BY <2>1 DEF MakeIteration, WriteGoalPacket, WriteReviewPacket, ArmGate, SealOutcome, HashPlan, repo
  <2>2. CASE Mint(s) \/ Revalidate(s) \/ RollbackMarker(s) \/ RollbackOutcome(s) \/ Dies(s)
    BY <2>2 DEF Mint, Revalidate, RollbackMarker, RollbackOutcome, Dies, repo
  <2>3. CASE CheckTokens(s) \/ ClearSession(s) \/ UnlinkDesign(s)
    BY <2>3 DEF CheckTokens, ClearSession, UnlinkDesign, repo
  <2> QED BY <1>1, <2>1, <2>2, <2>3 DEF Command
<1>2. CASE Starts(s)
  BY <1>2 DEF Starts, Close, Abandon, StartConsult, Approve, MintByHand, repo
<1> QED BY <1>1, <1>2

LEMMA NextSteps ==
  ASSUME Next
  PROVE  \/ \E s \in Shells : Command(s) \/ Starts(s)
         \/ \E i \in Iterations : Prepare(i) \/ PanelAndHost(i)
         \/ \E i \in Iterations, f \in Files : MintToken(f, i)
         \/ \E kind \in Tools, f \in Files : HostCalls(kind, f)
         \/ ToolRuns \/ Commit \/ SwitchMode
BY DEF Next, Starts

LEMMA SetupStays ==
  ASSUME Next PROVE setup' = setup
<1> QED
  BY NextSteps, ShellSteps
  DEF Prepare, PanelAndHost, MintToken, HostCalls, ToolRuns, Commit, SwitchMode, mode

\* What a step never takes back of the tree and its tokens.
TreeGrows ==
  /\ \A f \in Files : tree[f] \in Nat /\ tree'[f] \in Nat /\ tree[f] <= tree'[f]
  /\ \A f \in Files : tree'[f] = tree[f] /\ tree'[f] # head'[f] => tree[f] # head[f]
  /\ \A f \in Files : tree'[f] = tree[f] /\ f \notin gone' => f \notin gone
  /\ \A f \in Files : tokens[f] # None => tokens'[f] # None

LEMMA TreeKept ==
  ASSUME TreeOK, setup \in Setups, continuous \in BOOLEAN, design \in Designs \cup {None}, Next
  PROVE  TreeOK' /\ TreeGrows
<1>1. setup' = setup /\ setup.edits \in Nat
  BY SetupTypes, SetupStays
<1> USE DEF TreeOK
<1>2. ASSUME UNCHANGED <<tree, head, gone, tokens, tool>> PROVE TreeOK' /\ TreeGrows
  BY <1>1, <1>2 DEF TreeGrows
<1>3. ASSUME NEW kind \in Tools, NEW f \in Files, HostCalls(kind, f) PROVE TreeOK' /\ TreeGrows
  <2>1. /\ UNCHANGED <<tree, head, gone, tokens>> /\ tree[f] < setup.edits
        /\ \E judged \in BOOLEAN :
             tool' = [kind |-> kind, file |-> f, gated |-> continuous /\ judged,
                      ref |-> IF design = None THEN None ELSE design.ref]
    BY <1>3 DEF HostCalls
  <2>2. (IF design = None THEN None ELSE design.ref) \in Iterations \cup {None}
    BY DEF Designs
  <2>3. tool' \in [kind : Tools, file : Files, gated : BOOLEAN, ref : Iterations \cup {None}]
    BY <2>1, <2>2
  <2> QED BY <1>1, <2>1, <2>3 DEF TreeGrows
<1>4. ASSUME ToolRuns PROVE TreeOK' /\ TreeGrows
  <2>1. /\ tool.file \in Files /\ tree[tool.file] < setup.edits /\ tool' = None
        /\ tree' = [tree EXCEPT ![tool.file] = @ + 1] /\ UNCHANGED <<head, tokens>>
        /\ gone \ {tool.file} \subseteq gone' /\ gone' \subseteq gone \cup {tool.file}
    BY <1>4 DEF ToolRuns
  <2>2. \A f \in Files : tree[f] \in 0..setup.edits
    OBVIOUS
  <2>3. /\ tree' \in [Files -> 0..setup.edits] /\ tree'[tool.file] = tree[tool.file] + 1
        /\ \A f \in Files : f # tool.file => tree'[f] = tree[f]
    BY <1>1, <2>1, <2>2
  <2>4. \A f \in Files : tokens[f] # None => tokens[f].version \in Nat
    BY DEF Tokens
  <2>5. TreeGrows
    BY <1>1, <2>1, <2>2, <2>3 DEF TreeGrows
  <2>6. TreeOK'
    BY <1>1, <2>1, <2>2, <2>3, <2>4
  <2> QED BY <2>5, <2>6
<1>5. ASSUME Commit PROVE TreeOK' /\ TreeGrows
  BY <1>1, <1>5 DEF Commit, TreeGrows
<1>6. ASSUME NEW f \in Files, NEW i \in Iterations, MintToken(f, i) PROVE TreeOK' /\ TreeGrows
  <2> DEFINE new == [version |-> tree[f], ref |-> i]
  <2>1. /\ tokens' = [tokens EXCEPT ![f] = new] /\ UNCHANGED <<tree, head, gone, tool>>
    BY <1>6 DEF MintToken
  <2>2. new \in Tokens /\ new.version = tree[f] /\ tree[f] \in Nat
    BY <1>1 DEF Tokens
  <2> HIDE DEF new
  <2>3. tokens' \in [Files -> Tokens \cup {None}]
    BY <2>1, <2>2
  <2>4. \A g \in Files : tokens'[g] = tokens[g] \/ (g = f /\ tokens'[g] = new)
    BY <2>1
  <2>5. new # None
    BY <2>2, NoneAssumption
  <2> QED BY <1>1, <2>1, <2>2, <2>3, <2>4, <2>5 DEF TreeGrows
<1> QED
  BY <1>2, <1>3, <1>4, <1>5, <1>6, NextSteps, ShellSteps
  DEF Prepare, PanelAndHost, SwitchMode, repo
-----------------------------------------------------------------------------
(***************************************************************************)
(* What a command goes by holds until it is done.                          *)
(***************************************************************************)
LEMMA ApprovableStays ==
  ASSUME NEW i \in Iterations, NEW scope, Approvable(i, scope), Grows, setup' = setup
  PROVE  Approvable(i, scope)'
BY DEF Approvable, Vetted, Grows, Exists

PlanOK(s) ==
  Active(s) =>
    /\ s \in setup.shells /\ cmd[s].at \in Points
    /\ cmd[s].at \in {"marker", "outcome"} => cmd[s].op \in {"approve", "mint"}
    /\ cmd[s].at \in {"mint", "revalidate"} => cmd[s].plan \in 1..MaxPlans

\* The commands but for where they are.
LEMMA StillGood ==
  ASSUME NEW s \in Shells, StateOK, CmdOK(s), CloseOK(s), Active(s), Kept(s),
         IterType', Grows, TreeGrows, setup' = setup
  PROVE  /\ cmd'[s].op \in {"approve", "mint"} =>
              cmd'[s].scope \in Scopes /\ Exists(It(s))' /\ iters'[cmd'[s].it].plan # None
         /\ cmd'[s].op = "approve" => Approvable(It(s), cmd[s].scope)'
         /\ cmd'[s].op \in {"start", "approve", "mint"} => cmd'[s].it \in Iterations
         /\ cmd'[s].op = "start" /\ Exists(It(s)) => Exists(It(s))'
         /\ cmd'[s].op = "close" =>
              /\ cmd'[s].seen \in [Files -> Nat]
              /\ \A f \in Files : cmd'[s].seen[f] <= tree'[f]
              /\ \A f \in cmd'[s].scope \ gone' :
                   tree'[f] = cmd'[s].seen[f] /\ (tree'[f] # head'[f] \/ ~setup.git) =>
                     f \in cmd'[s].changed
         /\ cmd'[s].op = "close" /\ Missing(s) = {} => Missing(s)' = {}
<1>1. PICK i, scope : i = It(s) /\ scope = cmd[s].scope
  OBVIOUS
<1>2. cmd'[s].it = i /\ cmd'[s].scope = scope /\ cmd'[s].op = cmd[s].op
  BY <1>1 DEF Kept, It
<1>3. cmd'[s].op \in {"start", "approve", "mint"} => i \in Iterations
  BY <1>1, <1>2 DEF CmdOK
<1>4. cmd[s] \in Commands /\ scope \subseteq Files
  BY <1>1 DEF StateOK, CmdType, Active, Commands
<1>5. /\ cmd'[s].op \in {"approve", "mint"} =>
           cmd'[s].scope \in Scopes /\ Exists(It(s))' /\ iters'[cmd'[s].it].plan # None
      /\ cmd'[s].op \in {"start", "approve", "mint"} => cmd'[s].it \in Iterations
      /\ cmd'[s].op = "start" /\ Exists(It(s)) => Exists(It(s))'
  BY <1>1, <1>2, <1>3 DEF CmdOK, Grows, Exists, It
<1>6. cmd'[s].op = "approve" => Approvable(It(s), cmd[s].scope)'
  <2> SUFFICES ASSUME cmd'[s].op = "approve" PROVE Approvable(It(s), cmd[s].scope)'
    OBVIOUS
  <2>1. Approvable(i, scope)
    BY <1>1, <1>2 DEF CmdOK
  <2>2. Approvable(i, scope)'
    BY <1>2, <1>3, <2>1, ApprovableStays
  <2> QED BY <1>2, <2>2 DEF It
<1>7. ASSUME cmd'[s].op = "close"
      PROVE  /\ cmd'[s].seen \in [Files -> Nat]
             /\ \A f \in Files : cmd'[s].seen[f] <= tree'[f]
             /\ \A f \in cmd'[s].scope \ gone' :
                  tree'[f] = cmd'[s].seen[f] /\ (tree'[f] # head'[f] \/ ~setup.git) =>
                    f \in cmd'[s].changed
  <2> DEFINE seen == cmd[s].seen
  <2>1. /\ seen \in [Files -> Nat] /\ \A f \in Files : seen[f] <= tree[f]
        /\ \A f \in scope \ gone : tree[f] = seen[f] /\ (tree[f] # head[f] \/ ~setup.git) =>
             f \in cmd[s].changed
    BY <1>1, <1>2, <1>7 DEF CloseOK
  <2>2. cmd'[s].seen = seen /\ cmd'[s].changed = cmd[s].changed
    BY DEF Kept
  <2> HIDE DEF seen
  <2> QED BY <1>2, <1>4, <2>1, <2>2 DEF TreeGrows
<1>8. Missing(s) = {} => Missing(s)' = {}
  BY <1>4 DEF Missing, TreeGrows, Kept, Commands
<1> QED BY <1>5, <1>6, <1>7, <1>8

LEMMA OthersKept ==
  ASSUME NEW s \in Shells, StateOK, CmdOK(s), CloseOK(s), cmd'[s] = cmd[s],
         IterType', Grows, TreeGrows, setup' = setup
  PROVE  CmdOK(s)' /\ CloseOK(s)' /\ PlanOK(s)'
<1>1. CASE ~Active(s)
  BY <1>1 DEF Active, CmdOK, CloseOK, PlanOK
<1>2. CASE Active(s)
  <2>1. Kept(s)
    BY DEF Kept
  <2>2. PlanOK(s)'
    BY DEF StateOK, TypeOK, PlanOK, Active
  <2>3. CmdOK(s)'
    BY <1>2, <2>1, StillGood DEF CmdOK, Active, It
  <2>4. CloseOK(s)'
    BY <1>2, <2>1, StillGood DEF CloseOK, Active
  <2> QED BY <2>2, <2>3, <2>4
<1> QED BY <1>1, <1>2

LEMMA Onward ==
  ASSUME NEW s \in Shells, StateOK, CmdOK(s), CloseOK(s), Active(s), Kept(s), cmd'[s] \in Commands,
         IterType', Grows, TreeGrows, setup' = setup, <<cmd[s].op, cmd'[s].at>> \in Ways,
         cmd[s].op = "start" =>
           iters'[cmd[s].it] # None /\ (cmd'[s].at = "session" => cmd[s].armed),
         cmd[s].op = "close" => Missing(s) = {},
         cmd[s].op = "approve" =>
           cmd'[s].found \in Found /\ cmd'[s].created = (cmd'[s].found.outcome # "sealed"),
         cmd[s].op = "mint" => ~cmd'[s].created,
         cmd'[s].at \in {"mint", "revalidate"} => cmd'[s].plan \in 1..MaxPlans
  PROVE  CmdOK(s)' /\ CloseOK(s)' /\ PlanOK(s)'
<1>1. CmdOK(s)'
  BY StillGood DEF CmdOK, Active, It, Exists, Kept
<1>2. CloseOK(s)'
  BY StillGood DEF CloseOK, Active, Kept
<1>3. PlanOK(s)'
  BY DEF PlanOK, StateOK, TypeOK, Active, Kept, Commands, Ways
<1> QED BY <1>1, <1>2, <1>3
\* What a step of a shell leaves behind of its command.
Leaves(s) == CmdType' /\ Others(s) /\ CmdOK(s)' /\ CloseOK(s)' /\ PlanOK(s)'

LEMMA GoesRight ==
  ASSUME NEW s \in Shells, NEW point \in Points, StateOK, CmdOK(s), CloseOK(s), Active(s),
         Goes(s, point), IterType', Grows, TreeGrows, setup' = setup,
         <<cmd[s].op, point>> \in Ways,
         cmd[s].op = "start" =>
           iters'[cmd[s].it] # None /\ (point = "session" => cmd[s].armed),
         cmd[s].op = "close" => Missing(s) = {},
         cmd[s].op = "approve" => cmd[s].at # "seal",
         point \in {"mint", "revalidate"} => cmd[s].plan \in 1..MaxPlans
  PROVE  Leaves(s)
<1>1. CmdType
  BY DEF StateOK
<1>2. /\ CmdType' /\ cmd'[s] \in Commands /\ Others(s) /\ Kept(s)
      /\ cmd'[s].at = point /\ cmd'[s].plan = cmd[s].plan
      /\ cmd'[s].created = cmd[s].created /\ cmd'[s].found = cmd[s].found
  BY <1>1, GoesOn
<1>3. CmdOK(s)' /\ CloseOK(s)' /\ PlanOK(s)'
  <2>1. /\ cmd[s].op = "approve" =>
             cmd[s].found \in Found /\ cmd[s].created = (cmd[s].found.outcome # "sealed")
        /\ cmd[s].op = "mint" => ~cmd[s].created
    BY DEF CmdOK
  <2> QED BY <1>2, <2>1, Onward
<1> QED BY <1>2, <1>3 DEF Leaves

LEMMA OverRight ==
  ASSUME NEW s \in Shells, StateOK, Ends(s)
  PROVE  Leaves(s)
BY IsOver DEF StateOK, Leaves, CmdOK, CloseOK, PlanOK, Active

LEMMA CommandsRight ==
  ASSUME NEW s \in Shells, StateOK, CmdOK(s), CloseOK(s), Command(s),
         IterType', Grows, TreeGrows, setup' = setup
  PROVE  Leaves(s)
<1>1. Ends(s) => Leaves(s)
  BY OverRight
<1>2. CmdType /\ (Active(s) => cmd[s] \in Commands) /\ continuous \in BOOLEAN /\ IterType
  BY DEF StateOK, CmdType, Active, TypeOK, IterType
<1>3. CASE MakeIteration(s)
  <2>1. CASE Goes(s, "packets") /\ iters' = [iters EXCEPT ![It(s)] = Empty]
    <3>1. Active(s) /\ cmd[s].op = "start" /\ It(s) \in Iterations
      BY <1>3 DEF MakeIteration, At, Active, CmdOK
    <3>2. Empty # None
      BY EmptyIs, NoneAssumption
    <3>3. iters'[cmd[s].it] # None
      BY <1>2, <2>1, <3>1, <3>2 DEF It, IterType
    <3> QED BY <2>1, <3>1, <3>3, GoesRight DEF Points, Ways
  <2> QED BY <1>1, <1>3, <2>1 DEF MakeIteration
<1>4. CASE WriteGoalPacket(s) \/ WriteReviewPacket(s)
  <2>1. CASE Goes(s, "question") \/ (Goes(s, "session") /\ cmd[s].armed)
    <3>1. Active(s) /\ cmd[s].op = "start" /\ It(s) \in Iterations /\ Exists(It(s))
      BY <1>4 DEF WriteGoalPacket, WriteReviewPacket, At, Active, CmdOK
    <3>2. iters'[cmd[s].it] # None
      BY <3>1 DEF Grows, Exists, It
    <3> QED BY <2>1, <3>1, <3>2, GoesRight DEF Points, Ways
  <2> QED BY <1>1, <1>4, <2>1 DEF WriteGoalPacket, WriteReviewPacket
<1>5. CASE ArmGate(s)
  <2>1. CASE Goes(s, "marker") /\ cmd[s].op \in {"approve", "mint"}
    <3>1. Active(s) /\ cmd[s].at = "session"
      BY <1>5 DEF ArmGate, At, Active
    <3> QED BY <2>1, <3>1, GoesRight DEF Points, Ways
  <2> QED BY <1>1, <1>5, <2>1 DEF ArmGate, At
<1>6. CASE SealOutcome(s)
  <2>1. /\ cmd[s] \in Commands /\ Active(s) /\ cmd[s].op = "approve" /\ cmd[s].at = "seal"
        /\ It(s) \in Iterations /\ Exists(It(s)) /\ design \in Designs \cup {None}
    BY <1>2, <1>6 DEF SealOutcome, At, Active, CmdOK, StateOK, TypeOK
  <2> DEFINE found == [outcome |-> iters[It(s)].outcome, design |-> design]
             new == [cmd[s] EXCEPT !.created = ~Sealed(It(s)), !.at = "hash", !.found = found]
  <2>2. iters[It(s)].outcome \in Outcomes
    BY <1>2, <2>1 DEF Exists, IterType, Directory
  <2>3. found \in Found /\ found.outcome = iters[It(s)].outcome
    BY <2>1, <2>2 DEF Found
  <2>4. cmd' = [cmd EXCEPT ![s] = new]
    BY <1>6 DEF SealOutcome
  <2>5. Sealed(It(s)) <=> found.outcome = "sealed"
    BY <2>1, <2>3 DEF Sealed
  <2> HIDE DEF found
  <2>6. /\ new \in Commands /\ new.op = "approve" /\ new.at = "hash" /\ new.found = found
        /\ new.it = cmd[s].it /\ new.scope = cmd[s].scope /\ new.armed = cmd[s].armed
        /\ new.changed = cmd[s].changed /\ new.seen = cmd[s].seen
        /\ new.created = ~Sealed(It(s))
    BY <2>1, <2>3 DEF Commands, Points, Sealed, Exists
  <2> HIDE DEF new
  <2>7. CmdType' /\ cmd'[s] = new /\ Others(s)
    BY <1>2, <2>4, <2>6 DEF CmdType, Others
  <2>8. Kept(s)
    BY <2>1, <2>6, <2>7 DEF Kept
  <2>9. cmd'[s].created = (cmd'[s].found.outcome # "sealed")
    <3>1. CASE Sealed(It(s))
      <4>1. new.created = FALSE
        BY <2>6, <3>1
      <4> QED BY <2>5, <2>6, <2>7, <3>1, <4>1
    <3>2. CASE ~Sealed(It(s))
      <4>1. new.created = TRUE
        BY <2>6, <3>2
      <4>2. found.outcome # "sealed"
        BY <2>5, <3>2
      <4>3. cmd'[s].created = TRUE /\ cmd'[s].found.outcome # "sealed"
        BY <2>6, <2>7, <4>1, <4>2
      <4> QED BY <4>3
    <3> QED BY <3>1, <3>2
  <2>10. CmdOK(s)' /\ CloseOK(s)' /\ PlanOK(s)'
    <3>1. cmd'[s] \in Commands /\ cmd'[s].found \in Found /\ cmd'[s].at = "hash"
      BY <2>3, <2>6, <2>7
    <3>2. <<cmd[s].op, cmd'[s].at>> \in Ways
      BY <2>1, <3>1 DEF Ways
    <3> QED BY <2>1, <2>8, <2>9, <3>1, <3>2, Onward
  <2> QED BY <2>7, <2>10 DEF Leaves
<1>7. CASE HashPlan(s)
  <2>1. CASE Ends(s)
    BY <1>1, <2>1
  <2>2. CASE ~Ends(s)
    <3>1. /\ cmd[s] \in Commands /\ Active(s) /\ cmd[s].op = "approve" /\ cmd[s].at = "hash"
          /\ It(s) \in Iterations /\ Exists(It(s)) /\ iters[It(s)].plan # None
          /\ cmd[s].found \in Found /\ cmd[s].created = (cmd[s].found.outcome # "sealed")
      BY <1>2, <1>7 DEF HashPlan, At, Active, CmdOK
    <3> DEFINE plan  == iters[It(s)].plan.version
               point == IF continuous THEN "mint" ELSE "clear"
               new   == [cmd[s] EXCEPT !.plan = plan, !.at = point]
    <3>2. plan \in 1..MaxPlans /\ plan \in 0..MaxPlans
      BY <1>2, <3>1, ConsultAssumption DEF Exists, IterType, Directory, Plans
    <3>3. point \in {"mint", "clear"}
      OBVIOUS
    <3>4. cmd' = [cmd EXCEPT ![s] = new]
      BY <1>7, <2>2 DEF HashPlan
    <3> HIDE DEF plan, point
    <3>5. /\ new \in Commands /\ new.op = "approve" /\ new.at = point /\ new.plan = plan
          /\ new.it = cmd[s].it /\ new.scope = cmd[s].scope /\ new.armed = cmd[s].armed
          /\ new.changed = cmd[s].changed /\ new.seen = cmd[s].seen
          /\ new.created = cmd[s].created /\ new.found = cmd[s].found
      BY <3>1, <3>2, <3>3 DEF Commands, Points
    <3> HIDE DEF new
    <3>6. CmdType' /\ cmd'[s] = new /\ Others(s)
      BY <1>2, <3>4, <3>5 DEF CmdType, Others
    <3>7. Kept(s)
      BY <3>1, <3>5, <3>6 DEF Kept
    <3>8. CmdOK(s)' /\ CloseOK(s)' /\ PlanOK(s)'
      BY <3>1, <3>2, <3>3, <3>5, <3>6, <3>7, Onward DEF Ways
    <3> QED BY <3>6, <3>8 DEF Leaves
  <2> QED BY <2>1, <2>2
<1>8. CASE Mint(s)
  <2>1. /\ Active(s) /\ cmd[s].at = "mint" /\ cmd[s].op \in {"approve", "mint"}
        /\ cmd[s].plan \in 1..MaxPlans
    BY <1>8 DEF Mint, At, Active, StateOK, TypeOK
  <2>2. CASE Goes(s, "outcome")
    BY <2>1, <2>2, GoesRight DEF Points, Ways
  <2>3. CASE Goes(s, "revalidate") /\ cmd[s].op = "approve"
    BY <2>1, <2>3, GoesRight DEF Points, Ways
  <2>4. CASE Goes(s, "session") /\ cmd[s].op = "mint"
    BY <2>1, <2>4, GoesRight DEF Points, Ways
  <2> QED BY <1>1, <1>8, <2>1, <2>2, <2>3, <2>4 DEF Mint
<1>9. CASE Revalidate(s)
  <2>1. Active(s) /\ cmd[s].at = "revalidate" /\ cmd[s].op = "approve"
    BY <1>9 DEF Revalidate, At, Active
  <2>2. CASE Goes(s, "session")
    BY <2>1, <2>2, GoesRight DEF Points, Ways
  <2>3. CASE Goes(s, "marker")
    BY <2>1, <2>3, GoesRight DEF Points, Ways
  <2> QED BY <1>9, <2>2, <2>3 DEF Revalidate
<1>10. CASE RollbackMarker(s)
  <2>1. Active(s) /\ cmd[s].at = "marker" /\ cmd[s].op \in {"approve", "mint"} /\ Goes(s, "outcome")
    BY <1>10 DEF RollbackMarker, At, Active
  <2> QED BY <2>1, GoesRight DEF Points, Ways
<1>11. CASE RollbackOutcome(s) \/ UnlinkDesign(s) \/ Dies(s)
  BY <1>1, <1>11 DEF RollbackOutcome, UnlinkDesign, Dies
<1>12. CASE CheckTokens(s)
  <2>1. CASE Goes(s, "clear") /\ Missing(s) = {}
    <3>1. Active(s) /\ cmd[s].at = "tokens" /\ cmd[s].op = "close"
      BY <1>12 DEF CheckTokens, At, Active
    <3> QED BY <2>1, <3>1, GoesRight DEF Points, Ways
  <2> QED BY <1>1, <1>12, <2>1 DEF CheckTokens
<1>13. CASE ClearSession(s)
  <2>1. /\ Active(s) /\ cmd[s].at = "clear" /\ cmd[s].op \in {"approve", "close", "abandon"}
        /\ Goes(s, "unlink")
    BY <1>13 DEF ClearSession, At, Active
  <2>2. cmd[s].op = "close" => Missing(s) = {}
    BY <2>1 DEF CloseOK
  <2> QED BY <2>1, <2>2, GoesRight DEF Points, Ways
<1> QED
  BY <1>3, <1>4, <1>5, <1>6, <1>7, <1>8, <1>9, <1>10, <1>11, <1>12, <1>13 DEF Command
\* Whom Independent counts.
LEMMA TwoReviewers ==
  ASSUME NEW i \in Iterations, Independent(i)
  PROVE  Vetted(i)
<1> DEFINE S == iters[i].reviews \ {"claude"}
<1>1. Cardinality(S) >= 2
  BY DEF Independent
<1> HIDE DEF S
<1>2. Cardinality({}) = 0 /\ \A a : Cardinality({a}) = 1
  BY FS_EmptySet, FS_Singleton
<1>3. S # {}
  BY <1>1, <1>2
<1>4. PICK a \in S : TRUE
  BY <1>3
<1>5. S # {a}
  <2> SUFFICES ASSUME S = {a} PROVE FALSE
    OBVIOUS
  <2>1. Cardinality(S) = 1
    BY <1>2
  <2> QED BY <1>1, <2>1
<1>6. \E b \in S : a # b
  BY <1>4, <1>5
<1> QED BY <1>4, <1>6 DEF Vetted, S

LEMMA StartsRight ==
  ASSUME NEW s \in Shells, StateOK, Starts(s), Grows, setup' = setup
  PROVE  Leaves(s) /\ calls' \in 0..setup.calls
<1>1. /\ tree' = tree /\ head' = head /\ gone' = gone /\ tokens' = tokens /\ setup \in Setups
      /\ design \in Designs \cup {None} /\ IterType /\ tree \in [Files -> 0..setup.edits]
      /\ setup.edits \in Nat
  BY ShellSteps, SetupTypes DEF StateOK, TypeOK, TreeOK, IterType, mode
<1> HIDE DEF Leaves
<1>2. CASE Close(s)
  <2> DEFINE scope == design.scope
  <2>1. scope \in SUBSET Files
    BY <1>1, <1>2 DEF Close, Designs, Scopes
  <2>2. Begins(s, "close", None, scope, "tokens")
    BY <1>2 DEF Close
  <2> HIDE DEF scope
  <2>3. /\ CmdType' /\ cmd'[s] \in Commands /\ cmd'[s] # None /\ Others(s)
        /\ s \in setup.shells /\ calls' \in 0..setup.calls
        /\ cmd'[s].op = "close" /\ cmd'[s].scope = scope /\ cmd'[s].at = "tokens"
        /\ cmd'[s].seen = tree /\ cmd'[s].changed = ChangedIn(scope)
    <3>1. Begun(s, "close", None, scope, "tokens")
      BY <2>1, <2>2, BeginsAs DEF Points
    <3> QED BY <3>1 DEF Begun
  <2>4. CmdOK(s)' /\ PlanOK(s)'
    BY <2>3 DEF CmdOK, PlanOK, Active, Ways, Points
  <2>5. CloseOK(s)'
    <3>1. \A f \in Files : tree[f] \in Nat
      BY <1>1
    <3>2. cmd'[s].seen \in [Files -> Nat] /\ \A f \in Files : cmd'[s].seen[f] <= tree'[f]
      BY <1>1, <2>3, <3>1
    <3>3. \A f \in cmd'[s].scope \ gone' : tree'[f] # head'[f] \/ ~setup'.git => f \in cmd'[s].changed
      BY <1>1, <2>3 DEF ChangedIn
    <3> QED BY <2>3, <3>2, <3>3 DEF CloseOK, Active
  <2> QED BY <2>3, <2>4, <2>5 DEF Leaves
<1>3. CASE Abandon(s)
  <2>1. /\ CmdType' /\ cmd'[s] \in Commands /\ cmd'[s] # None /\ Others(s)
        /\ s \in setup.shells /\ calls' \in 0..setup.calls
        /\ cmd'[s].op = "abandon" /\ cmd'[s].at = "clear"
    <3>1. Begun(s, "abandon", None, {}, "clear")
      BY <1>3, BeginsAs DEF Points, Abandon
    <3> QED BY <3>1 DEF Begun
  <2> QED BY <2>1 DEF Leaves, CmdOK, CloseOK, PlanOK, Active, Ways, Points
<1>4. ASSUME NEW i \in Iterations, StartConsult(s, i) PROVE Leaves(s) /\ calls' \in 0..setup.calls
  <2>1. setup.scope[i] \in SUBSET Files
    BY <1>1, SetupTypes DEF Scopes
  <2>2. /\ CmdType' /\ cmd'[s] \in Commands /\ cmd'[s] # None /\ Others(s)
        /\ s \in setup.shells /\ calls' \in 0..setup.calls
        /\ cmd'[s].op = "start" /\ cmd'[s].at = "make" /\ cmd'[s].it = i
    <3> DEFINE scope == setup.scope[i]
    <3>1. Begins(s, "start", i, scope, "make") /\ scope \in SUBSET Files
      BY <1>4, <2>1 DEF StartConsult
    <3> HIDE DEF scope
    <3>2. Begun(s, "start", i, scope, "make")
      BY <3>1, BeginsAs DEF Points
    <3> QED BY <3>2 DEF Begun
  <2> QED BY <2>2 DEF Leaves, CmdOK, CloseOK, PlanOK, Active, Ways, Points, It
<1>5. ASSUME NEW i \in Iterations, NEW scope \in Scopes, Approve(s, i, scope)
      PROVE  Leaves(s) /\ calls' \in 0..setup.calls
  <2>1. /\ Exists(i) /\ Independent(i) /\ iters[i].plan # None /\ iters[i].packet
        /\ Within(scope, i) /\ ~Forbidden(scope, i) /\ iters' = iters
        /\ Begins(s, "approve", i, scope, "seal")
    BY <1>5 DEF Approve, repo
  <2>2. Approvable(i, scope)
    BY <2>1, TwoReviewers DEF Approvable, Within, Forbidden
  <2>3. Approvable(i, scope)'
    BY <2>2, ApprovableStays
  <2>4. scope \in SUBSET Files
    BY DEF Scopes
  <2>5. /\ CmdType' /\ cmd'[s] \in Commands /\ cmd'[s] # None /\ Others(s)
        /\ s \in setup.shells /\ calls' \in 0..setup.calls
        /\ cmd'[s].op = "approve" /\ cmd'[s].at = "seal" /\ cmd'[s].it = i /\ cmd'[s].scope = scope
    <3>1. Begun(s, "approve", i, scope, "seal")
      BY <2>1, <2>4, BeginsAs DEF Points
    <3> QED BY <3>1 DEF Begun
  <2>6. Approvable(It(s), cmd[s].scope)'
    BY <2>3, <2>5 DEF It
  <2>7. CmdOK(s)'
    BY <2>1, <2>5, <2>6 DEF CmdOK, Active, Ways, It, Exists
  <2> QED BY <2>5, <2>7 DEF Leaves, CloseOK, PlanOK, Active, Points
<1>6. ASSUME NEW i \in Iterations, NEW scope \in Scopes, MintByHand(s, i, scope)
      PROVE  Leaves(s) /\ calls' \in 0..setup.calls
  <2>1. /\ Exists(i) /\ iters[i].plan # None /\ iters' = iters /\ setup.mints
        /\ Begins(s, "mint", i, scope, "mint")
    BY <1>6 DEF MintByHand, repo
  <2>2. scope \in SUBSET Files
    BY DEF Scopes
  <2>3. /\ CmdType' /\ cmd'[s] \in Commands /\ cmd'[s] # None /\ Others(s)
        /\ s \in setup.shells /\ calls' \in 0..setup.calls
        /\ cmd'[s].op = "mint" /\ cmd'[s].at = "mint" /\ cmd'[s].it = i /\ cmd'[s].scope = scope
        /\ cmd'[s].created = FALSE /\ cmd'[s].plan \in 1..MaxPlans
    <3>1. Begun(s, "mint", i, scope, "mint")
      BY <2>1, <2>2, BeginsAs DEF Points
    <3> QED BY <3>1 DEF Begun
  <2>4. CmdOK(s)'
    BY <2>1, <2>3 DEF CmdOK, Active, Ways, It, Exists
  <2> QED BY <2>3, <2>4 DEF Leaves, CloseOK, PlanOK, Active, Points
<1> QED BY <1>2, <1>3, <1>4, <1>5, <1>6 DEF Starts
AllRight == \A s \in Shells : CmdOK(s) /\ CloseOK(s)

LEMMA MarkersTyped ==
  ASSUME StateOK, AllRight, Next
  PROVE  session' \in Iterations \cup {None} /\ design' \in Designs \cup {None}
<1>1. session \in Iterations \cup {None} /\ design \in Designs \cup {None}
  BY DEF StateOK, TypeOK
<1>2. ASSUME NEW s \in Shells, Mint(s), ~Overbroad(cmd[s].scope)
      PROVE  session' \in Iterations \cup {None} /\ design' \in Designs \cup {None}
  <2>1. Active(s) /\ cmd[s].at = "mint" /\ cmd[s].op \in {"approve", "mint"}
    BY <1>2 DEF Mint, At, Active
  <2>2. It(s) \in Iterations /\ cmd[s].scope \in Scopes /\ cmd[s].plan \in 1..MaxPlans
    BY <2>1 DEF AllRight, CmdOK, StateOK, TypeOK, Active
  <2>3. /\ \/ design' = [ref |-> It(s), scope |-> cmd[s].scope, plan |-> cmd[s].plan]
           \/ design' = design
        /\ session' = session
    BY <1>2 DEF Mint
  <2> QED BY <1>1, <2>2, <2>3 DEF Designs
<1>3. ASSUME NEW s \in Shells, ArmGate(s)
      PROVE  session' \in Iterations \cup {None} /\ design' \in Designs \cup {None}
  BY <1>1, <1>3 DEF ArmGate, At, AllRight, CmdOK, Active
<1>4. ASSUME NEW s \in Shells, Command(s), ~ArmGate(s), ~(Mint(s) /\ ~Overbroad(cmd[s].scope))
      PROVE  session' \in {session, None} /\ design' \in {design, None}
  BY <1>4 DEF Command, MakeIteration, WriteGoalPacket, WriteReviewPacket, SealOutcome, HashPlan, Mint, Revalidate,
    RollbackMarker, RollbackOutcome, CheckTokens, ClearSession, UnlinkDesign, Dies, markers
<1>5. ASSUME NEW s \in Shells, Starts(s)
      PROVE  session' \in {session, None} /\ design' \in {design, None}
  BY <1>5 DEF Starts, Close, Abandon, StartConsult, Approve, MintByHand, markers
<1> QED
  BY <1>1, <1>2, <1>3, <1>4, <1>5, NextSteps
  DEF Prepare, PanelAndHost, MintToken, HostCalls, ToolRuns, Commit, SwitchMode, markers

LEMMA CommandsKept ==
  ASSUME StateOK, AllRight, Next
  PROVE  /\ IterType' /\ Grows /\ TreeOK' /\ TreeGrows /\ CmdType' /\ AllRight'
         /\ calls' \in 0..setup.calls /\ \A s \in Shells : PlanOK(s)'
<1>1. /\ IterType /\ setup \in Setups /\ continuous \in BOOLEAN /\ design \in Designs \cup {None}
      /\ calls \in 0..setup.calls /\ setup' = setup /\ TreeOK /\ CmdType
  BY SetupStays DEF StateOK, TypeOK, IterType
<1>2. IterType' /\ Grows
  BY <1>1, ItersGrow DEF AllRight
<1>3. TreeOK' /\ TreeGrows
  BY <1>1, TreeKept
<1>4. ASSUME NEW s \in Shells, Leaves(s)
      PROVE  CmdType' /\ AllRight' /\ \A t \in Shells : PlanOK(t)'
  <2>1. \A t \in Shells : CmdOK(t)' /\ CloseOK(t)' /\ PlanOK(t)'
    <3> TAKE t \in Shells
    <3>1. CASE t = s
      BY <1>4, <3>1 DEF Leaves
    <3>2. CASE t # s
      BY <1>1, <1>2, <1>3, <1>4, <3>2, OthersKept DEF Leaves, Others, AllRight
    <3> QED BY <3>1, <3>2
  <2> QED BY <1>4, <2>1 DEF Leaves, AllRight
<1>5. ASSUME NEW s \in Shells, Command(s)
      PROVE  Leaves(s) /\ calls' = calls
  <2>1. calls' = calls
    BY <1>5 DEF Command, MakeIteration, WriteGoalPacket, WriteReviewPacket, ArmGate, SealOutcome, HashPlan, Mint,
      Revalidate, RollbackMarker, RollbackOutcome, CheckTokens, ClearSession, UnlinkDesign, Dies
  <2> QED BY <1>1, <1>2, <1>3, <1>5, <2>1, CommandsRight DEF AllRight
<1>6. ASSUME NEW s \in Shells, Starts(s)
      PROVE  Leaves(s) /\ calls' \in 0..setup.calls
  BY <1>1, <1>2, <1>6, StartsRight
<1>7. ASSUME UNCHANGED shells
      PROVE  CmdType' /\ AllRight' /\ \A t \in Shells : PlanOK(t)'
  <2>1. cmd' = cmd
    BY <1>7 DEF shells
  <2>2. \A t \in Shells : CmdOK(t)' /\ CloseOK(t)' /\ PlanOK(t)'
    BY <1>1, <1>2, <1>3, <2>1, OthersKept DEF AllRight
  <2> QED BY <1>1, <2>1, <2>2 DEF AllRight, CmdType
<1>8. CASE \E s \in Shells : Command(s) \/ Starts(s)
  BY <1>1, <1>2, <1>3, <1>4, <1>5, <1>6, <1>8
<1>9. CASE UNCHANGED shells
  BY <1>1, <1>2, <1>3, <1>7, <1>9 DEF shells
<1> QED
  BY <1>8, <1>9, NextSteps
  DEF Prepare, PanelAndHost, MintToken, HostCalls, ToolRuns, Commit, SwitchMode

LEMMA StateKept ==
  ASSUME StateOK, AllRight, Next
  PROVE  StateOK'
<1>1. /\ IterType' /\ TreeOK' /\ CmdType' /\ calls' \in 0..setup.calls
      /\ setup' = setup /\ \A s \in Shells : PlanOK(s)'
  BY CommandsKept, SetupStays
<1>2. session' \in Iterations \cup {None} /\ design' \in Designs \cup {None}
  BY MarkersTyped
<1>3. continuous' \in BOOLEAN /\ switched' \in 0..setup.switches
  <2>1. continuous \in BOOLEAN /\ switched \in 0..setup.switches /\ setup.switches \in Nat
    BY SetupTypes DEF StateOK, TypeOK
  <2>2. CASE SwitchMode
    BY <2>1, <2>2 DEF SwitchMode
  <2>3. CASE UNCHANGED mode
    BY <2>1, <2>3 DEF mode
  <2> QED
    BY <2>2, <2>3, NextSteps, ShellSteps DEF Prepare, PanelAndHost, MintToken, HostCalls, ToolRuns, Commit
<1>4. \A f \in Files : tokens'[f] = None \/ tokens'[f] \in [version : 0..tree'[f], ref : Iterations]
  BY <1>1 DEF TreeOK, Tokens
<1>5. TypeOK'
  BY <1>1, <1>2, <1>3, <1>4 DEF TypeOK, StateOK, IterType, TreeOK, PlanOK, Active
<1> QED BY <1>1, <1>5 DEF StateOK
-----------------------------------------------------------------------------
(***************************************************************************)
(* What the design marker, and a tool call let through under it, stand on. *)
(***************************************************************************)
MintsIt(s) ==
  /\ Mint(s) /\ ~Overbroad(cmd[s].scope)
  /\ design' = [ref |-> It(s), scope |-> cmd[s].scope, plan |-> cmd[s].plan]

LEMMA DesignSteps ==
  ASSUME Next
  PROVE  design' \in {design, None} \/ \E s \in Shells : MintsIt(s)
<1>1. ASSUME NEW s \in Shells, Command(s), ~MintsIt(s) PROVE design' \in {design, None}
  BY <1>1 DEF Command, MakeIteration, WriteGoalPacket, WriteReviewPacket, ArmGate, SealOutcome, HashPlan, Mint, Revalidate,
    RollbackMarker, RollbackOutcome, CheckTokens, ClearSession, UnlinkDesign, Dies, markers, MintsIt
<1>2. ASSUME NEW s \in Shells, Starts(s) PROVE design' \in {design, None}
  BY <1>2 DEF Starts, Close, Abandon, StartConsult, Approve, MintByHand, markers
<1> QED
  BY <1>1, <1>2, NextSteps
  DEF Prepare, PanelAndHost, MintToken, HostCalls, ToolRuns, Commit, SwitchMode, markers

LEMMA MarkerKept ==
  ASSUME StateOK, AllRight, MarkerOK, Next
  PROVE  MarkerOK'
<1>1. Grows /\ setup' = setup
  BY CommandsKept, SetupStays
<1> SUFFICES ASSUME Minted, design' # None PROVE Approvable(design.ref, design.scope)'
  BY <1>1 DEF MarkerOK, Minted
<1>2. CASE design' = design
  <2> PICK i, scope : i = design.ref /\ scope = design.scope
    OBVIOUS
  <2>1. i \in Iterations /\ Approvable(i, scope)
    BY <1>2 DEF StateOK, TypeOK, Designs, MarkerOK
  <2>2. Approvable(i, scope)'
    BY <1>1, <2>1, ApprovableStays
  <2> QED BY <1>2, <2>2
<1>3. ASSUME NEW s \in Shells, MintsIt(s) PROVE Approvable(design.ref, design.scope)'
  <2> PICK i, scope : i = It(s) /\ scope = cmd[s].scope
    OBVIOUS
  <2>1. i \in Iterations /\ Approvable(i, scope)
    BY <1>3 DEF MintsIt, Mint, At, AllRight, CmdOK, Active, Minted
  <2>2. Approvable(i, scope)'
    BY <1>1, <2>1, ApprovableStays
  <2>3. design'.ref = i /\ design'.scope = scope
    BY <1>3 DEF MintsIt
  <2> QED BY <2>2, <2>3
<1> QED BY <1>2, <1>3, DesignSteps

LEMMA ToolKept ==
  ASSUME StateOK, AllRight, MarkerOK, ToolOK, Next
  PROVE  ToolOK'
<1>1. Grows /\ setup' = setup
  BY CommandsKept, SetupStays
<1> SUFFICES ASSUME Minted, tool' # None, tool'.kind = "edit", tool'.gated
             PROVE  (tool.ref \in Iterations /\ Approvable(tool.ref, {tool.file}))'
  BY <1>1 DEF ToolOK, Minted
<1>2. CASE tool' = tool
  <2> PICK i, f : i = tool.ref /\ f = tool.file
    OBVIOUS
  <2>1. i \in Iterations /\ Approvable(i, {f})
    BY <1>2 DEF ToolOK
  <2>2. Approvable(i, {f})'
    BY <1>1, <2>1, ApprovableStays
  <2> QED BY <1>2, <2>1, <2>2
<1>3. ASSUME NEW kind \in Tools, NEW f \in Files, HostCalls(kind, f)
      PROVE  (tool.ref \in Iterations /\ Approvable(tool.ref, {tool.file}))'
  <2> PICK i : i = design.ref
    OBVIOUS
  <2>1. PICK judged \in BOOLEAN :
          /\ tool' = [kind |-> kind, file |-> f, gated |-> continuous /\ judged,
                      ref |-> IF design = None THEN None ELSE design.ref]
          /\ IF judged THEN HookAllows(kind, f) ELSE HookFails
    BY <1>3 DEF HostCalls
  <2>2. kind = "edit" /\ continuous /\ HookAllows(kind, f)
    BY <2>1
  <2>3. design # None /\ f \in design.scope
    BY <2>1, <2>2 DEF HookAllows, Approves, MarkerIsSealed
  <2>4. i \in Iterations /\ Approvable(i, design.scope)
    BY <2>3 DEF StateOK, TypeOK, Designs, MarkerOK
  <2>5. Approvable(i, {f})
    BY <2>3, <2>4 DEF Approvable
  <2>6. Approvable(i, {f})'
    BY <1>1, <2>4, <2>5, ApprovableStays
  <2>7. tool'.ref = i /\ tool'.file = f
    BY <2>1, <2>3
  <2> QED BY <2>4, <2>6, <2>7
<1>4. tool' = tool \/ tool' = None \/ \E kind \in Tools, f \in Files : HostCalls(kind, f)
  <2>1. ASSUME NEW s \in Shells, Command(s) \/ Starts(s) PROVE tool' = tool
    BY <2>1, ShellSteps
  <2> QED
    BY <2>1, NextSteps DEF Prepare, PanelAndHost, MintToken, ToolRuns, Commit, SwitchMode, repo
<1> QED BY <1>2, <1>3, <1>4
-----------------------------------------------------------------------------
(***************************************************************************)
(* One shell: the markers agree, and what they point at is sealed.         *)
(***************************************************************************)
\* Only a rollback takes a seal back.
LEMMA SealStays ==
  ASSUME StateOK, AllRight, Next, \A s \in Shells : ~RollbackOutcome(s),
         NEW i \in Iterations, Sealed(i)
  PROVE  Sealed(i)'
<1>1. IterType /\ IterType' /\ Exists(i) /\ iters[i].outcome = "sealed" /\ Exists(i)'
  BY CommandsKept DEF StateOK, TypeOK, IterType, Sealed, Grows
<1> SUFFICES iters'[i].outcome = "sealed"
  BY <1>1 DEF Sealed
<1>2. ASSUME NEW j \in Iterations, j # i => iters'[i] = iters[i],
             iters'[j].outcome \in {iters[j].outcome, "sealed"}
      PROVE  iters'[i].outcome = "sealed"
  BY <1>1, <1>2
<1>3. CASE UNCHANGED iters
  BY <1>1, <1>3
<1>4. ASSUME NEW s \in Shells, MakeIteration(s), ~UNCHANGED iters
      PROVE  iters'[i].outcome = "sealed"
  <2>1. It(s) \in Iterations /\ ~Exists(It(s)) /\ iters' = [iters EXCEPT ![It(s)] = Empty]
    BY <1>4 DEF MakeIteration, AllRight, CmdOK, At, Active
  <2> QED BY <1>1, <2>1 DEF IterType
<1>5. ASSUME NEW s \in Shells, WriteGoalPacket(s), ~UNCHANGED iters
      PROVE  iters'[i].outcome = "sealed"
  <2>1. It(s) \in Iterations /\ Exists(It(s)) /\ Change(It(s), "packet", TRUE)
    BY <1>5 DEF WriteGoalPacket, AllRight, CmdOK, At, Active
  <2> QED BY <1>1, <1>2, <2>1, FieldChanges
<1>6. ASSUME NEW s \in Shells, SealOutcome(s)
      PROVE  iters'[i].outcome = "sealed"
  <2>1. It(s) \in Iterations /\ Exists(It(s)) /\ Change(It(s), "outcome", "sealed")
    BY <1>6 DEF SealOutcome, AllRight, CmdOK, At, Active
  <2> QED BY <1>1, <1>2, <2>1, OutcomeChanges DEF Outcomes
<1>7. ASSUME NEW j \in Iterations, Prepare(j)
      PROVE  iters'[i].outcome = "sealed"
  <2>1. Exists(j) /\ iters[j].outcome = "none" /\ Change(j, "outcome", "draft")
    BY <1>7 DEF Prepare
  <2>2. \A k \in Iterations : k # j => iters'[k] = iters[k]
    BY <1>1, <2>1, OutcomeChanges DEF Outcomes
  <2> QED BY <1>1, <2>1, <2>2
<1>8. ASSUME NEW j \in Iterations, PanelAndHost(j)
      PROVE  iters'[i].outcome = "sealed"
  <2>1. Exists(j)
    BY <1>8 DEF PanelAndHost
  <2>2. CASE Change(j, "outcome", "sealed")
    BY <1>1, <1>2, <2>1, <2>2, OutcomeChanges DEF Outcomes
  <2>3. ASSUME NEW value, \/ Change(j, "plan", value) \/ Change(j, "reviews", value)
                          \/ Change(j, "forbidden", value)
        PROVE  iters'[i].outcome = "sealed"
    <3>1. iters[j] \in Directory
      BY <1>1, <2>1 DEF IterType, Exists
    <3>2. iters'[j].outcome = iters[j].outcome /\ (j # i => iters'[i] = iters[i])
      BY <1>1, <2>3, <3>1 DEF Change, IterType, Directory
    <3> QED BY <1>2, <3>2
  <2> QED BY <1>8, <2>2, <2>3 DEF PanelAndHost
<1>9. ASSUME NEW s \in Shells, Command(s), ~UNCHANGED iters
      PROVE  MakeIteration(s) \/ WriteGoalPacket(s) \/ SealOutcome(s)
  BY <1>9 DEF Command, WriteReviewPacket, ArmGate, HashPlan, Mint, Revalidate, RollbackMarker, CheckTokens,
    ClearSession, UnlinkDesign, Dies, repo
<1>10. ASSUME NEW s \in Shells, Starts(s)
       PROVE  UNCHANGED iters
  BY <1>10 DEF Starts, Close, Abandon, StartConsult, Approve, MintByHand, repo
<1> QED
  BY <1>3, <1>4, <1>5, <1>6, <1>7, <1>8, <1>9, <1>10, NextSteps
  DEF MintToken, HostCalls, ToolRuns, Commit, SwitchMode, repo
LEMMA StartsAlone ==
  ASSUME StateOK, NEW s \in Shells, Starts(s)
  PROVE  /\ cmd[s] = None /\ session' = session /\ design' \in {design, None} /\ ShellOK(s)'
         /\ \A t \in Shells : ~RollbackOutcome(t)
<1>1. UNCHANGED iters
  BY DEF Starts, Close, Abandon, StartConsult, Approve, MintByHand, repo
<1>2. ASSUME NEW t \in Shells, RollbackOutcome(t) PROVE FALSE
  <2>1. cmd[t] # None /\ cmd' = [cmd EXCEPT ![t] = None] /\ calls' = calls
    BY <1>2 DEF RollbackOutcome, At, Ends
  <2>2. calls' = calls + 1 /\ calls \in Nat
    BY DEF Starts, Close, Abandon, StartConsult, Approve, MintByHand, Begins, StateOK, TypeOK
  <2> QED BY <2>1, <2>2
<1>3. setup \in Setups /\ design \in Designs \cup {None} /\ continuous \in BOOLEAN
  BY DEF StateOK, TypeOK
<1>4. CASE Close(s)
  <2> DEFINE scope == design.scope
  <2>1. Begins(s, "close", None, scope, "tokens") /\ scope \in SUBSET Files
        /\ design # None /\ UNCHANGED <<session, design>>
    BY <1>3, <1>4 DEF Close, Designs, Scopes, markers
  <2> HIDE DEF scope
  <2>2. Begun(s, "close", None, scope, "tokens")
    BY <2>1, BeginsAs DEF Points
  <2>3. design'.scope = scope
    BY <2>1 DEF scope
  <2> QED BY <1>2, <2>1, <2>2, <2>3 DEF Begun, ShellOK, Active
<1>5. CASE Abandon(s)
  <2>1. Begun(s, "abandon", None, {}, "clear")
    BY <1>5, BeginsAs DEF Points, Abandon
  <2> QED BY <1>2, <1>5, <2>1 DEF Begun, ShellOK, Active, Abandon, markers
<1>6. ASSUME NEW i \in Iterations, StartConsult(s, i)
      PROVE  cmd[s] = None /\ session' = session /\ design' \in {design, None} /\ ShellOK(s)'
  <2> DEFINE scope == setup.scope[i]
  <2>1. Begins(s, "start", i, scope, "make") /\ scope \in SUBSET Files
    BY <1>3, <1>6, SetupTypes DEF StartConsult, Scopes
  <2> HIDE DEF scope
  <2>2. Begun(s, "start", i, scope, "make")
    BY <2>1, BeginsAs DEF Points
  <2> QED BY <1>3, <1>6, <2>2 DEF Begun, ShellOK, Active, StartConsult
<1>7. ASSUME NEW i \in Iterations, NEW scope \in Scopes, Approve(s, i, scope)
      PROVE  cmd[s] = None /\ session' = session /\ design' = design /\ ShellOK(s)'
  <2>1. Begins(s, "approve", i, scope, "seal") /\ scope \in SUBSET Files
    BY <1>7 DEF Approve, Scopes
  <2>2. Begun(s, "approve", i, scope, "seal")
    BY <2>1, BeginsAs DEF Points
  <2> QED BY <1>7, <2>2 DEF Begun, ShellOK, Active, Armed, Approve, markers
<1>8. ASSUME NEW i \in Iterations, NEW scope \in Scopes, MintByHand(s, i, scope)
      PROVE  cmd[s] = None /\ session' = session /\ design' = design /\ ShellOK(s)'
  <2>1. /\ Begins(s, "mint", i, scope, "mint") /\ scope \in SUBSET Files
        /\ Sealed(i) /\ iters[i].plan # None
    BY <1>8 DEF MintByHand, Scopes
  <2>2. Begun(s, "mint", i, scope, "mint")
    BY <2>1, BeginsAs DEF Points, Sealed
  <2>3. Sealed(It(s))'
    BY <1>1, <2>1, <2>2 DEF Begun, It, Sealed, Exists
  <2> QED BY <1>8, <2>2, <2>3 DEF Begun, ShellOK, Active, Armed, MintByHand, markers
<1> QED BY <1>2, <1>4, <1>5, <1>6, <1>7, <1>8 DEF Starts

LEMMA OneShellKept ==
  ASSUME StateOK, AllRight, OneShellOK, Next
  PROVE  OneShellOK'
<1>1. /\ IterType' /\ Grows /\ CmdType' /\ AllRight' /\ IterType /\ CmdType
      /\ setup' = setup /\ \A t \in Shells : PlanOK(t)' /\ PlanOK(t)
  BY CommandsKept, SetupStays DEF StateOK, TypeOK, IterType, PlanOK, Active
<1> SUFFICES ASSUME NEW s \in Shells, setup.shells = {s}
             PROVE  BackedOK' /\ AgreeOK' /\ ShellOK(s)'
  <2>1. \A s \in Shells : setup'.shells = {s} => \A t \in Shells : t # s => ShellOK(t)'
    BY <1>1 DEF PlanOK, ShellOK, Active
  <2> QED BY <1>1, <2>1 DEF OneShellOK, OneShell
<1>2. \A t \in Shells : t # s => ~Active(t)
  BY <1>1 DEF PlanOK
<1>3. /\ BackedOK /\ AgreeOK /\ ShellOK(s) /\ (Backed <=> Backed')
      /\ design \in Designs \cup {None}
  BY <1>1 DEF OneShellOK, OneShell, Backed, StateOK, TypeOK
<1> DEFINE Arms == Active(s) /\ cmd[s].op \in {"approve", "mint"} /\ cmd[s].at \in Armed
           Fewer == session' \in {session, None} /\ design' \in {design, None}
<1>4. ~Arms /\ Fewer => AgreeOK'
  BY <1>1, <1>2, <1>3 DEF AgreeOK
<1>5. ASSUME \A t \in Shells : ~RollbackOutcome(t), design' \in {design, None}
      PROVE  BackedOK'
  <2> SUFFICES ASSUME Backed, design' # None
               PROVE  (Sealed(design.ref) /\ iters[design.ref].plan # None)'
    BY <1>3 DEF BackedOK
  <2> PICK i : i = design.ref
    OBVIOUS
  <2>1. design' = design /\ i \in Iterations /\ Sealed(i) /\ iters[i].plan # None
    BY <1>3, <1>5 DEF BackedOK, Designs
  <2>2. Sealed(i)' /\ iters'[i].plan # None
    BY <1>1, <1>5, <2>1, SealStays DEF Grows, Sealed
  <2> QED BY <2>1, <2>2
<1>6. CASE UNCHANGED <<cmd, markers>> /\ \A t \in Shells : ~RollbackOutcome(t)
  <2>1. cmd' = cmd /\ session' = session /\ design' = design
    BY <1>6 DEF markers
  <2>2. AgreeOK'
    BY <1>1, <1>3, <2>1 DEF AgreeOK, Active
  <2>3. ShellOK(s)'
    <3>1. It(s) \in Iterations /\ Sealed(It(s)) => Sealed(It(s))'
      <4> PICK i : i = It(s)
        OBVIOUS
      <4> QED BY <1>6, <2>1, SealStays DEF It
    <3>2. Active(s) /\ cmd[s].op \in {"approve", "mint"} => It(s) \in Iterations
      BY DEF AllRight, CmdOK
    <3> QED BY <1>3, <2>1, <3>1, <3>2 DEF ShellOK, Active, It
  <2> QED BY <1>5, <1>6, <2>1, <2>2, <2>3
<1>7. ASSUME Starts(s) PROVE BackedOK' /\ AgreeOK' /\ ShellOK(s)'
  BY <1>1, <1>2, <1>3, <1>4, <1>5, <1>7, StartsAlone DEF Active
<1>8. ASSUME Command(s) PROVE BackedOK' /\ AgreeOK' /\ ShellOK(s)'
  <2> DEFINE Goal == BackedOK' /\ AgreeOK' /\ ShellOK(s)'
  <2>1. \A point \in Points : Active(s) /\ Goes(s, point) =>
          /\ Active(s)' /\ cmd'[s].op = cmd[s].op /\ cmd'[s].it = cmd[s].it
          /\ cmd'[s].scope = cmd[s].scope /\ cmd'[s].armed = cmd[s].armed /\ cmd'[s].at = point
          /\ cmd'[s].created = cmd[s].created
    BY <1>1, GoesOn DEF Kept, Active
  <2>2. Ends(s) => ShellOK(s)'
    BY <1>1, IsOver DEF ShellOK, Active
  <2>3. (Active(s) /\ cmd[s].op \in {"approve", "mint"} => It(s) \in Iterations) /\ CmdOK(s)
    BY DEF AllRight, CmdOK
  <2>4. ASSUME \A t \in Shells : ~RollbackOutcome(t), NEW i \in Iterations, Sealed(i)
        PROVE  Sealed(i)'
    BY <2>4, SealStays
  <2>5. cmd[s].at # "outcome" => \A t \in Shells : ~RollbackOutcome(t)
    BY <1>2 DEF RollbackOutcome, At, Active
  <2>6. CASE MakeIteration(s) \/ WriteGoalPacket(s) \/ WriteReviewPacket(s)
    <3>1. /\ Active(s) /\ cmd[s].op = "start" /\ cmd[s].at # "outcome"
          /\ session' = session /\ design' = design
          /\ \E point \in Points : Goes(s, point) \/ Ends(s)
      BY <2>6 DEF MakeIteration, WriteGoalPacket, WriteReviewPacket, At, Active, markers, Points
    <3>2. ShellOK(s)'
      BY <1>3, <2>1, <2>2, <3>1 DEF ShellOK
    <3> QED BY <1>4, <1>5, <2>5, <3>1, <3>2
  <2>7. CASE ArmGate(s)
    <3>1. /\ Active(s) /\ cmd[s].op \in {"start", "approve", "mint"} /\ cmd[s].at = "session"
          /\ iters' = iters /\ design' = design
      BY <2>7 DEF ArmGate, At, Active, repo
    <3>2. BackedOK'
      BY <1>5, <2>5, <3>1
    <3>3. CASE session' = It(s) /\ Ends(s)
      <4>1. cmd[s].op = "start" => design = None
        BY <1>3, <2>3, <3>1 DEF ShellOK, CmdOK
      <4>2. cmd[s].op # "start" => design # None /\ design.ref = It(s)
        BY <1>3, <3>1 DEF ShellOK, Armed
      <4>3. AgreeOK'
        BY <3>1, <3>3, <4>1, <4>2 DEF AgreeOK
      <4> QED BY <2>2, <3>2, <3>3, <4>3
    <3>4. CASE session' = session /\ cmd[s].op = "start" /\ Ends(s)
      BY <1>4, <2>2, <3>1, <3>2, <3>4
    <3>5. CASE session' = session /\ cmd[s].op # "start" /\ Goes(s, "marker")
      <4>1. /\ Active(s)' /\ cmd'[s].op \in {"approve", "mint"} /\ cmd'[s].at = "marker"
            /\ cmd'[s].it = cmd[s].it
        BY <2>1, <3>1, <3>5 DEF Points
      <4>2. AgreeOK'
        BY <4>1 DEF AgreeOK, Armed
      <4>3. design # None /\ design.ref = It(s) /\ Sealed(It(s))
        BY <1>3, <3>1, <3>5 DEF ShellOK, Armed
      <4>4. Sealed(It(s))'
        BY <3>1, <4>1, <4>3 DEF It, Sealed, Exists
      <4>5. ShellOK(s)'
        BY <3>1, <4>1, <4>3, <4>4 DEF ShellOK, Armed, It
      <4> QED BY <3>2, <4>2, <4>5
    <3> QED BY <2>7, <3>3, <3>4, <3>5 DEF ArmGate
  <2>8. CASE SealOutcome(s)
    <3>1. /\ Active(s) /\ cmd[s].op = "approve" /\ cmd[s].at = "seal" /\ It(s) \in Iterations
          /\ session' = session /\ design' = design /\ Exists(It(s))
          /\ Change(It(s), "outcome", "sealed")
      BY <2>3, <2>8 DEF SealOutcome, At, Active, markers, CmdOK
    <3>2. BackedOK' /\ AgreeOK'
      BY <1>4, <1>5, <2>5, <3>1 DEF Armed
    <3>3. Kept(s) /\ cmd'[s].at = "hash" /\ (cmd'[s].created <=> ~Sealed(It(s)))
      <4> DEFINE created == ~Sealed(It(s))
                 found == [outcome |-> iters[It(s)].outcome, design |-> design]
                 new == [cmd[s] EXCEPT !.created = created, !.at = "hash", !.found = found]
      <4>1. cmd[s] \in Commands /\ cmd' = [cmd EXCEPT ![s] = new] /\ created \in BOOLEAN
        BY <1>1, <2>8, <3>1 DEF SealOutcome, CmdType, Active
      <4> HIDE DEF created, found
      <4>2. /\ new.op = cmd[s].op /\ new.it = cmd[s].it /\ new.scope = cmd[s].scope
            /\ new.armed = cmd[s].armed /\ new.changed = cmd[s].changed /\ new.seen = cmd[s].seen
            /\ new.at = "hash" /\ new.created = created
        BY <4>1 DEF Commands
      <4> HIDE DEF new
      <4>3. cmd'[s] = new
        BY <1>1, <4>1 DEF CmdType
      <4>4. cmd'[s].created <=> ~Sealed(It(s))
        BY <4>2, <4>3 DEF created
      <4> QED BY <4>2, <4>3, <4>4 DEF Kept
    <3>4. iters'[It(s)].outcome = "sealed" /\ iters'[It(s)] # None
      BY <1>1, <3>1, OutcomeChanges DEF Outcomes, Grows, Exists
    <3>5. Backed /\ cmd'[s].created /\ design' # None => design'.ref # It(s)
      BY <1>3, <3>1, <3>3 DEF BackedOK
    <3>6. ShellOK(s)'
      BY <1>3, <3>1, <3>3, <3>4, <3>5 DEF ShellOK, Kept, It, Sealed, Exists, Armed
    <3> QED BY <3>2, <3>6
  <2>9. CASE HashPlan(s)
    <3>1. /\ Active(s) /\ cmd[s].op = "approve" /\ cmd[s].at = "hash"
          /\ session' = session /\ design' = design /\ iters' = iters
      BY <2>9 DEF HashPlan, At, Active, markers, repo
    <3>2. BackedOK' /\ AgreeOK'
      BY <1>4, <1>5, <2>5, <3>1 DEF Armed
    <3>3. CASE Ends(s)
      BY <2>2, <3>2, <3>3
    <3>4. CASE ~Ends(s)
      <4> DEFINE new == [cmd[s] EXCEPT !.plan = iters[It(s)].plan.version,
                                       !.at = IF continuous THEN "mint" ELSE "clear"]
      <4>1. cmd[s] \in Commands /\ cmd' = [cmd EXCEPT ![s] = new]
        BY <1>1, <2>9, <3>1, <3>4 DEF HashPlan, CmdType, Active
      <4>2. /\ new.op = cmd[s].op /\ new.it = cmd[s].it /\ new.created = cmd[s].created
            /\ new.at \in {"mint", "clear"}
        BY <4>1 DEF Commands
      <4> HIDE DEF new
      <4>3. cmd'[s] = new
        BY <1>1, <4>1 DEF CmdType
      <4>4. ShellOK(s)'
        BY <1>3, <3>1, <4>2, <4>3 DEF ShellOK, It, Sealed, Exists, Armed
      <4> QED BY <3>2, <4>4
    <3> QED BY <3>3, <3>4
  <2>10. CASE Mint(s)
    <3>1. /\ Active(s) /\ cmd[s].op \in {"approve", "mint"} /\ cmd[s].at = "mint"
          /\ session' = session /\ iters' = iters /\ It(s) \in Iterations
          /\ Sealed(It(s)) /\ iters[It(s)].plan # None
      BY <1>3, <2>3, <2>10 DEF Mint, At, Active, repo, CmdOK, ShellOK
    <3>2. CASE design' = design /\ (Goes(s, "outcome") \/ Ends(s))
      <4>1. BackedOK' /\ AgreeOK'
        BY <1>4, <1>5, <2>5, <3>1, <3>2 DEF Armed
      <4>2. ASSUME Goes(s, "outcome") PROVE ShellOK(s)'
        BY <1>3, <2>1, <3>1, <3>2, <4>2 DEF ShellOK, It, Armed, Points
      <4>3. ShellOK(s)'
        BY <2>2, <3>2, <4>2
      <4> QED BY <4>1, <4>3
    <3>3. ASSUME NEW point \in {"revalidate", "session"}, Goes(s, point),
                 design' = [ref |-> It(s), scope |-> cmd[s].scope, plan |-> cmd[s].plan]
          PROVE  Goal
      <4>1. design' # None /\ design'.ref = It(s)
        <5>1. cmd[s].scope \in Scopes /\ cmd[s].plan \in 1..MaxPlans
          BY <2>3, <3>1 DEF CmdOK, StateOK, TypeOK, Active
        <5>2. design' \in Designs
          BY <3>1, <3>3, <5>1 DEF Designs
        <5> QED BY <3>3, <5>2, NoneAssumption
      <4>2. /\ Active(s)' /\ cmd'[s].op = cmd[s].op /\ cmd'[s].it = cmd[s].it
            /\ cmd'[s].at = point
        BY <2>1, <3>1, <3>3 DEF Points
      <4>3. BackedOK'
        BY <3>1, <4>1 DEF BackedOK, Sealed, Exists
      <4>4. AgreeOK'
        BY <3>1, <3>3, <4>2 DEF AgreeOK, Armed
      <4>5. ShellOK(s)'
        BY <3>1, <3>3, <4>1, <4>2 DEF ShellOK, It, Armed, Sealed, Exists
      <4> QED BY <4>3, <4>4, <4>5
    <3> QED BY <2>10, <3>2, <3>3 DEF Mint
  <2>11. CASE Revalidate(s)
    <3>1. /\ Active(s) /\ cmd[s].op = "approve" /\ cmd[s].at = "revalidate"
          /\ session' = session /\ design' = design /\ iters' = iters
          /\ \E point \in {"session", "marker"} : Goes(s, point)
      BY <2>11 DEF Revalidate, At, Active, repo, markers
    <3>2. /\ Active(s)' /\ cmd'[s].op = "approve" /\ cmd'[s].it = cmd[s].it
          /\ cmd'[s].at \in {"session", "marker"}
      BY <2>1, <3>1 DEF Points
    <3>3. BackedOK'
      BY <1>5, <2>5, <3>1
    <3>4. AgreeOK'
      BY <3>2 DEF AgreeOK, Armed
    <3>5. ShellOK(s)'
      BY <1>3, <3>1, <3>2 DEF ShellOK, It, Armed, Sealed, Exists
    <3> QED BY <3>3, <3>4, <3>5
  <2>12. CASE RollbackMarker(s)
    <3>1. /\ Active(s) /\ cmd[s].op \in {"approve", "mint"} /\ cmd[s].at = "marker"
          /\ session' = session /\ iters' = iters /\ Goes(s, "outcome")
          /\ design' = None \/ (design' = design /\ "unlink" \in setup.fails)
      BY <2>12 DEF RollbackMarker, At, Active, repo, CanFail
    <3>2. BackedOK'
      BY <1>5, <2>5, <3>1
    <3>3. AgreeOK'
      BY <1>1, <3>1 DEF AgreeOK
    <3>4. ShellOK(s)'
      BY <1>1, <2>1, <3>1 DEF ShellOK, Armed, Points, Backed
    <3> QED BY <3>2, <3>3, <3>4
  <2>13. CASE RollbackOutcome(s)
    <3>1. /\ Active(s) /\ cmd[s].op \in {"approve", "mint"} /\ cmd[s].at = "outcome"
          /\ session' = session /\ design' = design /\ Ends(s) /\ It(s) \in Iterations
          /\ iters' = iters \/ (cmd[s].created /\ Change(It(s), "outcome", "none"))
      BY <2>3, <2>13 DEF RollbackOutcome, At, Active, markers, CmdOK
    <3>2. AgreeOK'
      BY <1>4, <3>1 DEF Armed
    <3>3. BackedOK'
      <4> SUFFICES ASSUME Backed, design # None
                   PROVE  (Sealed(design.ref) /\ iters[design.ref].plan # None)'
        BY <1>3, <3>1 DEF BackedOK
      <4> PICK i : i = design.ref
        OBVIOUS
      <4>1. i \in Iterations /\ Sealed(i) /\ iters[i].plan # None
        BY <1>3 DEF BackedOK, Designs
      <4>2. iters' = iters \/ i # It(s)
        BY <1>3, <2>3, <3>1 DEF ShellOK, CmdOK
      <4>3. iters'[i] = iters[i]
        BY <1>1, <3>1, <4>1, <4>2 DEF Change, IterType
      <4> QED BY <3>1, <4>1, <4>3 DEF Sealed, Exists
    <3> QED BY <2>2, <3>1, <3>2, <3>3
  <2>14. CASE CheckTokens(s) \/ ClearSession(s) \/ UnlinkDesign(s)
    <3>1. /\ Active(s) /\ cmd[s].at \in {"tokens", "clear", "unlink"}
          /\ session' \in {session, None} /\ design' \in {design, None}
          /\ Ends(s) \/ (design' = design /\ \E point \in {"clear", "unlink"} : Goes(s, point))
      BY <2>14 DEF CheckTokens, ClearSession, UnlinkDesign, At, Active, markers
    <3>2. BackedOK' /\ AgreeOK'
      BY <1>4, <1>5, <2>5, <3>1 DEF Armed
    <3>3. ShellOK(s)'
      <4>1. cmd[s].op \in {"approve", "close", "abandon"}
        BY <2>14 DEF CheckTokens, ClearSession, UnlinkDesign, At
      <4> QED BY <1>3, <2>1, <2>2, <3>1, <4>1 DEF ShellOK, Armed, Points
    <3> QED BY <3>2, <3>3
  <2>15. CASE Dies(s)
    <3>1. iters' = iters /\ session' = session /\ design' = design /\ setup.crashes /\ Ends(s)
      BY <2>15 DEF Dies, repo, markers
    <3> QED BY <1>1, <1>3, <2>2, <3>1 DEF BackedOK, AgreeOK, Sealed, Exists
  <2> QED
    BY <1>8, <2>6, <2>7, <2>8, <2>9, <2>10, <2>11, <2>12, <2>13, <2>14, <2>15
    DEF Command
<1>9. ASSUME NEW t \in Shells, Command(t) \/ Starts(t)
      PROVE  t = s
  <2>1. CASE Command(t)
    <3>1. Active(t)
      BY <2>1 DEF Command, MakeIteration, WriteGoalPacket, WriteReviewPacket, ArmGate, SealOutcome, HashPlan, Mint,
        Revalidate, RollbackMarker, RollbackOutcome, CheckTokens, ClearSession, UnlinkDesign, Dies,
        At, Active
    <3> QED BY <1>2, <3>1
  <2>2. CASE Starts(t)
    BY <2>2 DEF Starts, Close, Abandon, StartConsult, Approve, MintByHand, Begins
  <2> QED BY <1>9, <2>1, <2>2
<1>10. ASSUME ~\E t \in Shells : Command(t) \/ Starts(t)
       PROVE  UNCHANGED <<cmd, markers>> /\ \A t \in Shells : ~RollbackOutcome(t)
  BY <1>10, NextSteps
  DEF Command, Prepare, PanelAndHost, MintToken, HostCalls, ToolRuns, Commit, SwitchMode, shells
<1> QED BY <1>6, <1>7, <1>8, <1>9, <1>10
-----------------------------------------------------------------------------
(***************************************************************************)
(* The operator's commands: no shell is in one of its own.                 *)
(***************************************************************************)
LEMMA StoredFiles ==
  ASSUME IterType
  PROVE  Stored \in SUBSET SavedFiles
<1> SUFFICES ASSUME NEW i \in Iterations PROVE FilesOf(i) \subseteq SavedFiles
  BY DEF Stored
<1> SUFFICES ASSUME Exists(i) PROVE FilesOf(i) \subseteq SavedFiles
  BY DEF FilesOf
<1>1. iters[i] \in Directory
  BY DEF IterType, Exists
<1> QED BY <1>1 DEF FilesOf, SavedFiles, Directory, Exists

LEMMA WithTyped ==
  ASSUME NEW d \in Directory, NEW file \in SavedFiles
  PROVE  file[1] \in Iterations /\ With(d, file) \in Directory
<1>1. CASE file \in Iterations \X {"packet"} \X SUBSET Files
  BY <1>1 DEF With, Directory
<1>2. CASE file \in Iterations \X {"plan"} \X Plans
  BY <1>2 DEF With, Directory
<1>3. CASE file \in Iterations \X {"outcome"} \X (Outcomes \ {"none"})
  BY <1>3 DEF With, Directory
<1>4. CASE file \in Iterations \X Families \X {"review"}
  BY <1>4, FamilyAssumption DEF With, Directory
<1> QED BY <1>1, <1>2, <1>3, <1>4 DEF SavedFiles

LEMMA KeeperFrame ==
  ASSUME KeepOK, setup \in Setups, Keeper
  PROVE  /\ UNCHANGED <<tree, head, gone, tokens, tool, markers, shells, mode>>
         /\ setup.restores # 0 /\ \A s \in Shells : ~Active(s)
<1>1. CASE keep.stage # "none"
  BY <1>1 DEF KeepOK, Keeper, Save, Restore, Start, CopyTree, Tag, Advance, Extract, Clean, CopyBack,
    Restored, Stops, Alone, repo
<1>2. CASE keep.stage = "none"
  <2>1. /\ Start /\ UNCHANGED <<repo, markers, shells, mode>>
    BY <1>2 DEF Keeper, Save, Restore, CopyTree, Tag, Advance, Extract, Clean, CopyBack, Restored, Stops
  <2>2. setup.restores \in Nat /\ kept \in Nat
    BY ConsultAssumption DEF KeepOK
  <2>3. setup.restores # 0 /\ \A s \in Shells : ~Active(s)
    BY <2>1, <2>2 DEF Start, Active
  <2> QED BY <2>1, <2>3 DEF repo
<1> QED BY <1>1, <1>2

LEMMA KeeperIters ==
  ASSUME KeepOK, IterType, Keeper
  PROVE  IterType'
<1>1. CASE UNCHANGED iters
  BY <1>1 DEF IterType
<1>2. CASE Clean
  BY <1>2, NoneAssumption DEF Clean, IterType
<1>3. CASE CopyBack
  <2>1. PICK file \in keep.files :
          iters' = [iters EXCEPT ![file[1]] =
                      With(IF Exists(file[1]) THEN iters[file[1]] ELSE Empty, file)]
    BY <1>3 DEF CopyBack
  <2> DEFINE d == IF Exists(file[1]) THEN iters[file[1]] ELSE Empty
  <2>2. file \in SavedFiles
    BY DEF KeepOK, Keeping
  <2>3. file[1] \in Iterations
    BY <2>2, WithTyped, EmptyIs
  <2>4. d \in Directory
    BY <2>3, EmptyIs DEF IterType, Exists
  <2> HIDE DEF d
  <2>5. With(d, file) \in Directory
    BY <2>2, <2>4, WithTyped
  <2> QED BY <2>1, <2>3, <2>5 DEF IterType, d
<1> QED
  BY <1>1, <1>2, <1>3
  DEF Keeper, Save, Restore, CopyTree, Tag, Advance, Extract, Restored, Stops, repo
\* A command of the operator that goes on.
LEMMA KeepsOn ==
  ASSUME keep \in Keeping,
         NEW stage \in {"none", "copy", "tag", "advance", "extract", "clean", "fill"}, Keeps(stage)
  PROVE  /\ keep' \in Keeping /\ keep'.stage = stage /\ keep'.tag = keep.tag
         /\ keep'.scope = keep.scope /\ keep'.force = keep.force /\ keep'.files = keep.files
         /\ keep'.log = keep.log /\ keep'.seen = keep.seen /\ keep'.at = keep.at
         /\ keep'.calm => keep.calm /\ keep.at = iters
<1> DEFINE calm == keep.calm /\ keep.at = iters
<1>1. keep' = [keep EXCEPT !.stage = stage, !.calm = calm] /\ calm \in BOOLEAN
  BY DEF Keeps
<1> HIDE DEF calm
<1>2. /\ keep' \in Keeping /\ keep'.stage = stage /\ keep'.tag = keep.tag
      /\ keep'.scope = keep.scope /\ keep'.force = keep.force /\ keep'.files = keep.files
      /\ keep'.log = keep.log /\ keep'.seen = keep.seen /\ keep'.at = keep.at
      /\ keep'.calm = calm
  BY <1>1 DEF Keeping
<1> QED BY <1>2 DEF calm

LEMMA AtRest ==
  /\ Resting \in Keeping /\ Resting.stage = "none" /\ Resting.tag = 0
BY DEF Resting, Keeping

LEMMA BranchLog ==
  ASSUME KeepOK
  PROVE  OnBranch \in SUBSET Nat
<1>1. CASE branch \in {None, 0}
  BY <1>1 DEF OnBranch
<1>2. CASE branch \notin {None, 0}
  <2>1. branch \in 1..Len(snapshots) /\ snapshots \in Seq(SavedCommits)
    BY <1>2 DEF KeepOK
  <2>2. snapshots[branch] \in SavedCommits
    BY <2>1
  <2> QED BY <1>2, <2>2 DEF OnBranch, SavedCommits
<1> QED BY <1>1, <1>2

\* How a restore begins.
Restoring(stage, tag, scope, force, seen) ==
  [[Resting EXCEPT !.tag = tag, !.scope = scope, !.force = force, !.seen = seen, !.at = iters]
     EXCEPT !.stage = stage]

LEMMA RestoringTyped ==
  ASSUME IterType, NEW tag \in Nat, NEW scope \in SUBSET Iterations, NEW force \in BOOLEAN,
         NEW stage \in {"copy", "extract"}, NEW seen \in SUBSET SavedFiles,
         keep' = Restoring(stage, tag, scope, force, seen)
  PROVE  /\ keep' \in Keeping /\ keep'.stage = stage /\ keep'.tag = tag /\ keep'.scope = scope
         /\ keep'.force = force /\ keep'.seen = seen /\ keep'.at = iters /\ keep'.files = {}
BY DEF Resting, Keeping, IterType, Restoring

RestoreBegun(tag, scope, force) ==
  /\ keep' \in Keeping /\ keep'.stage \in {"copy", "extract"} /\ keep'.tag = tag
  /\ keep'.scope = scope /\ keep'.force = force /\ keep'.seen = Stored
  /\ keep'.at = iters /\ keep'.files = {}
  /\ keep'.stage = "extract" => force \/ Dirty(tag) = {}

LEMMA RestoreBegins ==
  ASSUME KeepOK, IterType, NEW tag \in DOMAIN snapshots,
         NEW scope \in {Iterations} \cup {{i} : i \in Iterations},
         NEW force \in BOOLEAN, NEW abort \in BOOLEAN, Restore(tag, scope, force, abort)
  PROVE  keep' = keep \/ RestoreBegun(tag, scope, force)
<1>1. tag \in Nat /\ scope \in SUBSET Iterations
  BY DEF KeepOK
<1>2. PICK seen \in SUBSET SavedFiles : seen = Stored
  BY StoredFiles
<1>3. \/ keep' = keep \/ keep' = Restoring("copy", tag, scope, force, seen)
      \/ keep' = Restoring("extract", tag, scope, force, seen) /\ (force \/ Dirty(tag) = {})
  BY <1>2 DEF Restore, Restoring
<1>4. CASE keep' = Restoring("copy", tag, scope, force, seen)
  <2>1. /\ keep' \in Keeping /\ keep'.stage = "copy" /\ keep'.tag = tag /\ keep'.scope = scope
        /\ keep'.force = force /\ keep'.seen = seen /\ keep'.at = iters /\ keep'.files = {}
    BY <1>1, <1>4, RestoringTyped
  <2> QED BY <1>2, <2>1 DEF RestoreBegun
<1>5. CASE keep' = Restoring("extract", tag, scope, force, seen) /\ (force \/ Dirty(tag) = {})
  <2>1. /\ keep' \in Keeping /\ keep'.stage = "extract" /\ keep'.tag = tag /\ keep'.scope = scope
        /\ keep'.force = force /\ keep'.seen = seen /\ keep'.at = iters /\ keep'.files = {}
    <3>1. keep' = Restoring("extract", tag, scope, force, seen)
      BY <1>5
    <3> QED BY <1>1, <3>1 DEF Resting, Keeping, IterType, Restoring
  <2> QED BY <1>2, <1>5, <2>1 DEF RestoreBegun
<1> QED BY <1>3, <1>4, <1>5

LEMMA KeepTyped ==
  ASSUME KeepOK, IterType, setup \in Setups, Keeper
  PROVE  keep' \in Keeping
<1>1. keep \in Keeping
  BY DEF KeepOK
<1>2. Stored \in SUBSET SavedFiles
  BY StoredFiles
<1>3. CASE Save
  BY <1>3 DEF Save, Resting, Keeping, IterType
<1>4. ASSUME NEW tag \in DOMAIN snapshots, NEW scope \in {Iterations} \cup {{i} : i \in Iterations},
             NEW force \in BOOLEAN, NEW abort \in BOOLEAN, Restore(tag, scope, force, abort)
      PROVE  keep' \in Keeping
  BY <1>1, <1>4, RestoreBegins DEF RestoreBegun
<1>5. CASE CopyTree
  <2> DEFINE calm == keep.calm /\ keep.at = iters
  <2>1. keep' = [keep EXCEPT !.stage = "tag", !.files = Stored, !.log = OnBranch, !.calm = calm]
        /\ calm \in BOOLEAN
    BY <1>5 DEF CopyTree
  <2> HIDE DEF calm
  <2> QED BY <1>1, <1>2, <2>1, BranchLog DEF Keeping
<1>6. CASE Tag
  BY <1>1, <1>6, KeepsOn DEF Tag
<1>7. CASE Advance
  BY <1>1, <1>7, KeepsOn, AtRest DEF Advance
<1>8. CASE Extract
  <2> DEFINE calm == keep.calm /\ keep.at = iters
             files == In(keep.scope, snapshots[keep.tag].files)
  <2>1. /\ keep' = Resting \/ keep' = [keep EXCEPT !.stage = "clean", !.calm = calm, !.files = files]
        /\ calm \in BOOLEAN
    BY <1>8 DEF Extract
  <2>2. files \in SUBSET SavedFiles
    <3>1. snapshots \in Seq(SavedCommits) /\ keep.tag \in 1..Len(snapshots)
      BY <1>8 DEF Extract, KeepOK
    <3>2. snapshots[keep.tag] \in SavedCommits
      BY <3>1
    <3> QED BY <3>2 DEF In, SavedCommits
  <2> HIDE DEF calm, files
  <2> QED BY <1>1, <2>1, <2>2, AtRest, ZenonT(60) DEF Keeping
<1>9. CASE Clean
  <2> DEFINE calm == keep.calm /\ keep.at = iters
  <2>1. keep' = [keep EXCEPT !.stage = "fill", !.at = iters', !.calm = calm] /\ calm \in BOOLEAN
    BY <1>9 DEF Clean
  <2>2. iters' \in [Iterations -> Directory \cup {None}]
    BY KeeperIters DEF IterType
  <2> HIDE DEF calm
  <2> QED BY <1>1, <2>1, <2>2 DEF Keeping
<1>10. CASE CopyBack
  <2> DEFINE calm == keep.calm /\ keep.at = iters
  <2>1. PICK file \in keep.files :
          keep' = [keep EXCEPT !.files = @ \ {file}, !.at = iters', !.calm = calm]
    BY <1>10 DEF CopyBack
  <2>2. iters' \in [Iterations -> Directory \cup {None}] /\ calm \in BOOLEAN
    BY KeeperIters DEF IterType
  <2> HIDE DEF calm
  <2> QED BY <1>1, <2>1, <2>2 DEF Keeping
<1> QED
  BY <1>3, <1>4, <1>5, <1>6, <1>7, <1>8, <1>9, <1>10, AtRest DEF Keeper, Restored, Stops
LEMMA KeeperKeeps ==
  ASSUME KeepOK, IterType, setup \in Setups, Keeper
  PROVE  KeepOK'
<1>1. /\ cmd' = cmd /\ setup' = setup /\ setup.restores # 0 /\ \A s \in Shells : ~Active(s)
      /\ keep' \in Keeping
  BY KeeperFrame, KeepTyped DEF shells, mode
<1>2. /\ keep \in Keeping /\ snapshots \in Seq(SavedCommits) /\ Len(snapshots) \in Nat /\ kept \in Nat
      /\ branch \in {None} \cup 0..Len(snapshots) /\ keep.tag \in 0..Len(snapshots)
  BY DEF KeepOK
<1>3. kept' \in Nat
  <2>1. kept' \in {kept, kept + 1}
    BY DEF Keeper, Save, Restore, Start, CopyTree, Tag, Advance, Extract, Clean, CopyBack, Restored, Stops
  <2> QED BY <1>2, <2>1
<1>4. CASE Tag
  <2> DEFINE commit == [files |-> keep.files, log |-> keep.log \cup {Len(snapshots) + 1}]
  <2>1. commit \in SavedCommits /\ snapshots' = Append(snapshots, commit)
    BY <1>2, <1>4 DEF Tag, SavedCommits, Keeping
  <2> HIDE DEF commit
  <2>2. snapshots' \in Seq(SavedCommits) /\ Len(snapshots') = Len(snapshots) + 1
    BY <1>2, <2>1
  <2>3. keep'.tag = keep.tag /\ keep'.stage = "advance" /\ branch' = branch
    BY <1>2, <1>4, KeepsOn DEF Tag
  <2>4. branch' \in {None} \cup 0..Len(snapshots') /\ keep'.tag \in 0..Len(snapshots')
    BY <1>2, <2>2, <2>3
  <2> QED BY <1>1, <1>3, <2>2, <2>3, <2>4 DEF KeepOK, Active
<1>5. ASSUME UNCHANGED snapshots, branch' \in {None} \cup 0..Len(snapshots),
             keep'.tag \in 0..Len(snapshots),
             keep'.stage \in {"extract", "clean", "fill"} => keep'.tag # 0
      PROVE  KeepOK'
  BY <1>1, <1>2, <1>3, <1>5 DEF KeepOK, Active
<1>6. CASE Save
  <2>1. keep'.tag = 0 /\ keep'.stage = "copy"
    BY <1>6 DEF Save, Resting
  <2> QED BY <1>2, <1>5, <1>6, <2>1 DEF Save, store
<1>7. ASSUME NEW tag \in DOMAIN snapshots, NEW scope \in {Iterations} \cup {{i} : i \in Iterations},
             NEW force \in BOOLEAN, NEW abort \in BOOLEAN, Restore(tag, scope, force, abort)
      PROVE  KeepOK'
  <2>1. tag \in 1..Len(snapshots) /\ UNCHANGED store
    BY <1>2, <1>7 DEF Restore
  <2>2. keep' = keep \/ keep'.tag = tag
    <3>1. keep' = keep \/ RestoreBegun(tag, scope, force)
      BY <1>7, RestoreBegins
    <3> QED BY <3>1 DEF RestoreBegun
  <2>3. keep.stage = "none"
    BY <1>7 DEF Restore, Start
  <2> QED BY <1>2, <1>5, <2>1, <2>2, <2>3 DEF store
<1>8. CASE CopyTree
  <2>1. keep'.tag = keep.tag /\ keep'.stage = "tag"
    BY <1>2, <1>8 DEF CopyTree, Keeping
  <2>2. branch' \in {None} \cup 0..Len(snapshots)
    BY <1>2, <1>8 DEF CopyTree
  <2> QED BY <1>2, <1>5, <1>8, <2>1, <2>2 DEF CopyTree
<1>9. CASE Advance
  <2>1. keep' = Resting \/ (keep'.tag = keep.tag /\ keep.tag # 0)
    BY <1>2, <1>9, KeepsOn DEF Advance
  <2>2. branch' \in {None} \cup 0..Len(snapshots) /\ snapshots' = snapshots
    BY <1>2, <1>9 DEF Advance
  <2> QED BY <1>2, <1>5, <2>1, <2>2, AtRest
<1>10. CASE Extract \/ Clean \/ CopyBack
  <2>1. keep' = Resting \/ keep'.tag = keep.tag
    BY <1>2, <1>10 DEF Extract, Clean, CopyBack, Keeping
  <2>2. keep.tag # 0 /\ UNCHANGED store
    BY <1>10 DEF Extract, Clean, CopyBack, KeepOK
  <2> QED BY <1>2, <1>5, <2>1, <2>2, AtRest DEF store
<1>11. CASE Restored \/ Stops
  BY <1>2, <1>5, <1>11, AtRest DEF Restored, Stops, store
<1> QED BY <1>4, <1>6, <1>7, <1>8, <1>9, <1>10, <1>11 DEF Keeper

LEMMA KeeperInv ==
  ASSUME ConsultInv, Keeper
  PROVE  ConsultInv'
<1>1. setup \in Setups /\ IterType /\ KeepOK
  BY DEF ConsultInv, StateOK, TypeOK, IterType
<1>2. /\ UNCHANGED <<tree, head, gone, tokens, tool, session, design, cmd, calls, setup, continuous, switched>>
      /\ setup.restores # 0 /\ \A s \in Shells : ~Active(s)
  BY <1>1, KeeperFrame DEF shells, mode, markers
<1>3. IterType' /\ KeepOK'
  BY <1>1, KeeperIters, KeeperKeeps
<1>4. StateOK'
  BY <1>2, <1>3 DEF ConsultInv, StateOK, TypeOK, TreeOK, CmdType, IterType
<1>5. MarkerOK' /\ ToolOK'
  BY <1>2 DEF MarkerOK, ToolOK, Minted
<1>6. OneShellOK'
  <2>1. OneShell' => AgreeOK
    BY <1>2 DEF ConsultInv, OneShellOK, OneShell
  <2>2. OneShell' => AgreeOK'
    BY <1>2, <2>1 DEF AgreeOK, Active
  <2>3. BackedOK' /\ \A s \in Shells : ShellOK(s)'
    BY <1>2 DEF BackedOK, Backed, ShellOK, Active
  <2> QED BY <2>2, <2>3 DEF OneShellOK
<1>7. \A s \in Shells : CmdOK(s)' /\ CloseOK(s)'
  BY <1>2 DEF CmdOK, CloseOK, Active
<1> QED BY <1>3, <1>4, <1>5, <1>6, <1>7 DEF ConsultInv
-----------------------------------------------------------------------------
(***************************************************************************)
(* The invariant, and what follows from it.                                *)
(***************************************************************************)
LEMMA ConsultStarts == SnapshotInit => ConsultInv
<1> SUFFICES ASSUME SnapshotInit PROVE ConsultInv
  OBVIOUS
<1>1. /\ setup \in Setups /\ continuous = setup.continuous /\ switched = 0
      /\ iters = setup.found /\ session = None /\ design = None
      /\ tree = [f \in Files |-> 0] /\ head = tree /\ gone = {}
      /\ tokens = [f \in Files |-> None] /\ tool = None
      /\ cmd = [s \in Shells |-> None] /\ calls = 0
      /\ snapshots = <<>> /\ branch = None /\ keep = Resting /\ kept = 0
  BY DEF SnapshotInit, Init
<1>2. /\ iters \in [Iterations -> Directory \cup {None}] /\ continuous \in BOOLEAN
      /\ switched \in 0..setup.switches /\ calls \in 0..setup.calls
      /\ tree \in [Files -> 0..setup.edits]
  BY <1>1, SetupTypes
<1>3. \A s \in Shells : ~Active(s)
  BY <1>1 DEF Active
<1>4. TypeOK
  BY <1>1, <1>2, <1>3 DEF TypeOK, Active
<1>5. StateOK
  BY <1>1, <1>2, <1>4 DEF StateOK, TreeOK, CmdType
<1>6. KeepOK
  BY <1>1, <1>3, AtRest DEF KeepOK
<1>7. MarkerOK /\ ToolOK /\ BackedOK /\ AgreeOK
  BY <1>1 DEF MarkerOK, ToolOK, BackedOK, AgreeOK
<1>8. OneShellOK /\ \A s \in Shells : CmdOK(s) /\ CloseOK(s)
  BY <1>3, <1>7 DEF OneShellOK, ShellOK, CmdOK, CloseOK
<1> QED BY <1>5, <1>6, <1>7, <1>8 DEF ConsultInv

LEMMA ConsultSteps == ConsultInv /\ [SnapshotNext]_<<vars, svars>> => ConsultInv'
<1> SUFFICES ASSUME ConsultInv, [SnapshotNext]_<<vars, svars>> PROVE ConsultInv'
  OBVIOUS
<1>1. CASE Keeper
  BY <1>1, KeeperInv
<1>2. CASE Next /\ (keep.stage # "none" => shells' = shells) /\ UNCHANGED svars
  <2>1. StateOK /\ AllRight /\ MarkerOK /\ ToolOK /\ OneShellOK /\ KeepOK
    BY DEF ConsultInv, AllRight
  <2>2. StateOK' /\ AllRight' /\ MarkerOK' /\ ToolOK' /\ OneShellOK'
    BY <1>2, <2>1, StateKept, CommandsKept, MarkerKept, ToolKept, OneShellKept
  <2>3. /\ setup' = setup /\ keep' = keep /\ kept' = kept /\ branch' = branch
        /\ snapshots' = snapshots /\ (keep.stage # "none" => cmd' = cmd)
    BY <1>2, SetupStays DEF svars, store, shells
  <2>4. KeepOK'
    BY <2>1, <2>3 DEF KeepOK, Active
  <2> QED BY <2>2, <2>4 DEF ConsultInv, AllRight
<1>3. CASE UNCHANGED <<vars, svars>>
  <2>1. /\ UNCHANGED <<iters, tree, head, gone, tokens, tool, session, design, cmd, calls, setup>>
        /\ UNCHANGED <<continuous, switched, snapshots, branch, keep, kept>>
    BY <1>3 DEF vars, svars, store, repo, markers, shells, mode
  <2>2. StateOK' /\ KeepOK'
    BY <2>1 DEF ConsultInv, StateOK, TypeOK, TreeOK, CmdType, KeepOK, Active
  <2>3. MarkerOK' /\ ToolOK'
    BY <2>1 DEF ConsultInv, MarkerOK, ToolOK, Minted, Approvable, Vetted, Exists
  <2>4. \A s \in Shells : CmdOK(s)' /\ CloseOK(s)'
    BY <2>1 DEF ConsultInv, CmdOK, CloseOK, Missing, Active, It, Approvable, Vetted, Exists
  <2>5. OneShellOK'
    BY <2>1 DEF ConsultInv, OneShellOK, OneShell, BackedOK, AgreeOK, ShellOK, Backed, Active, It,
      Sealed, Exists
  <2> QED BY <2>2, <2>3, <2>4, <2>5 DEF ConsultInv
<1> QED BY <1>1, <1>2, <1>3 DEF SnapshotNext

THEOREM ConsultInvariant == SnapshotSpec => []ConsultInv
<1> QED BY ConsultStarts, ConsultSteps, PTL DEF SnapshotSpec
LEMMA OneShellIs ==
  ASSUME ConsultInv, Cardinality(setup.shells) = 1
  PROVE  OneShell
<1>1. setup.shells \subseteq Shells
  BY SetupTypes DEF ConsultInv, StateOK, TypeOK
<1>2. IsFiniteSet(setup.shells)
  BY <1>1, ConsultAssumption, FS_Subset
<1>3. PICK s : setup.shells = {s}
  BY <1>2, FS_Singleton
<1> QED BY <1>1, <1>3 DEF OneShell

\* The variables have their types, also with every command at any of its points
\* and a restore half done.
THEOREM ConsultTypes == SnapshotSpec => []TypeOK
<1>1. ConsultInv => TypeOK
  BY DEF ConsultInv, StateOK
<1> QED BY <1>1, ConsultInvariant, PTL

\* With one shell and nothing that fails in the middle, the two markers are of
\* the same consult whenever no command is on.
THEOREM MarkersAreOne == SnapshotSpec => []MarkersAgree
<1>1. ConsultInv => MarkersAgree
  <2> SUFFICES ASSUME ConsultInv, Undisturbed, \A s \in Shells : cmd[s] = None,
                      session # None, design # None
               PROVE  design.ref = session
    BY DEF MarkersAgree
  <2>1. AgreeOK
    BY OneShellIs DEF Undisturbed, ConsultInv, OneShellOK
  <2> QED BY <2>1 DEF AgreeOK, Active, Undisturbed
<1> QED BY <1>1, ConsultInvariant, PTL

\* With one shell, no failing unlink and no restore, the design marker always
\* points at a sealed consult, however its approval ended.
THEOREM MarkersAreBacked == SnapshotSpec => []MarkerIsBacked
<1>1. ConsultInv => MarkerIsBacked
  <2> SUFFICES ASSUME ConsultInv, Cardinality(setup.shells) = 1, Backed, design # None
               PROVE  Sealed(design.ref) /\ iters[design.ref].plan # None
    BY DEF MarkerIsBacked, Backed
  <2>1. BackedOK
    BY OneShellIs DEF ConsultInv, OneShellOK
  <2> QED BY <2>1 DEF BackedOK
<1> QED BY <1>1, ConsultInvariant, PTL

\* An edit the gate let through is of a file that a consult was started for and
\* nobody forbade, under a plan two families besides the host reviewed: for any
\* number of shells, with every command able to fail or die anywhere. Hand-made
\* markers and restores are the operator's way round, and are excluded.
THEOREM GatedEditsWereApproved == SnapshotSpec => EditsWereApproved
<1> DEFINE Approved ==
      \A f \in Files :
       tree'[f] # tree[f] /\ tool.kind = "edit" /\ tool.gated /\ ~setup.mints /\ setup.restores = 0 =>
         /\ tool.ref # None /\ Exists(tool.ref)
         /\ iters[tool.ref].packet /\ iters[tool.ref].plan # None
         /\ \E a, b \in iters[tool.ref].reviews \ {"claude"} : a # b
         /\ f \in setup.scope[tool.ref] \ iters[tool.ref].forbidden
<1>1. ASSUME ConsultInv, [SnapshotNext]_<<vars, svars>> PROVE [Approved]_vars
  <2> SUFFICES ASSUME NEW f \in Files, tree'[f] # tree[f], tool.kind = "edit", tool.gated, Minted
               PROVE  /\ tool.ref # None /\ Exists(tool.ref)
                      /\ iters[tool.ref].packet /\ iters[tool.ref].plan # None
                      /\ \E a, b \in iters[tool.ref].reviews \ {"claude"} : a # b
                      /\ f \in setup.scope[tool.ref] \ iters[tool.ref].forbidden
    BY DEF Minted
  <2>1. ToolRuns
    <3>1. setup \in Setups /\ KeepOK
      BY <1>1 DEF ConsultInv, StateOK, TypeOK
    <3>2. CASE Keeper
      BY <3>1, <3>2, KeeperFrame
    <3>3. CASE Next
      <4>1. ASSUME NEW s \in Shells, Command(s) \/ Starts(s) PROVE tree' = tree
        BY <4>1, ShellSteps
      <4> QED
        BY <3>3, <4>1, NextSteps
        DEF Prepare, PanelAndHost, MintToken, HostCalls, Commit, SwitchMode, repo
    <3>4. CASE UNCHANGED <<vars, svars>>
      BY <3>4 DEF vars, repo
    <3> QED BY <1>1, <3>2, <3>3, <3>4 DEF SnapshotNext
  <2>2. tool # None /\ f = tool.file
    BY <1>1, <2>1 DEF ToolRuns, ConsultInv, StateOK, TreeOK
  <2>3. tool.ref \in Iterations /\ Approvable(tool.ref, {tool.file})
    BY <1>1, <2>2 DEF ConsultInv, ToolOK
  <2> QED BY <2>2, <2>3, NoneAssumption DEF Approvable, Vetted
<1> QED BY <1>1, ConsultInvariant, PTL DEF SnapshotSpec, EditsWereApproved
\* With one shell, when close takes the design marker away, each file of its
\* scope that is there and differs from its last commit has a token, unless it was edited
\* after the tree was looked at.
THEOREM ClosingHasTokens == SnapshotSpec => ClosedWithTokens
<1> DEFINE Tokened ==
      \A s \in Shells :
       At(s, {"close"}, "unlink") /\ design' # design /\ Cardinality(setup.shells) = 1 =>
         \A f \in design.scope \ gone :
           /\ tree[f] # head[f] \/ ~setup.git
           /\ tree[f] = cmd[s].seen[f]
           => tokens[f] # None
<1>1. ASSUME ConsultInv, [SnapshotNext]_<<vars, svars>> PROVE [Tokened]_vars
  <2> SUFFICES ASSUME NEW s \in Shells, At(s, {"close"}, "unlink"), Cardinality(setup.shells) = 1,
                      NEW f \in design.scope \ gone, tree[f] # head[f] \/ ~setup.git,
                      tree[f] = cmd[s].seen[f]
               PROVE  tokens[f] # None
    OBVIOUS
  <2>1. Active(s) /\ cmd[s].op = "close" /\ cmd[s].at = "unlink"
    BY DEF At, Active
  <2>2. ShellOK(s) /\ CloseOK(s)
    BY <1>1, OneShellIs DEF ConsultInv, OneShellOK
  <2>3. design.scope = cmd[s].scope /\ Missing(s) = {}
    BY <2>1, <2>2 DEF ShellOK, CloseOK
  <2>4. f \in cmd[s].changed
    BY <2>1, <2>2, <2>3 DEF CloseOK
  <2> QED BY <2>3, <2>4 DEF Missing
<1> QED BY <1>1, ConsultInvariant, PTL DEF SnapshotSpec, ClosedWithTokens

\* With one shell and no death or failing unlink, an approval that is taken
\* back takes back the seal it wrote.
THEOREM RollbacksUnseal == SnapshotSpec => RollbackUnseals
<1> DEFINE Unsealed ==
      \A s \in Shells :
       At(s, {"approve"}, "outcome") /\ cmd'[s] = None /\ Undisturbed
         /\ cmd[s].found.outcome # "sealed" => iters'[cmd[s].it].outcome # "sealed"
<1>1. ASSUME ConsultInv, [SnapshotNext]_<<vars, svars>> PROVE [Unsealed]_vars
  <2> SUFFICES ASSUME NEW s \in Shells, At(s, {"approve"}, "outcome"), cmd'[s] = None, Undisturbed,
                      cmd[s].found.outcome # "sealed"
               PROVE  iters'[cmd[s].it].outcome # "sealed"
    OBVIOUS
  <2>1. /\ Active(s) /\ cmd[s].op = "approve" /\ cmd[s].at = "outcome" /\ CmdOK(s) /\ CmdType
        /\ setup \in Setups /\ KeepOK /\ IterType
    BY <1>1 DEF At, Active, ConsultInv, StateOK, TypeOK, IterType
  <2>2. It(s) \in Iterations /\ Exists(It(s)) /\ cmd[s].created
    BY <2>1 DEF CmdOK
  <2>3. ~Keeper /\ ~UNCHANGED <<vars, svars>>
    BY <2>1, KeeperFrame DEF Active, vars, shells
  <2>4. ASSUME NEW t \in Shells, t # s PROVE ~Command(t) /\ ~Starts(t)
    <3>1. cmd[t] = None /\ t \notin setup.shells
      <4>1. OneShell /\ s \in setup.shells
        BY <1>1, <2>1, OneShellIs DEF Undisturbed, ConsultInv, StateOK, TypeOK, Active
      <4>2. t \notin setup.shells
        BY <2>4, <4>1 DEF OneShell
      <4> QED BY <1>1, <4>2 DEF ConsultInv, StateOK, TypeOK
    <3> QED
      BY <3>1 DEF Command, MakeIteration, WriteGoalPacket, WriteReviewPacket, ArmGate, SealOutcome, HashPlan, Mint,
        Revalidate, RollbackMarker, RollbackOutcome, CheckTokens, ClearSession, UnlinkDesign, Dies,
        At, Starts, Close, Abandon, StartConsult, Approve, MintByHand, Begins
  <2>5. ~Starts(s)
    BY <2>1 DEF Active, Starts, Close, Abandon, StartConsult, Approve, MintByHand, Begins
  <2>6. Command(s)
    <3>1. Next
      BY <1>1, <2>3 DEF SnapshotNext
    <3>2. cmd' # cmd
      BY <2>1 DEF Active
    <3> QED
      BY <2>4, <2>5, <3>1, <3>2, NextSteps
      DEF Prepare, PanelAndHost, MintToken, HostCalls, ToolRuns, Commit, SwitchMode, shells
  <2>7. RollbackOutcome(s)
    BY <2>1, <2>6 DEF Command, MakeIteration, WriteGoalPacket, WriteReviewPacket, ArmGate, SealOutcome, HashPlan, Mint,
      Revalidate, RollbackMarker, CheckTokens, ClearSession, UnlinkDesign, Dies, At, Undisturbed
  <2>8. Change(It(s), "outcome", "none")
    BY <2>2, <2>7 DEF RollbackOutcome, CanFail, Undisturbed
  <2>9. iters'[It(s)].outcome = "none"
    BY <2>1, <2>2, <2>8, OutcomeChanges DEF Outcomes
  <2> QED BY <2>9 DEF It
<1> QED BY <1>1, ConsultInvariant, PTL DEF SnapshotSpec, RollbackUnseals

=============================================================================
