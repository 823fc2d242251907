---------------------------- MODULE DispatchBase ----------------------------
(***************************************************************************)
(* What the four reviewer dispatchers share: the CLI they start and the    *)
(* threads that read it, the poll loop with its watchdogs, the review or   *)
(* proposal a text holds, the packet sealed of it and the dispatch log.    *)
(* The dispatchers' own modules say how they differ.                       *)
(***************************************************************************)
EXTENDS Integers, Sequences, FiniteSets

CONSTANTS Setups,   \* the passes: the dispatcher's options, the iteration, the lines one
                    \* invocation prints, and how much goes on around it
          Ids,      \* finding ids
          Patches,  \* the patch proposals a finding may carry
          Allowed,  \* allowed_files of the goal packet
          Pipe,     \* lines the stdout pipe holds
          None

Reviewers == {"codex", "gemini", "grok", "kimi"}

ASSUME DispatchAssumption ==
  /\ Setups \subseteq [reviewer : Reviewers, mode : {"review", "proposal"},
                       policy : {"permissive", "strict"},
                       timeout : Nat, silence : Nat, long : BOOLEAN, lines : Nat,
                       calls : Nat \ {0}, edits : Nat, scans : Nat, snapshots : Nat,
                       iteration : [goal : BOOLEAN, outcome : {"running", "blocked"},
                                    cert : {"none", "quorum_close_passed",
                                            "quorum_close_failed"},
                                    packet : BOOLEAN]]
  /\ Pipe \in Nat \ {0}

VARIABLES
  setup,
  call,     \* dispatches of this pass so far
  pc,       \* where the dispatcher is
  try,      \* invocations of the CLI in this dispatch
  retry,    \* what this invocation is a retry for
  child,    \* the CLI process
  fed,      \* whether it has taken the whole prompt
  wrote, read, \* lines of stdout printed, and taken by the reader thread
  age, quiet,  \* time since the start, and since the last line was taken
  raised,   \* the thread that reads stdout has ended with an exception
  signal,   \* abort-dispatch-<pass_id>.signal exists
  answer,   \* what was parsed: the body, and how its CLI ended
  archived, mirrored, \* the sealed packet, and its copy in the iteration directory
  tree,     \* version of the files under review; the reviewer is shown version 0
  log       \* dispatch-log.jsonl, this pass: <<event, dispatch>>

cli  == <<child, fed, wrote, read, age, quiet, raised>>
kept == <<archived, mirrored>>
main == <<setup, call, pc, try, retry, answer, kept>>
-----------------------------------------------------------------------------
\* What a reviewer's text may hold. A text is JSON, JSON inside a fence or
\* prose, or has no JSON object in it.
Findings  == [severe : BOOLEAN, patch : Patches \cup {None}, reason : BOOLEAN]
Reviews   == UNION {[findings : [F -> Findings], blocking : SUBSET F, satisfied : BOOLEAN] :
                     F \in SUBSET Ids}
Proposals == [abstains : BOOLEAN, target : BOOLEAN, rationale : BOOLEAN]
Bodies    == IF setup.mode = "proposal" THEN Proposals ELSE Reviews
Texts     == [shape : {"json", "wrapped"}, body : Bodies] \cup {[shape |-> "prose", body |-> None]}

\* _extract_json_from_text, of what was taken from stdout.
Extracts(text) == read > 0 /\ text.shape # "prose"

SevereIn(review) == {i \in DOMAIN review.findings : review.findings[i].severe}
Named(review)    == review.blocking = SevereIn(review)
Coherent(review) == ~(review.satisfied /\ review.blocking # {})
Unpatched(review) == \A i \in DOMAIN review.findings : review.findings[i].patch = None

SoundProposal(p) == p.rationale /\ (~p.abstains => p.target)

\* _validate_patch_proposal.
ShapeOfPatch(patch) ==
  /\ patch.format = "unified" /\ patch.files # {} /\ patch.applies # {}
  /\ patch.body \subseteq patch.files
RefersTo(patch, id, ids) == patch.id = id /\ patch.applies \subseteq ids
InScope(patch) == patch.files \cup patch.body \subseteq Allowed
PatchOfAnyScope(patch, id, ids) == ShapeOfPatch(patch) /\ RefersTo(patch, id, ids)
ValidPatch(patch, id, ids) ==
  ShapeOfPatch(patch) /\ RefersTo(patch, id, ids) /\ InScope(patch)

\* _compute_per_patch_base_sha hashes the files as they are now.
BaseOfPatch == tree

Packets == [findings : UNION {[F -> Findings] : F \in SUBSET Ids}, blocking : SUBSET Ids,
            satisfied : BOOLEAN, base : Nat \cup {None}]
ASSUME NoneAssumption ==
  None \notin Packets /\ None \notin {"parse", "cancel", "empty", "invocation"}

\* _build_sealed_packet: a proposal has no findings and nothing that blocks.
PacketOf(body) ==
  IF setup.mode = "proposal"
  THEN [findings |-> <<>>, blocking |-> {}, satisfied |-> ~body.abstains, base |-> None]
  ELSE [findings |-> body.findings, blocking |-> body.blocking, satisfied |-> body.satisfied,
        base |-> IF Unpatched(body) THEN None ELSE answer.base]
-----------------------------------------------------------------------------
Entry(event, n) == [event |-> event, call |-> n]
Events(names, n) == [i \in DOMAIN names |-> Entry(names[i], n)]
Logged(names) == log' = log \o Events(names, call')

\* main's own checks, which end the call before the CLI is started.
Stop(names) == /\ Logged(names) /\ pc' = "idle" /\ UNCHANGED <<try, retry>>
Go == /\ Logged(<<"dispatch_start">>) /\ pc' = "preparing" /\ try' = 0 /\ retry' = None
Begin(outcome) ==
  /\ pc = "idle" /\ call < setup.calls
  /\ call' = call + 1 /\ outcome
  /\ UNCHANGED <<setup, answer, kept, cli, signal, tree>>

\* main returns, and its own variables are gone.
Returns == pc' = "idle" /\ try' = 0 /\ retry' = None /\ answer' = None
\* An exception main catches: dispatch_failed, after what was logged before.
Failed(names) ==
  /\ log' = log \o Events(Append(names, "dispatch_failed"), call)
  /\ Returns /\ UNCHANGED <<setup, call, kept>>
\* The one more invocation a retry wrapper makes.
Again(names, why) ==
  /\ log' = log \o Events(names, call)
  /\ pc' = "spawning" /\ retry' = why
  /\ UNCHANGED <<setup, call, try, answer, kept>>
Quietly == UNCHANGED <<cli, signal, tree>>

\* The packets and templates are read and the prompt is built of them.
Prepare(next) ==
  /\ pc = "preparing" /\ Quietly
  /\ \/ pc' = next /\ UNCHANGED <<setup, call, try, retry, answer, kept, log>>
     \/ Failed(<<>>)

\* Popen. In-line transports write the prompt before the threads are started.
Spawn(inline) ==
  /\ pc = "spawning"
  /\ try' = try + 1 /\ child' = "running"
  /\ fed' = ~setup.long /\ wrote' = 0 /\ read' = 0 /\ age' = 0 /\ quiet' = 0 /\ raised' = FALSE
  /\ pc' = IF inline /\ setup.long THEN "feeding" ELSE "polling"
  /\ UNCHANGED <<setup, call, retry, answer, kept, signal, tree, log>>
Unspawned == pc = "spawning" /\ Quietly

\* proc.stdin.write returns when the prompt is taken or the pipe is broken.
Feed ==
  /\ pc = "feeding" /\ (fed \/ child # "running")
  /\ pc' = "polling" /\ age' = 0 /\ quiet' = 0
  /\ UNCHANGED <<setup, call, try, retry, answer, kept, child, fed, wrote, read, raised,
                 signal, tree, log>>
-----------------------------------------------------------------------------
\* proc.poll() at the head of the loop; what follows acts on what it saw.
Poll ==
  /\ pc = "polling"
  /\ pc' = IF child = "running" THEN "checking" ELSE "draining"
  /\ UNCHANGED <<setup, call, try, retry, answer, kept, cli, signal, tree, log>>

LeaveRunning == child' = child
\* _terminate_process_tree does nothing to a process that has ended.
Terminate == child' = IF child = "running" THEN "killed" ELSE child

Stuck(first) ==
  LET threshold == IF read > 0 THEN setup.silence ELSE first
  IN  threshold > 0 /\ quiet >= threshold
OverdueBeforeOutput ==
  setup.timeout > 0 /\ read = 0 /\ age >= setup.timeout + setup.silence
Overdue == setup.timeout > 0 /\ age >= setup.timeout + setup.silence

Aborted(heard) ==
  /\ pc = "checking" /\ heard
  /\ Terminate /\ signal' = FALSE
  /\ UNCHANGED <<fed, wrote, read, age, quiet, raised, tree>>
TimedOut(heard, first) ==
  /\ pc = "checking" /\ ~heard /\ (Stuck(first) \/ Overdue)
  /\ Terminate
  /\ UNCHANGED <<fed, wrote, read, age, quiet, raised, signal, tree>>
Continue(heard, first) ==
  /\ pc = "checking" /\ ~heard /\ ~Stuck(first) /\ ~Overdue
  /\ pc' = "polling"
  /\ UNCHANGED <<setup, call, try, retry, answer, kept, cli, signal, tree, log>>

\* The readers are joined for five seconds. The join fails while a descendant
\* keeps the pipe open; it succeeds when every line was taken, and when the
\* thread has raised, with what it left in the pipe.
DrainedOrNot == pc = "draining" /\ Quietly
Drained   == pc = "draining" /\ (read = wrote \/ raised) /\ Quietly
Undrained == pc = "draining" /\ Quietly
Exited(code) == Drained /\ child = code

\* The answer is parsed, and a patch in it is stamped with its base.
Returned(text, next) ==
  /\ answer' = [body |-> text.body, base |-> BaseOfPatch, exit |-> child,
                missed |-> wrote - read, marked |-> raised]
  /\ pc' = next /\ UNCHANGED <<setup, call, try, retry, kept, log>>
-----------------------------------------------------------------------------
\* T6 keeps one packet per pass id; another one under that id is an error.
SealAnswer ==
  /\ pc = "sealing" /\ Quietly
  /\ LET packet == PacketOf(answer.body)
     IN  \/ /\ archived \in {None, packet} /\ archived' = packet
            /\ pc' = "mirroring" /\ UNCHANGED <<setup, call, try, retry, answer, mirrored, log>>
         \/ archived \notin {None, packet} /\ Failed(<<>>)
CopyOrNot ==
  /\ pc = "mirroring" /\ Quietly /\ pc' = "logging"
  /\ mirrored' \in {mirrored, archived}
  /\ UNCHANGED <<setup, call, try, retry, answer, archived, log>>
\* The local copy is written, or shutil.copyfile raises.
CopyMirror ==
  /\ pc = "mirroring" /\ Quietly
  /\ \/ /\ mirrored' = archived /\ pc' = "logging"
        /\ UNCHANGED <<setup, call, try, retry, answer, archived, log>>
     \/ Failed(<<>>)
Done ==
  /\ pc = "logging" /\ Quietly
  /\ log' = Append(log, Entry("dispatch_done", call))
  /\ Returns /\ UNCHANGED <<setup, call, kept>>
-----------------------------------------------------------------------------
\* The CLI, as the dispatchers use it: it may print before it has read its
\* prompt, blocks on a full pipe, exits at any time or never.
TakesPrompt ==
  /\ child = "running" /\ ~fed /\ fed' = TRUE
  /\ UNCHANGED <<child, wrote, read, age, quiet, raised>>
Prints ==
  /\ child = "running" /\ wrote < setup.lines /\ wrote - read < Pipe
  /\ wrote' = wrote + 1 /\ UNCHANGED <<child, fed, read, age, quiet, raised>>
Exits ==
  /\ child = "running"
  /\ child' \in {"zero", "failed", "tempfail"}
  /\ UNCHANGED <<fed, wrote, read, age, quiet, raised>>

\* The stdout reader thread, started after an in-line prompt was written.
TakesLine ==
  /\ pc \in {"polling", "checking", "draining"} /\ ~raised /\ read < wrote
  /\ read' = read + 1 /\ quiet' = 0
  /\ UNCHANGED <<child, fed, wrote, age, raised>>
\* readline fails, or the line just taken cannot be appended to the log:
\* record_reader_error leaves a marker in the captured output, and the thread
\* ends. Nothing looks at it before the join.
ReaderRaises ==
  /\ pc \in {"polling", "checking", "draining"} /\ ~raised /\ raised' = TRUE
  /\ UNCHANGED <<child, fed, wrote, read, age, quiet>>

\* time.time(), watched while the dispatcher polls.
Tick ==
  LET end == setup.timeout + setup.silence
  IN  /\ pc \in {"polling", "checking"} /\ (age < end \/ quiet < end)
      /\ age' = IF age < end THEN age + 1 ELSE age
      /\ quiet' = IF quiet < end THEN quiet + 1 ELSE quiet
      /\ UNCHANGED <<child, fed, wrote, read, raised>>
=============================================================================
