# TLA+ models of consensus-mcp

consensus-mcp lets several coding models review, propose and build under rules
that no single one of them can bend: answers are sealed, a panel has to
converge, a human approves what is built, and what is delivered has to be the
very commit that was verified and reviewed. Almost all of its state is files in
a repository, read and written by short-lived processes, by threads of one
process, and by people. This directory models those protocols in TLA+, checks
them with TLC, and proves the central invariants with TLAPS.

Source paths below are relative to `src/consensus_mcp/`.

## 1. The system

### Components

| Part | State it keeps | Operations | What makes it correct |
|---|---|---|---|
| **Architect-build loop** (`tools/architect_loop_step.py`, `_architect_paths.py`) | one directory per goal: spec, approval, cycle-N artifacts (build, verification, review, ruling), in-flight lock, breach record, baseline, outcome, handoff | `architect.loop_step`, called again and again by a host | one dispatch at a time; only an approved spec is built; a RED build never reaches review; delivery is one verified and reviewed commit; edited artifacts are not acted on |
| **Architect gates** (`tools/architect_gates.py`) | spec-approval.yaml and its archive | `approve_spec`, `cleanup` | approvals do not change under a running builder; the base is carried |
| **Lanes** (`_architect_lane.py`) | a git worktree and branch per goal | create, commit, scan, remove, snapshots | nothing outside the lane changes |
| **Builder dispatch** (`_dispatch_builder.py`) | a child process | run, time out, parse | a result, a pushback or an error, never none |
| **Panel engine** (`workflow_engine.py`, `tools/consensus_run_iteration.py`, `contributors/*`) | one iteration directory: config, packets per round, converged plan | `consensus.run_iteration`: propose-converge, post-review, advisory | the verdict follows from sealed votes and the configured rule; it ends |
| **Review archive** (`tools/review_write_and_seal.py`) | `archive/review-passes/*.yaml`, `index.yaml` | seal | one content per pass, never rewritten |
| **Audit log** (`tools/audit_append_event.py`) | `independence-audit.yaml` per iteration | append | nothing that happened is missing; closing is guarded |
| **Iteration closure** (`_closure_invariant.py`) | a certificate | evaluate | the last mutation has a fresh verdict of another family |
| **Patches** (`tools/loop_verify_codex_patch.py`, `tools/apply_codex_patch.py`, `tools/patch_*.py`, `tools/repo_set_section.py`) | verdicts by patch id, working tree | verify, apply, roll back, set a section | all of a verified patch or none of it, in scope and in the log |
| **Goal loop** (`tools/loop_run_goal.py`, `_self_drive.py`) | none: the state is read off the iteration's files at each call | state, stop rules, next action | nothing is closed over a patch that was sent back |
| **Consult life cycle** (`_start_consult.py`, `_approve_consult.py`, `_seal_iteration.py`, `_session_state.py`, `_design_approval.py`) | session marker, design-approved marker, outcome | start, approve, seal, close, abandon | edits only under a live, approved scope |
| **Delivery gate and hooks** (`_delivery_readiness.py`, `_deliver.py`, `claude_extensions/hooks/*`) | delivery tokens | mint, check | what is delivered is what was vetted |
| **Reviewer dispatchers** (`_dispatch_base.py`, `_dispatch_{codex,gemini,grok,kimi}.py`, `_visibility_watchdog.py`) | a CLI process, the dispatch log, the packet and its copy | dispatch, retry, abort, mark as stalled | each dispatch has one end; what is sealed is a whole answer and a sound verdict |
| **Resume** (`_resume.py`) | none: a snapshot of the iteration's files | what is in flight, what to do next | a snapshot without drift is of one moment |
| **Snapshot and restore** (`_snapshot_state.py`) | a git branch and its tags, with copies of `consensus-state` | snapshot, restore | a restore loses nothing unsaved and mixes nothing |
| **Decision ledger** (`tools/state_update_decision_ledger.py`) | one YAML file | validated update | only valid ledgers are written |
| Configuration, validators, release gate, results, server, front ends | - | mostly pure functions or output | see `PROJECT.json` |

### How they interact

The server maps an MCP call to a handler and serialises nothing, so two calls
on one directory interleave at every file operation. Inside `run_iteration` the
engine runs one thread per contributor; these meet in the archive's index and in
the audit log. The architect loop keeps processes apart by one lock file created
with O_EXCL; models, humans and other goals write beside it without a lock.
Nothing is ever undone by a process that dies: the next call derives from the
files where it stands. Hence the hard parts: a read and the write that relies on
it with somebody else in between, a death between two writes that belong
together, a late or repeated answer, and artifacts edited by hand.
`PROJECT.json` lists these places under `hazards`, each with its line.

## 2. Modules

| Module | What it is |
|---|---|
| `ArchitectGoal` | the files of one goal, its lane and main repository as variables, and everything the supervisor reads off them: the routing cascade of `handle` (`Route`), its stop rules, the cascade for presentation (`PublicState`) |
| `LoopStep` | `architect.loop_step`: one action per branch and per wait, dispatch and verification with their lock, snapshots and breaches; `Crash` |
| `GoalActors` | architect, reviewer, the human running `approve_spec` in its separate writes and `cleanup`, operator, other goals, edits of sealed artifacts |
| `ArchitectLoop` | the composition: `Init`, `Next`, three specifications that differ in fairness, the inductive invariant, the properties |
| `ArchitectLoop_proofs` | TLAPS proofs about it |
| `ArchitectAnswers_proofs` | TLAPS proofs about what a call acts on and what it answers |
| `Convergence` | `_evaluate_convergence` as operators on votes |
| `Convergence_proofs` | what each rule guarantees, for every panel |
| `ReviewArchive` | `review.write_and_seal` file operation by file operation, with the audit append and the local copy, run by any number of threads |
| `SealedPasses` | the abstract archive: a pass is sealed once and stays |
| `PanelEngine` | `WorkflowEngine` and `run_iteration` over those threads: rounds, packets, plan, repeated calls, crashes; refinement of `SealedPasses` |
| `PanelEngine_proofs` | TLAPS proofs about the panel and the archive, the refinement of `SealedPasses` among them |
| `DispatchBase` | what the reviewer dispatchers share: the CLI and its two pipes, the reader thread, the watchdogs, what a text may hold and what is sealed of it |
| `CodexDispatch`, `GeminiDispatch`, `GrokDispatch`, `KimiDispatch` | how each differs: where the answer is, who writes the prompt, what is asked again, Kimi's disposable copy and its comparison of git states |
| `ReviewerDispatch` | one pass: its dispatcher, called again after a failure or a death, next to edits, aborts and the stall watchdog |
| `Resume` | `consensus.resume` taken file by file next to that dispatch |
| `ReviewerDispatch_proofs` | TLAPS proofs about the dispatchers, the watchdog and the snapshot of `Resume` |
| `AuditLog` | the log of an iteration and what is decided from it: closure invariant, certificate, scanner |
| `PatchTools` | the tools that change files: patch verification and application, consensus patch, section, ledger, closing |
| `GoalLoop` | `loop.run_goal` with its stop rules over those, next to reviewers, people and a server that dies |
| `GoalLoop_proofs` | TLAPS proofs about the tools, the log and the closing |
| `DesignApproval` | what a consult leaves on disk, the PreToolUse hook that judges by it, the delivery tokens |
| `Consult` | start, approve, prepare, mint, close, abandon: write by write, by several shells, with failing writes and deaths |
| `Snapshots` | snapshot and restore of the same files by the operator |
| `Consult_proofs`, `Snapshots_proofs` | TLAPS proofs about the consult next to the operator, and about his restores |
| `MCArchitectLoop`, `MCPanelEngine`, `MCReviewerDispatch`, `MCGoalLoop`, `MCConsult` | symmetry, and the sets of configurations, for TLC |

### The architect loop and its code

A call of `loop_step` reads what it routes on in one atomic step (`Routed`);
everything after that is separate: `StartBuild` (routed to a build), `LockBuild`
(O_EXCL create, lane, integrity file, snapshots), `BuilderWrites`,
`BuilderReturns`/`BuilderFails`/`BuildBreach` (the lock is unlinked *before* the
lane is committed, as in the code), `CommitLane`/`ScanBreach`, `MainUnchanged`/
`MainBreach`, `SealBuild`, `WriteHandoff`. The gate is `StartVerification`,
`LockVerification`, `SealVerification`/`VerificationBreach`, `SealRevise`; here
the lock is held until the handoff is written. `ResealRevise` is the resumption
after a death between the two seals. `CallFails` is every exit by an exception,
from whichever wait: a `LaneError`, a commit or a seal that fails; it unlinks the
lock where the call has it. An absent file is `None`; artifacts keep
the fields the supervisor compares. `drift` records what has changed since a
call took its snapshot, in place of hashes. `fresh` abstracts the comparison of
the times of two seals, equal seconds included. Specs and commits are numbered in
order of appearance, which is all that the comparison of hashes tells apart.

### The panel and its code

`phase` and `round` are where the engine is; `at[c]` where the thread of
contributor `c` is between two file operations of `write_and_seal`. `read[c]`
is the copy of `index.yaml`, later of the audit log, that the thread writes
back. A packet is its pass id, its vote and a nonce that stands for the rest of
its content: a model never gives the same answer twice, whereas the
orchestrator's answer is fixed for a call (`_build_claude_callback`) and has the
same content each round. `Pass` knows which adapters number rounds in their ids
and `MirrorName` which keep one local copy for all phases. The calendar day is
part of an archive file's name and so of the state. `Crash` is the death of the
process: the threads and all call-local state go, the files stay, including a
stale `index.yaml.tmp`.

### The dispatchers and their code

`setup` is a dispatcher's command line with what goes on around it. `pc` names
the wait the dispatcher is at, and an action is what it does up to the next one:
`preparing` (packets and templates), for Kimi `snapshotting` and `copying`,
`spawning`, `feeding` (only where the main thread writes the prompt to stdin),
`polling`, `checking` and `draining` (the reader threads are joined, with a
deadline), for Kimi `comparing`, then `sealing`, `mirroring`, `logging`. The CLI
takes its prompt, prints lines into a pipe of `Pipe` lines and exits or hangs;
a reader thread empties the pipe, each line restarts `quiet`, and it may raise at
any line (`ReaderRaises`), after which nothing is read and the join succeeds. Time is
counted in ticks up to the two limits. A text that was printed is JSON, JSON in
a wrapping, or prose; its body ranges over every review on one finding and every
proposal, well-formed or not. `answer` keeps with the body how its CLI ended and
what was not read, which no check of the code compares; that is what
`AnswerIsWhole` is about, and `marked` is the line that a reader that raised
leaves in the captured output. `log` is the dispatch log of the pass. `tree` and
`head` are versions of the files under review, in place of their contents.

`Resume` reads log, reviews and iteration in one action each, then compares the
modification times it had taken before.

### The goal loop and its code

`files` and `head` hold a content per file: a hand edit, a patch, a section
edit. A hash over files is the function that gives their contents. `tool` is the
tool call in progress, with what it has read, since a tool checks before it
writes and logs after; `ToolStep` are the steps between, `Call` their begin.
`hurt` records the patches whose call died, could not be rolled back or not be
logged, or whose rollback came after a commit had caught part of them: the log
cannot know of these. A certificate keeps the mutation and the
verdict it names; the file holds their ids. `reviews[w].saw` is the tree its
reviewer looked at, which the code does not have either: `VerdictSawMutation`
says that the rules on families and times amount to it. A review is written in
one of the forms of `Forms`: counted for the gate or not, with an actor id or
not, and written directly or sealed by `review.write_and_seal`, which adds
`sealed_at_utc` and `packet_sha256`. The closing check reads neither of these
two and the scanner prefers them (`Scanned`). `State` and
`NextAction` derive what `run_goal` answers; it writes nothing.

### The consult and its code

`iters` are the iteration directories, `session` and `design` the two markers.
`cmd[s]` is the command a shell is in: `at` is the write it does next, and the
rest is what it has read and what its roll-back will use. A command is refused
in its first action when the code refuses it before its first write. `tool` is a
host's tool call between the hook's answer and the edit. `tree`, `head` count the
edits of a file, and a token holds the version it was made for; `gone` are the
files that are not there, which only a Bash command removes here and neither a
token nor `close` looks for (`ChangedIn`). The hook lets everything pass when it
raises (`HookFails`); such an edit is not `gated`. `Snapshots` adds
the operator: `keep.stage` is the step of `snapshot` or `restore`, `snapshots`
the tagged commits with the files of each and the commits its log reaches,
`branch` where the branch is. `keep.seen`, `keep.at` and `keep.calm` only serve
the property: what the restore found, what it left, and whether anybody else
wrote meanwhile.

## 3. What is checked

| Run | Specification | Properties | What it shows |
|---|---|---|---|
| `solo` | one caller, crashes, 2 specs, 2 cycles, a moving main, any artifact edited | `TypeOK`, `DispatchedSpecIsApproved`, `ReviewedIsGreen`, `PublicStateMirrorsOpen`, `DeliveryIsEarned`, `TamperedNeverActedOn` | what is dispatched was approved; what is reviewed passed the gate; delivery is one commit throughout; the presented state is the routed one as long as no ruling is sealed; no call goes on with an edited artifact it uses |
| `pair` | two callers that are not killed, no operator | `IInv`, `LaneMutex`, `LockIsReleased` | the lock is a mutex; the invariant of the proofs holds; each way out of a dispatch gives the lock back |
| `cycles` | one caller, 4 cycles, 2 signatures, operator | `NoFourthSameRed`, `RedIsRevised` | after three RED cycles in a row with one signature nothing later is built; every RED gets its revise |
| `panel` | orchestrator and a model in parallel, 2 calls, 2 rounds, 3 configurations | `TypeOK`, `VotesAreSealed`, `PlanIsBacked`, `PacketsAreImmutable` | a plan counts sealed votes only, nobody is overruled, packets stay |
| `panel_serial` | one worker, 2 days, 2 calls | `SerialArchive`, `RunEnds` | asked one by one, the archive implements `SealedPasses`; calls end |
| `dispatch` | each dispatcher in each mode, called again, with retries, aborts, deaths, edits, the watchdog and a resume snapshot | `TypeOK`, `AnswerIsWhole`, `VerdictIsSound`, `LogIsTrue`, `NothingLeft`, `KimiSawThisTree`, `MarkedOnce`, `SnapshotIsWhole`, `DispatchEnds` | what is sealed is a sound verdict and a whole answer, unless its reader raised; the log agrees with the archive and has one stall mark at most; nothing is left running; dispatches end |
| `goal_loop` | patches of one and two files under an id that is reviewed again, sections, documents, the ledger, closings; edits, commits, reviews of four forms, a death | `TypeOK`, `LandedIsLogged`, `ScopeHolds`, `VerdictSawMutation`, `ScanAgrees`, `NoCloseOverCorrection`, `OverwritesOnlyReviewed` | what lands is in scope, logged, and over nothing older that its author had not seen; a closing rests on a verdict on what landed, which the scanner confirms unless, and never if, it was sealed by the tool |
| `consult` | two consults of one or two shells, failing writes, deaths, a hook that raises, files that are removed, a changing plan, panel and mode, an operator who saves and restores | `TypeOK`, `MarkersAgree`, `MarkerIsBacked`, `EditsWereApproved`, `ClosedWithTokens`, `RollbackUnseals`, `RestoreIsFaithful` | markers name a sealed consult; edits stay in what was reviewed; closing asks for a token of every changed file that is there; a restore loses and mixes nothing |

Four runs check what a document or comment says and the code does not do; TLC's
trace is the argument. They are listed with the quotation under `findings`.

| Run | Statement violated | Trace in short |
|---|---|---|
| `red_delivery` | a RED build can never fall through; delivery is accept and green | a second caller, routed before the cycle was accepted, verifies again, finds RED, and dies before the revise; the RED branch only looks at cycles without ruling |
| `concurrent_seal` | concurrency changes wall-clock, not outcomes | two threads write back an index that lacks the other's entry |
| `rollback` | a failed approve leaves the repo exactly as it was found | the outcome is sealed, then the plan does not parse: that exception is outside the roll-back, and the iteration stays sealed |
| `reader_lost` | the crash of a reader thread surfaces where diagnosis looks | the stdout reader raises after one line, the CLI prints another and exits zero: what was read is parsed, sealed and logged as done |

### Bounds

`MaxSpecs`, `MaxHeads`, `MaxMain`, `MaxCorrupt`, `MaxCycles` bound the architect
loop; `MaxDays`, `MaxRounds`, `MaxRuns` the panel. All are guards of the actions
that count, and named in the modules. `MaxCycles` and `MaxRounds` exist in the
code as well (`architect_loop.max_cycles`, `workflow.max_convergence_rounds`).
They are enough for the cases at stake: two specs for one revision and one
re-approval; two cycles for "the ruling before"; four for the signature rule,
whose window is three; two heads for a build that is not the one reviewed; two
callers for every race found by reading, all of which are pairwise; one edited
artifact at a time, followed only where nothing else moves (the constraint
`MCQuietEdits`); the proof of `TamperedNeverActedOn` has no such bound. For the panel, two contributors are the
fewest that meet in the index, one with each kind of adapter: the fixed answer
and round-less id of the orchestrator, and a model with a new answer each time;
`panel_serial` makes it a round-less profile. Two rounds and two calls reach
every reuse of a pass id. Two days are needed only for the crash between packet
and index and are in `panel_serial`, where the seals are serial; `panel` has one
day, and the three configurations cover the three rule families, with each
timeout policy once. What the instances leave out is covered where it matters
most by the proofs, which hold for any bounds.

The modules of the other parts have a `Setups` constant: each of its records is
one situation, with how often each thing may happen in it, so that one run goes
over many small situations in place of one large one. `MCReviewerDispatch` has
one for each dispatcher and mode, and one for each boundary: a prompt longer
than the pipe, no timeout, a second call, an edit during Kimi's review, and three
iterations for the resume snapshot. One or two lines of output (`lines`; two where
a reader raises after the first) and a pipe of one line (`Pipe`) are enough for output that was printed and not read, and for
a CLI that blocks on the pipe; one finding id, with a patch for each rule a patch can break,
for the rules on findings, which compare each with the list of those that block.
`MCGoalLoop` has patches of one and of two files, the fewest that can land by
half, and a third that shares its id with the first and is out of scope; two
reviews and one more content per file let a review be replaced while its patch
is verified. Reviews are of all four forms where one edit meets a closing
(`Edited`), and plain or sealed where three reviews and two seconds do
(`Closing`). `MCConsult` has two iterations, for a consult next to an older one,
two files, so that a scope is not the whole, and two plans, so that one may
replace the approved one (`MaxPlans`). At least three commands and one edit take
a consult from start to close; two shells interleave every pair of commands.
`restores` is two: what an operator saves, somebody writes over and the operator
restores is two commands.

`RedIsRevised` is checked with one spec and a main that does not move: a goal
whose approval is withdrawn or whose base moved is stopped, by design, and its
RED build stays as it is.

The deadlock check is off where calls are counted and the model may stop when
all have been made: the panel runs (`RunEnds` says that it stops only between
calls), `dispatch` (`DispatchEnds` says the same of a dispatch), `goal_loop`, `consult`,
and the runs about single statements of these parts.

### Fairness

- `CallsGoOn`: weak fairness of the steps of a call. The builder and the
  verification command run under timeouts, after which their process tree is
  killed, so neither wait is unbounded. The hosts, humans and the builder's
  writes have no fairness at all.
- `FairSpec` of the loop adds weak fairness of `RemoveStaleLock`: after a crash
  the lock stays until the operator acts on `stale_dispatch_in_flight`, as
  documented. Only `RedIsRevised` needs it, and only because its run kills calls.
- `AloneSpec` has neither crashes nor operator: `LockIsReleased` is about the
  code's own ways out. Crashes of two callers are in `red_delivery`, those of one
  in `solo` and `cycles`; the proof of `LaneMutex` covers any number of callers
  with crashes.
- `FairSpec` of the panel: weak fairness of the engine and of each thread. A
  dispatch is ended by its watchdogs at the latest (silence, wall clock), and
  then has answered or failed; what follows is straight-line code.
- `Spec` of the dispatchers is what that rests on: weak fairness of a dispatcher
  that is not idle, of its reader thread and of time, and none of the CLI, which
  may hang at any point. `DispatchEnds` leaves out two cases that the code does
  not end by itself: a timeout of 0, which switches the hard ceiling off, and a prompt
  longer than the pipe that the main thread of codex and Kimi writes before any
  watchdog runs.
- The goal loop and the consult have no fairness: a client calls tools and a
  human types commands, or not.

## 4. What is proved

All theorems hold for every value of the constants that meets the named
assumptions, so for any number of callers, contributors, rounds, calls, specs,
shells, files, patches, edits and lines of output, and any set of situations
(`Setups`). Every invariant, action property and refinement that a passing run
checks is stated by a theorem. Four theorems on the architect loop have one
caller as their hypothesis (`OneCaller`), because their properties are false for
two. The listed theorems rest on about 250 lemmas, many of them about one action each.

The assumptions on the constants are of three kinds. Sets that have a size in
the code are finite (`Contributors`, `Shells`) and bounds are numbers. `None`,
which stands for an absent file or field, is none of the values that may be
there (`NoneAssumption`, `ReviewAssumption`); `FamilyAssumption` says that a
family is not called like a file of an iteration. The only one with content is
`FamilyFloor`: one of the roles of the architect loop is of another family than
its counterpart, which the program checks when it reads the configuration.

**Architect loop, the lock and the approval.** `Inductive` proves `IInv`, from
which `TypeCorrect`, `MutualExclusion` (`LaneMutex`) and `OnlyApprovedSpecs`
(`DispatchedSpecIsApproved`) follow. None of the three is inductive by itself.
`LaneMutex` needs `LockOwner`, that the lock file names the call at work, so that
a second create fails; it survives a crash, since the call leaves the `Locked`
places while its file stays, and the operator, who only removes the lock of a
call that is not there. `OnlyApprovedSpecs` needs `ApprovalOK`: not only what a
call has read but also the approval on disk is of an approved spec. `TypeOK`
needs that a job carries what its next step reads (`JobOK`), that an answer
names its cycle (`AnswerOK`), and that uncommitted work fits the bound
(`RoomOK`).

**Architect loop, what it acts on and answers.** For any number of callers
`AnyInv` adds to `IInv` that nothing is verified where no gate is configured
and that a call at rest holds no job. `EditedIsNotActedOn`
(`TamperedNeverActedOn`) and `PresentedIsRouted` (`PublicStateMirrorsOpen`) then
follow from the routing alone: it is one atomic look at the goal.
`OnlyGreenIsReviewed` (`ReviewedIsGreen`), `ThreeEqualRedsStop`
(`NoFourthSameRed`) and `OneCommitIsDelivered` (`DeliveryIsEarned`) are about
several calls and need `SoleInv`: what a call was routed on is still so when it
seals (`JobDue`), an answer is still true when a host acts on it (`AnswerDue`),
an intact accept is of work that earned it (`RulingOK`), and the commit verified
is no older than the one built (`HeadsOK`), so that a lane still at the commit
reviewed is at the commit verified. `NoFourthSameRed` is stated from the sealed
verifications and builds and not with the stop rule's own window; that the
window is the one the statement needs rests on cycles being built in order, and
judged only when built (`ChainOK`, `BuiltOK`). All of it comes from one fact, that a build
and a verification are sealed once. A second caller breaks it: it may have been
routed to the same verification, seals another result, and what the first one
answered is false. `red_delivery` is such a run.

**Convergence.** `ObjectionVetoes`, `SilenceVetoes`, `UnanimousIsUnanimous`,
`SomebodyIsFor` and `MajoritiesMeet` say what each rule and policy guarantees for
a panel of any size. They are about the arithmetic of thresholds and rest on
the library's facts about cardinalities.

**Panel.** `PlansAreBacked` follows from the convergence theorems and the
invariant `Counting`. `VotesInArchive` and `PacketsStay` rest on `ArchiveInv`:
the packet a thread holds is in its own contributor's name (`Shape`), the entry
a thread has read names the file it will write (`Named`), nobody else writes
that name and it is free until then (`Free`), and from then on the packet is
there (`Filed`). They hold although the index and the audit log lose entries,
because a pass id contains the contributor and a contributor has one thread.
`PanelTypes` adds that a thread at work has what its next file operation reads.
`SerialArchiveKeepsItsPromise` is the refinement of `SealedPasses`, step by step:
with one worker (`Serial`) one thread is between two file operations, so the
index it writes back is the one on disk and its own pass, whose packet is filed.
Replacing the index is then the abstract `Seal`, everything else a stutter,
also the crash, after which the next thread starts from the index again.

**Dispatchers and resume.** `DispatchInv` says what each wait may rely on: a
CLI runs only while somebody waits for it (`ChildOK`); how often it was invoked
follows from what the retry is for (`RetryOK`), without which the count has no
bound; an answer past the checks is of a CLI that exited zero, is whole or marked
by a reader that raised, and its packet is sound (`AnswerOK`); the
copy is of the one packet in the archive (`KeptOK`); a disposable copy belongs
to the dispatch that runs or to one that died (`CopiesOK`); and a dispatch that
runs has no outcome yet, an earlier one that started has one or died
(`LogOK`). `StartsAreMarkedOnce` is about the log and needs `MarksOK`: what a
watchdog has found is still unmarked when it appends, whatever else was logged
since. `KimiSealsWhatItSaw` needs `BeforeOK` beside it: what Kimi compares
with is no newer than what its copy shows, so that equal means unchanged. The
four dispatchers differ in few steps, so that most steps are proved once, by the
forms they have (what may end a call, refuse it or ask again). For
`SnapshotsAreWhole`, `SnapOK` says that what a resume has read is a beginning of
the log and the review of then: both only grow, so that unchanged times at the
end mean that nothing is missing.

**Goal loop.** `GoalInv` has the tools' own knowledge (`ToolOK`: a staged patch is
in scope and its files were as its author had seen them), the certificate
(`Backed`) and three facts that none of the properties mentions. `LogOK` says that
the log has a newest mutation: the invariant carries it from append to append,
since that a log has one at all is an induction over its length. `InScope` is about the
commit as well as the tree, since a discarded edit brings the commit back.
`Accounted` covers, besides both, what a rollback would put back, since a file
that a patch finds may hold another one's content. This proof changed the
model: the history of mishaps left out a patch that is committed while it is being
applied and then rolled back, and `LandedIsLogged` did not hold of it; the trace
needs a commit between two files of a patch, a second file that cannot be
written, and a checkout after the rollback, more than the instance allowed. In
the code that commit keeps half a patch that no event names (section 5).
`ScansAgree` says when scanner and closing check, which are written twice, agree
on any log about a certificate: exactly when its review did not go through
`review.write_and_seal` (section 5).

**Consult and snapshots.** `ConsultInv` says of each command what it relies on at
each of its writes (`CmdOK`, `CloseOK`). With many shells that is little: what an
iteration has gained it keeps, whoever writes, so a plan that was found
approvable is so at every later write, and so is the marker that names it
(`MarkerOK`) and the edit let through under it (`ToolOK`). This gives
`GatedEditsWereApproved` for any number of shells and with every command able to
fail or die anywhere; markers minted by hand and restores are the ways round it and
are excluded by the property. `MarkersAreOne`, `MarkersAreBacked`,
`ClosingHasTokens` and `RollbacksUnseal` are for one shell (`OneShellOK`): its
command may then rely on a marker it has found or written. Two shells break
them (section 5). `RestoresAreFaithful` needs an invariant only about what the
restore holds (`RestoreOK`): what it found is in a tagged snapshot before
anything is removed (`SafeOK`), and what is put back with what is still to come
is the snapshot (`FillOK`). Others may break the tree, not this; `calm` is false then.

**Not proved, only model-checked.** The four liveness properties `RedIsRevised`,
`LockIsReleased`, `RunEnds` and `DispatchEnds`: fairness and `ENABLED` are beyond
the prover. The runs check them on their instances.

## 5. Observations without a run of their own

These came up while modelling. Each is visible in the models or the code.

Architect loop:

- Routing reads seven files one after the other, and so may combine states of two
  moments; the model reads them in one step (`tools/architect_loop_step.py:804`).
- `approve_spec` looks for the lock and then replaces the approval; a caller
  that has routed and not yet locked starts a build under one approval that
  completes under another (`tools/architect_gates.py:113-115`, `ApproveArchive`).
- Two callers that route on the same missing build lock one after the other, and
  the second dispatches a builder into a lane whose build is sealed
  (`tools/architect_loop_step.py:477`; `docs/workflows/architect-build.md:121`
  says that concurrent steps never dispatch twice).
- `approve_spec` renames the old approval before it seals the new one. After a
  death in between, the next one finds no base to carry and stamps the present
  HEAD although the lane is branched (`ApproveArchive`, `ApproveCrash`).
- A spec revision sealed while `write_handoff` renders leaves a newer HANDOFF.md
  that names the older spec, and the goal stops with `cross_document_drift`.
- `docs/workflows/architect-build.md` says the human gate fires once per goal;
  `_binding_stop` asks for a new approval after each spec revision.
- `derive_goal_public_state` answers `needs_ruling` for a sealed kill and
  `awaiting_delivery_approval` for any accept; `handle` answers otherwise.
- A failed dispatch leaves no trace that a stop rule would count
  (`tools/architect_loop_step.py:859`).

Panel:

- A converge answer of an adapter with one local copy overwrites the blind
  proposal that the packet of round 2 is built from (`workflow_engine.py:403-407`).
- An inclusive majority of a quorum that shrank to nobody converges
  (`NobodyNeeded`).
- When the convention gate rejects a plan the outcome still says `converged`,
  with an error beside it; a later call that does not converge, or whose
  `convention-input.yaml` does not parse, leaves the plan of an earlier one in
  place (`SealPlan`).
- A repeated iteration, and round 2 of an adapter that numbers no round, is
  refused by the archive and counted as a timeout.
- A crash between packet and index leaves a file no entry points to; on the next
  day the pass gets a second file.

Dispatchers and resume:

- codex and Kimi write the prompt to stdin on the main thread, before any
  watchdog runs (`_dispatch_codex.py:417`); a CLI that does not read hangs the
  dispatch for good.
- Kimi's abort signal is looked for in the disposable copy, where no operator
  writes it (`_dispatch_kimi.py:961`); for the others a signal that came too late
  ends the next dispatch of the same pass.
- A pass with one terminal event in its log is never found stalled again, its
  repeated dispatches included (`_visibility_watchdog.py:308-317`). A dispatch
  marked as stalled may still answer, and then its start has two ends. The mark may
  also come second: the scan and the append are not under one lock (`:426`,
  `MarkStalled`), although lines 21-23 say that an event after the terminal one
  would corrupt the audit.
- Kimi's comparison sees nothing when git fails, nor an edit that is committed
  before it looks again, since it compares what git calls modified.
- The base a patch is stamped with is the hash of the files when the answer is
  parsed, not when the reviewer read them (`_dispatch_base.py:646-656`).
- Only codex lacks the check that a review calls nothing satisfied that blocks.
- A packet that is sealed and cannot be copied is logged as `dispatch_failed`.
- Resume keys on `dispatch_started`, which no dispatcher logs, so nothing is ever
  in flight; a review is compared by a hash that no log entry has, so each is
  `superseded` (`_resume.py:312`; `docs/specs/consensus-resume-spec.md`).

Closing and the goal loop:

- The iteration budget counts `patch_applied` events (`_self_drive.py:595`), and
  no tool logs one: applying a patch logs `apply_step_landed`. The bound of
  `docs/specs/autonomy-contract.md` is never reached (`Rounds`, `BudgetSpent`).
- Closing checks, then appends: a review, patch or edit in between is closed over.
  It does not hash the tree again, may be repeated, and mutations land after it.
- Section, ledger and consensus-patch events count as the last mutation although
  they name no family and no hash; no verdict of another family can then be on
  them.
- A dispatched codex review has no `created_at_utc`, and so never closes an
  iteration; `run_goal` may still say `ready_to_close`.
- The scanner does not ask whether the verdict was `gate_eligible`, and it compares
  the `packet_sha256` of a sealed review with what the mutation left
  (`_validate_closure_invariant.py:91`), where the closing check takes the
  `review_target_hash`: an iteration closed on such a review scans as
  `non_compliant` for good (`Scanned`, `ScanAgrees`).
- A patch that was sent back and stays in the review keeps the goal at
  `patch_verified_ready_for_codex_resubmit`, whatever is resubmitted beside it.
- The hash of the review that was verified is recorded and never compared.
- A consensus patch whose second file cannot be written leaves the first, with no
  event. A commit made between two files of a patch keeps the half that was there.
- A patch is looked up by its id in the review as it is: what was sealed under a
  verified id afterwards is applied without having been verified (`InReview`).
- A death between two files of a patch leaves them patched with no event.
- A file that cannot be read before a patch counts as missing, and rolling the
  patch back unlinks it (`tools/apply_codex_patch.py:371,391-394`, `Before`).

Consult and snapshots:

- The roll-back of a failed approval removes the marker of an earlier approval and
  an outcome draft that it has replaced. Two shells that approve one iteration can leave the
  marker without its outcome.
- A failing write of the design marker is outside the roll-back as well: the
  iteration stays sealed (`_approve_consult.py:559` catches `ValueError`, `Mint`).
- The session marker never goes by itself with the last delivery token, which
  `_session_state.py:43-44` announces.
- A file that was deleted needs no token to close (`_seal_iteration.py:460-462`).
- `close` asks for each changed file whether its token is there, not what it says: one
  minted before the last edit is enough, although `verify_delivery_token` would
  refuse it, and although the comment there says that a token proves a changed file
  was vetted (`_seal_iteration.py:477,498`, `Missing`).
- `mint` on the command line asks neither for the packet's scope nor for reviews.
- `close` does not compare its iteration with the markers it removes, and with two shells may disarm another consult.
- The session marker is read by nothing at run time, though the comment at
  `_approve_consult.py:568-573` says so.
- Under any sealed marker a Bash command may write any file (`HookAllows`).
- A delivery token may name any sealed iteration, and who vetted is the caller's
  word (`MintToken`).
- A state whose files are each in some snapshot, but together in none, is neither
  saved before a restore nor refused by `--abort-on-dirty` (`Dirty`). A file
  written between that look and the removal is lost. Empty directories are not
  restored, and a full restore of an empty snapshot removes everything.

## 6. What is not modelled

Within the modelled parts:

- Architect loop: a builder that goes on writing after its supervisor died; a
  build result sealed by hand; the lane and its lock file as they are created and
  removed piece by piece (a lock file that is created and not yet written, a
  branch whose worktree is gone); git and file system errors other than the ones
  the code answers, which end the call (`CallFails`). `_run_build` compares main only when the builder returned,
  and so does the model.
- Panel: a torn `index.yaml` or `index.yaml.tmp`; archive files removed by hand;
  two server processes running one iteration at the same time; contributor
  weights (they only order the packet); `requires_synthesis` and the host-driven
  plan convergence; the tier router, which picks a configuration before the
  engine starts.
- Dispatchers: what the prompt says; the CLI's own tools; the process group of a
  CLI that outlives its killed parent; two dispatches of one pass at a time; two
  watchdogs at a time, which would mark a start twice.
- Goal loop: two clients calling tools at once. What the log loses then is what
  the archive of the panel loses, and is modelled there. Patches that create a
  file. A review's `reviewer_id` and the id of its actor are one name here. The
  subcommands of `_self_drive` that only report.
- Consult: the Stop and SessionStart hooks, which print (the Stop hook looks at
  the last commit and at no untracked file); `verify_delivery_token`, which reads.
- Snapshots: two operators at once; the parts of `consensus-state` that no
  consult writes; a death within the creation of the orphan branch, after which
  git may refuse to move it.

Whole parts that are left out are in `PROJECT.json`, with the reason: the review
read gate reads the audit log and one review and changes nothing; validators,
configuration and the release gate are pure functions of a document; results,
telemetry and front ends are output that nothing decides on; the import of a
parent project's history runs once, alone.

## 7. Plan

1. Architect-build loop - done.
2. Convergence, review archive, panel engine - done.
3. Audit log, patches, goal loop - done.
4. Consult, hook, tokens, snapshots - done.
5. Dispatchers, watchdogs, resume - done.
6. Proofs of every invariant, action property and refinement the passing runs
   check - done.
7. The lane and its lock file piece by piece, with crashes, composed with
   `LoopStep`.
