-------------------------- MODULE ReviewerDispatch --------------------------
(***************************************************************************)
(* One review pass: its dispatcher, called again when it failed or died,   *)
(* next to whoever edits the repository, the operator who asks for an      *)
(* abort, and the watchdog that reads the dispatch log.                    *)
(***************************************************************************)
EXTENDS CodexDispatch, GeminiDispatch, GrokDispatch, KimiDispatch

VARIABLES
  crashed, \* the dispatches whose process died
  scans,   \* runs of the watchdog
  stale    \* the starts the running watchdog found

watchdog == <<scans, stale>>
vars == <<main, cli, signal, tree, repo, log, crashed, watchdog>>
-----------------------------------------------------------------------------
Dispatcher ==
  /\ \/ setup.reviewer = "codex"  /\ Codex  /\ UNCHANGED repo
     \/ setup.reviewer = "gemini" /\ Gemini /\ UNCHANGED repo
     \/ setup.reviewer = "grok"   /\ Grok   /\ UNCHANGED repo
     \/ setup.reviewer = "kimi"   /\ Kimi
  /\ UNCHANGED <<crashed, watchdog>>

Others == <<setup, call, pc, try, retry, answer, kept, signal, tree, repo, log, crashed, watchdog>>
Reader  == TakesLine /\ UNCHANGED Others
ReaderDies == ReaderRaises /\ UNCHANGED Others
Clock   == Tick /\ UNCHANGED Others
Process == (TakesPrompt \/ Prints \/ Exits) /\ UNCHANGED Others

\* The process that runs the dispatcher dies. Its CLI has a session of its own
\* and lives on, but nothing it prints is read any more.
Crash ==
  /\ pc # "idle"
  /\ Returns /\ child' = "none" /\ crashed' = crashed \cup {call}
  /\ UNCHANGED <<setup, call, kept, fed, wrote, read, age, quiet, raised,
                 signal, tree, repo, log, watchdog>>

\* Somebody works in the repository, and commits.
Edit ==
  /\ tree < setup.edits /\ tree' = tree + 1
  /\ UNCHANGED <<main, cli, signal, repo, log, crashed, watchdog>>
Commit ==
  /\ head # tree /\ head' = tree
  /\ UNCHANGED <<main, cli, signal, tree, before, copies, log, crashed, watchdog>>

\* The operator writes the signal for a dispatch that is on.
AskAbort ==
  /\ pc # "idle" /\ ~signal /\ signal' = TRUE
  /\ UNCHANGED <<main, cli, tree, repo, log, crashed, watchdog>>
-----------------------------------------------------------------------------
\* _visibility_watchdog: the last start of the pass, if no terminal event is
\* in the log, however old the start must be.
Terminal == {"dispatch_done", "dispatch_failed", "dispatch_refused", "dispatch_aborted",
             "dispatch_stalled"}
InLog(event)  == {log[i].call : i \in {j \in DOMAIN log : log[j].event = event}}
Latest(calls) == CHOOSE n \in calls : \A k \in calls : k <= n
StalledThoughMarked ==
  IF InLog("dispatch_start") = {}
     \/ \E event \in Terminal \ {"dispatch_stalled"} : InLog(event) # {}
  THEN {} ELSE {Latest(InLog("dispatch_start"))}
Stalled ==
  IF InLog("dispatch_start") = {} \/ \E event \in Terminal : InLog(event) # {}
  THEN {} ELSE {Latest(InLog("dispatch_start"))}

Scan ==
  /\ scans < setup.scans /\ stale = {}
  /\ scans' = scans + 1 /\ stale' = Stalled
  /\ UNCHANGED <<main, cli, signal, tree, repo, log, crashed>>
\* --action mark appends what was found, whatever was logged since: the
\* dispatch may have ended between the two.
MarkStalled ==
  /\ stale # {} /\ stale' = {}
  /\ log' = Append(log, Entry("dispatch_stalled", CHOOSE n \in stale : TRUE))
  /\ UNCHANGED <<main, cli, signal, tree, repo, crashed, scans>>
-----------------------------------------------------------------------------
Init ==
  /\ setup \in Setups /\ call = 0 /\ pc = "idle" /\ try = 0 /\ retry = None
  /\ child = "none" /\ fed = FALSE /\ wrote = 0 /\ read = 0 /\ age = 0 /\ quiet = 0
  /\ raised = FALSE /\ signal = FALSE /\ answer = None /\ archived = None /\ mirrored = None
  /\ tree = 0 /\ head = 0 /\ before = None /\ copies = {} /\ log = <<>>
  /\ crashed = {} /\ scans = 0 /\ stale = {}

Next ==
  \/ Dispatcher \/ Reader \/ ReaderDies \/ Clock \/ Process \/ Crash
  \/ Edit \/ Commit \/ AskAbort \/ Scan \/ MarkStalled

\* The dispatcher, its reader thread and time go on; a CLI may hang, and the
\* thread may raise.
Fairness == WF_vars(Dispatcher /\ pc # "idle") /\ WF_vars(Reader) /\ WF_vars(Clock)
Spec == Init /\ [][Next]_vars /\ Fairness
-----------------------------------------------------------------------------
TypeOK ==
  /\ setup \in Setups /\ call \in 0..setup.calls /\ try \in 0..3
  /\ pc \in {"idle", "preparing", "snapshotting", "copying", "spawning", "feeding", "polling",
             "checking", "draining", "comparing", "sealing", "mirroring",
             "logging"}
  /\ retry \in {None, "parse", "cancel", "empty", "invocation"}
  /\ child \in {"none", "running", "zero", "failed", "tempfail", "killed"}
  /\ fed \in BOOLEAN /\ signal \in BOOLEAN
  /\ wrote \in 0..setup.lines /\ read \in 0..wrote
  /\ age \in Nat /\ quiet \in Nat /\ raised \in BOOLEAN
  /\ tree \in 0..setup.edits /\ head \in 0..tree /\ copies \subseteq 1..setup.calls
  /\ crashed \subseteq 1..setup.calls /\ scans \in 0..setup.scans

\* A packet is sealed only of the answer of a CLI that ended by itself: no
\* watchdog killed it, it exited zero, and a line it printed is missing only
\* where the reader thread raised, which its marker in the captured output says.
AnswerIsWhole ==
  pc \in {"comparing", "sealing", "mirroring", "logging"} =>
    answer.exit = "zero" /\ (answer.missed = 0 \/ answer.marked)

\* _dispatch_base.py:1105-1109 says that a crash of a reader thread surfaces in
\* the captured output that logging and diagnosis inspect, and no longer loses
\* output without a word. No dispatch would then be logged as done over lines
\* its reader left behind: neither dispatch_done nor the packet mentions them.
ReaderErrorSurfaces == pc = "logging" => answer.missed = 0

\* What is sealed says what blocks: every severe finding is listed and nothing
\* else is, only codex authors patches, in scope of the goal packet, and a
\* reviewer other than codex never calls the goal met over a blocker.
VerdictIsSound ==
  archived # None =>
    /\ archived.blocking = {i \in DOMAIN archived.findings : archived.findings[i].severe}
    /\ setup.reviewer # "codex" => ~(archived.satisfied /\ archived.blocking # {})
    /\ \A i \in DOMAIN archived.findings : archived.findings[i].patch # None =>
         setup.reviewer = "codex" /\ archived.findings[i].patch.files \subseteq Allowed

\* The log says what happened: a dispatch has one outcome, and it is done only
\* when its packet is in the archive and copied.
OutcomeOf(n) == {i \in DOMAIN log : log[i].call = n /\
                   log[i].event \in {"dispatch_done", "dispatch_failed", "dispatch_refused"}}
LogIsTrue ==
  \A n \in 1..call :
    /\ Cardinality(OutcomeOf(n)) <= 1
    /\ n \in InLog("dispatch_done") => archived # None /\ mirrored = archived
    /\ n \in InLog("dispatch_start") /\ n < call => OutcomeOf(n) # {} \/ n \in crashed

\* A dispatch that has ended left no CLI running and no copy of the
\* repository, unless its own process died.
NothingLeft ==
  pc = "idle" => child # "running" /\ copies \subseteq crashed

\* A Kimi review of files somebody is at work on is sealed only when they are
\* the same at the end as they were when its copy was made.
KimiSawThisTree ==
  setup.reviewer = "kimi" /\ pc \in {"sealing", "mirroring", "logging"} /\ before # None
    => answer.base = before

\* However often the watchdog is run, and whatever is logged between its scan
\* and its mark, the log has one dispatch_stalled for a start at the most.
Marks(n) == {i \in DOMAIN log : log[i] = Entry("dispatch_stalled", n)}
MarkedOnce == \A n \in 1..setup.calls : Cardinality(Marks(n)) <= 1

\* A dispatch that was started ends, whatever its CLI does: the silence
\* watchdog, the hard ceiling and the joined readers see to it. The timeout must
\* be positive, and a prompt the main thread writes to stdin fit the pipe.
InLine == setup.reviewer \in {"codex", "kimi"} /\ setup.long
DispatchEnds == setup.timeout > 0 /\ ~InLine => (pc = "preparing" ~> pc = "idle")
=============================================================================
