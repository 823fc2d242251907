---------------------- MODULE ReviewerDispatch_proofs ----------------------
(***************************************************************************)
(* Whatever a CLI prints, withholds or hangs in, and whoever aborts, kills *)
(* or edits next to it: what a dispatcher seals is whole and sound, its    *)
(* log agrees with the archive, and it leaves nothing behind. For all four *)
(* dispatchers, any limits, any number of calls, findings and patches.     *)
(*                                                                         *)
(* The four are taken apart once, into the forms a step can have (Forms);  *)
(* each part of the invariant is then proved form by form.                 *)
(***************************************************************************)
EXTENDS Resume, SequenceTheorems, FiniteSetTheorems, WellFoundedInduction, TLAPS

Before  == {"preparing", "snapshotting", "copying", "spawning"}
Alive   == {"feeding", "polling", "checking"}
Copied  == Alive \cup {"spawning", "draining"}
Late    == {"comparing", "sealing", "mirroring", "logging"}

Outcomes == {"dispatch_done", "dispatch_failed", "dispatch_refused"}
Notices  == {"dispatch_aborted", "dispatch_stalled", "dispatch_workdir_prepared",
             "dispatch_workdir_isolation_failed", "dispatch_integrity_violation",
             "dispatch_retry_for_retryable_invocation", "dispatch_retry_for_parse_fail",
             "dispatch_retry_for_grok_cancel", "dispatch_retry_for_grok_empty_output"}
Kinds    == Outcomes \cup Notices \cup {"dispatch_start"}
Entries  == [event : Kinds, call : Nat]

SoundPacket(p) ==
  /\ p.blocking = {i \in DOMAIN p.findings : p.findings[i].severe}
  /\ setup.reviewer # "codex" => ~(p.satisfied /\ p.blocking # {})
  /\ \A i \in DOMAIN p.findings : p.findings[i].patch # None =>
       setup.reviewer = "codex" /\ p.findings[i].patch.files \subseteq Allowed
-----------------------------------------------------------------------------
(***************************************************************************)
(* The inductive invariant.                                                *)
(***************************************************************************)
\* A CLI runs only while its dispatcher waits for it.
ChildOK == child = "running" => pc \in Alive

\* Which invocation this is follows from what it is a retry for.
RetryOK ==
  LET begun == IF pc \in Before THEN 0 ELSE 1
  IN  /\ pc = "idle" => try = 0 /\ retry = None
      /\ pc \in Before \ {"spawning"} => retry = None
      /\ pc # "idle" /\ retry = None => try = begun
      /\ pc # "idle" /\ retry \in {"cancel", "empty", "invocation"} => try = 1 + begun
      /\ pc # "idle" /\ retry = "parse" => try \in {1 + begun, 2 + begun}

\* An answer that is compared or sealed is a whole one that was accepted.
AnswerOK ==
  /\ pc \in Late => answer.exit = "zero" /\ (answer.missed = 0 \/ answer.marked)
  /\ pc \in {"comparing", "sealing"} =>
       PacketOf(answer.body) \in Packets /\ SoundPacket(PacketOf(answer.body))

\* The archive has one packet, and its copy is of it.
KeptOK ==
  /\ archived # None => archived \in Packets /\ SoundPacket(archived)
  /\ mirrored \in {None, archived}
  /\ pc \in {"mirroring", "logging"} => archived # None
  /\ pc = "logging" => mirrored = archived

\* A disposable copy is that of the dispatch that runs, or of one that died.
CopiesOK ==
  /\ copies \subseteq crashed \cup (IF pc \in Copied THEN {call} ELSE {})
  /\ setup.reviewer # "kimi" => copies = {}

\* What Kimi is compared with is no newer than what it was shown.
BeforeOK ==
  /\ before # None => before \in Nat /\ before <= tree
  /\ pc = "comparing" /\ before # None =>
       answer.base \in Nat /\ before <= answer.base /\ answer.base <= tree

\* The log so far: entries of dispatches that have begun, none of them with
\* two outcomes, the one that runs with none; what the watchdog found is one.
Consistent(n) ==
  /\ \A i, j \in OutcomeOf(n) : i = j
  /\ n \in InLog("dispatch_done") => archived # None /\ mirrored = archived
  /\ n \in InLog("dispatch_start") /\ (n < call \/ pc = "idle") =>
       OutcomeOf(n) # {} \/ n \in crashed
LogOK ==
  /\ log \in Seq(Entries) /\ \A i \in DOMAIN log : log[i].call \in 1..call
  /\ crashed \subseteq 1..call /\ stale \subseteq 1..call
  /\ pc # "idle" => call >= 1 /\ call \notin crashed /\ OutcomeOf(call) = {}
  /\ \A n \in 1..call : Consistent(n)

\* The pass is marked at most once, and not yet while a mark is to be written.
MarkAt  == {i \in DOMAIN log : log[i].event = "dispatch_stalled"}
MarksOK == (\A i, j \in MarkAt : i = j) /\ (stale # {} => MarkAt = {})

DispatchInv ==
  TypeOK /\ ChildOK /\ RetryOK /\ AnswerOK /\ KeptOK /\ CopiesOK /\ BeforeOK /\ LogOK
  /\ MarksOK /\ KimiSawThisTree
-----------------------------------------------------------------------------
(***************************************************************************)
(* The forms of a step.                                                    *)
(***************************************************************************)
Stays    == UNCHANGED <<head, crashed, watchdog>>
Children == {"none", "running", "zero", "failed", "tempfail", "killed"}
Endings  == {<<"dispatch_failed">>, <<"dispatch_aborted", "dispatch_failed">>,
             <<"dispatch_workdir_isolation_failed", "dispatch_failed">>,
             <<"dispatch_integrity_violation", "dispatch_failed">>}
Refusals == {<<>>, <<"dispatch_failed">>, <<"dispatch_refused">>,
             <<"dispatch_start", "dispatch_failed">>}
Retries  == {<<"dispatch_retry_for_parse_fail">>, <<"dispatch_retry_for_grok_cancel">>,
             <<"dispatch_retry_for_grok_empty_output">>,
             <<"dispatch_retry_for_retryable_invocation">>,
             <<"dispatch_aborted", "dispatch_retry_for_retryable_invocation">>}
Logs(names, n) == log' = log \o Events(names, n)

\* main is called, and refuses or begins.
Calls(next, names) ==
  /\ pc = "idle" /\ pc' = next /\ call < setup.calls /\ call' = call + 1
  /\ \/ next = "idle" /\ names \in Refusals /\ UNCHANGED <<try, retry>>
     \/ next = "preparing" /\ names = <<"dispatch_start">> /\ try' = 0 /\ retry' = None
  /\ Logs(names, call')
  /\ UNCHANGED <<setup, answer, kept, cli, signal, tree, before, copies>> /\ Stays

\* It fails: nothing runs and no copy is left.
Fails(names) ==
  /\ pc # "idle" /\ pc' = "idle" /\ names \in Endings /\ Logs(names, call)
  /\ try' = 0 /\ retry' = None /\ answer' = None
  /\ child' \in Children \ {"running"} /\ signal' \in BOOLEAN
  /\ copies' \subseteq copies /\ call \notin copies'
  /\ UNCHANGED <<setup, call, kept, fed, wrote, read, age, quiet, raised, tree, before>> /\ Stays

\* The CLI is gone and invoked once more.
RetriesAs(why, names) ==
  /\ pc \in {"checking", "draining"} /\ pc' = "spawning" /\ names \in Retries /\ Logs(names, call)
  /\ retry' = why /\ why \in {"parse", "cancel", "empty", "invocation"}
  /\ retry = None \/ (retry = "cancel" /\ why = "parse")
  /\ child' \in Children \ {"running"} /\ signal' \in BOOLEAN
  /\ UNCHANGED <<setup, call, try, answer, kept, fed, wrote, read, age, quiet, raised, tree,
                 before, copies>>
  /\ Stays

\* It goes on to its next stage.
Ways == {<<"preparing", "spawning">>, <<"preparing", "snapshotting">>, <<"feeding", "polling">>,
         <<"polling", "checking">>, <<"polling", "draining">>, <<"checking", "polling">>}
GoesOn(next) ==
  /\ <<pc, next>> \in Ways /\ pc' = next
  /\ next = "draining" => child # "running"
  /\ age' \in Nat /\ quiet' \in Nat
  /\ UNCHANGED <<setup, call, try, retry, answer, kept, child, fed, wrote, read, raised, signal, tree,
                 before, copies, log>>
  /\ Stays
TakesStatus ==
  /\ pc = "snapshotting" /\ pc' = "copying" /\ before' \in {tree, None}
  /\ UNCHANGED <<setup, call, try, retry, answer, kept, cli, signal, tree, copies, log>> /\ Stays
CopiesTree ==
  /\ pc = "copying" /\ pc' = "spawning" /\ setup.reviewer = "kimi"
  /\ copies' \subseteq copies \cup {call} /\ Logs(<<"dispatch_workdir_prepared">>, call)
  /\ UNCHANGED <<setup, call, try, retry, answer, kept, cli, signal, tree, before>> /\ Stays
Compares ==
  /\ pc = "comparing" /\ pc' = "sealing" /\ before \in {tree, None}
  /\ UNCHANGED <<setup, call, try, retry, answer, kept, cli, signal, tree, before, copies, log>>
  /\ Stays
Spawns == \E inline \in BOOLEAN : Spawn(inline) /\ UNCHANGED <<before, copies>> /\ Stays

\* What every dispatcher has made sure of when it takes an answer.
InScopeOf(review) ==
  \A i \in DOMAIN review.findings : review.findings[i].patch # None =>
    review.findings[i].patch.files \subseteq Allowed
Accepted(body) ==
  setup.mode # "proposal" =>
    /\ Named(body)
    /\ setup.reviewer # "codex" => Unpatched(body) /\ Coherent(body)
    /\ setup.reviewer = "codex" => InScopeOf(body)
TakesAnswer(body, next) ==
  /\ pc = "draining" /\ child = "zero" /\ (read = wrote \/ raised) /\ body \in Bodies /\ Accepted(body)
  /\ answer' = [body |-> body, base |-> tree, exit |-> child,
                missed |-> wrote - read, marked |-> raised]
  /\ pc' = next /\ next = (IF setup.reviewer = "kimi" THEN "comparing" ELSE "sealing")
  /\ copies' \subseteq copies /\ call \notin copies'
  /\ UNCHANGED <<setup, call, try, retry, kept, cli, signal, tree, before, log>> /\ Stays

Seals ==
  /\ pc = "sealing" /\ pc' = "mirroring"
  /\ archived \in {None, PacketOf(answer.body)} /\ archived' = PacketOf(answer.body)
  /\ UNCHANGED <<setup, call, try, retry, answer, mirrored, cli, signal, tree, before, copies, log>>
  /\ Stays
Mirrors ==
  /\ pc = "mirroring" /\ pc' = "logging" /\ mirrored' = archived
  /\ UNCHANGED <<setup, call, try, retry, answer, archived, cli, signal, tree, before, copies, log>>
  /\ Stays
Finishes ==
  /\ pc = "logging" /\ pc' = "idle" /\ Logs(<<"dispatch_done">>, call)
  /\ try' = 0 /\ retry' = None /\ answer' = None
  /\ UNCHANGED <<setup, call, kept, cli, signal, tree, before, copies>> /\ Stays

Forms ==
  \/ \E next, names : Calls(next, names)
  \/ \E names : Fails(names)
  \/ \E why, names : RetriesAs(why, names)
  \/ \E next : GoesOn(next)
  \/ TakesStatus \/ CopiesTree \/ Compares \/ Spawns
  \/ \E body, next : TakesAnswer(body, next)
  \/ Seals \/ Mirrors \/ Finishes
-----------------------------------------------------------------------------
(***************************************************************************)
(* Each dispatcher takes steps of these forms only.                        *)
(***************************************************************************)
LEMMA Appended ==
  /\ Append(<<>>, "dispatch_failed") = <<"dispatch_failed">>
  /\ \A x, y : Append(<<x>>, y) = <<x, y>>
<1>1. ASSUME NEW x, NEW y PROVE Append(<<x>>, y) = <<x, y>>
  <2> DEFINE S == {x, y}
  <2>1. <<x>> \in Seq(S) /\ Len(<<x>>) = 1 /\ <<x>>[1] = x
    OBVIOUS
  <2>2. <<x, y>> \in Seq(S) /\ Len(<<x, y>>) = 2 /\ <<x, y>>[1] = x /\ <<x, y>>[2] = y
    OBVIOUS
  <2>3. /\ Append(<<x>>, y) \in Seq(S) /\ Len(Append(<<x>>, y)) = 2
        /\ Append(<<x>>, y)[1] = x /\ Append(<<x>>, y)[2] = y
    BY <2>1, AppendProperties
  <2>4. \A i \in 1..2 : Append(<<x>>, y)[i] = <<x, y>>[i]
    BY <2>2, <2>3
  <2> HIDE DEF S
  <2> QED BY <2>2, <2>3, <2>4, SeqEqual
<1> QED BY <1>1

\* No entries, and one entry.
LEMMA FewEvents ==
  /\ \A n : Events(<<>>, n) = <<>>
  /\ \A event, n : Events(<<event>>, n) = <<Entry(event, n)>>
<1>1. ASSUME NEW n PROVE Events(<<>>, n) = <<>>
  <2>1. Events(<<>>, n) = [i \in {} |-> Entry(<<>>[i], n)]
    BY DEF Events
  <2>2. <<>> = [i \in {} |-> Entry(<<>>[i], n)]
    OBVIOUS
  <2> QED BY <2>1, <2>2
<1>2. ASSUME NEW event, NEW n PROVE Events(<<event>>, n) = <<Entry(event, n)>>
  <2>1. Events(<<event>>, n) = [i \in {1} |-> Entry(<<event>>[i], n)]
    BY DEF Events
  <2>2. [i \in {1} |-> Entry(<<event>>[i], n)] = [i \in {1} |-> Entry(event, n)]
    OBVIOUS
  <2>3. <<Entry(event, n)>> = [i \in {1} |-> Entry(event, n)]
    OBVIOUS
  <2> QED BY <2>1, <2>2, <2>3
<1> QED BY <1>1, <1>2

\* One entry appended is one logged.
LEMMA OneLogged ==
  ASSUME log \in Seq(Entries), call \in Nat, NEW event \in Kinds,
         log' = Append(log, Entry(event, call))
  PROVE  Logs(<<event>>, call)
<1>1. Entry(event, call) \in Entries
  BY DEF Entry, Entries
<1>2. Append(log, Entry(event, call)) = log \o <<Entry(event, call)>>
  BY <1>1, AppendIsConcat
<1> QED BY <1>2, FewEvents DEF Logs

\* What the three have in common that run in the repository itself.
Plain == \/ setup.reviewer = "codex"  /\ Codex
         \/ setup.reviewer = "gemini" /\ Gemini
         \/ setup.reviewer = "grok"   /\ Grok

LEMMA PlainForms ==
  ASSUME DispatchInv, Plain, UNCHANGED <<repo, crashed, watchdog>>
  PROVE  Forms
<1>1. copies = {} /\ ChildOK /\ child \in Children /\ signal \in BOOLEAN
      /\ age \in Nat /\ quiet \in Nat /\ log \in Seq(Entries) /\ call \in Nat
  BY DEF DispatchInv, CopiesOK, TypeOK, Children, LogOK, Plain
<1>2. CASE CodexBegin \/ GeminiBegin \/ GrokBegin
  BY <1>2
  DEF CodexBegin, GeminiBegin, GrokBegin, Begin, Stop, Go, Logged, Forms, Calls, Refusals, Logs,
      Stays, repo
<1>3. CASE CodexPrepare \/ GeminiPrepare \/ GrokPrepare
  BY <1>1, <1>3, Appended
  DEF CodexPrepare, GeminiPrepare, GrokPrepare, Prepare, Failed, Returns, Quietly, cli, Forms,
      Fails, Endings, GoesOn, Ways, Logs, Stays, repo, ChildOK, Alive
<1>4. CASE CodexSpawn \/ GeminiSpawn \/ GrokSpawn
  BY <1>4 DEF CodexSpawn, GeminiSpawn, GrokSpawn, Forms, Spawns, Stays, repo
<1>5. CASE CodexNotFound \/ GeminiNotFound \/ GrokNotFound
  BY <1>1, <1>5, Appended
  DEF CodexNotFound, GeminiNotFound, GrokNotFound, Unspawned, Failed, Returns, Quietly, cli, Forms,
      Fails, Endings, Logs, Stays, repo, ChildOK, Alive
<1>6. CASE Feed
  BY <1>1, <1>6 DEF Feed, Forms, GoesOn, Ways, Stays, repo, kept
<1>7. CASE Poll
  BY <1>1, <1>7 DEF Poll, Forms, GoesOn, Ways, Stays, repo, kept, cli
<1>8. CASE CodexAbort \/ GeminiAbort \/ GrokAbort
  BY <1>1, <1>8, Appended
  DEF CodexAbort, GeminiAbort, GrokAbort, Aborted, Terminate, Failed, Returns, Forms, Fails,
      Endings, Logs, Stays, repo, Children
<1>9. CASE CodexTimesOut \/ GeminiTimesOut \/ GrokTimesOut
  BY <1>1, <1>9, Appended
  DEF CodexTimesOut, GeminiTimesOut, GrokTimesOut, TimedOut, Terminate, Failed, Returns, Forms,
      Fails, Endings, Logs, Stays, repo, Children
<1>10. CASE CodexContinue \/ GeminiContinue \/ GrokContinue
  BY <1>1, <1>10
  DEF CodexContinue, GeminiContinue, GrokContinue, Continue, Forms, GoesOn, Ways, Stays, repo,
      kept, cli
<1>11. CASE CodexUndrained \/ GeminiUndrained \/ GrokUndrained
  BY <1>1, <1>11, Appended
  DEF CodexUndrained, GeminiUndrained, GrokUndrained, Undrained, Failed, Returns, Quietly, cli,
      Forms, Fails, Endings, Logs, Stays, repo, ChildOK, Alive
<1>12. CASE CodexExit \/ GeminiExit \/ GrokExit
  BY <1>1, <1>12, Appended
  DEF CodexExit, GeminiExit, GrokExit, Exited, Drained, Failed, Returns, Quietly, cli, Forms,
      Fails, Endings, Logs, Stays, repo, ChildOK, Alive
<1>13. ASSUME Exited("zero"), Failed(<<>>) PROVE Forms
  BY <1>1, <1>13, Appended
  DEF Exited, Drained, Failed, Returns, Quietly, cli, Forms, Fails, Endings, Logs, Stays, repo,
      Children
<1>14. ASSUME NEW text \in Texts, Exited("zero"), Returned(text, "sealing"),
              setup.reviewer # "kimi",
              text.shape # "prose", Accepted(text.body)
       PROVE  TakesAnswer(text.body, "sealing")
  <2>1. text.body \in Bodies
    BY <1>14 DEF Texts
  <2> QED BY <1>1, <1>14, <2>1
    DEF Exited, Drained, Returned, TakesAnswer, BaseOfPatch, Quietly, Stays, repo
<1>15. ASSUME NEW names \in Retries, NEW why \in {"parse", "cancel", "empty"},
              Exited("zero"), Again(names, why), retry = None \/ (retry = "cancel" /\ why = "parse")
       PROVE  Forms
  BY <1>1, <1>15
  DEF Exited, Drained, Again, Quietly, cli, kept, Forms, RetriesAs, Logs, Stays, repo, Children
<1>16. CASE setup.reviewer = "codex" /\ CodexReturns
  <2>1. ASSUME NEW text \in Texts, CodexAccepts(text) PROVE text.shape # "prose" /\ Accepted(text.body)
    BY <1>16, <2>1
    DEF CodexAccepts, Accepted, CodexReview, CodexFinding, ValidPatch, InScope, InScopeOf
  <2> QED BY <1>13, <1>14, <1>16, <2>1 DEF CodexReturns, Forms
<1>17. CASE setup.reviewer = "gemini" /\ GeminiReturns
  <2>1. ASSUME NEW text \in Texts, GeminiAccepts(text)
        PROVE  text.shape # "prose" /\ Accepted(text.body)
    BY <1>17, <2>1 DEF GeminiAccepts, Extracts, Accepted, GeminiReview
  <2> QED BY <1>13, <1>14, <1>15, <1>17, <2>1 DEF GeminiReturns, GeminiUnparsed, Forms, Retries
<1>18. CASE setup.reviewer = "grok" /\ GrokReturns
  <2>1. ASSUME NEW text \in Texts, GrokAccepts(text)
        PROVE  text.shape # "prose" /\ Accepted(text.body)
    BY <1>18, <2>1 DEF GrokAccepts, Extracts, Accepted, GrokReview
  <2> QED BY <1>13, <1>14, <1>15, <1>18, <2>1
    DEF GrokReturns, GrokUnparsed, GrokCancelled, GrokEmpty, Forms, Retries
<1>19. CASE SealAnswer \/ CopyMirror
  BY <1>1, <1>19, Appended
  DEF SealAnswer, CopyMirror, Failed, Returns, Quietly, cli, kept, Forms, Fails, Endings,
      Logs, Stays, repo, Seals, Mirrors, ChildOK, Alive
<1>20. CASE Done
  BY <1>1, <1>20, OneLogged
  DEF Done, Returns, Quietly, cli, Forms, Finishes, Kinds, Outcomes, Stays, repo
<1> QED
  BY <1>2, <1>3, <1>4, <1>5, <1>6, <1>7, <1>8, <1>9, <1>10, <1>11, <1>12, <1>16, <1>17, <1>18,
     <1>19, <1>20
  DEF Plain, Codex, CodexWatch, CodexSeal, CodexDone, Gemini, GeminiWatch, GeminiSeal, GeminiDone,
      Grok, GrokWatch, GrokSeal, GrokDone

LEMMA KimiForms ==
  ASSUME DispatchInv, setup.reviewer = "kimi", Kimi, UNCHANGED <<crashed, watchdog>>
  PROVE  Forms
<1>1. /\ ChildOK /\ child \in Children /\ signal \in BOOLEAN
      /\ age \in Nat /\ quiet \in Nat /\ log \in Seq(Entries) /\ call \in Nat
      /\ pc # "idle" /\ pc \notin Copied => call \notin copies
  BY DEF DispatchInv, CopiesOK, TypeOK, Children, LogOK
<1> USE DEF repo, Stays
<1>2. CASE KimiBegin
  BY <1>2 DEF KimiBegin, Begin, Stop, Go, Logged, Forms, Calls, Refusals, Logs
<1>3. CASE KimiPrepare
  BY <1>1, <1>3, Appended
  DEF KimiPrepare, Prepare, Failed, Returns, Quietly, cli, Forms, Fails, Endings, GoesOn, Ways,
      Logs, ChildOK, Alive, Copied
<1>4. CASE KimiSnapshot
  BY <1>1, <1>4, Appended
  DEF KimiSnapshot, StatusOf, Failed, Returns, Quietly, cli, Forms, Fails, Endings, TakesStatus,
      Logs, ChildOK, Alive, Copied, kept
<1>5. CASE KimiCopy
  <2>1. ASSUME NEW swept \in Swept, pc = "copying", Quietly, copies' = (copies \ swept) \cup {call},
               pc' = "spawning", log' = Append(log, Entry("dispatch_workdir_prepared", call)),
               UNCHANGED <<setup, call, try, retry, answer, kept, head, before>>
        PROVE  Forms
    <3>1. Logs(<<"dispatch_workdir_prepared">>, call)
      BY <1>1, <2>1, OneLogged DEF Kinds, Notices
    <3> QED BY <2>1, <3>1 DEF Forms, CopiesTree, Quietly, cli, kept
  <2>2. ASSUME NEW swept \in Swept, pc = "copying", Quietly, copies' = copies \ swept,
               Failed(<<"dispatch_workdir_isolation_failed">>) \/ Failed(<<>>),
               UNCHANGED <<head, before>>
        PROVE  Forms
    BY <1>1, <2>2, Appended
    DEF Failed, Returns, Quietly, cli, Forms, Fails, Endings, Logs, ChildOK, Alive, Copied
  <2> QED BY <1>5, <2>1, <2>2 DEF KimiCopy
<1>6. CASE KimiSpawn
  BY <1>6 DEF KimiSpawn, Forms, Spawns
<1>7. CASE KimiNotFound
  BY <1>1, <1>7, Appended
  DEF KimiNotFound, KimiFailed, Unspawned, Failed, Returns, Quietly, cli, Forms, Fails, Endings,
      Logs, ChildOK, Alive
<1>8. CASE (Feed \/ Poll) /\ UNCHANGED repo
  BY <1>1, <1>8 DEF Feed, Poll, Forms, GoesOn, Ways, kept, cli
<1>9. CASE KimiTimesOut
  BY <1>1, <1>9, Appended
  DEF KimiTimesOut, TimedOut, Terminate, KimiRetries, KimiFailed, Again, Failed, Returns, Forms,
      Fails, Endings, RetriesAs, Retries, Logs, Children, kept
<1>10. CASE KimiContinue
  BY <1>1, <1>10 DEF KimiContinue, Continue, Forms, GoesOn, Ways, kept, cli
<1>11. CASE KimiUndrained
  BY <1>1, <1>11, Appended
  DEF KimiUndrained, KimiFailed, Undrained, Failed, Returns, Quietly, cli, Forms, Fails, Endings,
      Logs, ChildOK, Alive
<1>12. CASE KimiExit
  BY SMTT(30), <1>1, <1>12, Appended
  DEF KimiExit, KimiRetries, KimiFailed, Again, Exited, Drained, Failed, Returns, Quietly, cli,
      Forms, Fails, Endings, RetriesAs, Retries, Logs, ChildOK, Alive, Children, kept
<1>13. CASE KimiReturns
  <2>1. ASSUME NEW text \in Texts, Exited("zero"), KimiAccepts(text), Returned(text, "comparing"),
               copies' = copies \ {call}, UNCHANGED <<head, before>>
        PROVE  TakesAnswer(text.body, "comparing")
    <3>1. text.body \in Bodies /\ Accepted(text.body)
      BY <2>1 DEF Texts, KimiAccepts, Extracts, Accepted, KimiReview
    <3> QED BY <1>1, <2>1, <3>1
      DEF Exited, Drained, Returned, TakesAnswer, BaseOfPatch, Quietly
  <2>2. CASE Exited("zero") /\ KimiUnparsed
    BY <1>1, <2>2, Appended
    DEF Exited, Drained, KimiUnparsed, KimiFailed, Again, Failed, Returns, Quietly, cli, kept,
        Forms, Fails, Endings, RetriesAs, Retries, Logs, Children
  <2> QED BY <1>13, <2>1, <2>2 DEF KimiReturns, Forms
<1>14. CASE KimiCompare
  BY <1>1, <1>14, Appended
  DEF KimiCompare, StatusOf, Failed, Returns, Quietly, cli, kept, Forms, Compares, Fails, Endings,
      Logs, ChildOK, Alive, Copied
<1>15. CASE KimiSeal
  BY <1>1, <1>15, Appended
  DEF KimiSeal, SealAnswer, CopyMirror, Failed, Returns, Quietly, cli, kept, Forms, Fails, Endings,
      Logs, Seals, Mirrors, ChildOK, Alive, Copied
<1>16. CASE KimiDone
  BY <1>1, <1>16, OneLogged
  DEF KimiDone, Done, Returns, Quietly, cli, Forms, Finishes, Kinds, Outcomes
<1> QED
  BY <1>2, <1>3, <1>4, <1>5, <1>6, <1>7, <1>8, <1>9, <1>10, <1>11, <1>12, <1>13, <1>14, <1>15, <1>16
  DEF Kimi, KimiWatch

\* Every step is one of a dispatcher, of a CLI and the threads that read it, or
\* of somebody else.
CliMoves == (TakesLine \/ ReaderRaises \/ Tick \/ TakesPrompt \/ Prints \/ Exits) /\ UNCHANGED Others
Besides == Crash \/ Edit \/ Commit \/ AskAbort \/ Scan \/ MarkStalled \/ UNCHANGED vars
LEMMA StepForms ==
  ASSUME DispatchInv, [Next]_vars
  PROVE  Forms \/ CliMoves \/ Besides
<1>1. CASE Dispatcher
  BY <1>1, PlainForms, KimiForms DEF Dispatcher, Plain
<1>2. CASE Reader \/ ReaderDies \/ Clock \/ Process
  BY <1>2 DEF Reader, ReaderDies, Clock, Process, CliMoves
<1> QED BY <1>1, <1>2 DEF Next, Besides
-----------------------------------------------------------------------------
(***************************************************************************)
(* What is logged.                                                         *)
(***************************************************************************)
Silent(names) == \A k \in DOMAIN names : names[k] \notin Outcomes
Ends(names)   == \E k \in DOMAIN names : \A j \in DOMAIN names : names[j] \in Outcomes <=> j = k
Has(names, event) == \E k \in DOMAIN names : names[k] = event

LEMMA Names ==
  /\ \A names \in Endings :
       /\ names \in Seq(Kinds) /\ Ends(names)
       /\ ~Has(names, "dispatch_start") /\ ~Has(names, "dispatch_done")
  /\ \A names \in Refusals :
       /\ names \in Seq(Kinds) /\ (names = <<>> \/ Ends(names))
       /\ ~Has(names, "dispatch_done")
  /\ \A names \in Retries :
       names \in Seq(Kinds) /\ Silent(names) /\ ~Has(names, "dispatch_start")
  /\ \A event \in Kinds : <<event>> \in Seq(Kinds) /\ \A e : Has(<<event>>, e) <=> e = event
  /\ \A event \in Kinds \ Outcomes : Silent(<<event>>)
  /\ Ends(<<"dispatch_done">>)
<1>1. ASSUME NEW event \in Kinds
      PROVE  /\ <<event>> \in Seq(Kinds) /\ DOMAIN <<event>> = {1} /\ <<event>>[1] = event
             /\ \A e : Has(<<event>>, e) <=> e = event
             /\ event \in Outcomes => Ends(<<event>>)
             /\ event \notin Outcomes => Silent(<<event>>)
  BY DEF Has, Ends, Silent
<1>2. ASSUME NEW first \in Kinds, NEW second \in Kinds
      PROVE  /\ <<first, second>> \in Seq(Kinds) /\ DOMAIN <<first, second>> = {1, 2}
             /\ \A e : Has(<<first, second>>, e) <=> e \in {first, second}
             /\ first \notin Outcomes /\ second \in Outcomes => Ends(<<first, second>>)
             /\ first \notin Outcomes /\ second \notin Outcomes => Silent(<<first, second>>)
  BY DEF Has, Ends, Silent
<1>3. <<>> \in Seq(Kinds) /\ \A e : ~Has(<<>>, e)
  BY DEF Has
<1>4. Outcomes \subseteq Kinds /\ Notices \subseteq Kinds /\ "dispatch_start" \in Kinds
      /\ \A event \in Notices \cup {"dispatch_start"} : event \notin Outcomes
  BY DEF Kinds, Outcomes, Notices
<1>5. \A names \in Endings :
        \/ names = <<"dispatch_failed">>
        \/ \E event \in Notices : names = <<event, "dispatch_failed">>
  BY DEF Endings, Notices
<1>6. \A names \in Refusals :
        \/ names = <<>> \/ names = <<"dispatch_start", "dispatch_failed">>
        \/ names = <<"dispatch_failed">> \/ names = <<"dispatch_refused">>
  BY DEF Refusals
<1>7. \A names \in Retries :
        \/ \E event \in Notices : names = <<event>>
        \/ \E first, second \in Notices : names = <<first, second>>
  BY DEF Retries, Notices
<1>8. /\ {"dispatch_done", "dispatch_failed", "dispatch_refused"} = Outcomes
      /\ {"dispatch_start", "dispatch_done"} \cap Notices = {}
  BY DEF Outcomes, Notices
<1>9. ASSUME NEW names \in Endings
      PROVE  /\ names \in Seq(Kinds) /\ Ends(names)
             /\ ~Has(names, "dispatch_start") /\ ~Has(names, "dispatch_done")
  <2>1. CASE names = <<"dispatch_failed">>
    BY <1>1, <1>4, <1>8, <2>1
  <2>2. ASSUME NEW event \in Notices, names = <<event, "dispatch_failed">>
        PROVE  <1>9!2
    BY <1>2, <1>4, <1>8, <2>2
  <2> QED BY <1>5, <2>1, <2>2
<1>10. ASSUME NEW names \in Refusals
       PROVE  /\ names \in Seq(Kinds) /\ (names = <<>> \/ Ends(names))
              /\ ~Has(names, "dispatch_done")
  <2>1. CASE names = <<>>
    BY <1>3, <2>1
  <2>2. CASE names = <<"dispatch_start", "dispatch_failed">>
    BY <1>2, <1>4, <1>8, <2>2
  <2>3. CASE names = <<"dispatch_failed">>
    BY <1>1, <1>4, <1>8, <2>3
  <2>4. CASE names = <<"dispatch_refused">>
    BY <1>1, <1>4, <1>8, <2>4
  <2> QED BY <1>6, <2>1, <2>2, <2>3, <2>4
<1>11. ASSUME NEW names \in Retries
       PROVE  names \in Seq(Kinds) /\ Silent(names) /\ ~Has(names, "dispatch_start")
  <2>1. ASSUME NEW event \in Notices, names = <<event>>
        PROVE  <1>11!2
    BY <1>1, <1>4, <1>8, <2>1
  <2>2. ASSUME NEW first \in Notices, NEW second \in Notices, names = <<first, second>>
        PROVE  <1>11!2
    BY <1>2, <1>4, <1>8, <2>2
  <2> QED BY <1>7, <2>1, <2>2
<1> QED BY <1>1, <1>4, <1>8, <1>9, <1>10, <1>11

\* A dispatcher never marks itself.
LEMMA NoMarks ==
  \A names \in Endings \cup Refusals \cup Retries
                \cup {<<"dispatch_workdir_prepared">>, <<"dispatch_done">>, <<"dispatch_start">>} :
    ~Has(names, "dispatch_stalled")
<1> DEFINE Words == {"dispatch_failed", "dispatch_aborted", "dispatch_refused", "dispatch_start",
                       "dispatch_done", "dispatch_workdir_prepared",
                       "dispatch_workdir_isolation_failed", "dispatch_integrity_violation",
                       "dispatch_retry_for_retryable_invocation", "dispatch_retry_for_parse_fail",
                       "dispatch_retry_for_grok_cancel", "dispatch_retry_for_grok_empty_output"}
<1>1. \A names \in Endings \cup Refusals \cup Retries
                \cup {<<"dispatch_workdir_prepared">>, <<"dispatch_done">>, <<"dispatch_start">>} :
        \/ names = <<>>
        \/ \E e \in Words : names = <<e>>
        \/ \E e, g \in Words : names = <<e, g>>
  BY DEF Endings, Refusals, Retries
<1>2. "dispatch_stalled" \notin Words
  OBVIOUS
<1> HIDE DEF Words
<1>3. ~Has(<<>>, "dispatch_stalled")
  BY DEF Has
<1>4. \A e \in Words : ~Has(<<e>>, "dispatch_stalled")
  BY <1>2 DEF Has
<1>5. \A e, g \in Words : ~Has(<<e, g>>, "dispatch_stalled")
  BY <1>2 DEF Has
<1> QED BY <1>1, <1>3, <1>4, <1>5

\* Entries are added at the end, those of one dispatch only.
LEMMA Grown ==
  ASSUME log \in Seq(Entries), NEW names \in Seq(Kinds), NEW n \in Nat, Logs(names, n)
  PROVE  /\ log' \in Seq(Entries)
         /\ \A i \in DOMAIN log' :
              log'[i].call = n \/ (i \in DOMAIN log /\ log'[i].call = log[i].call)
         /\ \A m : m # n => OutcomeOf(m)' = OutcomeOf(m)
         /\ Silent(names) => OutcomeOf(n)' = OutcomeOf(n)
         /\ Ends(names) /\ OutcomeOf(n) = {} => \E i : OutcomeOf(n)' = {i}
         /\ \A event : \A m : m \in InLog(event)' <=>
              m \in InLog(event) \/ (m = n /\ Has(names, event))
         /\ ~Has(names, "dispatch_stalled") => MarkAt' = MarkAt
         /\ MarkAt = {} /\ Len(names) = 1 => \A i, j \in MarkAt' : i = j
<1> DEFINE more == Events(names, n)  old == Len(log)  new == Len(names)
<1>1. more \in Seq(Entries) /\ Len(more) = new /\ \A k \in 1..new : more[k] = Entry(names[k], n)
  <2>1. names \in [1..new -> Kinds] /\ new \in Nat
    BY LenProperties
  <2>2. more \in [1..new -> Entries] /\ \A k \in 1..new : more[k] = Entry(names[k], n)
    BY <2>1 DEF Events, Entry, Entries
  <2> QED BY <2>1, <2>2, SeqDef, LenProperties
<1>2. /\ log' \in Seq(Entries) /\ Len(log') = old + new /\ old \in Nat /\ new \in Nat
      /\ \A i \in 1..old + new : log'[i] = IF i <= old THEN log[i] ELSE more[i - old]
  <2>1. log' = log \o more
    BY DEF Logs
  <2>2. Len(log) \in Nat /\ Len(names) \in Nat
    BY LenProperties
  <2> HIDE DEF more
  <2>3. /\ log \o more \in Seq(Entries) /\ Len(log \o more) = Len(log) + Len(more)
        /\ \A i \in 1..Len(log) + Len(more) :
             (log \o more)[i] = IF i <= Len(log) THEN log[i] ELSE more[i - Len(log)]
    BY <1>1, ConcatProperties, ZenonT(60)
  <2> QED BY <1>1, <2>1, <2>2, <2>3
<1>3. DOMAIN log = 1..old /\ DOMAIN log' = 1..old + new /\ DOMAIN names = 1..new
  BY <1>2, LenProperties
<1>4. /\ \A i \in DOMAIN log : i \in DOMAIN log' /\ log'[i] = log[i]
      /\ \A i \in DOMAIN log' : i \in DOMAIN log \/
           (i - old \in DOMAIN names /\ log'[i].call = n /\ log'[i].event = names[i - old])
      /\ \A k \in DOMAIN names : old + k \in DOMAIN log' /\ old + k \notin DOMAIN log
           /\ log'[old + k].call = n /\ log'[old + k].event = names[k]
  <2> HIDE DEF more, old, new
  <2>1. \A i \in 1..old : i \in 1..old + new /\ i <= old
    BY <1>2
  <2>2. \A i \in 1..old + new : i \notin 1..old => i - old \in 1..new /\ ~(i <= old)
    BY <1>2
  <2>3. \A k \in 1..new : /\ old + k \in 1..old + new /\ old + k \notin 1..old
                         /\ ~(old + k <= old) /\ (old + k) - old = k
    BY <1>2
  <2>4. \A k \in 1..new : more[k].call = n /\ more[k].event = names[k]
    BY <1>1 DEF Entry
  <2>5. \A i \in 1..old : log'[i] = log[i]
    BY <1>2, <2>1
  <2>6. \A i \in 1..old + new : i \notin 1..old =>
          log'[i].call = n /\ log'[i].event = names[i - old]
    BY <1>2, <2>2, <2>4
  <2>7. \A k \in 1..new : log'[old + k].call = n /\ log'[old + k].event = names[k]
    BY <2>3, <2>6
  <2> QED BY <1>3, <2>1, <2>2, <2>3, <2>5, <2>6, <2>7
<1> HIDE DEF more, old, new
<1>5. \A i \in DOMAIN log' :
        log'[i].call = n \/ (i \in DOMAIN log /\ log'[i].call = log[i].call)
  BY <1>4
<1>6. /\ \A m : m # n => OutcomeOf(m)' = OutcomeOf(m)
      /\ Silent(names) => OutcomeOf(n)' = OutcomeOf(n)
  BY <1>4 DEF OutcomeOf, Silent, Outcomes
<1>7. ASSUME Ends(names), OutcomeOf(n) = {} PROVE \E i : OutcomeOf(n)' = {i}
  <2>1. PICK k \in DOMAIN names : \A j \in DOMAIN names : names[j] \in Outcomes <=> j = k
    BY <1>7 DEF Ends
  <2>2. ASSUME NEW i \in OutcomeOf(n)' PROVE i = old + k
    <3>1. i \in DOMAIN log' /\ i \notin DOMAIN log /\ log'[i].event \in Outcomes
      BY <1>4, <1>7 DEF OutcomeOf, Outcomes
    <3>2. i - old \in DOMAIN names /\ names[i - old] \in Outcomes /\ i \in Nat
      BY <1>2, <1>3, <1>4, <3>1
    <3> QED BY <1>2, <2>1, <3>2
  <2>3. old + k \in OutcomeOf(n)'
    BY <1>4, <2>1 DEF OutcomeOf, Outcomes
  <2> QED BY <2>2, <2>3
<1>8. \A event : \A m : m \in InLog(event)' <=>
        m \in InLog(event) \/ (m = n /\ Has(names, event))
  BY <1>4 DEF InLog, Has
<1>9. ~Has(names, "dispatch_stalled") => MarkAt' = MarkAt
  BY <1>4 DEF MarkAt, Has
<1>10. ASSUME MarkAt = {}, new = 1 PROVE \A i, j \in MarkAt' : i = j
  <2>1. ASSUME NEW i \in MarkAt' PROVE i = old + 1
    <3>1. i \in DOMAIN log' /\ i \notin DOMAIN log
      BY <1>4, <1>10 DEF MarkAt
    <3>2. i - old \in 1..1 /\ i \in Nat
      BY <1>2, <1>3, <1>4, <1>10, <3>1
    <3> QED BY <1>2, <3>2
  <2> QED BY <2>1
<1> QED BY <1>2, <1>5, <1>6, <1>7, <1>8, <1>9, <1>10 DEF new
-----------------------------------------------------------------------------
(***************************************************************************)
(* Each part of the invariant, kept by each form.                          *)
(***************************************************************************)
LEMMA SetupTypes ==
  ASSUME setup \in Setups
  PROVE  /\ setup.calls \in Nat /\ setup.edits \in Nat /\ setup.scans \in Nat
         /\ setup.timeout \in Nat /\ setup.silence \in Nat /\ setup.lines \in Nat
         /\ setup.reviewer \in Reviewers
BY DispatchAssumption

LEMMA TypesKept ==
  ASSUME DispatchInv, Forms \/ CliMoves \/ Besides
  PROVE  TypeOK'
<1>1. TypeOK /\ RetryOK /\ CopiesOK /\ setup.calls \in Nat /\ setup.edits \in Nat
      /\ setup.scans \in Nat /\ setup.timeout \in Nat /\ setup.silence \in Nat /\ setup.lines \in Nat
  BY SetupTypes DEF DispatchInv, TypeOK
<1>2. pc # "idle" => call \in 1..setup.calls
  BY <1>1 DEF DispatchInv, LogOK, TypeOK
<1> USE DEF TypeOK, Stays, kept, cli, main, repo, watchdog
<1>3. ASSUME NEW next, NEW names, Calls(next, names) PROVE TypeOK'
  BY <1>1, <1>3 DEF Calls
<1>4. ASSUME NEW names, Fails(names) PROVE TypeOK'
  BY <1>1, <1>4 DEF Fails, Children
<1>5. ASSUME NEW why, NEW names, RetriesAs(why, names) PROVE TypeOK'
  BY <1>1, <1>5 DEF RetriesAs, Children
<1>6. ASSUME NEW next, GoesOn(next) PROVE TypeOK'
  BY <1>1, <1>6 DEF GoesOn, Ways
<1>7. CASE TakesStatus \/ CopiesTree \/ Compares
  BY <1>1, <1>2, <1>7, ZenonT(60) DEF TakesStatus, CopiesTree, Compares
<1>8. CASE Spawns
  <2>1. try' \in 0..3
    BY <1>1, <1>8, NoneAssumption DEF Spawns, Spawn, RetryOK, Before
  <2>2. /\ wrote' = 0 /\ read' = 0 /\ age' = 0 /\ quiet' = 0 /\ raised' = FALSE
        /\ child' = "running" /\ fed' = ~setup.long /\ pc' \in {"feeding", "polling"}
        /\ UNCHANGED <<setup, call, retry, signal, tree, head, copies, crashed, scans>>
    BY <1>8 DEF Spawns, Spawn
  <2>3. 0 \in 0..setup.lines /\ 0 \in 0..0
    BY <1>1
  <2> QED BY <1>1, <2>1, <2>2, <2>3
<1>9. ASSUME NEW body, NEW next, TakesAnswer(body, next) PROVE TypeOK'
  BY <1>1, <1>9 DEF TakesAnswer
<1>10. CASE Seals \/ Mirrors \/ Finishes
  <2>1. CASE Seals
    BY <1>1, <2>1 DEF Seals
  <2>2. CASE Mirrors
    BY <1>1, <2>2 DEF Mirrors
  <2>3. CASE Finishes
    BY <1>1, <2>3 DEF Finishes
  <2> QED BY <1>10, <2>1, <2>2, <2>3
<1>11. CASE CliMoves
  <2>1. /\ wrote' \in 0..setup.lines /\ read' \in 0..wrote' /\ age' \in Nat /\ quiet' \in Nat
        /\ child' \in Children /\ fed' \in BOOLEAN /\ raised' \in BOOLEAN
    <3>1. CASE TakesLine
      BY <1>1, <3>1 DEF TakesLine, Children
    <3>2. CASE Tick
      BY <1>1, <3>2 DEF Tick, Children
    <3>3. CASE TakesPrompt \/ Exits
      BY <1>1, <3>3 DEF TakesPrompt, Exits, Children
    <3>4. CASE Prints
      BY <1>1, <3>4 DEF Prints, Children
    <3>5. CASE ReaderRaises
      BY <1>1, <3>5 DEF ReaderRaises, Children
    <3> QED BY <1>11, <3>1, <3>2, <3>3, <3>4, <3>5 DEF CliMoves
  <2> QED BY <1>1, <1>11, <2>1 DEF CliMoves, Others, Children
<1>12. CASE Crash
  BY <1>1, <1>2, <1>12 DEF Crash, Returns
<1>13. CASE Edit \/ Commit \/ AskAbort \/ Scan \/ MarkStalled \/ UNCHANGED vars
  <2>1. CASE Edit
    BY <1>1, <2>1 DEF Edit
  <2>2. CASE Commit
    BY <1>1, <2>2 DEF Commit
  <2>3. CASE AskAbort
    BY <1>1, <2>3 DEF AskAbort
  <2>4. CASE Scan
    BY <1>1, <2>4 DEF Scan
  <2>5. CASE MarkStalled
    BY <1>1, <2>5 DEF MarkStalled
  <2>6. CASE UNCHANGED vars
    BY <1>1, <2>6 DEF vars
  <2> QED BY <1>13, <2>1, <2>2, <2>3, <2>4, <2>5, <2>6
<1> QED
  BY <1>3, <1>4, <1>5, <1>6, <1>7, <1>8, <1>9, <1>10, <1>11, <1>12, <1>13 DEF Forms, Besides

LEMMA StagesKept ==
  ASSUME DispatchInv, Forms \/ CliMoves \/ Besides
  PROVE  ChildOK' /\ RetryOK' /\ CopiesOK'
<1>1. TypeOK /\ ChildOK /\ RetryOK /\ CopiesOK
  BY DEF DispatchInv
<1> USE DEF ChildOK, RetryOK, CopiesOK, Before, Alive, Copied, Stays, kept, cli, main, repo
<1>3. ASSUME NEW next, NEW names, Calls(next, names) PROVE ChildOK' /\ RetryOK' /\ CopiesOK'
  BY <1>1, <1>3, NoneAssumption DEF Calls
<1>4. ASSUME NEW names, Fails(names) PROVE ChildOK' /\ RetryOK' /\ CopiesOK'
  BY <1>1, <1>4 DEF Fails
<1>5. ASSUME NEW why, NEW names, RetriesAs(why, names) PROVE ChildOK' /\ RetryOK' /\ CopiesOK'
  BY <1>1, <1>5, NoneAssumption DEF RetriesAs
<1>6. ASSUME NEW next, GoesOn(next) PROVE ChildOK' /\ RetryOK' /\ CopiesOK'
  BY <1>1, <1>6 DEF GoesOn, Ways
<1>7. CASE TakesStatus \/ CopiesTree \/ Compares
  BY <1>1, <1>7 DEF TakesStatus, CopiesTree, Compares
<1>8. CASE Spawns
  BY <1>1, <1>8, NoneAssumption DEF Spawns, Spawn, TypeOK
<1>9. ASSUME NEW body, NEW next, TakesAnswer(body, next) PROVE ChildOK' /\ RetryOK' /\ CopiesOK'
  BY <1>1, <1>9 DEF TakesAnswer
<1>10. CASE Seals \/ Mirrors \/ Finishes
  BY <1>1, <1>10 DEF Seals, Mirrors, Finishes
<1>11. CASE CliMoves
  BY <1>1, <1>11 DEF CliMoves, TakesLine, ReaderRaises, Tick, TakesPrompt, Prints, Exits, Others
<1>12. CASE Crash
  BY <1>1, <1>12 DEF Crash, Returns
<1>13. CASE Edit \/ Commit \/ AskAbort \/ Scan \/ MarkStalled \/ UNCHANGED vars
  BY <1>1, <1>13 DEF Edit, Commit, AskAbort, Scan, MarkStalled, vars
<1> QED
  BY <1>3, <1>4, <1>5, <1>6, <1>7, <1>8, <1>9, <1>10, <1>11, <1>12, <1>13 DEF Forms, Besides

\* What was accepted makes a packet, and a sound one.
LEMMA AcceptedIsSound ==
  ASSUME setup \in Setups, setup' = setup, NEW body \in Bodies, Accepted(body),
         answer'.base \in Nat
  PROVE  PacketOf(body)' \in Packets /\ SoundPacket(PacketOf(body))'
<1>1. CASE setup.mode = "proposal"
  <2>1. body \in Proposals /\ body.abstains \in BOOLEAN
    BY <1>1 DEF Bodies, Proposals
  <2>2. <<>> \in [{} -> Findings] /\ DOMAIN <<>> = {}
    OBVIOUS
  <2> DEFINE packet == [findings |-> <<>>, blocking |-> {}, satisfied |-> ~body.abstains, base |-> None]
  <2>3. packet = PacketOf(body)'
    BY <1>1 DEF PacketOf
  <2>4. packet \in Packets
    BY <2>1, <2>2 DEF Packets
  <2>5. SoundPacket(packet)
    BY <2>2 DEF SoundPacket
  <2> HIDE DEF packet
  <2> QED BY <2>3, <2>4, <2>5 DEF SoundPacket
<1>2. CASE setup.mode # "proposal"
  <2>1. body \in Reviews
    BY <1>2 DEF Bodies
  <2>2. PICK F \in SUBSET Ids :
          body \in [findings : [F -> Findings], blocking : SUBSET F, satisfied : BOOLEAN]
    BY <2>1 DEF Reviews
  <2> DEFINE base == IF Unpatched(body) THEN None ELSE answer'.base
             packet == [findings |-> body.findings, blocking |-> body.blocking,
                        satisfied |-> body.satisfied, base |-> base]
  <2>3. packet = PacketOf(body)'
    BY <1>2 DEF PacketOf, Unpatched
  <2>4. base \in Nat \cup {None}
    OBVIOUS
  <2>5. packet \in Packets
    <3> HIDE DEF base
    <3> QED BY <2>2, <2>4 DEF Packets
  <2>6. SoundPacket(packet)
    <3>1. setup.reviewer \in Reviewers /\ packet.findings = body.findings
          /\ packet.blocking = body.blocking /\ packet.satisfied = body.satisfied
      BY SetupTypes
    <3> HIDE DEF packet
    <3> QED
      BY <1>2, <3>1 DEF Accepted, SoundPacket, Named, SevereIn, Unpatched, Coherent, InScopeOf
  <2> HIDE DEF packet
  <2> QED BY <2>3, <2>5, <2>6 DEF SoundPacket
<1> QED BY <1>1, <1>2

LEMMA AnswersKept ==
  ASSUME DispatchInv, Forms \/ CliMoves \/ Besides
  PROVE  AnswerOK' /\ BeforeOK' /\ KimiSawThisTree'
<1>1. TypeOK /\ AnswerOK /\ BeforeOK /\ KimiSawThisTree /\ setup \in Setups /\ tree \in Nat
  BY SetupTypes DEF DispatchInv, TypeOK
<1> DEFINE Kept == AnswerOK' /\ BeforeOK' /\ KimiSawThisTree'
<1>2. ASSUME pc' \notin Late, UNCHANGED <<before, tree>> PROVE Kept
  BY <1>1, <1>2 DEF AnswerOK, BeforeOK, KimiSawThisTree, Late
<1>3. ASSUME UNCHANGED <<setup, pc, answer, before>>, tree' \in {tree, tree + 1} PROVE Kept
  BY <1>1, <1>3 DEF AnswerOK, BeforeOK, KimiSawThisTree, PacketOf, SoundPacket
<1>4. ASSUME NEW body, NEW next, TakesAnswer(body, next) PROVE Kept
  <2>1. /\ answer'.base = tree
        /\ answer'.exit = "zero" /\ answer'.missed = wrote - read /\ answer'.marked = raised
        /\ answer'.body = body /\ wrote \in Nat /\ read \in Nat /\ (read = wrote \/ raised)
    BY <1>1, <1>4, SetupTypes DEF TakesAnswer, TypeOK
  <2>2. PacketOf(body)' \in Packets /\ SoundPacket(PacketOf(body))'
    BY <1>1, <1>4, <2>1, AcceptedIsSound DEF TakesAnswer
  <2> QED
    BY <1>1, <1>4, <2>1, <2>2 DEF TakesAnswer, AnswerOK, BeforeOK, KimiSawThisTree, Late
<1> USE DEF Late, Stays, kept, cli, main, repo
<1>5. ASSUME NEW next, NEW names, Calls(next, names) PROVE Kept
  BY <1>2, <1>5 DEF Calls
<1>6. ASSUME NEW names, Fails(names) PROVE Kept
  BY <1>2, <1>6 DEF Fails
<1>7. ASSUME NEW why, NEW names, RetriesAs(why, names) PROVE Kept
  BY <1>2, <1>7 DEF RetriesAs
<1>8. ASSUME NEW next, GoesOn(next) PROVE Kept
  BY <1>2, <1>8 DEF GoesOn, Ways
<1>9. CASE TakesStatus
  BY <1>1, <1>9 DEF TakesStatus, AnswerOK, BeforeOK, KimiSawThisTree
<1>10. CASE CopiesTree \/ Spawns
  BY <1>2, <1>10 DEF CopiesTree, Spawns, Spawn
<1>11. CASE Compares
  BY <1>1, <1>11 DEF Compares, AnswerOK, BeforeOK, KimiSawThisTree, PacketOf, SoundPacket
<1>12. CASE Seals \/ Mirrors
  BY <1>1, <1>12 DEF Seals, Mirrors, AnswerOK, BeforeOK, KimiSawThisTree
<1>13. CASE Finishes \/ Crash
  BY <1>2, <1>13 DEF Finishes, Crash, Returns
<1>14. CASE CliMoves \/ Edit \/ Commit \/ AskAbort \/ Scan \/ MarkStalled \/ UNCHANGED vars
  BY <1>3, <1>14 DEF CliMoves, Others, Edit, Commit, AskAbort, Scan, MarkStalled, vars
<1> QED
  BY <1>4, <1>5, <1>6, <1>7, <1>8, <1>9, <1>10, <1>11, <1>12, <1>13, <1>14 DEF Forms, Besides

LEMMA ArchiveKept ==
  ASSUME DispatchInv, Forms \/ CliMoves \/ Besides
  PROVE  KeptOK'
<1>1. KeptOK /\ AnswerOK
  BY DEF DispatchInv
<1> USE DEF Stays, kept, cli, main, repo
<1>2. ASSUME UNCHANGED <<setup, archived, mirrored>>, pc' \notin {"mirroring", "logging"} \/ pc' = pc
      PROVE  KeptOK'
  BY <1>1, <1>2 DEF KeptOK, SoundPacket
<1>3. CASE Seals
  <2>1. pc = "sealing" /\ archived' = PacketOf(answer.body) /\ setup' = setup
        /\ mirrored' = mirrored /\ archived \in {None, archived'} /\ pc' = "mirroring"
    BY <1>3 DEF Seals
  <2>2. archived' \in Packets /\ SoundPacket(archived') /\ archived' # None
    BY <1>1, <2>1, NoneAssumption DEF AnswerOK
  <2> QED BY <1>1, <2>1, <2>2 DEF KeptOK, SoundPacket
<1>4. CASE Mirrors
  BY <1>1, <1>4 DEF Mirrors, KeptOK, SoundPacket
<1>5. ASSUME NEW next, NEW names, Calls(next, names) PROVE KeptOK'
  BY <1>2, <1>5 DEF Calls
<1>6. ASSUME NEW names, Fails(names) PROVE KeptOK'
  BY <1>2, <1>6 DEF Fails
<1>7. ASSUME NEW why, NEW names, RetriesAs(why, names) PROVE KeptOK'
  BY <1>2, <1>7 DEF RetriesAs
<1>8. ASSUME NEW next, GoesOn(next) PROVE KeptOK'
  BY <1>2, <1>8 DEF GoesOn, Ways
<1>9. CASE TakesStatus \/ CopiesTree \/ Compares \/ Spawns \/ Finishes
  BY <1>2, <1>9 DEF TakesStatus, CopiesTree, Compares, Spawns, Spawn, Finishes
<1>10. ASSUME NEW body, NEW next, TakesAnswer(body, next) PROVE KeptOK'
  BY <1>2, <1>10 DEF TakesAnswer
<1>11. CASE CliMoves \/ Besides
  BY <1>2, <1>11
  DEF CliMoves, Besides, Others, Crash, Returns, Edit, Commit, AskAbort, Scan, MarkStalled, vars
<1> QED
  BY <1>3, <1>4, <1>5, <1>6, <1>7, <1>8, <1>9, <1>10, <1>11 DEF Forms

\* The last of some dispatches is one of them.
LEMMA LatestIsOne ==
  ASSUME NEW m \in Nat, NEW S \in SUBSET (1..m), S # {}
  PROVE  Latest(S) \in S
<1> DEFINE T == {k \in Nat : m - k \in S}
<1>1. \A n \in S : n \in Nat /\ m - n \in Nat /\ m - (m - n) = n
  OBVIOUS
<1>2. \A n \in S : m - n \in T
  BY <1>1
<1>3. PICK k \in T : \A j \in T : ~(<<j, k>> \in OpToRel(<, Nat))
  <2>1. T \subseteq Nat /\ T # {}
    BY <1>2
  <2> HIDE DEF T
  <2> QED BY <2>1, WFMin, NatLessThanWellFounded, Zenon
<1>4. \A j \in T : ~(j < k)
  <2>1. \A j \in T : j \in Nat
    OBVIOUS
  <2> HIDE DEF T
  <2> QED BY <1>3, <2>1, Zenon DEF OpToRel
<1>5. \A n \in S : n <= m - k
  <2>1. k \in Nat
    OBVIOUS
  <2>2. ASSUME NEW n \in S PROVE ~(m - n < k)
    <3> HIDE DEF T
    <3> QED BY <1>2, <1>4, <2>2
  <2> QED BY <1>1, <2>1, <2>2
<1> QED BY <1>5 DEF Latest

LEMMA LogKept ==
  ASSUME DispatchInv, Forms \/ CliMoves \/ Besides
  PROVE  LogOK'
<1>1. LogOK /\ KeptOK /\ call \in Nat /\ setup \in Setups
  BY SetupTypes DEF DispatchInv, TypeOK
<1> USE DEF Stays, kept, cli, main, repo, watchdog
\* Nothing is logged.
<1>2. ASSUME UNCHANGED <<log, call, crashed>>, stale' \subseteq 1..call,
             (pc' = "idle") = (pc = "idle"),
             archived # None /\ mirrored = archived => archived' # None /\ mirrored' = archived'
      PROVE  LogOK'
  <2>1. /\ \A n : OutcomeOf(n)' = OutcomeOf(n)
        /\ \A event : InLog(event)' = InLog(event)
    BY <1>2 DEF OutcomeOf, InLog
  <2> QED BY <1>1, <1>2, <2>1 DEF LogOK, Consistent
\* Something is, that ends nothing.
<1>3. ASSUME NEW names \in Seq(Kinds), Silent(names), ~Has(names, "dispatch_start"),
             ~Has(names, "dispatch_done"), NEW n \in 1..call, Logs(names, n),
             UNCHANGED <<call, crashed, archived, mirrored>>, stale' \subseteq 1..call,
             (pc' = "idle") = (pc = "idle")
      PROVE  LogOK'
  <2>1. /\ log' \in Seq(Entries)
        /\ \A i \in DOMAIN log' :
             log'[i].call = n \/ (i \in DOMAIN log /\ log'[i].call = log[i].call)
        /\ \A m : OutcomeOf(m)' = OutcomeOf(m)
        /\ \A event : \A m : m \in InLog(event)' <=>
             m \in InLog(event) \/ (m = n /\ Has(names, event))
    BY <1>1, <1>3, Grown DEF LogOK
  <2> QED BY <1>1, <1>3, <2>1 DEF LogOK, Consistent
\* The dispatch that runs ends.
<1>4. ASSUME NEW names \in Seq(Kinds), Ends(names), ~Has(names, "dispatch_start"),
             pc # "idle", Logs(names, call), pc' = "idle",
             Has(names, "dispatch_done") => archived # None /\ mirrored = archived,
             UNCHANGED <<call, crashed, archived, mirrored, stale>>
      PROVE  LogOK'
  <2>1. /\ log' \in Seq(Entries)
        /\ \A i \in DOMAIN log' :
             log'[i].call = call \/ (i \in DOMAIN log /\ log'[i].call = log[i].call)
        /\ \A m : m # call => OutcomeOf(m)' = OutcomeOf(m)
        /\ \E i : OutcomeOf(call)' = {i}
        /\ \A event : \A m : m \in InLog(event)' <=>
             m \in InLog(event) \/ (m = call /\ Has(names, event))
    BY <1>1, <1>4, Grown DEF LogOK
  <2>2. \A n \in 1..call : n # call => Consistent(n)'
    BY <1>1, <1>4, <2>1 DEF LogOK, Consistent
  <2>3. ASSUME call \in 1..call PROVE Consistent(call)'
    <3>1. /\ \A i, j \in OutcomeOf(call)' : i = j
          /\ OutcomeOf(call)' # {}
      BY <2>1
    <3>2. call \in InLog("dispatch_done")' => archived' # None /\ mirrored' = archived'
      <4>1. ASSUME call \in InLog("dispatch_done") PROVE archived # None /\ mirrored = archived
        BY <1>1, <2>3, <4>1 DEF LogOK, Consistent
      <4>2. UNCHANGED <<archived, mirrored>>
        BY <1>4
      <4> QED BY <1>4, <2>1, <4>1, <4>2
    <3>3. call' = call
      BY <1>4
    <3> QED BY <3>1, <3>2, <3>3 DEF Consistent
  <2> QED BY <1>1, <1>4, <2>1, <2>2, <2>3, SMTT(30) DEF LogOK
\* A dispatch is called, and ended at once or begun.
<1>5. ASSUME NEW next, NEW names, Calls(next, names) PROVE LogOK'
  <2> PICK n \in Nat : n = call + 1
    BY <1>1
  <2>1. /\ call' = n /\ n \notin 1..call /\ pc = "idle" /\ 1..n = 1..call \cup {n}
        /\ n >= 1 /\ \A m \in 1..call : m < n
    BY <1>1, <1>5 DEF Calls
  <2>2. OutcomeOf(n) = {} /\ \A event : n \notin InLog(event)
    BY <1>1, <2>1 DEF LogOK, OutcomeOf, InLog
  <2>3. /\ names \in Seq(Kinds) /\ ~Has(names, "dispatch_done")
        /\ \/ next = "idle" /\ (Ends(names) \/ (Silent(names) /\ ~Has(names, "dispatch_start")))
           \/ next = "preparing" /\ Silent(names)
    <3>1. CASE next = "idle"
      <4>1. names = <<>> => Silent(names) /\ ~Has(names, "dispatch_start")
        BY DEF Silent, Has
      <4> QED BY <1>5, <3>1, <4>1, Names DEF Calls
    <3>2. CASE next # "idle"
      <4>1. "dispatch_start" \in Kinds /\ "dispatch_start" \notin Outcomes
        BY DEF Kinds, Outcomes
      <4>2. names = <<"dispatch_start">> /\ next = "preparing"
        BY <1>5, <3>2 DEF Calls
      <4> QED BY <4>1, <4>2, Names
    <3> QED BY <3>1, <3>2
  <2>4. Logs(names, n)
    BY <1>5, <2>1 DEF Calls, Logs
  <2>5. /\ log' \in Seq(Entries)
        /\ \A i \in DOMAIN log' :
             log'[i].call = n \/ (i \in DOMAIN log /\ log'[i].call = log[i].call)
        /\ \A m : m # n => OutcomeOf(m)' = OutcomeOf(m)
        /\ Silent(names) => OutcomeOf(n)' = {}
        /\ Ends(names) => \E i : OutcomeOf(n)' = {i}
        /\ \A event : \A m : m \in InLog(event)' <=>
             m \in InLog(event) \/ (m = n /\ Has(names, event))
    BY ZenonT(60), <1>1, <2>2, <2>3, <2>4, Grown DEF LogOK
  <2>6. \A m \in 1..call : Consistent(m)'
    BY <1>1, <1>5, <2>1, <2>5 DEF LogOK, Consistent, Calls
  <2>7. Consistent(n)'
    <3>1. n \notin InLog("dispatch_done")'
      BY <2>2, <2>3, <2>5
    <3>2. /\ \A i, j \in OutcomeOf(n)' : i = j
          /\ n \in InLog("dispatch_start")' /\ pc' = "idle" => OutcomeOf(n)' # {}
      BY <1>5, <2>2, <2>3, <2>5 DEF Calls
    <3> QED BY <2>1, <3>1, <3>2 DEF Consistent
  <2>8. pc' # "idle" => n \notin crashed /\ OutcomeOf(n)' = {}
    BY <1>1, <1>5, <2>1, <2>3, <2>5 DEF LogOK, Calls
  <2>9. \A m \in 1..call' : Consistent(m)'
    BY <2>1, <2>6, <2>7
  <2>10. pc' # "idle" => OutcomeOf(call)' = {}
    BY <2>1, <2>8 DEF OutcomeOf
  <2>11. /\ crashed' \subseteq 1..call' /\ stale' \subseteq 1..call'
         /\ \A i \in DOMAIN log' : log'[i].call \in 1..call'
    BY <1>1, <1>5, <2>1, <2>5 DEF LogOK, Calls
  <2> QED BY <1>5, <2>1, <2>5, <2>8, <2>9, <2>10, <2>11 DEF LogOK, Calls
<1>6. ASSUME NEW names, Fails(names) PROVE LogOK'
  BY <1>1, <1>4, <1>6, Names DEF Fails
<1>7. ASSUME NEW why, NEW names, RetriesAs(why, names) PROVE LogOK'
  <2>1. /\ names \in Seq(Kinds) /\ Silent(names) /\ ~Has(names, "dispatch_start")
        /\ ~Has(names, "dispatch_done")
    BY <1>7, Names DEF RetriesAs, Silent, Has, Outcomes
  <2> QED BY <1>1, <1>3, <1>7, <2>1 DEF RetriesAs, LogOK
<1>8. ASSUME NEW next, GoesOn(next) PROVE LogOK'
  BY <1>1, <1>2, <1>8 DEF GoesOn, Ways, LogOK
<1>9. CASE TakesStatus \/ Compares \/ Spawns
  BY <1>1, <1>2, <1>9 DEF TakesStatus, Compares, Spawns, Spawn, LogOK
<1>10. ASSUME NEW event \in Notices, NEW n \in 1..call, Logs(<<event>>, n),
              UNCHANGED <<call, crashed, archived, mirrored>>, stale' \subseteq stale,
              (pc' = "idle") = (pc = "idle")
       PROVE  LogOK'
  <2>1. event \in Kinds /\ event \notin Outcomes /\ event \notin {"dispatch_start", "dispatch_done"}
    BY DEF Kinds, Outcomes, Notices
  <2> QED BY <1>1, <1>3, <1>10, <2>1, Names DEF LogOK
<1>11. CASE CopiesTree
  <2>1. "dispatch_workdir_prepared" \in Notices
    BY DEF Notices
  <2> QED BY <1>1, <1>10, <1>11, <2>1 DEF CopiesTree, LogOK
<1>12. ASSUME NEW body, NEW next, TakesAnswer(body, next) PROVE LogOK'
  BY <1>1, <1>2, <1>12 DEF TakesAnswer, LogOK
<1>13. CASE Seals \/ Mirrors
  BY <1>1, <1>2, <1>13 DEF Seals, Mirrors, LogOK, KeptOK
<1>14. CASE Finishes
  <2>1. /\ <<"dispatch_done">> \in Seq(Kinds) /\ Ends(<<"dispatch_done">>)
        /\ ~Has(<<"dispatch_done">>, "dispatch_start")
    BY Names DEF Kinds, Outcomes
  <2> QED BY <1>1, <1>4, <1>14, <2>1 DEF Finishes, KeptOK
<1>15. CASE CliMoves \/ Edit \/ Commit \/ AskAbort \/ UNCHANGED vars
  BY <1>1, <1>2, <1>15 DEF CliMoves, Others, Edit, Commit, AskAbort, vars, LogOK
<1>16. CASE Crash
  <2>1. /\ \A n : OutcomeOf(n)' = OutcomeOf(n)
        /\ \A event : InLog(event)' = InLog(event)
    BY <1>16 DEF Crash, OutcomeOf, InLog
  <2>2. /\ UNCHANGED <<log, call, archived, mirrored, stale>> /\ pc # "idle" /\ pc' = "idle"
        /\ crashed' = crashed \cup {call}
    BY <1>16 DEF Crash, Returns
  <2>3. ASSUME NEW n \in 1..call PROVE Consistent(n)'
    <3>1. n < call \/ n \in crashed'
      BY <1>1, <2>2
    <3>2. Consistent(n)
      BY <1>1, <2>2, <2>3 DEF LogOK
    <3>3. /\ call' = call /\ archived' = archived /\ mirrored' = mirrored
          /\ n \in crashed => n \in crashed'
      BY <2>2
    <3>4. /\ \A i, j \in OutcomeOf(n)' : i = j
          /\ n \in InLog("dispatch_done")' => archived' # None /\ mirrored' = archived'
      BY <2>1, <3>2, <3>3 DEF Consistent
    <3>5. n \in InLog("dispatch_start")' => OutcomeOf(n)' # {} \/ n \in crashed'
      BY <2>1, <3>1, <3>2, <3>3 DEF Consistent
    <3> QED BY <3>4, <3>5 DEF Consistent
  <2>4. /\ call \in 1..call /\ crashed \subseteq 1..call /\ stale \subseteq 1..call
        /\ log \in Seq(Entries) /\ \A i \in DOMAIN log : log[i].call \in 1..call
    BY <1>1, <2>2 DEF LogOK
  <2>5. /\ crashed' \subseteq 1..call' /\ stale' \subseteq 1..call'
        /\ log' \in Seq(Entries) /\ \A i \in DOMAIN log' : log'[i].call \in 1..call'
    BY <2>2, <2>4
  <2>6. \A n \in 1..call' : Consistent(n)'
    BY <2>2, <2>3
  <2> QED BY <2>2, <2>5, <2>6 DEF LogOK
<1>17. CASE Scan
  <2>1. InLog("dispatch_start") \subseteq 1..call
    BY <1>1 DEF LogOK, InLog
  <2>2. Stalled \subseteq 1..call
    BY <1>1, <2>1, LatestIsOne DEF Stalled
  <2> QED BY <1>1, <1>2, <1>17, <2>2 DEF Scan
<1>18. CASE MarkStalled
  <2> DEFINE found == CHOOSE n \in stale : TRUE
  <2>1. found \in 1..call
    BY <1>1, <1>18 DEF MarkStalled, LogOK
  <2>2. "dispatch_stalled" \in Notices /\ found \in Nat
    BY <1>1, <2>1 DEF Notices
  <2>3. Logs(<<"dispatch_stalled">>, found)
    <3>1. log' = Append(log, Entry("dispatch_stalled", found)) /\ log \in Seq(Entries)
      BY <1>1, <1>18 DEF MarkStalled, LogOK
    <3> HIDE DEF found
    <3>2. Entry("dispatch_stalled", found) \in Entries
      BY <2>2 DEF Entry, Entries, Kinds
    <3>3. log' = log \o <<Entry("dispatch_stalled", found)>>
      BY <3>1, <3>2, AppendIsConcat
    <3> QED BY <3>3, FewEvents DEF Logs
  <2> HIDE DEF found
  <2> QED BY <1>1, <1>10, <1>18, <2>1, <2>2, <2>3 DEF MarkStalled
<1> QED
  BY <1>5, <1>6, <1>7, <1>8, <1>9, <1>11, <1>12, <1>13, <1>14, <1>15, <1>16, <1>17, <1>18
  DEF Forms, Besides

\* Only the watchdog marks, and only what it has found in a log with no mark.
LEMMA MarksKept ==
  ASSUME DispatchInv, Forms \/ CliMoves \/ Besides
  PROVE  MarksOK'
<1>1. MarksOK /\ log \in Seq(Entries) /\ call \in Nat /\ stale \subseteq 1..call
  BY DEF DispatchInv, LogOK, TypeOK
<1> USE DEF Stays, watchdog
<1>2. ASSUME UNCHANGED log, stale' \in {stale, Stalled} PROVE MarksOK'
  <2>1. Stalled # {} => MarkAt = {}
    <3>1. Stalled # {} => InLog("dispatch_stalled") = {}
      BY DEF Stalled, Terminal
    <3>2. \A i \in MarkAt : log[i].call \in InLog("dispatch_stalled")
      BY DEF InLog, MarkAt
    <3> QED BY <3>1, <3>2
  <2>2. MarkAt' = MarkAt
    BY <1>2 DEF MarkAt
  <2> QED BY <1>1, <1>2, <2>1, <2>2 DEF MarksOK
<1>3. ASSUME NEW names \in Seq(Kinds), ~Has(names, "dispatch_stalled"), NEW n \in Nat,
             Logs(names, n), UNCHANGED stale
      PROVE  MarksOK'
  <2>1. MarkAt' = MarkAt
    BY <1>1, <1>3, Grown
  <2> QED BY <1>1, <1>3, <2>1 DEF MarksOK
<1>4. ASSUME NEW next, NEW names, Calls(next, names) PROVE MarksOK'
  <2>1. names \in Seq(Kinds) /\ ~Has(names, "dispatch_stalled")
    BY <1>4, Names, NoMarks DEF Calls, Kinds
  <2>2. Logs(names, call + 1) /\ UNCHANGED stale
    BY <1>4 DEF Calls, Logs
  <2> QED BY <1>1, <1>3, <2>1, <2>2
<1>5. ASSUME NEW names, Fails(names) PROVE MarksOK'
  BY <1>1, <1>3, <1>5, Names, NoMarks DEF Fails
<1>6. ASSUME NEW why, NEW names, RetriesAs(why, names) PROVE MarksOK'
  BY <1>1, <1>3, <1>6, Names, NoMarks DEF RetriesAs
<1>7. CASE CopiesTree \/ Finishes
  BY <1>1, <1>3, <1>7, Names, NoMarks DEF CopiesTree, Finishes, Kinds, Outcomes, Notices
<1>8. CASE \/ (\E next : GoesOn(next)) \/ TakesStatus \/ Compares \/ Spawns
           \/ (\E body, next : TakesAnswer(body, next)) \/ Seals \/ Mirrors \/ CliMoves
           \/ Crash \/ Edit \/ Commit \/ AskAbort \/ Scan \/ UNCHANGED vars
  BY <1>2, <1>8
  DEF GoesOn, TakesStatus, Compares, Spawns, Spawn, TakesAnswer, Seals, Mirrors, CliMoves,
      Others, Crash, Edit, Commit, AskAbort, Scan, vars
<1>9. CASE MarkStalled
  <2> DEFINE found == CHOOSE n \in stale : TRUE
  <2>1. found \in Nat /\ MarkAt = {} /\ stale' = {}
        /\ log' = Append(log, Entry("dispatch_stalled", found))
    <3>1. stale # {} /\ \A n \in stale : n \in Nat
      BY <1>1, <1>9 DEF MarkStalled
    <3>2. found \in stale
      BY <3>1
    <3> HIDE DEF found
    <3> QED BY <1>1, <1>9, <3>1, <3>2 DEF MarkStalled, MarksOK, found
  <2> HIDE DEF found
  <2>2. Entry("dispatch_stalled", found) \in Entries /\ <<"dispatch_stalled">> \in Seq(Kinds)
        /\ Len(<<"dispatch_stalled">>) = 1
    BY <2>1, Names DEF Entry, Entries, Kinds, Notices
  <2>3. Logs(<<"dispatch_stalled">>, found)
    BY <1>1, <2>1, <2>2, AppendIsConcat, FewEvents, ZenonT(60) DEF Logs
  <2>4. \A i, j \in MarkAt' : i = j
    BY <1>1, <2>1, <2>2, <2>3, Grown
  <2> QED BY <2>1, <2>4 DEF MarksOK
<1> QED BY <1>4, <1>5, <1>6, <1>7, <1>8, <1>9 DEF Forms, Besides
-----------------------------------------------------------------------------
(***************************************************************************)
(* The theorems. A snapshot is taken by somebody who only reads.           *)
(***************************************************************************)
LEMMA InvInit == ResumeInit => DispatchInv
<1> SUFFICES ASSUME Init PROVE DispatchInv
  BY DEF ResumeInit
<1>1. TypeOK
  <2>1. /\ setup.calls \in Nat /\ setup.edits \in Nat /\ setup.scans \in Nat /\ setup.lines \in Nat
        /\ setup \in Setups
    BY SetupTypes, DispatchAssumption DEF Init
  <2>2. \A k \in Nat : 0 \in 0..k
    OBVIOUS
  <2> QED BY <2>1, <2>2 DEF Init, TypeOK
<1>2. ChildOK /\ RetryOK /\ AnswerOK /\ KeptOK /\ CopiesOK /\ BeforeOK /\ KimiSawThisTree
  BY NoneAssumption
  DEF Init, ChildOK, RetryOK, AnswerOK, KeptOK, CopiesOK, BeforeOK, KimiSawThisTree, Late, Before
<1>3. LogOK
  <2>1. log = <<>> /\ log \in Seq(Entries) /\ DOMAIN log = {}
    BY DEF Init
  <2> QED BY <2>1 DEF Init, LogOK
<1>4. MarksOK
  BY DEF Init, MarksOK, MarkAt
<1> QED BY <1>1, <1>2, <1>3, <1>4 DEF DispatchInv

LEMMA InvKept == DispatchInv /\ [Next]_vars => DispatchInv'
<1> SUFFICES ASSUME DispatchInv, [Next]_vars PROVE DispatchInv'
  OBVIOUS
<1> QED
  BY StepForms, TypesKept, StagesKept, AnswersKept, ArchiveKept, LogKept, MarksKept DEF DispatchInv

LEMMA OnlyReads == [ResumeNext]_<<vars, snap>> => [Next]_vars
BY DEF ResumeNext, Snapshot

LEMMA InvHolds == ResumeSpec => []DispatchInv
<1>1. DispatchInv /\ [ResumeNext]_<<vars, snap>> => DispatchInv'
  BY InvKept, OnlyReads
<1> QED BY InvInit, <1>1, PTL DEF ResumeSpec

\* The variables keep their types: in particular a CLI is invoked at most three
\* times in one dispatch, whatever it answers.
THEOREM DispatchTypes == ResumeSpec => []TypeOK
<1>1. DispatchInv => TypeOK
  BY DEF DispatchInv
<1> QED BY InvHolds, <1>1, PTL

\* A packet is sealed only of the answer of a CLI that exited zero, and one of
\* whose lines some were not taken has the marker of the thread that raised.
THEOREM SealedAnswersAreWhole == ResumeSpec => []AnswerIsWhole
<1>1. DispatchInv => AnswerIsWhole
  BY DEF DispatchInv, AnswerOK, AnswerIsWhole, Late
<1> QED BY InvHolds, <1>1, PTL

\* What is sealed says what blocks, in scope, by a reviewer who may say it.
THEOREM SealedVerdictsAreSound == ResumeSpec => []VerdictIsSound
<1>1. DispatchInv => VerdictIsSound
  BY DEF DispatchInv, KeptOK, SoundPacket, VerdictIsSound
<1> QED BY InvHolds, <1>1, PTL

\* A dispatch has one outcome in the log, and is done when its packet is kept.
THEOREM LogStaysTrue == ResumeSpec => []LogIsTrue
<1>1. ASSUME DispatchInv, NEW n \in 1..call
      PROVE  /\ Cardinality(OutcomeOf(n)) <= 1
             /\ n \in InLog("dispatch_done") => archived # None /\ mirrored = archived
             /\ n \in InLog("dispatch_start") /\ n < call => OutcomeOf(n) # {} \/ n \in crashed
  <2>1. Consistent(n)
    BY <1>1 DEF DispatchInv, LogOK
  <2>2. OutcomeOf(n) = {} \/ \E i : OutcomeOf(n) = {i}
    BY <2>1 DEF Consistent
  <2>3. Cardinality(OutcomeOf(n)) <= 1
    <3>1. CASE OutcomeOf(n) = {}
      BY <3>1, FS_EmptySet
    <3>2. ASSUME NEW i, OutcomeOf(n) = {i} PROVE Cardinality(OutcomeOf(n)) <= 1
      <4>1. Cardinality({i}) = 1
        BY FS_Singleton
      <4> QED BY <3>2, <4>1
    <3> QED BY <2>2, <3>1, <3>2
  <2> QED BY <2>1, <2>3 DEF Consistent
<1>2. DispatchInv => LogIsTrue
  BY <1>1 DEF LogIsTrue
<1> QED BY InvHolds, <1>2, PTL

\* A dispatch that ended leaves no CLI and no copy, unless its process died.
THEOREM NothingIsLeft == ResumeSpec => []NothingLeft
<1>1. DispatchInv => NothingLeft
  BY DEF DispatchInv, ChildOK, CopiesOK, NothingLeft, Alive, Copied
<1> QED BY InvHolds, <1>1, PTL

\* A Kimi review is sealed of the files it was shown.
THEOREM KimiSealsWhatItSaw == ResumeSpec => []KimiSawThisTree
<1>1. DispatchInv => KimiSawThisTree
  BY DEF DispatchInv
<1> QED BY InvHolds, <1>1, PTL

\* The log has one stall mark for a start at the most.
THEOREM StartsAreMarkedOnce == ResumeSpec => []MarkedOnce
<1>1. ASSUME DispatchInv, NEW n \in 1..setup.calls
      PROVE  Cardinality(Marks(n)) <= 1
  <2>1. Marks(n) \subseteq MarkAt /\ \A i, j \in MarkAt : i = j
    BY <1>1 DEF DispatchInv, MarksOK, MarkAt, Marks, Entry
  <2>2. Marks(n) = {} \/ \E i : Marks(n) = {i}
    <3>1. \A i, j \in Marks(n) : i = j
      BY <2>1
    <3>2. ASSUME NEW i \in Marks(n) PROVE Marks(n) = {i}
      BY <3>1
    <3>3. CASE Marks(n) # {}
      <4>1. PICK i : i \in Marks(n)
        BY <3>3
      <4> QED BY <4>1, <3>2
    <3> QED BY <3>3
  <2>3. ASSUME NEW i, Marks(n) = {i} PROVE Cardinality(Marks(n)) <= 1
    <3>1. Cardinality({i}) = 1
      BY FS_Singleton
    <3> QED BY <2>3, <3>1
  <2>4. CASE Marks(n) = {}
    BY <2>4, FS_EmptySet
  <2> QED BY <2>2, <2>3, <2>4
<1>2. DispatchInv => MarkedOnce
  BY <1>1 DEF MarkedOnce
<1> QED BY InvHolds, <1>2, PTL
-----------------------------------------------------------------------------
(***************************************************************************)
(* A snapshot that reports no drift is one of a single moment: the log and *)
(* the copy only grow, so that equal marks mean that neither did.          *)
(***************************************************************************)
SnapRecords ==
  [stage : {"none", "marked", "walked", "read", "done"}, n : Nat,
   mark : (Nat \X (Packets \cup {None})) \cup {None}, events : Seq(Entries),
   review : ReviewRecords \cup {None}, drift : BOOLEAN,
   action : {None, "operator_decision_required", "close_iteration", "apply_proposed_patch",
             "wait_for_dispatch", "dispatch_cross_family_reviewer"}]
SnapOK ==
  /\ snap \in SnapRecords
  /\ snap.stage \in {"marked", "walked", "read"} =>
       /\ snap.mark \in Nat \X (Packets \cup {None})
       /\ snap.mark[1] <= Len(log) /\ snap.mark[2] \in {None, mirrored}
  /\ snap.stage \in {"walked", "read"} =>
       /\ snap.mark[1] <= Len(snap.events) /\ Len(snap.events) <= Len(log)
       /\ \A i \in 1..Len(snap.events) : snap.events[i] = log[i]
  /\ snap.stage = "read" =>
       /\ snap.review = None => snap.mark[2] = None
       /\ snap.review # None => mirrored # None /\ snap.review.findings = mirrored.findings

\* The log is only added to, and the copy never changes once it is there.
LEMMA OnlyGrows ==
  ASSUME DispatchInv, [Next]_vars
  PROVE  /\ Len(log) \in Nat /\ Len(log') \in Nat /\ Len(log) <= Len(log')
         /\ \A i \in 1..Len(log) : log'[i] = log[i]
         /\ mirrored # None => mirrored' = mirrored
<1>1. log \in Seq(Entries) /\ log' \in Seq(Entries) /\ KeptOK /\ call \in Nat /\ call' \in Nat
      /\ stale \subseteq 1..call
  BY InvKept DEF DispatchInv, LogOK, TypeOK, KeptOK
<1>2. Len(log) \in Nat /\ Len(log') \in Nat
  BY <1>1, LenProperties
<1> DEFINE Longer == Len(log) <= Len(log') /\ \A i \in 1..Len(log) : log'[i] = log[i]
<1>3. ASSUME log' = log PROVE Longer
  BY <1>2, <1>3
<1>4. ASSUME NEW names \in Seq(Kinds), NEW n \in Nat, Logs(names, n) PROVE Longer
  <2> DEFINE more == Events(names, n)
  <2>1. more \in Seq(Entries)
    <3>1. names \in [1..Len(names) -> Kinds] /\ Len(names) \in Nat
      BY LenProperties
    <3>2. more \in [1..Len(names) -> Entries]
      BY <3>1 DEF Events, Entry, Entries
    <3> HIDE DEF more
    <3> QED BY <3>1, <3>2, SeqDef
  <2>2. log' = log \o more
    BY <1>4 DEF Logs
  <2> HIDE DEF more
  <2>3. Len(more) \in Nat
    BY <2>1, LenProperties
  <2>4. /\ Len(log \o more) = Len(log) + Len(more)
        /\ \A i \in 1..Len(log) + Len(more) :
             (log \o more)[i] = IF i <= Len(log) THEN log[i] ELSE more[i - Len(log)]
    BY <1>1, <2>1, ConcatProperties
  <2> QED BY <1>2, <2>2, <2>3, <2>4
<1>5. ASSUME NEW event, NEW n, event \in Kinds, n \in Nat, Logs(<<event>>, n) PROVE Longer
  BY <1>4, <1>5, Names
<1>6. Longer
  <2>1. CASE \E next, names : Calls(next, names)
    BY <1>1, <1>4, <1>5, <2>1, Names DEF Calls, Kinds
  <2>2. CASE (\E names : Fails(names)) \/ (\E why, names : RetriesAs(why, names))
    BY <1>1, <1>4, <2>2, Names DEF Fails, RetriesAs
  <2>3. CASE CopiesTree \/ Finishes
    BY <1>1, <1>5, <2>3 DEF CopiesTree, Finishes, Kinds, Outcomes, Notices
  <2>4. CASE MarkStalled
    <3> DEFINE found == CHOOSE n \in stale : TRUE
    <3>1. log' = Append(log, Entry("dispatch_stalled", found)) /\ stale # {}
      BY <2>4 DEF MarkStalled
    <3>2. found \in Nat
      <4>1. found \in stale
        BY <3>1
      <4> HIDE DEF found
      <4> QED BY <1>1, <4>1
    <3> HIDE DEF found
    <3>3. Entry("dispatch_stalled", found) \in Entries /\ "dispatch_stalled" \in Kinds
      BY <3>2 DEF Entry, Entries, Kinds, Notices
    <3>4. Logs(<<"dispatch_stalled">>, found)
      BY <1>1, <3>1, <3>3, AppendIsConcat, FewEvents, ZenonT(60) DEF Logs
    <3> QED BY <1>5, <3>2, <3>3, <3>4
  <2>5. CASE \/ (\E next : GoesOn(next)) \/ TakesStatus \/ Compares \/ Spawns
             \/ (\E body, next : TakesAnswer(body, next)) \/ Seals \/ Mirrors \/ CliMoves
             \/ Crash \/ Edit \/ Commit \/ AskAbort \/ Scan \/ UNCHANGED vars
    BY <1>3, <2>5
    DEF GoesOn, TakesStatus, Compares, Spawns, Spawn, TakesAnswer, Seals, Mirrors, CliMoves,
        Others, Crash, Edit, Commit, AskAbort, Scan, vars
  <2> QED BY StepForms, <2>1, <2>2, <2>3, <2>4, <2>5 DEF Forms, Besides
<1>7. mirrored # None => mirrored' = mirrored
  BY <1>1, StepForms
  DEF Forms, Besides, Calls, Fails, RetriesAs, GoesOn, TakesStatus, CopiesTree, Compares, Spawns,
      Spawn, TakesAnswer, Seals, Mirrors, Finishes, CliMoves, Others, Crash, Edit, Commit, AskAbort,
      Scan, MarkStalled, vars, main, kept, KeptOK
<1> QED BY <1>2, <1>6, <1>7

LEMMA SnapInit == ResumeInit => SnapOK
<1> SUFFICES ASSUME snap = NoSnapshot PROVE SnapOK
  BY DEF ResumeInit
<1>1. <<>> \in Seq(Entries)
  OBVIOUS
<1> QED BY <1>1 DEF NoSnapshot, SnapOK, SnapRecords

LEMMA SnapKept ==
  ASSUME DispatchInv, SnapOK, [ResumeNext]_<<vars, snap>>
  PROVE  SnapOK'
<1>1. /\ Len(log) \in Nat /\ Len(log') \in Nat /\ Len(log) <= Len(log')
      /\ \A i \in 1..Len(log) : log'[i] = log[i]
      /\ mirrored # None => mirrored' = mirrored
      /\ log \in Seq(Entries) /\ mirrored \in Packets \cup {None}
  BY OnlyGrows, OnlyReads DEF DispatchInv, LogOK, KeptOK
<1>2. snap \in SnapRecords /\ Len(snap.events) \in Nat
  <2>1. snap \in SnapRecords /\ snap.events \in Seq(Entries)
    BY DEF SnapOK, SnapRecords
  <2> QED BY <2>1, LenProperties
<1>3. CASE UNCHANGED snap
  <2>1. snap.stage \in {"marked", "walked", "read"} => snap.mark[1] \in Nat
    BY DEF SnapOK
  <2> QED BY <1>1, <1>2, <1>3, <2>1 DEF SnapOK
<1>4. CASE BeginSnapshot /\ UNCHANGED vars
  <2>1. Watermark \in Nat \X (Packets \cup {None}) /\ Watermark[1] = Len(log)
        /\ Watermark[2] = mirrored
    BY <1>1 DEF Watermark
  <2>2. snap' = [stage |-> "marked", n |-> snap.n + 1, mark |-> Watermark, events |-> <<>>,
                 review |-> None, drift |-> FALSE, action |-> None]
    BY <1>4 DEF BeginSnapshot, NoSnapshot
  <2>3. <<>> \in Seq(Entries) /\ snap.n \in Nat
    BY <1>2 DEF SnapRecords
  <2>4. UNCHANGED <<log, mirrored>>
    BY <1>4 DEF vars, main, kept
  <2>5. snap' \in SnapRecords /\ snap'.stage = "marked" /\ snap'.mark = Watermark
    BY <2>1, <2>2, <2>3 DEF SnapRecords
  <2> QED BY <1>1, <2>1, <2>4, <2>5 DEF SnapOK
<1>5. CASE WalkLog /\ UNCHANGED vars
  <2>1. UNCHANGED <<log, mirrored>> /\ snap.stage = "marked"
        /\ snap' = [snap EXCEPT !.stage = "walked", !.events = log]
    BY <1>5 DEF WalkLog, vars, main, kept
  <2>2. snap' \in SnapRecords /\ snap'.stage = "walked" /\ snap'.mark = snap.mark
        /\ snap'.events = log
    BY <1>1, <1>2, <2>1 DEF SnapRecords
  <2> QED BY <1>1, <2>1, <2>2 DEF SnapOK
<1>6. CASE ReadReviews /\ UNCHANGED vars
  <2>1. UNCHANGED <<log, mirrored>> /\ snap.stage = "walked"
    BY <1>6 DEF ReadReviews, vars, main, kept
  <2>2. PICK named \in BOOLEAN :
          snap' = [snap EXCEPT !.stage = "read",
            !.review = IF mirrored = None THEN None
                       ELSE [findings |-> mirrored.findings,
                             class |-> Classification(BundleSha(snap.events), StateOf, named)]]
    BY ZenonT(60), <1>6 DEF ReadReviews
  <2>3. Classification(BundleSha(snap.events), StateOf, named) \in
          {"consumed", "closing", "invalid", "superseded", "open"}
    BY DEF Classification
  <2>4. /\ mirrored = None => snap'.review = None
        /\ mirrored # None =>
             snap'.review \in ReviewRecords /\ snap'.review.findings = mirrored.findings
        /\ snap'.stage = "read" /\ snap'.mark = snap.mark /\ snap'.events = snap.events
        /\ snap' \in SnapRecords
    <3> DEFINE class == Classification(BundleSha(snap.events), StateOf, named)
               record == IF mirrored = None THEN None
                         ELSE [findings |-> mirrored.findings, class |-> class]
    <3>1. class \in {"consumed", "closing", "invalid", "superseded", "open"}
      BY <2>3
    <3> HIDE DEF class
    <3>2. /\ mirrored = None => record = None
          /\ mirrored # None => record \in ReviewRecords /\ record.findings = mirrored.findings
      BY <1>1, <3>1 DEF Packets, ReviewRecords
    <3>3. snap' = [snap EXCEPT !.stage = "read", !.review = record]
      BY <2>2 DEF class
    <3> HIDE DEF record
    <3>4. snap' \in SnapRecords /\ snap'.review = record /\ snap'.stage = "read"
          /\ snap'.mark = snap.mark /\ snap'.events = snap.events
      BY <1>2, <3>2, <3>3 DEF SnapRecords
    <3> QED BY <3>2, <3>4
  <2> QED BY <1>1, <1>2, <2>1, <2>4, ReviewAssumption DEF SnapOK
<1>7. CASE EndSnapshot /\ UNCHANGED vars
  <2>1. snap' = [snap EXCEPT !.stage = "done", !.drift = (Watermark # snap.mark),
                             !.action = NextAction(StateOf, snap.events, snap.review)]
    BY <1>7 DEF EndSnapshot
  <2>2. NextAction(StateOf, snap.events, snap.review) \in
          {"operator_decision_required", "close_iteration", "apply_proposed_patch",
           "wait_for_dispatch", "dispatch_cross_family_reviewer"}
    BY DEF NextAction
  <2>3. snap' \in SnapRecords /\ snap'.stage = "done"
    <3> DEFINE action == NextAction(StateOf, snap.events, snap.review)
               drift == Watermark # snap.mark
    <3>1. action \in {"operator_decision_required", "close_iteration", "apply_proposed_patch",
                      "wait_for_dispatch", "dispatch_cross_family_reviewer"}
      BY <2>2
    <3>2. snap' = [snap EXCEPT !.stage = "done", !.drift = drift, !.action = action]
      BY <2>1
    <3>3. drift \in BOOLEAN
      OBVIOUS
    <3> HIDE DEF action, drift
    <3> QED BY <1>2, <3>1, <3>2, <3>3 DEF SnapRecords
  <2> QED BY <2>3 DEF SnapOK
<1> QED BY <1>3, <1>4, <1>5, <1>6, <1>7 DEF ResumeNext, Snapshot

\* A snapshot that reports no drift holds the whole log and the review that were
\* there together when it was finished.
THEOREM SnapshotsAreWhole == ResumeSpec => SnapshotIsWhole
<1> DEFINE Whole ==
      snap.stage = "read" /\ snap'.stage = "done" /\ ~snap'.drift =>
        /\ snap'.events = log
        /\ (snap'.review = None) = (mirrored = None)
        /\ snap'.review # None => snap'.review.findings = mirrored.findings
<1>1. ASSUME DispatchInv, SnapOK, [ResumeNext]_<<vars, snap>>,
             snap.stage = "read", snap'.stage = "done", ~snap'.drift
      PROVE  /\ snap'.events = log
             /\ (snap'.review = None) = (mirrored = None)
             /\ snap'.review # None => snap'.review.findings = mirrored.findings
  <2>1. EndSnapshot
    BY <1>1 DEF ResumeNext, Snapshot, BeginSnapshot, WalkLog, ReadReviews
  <2>2. snap \in SnapRecords /\ snap.events \in Seq(Entries) /\ log \in Seq(Entries)
        /\ mirrored \in Packets \cup {None}
    BY <1>1 DEF SnapOK, SnapRecords, DispatchInv, LogOK, KeptOK
  <2>3. snap'.events = snap.events /\ snap'.review = snap.review
        /\ snap'.drift = (Watermark # snap.mark)
    BY <2>1, <2>2 DEF EndSnapshot, SnapRecords
  <2>4. snap.mark = <<Len(log), mirrored>>
    BY <1>1, <2>3 DEF Watermark
  <2>5. snap.mark[1] = Len(log) /\ snap.mark[2] = mirrored
    BY <2>4
  <2>6. Len(log) \in Nat /\ Len(snap.events) \in Nat
    BY <2>2, LenProperties
  <2>7. Len(snap.events) = Len(log) /\ \A i \in 1..Len(log) : snap.events[i] = log[i]
    BY <1>1, <2>5, <2>6 DEF SnapOK
  <2>8. snap.events = log
    BY <2>2, <2>7, SeqEqual
  <2> QED BY <1>1, <2>3, <2>5, <2>8 DEF SnapOK
<1>2. DispatchInv /\ SnapOK /\ [ResumeNext]_<<vars, snap>> => [Whole]_snap
  BY <1>1
<1>3. DispatchInv /\ SnapOK /\ [ResumeNext]_<<vars, snap>> => SnapOK'
  BY SnapKept
<1> QED BY <1>2, <1>3, SnapInit, InvHolds, PTL DEF ResumeSpec, SnapshotIsWhole
=============================================================================
