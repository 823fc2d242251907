---------------------------- MODULE KimiDispatch ----------------------------
(***************************************************************************)
(* _dispatch_kimi: the CLI runs in a disposable copy of the repository,    *)
(* and what git reports of the repository before and after must agree.     *)
(* Failures it may recover from are tried once more.                       *)
(***************************************************************************)
EXTENDS DispatchBase

VARIABLES
  head,    \* version of the files under review that is committed
  before,  \* status_before
  copies   \* disposable work directories on disk
repo == <<head, before, copies>>

KimiBegin ==
  Begin(\/ Stop(<<>>)
        \/ Stop(<<"dispatch_failed">>)
        \/ Stop(<<"dispatch_refused">>)
        \/ Go) /\ UNCHANGED repo
KimiPrepare == Prepare("snapshotting") /\ UNCHANGED repo

\* _repo_status_snapshot: the content of what git calls modified; nothing
\* when git fails or takes more than a minute.
StatusOf == {IF tree = head THEN None ELSE tree, None}
KimiSnapshot ==
  /\ pc = "snapshotting" /\ Quietly
  /\ \/ /\ before' \in StatusOf /\ pc' = "copying"
        /\ UNCHANGED <<setup, call, try, retry, answer, kept, log>>
     \/ Failed(<<>>) /\ UNCHANGED before
  /\ UNCHANGED <<head, copies>>

\* _sweep_stale_workdirs removes what a killed dispatch left, as far as it can.
Swept == SUBSET copies
\* _make_disposable_workdir sweeps first. A copy for which there is no room is removed, and Kimi is not run without one.
KimiCopy ==
  /\ pc = "copying" /\ Quietly
  /\ \E swept \in Swept :
       \/ /\ copies' = (copies \ swept) \cup {call} /\ pc' = "spawning"
          /\ log' = Append(log, Entry("dispatch_workdir_prepared", call))
          /\ UNCHANGED <<setup, call, try, retry, answer, kept>>
       \/ /\ copies' = copies \ swept
          /\ (Failed(<<"dispatch_workdir_isolation_failed">>) \/ Failed(<<>>))
  /\ UNCHANGED <<head, before>>

\* The legacy CLI reads the prompt from stdin, written by the main thread;
\* Kimi Code has it as an argument, or is not started when it is too long.
KimiSpawn == (\E legacy \in BOOLEAN : (legacy \/ ~setup.long) /\ Spawn(legacy)) /\ UNCHANGED repo
\* cleanup in the finally of main.
KimiFailed(names) == Failed(names) /\ copies' = copies \ {call} /\ UNCHANGED <<head, before>>
KimiNotFound == Unspawned /\ KimiFailed(<<>>)

\* A hang and exit code 75 are retryable; an aborted dispatch is not, and the
\* signal is looked for in the copy, where nobody puts it.
Heard == FALSE
KimiRetries(names) ==
  IF retry = None
  THEN Again(Append(names, "dispatch_retry_for_retryable_invocation"), "invocation") /\ UNCHANGED repo
  ELSE KimiFailed(names)
KimiTimesOut ==
  TimedOut(Heard, setup.timeout + setup.silence) /\ KimiRetries(<<"dispatch_aborted">>)
KimiContinue == Continue(Heard, setup.timeout + setup.silence) /\ UNCHANGED repo
KimiWatch == KimiTimesOut \/ KimiContinue
KimiUndrained == Undrained /\ KimiFailed(<<>>)
KimiExit ==
  \/ Exited("tempfail") /\ KimiRetries(<<>>)
  \/ Exited("failed") /\ KimiFailed(<<>>)

KimiReview(review) == Unpatched(review) /\ Named(review) /\ Coherent(review)
KimiProposal(p)    == SoundProposal(p)
KimiAccepts(text) ==
  /\ Extracts(text)
  /\ IF setup.mode = "proposal" THEN KimiProposal(text.body) ELSE KimiReview(text.body)
KimiUnparsed ==
  IF retry = None
  THEN Again(<<"dispatch_retry_for_parse_fail">>, "parse") /\ UNCHANGED repo
  ELSE KimiFailed(<<>>)
KimiReturns ==
  /\ Exited("zero")
  /\ \/ /\ \E text \in Texts : KimiAccepts(text) /\ Returned(text, "comparing")
        /\ copies' = copies \ {call} /\ UNCHANGED <<head, before>>
     \/ KimiUnparsed

KimiTrusts ==
  /\ pc = "comparing" /\ Quietly /\ UNCHANGED repo /\ pc' = "sealing"
  /\ UNCHANGED <<setup, call, try, retry, answer, kept, log>>
\* status_after: the review is rejected when the two differ.
KimiCompare ==
  /\ pc = "comparing" /\ Quietly /\ UNCHANGED repo
  /\ \E after \in StatusOf :
       \/ /\ after = before /\ pc' = "sealing"
          /\ UNCHANGED <<setup, call, try, retry, answer, kept, log>>
       \/ after # before /\ Failed(<<"dispatch_integrity_violation">>)

KimiSeal == (SealAnswer \/ CopyMirror) /\ UNCHANGED repo
KimiDone == Done /\ UNCHANGED repo

Kimi ==
  \/ KimiBegin \/ KimiPrepare \/ KimiSnapshot \/ KimiCopy \/ KimiSpawn \/ KimiNotFound
  \/ KimiWatch \/ KimiUndrained \/ KimiExit \/ KimiReturns \/ KimiCompare
  \/ KimiSeal \/ KimiDone
  \/ (Feed \/ Poll) /\ UNCHANGED repo
=============================================================================
