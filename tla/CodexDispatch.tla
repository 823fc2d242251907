---------------------------- MODULE CodexDispatch ---------------------------
(***************************************************************************)
(* _dispatch_codex: one invocation, its answer in the file -o names, the   *)
(* prompt written to stdin by the main thread.                             *)
(***************************************************************************)
EXTENDS DispatchBase

\* The checks of the repository come after dispatch_start.
CodexBegin ==
  Begin(\/ Stop(<<>>)
        \/ Stop(<<"dispatch_failed">>)
        \/ Stop(<<"dispatch_refused">>)
        \/ Stop(<<"dispatch_start", "dispatch_failed">>)
        \/ Go)
CodexPrepare == Prepare("spawning")
CodexSpawn == Spawn(TRUE)
\* The binary is missing, or an App Execution Alias no process can be made of.
CodexNotFound == Unspawned /\ Failed(<<>>)

\* The silence threshold holds before the first line as well.
CodexAbort    == Aborted(signal) /\ Failed(<<"dispatch_aborted">>)
CodexTimesOut == TimedOut(signal, setup.silence) /\ Failed(<<"dispatch_aborted">>)
CodexContinue == Continue(signal, setup.silence)
CodexWatch    == CodexAbort \/ CodexTimesOut \/ CodexContinue
CodexUndrained == Undrained /\ Failed(<<>>)
CodexExit      == (\E code \in {"failed", "tempfail"} : Exited(code)) /\ Failed(<<>>)

\* The text is JSON and nothing else; a patch is checked against the goal
\* packet, and is not given together with a reason for giving none.
CodexFinding(review, i) ==
  LET f == review.findings[i]
  IN  f.patch # None => ValidPatch(f.patch, i, DOMAIN review.findings) /\ ~f.reason
Authored(review) ==
  setup.policy = "strict" =>
    \A i \in DOMAIN review.findings :
      review.findings[i].patch # None \/ review.findings[i].reason
CodexReview(review) ==
  /\ \A i \in DOMAIN review.findings : CodexFinding(review, i)
  /\ Authored(review) /\ Named(review)
CodexProposal(p) == SoundProposal(p)
CodexAccepts(text) ==
  /\ text.shape = "json"
  /\ IF setup.mode = "proposal" THEN CodexProposal(text.body) ELSE CodexReview(text.body)

CodexReturns ==
  /\ Exited("zero")
  /\ \/ \E text \in Texts : CodexAccepts(text) /\ Returned(text, "sealing")
     \/ Failed(<<>>)

CodexSeal == (SealAnswer \/ CopyMirror)
CodexDone == Done

Codex ==
  \/ CodexBegin \/ CodexPrepare \/ CodexSpawn \/ CodexNotFound \/ Feed
  \/ Poll \/ CodexWatch \/ CodexUndrained \/ CodexExit \/ CodexReturns
  \/ CodexSeal \/ CodexDone
=============================================================================
