--------------------------- MODULE GeminiDispatch ---------------------------
(***************************************************************************)
(* _dispatch_gemini: the prompt is written by a thread of its own, nothing *)
(* need be printed before the timeout, an answer that does not parse is    *)
(* asked for once more.                                                    *)
(***************************************************************************)
EXTENDS DispatchBase

GeminiBegin ==
  Begin(\/ Stop(<<>>)
        \/ Stop(<<"dispatch_failed">>)
        \/ Stop(<<"dispatch_refused">>)
        \/ Go)
GeminiPrepare == Prepare("spawning")
GeminiSpawn == Spawn(FALSE)
GeminiNotFound == Unspawned /\ Failed(<<>>)

\* The binary is missing, was aborted, hung, or failed: no second invocation.
GeminiAbort    == Aborted(signal) /\ Failed(<<"dispatch_aborted">>)
GeminiTimesOut == TimedOut(signal, setup.timeout) /\ Failed(<<"dispatch_aborted">>)
GeminiContinue == Continue(signal, setup.timeout)
GeminiWatch    == GeminiAbort \/ GeminiTimesOut \/ GeminiContinue
GeminiUndrained == Undrained /\ Failed(<<>>)
GeminiExit      == (\E code \in {"failed", "tempfail"} : Exited(code)) /\ Failed(<<>>)

GeminiReview(review) == Unpatched(review) /\ Named(review) /\ Coherent(review)
GeminiProposal(p)    == SoundProposal(p)
GeminiAccepts(text) ==
  /\ Extracts(text)
  /\ IF setup.mode = "proposal" THEN GeminiProposal(text.body) ELSE GeminiReview(text.body)

GeminiUnparsedAlways == Again(<<"dispatch_retry_for_parse_fail">>, "parse")
GeminiUnparsed ==
  IF retry = None THEN Again(<<"dispatch_retry_for_parse_fail">>, "parse") ELSE Failed(<<>>)
GeminiReturns ==
  /\ Exited("zero")
  /\ \/ \E text \in Texts : GeminiAccepts(text) /\ Returned(text, "sealing")
     \/ GeminiUnparsed

GeminiSeal == (SealAnswer \/ CopyMirror)
GeminiDone == Done

Gemini ==
  \/ GeminiBegin \/ GeminiPrepare \/ GeminiSpawn \/ GeminiNotFound
  \/ Poll \/ GeminiWatch \/ GeminiUndrained \/ GeminiExit \/ GeminiReturns
  \/ GeminiSeal \/ GeminiDone
=============================================================================
