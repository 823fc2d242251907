---------------------------- MODULE GrokDispatch ----------------------------
(***************************************************************************)
(* _dispatch_grok: a stream of text and thought events, assembled into the *)
(* answer; a cancelled turn, an empty answer and one that does not parse   *)
(* each have their retry.                                                  *)
(***************************************************************************)
EXTENDS DispatchBase

GrokBegin ==
  Begin(\/ Stop(<<>>)
        \/ Stop(<<"dispatch_failed">>)
        \/ Stop(<<"dispatch_refused">>)
        \/ Go)
\* Includes _check_grok_auth.
GrokPrepare == Prepare("spawning")
\* The prompt is an argument, or a file when it is too long for one.
GrokSpawn == Spawn(FALSE)
GrokNotFound == Unspawned /\ Failed(<<>>)

GrokAbort    == Aborted(signal) /\ Failed(<<"dispatch_aborted">>)
GrokTimesOut == TimedOut(signal, setup.timeout) /\ Failed(<<"dispatch_aborted">>)
GrokContinue == Continue(signal, setup.timeout)
GrokWatch    == GrokAbort \/ GrokTimesOut \/ GrokContinue
GrokUndrained == Undrained /\ Failed(<<>>)
GrokExit      == (\E code \in {"failed", "tempfail"} : Exited(code)) /\ Failed(<<>>)

\* _assemble_grok_stream: whether each channel held a JSON object.
Streams == [cancelled : BOOLEAN, text : {"object", "prose", "blank", "none"},
            thought : {"object", "prose", "none"}]
Assembled(s) ==
  IF s.cancelled
  THEN IF "object" \in {s.text, s.thought} THEN "object" ELSE "cancelled"
  ELSE IF s.text = "none"
       THEN IF s.thought = "object" THEN "object" ELSE "empty"
       ELSE IF s.text = "blank" THEN "empty" ELSE s.text

GrokReview(review) == Unpatched(review) /\ Named(review) /\ Coherent(review)
GrokProposal(p)    == SoundProposal(p)
GrokAccepts(text) ==
  /\ Extracts(text)
  /\ IF setup.mode = "proposal" THEN GrokProposal(text.body) ELSE GrokReview(text.body)

\* Only the first invocation's cancellation or emptiness is retried; a parse
\* failure is, unless an empty answer was already, and after a cancellation too.
GrokCancelled ==
  IF retry = None /\ setup.mode = "proposal"
  THEN Again(<<"dispatch_retry_for_grok_cancel">>, "cancel") ELSE Failed(<<>>)
GrokEmpty ==
  IF retry = None THEN Again(<<"dispatch_retry_for_grok_empty_output">>, "empty") ELSE Failed(<<>>)
GrokUnparsed ==
  IF retry \in {None, "cancel"} THEN Again(<<"dispatch_retry_for_parse_fail">>, "parse")
  ELSE Failed(<<>>)

\* An empty stdout is a stream of no events.
GrokReturns ==
  /\ Exited("zero")
  /\ \E what \in {Assembled(s) : s \in Streams} :
       \/ /\ what = "object"
          /\ \E text \in Texts : GrokAccepts(text) /\ Returned(text, "sealing")
       \/ what \in {"object", "prose"} /\ GrokUnparsed
       \/ what = "cancelled" /\ GrokCancelled
       \/ what = "empty" /\ GrokEmpty

GrokSeal == (SealAnswer \/ CopyMirror)
GrokDone == Done

Grok ==
  \/ GrokBegin \/ GrokPrepare \/ GrokSpawn \/ GrokNotFound
  \/ Poll \/ GrokWatch \/ GrokUndrained \/ GrokExit \/ GrokReturns
  \/ GrokSeal \/ GrokDone
=============================================================================
