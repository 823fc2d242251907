------------------------------- MODULE Resume -------------------------------
(***************************************************************************)
(* consensus.resume: a snapshot of an iteration, taken file by file while  *)
(* the reviewer's dispatch goes on, and the next action it recommends.     *)
(***************************************************************************)
EXTENDS ReviewerDispatch

VARIABLE snap \* the snapshot being taken, or the last one

\* What else is in the iteration directory: goal packet, outcome, certificate,
\* review packet.
iteration == setup.iteration
-----------------------------------------------------------------------------
\* The log names no bundle mutation: no program writes one to it. What is left
\* is base_sha of the review packet, a hash over files; the hash a review
\* carries is one of the text of its target, and is never the same.
MutationKinds == {"patch_applied", "review_packet_rebundled", "operator_force_bundle_rewrite"}
Mutations(events) == {i \in DOMAIN events : events[i].event \in MutationKinds}
BundleSha(events) ==
  IF Mutations(events) # {} THEN "mutation" ELSE IF iteration.packet THEN "base" ELSE None
TargetHash == "target"

\* A dispatch_started of the pass, and no end of it.
InFlight(events) ==
  LET has(kinds) == \E i \in DOMAIN events : events[i].event \in kinds
  IN  /\ has({"dispatch_started"})
      /\ ~has({"dispatch_completed", "dispatch_done", "dispatch_aborted", "dispatch_failed"})

StateOf ==
  IF ~iteration.goal THEN "unknown"
  ELSE CASE iteration.cert = "quorum_close_passed" -> "closed_passed"
         [] iteration.cert = "quorum_close_failed" -> "closed_failed"
         [] OTHER -> IF iteration.outcome = "blocked" THEN "blocked_operator" ELSE "open"

\* A certificate that names this pass decides; else the hashes do.
Classification(sha, state, named) ==
  IF iteration.cert # "none" /\ named
  THEN IF state \in {"closed_passed", "closed_failed"} THEN "consumed" ELSE "closing"
  ELSE IF sha = None THEN "invalid"
       ELSE IF sha # TargetHash THEN "superseded" ELSE "open"

\* Satisfiable when an open review of another family follows the last mutation.
ClosureStatus(events, review) ==
  Mutations(events) # {} /\ review # None /\ review.class = "open"
HasPatch(review) ==
  review # None /\ \E i \in DOMAIN review.findings : review.findings[i].patch # None

NextAction(state, events, review) ==
  CASE state # "open" -> "operator_decision_required"
    [] state = "open" /\ ClosureStatus(events, review) -> "close_iteration"
    [] state = "open" /\ review # None /\ review.class = "open" /\ HasPatch(review) ->
         "apply_proposed_patch"
    [] state = "open" /\ InFlight(events) -> "wait_for_dispatch"
    [] OTHER -> IF iteration.packet THEN "dispatch_cross_family_reviewer"
                ELSE "operator_decision_required"

\* What a snapshot says of the review, when there is one.
ReviewRecords ==
  [findings : UNION {[F -> Findings] : F \in SUBSET Ids},
   class : {"consumed", "closing", "invalid", "superseded", "open"}]
ASSUME ReviewAssumption == None \notin ReviewRecords
-----------------------------------------------------------------------------
\* Modification times of the log and of the files of the iteration.
WatermarkOfReviews == mirrored
Watermark == <<Len(log), mirrored>>

NoSnapshot == [stage |-> "none", n |-> 0, mark |-> None, events |-> <<>>, review |-> None,
               drift |-> FALSE, action |-> None]

BeginSnapshot ==
  /\ snap.stage \in {"none", "done"} /\ snap.n < setup.snapshots
  /\ snap' = [NoSnapshot EXCEPT !.stage = "marked", !.n = snap.n + 1, !.mark = Watermark]
WalkLog ==
  /\ snap.stage = "marked"
  /\ snap' = [snap EXCEPT !.stage = "walked", !.events = log]
ReadReviews ==
  /\ snap.stage = "walked"
  /\ \E named \in BOOLEAN :
       snap' = [snap EXCEPT !.stage = "read",
         !.review = IF mirrored = None THEN None
                    ELSE [findings |-> mirrored.findings,
                          class |-> Classification(BundleSha(snap.events), StateOf, named)]]
EndSnapshot ==
  /\ snap.stage = "read"
  /\ snap' = [snap EXCEPT !.stage = "done", !.drift = (Watermark # snap.mark),
                          !.action = NextAction(StateOf, snap.events, snap.review)]
Snapshot ==
  /\ BeginSnapshot \/ WalkLog \/ ReadReviews \/ EndSnapshot
  /\ UNCHANGED vars

ResumeInit == Init /\ snap = NoSnapshot
ResumeNext == Snapshot \/ (Next /\ UNCHANGED snap)
ResumeSpec == ResumeInit /\ [][ResumeNext]_<<vars, snap>> /\ Fairness
-----------------------------------------------------------------------------
\* A snapshot that reports no drift is one of a single moment: the log and the
\* review it was made of were there together when it was finished.
SnapshotIsWhole ==
  [][snap.stage = "read" /\ snap'.stage = "done" /\ ~snap'.drift =>
       /\ snap'.events = log
       /\ (snap'.review = None) = (mirrored = None)
       /\ snap'.review # None => snap'.review.findings = mirrored.findings]_snap
=============================================================================
