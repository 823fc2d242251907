------------------------------ MODULE AuditLog ------------------------------
(***************************************************************************)
(* independence-audit.yaml of an iteration and what is decided from it:    *)
(* whether the iteration may be closed, the certificate of the closing,    *)
(* and what the scanner says of it afterwards.                             *)
(***************************************************************************)
EXTENDS Integers, Sequences, FiniteSets

CONSTANTS Files,   \* files of the repository
          Docs,    \* files git ignores: those of the iteration directory, the ledger
          Patches, \* patch proposals: id, number of the content, files
          Setups,  \* goal packets, and how much happens
          None

VARIABLES
  setup,
  files, head, \* working tree and commit: the content of each file
  docs,        \* version of each document, 0 when there is none
  reviews,     \* claude-review.yaml and codex-review.yaml
  audit,       \* audit_log
  certificate, \* closure-certificate.yaml
  now          \* UTC, in whole seconds

Families == {"claude", "codex"}
\* What one has reviewed is what it names: a bundle hash of files.
Bundle(fs) == [f \in fs |-> files[f]]
Changed == {f \in Files : files[f] # head[f]}
-----------------------------------------------------------------------------
\* A mutant: under the name run_goal counts, which is not a canonical type.
AppliedEvent(fs, family, post, number) ==
  [event |-> "patch_applied", files |-> fs, family |-> family, actor |-> family, post |-> post,
   at |-> now, patch |-> number]
\* An actor without a model family is a plain string or nothing.
ApplyEvent(fs, family, post, number) ==
  [event |-> "apply_step_landed", files |-> fs, family |-> family, actor |-> family, post |-> post,
   at |-> now, patch |-> number]
CloseEvent == [event |-> "iteration_closed", at |-> now]

Applies(log) == {i \in DOMAIN log : log[i].event = "apply_step_landed"}

\* last_mutation_from_audit: the newest, the last of those of one second.
LastMutation(log) ==
  IF Applies(log) = {} THEN None
  ELSE log[CHOOSE i \in Applies(log) :
             \A j \in Applies(log) : log[j].at < log[i].at \/ (log[j].at = log[i].at /\ j <= i)]

\* check_closure_invariant.
CrossFamily(lm, verdict) ==
  /\ verdict.eligible /\ verdict.family # None /\ lm.family # None /\ verdict.family # lm.family
  /\ verdict.actor # None /\ lm.actor # None /\ verdict.actor # lm.actor
HashMatch(lm, verdict) == verdict.target # None /\ lm.post # None /\ verdict.target = lm.post
Freshness(lm, verdict) == verdict.at > lm.at
CheckOfFamily(lm, verdict) == CrossFamily(lm, verdict) /\ Freshness(lm, verdict)
CheckClosure(lm, verdict) ==
  CrossFamily(lm, verdict) /\ HashMatch(lm, verdict) /\ Freshness(lm, verdict)

\* The reviews made after a mutation; the newest of them, Claude's of two.
Candidates(lm) ==
  {w \in Families : reviews[w] # None /\ reviews[w].at # None /\ reviews[w].at > lm.at}
Closer(candidates) ==
  CHOOSE w \in candidates : \A o \in candidates :
    reviews[o].at < reviews[w].at \/ (reviews[o].at = reviews[w].at /\ (w = "claude" \/ o = w))

\* _evaluate_closure_invariant: with a mutation in the log there has to be a
\* verdict on it.
ClosureHolds(log) ==
  LET lm == LastMutation(log)
  IN  lm # None =>
        /\ Candidates(lm) # {}
        /\ CheckClosure(lm, reviews[Closer(Candidates(lm))])

\* _detect_unaudited_mutation: by path, whatever the content.
Audited(log)   == UNION {log[i].files : i \in Applies(log)}
Unaudited(log) == Changed \ Audited(log)

MayClose(log) == Unaudited(log) = {} /\ ClosureHolds(log)

\* _author_closure_certificate; nothing to certify without a mutation.
CertificateOf(log) ==
  LET lm == LastMutation(log)
  IN  IF lm = None THEN None
      ELSE [mutation |-> lm, verdict |-> reviews[Closer(Candidates(lm))]]
-----------------------------------------------------------------------------
\* The scanner reads the time of sealing and the hash of the packet where there
\* are any (no bundle has that hash: None), the family off the file name, and
\* nothing of eligibility. A sealed review names its reviewer; one that names
\* nobody is none.
Scanned(w) ==
  LET r == reviews[w]
  IN  [family |-> IF r.family # None THEN r.family ELSE w, eligible |-> TRUE,
       actor |-> IF r.sealed # None THEN w ELSE r.actor,
       target |-> IF r.sealed # None THEN None ELSE r.target,
       at |-> IF r.sealed # None THEN r.sealed ELSE r.at]
ScanVerdicts(lm) ==
  {w \in Families : reviews[w] # None /\ Scanned(w).actor # None /\ Scanned(w).at > lm.at}
ScanOldest(lm) ==
  CHOOSE w \in ScanVerdicts(lm) : \A o \in ScanVerdicts(lm) : Scanned(o).at >= Scanned(w).at
ScanBest(lm) ==
  CHOOSE w \in ScanVerdicts(lm) : \A o \in ScanVerdicts(lm) :
    Scanned(o).at < Scanned(w).at \/ (Scanned(o).at = Scanned(w).at /\ (w = "claude" \/ o = w))
Scan ==
  LET lm == LastMutation(audit)
  IN  IF lm = None THEN "n/a"
      ELSE IF ScanVerdicts(lm) = {} THEN "in_flight"
           ELSE IF CheckClosure(lm, Scanned(ScanBest(lm))) THEN "compliant" ELSE "non_compliant"
=============================================================================
