----------------------------- MODULE PatchTools -----------------------------
(***************************************************************************)
(* The tools that change files under an iteration: apply.codex_patch with  *)
(* its verification, the consensus patch, repo.set_section and the         *)
(* decision ledger. One client calls them, one at a time; hand edits, a    *)
(* commit, time and the death of the server come between the steps.        *)
(***************************************************************************)
EXTENDS AuditLog

VARIABLES
  verdicts, \* codex-patch-verifications: by patch id
  tool,     \* the call in progress
  hurt      \* patches whose call died or was not logged, and those that were not
            \* rolled back whole: a file stuck, or a commit had caught them

Ids  == {p.id : p \in Patches}
Idle == [op |-> "none"]
\* Contents: what a hand, a patch or a section edit made of a file.
Hand(n)    == <<"hand", n>>
Patched(p) == <<"patch", p.number>>
Section    == <<"section", 0>>
Missing    == <<"missing", 0>>

iteration == <<docs, reviews, verdicts>>
closing   == <<certificate>>
Stays     == UNCHANGED <<setup, head, now>>

Allowed(fs) == fs \subseteq setup.allowed /\ fs \cap setup.forbidden = {}
-----------------------------------------------------------------------------
\* loop.verify_codex_patch, record_verdict: the review is not read again, and
\* the hash of what was verified is only written down.
RecordVerdict(id, verdict) ==
  /\ tool.op = "none"
  /\ verdicts' = [verdicts EXCEPT ![id] = verdict]
  /\ Stays /\ UNCHANGED <<files, docs, reviews, audit, certificate, tool, hurt>>

\* apply.codex_patch up to the base check. The patch is looked up by its id.
InReview(id)   == {p \in reviews["codex"].patches : p.id = id}
AnyBase(p)     == Allowed(p.files) /\ verdicts[p.id] = "approved"
Unscoped(p)    == verdicts[p.id] = "approved" /\ Bundle(p.files) = p.base
Applicable(p)  == Allowed(p.files) /\ verdicts[p.id] = "approved" /\ Bundle(p.files) = p.base
ApplyCheck(id, family) ==
  /\ tool.op = "none" /\ setup.authorized /\ reviews["codex"] # None
  /\ \E p \in InReview(id) :
       /\ Applicable(p)
       /\ tool' = [op |-> "staging", patch |-> p, family |-> family, read |-> files]
  /\ Stays /\ UNCHANGED <<files, iteration, audit, closing, hurt>>

\* The dry run takes a validator's time; then the state to go back to is read.
\* A file that cannot be read then counts as missing: a rollback unlinks it.
Before(fs, unread) == [f \in fs |-> IF f \in unread THEN Missing ELSE files[f]]
ApplyStaged ==
  /\ tool.op = "staging"
  /\ \/ \E unread \in SUBSET tool.patch.files :
          tool' = [op |-> "applying", patch |-> tool.patch, family |-> tool.family,
                   read |-> tool.read, done |-> {}, pre |-> Before(tool.patch.files, unread)]
     \/ tool' = Idle
  /\ Stays /\ UNCHANGED <<files, iteration, audit, closing, hurt>>
ApplyFile(f) ==
  /\ tool.op = "applying" /\ f \in tool.patch.files \ tool.done
  /\ files' = [files EXCEPT ![f] = Patched(tool.patch)]
  /\ tool' = [tool EXCEPT !.done = tool.done \cup {f}]
  /\ Stays /\ UNCHANGED <<iteration, audit, closing, hurt>>
RollNothingBack ==
  /\ tool.op = "applying" /\ tool.done # tool.patch.files /\ tool' = Idle
  /\ Stays /\ UNCHANGED <<files, iteration, audit, closing, hurt>>
\* os.replace raises: what was replaced is put back, as far as that succeeds.
RollBack ==
  /\ tool.op = "applying" /\ tool.done # tool.patch.files
  /\ \E broken \in SUBSET tool.done :
       /\ files' = [f \in Files |->
                      IF f \in tool.done \ broken THEN tool.pre[f] ELSE files[f]]
       /\ hurt' = IF broken = {} /\ \A f \in tool.done : head[f] # Patched(tool.patch)
                  THEN hurt ELSE hurt \cup {tool.patch.number}
  /\ tool' = Idle
  /\ Stays /\ UNCHANGED <<iteration, audit, closing>>
ApplyLogged ==
  /\ tool.op = "applying" /\ tool.done = tool.patch.files
  /\ \/ /\ audit' = Append(audit, ApplyEvent(tool.patch.files, tool.family,
                                             Bundle(tool.patch.files), tool.patch.number))
        /\ UNCHANGED hurt
     \/ hurt' = hurt \cup {tool.patch.number} /\ UNCHANGED audit
  /\ tool' = Idle
  /\ Stays /\ UNCHANGED <<files, iteration, closing>>
-----------------------------------------------------------------------------
\* patch.apply_consensus_patch, of files of the iteration directory; also the
\* ledger, whose validator runs over a staged copy first.
Write(ds) == tool' = [op |-> "writing", docs |-> ds, done |-> {}]
ConsensusPatch(ds) ==
  /\ tool.op = "none" /\ Write(ds)
  /\ Stays /\ UNCHANGED <<files, iteration, audit, closing, hurt>>
WriteDoc(d) ==
  /\ tool.op = "writing" /\ d \in tool.docs \ tool.done
  /\ docs' = [docs EXCEPT ![d] = @ + 1]
  /\ tool' = [tool EXCEPT !.done = tool.done \cup {d}]
  /\ Stays /\ UNCHANGED <<files, reviews, verdicts, audit, closing, hurt>>
\* A replace that raises ends the call: nothing is put back, nothing logged.
WriteFails ==
  /\ tool.op = "writing" /\ tool.done # tool.docs /\ tool' = Idle
  /\ Stays /\ UNCHANGED <<files, iteration, audit, closing, hurt>>
WriteLogged ==
  /\ tool.op = "writing" /\ tool.done = tool.docs
  /\ audit' = Append(audit, ApplyEvent(tool.docs, None, None, 0))
  /\ tool' = Idle
  /\ Stays /\ UNCHANGED <<files, iteration, closing, hurt>>

\* state.update_decision_ledger replaces the ledger, whatever it held.
UpdateLedger == ConsensusPatch({"ledger"})

\* repo.set_section: the file is read, checked against the consensus document,
\* replaced by what was made of the text read, and logged.
SectionRead(f) ==
  /\ tool.op = "none" /\ f \in setup.sections /\ docs["consensus"] > 0
  /\ files[f] # Missing
  /\ tool' = [op |-> "section", file |-> f, done |-> FALSE]
  /\ Stays /\ UNCHANGED <<files, iteration, audit, closing, hurt>>
SectionWrite ==
  /\ tool.op = "section" /\ ~tool.done
  /\ files' = [files EXCEPT ![tool.file] = Section]
  /\ tool' = [tool EXCEPT !.done = TRUE]
  /\ Stays /\ UNCHANGED <<iteration, audit, closing, hurt>>
\* Without an iteration_id nothing is logged.
SectionLogged ==
  /\ tool.op = "section" /\ tool.done
  /\ audit' \in {audit, Append(audit, ApplyEvent({tool.file}, None, None, 0))}
  /\ tool' = Idle
  /\ Stays /\ UNCHANGED <<files, iteration, closing, hurt>>
-----------------------------------------------------------------------------
\* audit.append_event iteration_closed: checks, event, certificate.
CloseCheck ==
  /\ tool.op = "none" /\ MayClose(audit)
  /\ tool' = [op |-> "closing", certificate |-> CertificateOf(audit)]
  /\ Stays /\ UNCHANGED <<files, iteration, audit, closing, hurt>>
CloseAppend ==
  /\ tool.op = "closing"
  /\ audit' = Append(audit, CloseEvent)
  /\ tool' = IF tool.certificate = None THEN Idle ELSE [tool EXCEPT !.op = "certifying"]
  /\ Stays /\ UNCHANGED <<files, iteration, closing, hurt>>
\* A certificate that cannot be written is a warning.
Certify ==
  /\ tool.op = "certifying" /\ certificate' \in {certificate, tool.certificate}
  /\ tool' = Idle
  /\ Stays /\ UNCHANGED <<files, iteration, audit, hurt>>

ToolStep ==
  \/ ApplyStaged \/ RollBack \/ ApplyLogged \/ (\E f \in Files : ApplyFile(f))
  \/ (\E d \in Docs : WriteDoc(d)) \/ WriteFails \/ WriteLogged
  \/ SectionWrite \/ SectionLogged
  \/ CloseAppend \/ Certify
=============================================================================
