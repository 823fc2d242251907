--------------------------- MODULE ReviewArchive ----------------------------
(***************************************************************************)
(* review.write_and_seal, the one writer of sealed reviews: the archive of *)
(* packets, its index, and the iteration's audit log, as the threads of a  *)
(* panel call it. Each read, write and rename of a file is a step.         *)
(***************************************************************************)
EXTENDS Integers, FiniteSets

CONSTANTS
  Contributors,  \* contributors.enabled
  Hosts,         \* the orchestrator: a callback with one fixed answer (ClaudeAdapter)
  Profiles,      \* adapters that number no round in their ids (ProfileAdapter)
  OneMirror,     \* adapters with one local copy for all phases (<name>-review.yaml)
  MaxDays, MaxRounds, None

ASSUME ArchiveAssumption ==
  /\ IsFiniteSet(Contributors) /\ Contributors # {}
  /\ Hosts \subseteq Contributors /\ Profiles \subseteq Contributors
  /\ OneMirror \subseteq Contributors /\ Hosts \cap (Profiles \cup OneMirror) = {}
  /\ MaxDays \in Nat \ {0} /\ MaxRounds \in Nat \ {0}
  /\ None \notin Contributors

VARIABLES
  files,    \* the packets under archive/review-passes, each with its day
  index,    \* index.yaml: the entries [pass, day]
  tmp,      \* index.yaml.tmp, one name for every writer
  audit,    \* the passes with a review_returned_and_sealed event
  mirror,   \* the iteration's own copies, by file name
  at,       \* where each contributor's thread is
  answer,   \* the packet it seals, then the packet it returned
  read,     \* index.yaml or the audit log as the thread read it
  day       \* the UTC date

archive == <<files, index, tmp, audit, mirror>>
threads == <<at, answer, read>>

\* A pass id: <contributor>-<iteration>-<phase>-<round>-pass1.
Pass(c, phase, round) ==
  [by |-> c, phase |-> phase,
   round |-> IF c \in Hosts \cup Profiles THEN 1 ELSE round]
\* The name of the local copy.
MirrorName(c, pass) ==
  IF c \in OneMirror THEN [pass EXCEPT !.phase = "any", !.round = 0] ELSE pass

Days  == 1..MaxDays
Phases == {"propose", "converge", "review"}
Passes == [by : Contributors, phase : Phases, round : 1..MaxRounds]
Entries == [pass : Passes, day : Days]

Known(entries, pass) == {e \in entries : e.pass = pass}
\* The archive file a name stands for; names are <date>-...-<pass_id>-pass.yaml.
At(pass, d) == {f \in files : f.packet.pass = pass /\ f.day = d}
-----------------------------------------------------------------------------
\* _content_identity_sha256 of the packet and of the file the entries point to.
SamePass(c, entries) == entries # {}
SameContent(c, entries) ==
  \E f \in files : f.packet = answer[c] /\ \A e \in entries : f.day = e.day

\* Step 6: an index entry for the pass decides. The same content as the file
\* it points to is a success that writes nothing; anything else is an error.
SealKnown(c) ==
  /\ at[c] = "answered"
  /\ LET entries == Known(index, answer[c].pass)
     IN  /\ entries # {}
         /\ at' = [at EXCEPT ![c] = IF SameContent(c, entries) THEN "sealed" ELSE "failed"]
  /\ UNCHANGED <<archive, answer, read, day>>

NeverTaken(c) == FALSE
\* A seal that died between packet and index left a file of this name.
NameTaken(c)  == At(answer[c].pass, day) # {}
EntryOf(c)    == {[pass |-> answer[c].pass, day |-> day]}
Appended(c)   == index \cup EntryOf(c)

\* Steps 5 to 7: no entry, so a new file named after the day.
SealNew(c) ==
  /\ at[c] = "answered" /\ Known(index, answer[c].pass) = {}
  /\ IF NameTaken(c)
     THEN at' = [at EXCEPT ![c] = "failed"] /\ UNCHANGED read
     ELSE at' = [at EXCEPT ![c] = "looked"] /\ read' = [read EXCEPT ![c] = Appended(c)]
  /\ UNCHANGED <<archive, answer, day>>

\* Step 8: the packet, under a temporary name of its own, then os.replace.
WritePacket(c) ==
  /\ at[c] = "looked"
  /\ LET d == (CHOOSE e \in Known(read[c], answer[c].pass) : TRUE).day
     IN  files' = (files \ At(answer[c].pass, d)) \cup {[packet |-> answer[c], day |-> d]}
  /\ at' = [at EXCEPT ![c] = "filed"]
  /\ UNCHANGED <<index, tmp, audit, mirror, answer, read, day>>

\* Step 9: what was read, and the new entry, go to index.yaml.tmp ...
WriteIndex(c) ==
  /\ at[c] = "filed"
  /\ tmp' = read[c] /\ read' = [read EXCEPT ![c] = {}]
  /\ at' = [at EXCEPT ![c] = "staged"]
  /\ UNCHANGED <<files, index, audit, mirror, answer, day>>

\* ... which takes the place of index.yaml, or is gone: FileNotFoundError,
\* which only ClaudeAdapter lets through to the engine.
ReplaceIndex(c) ==
  /\ at[c] = "staged" /\ tmp # None
  /\ index' = tmp /\ tmp' = None
  /\ at' = [at EXCEPT ![c] = "indexed"]
  /\ UNCHANGED <<files, audit, mirror, answer, read, day>>

ReplaceFails(c) ==
  /\ at[c] = "staged" /\ tmp = None
  /\ at' = [at EXCEPT ![c] = IF c \in Hosts THEN "raised" ELSE "failed"]
  /\ UNCHANGED <<archive, answer, read, day>>

\* Step 10: audit.append_event, which refuses a seal without an independence
\* attestation, reads the log ...
ReadAudit(c, attested) ==
  /\ at[c] = "indexed"
  /\ IF attested
     THEN at' = [at EXCEPT ![c] = "logging"] /\ read' = [read EXCEPT ![c] = audit]
     ELSE at' = [at EXCEPT ![c] = "failed"] /\ UNCHANGED read
  /\ UNCHANGED <<archive, answer, day>>

\* ... and writes back what it read, with the event.
WriteAudit(c) ==
  /\ at[c] = "logging"
  /\ audit' = read[c] \cup {answer[c].pass} /\ read' = [read EXCEPT ![c] = {}]
  /\ at' = [at EXCEPT ![c] = "sealed"]
  /\ UNCHANGED <<files, index, tmp, mirror, answer, day>>

\* _seal_via_t6 copies the archived packet to the iteration directory, and
\* the adapter returns it.
Mirror(c) ==
  /\ at[c] = "sealed"
  /\ mirror' = [n \in DOMAIN mirror \cup {MirrorName(c, answer[c].pass)} |->
                  IF n = MirrorName(c, answer[c].pass) THEN answer[c] ELSE mirror[n]]
  /\ at' = [at EXCEPT ![c] = "done"]
  /\ UNCHANGED <<files, index, tmp, audit, answer, read, day>>

Seal(c, attested) ==
  \/ SealKnown(c) \/ SealNew(c) \/ WritePacket(c)
  \/ WriteIndex(c) \/ ReplaceIndex(c) \/ ReplaceFails(c)
  \/ ReadAudit(c, attested) \/ WriteAudit(c) \/ Mirror(c)

DayPasses ==
  /\ day < MaxDays /\ day' = day + 1
  /\ UNCHANGED <<archive, threads>>
=============================================================================
