--------------------------- MODULE GoalLoop_proofs ---------------------------
(***************************************************************************)
(* What holds of GoalLoop for all files, patches and goal packets: what a  *)
(* patch left is in scope and accounted for, and a closing rests on a      *)
(* verdict of what the last mutation left.                                 *)
(***************************************************************************)
EXTENDS GoalLoop, SequenceTheorems, TLAPS

Numbers == {p.number : p \in Patches}
\* A patch as a review carries it.
IsPatch(p) == p.files \subseteq Files /\ p.number \in Numbers

\* A review someone wrote, and one that run_goal sealed.
Written(w, r) ==
  /\ r.at \in Nat /\ r.sealed \in {r.at, None} /\ r.family = w
  /\ r.target # None => \A f \in DOMAIN r.target : r.saw[f] = r.target[f]
Dispatched(r) == r.at = None /\ r.sealed \in Nat /\ r.target = None
ReviewsOK ==
  /\ DOMAIN reviews = Families
  /\ \A w \in Families : reviews[w] # None =>
       /\ Written(w, reviews[w]) \/ Dispatched(reviews[w])
       /\ \A p \in reviews[w].patches : IsPatch(p)

\* The log is a sequence with a newest mutation, once it has one.
IsLog(log) == log \in Seq({log[i] : i \in DOMAIN log})
Newest(log, i) ==
  /\ i \in Applies(log)
  /\ \A j \in Applies(log) : log[j].at < log[i].at \/ (log[j].at = log[i].at /\ j <= i)
LogOK == IsLog(audit) /\ (Applies(audit) # {} => \E i \in DOMAIN audit : Newest(audit, i))

Longer(t, log, e) ==
  /\ IsLog(t)
  /\ \E k \in Nat \ DOMAIN log :
       /\ DOMAIN log \subseteq Nat /\ DOMAIN t = DOMAIN log \cup {k}
       /\ \A i \in DOMAIN log : i <= k /\ t[i] = log[i]
       /\ t[k] = e

\* What a certificate says: a verdict on that mutation by someone who saw it.
Rests(lm, verdict) ==
  /\ verdict # None /\ CheckClosure(lm, verdict) /\ lm.at \in Nat /\ verdict.at \in Nat
  /\ \A f \in lm.files : verdict.saw[f] = lm.post[f]
Backed(c) == c # None => c.mutation # None /\ Rests(c.mutation, c.verdict)

\* The call in progress.
Staging(t) ==
  /\ IsPatch(t.patch) /\ t.patch.files \subseteq setup.allowed \ setup.forbidden
  /\ t.family \in Families
  /\ \A f \in t.patch.files : t.read[f] = t.patch.base[f]
ToolOK ==
  \/ tool = Idle
  \/ tool.op = "staging" /\ Staging(tool)
  \/ /\ tool.op = "applying"
     /\ tool = [op |-> "applying", patch |-> tool.patch, family |-> tool.family,
                read |-> tool.read, pre |-> tool.pre, done |-> tool.done]
     /\ Staging(tool) /\ tool.pre \in Trees(tool.patch.files) /\ tool.done \subseteq tool.patch.files
  \/ /\ tool.op = "writing"
     /\ tool = [op |-> "writing", docs |-> tool.docs, done |-> tool.done]
     /\ tool.docs \subseteq Docs /\ tool.done \subseteq tool.docs
  \/ /\ tool.op = "section"
     /\ tool = [op |-> "section", file |-> tool.file, done |-> tool.done]
     /\ tool.file \in Files
  \/ /\ tool.op \in {"closing", "certifying"}
     /\ tool = [op |-> tool.op, certificate |-> tool.certificate] /\ Backed(tool.certificate)

SpentOK ==
  /\ DOMAIN spent = {"calls", "edits", "reviews"}
  /\ spent.calls \in Nat /\ spent.reviews \in Nat /\ spent.edits \in 0..setup.edits

\* No content of a patch outside the scope, in the tree or in the commit.
InScope ==
  \A f \in Files : files[f][1] = "patch" \/ head[f][1] = "patch" =>
    f \in setup.allowed \ setup.forbidden

\* What came of a patch without mishap is in the log, or its call goes on; a
\* rollback puts back only what is in the log.
Logged(n, f)   == \E i \in Applies(audit) : audit[i].patch = n /\ f \in audit[i].files
Applying(n, f) == tool.op = "applying" /\ tool.patch.number = n /\ f \in tool.done
Accounted ==
  \A p \in Patches : p.number \notin hurt =>
    \A f \in p.files :
      /\ files[f] = Patched(p) \/ head[f] = Patched(p) =>
           Logged(p.number, f) \/ Applying(p.number, f)
      /\ tool.op = "applying" /\ f \in tool.patch.files /\ tool.pre[f] = Patched(p) =>
           Logged(p.number, f)

GoalInv ==
  /\ TypeOK /\ SpentOK /\ ReviewsOK /\ LogOK /\ ToolOK /\ Backed(certificate)
  /\ InScope /\ Accounted
-----------------------------------------------------------------------------
LEMMA Kinds ==
  /\ \A p : Patched(p)[1] = "patch"
  /\ \A n : Hand(n)[1] = "hand"
  /\ Section[1] = "section" /\ Missing[1] = "missing"
  /\ \A n, p : Hand(n) # Patched(p)
  /\ \A p : Section # Patched(p) /\ Missing # Patched(p)
  /\ \A p, q : Patched(p) = Patched(q) => p.number = q.number
BY DEF Patched, Hand, Section, Missing

LEMMA Appended ==
  ASSUME NEW log, IsLog(log), NEW e
  PROVE  Longer(Append(log, e), log, e)
<1> DEFINE S == {log[i] : i \in DOMAIN log} \cup {e}
           t == Append(log, e)
<1>1. log \in Seq(S) /\ e \in S /\ Len(log) \in Nat /\ DOMAIN log = 1..Len(log)
  BY DEF IsLog
<1>2. /\ t \in Seq(S) /\ Len(t) = Len(log) + 1
      /\ \A i \in 1..Len(log) : t[i] = log[i]
      /\ t[Len(log) + 1] = e
  <2> HIDE DEF S
  <2> QED BY <1>1, AppendProperties
<1>3. t \in Seq({t[i] : i \in DOMAIN t}) /\ Len(t) \in Nat /\ DOMAIN t = 1..Len(t)
  <2>1. ASSUME NEW U, NEW u \in Seq(U)
        PROVE  u \in Seq({u[i] : i \in DOMAIN u}) /\ Len(u) \in Nat /\ DOMAIN u = 1..Len(u)
    OBVIOUS
  <2> HIDE DEF t, S
  <2> QED BY <1>2, <2>1
<1>4. DOMAIN t = 1..(Len(log) + 1)
  BY <1>2, <1>3
<1>5. IsLog(t)
  BY <1>3 DEF IsLog
<1> HIDE DEF t, S
<1>6. DOMAIN t = DOMAIN log \cup {Len(log) + 1} /\ Len(log) + 1 \in Nat \ DOMAIN log
  BY <1>1, <1>4
<1>7. Longer(t, log, e)
  <2>1. /\ Len(log) + 1 \in Nat \ DOMAIN log /\ DOMAIN log \subseteq Nat
        /\ DOMAIN t = DOMAIN log \cup {Len(log) + 1}
        /\ \A i \in DOMAIN log : i <= Len(log) + 1 /\ t[i] = log[i]
        /\ t[Len(log) + 1] = e
    BY <1>1, <1>2, <1>6
  <2> QED BY <2>1, <1>5 DEF Longer
<1> QED BY <1>7 DEF t

LEMMA AppliesAfter ==
  ASSUME NEW log, NEW t, NEW e, Longer(t, log, e)
  PROVE  /\ Applies(log) \subseteq Applies(t)
         /\ \A i \in Applies(t) :
              i \in Applies(log) \/ (t[i] = e /\ e.event = "apply_step_landed")
BY DEF Longer, Applies

LEMMA NewestAfter ==
  ASSUME NEW log, NEW t, NEW e, Longer(t, log, e), e.at \in Nat,
         \A i \in DOMAIN log : log[i].at \in Nat /\ log[i].at <= e.at,
         Applies(log) # {} => \E i \in DOMAIN log : Newest(log, i),
         Applies(t) # {}
  PROVE  \E i \in DOMAIN t : Newest(t, i)
<1>0. Applies(log) \subseteq DOMAIN log
  BY DEF Applies
<1>k. PICK k \in Nat \ DOMAIN log :
        /\ DOMAIN log \subseteq Nat /\ DOMAIN t = DOMAIN log \cup {k}
        /\ \A i \in DOMAIN log : i <= k /\ t[i] = log[i]
        /\ t[k] = e
  BY DEF Longer
<1>1. CASE e.event = "apply_step_landed"
  <2>1. \A j \in Applies(t) : t[j].at < t[k].at \/ (t[j].at = t[k].at /\ j <= k)
    <3> TAKE j \in Applies(t)
    <3>1. CASE j \in DOMAIN log
      BY <3>1, <1>k
    <3>2. CASE j = k
      BY <3>2, <1>k
    <3> QED BY <3>1, <3>2, <1>k DEF Applies
  <2>2. k \in Applies(t)
    BY <1>1, <1>k DEF Applies
  <2> QED BY <2>1, <2>2, <1>k DEF Newest
<1>2. CASE e.event # "apply_step_landed"
  <2>1. Applies(t) = Applies(log)
    BY <1>2, <1>k DEF Applies
  <2>2. PICK i \in DOMAIN log : Newest(log, i)
    BY <2>1
  <2>3. \A j \in Applies(t) : t[j] = log[j]
    BY <2>1, <1>0, <1>k
  <2>4. \A j \in Applies(t) : t[j].at < t[i].at \/ (t[j].at = t[i].at /\ j <= i)
    BY <2>1, <2>2, <2>3 DEF Newest
  <2> QED BY <2>1, <2>2, <2>4, <1>k DEF Newest
<1> QED BY <1>1, <1>2

LEMMA LastOf ==
  ASSUME LogOK, LastMutation(audit) # None
  PROVE  \E i \in Applies(audit) : LastMutation(audit) = audit[i]
<1>1. Applies(audit) # {}
  BY DEF LastMutation
<1>2. \E i \in Applies(audit) : Newest(audit, i)
  BY <1>1 DEF LogOK, Newest
<1>3. \E i \in Applies(audit) : \A j \in Applies(audit) :
        audit[j].at < audit[i].at \/ (audit[j].at = audit[i].at /\ j <= i)
  BY <1>2 DEF Newest
<1> QED BY <1>1, <1>3 DEF LastMutation
-----------------------------------------------------------------------------
\* What each action leaves alone.
TreeChanges ==
  \/ UNCHANGED <<files, head>> \/ Commit \/ (\E f \in Files : Edit(f))
  \/ (\E f \in Files : ApplyFile(f)) \/ RollBack \/ SectionWrite
LogChanges ==
  \/ UNCHANGED <<audit, now>> \/ Tick
  \/ ApplyLogged \/ WriteLogged \/ SectionLogged \/ CloseAppend
ReviewChanges == UNCHANGED reviews \/ RunGoal \/ (\E w \in Families : WriteReview(w))
OtherChanges ==
  /\ UNCHANGED docs \/ (\E d \in Docs : Author(d)) \/ (\E d \in Docs : WriteDoc(d))
  /\ \/ UNCHANGED verdicts
     \/ \E p \in setup.patches, verdict \in {"approved", "corrected"} : RecordVerdict(p.id, verdict)
  /\ UNCHANGED hurt \/ RollBack \/ ApplyLogged \/ Crash
  /\ UNCHANGED certificate \/ Certify
SpentChanges ==
  UNCHANGED spent
  \/ \E what \in {"calls", "reviews"} : Count(what)
  \/ (spent.edits < setup.edits /\ Count("edits"))
\* A call starts, stays, or goes on.
ToolChanges ==
  \/ UNCHANGED tool \/ tool' = Idle
  \/ (\E p \in setup.patches, family \in Families : ApplyCheck(p.id, family))
  \/ (\E ds \in SUBSET Docs : ConsensusPatch(ds))
  \/ (\E f \in Files : SectionRead(f)) \/ CloseCheck
  \/ ApplyStaged \/ (\E f \in Files : ApplyFile(f)) \/ (\E d \in Docs : WriteDoc(d))
  \/ SectionWrite \/ CloseAppend
Changes ==
  /\ setup' = setup /\ TreeChanges /\ LogChanges /\ ReviewChanges
  /\ OtherChanges /\ SpentChanges /\ ToolChanges

LEMMA Steps ==
  ASSUME setup \in Setups, Next
  PROVE  Changes
<1> USE DEF Changes, TreeChanges, LogChanges, ReviewChanges, OtherChanges, SpentChanges, ToolChanges,
            Tools, Tree, Stays, iteration, closing
<1>1. CASE RunGoal
  BY <1>1 DEF RunGoal
<1>2. CASE \E w \in Families : WriteReview(w)
  BY <1>2 DEF WriteReview
<1>3. CASE \E d \in Docs : Author(d)
  BY <1>3 DEF Author
<1>4. CASE \E f \in Files : Edit(f)
  BY <1>4 DEF Edit
<1>5. CASE Commit
  BY <1>5 DEF Commit
<1>6. CASE Tick
  BY <1>6 DEF Tick
<1>7. CASE Call
  <2>1. CASE \E p \in setup.patches, family \in Families : ApplyCheck(p.id, family)
    BY <1>7, <2>1 DEF Call, ApplyCheck
  <2>2. CASE \E ds \in setup.writes : ConsensusPatch(ds)
    <3>1. setup.writes \subseteq SUBSET Docs
      BY GoalAssumption
    <3> QED BY <1>7, <2>2, <3>1 DEF Call, ConsensusPatch
  <2>3. CASE setup.ledger /\ UpdateLedger
    <3>1. {"ledger"} \in SUBSET Docs
      BY GoalAssumption
    <3> QED BY <1>7, <2>3, <3>1 DEF Call, ConsensusPatch, UpdateLedger
  <2>4. CASE \E f \in Files : SectionRead(f)
    BY <1>7, <2>4 DEF Call, SectionRead
  <2>5. CASE \E p \in setup.patches, verdict \in {"approved", "corrected"} :
               RecordVerdict(p.id, verdict)
    BY <1>7, <2>5 DEF Call, RecordVerdict
  <2>6. CASE CloseCheck
    BY <1>7, <2>6 DEF Call, CloseCheck
  <2> QED BY <1>7, <2>1, <2>2, <2>3, <2>4, <2>5, <2>6 DEF Call
<1>8. CASE Go
  <2>1. CASE ApplyStaged
    BY <1>8, <2>1 DEF Go, ApplyStaged
  <2>2. CASE RollBack
    BY <1>8, <2>2 DEF Go, RollBack
  <2>3. CASE ApplyLogged
    BY <1>8, <2>3 DEF Go, ApplyLogged
  <2>4. CASE \E f \in Files : ApplyFile(f)
    BY <1>8, <2>4 DEF Go, ApplyFile
  <2>5. CASE \E d \in Docs : WriteDoc(d)
    BY <1>8, <2>5 DEF Go, WriteDoc
  <2>6. CASE WriteFails
    BY <1>8, <2>6 DEF Go, WriteFails
  <2>7. CASE WriteLogged
    BY <1>8, <2>7 DEF Go, WriteLogged
  <2>8. CASE SectionWrite
    BY <1>8, <2>8 DEF Go, SectionWrite
  <2>9. CASE SectionLogged
    BY <1>8, <2>9 DEF Go, SectionLogged
  <2>10. CASE CloseAppend
    BY <1>8, <2>10 DEF Go, CloseAppend
  <2>11. CASE Certify
    BY <1>8, <2>11 DEF Go, Certify
  <2> QED BY <1>8, <2>1, <2>2, <2>3, <2>4, <2>5, <2>6, <2>7, <2>8, <2>9, <2>10, <2>11
          DEF Go, ToolStep
<1>9. CASE Crash
  BY <1>9 DEF Crash
<1> QED BY <1>1, <1>2, <1>3, <1>4, <1>5, <1>6, <1>7, <1>8, <1>9 DEF Next

LEMMA SetupFacts ==
  ASSUME setup \in Setups
  PROVE  setup.edits \in Nat /\ setup.time \in Nat /\ setup.patches \subseteq Patches
BY GoalAssumption

LEMMA ToolShapes ==
  ASSUME ToolOK
  PROVE  /\ tool.op = "staging" => Staging(tool)
         /\ tool.op = "applying" =>
              /\ tool = [op |-> "applying", patch |-> tool.patch, family |-> tool.family,
                         read |-> tool.read, pre |-> tool.pre, done |-> tool.done]
              /\ Staging(tool) /\ tool.pre \in Trees(tool.patch.files)
              /\ tool.done \subseteq tool.patch.files
         /\ tool.op = "writing" =>
              /\ tool = [op |-> "writing", docs |-> tool.docs, done |-> tool.done]
              /\ tool.docs \subseteq Docs /\ tool.done \subseteq tool.docs
         /\ tool.op = "section" =>
              tool = [op |-> "section", file |-> tool.file, done |-> tool.done] /\ tool.file \in Files
         /\ tool.op \in {"closing", "certifying"} =>
              tool = [op |-> tool.op, certificate |-> tool.certificate] /\ Backed(tool.certificate)
BY DEF ToolOK, Idle

LEMMA PatchContents ==
  ASSUME NEW p, IsPatch(p)
  PROVE  p.files \subseteq Files /\ Patched(p) \in Contents
BY DEF IsPatch, Numbers, Patched, Contents

LEMMA TreeStep ==
  ASSUME GoalInv, Next
  PROVE  files' \in Trees(Files)' /\ head' \in Trees(Files)' /\ InScope'
<1>1. /\ setup' = setup /\ TreeChanges /\ setup \in Setups
      /\ files \in Trees(Files) /\ head \in Trees(Files) /\ InScope
      /\ ToolOK /\ SpentOK
  BY Steps DEF GoalInv, TypeOK, Changes
<1>2. Trees(Files)' = Trees(Files)
  BY <1>1 DEF Trees, Contents
<1>3. files \in [Files -> Contents] /\ head \in [Files -> Contents]
  BY <1>1 DEF Trees
<1> DEFINE Scope == setup.allowed \ setup.forbidden
           Goal  == /\ files' \in [Files -> Contents] /\ head' \in [Files -> Contents]
                    /\ \A f \in Files : files'[f][1] = "patch" \/ head'[f][1] = "patch" =>
                         f \in Scope
<1> SUFFICES Goal
  BY <1>1, <1>2 DEF InScope, Trees
<1>i. \A f \in Files : files[f][1] = "patch" \/ head[f][1] = "patch" => f \in Scope
  BY <1>1 DEF InScope
<1> HIDE DEF Scope
<1>4. CASE UNCHANGED <<files, head>>
  BY <1>4, <1>3, <1>i
<1>5. CASE Commit
  BY <1>5, <1>3, <1>i DEF Commit
<1>6. ASSUME NEW f \in Files, Edit(f) PROVE Goal
  <2>1. Hand(spent.edits + 1) \in Contents
    BY <1>6, <1>1, SetupFacts DEF Edit, Contents, SpentOK
  <2>2. PICK c \in Contents : files' = [files EXCEPT ![f] = c] /\ (c[1] = "patch" => f \in Scope)
    BY <1>6, <2>1, <1>3, <1>i, Kinds DEF Edit
  <2>3. head' = head
    BY <1>6 DEF Edit
  <2> QED BY <2>2, <2>3, <1>3, <1>i
<1>7. ASSUME NEW f \in Files, ApplyFile(f) PROVE Goal
  <2>1. /\ tool.op = "applying" /\ f \in tool.patch.files
        /\ files' = [files EXCEPT ![f] = Patched(tool.patch)] /\ head' = head
    BY <1>7 DEF ApplyFile, Stays
  <2>2. f \in Scope /\ Patched(tool.patch) \in Contents
    BY <2>1, <1>1, ToolShapes, PatchContents DEF Staging, Scope
  <2> QED BY <2>1, <2>2, <1>3, <1>i
<1>8. CASE RollBack
  <2>1. PICK broken \in SUBSET tool.done :
          files' = [f \in Files |-> IF f \in tool.done \ broken THEN tool.pre[f] ELSE files[f]]
    BY <1>8 DEF RollBack
  <2>2. head' = head /\ tool.op = "applying"
    BY <1>8 DEF RollBack, Stays
  <2>3. /\ tool.pre \in [tool.patch.files -> Contents] /\ tool.done \subseteq tool.patch.files
        /\ tool.patch.files \subseteq Scope
    BY <2>2, <1>1, ToolShapes DEF Staging, Trees, Scope
  <2> QED BY <2>1, <2>2, <2>3, <1>3, <1>i
<1>9. CASE SectionWrite
  <2>1. files' = [files EXCEPT ![tool.file] = Section] /\ head' = head /\ tool.op = "section"
    BY <1>9 DEF SectionWrite, Stays
  <2>2. tool.file \in Files /\ Section \in Contents /\ Section[1] # "patch"
    BY <2>1, <1>1, ToolShapes, Kinds DEF Contents
  <2> QED BY <2>1, <2>2, <1>3, <1>i
<1> QED BY <1>1, <1>4, <1>5, <1>6, <1>7, <1>8, <1>9 DEF TreeChanges

LEMMA LogStep ==
  ASSUME GoalInv, Next
  PROVE  /\ now' \in 0..setup.time /\ now' >= now
         /\ \/ audit' = audit
            \/ /\ now' = now
               /\ \E e : /\ Longer(audit', audit, e) /\ e.at = now
                         /\ \/ e.event = "iteration_closed"
                            \/ /\ e.event = "apply_step_landed"
                               /\ e.post = None \/ e.post \in Trees(e.files)
<1>1. /\ setup' = setup /\ LogChanges /\ setup \in Setups /\ now \in 0..setup.time
      /\ files \in Trees(Files) /\ IsLog(audit) /\ ToolOK /\ setup.time \in Nat
  BY Steps, SetupFacts DEF GoalInv, TypeOK, LogOK, Changes
<1>2. CASE UNCHANGED <<audit, now>>
  BY <1>1, <1>2
<1>3. CASE Tick
  BY <1>1, <1>3 DEF Tick
<1>a. \A e : audit' = Append(audit, e) => Longer(audit', audit, e)
  BY <1>1, Appended
<1>4. CASE ApplyLogged
  <2> DEFINE e == ApplyEvent(tool.patch.files, tool.family, Bundle(tool.patch.files), tool.patch.number)
  <2>1. now' = now /\ (audit' = audit \/ audit' = Append(audit, e))
    BY <1>4 DEF ApplyLogged, Stays
  <2>2. tool.patch.files \subseteq Files
    BY <1>4, <1>1, ToolShapes DEF ApplyLogged, Staging, IsPatch
  <2>3. e.at = now /\ e.event = "apply_step_landed" /\ e.post \in Trees(e.files)
    BY <2>2, <1>1 DEF ApplyEvent, Bundle, Trees
  <2> HIDE DEF e
  <2> QED BY <2>1, <2>3, <1>1, <1>a
<1>5. CASE WriteLogged
  <2> DEFINE e == ApplyEvent(tool.docs, None, None, 0)
  <2>1. now' = now /\ audit' = Append(audit, e)
    BY <1>5 DEF WriteLogged, Stays
  <2>2. e.at = now /\ e.event = "apply_step_landed" /\ e.post = None
    BY DEF ApplyEvent
  <2> HIDE DEF e
  <2> QED BY <2>1, <2>2, <1>1, <1>a
<1>6. CASE SectionLogged
  <2> DEFINE e == ApplyEvent({tool.file}, None, None, 0)
  <2>1. now' = now /\ (audit' = audit \/ audit' = Append(audit, e))
    BY <1>6 DEF SectionLogged, Stays
  <2>2. e.at = now /\ e.event = "apply_step_landed" /\ e.post = None
    BY DEF ApplyEvent
  <2> HIDE DEF e
  <2> QED BY <2>1, <2>2, <1>1, <1>a
<1>7. CASE CloseAppend
  <2> DEFINE e == CloseEvent
  <2>1. now' = now /\ audit' = Append(audit, e)
    BY <1>7 DEF CloseAppend, Stays
  <2>2. e.at = now /\ e.event = "iteration_closed"
    BY DEF CloseEvent
  <2> HIDE DEF e
  <2> QED BY <2>1, <2>2, <1>1, <1>a
<1> QED BY <1>1, <1>2, <1>3, <1>4, <1>5, <1>6, <1>7 DEF LogChanges

\* The log only grows.
LogEntries(n) ==
  \A i \in DOMAIN audit :
    /\ audit[i].event \in {"apply_step_landed", "iteration_closed"} /\ audit[i].at \in 0..n
    /\ audit[i].event = "apply_step_landed" =>
         audit[i].post = None \/ audit[i].post \in Trees(audit[i].files)

LEMMA LogKept ==
  ASSUME GoalInv, Next
  PROVE  /\ LogOK' /\ LogEntries(now)'
         /\ \A i \in Applies(audit) : i \in Applies(audit') /\ audit'[i] = audit[i]
<1>1. /\ setup' = setup /\ LogOK /\ LogEntries(now) /\ now \in Nat /\ now' \in Nat /\ now' >= now
  BY Steps, LogStep, SetupFacts DEF GoalInv, TypeOK, Changes, LogEntries
<1>2. \A fs : Trees(fs)' = Trees(fs)
  BY <1>1 DEF Trees, Contents
<1>3. CASE audit' = audit
  <2>1. LogOK'
    BY <1>1, <1>3 DEF LogOK, IsLog, Newest, Applies
  <2>2. LogEntries(now)'
    BY <1>1, <1>2, <1>3 DEF LogEntries
  <2> QED BY <2>1, <2>2, <1>3 DEF Applies
<1>4. ASSUME now' = now, NEW e, Longer(audit', audit, e), e.at = now,
             \/ e.event = "iteration_closed"
             \/ e.event = "apply_step_landed" /\ (e.post = None \/ e.post \in Trees(e.files))
      PROVE  /\ LogOK' /\ LogEntries(now)'
             /\ \A i \in Applies(audit) : i \in Applies(audit') /\ audit'[i] = audit[i]
  <2>1. \A i \in DOMAIN audit : audit[i].at \in Nat /\ audit[i].at <= e.at
    BY <1>1, <1>4 DEF LogEntries
  <2>2. IsLog(audit') /\ (Applies(audit') # {} => \E i \in DOMAIN audit' : Newest(audit', i))
    <3>1. IsLog(audit')
      BY <1>4 DEF Longer
    <3>2. Applies(audit) # {} => \E i \in DOMAIN audit : Newest(audit, i)
      BY <1>1 DEF LogOK
    <3> QED BY <3>1, <3>2, <2>1, <1>1, <1>4, NewestAfter
  <2>3. \A i \in DOMAIN audit' : (i \in DOMAIN audit /\ audit'[i] = audit[i]) \/ audit'[i] = e
    BY <1>4 DEF Longer
  <2>4. LogEntries(now)'
    BY <2>3, <1>1, <1>2, <1>4 DEF LogEntries
  <2>5. \A i \in Applies(audit) : i \in Applies(audit') /\ audit'[i] = audit[i]
    BY <1>4 DEF Longer, Applies
  <2> QED BY <2>2, <2>4, <2>5 DEF LogOK
<1> QED BY <1>3, <1>4, LogStep

LEMMA ReviewStep ==
  ASSUME GoalInv, Next
  PROVE  ReviewsOK'
<1>1. ReviewChanges /\ ReviewsOK /\ now \in Nat /\ setup.patches \subseteq Patches
  BY Steps, SetupFacts DEF GoalInv, TypeOK, Changes
<1>2. \A ps \in Proposable : \A p \in ps : IsPatch(p)
  BY <1>1, GoalAssumption DEF Proposable, Proposals, IsPatch, Numbers
<1>3. ASSUME NEW w \in Families, NEW r,
             Written(w, r) \/ Dispatched(r), \A p \in r.patches : IsPatch(p),
             reviews' = [reviews EXCEPT ![w] = r]
      PROVE  ReviewsOK'
  BY <1>1, <1>3 DEF ReviewsOK
<1>4. CASE UNCHANGED reviews
  BY <1>1, <1>4 DEF ReviewsOK
<1>5. CASE RunGoal
  <2>1. PICK satisfied \in BOOLEAN, ps \in Proposable :
          reviews' = [reviews EXCEPT !["codex"] =
                        [at |-> None, sealed |-> now, family |-> None, actor |-> None, eligible |-> TRUE,
                         target |-> None, satisfied |-> satisfied, blocks |-> ~satisfied,
                         patches |-> ps, packet |-> None, saw |-> files]]
    BY <1>5 DEF RunGoal
  <2> DEFINE r == [at |-> None, sealed |-> now, family |-> None, actor |-> None, eligible |-> TRUE,
                   target |-> None, satisfied |-> satisfied, blocks |-> ~satisfied,
                   patches |-> ps, packet |-> None, saw |-> files]
  <2>2. Dispatched(r) /\ r.patches = ps /\ "codex" \in Families
    BY <1>1 DEF Dispatched, Families
  <2>3. reviews' = [reviews EXCEPT !["codex"] = r]
    BY <2>1
  <2> HIDE DEF r
  <2> QED BY <2>2, <2>3, <1>2, <1>3
<1>6. ASSUME NEW w \in Families, WriteReview(w)
      PROVE  ReviewsOK'
  <2> DEFINE lm == LastMutation(audit)
             Target == IF lm = None THEN None ELSE Bundle(lm.files \cap Files)
             Packet == IF w = "claude" THEN docs["packet"] ELSE None
             R(satisfied, form, ps) ==
               [at |-> now, sealed |-> IF form.sealed THEN now ELSE None,
                family |-> w, actor |-> IF form.named THEN w ELSE None, eligible |-> form.eligible,
                target |-> Target, satisfied |-> satisfied, blocks |-> ~satisfied,
                patches |-> ps, packet |-> Packet, saw |-> files]
  <2>1. PICK satisfied \in BOOLEAN, form \in setup.forms, ps \in Proposable :
          reviews' = [reviews EXCEPT ![w] = R(satisfied, form, ps)]
    BY <1>6, ZenonT(60) DEF WriteReview
  <2> DEFINE r == R(satisfied, form, ps)
  <2>2. Target # None => \A f \in DOMAIN Target : files[f] = Target[f]
    BY DEF Bundle
  <2> HIDE DEF Target, Packet
  <2>3. /\ r.at = now /\ r.sealed \in {now, None} /\ r.family = w /\ r.target = Target
        /\ r.patches = ps /\ r.saw = files
    OBVIOUS
  <2> HIDE DEF r
  <2>4. Written(w, r)
    BY <2>2, <2>3, <1>1 DEF Written
  <2>5. \A p \in r.patches : IsPatch(p)
    BY <2>3, <1>2
  <2>6. reviews' = [reviews EXCEPT ![w] = r]
    BY <2>1 DEF r
  <2> QED BY <2>4, <2>5, <2>6, <1>3
<1> QED BY <1>1, <1>4, <1>5, <1>6 DEF ReviewChanges

\* A closing is allowed on a verdict that fits the last mutation.
LEMMA CertificateBacked ==
  ASSUME GoalInv, MayClose(audit)
  PROVE  Backed(CertificateOf(audit))
<1> DEFINE lm == LastMutation(audit)
           w  == Closer(Candidates(lm))
           r  == reviews[w]
<1> SUFFICES ASSUME lm # None
             PROVE  Rests(lm, r)
  BY DEF Backed, CertificateOf
<1>1. PICK i \in Applies(audit) : lm = audit[i]
  BY LastOf DEF GoalInv
<1>2. /\ lm.at \in Nat
      /\ lm.post # None => lm.post \in Trees(lm.files)
  BY <1>1 DEF GoalInv, TypeOK, Applies
<1>3. Candidates(lm) # {} /\ CheckClosure(lm, r)
  BY DEF MayClose, ClosureHolds
<1>4. \A o \in Candidates(lm) :
        reviews[o] # None /\ Written(o, reviews[o]) /\ reviews[o].at > lm.at
  BY NoneAssumption DEF Candidates, GoalInv, ReviewsOK, Dispatched
<1>5. w \in Candidates(lm)
  <2> DEFINE C == Candidates(lm)
             Best(v) == \A o \in C :
               reviews[o].at < reviews[v].at \/ (reviews[o].at = reviews[v].at /\ (v = "claude" \/ o = v))
  <2>1. C \subseteq {"claude", "codex"} /\ C # {}
    BY <1>3 DEF Candidates, Families
  <2>2. \A o \in C : reviews[o].at \in Nat
    BY <1>4 DEF Written
  <2> HIDE DEF C
  <2>3. \E v \in C : Best(v)
    <3>1. CASE C = {"claude"} \/ C = {"codex"}
      BY <3>1, <2>2
    <3>2. CASE C = {"claude", "codex"}
      BY <3>2, <2>2
    <3> QED BY <3>1, <3>2, <2>1
  <2>4. Closer(C) = CHOOSE v \in C : Best(v)
    BY DEF Closer
  <2> HIDE DEF Best
  <2>5. Closer(C) \in C
    BY <2>3, <2>4
  <2> QED BY <2>5 DEF C
<1> HIDE DEF w, lm
<1>6. Written(w, r)
  BY <1>4, <1>5
<1>7. r.target # None /\ lm.post # None /\ r.target = lm.post
  BY <1>3 DEF CheckClosure, HashMatch
<1>8. \A f \in lm.files : r.saw[f] = lm.post[f]
  BY <1>2, <1>6, <1>7 DEF Written, Trees
<1> QED BY <1>2, <1>3, <1>4, <1>5, <1>6, <1>8 DEF Rests, Written

LEMMA CertificateStep ==
  ASSUME GoalInv, Next
  PROVE  Backed(certificate)'
<1>1. OtherChanges /\ Backed(certificate) /\ ToolOK
  BY Steps DEF GoalInv, TypeOK, Changes
<1>2. CASE UNCHANGED certificate
  BY <1>1, <1>2 DEF Backed
<1>3. CASE Certify
  <2>1. Backed(tool.certificate)
    BY <1>1, <1>3, ToolShapes DEF Certify
  <2> QED BY <1>1, <1>3, <2>1 DEF Certify, Backed
<1> QED BY <1>1, <1>2, <1>3 DEF OtherChanges

LEMMA CallStep ==
  ASSUME GoalInv, Next
  PROVE  ToolOK'
<1>1. /\ setup' = setup /\ ToolChanges /\ ToolOK /\ ReviewsOK /\ files \in Trees(Files)
      /\ setup.patches \subseteq Patches
  BY Steps, SetupFacts DEF GoalInv, TypeOK, Changes
<1>2. /\ \A fs : Trees(fs)' = Trees(fs)
      /\ \A t : Staging(t)' <=> Staging(t)
  BY <1>1 DEF Trees, Contents, Staging
<1>3. CASE UNCHANGED tool
  <2>1. tool' = tool
    BY <1>3
  <2> QED BY <2>1, <1>1, <1>2 DEF ToolOK, Staging, Idle
<1>4. CASE tool' = Idle
  BY <1>4 DEF ToolOK
<1>5. ASSUME NEW p \in setup.patches, NEW family \in Families, ApplyCheck(p.id, family)
      PROVE  ToolOK'
  <2>1. PICK q \in reviews["codex"].patches :
          /\ Applicable(q)
          /\ tool' = [op |-> "staging", patch |-> q, family |-> family, read |-> files]
    BY <1>5 DEF ApplyCheck, InReview
  <2>2. IsPatch(q)
    BY <1>1, <1>5, <2>1 DEF ApplyCheck, ReviewsOK, Families
  <2>3. /\ q.files \subseteq setup.allowed \ setup.forbidden
        /\ \A f \in q.files : files[f] = q.base[f]
    BY <2>1 DEF Applicable, Allowed, Bundle
  <2>4. tool'.op = "staging" /\ Staging(tool')
    BY <2>1, <2>2, <2>3 DEF Staging
  <2> QED BY <2>4, <1>1 DEF ToolOK, Staging
<1>6. ASSUME NEW ds \in SUBSET Docs, ConsensusPatch(ds)
      PROVE  ToolOK'
  BY <1>6 DEF ConsensusPatch, Write, ToolOK
<1>7. ASSUME NEW f \in Files, SectionRead(f)
      PROVE  ToolOK'
  BY <1>7 DEF SectionRead, ToolOK
<1>8. CASE CloseCheck
  <2>1. tool' = [op |-> "closing", certificate |-> CertificateOf(audit)] /\ Backed(CertificateOf(audit))
    BY <1>8, CertificateBacked DEF CloseCheck
  <2>2. /\ tool'.op = "closing" /\ tool' = [op |-> tool'.op, certificate |-> tool'.certificate]
        /\ Backed(tool'.certificate)
    BY <2>1
  <2> QED BY <2>2 DEF ToolOK, Backed
<1>9. CASE ApplyStaged
  <2>1. Staging(tool)
    BY <1>1, <1>9, ToolShapes DEF ApplyStaged
  <2>2. CASE tool' = Idle
    BY <2>2 DEF ToolOK
  <2>3. ASSUME NEW unread \in SUBSET tool.patch.files,
               tool' = [op |-> "applying", patch |-> tool.patch, family |-> tool.family,
                        read |-> tool.read, done |-> {}, pre |-> Before(tool.patch.files, unread)]
        PROVE  ToolOK'
    <3>1. Before(tool.patch.files, unread) \in Trees(tool.patch.files)
      BY <1>1, <2>1 DEF Staging, IsPatch, Before, Trees, Contents
    <3> DEFINE t == tool'
    <3>2. /\ t.op = "applying" /\ t.patch = tool.patch /\ t.family = tool.family
          /\ t.read = tool.read /\ t.pre = Before(tool.patch.files, unread) /\ t.done = {}
          /\ t = [op |-> "applying", patch |-> t.patch, family |-> t.family,
                  read |-> t.read, pre |-> t.pre, done |-> t.done]
      BY <2>3
    <3>3. Staging(t) /\ t.pre \in Trees(t.patch.files) /\ t.done \subseteq t.patch.files
      BY <3>1, <3>2, <2>1 DEF Staging
    <3> QED BY <3>2, <3>3, <1>1, <1>2 DEF ToolOK, Staging
  <2> QED BY <1>9, <2>2, <2>3 DEF ApplyStaged
<1>10. ASSUME NEW f \in Files, ApplyFile(f)
       PROVE  ToolOK'
  <2>1. /\ tool.op = "applying" /\ f \in tool.patch.files
        /\ tool' = [tool EXCEPT !.done = tool.done \cup {f}]
    BY <1>10 DEF ApplyFile
  <2>2. /\ tool = [op |-> "applying", patch |-> tool.patch, family |-> tool.family,
                   read |-> tool.read, pre |-> tool.pre, done |-> tool.done]
        /\ Staging(tool) /\ tool.pre \in Trees(tool.patch.files) /\ tool.done \subseteq tool.patch.files
    BY <2>1, <1>1, ToolShapes
  <2> DEFINE t == tool'
  <2>3. t = [op |-> "applying", patch |-> tool.patch, family |-> tool.family,
             read |-> tool.read, pre |-> tool.pre, done |-> tool.done \cup {f}]
    BY <2>1, <2>2
  <2>4. /\ t.op = "applying" /\ t.patch = tool.patch /\ t.family = tool.family
        /\ t.read = tool.read /\ t.pre = tool.pre /\ t.done = tool.done \cup {f}
        /\ t = [op |-> "applying", patch |-> t.patch, family |-> t.family,
                read |-> t.read, pre |-> t.pre, done |-> t.done]
    BY <2>3
  <2>5. Staging(t) /\ t.pre \in Trees(t.patch.files) /\ t.done \subseteq t.patch.files
    BY <2>1, <2>2, <2>4 DEF Staging
  <2> QED BY <2>4, <2>5, <1>1, <1>2 DEF ToolOK, Staging
<1>11. ASSUME NEW d \in Docs, WriteDoc(d)
       PROVE  ToolOK'
  <2>1. /\ tool.op = "writing" /\ d \in tool.docs
        /\ tool' = [tool EXCEPT !.done = tool.done \cup {d}]
    BY <1>11 DEF WriteDoc
  <2>2. /\ tool = [op |-> "writing", docs |-> tool.docs, done |-> tool.done]
        /\ tool.docs \subseteq Docs /\ tool.done \subseteq tool.docs
    BY <2>1, <1>1, ToolShapes
  <2>3. tool' = [op |-> "writing", docs |-> tool.docs, done |-> tool.done \cup {d}]
    BY <2>1, <2>2
  <2> QED BY <2>1, <2>2, <2>3 DEF ToolOK
<1>12. CASE SectionWrite
  <2>1. tool.op = "section" /\ tool' = [tool EXCEPT !.done = TRUE]
    BY <1>12 DEF SectionWrite
  <2>2. tool = [op |-> "section", file |-> tool.file, done |-> tool.done] /\ tool.file \in Files
    BY <2>1, <1>1, ToolShapes
  <2>3. tool' = [op |-> "section", file |-> tool.file, done |-> TRUE]
    BY <2>1, <2>2
  <2> QED BY <2>2, <2>3 DEF ToolOK
<1>13. CASE CloseAppend
  <2>1. /\ tool.op = "closing" /\ tool = [op |-> tool.op, certificate |-> tool.certificate]
        /\ Backed(tool.certificate)
    BY <1>1, <1>13, ToolShapes DEF CloseAppend
  <2>2. CASE tool' = Idle
    BY <2>2 DEF ToolOK
  <2>3. CASE tool' = [tool EXCEPT !.op = "certifying"]
    <3>1. tool' = [op |-> "certifying", certificate |-> tool.certificate]
      BY <2>1, <2>3
    <3>2. /\ tool'.op = "certifying" /\ tool' = [op |-> tool'.op, certificate |-> tool'.certificate]
          /\ Backed(tool'.certificate)
      BY <2>1, <3>1
    <3> QED BY <3>2 DEF ToolOK, Backed
  <2> QED BY <1>13, <2>2, <2>3 DEF CloseAppend
<1> QED BY <1>1, <1>3, <1>4, <1>5, <1>6, <1>7, <1>8, <1>9, <1>10, <1>11, <1>12, <1>13
        DEF ToolChanges

\* The steps in which a patch comes or goes, and all others.
Elsewhere ==
  /\ UNCHANGED <<head, hurt>> /\ (files' = files \/ SectionWrite)
  /\ tool' = tool \/ (tool.op # "applying" /\ tool'.op # "applying")
PatchSteps ==
  \/ Elsewhere \/ Commit \/ (\E f \in Files : Edit(f))
  \/ ApplyStaged \/ (\E f \in Files : ApplyFile(f)) \/ RollBack \/ ApplyLogged \/ Crash

LEMMA StepsOfPatches ==
  ASSUME Next
  PROVE  PatchSteps
<1> USE DEF PatchSteps, Elsewhere, Tools, Tree, Stays, iteration, closing, Idle
<1>1. CASE RunGoal
  BY <1>1 DEF RunGoal
<1>2. CASE \E w \in Families : WriteReview(w)
  BY <1>2 DEF WriteReview
<1>3. CASE \E d \in Docs : Author(d)
  BY <1>3 DEF Author
<1>4. CASE Tick
  BY <1>4 DEF Tick
<1>5. CASE Call
  <2>1. CASE \E p \in setup.patches, family \in Families : ApplyCheck(p.id, family)
    BY <1>5, <2>1 DEF Call, ApplyCheck
  <2>2. CASE \E ds \in setup.writes : ConsensusPatch(ds)
    BY <1>5, <2>2 DEF Call, ConsensusPatch, Write
  <2>3. CASE setup.ledger /\ UpdateLedger
    BY <1>5, <2>3 DEF Call, ConsensusPatch, UpdateLedger, Write
  <2>4. CASE \E f \in Files : SectionRead(f)
    BY <1>5, <2>4 DEF Call, SectionRead
  <2>5. CASE \E p \in setup.patches, verdict \in {"approved", "corrected"} :
               RecordVerdict(p.id, verdict)
    BY <1>5, <2>5 DEF Call, RecordVerdict
  <2>6. CASE CloseCheck
    BY <1>5, <2>6 DEF Call, CloseCheck
  <2> QED BY <1>5, <2>1, <2>2, <2>3, <2>4, <2>5, <2>6 DEF Call
<1>6. ASSUME UNCHANGED <<head, files, hurt>>, tool.op # "applying", tool'.op # "applying"
      PROVE  PatchSteps
  BY <1>6
<1>7. CASE Go
  <2>1. CASE \E d \in Docs : WriteDoc(d)
    <3>1. PICK d \in Docs : WriteDoc(d)
      BY <2>1
    <3>2. tool.op = "writing" /\ tool' = [tool EXCEPT !.done = tool.done \cup {d}]
          /\ UNCHANGED <<head, files, hurt>>
      BY <3>1 DEF WriteDoc
    <3>3. tool'.op # "applying"
      BY <3>2
    <3> QED BY <3>2, <3>3, <1>6
  <2>2. CASE WriteFails
    BY <1>7, <2>2 DEF Go, WriteFails
  <2>3. CASE WriteLogged
    BY <1>7, <2>3 DEF Go, WriteLogged
  <2>4. CASE SectionWrite
    <3>1. tool.op = "section" /\ tool' = [tool EXCEPT !.done = TRUE] /\ UNCHANGED <<head, hurt>>
      BY <2>4 DEF SectionWrite
    <3>2. tool'.op # "applying"
      BY <3>1
    <3> QED BY <3>1, <3>2, <2>4
  <2>5. CASE SectionLogged
    BY <1>7, <2>5 DEF Go, SectionLogged
  <2>6. CASE CloseAppend
    <3>1. tool.op = "closing" /\ UNCHANGED <<head, files, hurt>>
      BY <2>6 DEF CloseAppend
    <3>2. tool'.op # "applying"
      <4>1. CASE tool' = Idle
        BY <4>1
      <4>2. CASE tool' = [tool EXCEPT !.op = "certifying"]
        BY <4>2, <3>1
      <4> QED BY <4>1, <4>2, <2>6 DEF CloseAppend
    <3> QED BY <3>1, <3>2, <1>6
  <2>7. CASE Certify
    BY <1>7, <2>7 DEF Go, Certify
  <2> QED BY <1>7, <2>1, <2>2, <2>3, <2>4, <2>5, <2>6, <2>7 DEF Go, ToolStep
<1> QED BY <1>1, <1>2, <1>3, <1>4, <1>5, <1>7 DEF Next

LEMMA AccountStep ==
  ASSUME GoalInv, Next
  PROVE  Accounted'
<1>1. ToolOK /\ Accounted /\ files \in [Files -> Contents] /\ PatchSteps
  BY StepsOfPatches DEF GoalInv, TypeOK, Trees
<1> SUFFICES ASSUME NEW p \in Patches, p.number \notin hurt', NEW f \in p.files
             PROVE  /\ files'[f] = Patched(p) \/ head'[f] = Patched(p) =>
                         Logged(p.number, f)' \/ Applying(p.number, f)'
                    /\ tool'.op = "applying" /\ f \in tool'.patch.files /\ tool'.pre[f] = Patched(p) =>
                         Logged(p.number, f)'
  BY DEF Accounted
<1> DEFINE n == p.number
<1>2. f \in Files
  BY GoalAssumption
<1>3. Logged(n, f) => Logged(n, f)'
  BY LogKept DEF Logged
<1>4. ASSUME n \notin hurt
      PROVE  /\ files[f] = Patched(p) \/ head[f] = Patched(p) => Logged(n, f) \/ Applying(n, f)
             /\ tool.op = "applying" /\ f \in tool.patch.files /\ tool.pre[f] = Patched(p) =>
                  Logged(n, f)
  BY <1>1, <1>4 DEF Accounted
<1>5. CASE Elsewhere
  <2>1. n \notin hurt /\ head' = head
    BY <1>5 DEF Elsewhere
  <2>2. files'[f] = Patched(p) => files[f] = Patched(p)
    BY <1>1, <1>2, <1>5, ToolShapes, Kinds DEF Elsewhere, SectionWrite
  <2>3. Applying(n, f) => Applying(n, f)'
    BY <1>5 DEF Elsewhere, Applying
  <2>4. tool'.op = "applying" => tool' = tool
    BY <1>5 DEF Elsewhere
  <2> QED BY <2>1, <2>2, <2>3, <2>4, <1>3, <1>4
<1>6. CASE Commit
  BY <1>3, <1>4, <1>6 DEF Commit, Tools, Applying
<1>7. ASSUME NEW g \in Files, Edit(g)
      PROVE  /\ files'[f] = Patched(p) \/ head'[f] = Patched(p) =>
                  Logged(n, f)' \/ Applying(n, f)'
             /\ tool'.op = "applying" /\ f \in tool'.patch.files /\ tool'.pre[f] = Patched(p) =>
                  Logged(n, f)'
  <2>1. files'[f] = Patched(p) => files[f] = Patched(p) \/ head[f] = Patched(p)
    BY <1>1, <1>2, <1>7, Kinds DEF Edit
  <2>2. head' = head /\ tool' = tool /\ hurt' = hurt
    BY <1>7 DEF Edit, Tools
  <2> QED BY <2>1, <2>2, <1>3, <1>4 DEF Applying
<1>8. CASE ApplyStaged
  <2>1. files' = files /\ head' = head /\ hurt' = hurt /\ ~Applying(n, f)
    BY <1>8 DEF ApplyStaged, Stays, Applying
  <2>2. tool'.op = "applying" =>
          \E unread : tool'.pre = Before(tool'.patch.files, unread)
    BY <1>8 DEF ApplyStaged, Idle
  <2>3. tool'.op = "applying" /\ f \in tool'.patch.files /\ tool'.pre[f] = Patched(p) =>
          files[f] = Patched(p)
    BY <2>2, Kinds DEF Before
  <2> QED BY <2>1, <2>3, <1>3, <1>4
<1>9. ASSUME NEW g \in Files, ApplyFile(g)
      PROVE  /\ files'[f] = Patched(p) \/ head'[f] = Patched(p) =>
                  Logged(n, f)' \/ Applying(n, f)'
             /\ tool'.op = "applying" /\ f \in tool'.patch.files /\ tool'.pre[f] = Patched(p) =>
                  Logged(n, f)'
  <2>1. /\ tool.op = "applying" /\ files' = [files EXCEPT ![g] = Patched(tool.patch)]
        /\ tool' = [tool EXCEPT !.done = tool.done \cup {g}]
        /\ head' = head /\ hurt' = hurt
    BY <1>9 DEF ApplyFile, Stays
  <2>2. /\ tool'.op = "applying" /\ tool'.patch = tool.patch /\ tool'.pre = tool.pre
        /\ tool'.done = tool.done \cup {g}
    BY <1>1, <2>1, ToolShapes
  <2>3. files'[f] = Patched(p) =>
          files[f] = Patched(p) \/ (f = g /\ Patched(p) = Patched(tool.patch))
    BY <1>1, <1>2, <2>1
  <2>4. f = g /\ Patched(p) = Patched(tool.patch) => Applying(n, f)'
    BY <2>2, Kinds DEF Applying
  <2>5. Applying(n, f) => Applying(n, f)'
    BY <2>2 DEF Applying
  <2> QED BY <2>1, <2>2, <2>3, <2>4, <2>5, <1>3, <1>4
<1>10. CASE RollBack
  <2>1. PICK broken \in SUBSET tool.done :
          /\ files' = [x \in Files |-> IF x \in tool.done \ broken THEN tool.pre[x] ELSE files[x]]
          /\ hurt' = IF broken = {} /\ \A x \in tool.done : head[x] # Patched(tool.patch)
                     THEN hurt ELSE hurt \cup {tool.patch.number}
    BY <1>10 DEF RollBack
  <2>2. tool.op = "applying" /\ tool' = Idle /\ head' = head /\ tool.done \subseteq tool.patch.files
    BY <1>1, <1>10, ToolShapes DEF RollBack, Stays
  <2>3. n \notin hurt
    BY <2>1
  <2>4. head[f] = Patched(p) => Logged(n, f)
    <3>1. Applying(n, f) => Patched(p) = Patched(tool.patch) /\ f \in tool.done
      BY DEF Applying, Patched
    <3>2. Applying(n, f) /\ head[f] = Patched(p) => n \in hurt'
      BY <3>1, <2>1 DEF Applying
    <3> QED BY <3>2, <2>3, <1>4
  <2>5. files'[f] = Patched(p) => Logged(n, f)
    <3>1. CASE f \in tool.done \ broken
      BY <3>1, <1>2, <2>1, <2>2, <2>3, <1>4
    <3>2. CASE f \notin tool.done \ broken
      <4>1. files'[f] = files[f]
        BY <3>2, <2>1, <1>2
      <4>2. Applying(n, f) => n \in hurt'
        BY <3>2, <2>1 DEF Applying
      <4> QED BY <4>1, <4>2, <2>3, <1>4
    <3> QED BY <3>1, <3>2
  <2> QED BY <2>2, <2>4, <2>5, <1>3 DEF Idle
<1>11. CASE ApplyLogged
  <2>1. /\ tool.op = "applying" /\ tool.done = tool.patch.files /\ tool' = Idle
        /\ files' = files /\ head' = head
    BY <1>11 DEF ApplyLogged, Stays
  <2>2. n \notin hurt
    BY <1>11 DEF ApplyLogged
  <2>3. Applying(n, f) => Logged(n, f)'
    <3> DEFINE e == ApplyEvent(tool.patch.files, tool.family, Bundle(tool.patch.files), tool.patch.number)
    <3>1. Applying(n, f) => audit' = Append(audit, e)
      BY <1>11 DEF ApplyLogged, Applying
    <3>2. e.event = "apply_step_landed" /\ e.patch = tool.patch.number /\ e.files = tool.patch.files
      BY DEF ApplyEvent
    <3> HIDE DEF e
    <3>3. audit' = Append(audit, e) => Longer(audit', audit, e)
      BY Appended DEF GoalInv, LogOK
    <3>4. Longer(audit', audit, e) => \E i \in DOMAIN audit' : audit'[i] = e
      BY DEF Longer
    <3> QED BY <3>1, <3>2, <3>3, <3>4, <2>1 DEF Applying, Logged, Applies
  <2> QED BY <2>1, <2>2, <2>3, <1>3, <1>4 DEF Idle
<1>12. CASE Crash
  <2>1. /\ tool' = Idle /\ files' = files /\ head' = head
        /\ hurt' = IF tool.op = "applying" /\ tool.done # {}
                   THEN hurt \cup {tool.patch.number} ELSE hurt
    BY <1>12 DEF Crash, Tree
  <2>2. n \notin hurt /\ ~Applying(n, f)
    BY <2>1 DEF Applying
  <2> QED BY <2>1, <2>2, <1>3, <1>4 DEF Idle
<1> QED BY <1>1, <1>5, <1>6, <1>7, <1>8, <1>9, <1>10, <1>11, <1>12 DEF PatchSteps

LEMMA OtherStep ==
  ASSUME GoalInv, Next
  PROVE  /\ docs' \in [Docs -> Nat] /\ verdicts' \in [Ids -> {None, "approved", "corrected"}]
         /\ hurt' \subseteq Numbers /\ SpentOK'
<1>1. /\ setup' = setup /\ OtherChanges /\ SpentChanges /\ ToolOK /\ SpentOK /\ setup.edits \in Nat
      /\ docs \in [Docs -> Nat] /\ verdicts \in [Ids -> {None, "approved", "corrected"}]
      /\ hurt \subseteq Numbers /\ setup.patches \subseteq Patches
  BY Steps, SetupFacts DEF GoalInv, TypeOK, Changes, Numbers
<1>2. docs' \in [Docs -> Nat]
  BY <1>1 DEF OtherChanges, Author, WriteDoc
<1>3. verdicts' \in [Ids -> {None, "approved", "corrected"}]
  BY <1>1 DEF OtherChanges, RecordVerdict, Ids
<1>4. hurt' \subseteq Numbers
  <2>1. tool.op = "applying" => tool.patch.number \in Numbers
    BY <1>1, ToolShapes DEF Staging, IsPatch
  <2> QED BY <1>1, <2>1 DEF OtherChanges, RollBack, ApplyLogged, Crash
<1>5. SpentOK'
  <2>1. CASE UNCHANGED spent
    BY <1>1, <2>1 DEF SpentOK
  <2>2. ASSUME NEW what \in {"calls", "reviews"}, Count(what)
        PROVE  SpentOK'
    BY <1>1, <2>2 DEF SpentOK, Count
  <2>3. CASE spent.edits < setup.edits /\ Count("edits")
    BY <1>1, <2>3 DEF SpentOK, Count
  <2> QED BY <1>1, <2>1, <2>2, <2>3 DEF SpentChanges
<1> QED BY <1>2, <1>3, <1>4, <1>5

LEMMA TypeStep ==
  ASSUME GoalInv, Next
  PROVE  TypeOK'
<1>1. setup' = setup /\ setup \in Setups
  BY Steps DEF GoalInv, TypeOK, Changes
<1>2. now' \in 0..setup.time
  BY LogStep
<1>3. LogEntries(now)'
  BY LogKept
<1> QED BY <1>1, <1>2, <1>3, TreeStep, OtherStep DEF TypeOK, LogEntries, Numbers

LEMMA GoalInit ==
  ASSUME Init
  PROVE  GoalInv
<1>1. setup.edits \in Nat /\ setup.time \in Nat /\ Hand(0) \in Contents
  BY SMTT(30), GoalAssumption DEF Init, Contents
<1>2. TypeOK
  BY <1>1 DEF Init, TypeOK, Trees
<1>3. LogOK
  BY DEF Init, LogOK, IsLog, Applies
<1>4. SpentOK /\ ReviewsOK /\ ToolOK /\ Backed(certificate)
  BY <1>1 DEF Init, SpentOK, ReviewsOK, ToolOK, Backed
<1>5. InScope /\ Accounted
  <2>1. \A f \in Files : files[f] = Hand(0) /\ head[f] = Hand(0)
    BY DEF Init
  <2>2. tool.op # "applying"
    BY DEF Init, Idle
  <2>3. InScope
    BY <2>1, Kinds DEF InScope
  <2>4. Accounted
    BY <2>1, <2>2, Kinds, GoalAssumption DEF Accounted
  <2> QED BY <2>3, <2>4
<1> QED BY <1>2, <1>3, <1>4, <1>5 DEF GoalInv

LEMMA GoalStep ==
  ASSUME GoalInv, [Next]_vars
  PROVE  GoalInv'
<1>1. CASE Next
  BY <1>1, TypeStep, OtherStep, ReviewStep, LogKept, CallStep, CertificateStep, TreeStep, AccountStep
     DEF GoalInv
<1>2. CASE UNCHANGED vars
  <2>1. /\ setup' = setup /\ files' = files /\ head' = head /\ docs' = docs /\ reviews' = reviews
        /\ audit' = audit /\ certificate' = certificate /\ now' = now /\ verdicts' = verdicts
        /\ tool' = tool /\ hurt' = hurt /\ spent' = spent
    BY <1>2 DEF vars
  <2>2. TypeOK' /\ SpentOK'
    BY <2>1 DEF GoalInv, TypeOK, SpentOK, Trees, Contents
  <2>3. ReviewsOK'
    BY <2>1 DEF GoalInv, ReviewsOK
  <2>4. LogOK'
    BY <2>1 DEF GoalInv, LogOK, IsLog, Newest, Applies
  <2>5. ToolOK'
    BY <2>1 DEF GoalInv, ToolOK, Staging, Trees, Contents, Idle
  <2>6. Backed(certificate)' /\ InScope' /\ Accounted'
    BY <2>1 DEF GoalInv, Backed, InScope, Accounted, Logged, Applying, Applies
  <2> QED BY <2>2, <2>3, <2>4, <2>5, <2>6 DEF GoalInv
<1> QED BY <1>1, <1>2

\* GoalInv is inductive.
THEOREM GoalInvariant == Spec => []GoalInv
BY GoalInit, GoalStep, PTL DEF Spec

\* The log, the files, the verdicts and the history stay in their ranges.
THEOREM GoalTypes == Spec => []TypeOK
<1>1. GoalInv => TypeOK
  BY DEF GoalInv
<1> QED BY <1>1, GoalInvariant, PTL

\* A patch lands within the scope of the goal only (apply.codex_patch).
THEOREM PatchesStayInScope == Spec => []ScopeHolds
<1>1. GoalInv => ScopeHolds
  BY DEF GoalInv, InScope, ScopeHolds
<1> QED BY <1>1, GoalInvariant, PTL

\* Between calls, what a patch left in the tree is covered by an event of it,
\* unless its call went wrong (apply.codex_patch).
THEOREM LandedPatchesAreLogged == Spec => []LandedIsLogged
<1>1. GoalInv => LandedIsLogged
  BY DEF GoalInv, Accounted, LandedIsLogged, Logged, Applying, Changed
<1> QED BY <1>1, GoalInvariant, PTL

\* A closing rests on a newer verdict of another family, by someone who saw what
\* the mutation left (check_closure_invariant, _author_closure_certificate).
THEOREM ClosingsAreWitnessed == Spec => []VerdictSawMutation
<1>1. GoalInv => VerdictSawMutation
  BY DEF GoalInv, Backed, Rests, CheckClosure, CrossFamily, Freshness, VerdictSawMutation
<1> QED BY <1>1, GoalInvariant, PTL

\* The scan: the verdict of a certificate, newer than any other review, is the one
\* the scanner takes.
LEMMA ScannedVerdict ==
  ASSUME GoalInv, NEW w \in Families, NEW lm, reviews[w] # None, Rests(lm, reviews[w]),
         \A o \in Families : reviews[o] # None /\ reviews[o] # reviews[w] =>
           Scanned(o).at < reviews[w].at
  PROVE  /\ w \in ScanVerdicts(lm) /\ ScanBest(lm) = w
         /\ CheckClosure(lm, Scanned(w)) <=> reviews[w].sealed = None
<1>1. /\ lm.at \in Nat /\ reviews[w].at \in Nat /\ reviews[w].at > lm.at
      /\ CheckClosure(lm, reviews[w])
  BY DEF Rests, CheckClosure, Freshness
<1>2. /\ reviews[w].family = w /\ None \notin Families
      /\ reviews[w].sealed \in {reviews[w].at, None}
  BY <1>1, NoneAssumption DEF GoalInv, ReviewsOK, Written, Dispatched
<1>3. /\ Scanned(w).at = reviews[w].at /\ Scanned(w).actor # None
      /\ Scanned(w).target = IF reviews[w].sealed = None THEN reviews[w].target ELSE None
      /\ reviews[w].sealed = None => Scanned(w) =
           [family |-> w, eligible |-> TRUE, actor |-> reviews[w].actor,
            target |-> reviews[w].target, at |-> reviews[w].at]
  BY <1>1, <1>2 DEF Scanned, CheckClosure, CrossFamily
<1>4. CheckClosure(lm, Scanned(w)) <=> reviews[w].sealed = None
  <2>1. CASE reviews[w].sealed = None
    BY <2>1, <1>1, <1>2, <1>3 DEF CheckClosure, CrossFamily, HashMatch, Freshness
  <2>2. CASE reviews[w].sealed # None
    BY <2>2, <1>3 DEF CheckClosure, HashMatch
  <2> QED BY <2>1, <2>2
<1>5. w \in ScanVerdicts(lm)
  BY <1>1, <1>3 DEF ScanVerdicts
<1>6. \A o \in Families : reviews[o] # None => Scanned(o).at \in Nat
  BY NoneAssumption DEF GoalInv, ReviewsOK, Written, Dispatched, Scanned
<1>7. \A o \in Families : reviews[o] # None /\ o # w => Scanned(o).at < Scanned(w).at
  <2> SUFFICES ASSUME NEW o \in Families, reviews[o] # None, o # w
               PROVE  Scanned(o).at < Scanned(w).at
    OBVIOUS
  <2>1. CASE reviews[o] # reviews[w]
    BY <2>1, <1>3
  <2>2. CASE reviews[o] = reviews[w]
    <3>1. reviews[o].family = o
      BY <2>2, <1>1, NoneAssumption DEF GoalInv, ReviewsOK, Written, Dispatched
    <3> QED BY <3>1, <2>2, <1>2
  <2> QED BY <2>1, <2>2
<1> DEFINE S == ScanVerdicts(lm)
           Best(v) == \A o \in S :
             Scanned(o).at < Scanned(v).at \/ (Scanned(o).at = Scanned(v).at /\ (v = "claude" \/ o = v))
<1>8. S \subseteq Families /\ \A o \in S : reviews[o] # None
  BY DEF ScanVerdicts
<1>9. ScanBest(lm) = CHOOSE v \in S : Best(v)
  BY DEF ScanBest
<1>10. w \in S
  BY <1>5
<1> HIDE DEF S
<1>11. Best(w)
  BY <1>7, <1>8
<1>12. \A v \in S : Best(v) => v = w
  BY <1>6, <1>7, <1>8, <1>10
<1> HIDE DEF Best
<1>13. ScanBest(lm) = w
  BY <1>9, <1>10, <1>11, <1>12
<1> QED BY <1>4, <1>5, <1>13

\* What the scanner says of a standing certificate: compliant, unless the review
\* went through review.write_and_seal (scan_iteration, _load_review_yaml).
THEOREM ScansAgree == Spec => []ScanAgrees
<1>1. ASSUME GoalInv PROVE ScanAgrees
  <2> SUFFICES ASSUME certificate # None, certificate.mutation = LastMutation(audit),
                      NEW w \in Families, certificate.verdict = reviews[w],
                      \A o \in Families : reviews[o] # None /\ reviews[o] # certificate.verdict =>
                        Scanned(o).at < certificate.verdict.at
               PROVE  Scan = "compliant" <=> reviews[w].sealed = None
    BY DEF ScanAgrees, Standing
  <2> DEFINE lm == LastMutation(audit)
  <2>1. lm # None /\ Rests(lm, reviews[w])
    BY <1>1 DEF GoalInv, Backed
  <2> HIDE DEF lm
  <2>2. reviews[w] # None
    BY <2>1 DEF Rests
  <2>3. /\ w \in ScanVerdicts(lm) /\ ScanBest(lm) = w
        /\ CheckClosure(lm, Scanned(w)) <=> reviews[w].sealed = None
    BY <1>1, <2>1, <2>2, ScannedVerdict
  <2>4. Scan = IF lm = None THEN "n/a"
               ELSE IF ScanVerdicts(lm) = {} THEN "in_flight"
                    ELSE IF CheckClosure(lm, Scanned(ScanBest(lm))) THEN "compliant" ELSE "non_compliant"
    BY DEF Scan, lm
  <2> QED BY <2>1, <2>3, <2>4
<1> QED BY <1>1, GoalInvariant, PTL

\* run_goal never comes to ready_to_close over a patch that was sent back
\* (_detect_patch_verification_state, _NEXT_ACTION).
THEOREM CorrectionsAreNotClosed == Spec => []NoCloseOverCorrection
<1>1. ASSUME GoalInv, reviews["codex"] # None,
             NEW p \in reviews["codex"].patches, verdicts[p.id] = "corrected"
      PROVE  State # "ready_to_close"
  <2>1. PatchState \in {"codex_patch_proposed", "patch_corrected"}
    <3> DEFINE proposed == {verdicts[q.id] : q \in reviews["codex"].patches}
    <3>1. "corrected" \in proposed
      BY <1>1
    <3> HIDE DEF proposed
    <3>2. PatchState = CASE proposed = {} -> None
                         [] None \in proposed -> "codex_patch_proposed"
                         [] None \notin proposed /\ "corrected" \in proposed -> "patch_corrected"
                         [] proposed = {"approved"} -> "patch_verified"
      BY DEF PatchState, proposed
    <3>3. proposed # {} /\ proposed # {"approved"}
      BY <3>1
    <3> QED BY <3>1, <3>2, <3>3
  <2>2. PatchState # None
    BY <2>1, NoneAssumption
  <2>3. Pending # "ready_to_close"
    BY <1>1, <2>1, <2>2 DEF Pending
  <2> QED BY <2>3 DEF State, StopRules
<1>2. GoalInv => NoCloseOverCorrection
  BY <1>1 DEF NoCloseOverCorrection
<1> QED BY <1>2, GoalInvariant, PTL

\* A patch replaces what its author saw, or what came while it was being applied
\* (apply.codex_patch's base check).
THEOREM PatchesOverwriteWhatTheySaw == Spec => OverwritesOnlyReviewed
<1>1. ASSUME GoalInv, tool.op = "applying", tool'.op = "applying",
             [Next]_vars, NEW f \in Files, f \in tool'.done \ tool.done
      PROVE  files[f] = tool.patch.base[f] \/ files[f] # tool.read[f]
  <2>1. ToolOK /\ ToolOK'
    BY <1>1, GoalStep DEF GoalInv
  <2>2. tool.done \subseteq tool.patch.files /\ Staging(tool)
    BY <1>1, <2>1, ToolShapes
  <2>3. PICK g \in Files : ApplyFile(g)
    BY <1>1, StepsOfPatches DEF vars, PatchSteps, Elsewhere, SectionWrite, Commit, Edit, Tools,
       ApplyStaged, RollBack, ApplyLogged, Crash, Idle
  <2>4. g \in tool.patch.files /\ f = g
    BY <1>1, <2>1, <2>3, ToolShapes DEF ApplyFile
  <2> QED BY <2>2, <2>4 DEF Staging
<1>2. GoalInv /\ [Next]_vars =>
        [\A f \in Files :
           tool.op = "applying" /\ tool'.op = "applying" /\ f \in tool'.done \ tool.done =>
             files[f] = tool.patch.base[f] \/ files[f] # tool.read[f]]_vars
  BY <1>1
<1> QED BY <1>2, GoalInvariant, PTL DEF OverwritesOnlyReviewed, Spec
==============================================================================
