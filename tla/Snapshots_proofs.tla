-------------------------- MODULE Snapshots_proofs --------------------------
(***************************************************************************)
(* What a restore promises: nothing that nobody saved is lost, and no      *)
(* mixture of two states is left, however often it is stopped, as long as  *)
(* nobody else writes meanwhile.                                           *)
(***************************************************************************)
EXTENDS Consult_proofs

\* The files of a directory, and of a whole state that was seen before.
HeldBy(d, i) ==
       {<<i, "packet", d.forbidden>> : x \in {d.packet} \cap {TRUE}}
  \cup {<<i, "plan", d.plan>>        : x \in {d.plan} \ {None}}
  \cup {<<i, "outcome", d.outcome>>  : x \in {d.outcome} \ {"none"}}
  \cup {<<i, family, "review">> : family \in d.reviews}
HeldAt(its, i) == IF its[i] = None THEN {} ELSE HeldBy(its[i], i)
StoredAt(its)  == UNION {HeldAt(its, i) : i \in Iterations}

\* One content for a path.
Functional(fs) == \A a, b \in fs : a[1] = b[1] /\ a[2] = b[2] => a = b

IterTypes == [Iterations -> Directory \cup {None}]
-----------------------------------------------------------------------------
(***************************************************************************)
(* The inductive invariant: it is about what the command holds, so nothing *)
(* that others do meanwhile can break it; calm tells whether they did.     *)
(***************************************************************************)
KeptApart ==
  /\ Functional(keep.files)
  /\ \A n \in DOMAIN snapshots : /\ Functional(snapshots[n].files)
                                 /\ snapshots[n].log \subseteq DOMAIN snapshots
  /\ keep.stage = "tag" => keep.log \subseteq DOMAIN snapshots

\* A restore, until it cleans, has found what it has seen.
SeenOK ==
  keep.tag # 0 /\ keep.stage \in {"copy", "tag", "advance", "extract", "clean"} =>
    keep.at \in IterTypes /\ keep.seen = StoredAt(keep.at)

\* It is saved before it is cleaned away.
SafeOK ==
  keep.tag # 0 /\ keep.calm =>
    /\ keep.stage = "tag" => keep.seen \subseteq keep.files
    /\ keep.stage = "advance" => keep.seen \subseteq FilesIn(DOMAIN snapshots)
    /\ keep.stage \in {"extract", "clean", "fill"} /\ ~keep.force =>
         keep.seen \subseteq FilesIn(DOMAIN snapshots)

\* What is put back and what is still to come make up the snapshot.
FillOK ==
  /\ keep.stage = "clean" => keep.files = In(keep.scope, snapshots[keep.tag].files)
  /\ keep.stage = "fill" /\ keep.calm =>
       /\ keep.at \in IterTypes
       /\ In(Iterations \ keep.scope, StoredAt(keep.at)) = In(Iterations \ keep.scope, keep.seen)
       /\ In(keep.scope, StoredAt(keep.at)) \cup keep.files
            = In(keep.scope, snapshots[keep.tag].files)

RestoreOK == KeptApart /\ SeenOK /\ SafeOK /\ FillOK
-----------------------------------------------------------------------------
(***************************************************************************)
(* Files and directories.                                                  *)
(***************************************************************************)
LEMMA StoredIs == Stored = StoredAt(iters)
BY DEF Stored, StoredAt, FilesOf, HeldAt, HeldBy, Exists

\* Which files a directory holds.
LEMMA Holds ==
  ASSUME NEW d \in Directory, NEW i \in Iterations, NEW file
  PROVE  file \in HeldBy(d, i) <=>
           \/ d.packet /\ file = <<i, "packet", d.forbidden>>
           \/ d.plan # None /\ file = <<i, "plan", d.plan>>
           \/ d.outcome # "none" /\ file = <<i, "outcome", d.outcome>>
           \/ \E family \in d.reviews : file = <<i, family, "review">>
BY DEF HeldBy, Directory

LEMMA HeldFunctional ==
  ASSUME NEW d \in Directory, NEW i \in Iterations, NEW a \in HeldBy(d, i), NEW b \in HeldBy(d, i),
         a[2] = b[2]
  PROVE  a = b /\ a[1] = i
<1>1. d.reviews \cap {"packet", "plan", "outcome"} = {}
  BY FamilyAssumption DEF Directory
<1>2. \/ d.packet /\ a = <<i, "packet", d.forbidden>>
      \/ d.plan # None /\ a = <<i, "plan", d.plan>>
      \/ d.outcome # "none" /\ a = <<i, "outcome", d.outcome>>
      \/ \E family \in d.reviews : a = <<i, family, "review">>
  BY Holds
<1>3. \/ d.packet /\ b = <<i, "packet", d.forbidden>>
      \/ d.plan # None /\ b = <<i, "plan", d.plan>>
      \/ d.outcome # "none" /\ b = <<i, "outcome", d.outcome>>
      \/ \E family \in d.reviews : b = <<i, family, "review">>
  BY Holds
<1> QED BY <1>1, <1>2, <1>3

LEMMA HeldWhere ==
  ASSUME NEW d \in Directory, NEW i \in Iterations, NEW a \in HeldBy(d, i)
  PROVE  a[1] = i
BY HeldFunctional

\* A whole state has its files, each in its directory.
LEMMA StoredWhere ==
  ASSUME NEW its \in IterTypes, NEW file
  PROVE  file \in StoredAt(its) <=>
           \E i \in Iterations : file[1] = i /\ its[i] # None /\ file \in HeldBy(its[i], i)
<1>1. ASSUME NEW i \in Iterations, file \in HeldAt(its, i)
      PROVE  file[1] = i /\ its[i] # None /\ file \in HeldBy(its[i], i)
  <2>1. its[i] # None /\ its[i] \in Directory /\ file \in HeldBy(its[i], i)
    BY <1>1 DEF HeldAt, IterTypes
  <2> QED BY <2>1, HeldWhere
<1> QED BY <1>1 DEF StoredAt, HeldAt

LEMMA StoredFunctional ==
  ASSUME NEW its \in IterTypes
  PROVE  Functional(StoredAt(its))
<1> SUFFICES ASSUME NEW a \in StoredAt(its), NEW b \in StoredAt(its), a[1] = b[1], a[2] = b[2]
             PROVE  a = b
  BY DEF Functional
<1>1. PICK i \in Iterations : a[1] = i /\ its[i] # None /\ a \in HeldBy(its[i], i)
  BY StoredWhere
<1>2. PICK j \in Iterations : b[1] = j /\ its[j] # None /\ b \in HeldBy(its[j], j)
  BY StoredWhere
<1>3. its[i] \in Directory /\ b \in HeldBy(its[i], i)
  BY <1>1, <1>2 DEF IterTypes
<1> QED BY <1>1, <1>3, HeldFunctional

\* A file that is put back is the only change.
LEMMA WithHolds ==
  ASSUME NEW d \in Directory, NEW file \in SavedFiles, Functional(HeldBy(d, file[1]) \cup {file})
  PROVE  HeldBy(With(d, file), file[1]) = HeldBy(d, file[1]) \cup {file}
<1> PICK i, e : i = file[1] /\ e = With(d, file)
  OBVIOUS
<1>1. i \in Iterations /\ e \in Directory
  BY WithTyped
<1>2. \A x : \/ x \notin HeldBy(d, i) \/ x[1] # file[1] \/ x[2] # file[2] \/ x = file
  BY DEF Functional
<1> SUFFICES ASSUME NEW x PROVE x \in HeldBy(e, i) <=> x \in HeldBy(d, i) \/ x = file
  OBVIOUS
<1>3. x \in HeldBy(e, i) <=>
        \/ e.packet /\ x = <<i, "packet", e.forbidden>>
        \/ e.plan # None /\ x = <<i, "plan", e.plan>>
        \/ e.outcome # "none" /\ x = <<i, "outcome", e.outcome>>
        \/ \E family \in e.reviews : x = <<i, family, "review">>
  BY <1>1, Holds
<1>4. \A y : y \in HeldBy(d, i) <=>
        \/ d.packet /\ y = <<i, "packet", d.forbidden>>
        \/ d.plan # None /\ y = <<i, "plan", d.plan>>
        \/ d.outcome # "none" /\ y = <<i, "outcome", d.outcome>>
        \/ \E family \in d.reviews : y = <<i, family, "review">>
  BY <1>1, Holds
<1>5. CASE file \in Iterations \X {"packet"} \X SUBSET Files
  <2>1. /\ e.packet = TRUE /\ e.forbidden = file[3] /\ e.plan = d.plan /\ e.outcome = d.outcome
        /\ e.reviews = d.reviews
    BY <1>5 DEF With, Directory
  <2>2. file = <<i, "packet", file[3]>>
    BY <1>5
  <2>3. d.packet => d.forbidden = file[3]
    <3> DEFINE y == <<i, "packet", d.forbidden>>
    <3>1. d.packet => y \in HeldBy(d, i)
      BY <1>4
    <3>2. y[1] = i /\ y[2] = "packet" /\ y[3] = d.forbidden
      OBVIOUS
    <3> HIDE DEF y
    <3> QED BY <1>2, <2>2, <3>1, <3>2
  <2> QED BY <1>3, <1>4, <2>1, <2>2, <2>3
<1>6. CASE file \in Iterations \X {"plan"} \X Plans
  <2>1. /\ e.plan = file[3] /\ e.packet = d.packet /\ e.forbidden = d.forbidden
        /\ e.outcome = d.outcome /\ e.reviews = d.reviews
    BY <1>6 DEF With, Directory
  <2>2. file = <<i, "plan", file[3]>> /\ file[3] # None
    BY <1>6, NoneAssumption
  <2>3. d.plan # None => d.plan = file[3]
    <3> DEFINE y == <<i, "plan", d.plan>>
    <3>1. d.plan # None => y \in HeldBy(d, i)
      BY <1>4
    <3>2. y[1] = i /\ y[2] = "plan" /\ y[3] = d.plan
      OBVIOUS
    <3> HIDE DEF y
    <3> QED BY <1>2, <2>2, <3>1, <3>2
  <2> QED BY <1>3, <1>4, <2>1, <2>2, <2>3
<1>7. CASE file \in Iterations \X {"outcome"} \X (Outcomes \ {"none"})
  <2>1. /\ e.outcome = file[3] /\ e.packet = d.packet /\ e.forbidden = d.forbidden
        /\ e.plan = d.plan /\ e.reviews = d.reviews
    BY <1>7 DEF With, Directory
  <2>2. file = <<i, "outcome", file[3]>> /\ file[3] # "none"
    BY <1>7
  <2>3. d.outcome # "none" => d.outcome = file[3]
    <3> DEFINE y == <<i, "outcome", d.outcome>>
    <3>1. d.outcome # "none" => y \in HeldBy(d, i)
      BY <1>4
    <3>2. y[1] = i /\ y[2] = "outcome" /\ y[3] = d.outcome
      OBVIOUS
    <3> HIDE DEF y
    <3> QED BY <1>2, <2>2, <3>1, <3>2
  <2> QED BY <1>3, <1>4, <2>1, <2>2, <2>3
<1>8. CASE file \in Iterations \X Families \X {"review"}
  <2>1. file[2] \notin {"packet", "plan", "outcome"} /\ file = <<i, file[2], "review">>
    BY <1>8, FamilyAssumption
  <2>2. /\ e.reviews = d.reviews \cup {file[2]} /\ e.packet = d.packet
        /\ e.forbidden = d.forbidden /\ e.plan = d.plan /\ e.outcome = d.outcome
    BY <2>1 DEF With, Directory
  <2> QED BY <1>3, <1>4, <2>1, <2>2
<1> QED BY <1>5, <1>6, <1>7, <1>8 DEF SavedFiles
-----------------------------------------------------------------------------
(***************************************************************************)
(* The steps.                                                              *)
(***************************************************************************)
LEMMA SavedTyped ==
  ASSUME ConsultInv
  PROVE  /\ keep \in Keeping /\ keep.tag \in 0..Len(snapshots) /\ iters \in IterTypes
         /\ setup \in Setups /\ KeepOK /\ IterType /\ snapshots \in Seq(SavedCommits)
         /\ Len(snapshots) \in Nat /\ DOMAIN snapshots = 1..Len(snapshots)
         /\ \A n \in DOMAIN snapshots : snapshots[n] \in SavedCommits
BY DEF ConsultInv, KeepOK, StateOK, TypeOK, IterTypes, IterType

\* What only others do leaves the command's own alone.
LEMMA OthersDoNot ==
  ASSUME RestoreOK, UNCHANGED svars
  PROVE  RestoreOK'
<1>1. keep' = keep /\ snapshots' = snapshots
  BY DEF svars, store
<1> QED BY <1>1 DEF RestoreOK, KeptApart, SeenOK, SafeOK, FillOK, FilesIn

LEMMA AtRestOK ==
  ASSUME KeptApart, keep' = Resting, UNCHANGED snapshots
  PROVE  RestoreOK'
BY DEF Resting, RestoreOK, KeptApart, Functional, SeenOK, SafeOK, FillOK

\* A restore begins: what is not dirty is saved.
LEMMA RestoreKept ==
  ASSUME ConsultInv, RestoreOK, NEW tag \in DOMAIN snapshots,
         NEW scope \in {Iterations} \cup {{i} : i \in Iterations},
         NEW force \in BOOLEAN, NEW abort \in BOOLEAN, Restore(tag, scope, force, abort)
  PROVE  RestoreOK'
<1>1. snapshots' = snapshots /\ (keep' = keep \/ RestoreBegun(tag, scope, force))
  <2>1. keep' = keep \/ RestoreBegun(tag, scope, force)
    BY SavedTyped, RestoreBegins
  <2> QED BY <2>1 DEF Restore, store
<1>2. CASE keep' = keep
  BY <1>1, <1>2 DEF RestoreOK, KeptApart, SeenOK, SafeOK, FillOK, FilesIn
<1>3. CASE RestoreBegun(tag, scope, force)
  <2>1. /\ keep'.stage \in {"copy", "extract"} /\ keep'.seen = Stored /\ keep'.at = iters
        /\ keep'.files = {} /\ keep'.force = force
        /\ keep'.stage = "extract" => force \/ Dirty(tag) = {}
    BY <1>3 DEF RestoreBegun
  <2>2. KeptApart'
    BY <1>1, <2>1 DEF RestoreOK, KeptApart, Functional
  <2>3. SeenOK'
    BY <2>1, SavedTyped, StoredIs DEF SeenOK
  <2>4. Dirty(tag) = {} => Stored \subseteq FilesIn(DOMAIN snapshots)
    <3>1. OnBranch \subseteq DOMAIN snapshots
      <4>1. branch \notin {None, 0} => branch \in DOMAIN snapshots
        BY SavedTyped DEF KeepOK
      <4> QED BY <4>1 DEF OnBranch, RestoreOK, KeptApart
    <3>2. FilesIn(OnBranch \cup {tag}) \subseteq FilesIn(DOMAIN snapshots)
      BY <3>1 DEF FilesIn
    <3>3. Dirty(tag) = {} => Stored \ FilesIn(OnBranch \cup {tag}) = {}
      <4> DEFINE lost == Stored \ FilesIn(OnBranch \cup {tag})
      <4>1. Dirty(tag) = {} => Paths(lost) = {}
        BY DEF Dirty
      <4> HIDE DEF lost
      <4>2. Paths(lost) = {} => lost = {}
        BY DEF Paths
      <4> QED BY <4>1, <4>2 DEF lost
    <3> QED BY <3>2, <3>3
  <2>5. SafeOK'
    <3>1. FilesIn(DOMAIN snapshots)' = FilesIn(DOMAIN snapshots)
      BY <1>1 DEF FilesIn
    <3> QED BY <2>1, <2>4, <3>1 DEF SafeOK
  <2>6. FillOK'
    BY <2>1 DEF FillOK
  <2> QED BY <2>2, <2>3, <2>5, <2>6 DEF RestoreOK
<1> QED BY <1>1, <1>2, <1>3

LEMMA CopyTreeKept ==
  ASSUME ConsultInv, RestoreOK, CopyTree
  PROVE  RestoreOK'
<1> DEFINE calm == keep.calm /\ keep.at = iters
<1>1. /\ keep' = [keep EXCEPT !.stage = "tag", !.files = Stored, !.log = OnBranch, !.calm = calm]
      /\ snapshots' = snapshots /\ keep.stage = "copy"
  BY DEF CopyTree
<1> HIDE DEF calm
<1>2. /\ keep'.stage = "tag" /\ keep'.files = Stored /\ keep'.log = OnBranch /\ keep'.calm = calm
      /\ keep'.tag = keep.tag /\ keep'.at = keep.at /\ keep'.seen = keep.seen
  BY <1>1, SavedTyped DEF Keeping
<1>3. OnBranch \subseteq DOMAIN snapshots
  <2>1. branch \notin {None, 0} => branch \in DOMAIN snapshots
    BY SavedTyped DEF KeepOK
  <2> QED BY <2>1 DEF OnBranch, RestoreOK, KeptApart
<1>4. Functional(Stored)
  BY SavedTyped, StoredIs, StoredFunctional
<1>5. KeptApart'
  BY <1>1, <1>2, <1>3, <1>4 DEF RestoreOK, KeptApart, Functional
<1>6. SeenOK'
  BY <1>1, <1>2 DEF RestoreOK, SeenOK
<1>7. SafeOK'
  BY <1>1, <1>2, StoredIs DEF RestoreOK, SeenOK, SafeOK, calm
<1>8. FillOK'
  BY <1>2 DEF FillOK
<1> QED BY <1>5, <1>6, <1>7, <1>8 DEF RestoreOK

LEMMA TagKept ==
  ASSUME ConsultInv, RestoreOK, Tag
  PROVE  RestoreOK'
<1> DEFINE n == Len(snapshots) + 1
           commit == [files |-> keep.files, log |-> keep.log \cup {n}]
<1>1. snapshots' = Append(snapshots, commit) /\ keep.stage = "tag" /\ Keeps("advance")
  BY DEF Tag
<1>2. commit.files = keep.files /\ commit.log = keep.log \cup {n}
  OBVIOUS
<1> HIDE DEF commit
<1>3. /\ keep'.stage = "advance" /\ keep'.tag = keep.tag /\ keep'.at = keep.at
      /\ keep'.seen = keep.seen /\ keep'.files = keep.files /\ (keep'.calm => keep.calm)
  BY <1>1, SavedTyped, KeepsOn
<1>4. /\ DOMAIN snapshots' = DOMAIN snapshots \cup {n} /\ snapshots'[n] = commit
      /\ \A m \in DOMAIN snapshots : snapshots'[m] = snapshots[m]
  BY <1>1, SavedTyped, AppendProperties
<1>5. KeptApart'
  BY <1>1, <1>2, <1>3, <1>4 DEF RestoreOK, KeptApart, Functional
<1>6. SeenOK'
  BY <1>1, <1>3 DEF RestoreOK, SeenOK
<1>7. SafeOK'
  <2>1. keep.files \subseteq FilesIn(DOMAIN snapshots)'
    BY <1>2, <1>4 DEF FilesIn
  <2> QED BY <1>1, <1>3, <2>1 DEF RestoreOK, SafeOK
<1>8. FillOK'
  BY <1>3 DEF FillOK
<1> QED BY <1>5, <1>6, <1>7, <1>8 DEF RestoreOK

LEMMA AdvanceKept ==
  ASSUME ConsultInv, RestoreOK, Advance
  PROVE  RestoreOK'
<1>1. snapshots' = snapshots /\ keep.stage = "advance"
      /\ (keep' = Resting \/ (keep.tag # 0 /\ Keeps("extract")))
  BY DEF Advance
<1>2. CASE keep' = Resting
  BY <1>1, <1>2, AtRestOK DEF RestoreOK
<1>3. CASE keep.tag # 0 /\ Keeps("extract")
  <2>1. /\ keep'.stage = "extract" /\ keep'.tag = keep.tag /\ keep'.at = keep.at
        /\ keep'.seen = keep.seen /\ keep'.files = keep.files /\ (keep'.calm => keep.calm)
    BY <1>3, SavedTyped, KeepsOn
  <2> QED BY <1>1, <2>1 DEF RestoreOK, KeptApart, SeenOK, SafeOK, FillOK, FilesIn
<1> QED BY <1>1, <1>2, <1>3

LEMMA ExtractKept ==
  ASSUME ConsultInv, RestoreOK, Extract
  PROVE  RestoreOK'
<1> DEFINE calm  == keep.calm /\ keep.at = iters
           files == In(keep.scope, snapshots[keep.tag].files)
<1>1. /\ keep.stage = "extract" /\ snapshots' = snapshots
      /\ \/ keep' = Resting
         \/ keep' = [keep EXCEPT !.stage = "clean", !.calm = calm, !.files = files]
  BY DEF Extract, store
<1>2. CASE keep' = Resting
  BY <1>1, <1>2, AtRestOK DEF RestoreOK
<1>3. CASE keep' = [keep EXCEPT !.stage = "clean", !.calm = calm, !.files = files]
  <2>1. Functional(files)
    <3>1. keep.tag \in DOMAIN snapshots
      BY <1>1, SavedTyped DEF KeepOK
    <3> QED BY <3>1 DEF RestoreOK, KeptApart, Functional, In
  <2> HIDE DEF calm, files
  <2>2. /\ keep'.stage = "clean" /\ keep'.files = files /\ keep'.calm = calm /\ keep'.tag = keep.tag
        /\ keep'.at = keep.at /\ keep'.seen = keep.seen /\ keep'.scope = keep.scope
        /\ keep'.force = keep.force
    BY <1>3, SavedTyped DEF Keeping
  <2>3. KeptApart'
    BY <1>1, <2>1, <2>2 DEF RestoreOK, KeptApart, Functional
  <2>4. SeenOK'
    BY <1>1, <2>2 DEF RestoreOK, SeenOK
  <2>5. SafeOK'
    <3>1. FilesIn(DOMAIN snapshots)' = FilesIn(DOMAIN snapshots) /\ (calm => keep.calm)
      BY <1>1 DEF FilesIn, calm
    <3> QED BY <1>1, <2>2, <3>1 DEF RestoreOK, SafeOK
  <2>6. FillOK'
    BY <1>1, <2>2 DEF FillOK, files, In
  <2> QED BY <2>3, <2>4, <2>5, <2>6 DEF RestoreOK
<1> QED BY <1>1, <1>2, <1>3

\* What is cleaned is gone, and the rest as it was.
LEMMA CleanKept ==
  ASSUME ConsultInv, RestoreOK, Clean
  PROVE  RestoreOK'
<1> DEFINE calm == keep.calm /\ keep.at = iters
<1>1. /\ keep.stage = "clean" /\ snapshots' = snapshots
      /\ keep' = [keep EXCEPT !.stage = "fill", !.at = iters', !.calm = calm]
      /\ iters' = [i \in Iterations |-> IF i \in keep.scope THEN None ELSE iters[i]]
  BY DEF Clean, store
<1>2. iters' \in IterTypes
  BY <1>1, SavedTyped DEF IterTypes
<1> HIDE DEF calm
<1>3. /\ keep'.stage = "fill" /\ keep'.files = keep.files /\ keep'.calm = calm
      /\ keep'.tag = keep.tag /\ keep'.at = iters' /\ keep'.seen = keep.seen
      /\ keep'.scope = keep.scope /\ keep'.force = keep.force
  BY <1>1, SavedTyped DEF Keeping
<1>4. KeptApart'
  BY <1>1, <1>3 DEF RestoreOK, KeptApart, Functional
<1>5. SeenOK'
  BY <1>3 DEF SeenOK
<1>6. keep.tag # 0
  BY <1>1, SavedTyped DEF KeepOK
<1>7. SafeOK'
  <2>1. FilesIn(DOMAIN snapshots)' = FilesIn(DOMAIN snapshots) /\ (calm => keep.calm)
    BY <1>1 DEF FilesIn, calm
  <2> QED BY <1>1, <1>3, <2>1 DEF RestoreOK, SafeOK
<1>8. ASSUME calm
      PROVE  /\ In(Iterations \ keep.scope, StoredAt(iters')) = In(Iterations \ keep.scope, keep.seen)
             /\ In(keep.scope, StoredAt(iters')) = {}
  <2>1. keep.seen = StoredAt(iters)
    BY <1>1, <1>6, <1>8 DEF RestoreOK, SeenOK, calm
  <2>2. \A file : file \in StoredAt(iters') <=> file \in StoredAt(iters) /\ file[1] \notin keep.scope
    <3> TAKE file
    <3>1. file \in StoredAt(iters) <=>
            \E i \in Iterations : file[1] = i /\ iters[i] # None /\ file \in HeldBy(iters[i], i)
      BY SavedTyped, StoredWhere
    <3>2. file \in StoredAt(iters') <=>
            \E i \in Iterations : file[1] = i /\ iters'[i] # None /\ file \in HeldBy(iters'[i], i)
      BY <1>2, StoredWhere
    <3> QED BY <1>1, <3>1, <3>2
  <2> QED BY <2>1, <2>2 DEF In
<1>9. FillOK'
  BY <1>1, <1>2, <1>3, <1>8, ZenonT(60) DEF RestoreOK, FillOK, calm
<1> QED BY <1>4, <1>5, <1>7, <1>9 DEF RestoreOK

\* What is copied back is one more of the snapshot's files.
LEMMA CopyBackKept ==
  ASSUME ConsultInv, RestoreOK, CopyBack
  PROVE  RestoreOK'
<1> DEFINE calm == keep.calm /\ keep.at = iters
           Dir(i) == IF Exists(i) THEN iters[i] ELSE Empty
<1>1. keep.stage = "fill" /\ snapshots' = snapshots
  BY DEF CopyBack, store
<1>2. PICK file \in keep.files :
        /\ iters' = [iters EXCEPT ![file[1]] = With(Dir(file[1]), file)]
        /\ keep' = [keep EXCEPT !.files = @ \ {file}, !.at = iters', !.calm = calm]
  BY DEF CopyBack
<1> PICK i, d : i = file[1] /\ d = Dir(i)
  OBVIOUS
<1>3. file \in SavedFiles /\ i \in Iterations /\ d \in Directory
  <2>1. file \in SavedFiles
    BY SavedTyped DEF Keeping
  <2>2. i \in Iterations
    BY <2>1, WithTyped, EmptyIs
  <2>3. d \in Directory
    BY <2>2, SavedTyped, EmptyIs DEF IterTypes, Exists
  <2> QED BY <2>1, <2>2, <2>3
<1>4. With(d, file) \in Directory /\ iters' = [iters EXCEPT ![i] = With(d, file)]
  BY <1>2, <1>3, WithTyped
<1>5. iters' \in IterTypes
  BY <1>3, <1>4, SavedTyped DEF IterTypes
<1> HIDE DEF calm
<1>6. /\ keep'.stage = "fill" /\ keep'.files = keep.files \ {file} /\ keep'.calm = calm
      /\ keep'.tag = keep.tag /\ keep'.at = iters' /\ keep'.seen = keep.seen
      /\ keep'.scope = keep.scope /\ keep'.force = keep.force
  BY <1>1, <1>2, SavedTyped DEF Keeping
<1>7. KeptApart'
  BY <1>1, <1>6 DEF RestoreOK, KeptApart, Functional
<1>8. SeenOK'
  BY <1>6 DEF SeenOK
<1>9. SafeOK'
  BY <1>1, <1>6, ZenonT(60) DEF RestoreOK, SafeOK, FilesIn, calm
<1>10. ASSUME calm
       PROVE  StoredAt(iters') = StoredAt(iters) \cup {file} /\ i \in keep.scope
  <2>1. /\ keep.at = iters
        /\ In(keep.scope, StoredAt(iters)) \cup keep.files = In(keep.scope, snapshots[keep.tag].files)
    BY <1>1, <1>10 DEF RestoreOK, FillOK, calm
  <2>2. i \in keep.scope
    BY <2>1 DEF In
  <2>3. \A x : x \in HeldBy(d, i) => x[1] = i /\ x \in StoredAt(iters)
    <3> TAKE x
    <3>1. CASE Exists(i)
      BY <1>3, <3>1, SavedTyped, StoredWhere, HeldWhere DEF Exists
    <3>2. CASE ~Exists(i)
      BY <3>2 DEF HeldBy, Empty
    <3> QED BY <3>1, <3>2
  <2>4. Functional(HeldBy(d, i) \cup {file})
    <3>1. keep.tag \in DOMAIN snapshots
      BY <1>1, SavedTyped DEF KeepOK
    <3>2. Functional(In(keep.scope, snapshots[keep.tag].files))
      BY <3>1 DEF RestoreOK, KeptApart, Functional, In
    <3>3. HeldBy(d, i) \cup {file} \subseteq In(keep.scope, snapshots[keep.tag].files)
      BY <2>1, <2>2, <2>3 DEF In
    <3> QED BY <3>2, <3>3 DEF Functional
  <2>5. HeldBy(With(d, file), i) = HeldBy(d, i) \cup {file}
    BY <1>3, <2>4, WithHolds
  <2>6. \A x : x \in StoredAt(iters') <=> x \in StoredAt(iters) \/ x = file
    <3> TAKE x
    <3>1. x \in StoredAt(iters) <=>
            \E j \in Iterations : x[1] = j /\ iters[j] # None /\ x \in HeldBy(iters[j], j)
      BY SavedTyped, StoredWhere
    <3>2. x \in StoredAt(iters') <=>
            \E j \in Iterations : x[1] = j /\ iters'[j] # None /\ x \in HeldBy(iters'[j], j)
      BY <1>5, StoredWhere
    <3>3. /\ iters'[i] = With(d, file) /\ iters'[i] # None
          /\ \A j \in Iterations : j # i => iters'[j] = iters[j]
      BY <1>3, <1>4, SavedTyped, NoneAssumption DEF IterTypes
    <3>4. CASE x[1] = i
      <4>1. x \in StoredAt(iters') <=> x \in HeldBy(d, i) \/ x = file
        BY <1>3, <2>5, <3>2, <3>3, <3>4
      <4>2. x \in StoredAt(iters) => x \in HeldBy(d, i)
        BY <3>1, <3>4 DEF Exists
      <4> QED BY <2>3, <4>1, <4>2
    <3>5. CASE x[1] # i
      BY <3>1, <3>2, <3>3, <3>5
    <3> QED BY <3>4, <3>5
  <2> QED BY <2>2, <2>6
<1>11. FillOK'
  <2> SUFFICES ASSUME calm
               PROVE  /\ In(Iterations \ keep.scope, StoredAt(iters'))
                           = In(Iterations \ keep.scope, keep.seen)
                      /\ In(keep.scope, StoredAt(iters')) \cup (keep.files \ {file})
                           = In(keep.scope, snapshots[keep.tag].files)
    BY <1>1, <1>5, <1>6 DEF FillOK
  <2>1. /\ In(Iterations \ keep.scope, StoredAt(iters)) = In(Iterations \ keep.scope, keep.seen)
        /\ In(keep.scope, StoredAt(iters)) \cup keep.files
             = In(keep.scope, snapshots[keep.tag].files)
    BY <1>1 DEF RestoreOK, FillOK, calm
  <2>2. In(Iterations \ keep.scope, StoredAt(iters')) = In(Iterations \ keep.scope, StoredAt(iters))
    BY <1>10 DEF In
  <2>3. In(keep.scope, StoredAt(iters')) = In(keep.scope, StoredAt(iters)) \cup {file}
    BY <1>10 DEF In
  <2> QED BY <2>1, <2>2, <2>3
<1> QED BY <1>7, <1>8, <1>9, <1>11 DEF RestoreOK

LEMMA RestoreStarts == SnapshotInit => RestoreOK
BY DEF SnapshotInit, Resting, RestoreOK, KeptApart, Functional, SeenOK, SafeOK, FillOK

LEMMA RestoreSteps ==
  ASSUME ConsultInv, RestoreOK, [SnapshotNext]_<<vars, svars>>
  PROVE  RestoreOK'
<1>1. CASE UNCHANGED svars
  BY <1>1, OthersDoNot
<1>2. CASE Save
  <2>1. /\ keep'.stage = "copy" /\ keep'.tag = 0 /\ keep'.files = {} /\ snapshots' = snapshots
    BY <1>2 DEF Save, Resting, store
  <2> QED BY <2>1 DEF RestoreOK, KeptApart, Functional, SeenOK, SafeOK, FillOK
<1>3. CASE Restored \/ Stops
  BY <1>3, AtRestOK DEF Restored, Stops, store, RestoreOK
<1> QED
  BY <1>1, <1>2, <1>3, RestoreKept, CopyTreeKept, TagKept, AdvanceKept, ExtractKept, CleanKept,
    CopyBackKept DEF SnapshotNext, Keeper

\* A restore that is done has put back its snapshot and nothing else, and what
\* it cleaned away is in a tagged snapshot, unless it was forced; wherever it is
\* stopped before, and as long as nobody else writes.
THEOREM RestoresAreFaithful == SnapshotSpec => []RestoreIsFaithful
<1>1. ConsultInv /\ RestoreOK => RestoreIsFaithful
  <2> SUFFICES ASSUME ConsultInv, RestoreOK, keep.stage = "fill", keep.calm, keep.at = iters
               PROVE  /\ ~keep.force => keep.seen \subseteq FilesIn(DOMAIN snapshots)
                      /\ keep.files = {} =>
                           Stored = In(keep.scope, snapshots[keep.tag].files)
                                      \cup In(Iterations \ keep.scope, keep.seen)
    BY DEF RestoreIsFaithful
  <2>1. keep.tag # 0
    BY SavedTyped DEF KeepOK
  <2>2. ~keep.force => keep.seen \subseteq FilesIn(DOMAIN snapshots)
    BY <2>1 DEF RestoreOK, SafeOK
  <2>3. /\ In(Iterations \ keep.scope, Stored) = In(Iterations \ keep.scope, keep.seen)
        /\ In(keep.scope, Stored) \cup keep.files = In(keep.scope, snapshots[keep.tag].files)
    BY StoredIs DEF RestoreOK, FillOK
  <2>4. \A file \in Stored : file[1] \in Iterations
    BY SavedTyped, StoredIs, StoredWhere
  <2>5. Stored = In(keep.scope, Stored) \cup In(Iterations \ keep.scope, Stored)
    BY <2>4 DEF In
  <2> QED BY <2>2, <2>3, <2>5
<1>2. ConsultInv /\ RestoreOK /\ [SnapshotNext]_<<vars, svars>> => RestoreOK'
  BY RestoreSteps
<1> QED BY <1>1, <1>2, RestoreStarts, ConsultInvariant, PTL DEF SnapshotSpec
=============================================================================
