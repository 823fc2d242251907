----------------------------- MODULE Snapshots ------------------------------
(***************************************************************************)
(* _snapshot_state: the operator saves consensus-state on a branch of its  *)
(* own and restores it, while the panel and the host write on.  Commits    *)
(* are made in a temporary worktree; what a restore overwrites is looked   *)
(* for in the snapshots first.                                             *)
(***************************************************************************)
EXTENDS Consult, Sequences

\* A review is a file of its family's name, next to the three others.
ASSUME FamilyAssumption == Families \cap {"packet", "plan", "outcome"} = {}

VARIABLES
  snapshots, \* the tagged commits: the files of each, and its log with itself
  branch,    \* None, 0 for its first, empty commit, or the snapshot it is at
  keep,      \* the command the operator is in
  kept       \* commands of the operator so far

store == <<snapshots, branch>>
svars == <<store, keep, kept>>
-----------------------------------------------------------------------------
\* A file is <<iteration, name, content>>. Git knows no empty directory.
FilesOf(i) ==
  IF ~Exists(i) THEN {}
  ELSE      {<<i, "packet", iters[i].forbidden>> : x \in {iters[i].packet} \cap {TRUE}}
       \cup {<<i, "plan", iters[i].plan>>        : x \in {iters[i].plan} \ {None}}
       \cup {<<i, "outcome", iters[i].outcome>>  : x \in {iters[i].outcome} \ {"none"}}
       \cup {<<i, family, "review">> : family \in iters[i].reviews}
Stored == UNION {FilesOf(i) : i \in Iterations}

In(scope, fs) == {file \in fs : file[1] \in scope}
Paths(fs)     == {<<file[1], file[2]>> : file \in fs}
FilesIn(ns)   == UNION {snapshots[n].files : n \in ns}
OnBranch      == IF branch \in {None, 0} THEN {} ELSE snapshots[branch].log

\* A mutant: a file is saved when any version of it is.
DirtyByName(tag) == {p \in Paths(Stored) : p \notin Paths(FilesIn(OnBranch \cup {tag}))}
\* _detect_dirty_paths: files that no commit of the branch, nor the one to be
\* restored, has as they are, and those it has that are not there.
Dirty(tag) ==
  LET saved  == FilesIn(OnBranch \cup {tag})
      target == IF snapshots[tag].files # {} THEN snapshots[tag].files ELSE saved
  IN  Paths(Stored \ saved) \cup (Paths(target) \ Paths(Stored))
-----------------------------------------------------------------------------
Resting == [stage |-> "none", tag |-> 0, scope |-> {}, force |-> FALSE, files |-> {}, log |-> {},
            seen |-> {}, at |-> None, calm |-> TRUE]   \* seen .. calm: what it found and left
Keeps(stage) == keep' = [keep EXCEPT !.stage = stage, !.calm = @ /\ keep.at = iters]
Alone == UNCHANGED <<tree, head, gone, tokens, tool, markers, shells, mode>>
Start == /\ keep.stage = "none" /\ kept < setup.restores /\ kept' = kept + 1
         /\ \A s \in Shells : cmd[s] = None

Save ==
  /\ Start /\ keep' = [Resting EXCEPT !.stage = "copy", !.at = iters]
  /\ UNCHANGED <<repo, markers, shells, mode, store>>

\* Without --force what is dirty is refused, or saved first.
Restore(tag, scope, force, abort) ==
  /\ Start
  /\ LET begun == [Resting EXCEPT !.tag = tag, !.scope = scope, !.force = force,
                                  !.seen = Stored, !.at = iters]
     IN  \/ (force \/ Dirty(tag) = {}) /\ keep' = [begun EXCEPT !.stage = "extract"]
         \/ ~force /\ Dirty(tag) # {} /\ abort /\ UNCHANGED keep
         \/ ~force /\ Dirty(tag) # {} /\ ~abort /\ keep' = [begun EXCEPT !.stage = "copy"]
  /\ UNCHANGED <<repo, markers, shells, mode, store>>

\* _snapshot_via_worktree: the branch is made if need be, the tree copied,
\* committed and tagged, and the branch moved to the commit.
CopyTree ==
  /\ keep.stage = "copy"
  /\ branch' = IF branch = None THEN 0 ELSE branch
  /\ keep' = [keep EXCEPT !.stage = "tag", !.files = Stored, !.log = OnBranch,
                          !.calm = @ /\ keep.at = iters]
  /\ UNCHANGED <<repo, markers, shells, mode, snapshots, kept>>

Tag ==
  /\ keep.stage = "tag"
  /\ snapshots' = Append(snapshots, [files |-> keep.files,
                                     log |-> keep.log \cup {Len(snapshots) + 1}])
  /\ Keeps("advance")
  /\ UNCHANGED <<repo, markers, shells, mode, branch, kept>>

Advance ==
  /\ keep.stage = "advance"
  /\ branch' = Len(snapshots)
  /\ IF keep.tag = 0 THEN keep' = Resting ELSE Keeps("extract")
  /\ UNCHANGED <<repo, markers, shells, mode, snapshots, kept>>

\* An iteration the snapshot does not have is not restored; a full restore of
\* an empty one is.
Extract ==
  /\ keep.stage = "extract"
  /\ IF keep.scope # Iterations /\ In(keep.scope, snapshots[keep.tag].files) = {}
     THEN keep' = Resting
     ELSE keep' = [keep EXCEPT !.stage = "clean", !.calm = @ /\ keep.at = iters,
                               !.files = In(keep.scope, snapshots[keep.tag].files)]
  /\ UNCHANGED <<repo, markers, shells, mode, store, kept>>

Clean ==
  /\ keep.stage = "clean"
  /\ iters' = [i \in Iterations |-> IF i \in keep.scope THEN None ELSE iters[i]]
  /\ keep' = [keep EXCEPT !.stage = "fill", !.at = iters', !.calm = @ /\ keep.at = iters]
  /\ Alone
  /\ UNCHANGED <<store, kept>>

\* copy2, file by file, with the directories on its way.
With(d, file) ==
  CASE file[2] = "packet"  -> [d EXCEPT !.packet = TRUE, !.forbidden = file[3]]
    [] file[2] = "plan"    -> [d EXCEPT !.plan = file[3]]
    [] file[2] = "outcome" -> [d EXCEPT !.outcome = file[3]]
    [] OTHER               -> [d EXCEPT !.reviews = @ \cup {file[2]}]
CopyBack ==
  /\ keep.stage = "fill" /\ keep.files # {}
  /\ \E file \in keep.files :
       LET i == file[1] IN
       /\ iters' = [iters EXCEPT ![i] = With(IF Exists(i) THEN iters[i] ELSE Empty, file)]
       /\ keep' = [keep EXCEPT !.files = @ \ {file}, !.at = iters', !.calm = @ /\ keep.at = iters]
  /\ Alone /\ UNCHANGED <<store, kept>>

Restored ==
  /\ keep.stage = "fill" /\ keep.files = {}
  /\ keep' = Resting
  /\ UNCHANGED <<repo, markers, shells, mode, store, kept>>

\* The command dies, or git or the file system refuses a step.
Stops ==
  /\ setup.crashes /\ keep.stage # "none" /\ keep' = Resting
  /\ UNCHANGED <<repo, markers, shells, mode, store, kept>>

Keeper ==
  \/ Save
  \/ \E tag \in DOMAIN snapshots, scope \in {Iterations} \cup {{i} : i \in Iterations},
        force \in BOOLEAN, abort \in BOOLEAN : Restore(tag, scope, force, abort)
  \/ CopyTree \/ Tag \/ Advance \/ Extract \/ Clean \/ CopyBack \/ Restored \/ Stops

SnapshotInit == Init /\ snapshots = <<>> /\ branch = None /\ keep = Resting /\ kept = 0
\* No shell command begins while one of the operator's is on.
SnapshotNext ==
  \/ Keeper
  \/ Next /\ (keep.stage # "none" => shells' = shells) /\ UNCHANGED svars
SnapshotSpec == SnapshotInit /\ [][SnapshotNext]_<<vars, svars>>
-----------------------------------------------------------------------------
\* A restore loses nothing by itself, wherever it dies: once it has cleaned its
\* scope, all that it found is in a tagged snapshot, unless it was forced. And
\* it leaves no mixture: at its end its scope holds what the snapshot has, and
\* nothing else has changed. Both as long as nobody else writes meanwhile.
RestoreIsFaithful ==
  keep.stage = "fill" /\ keep.calm /\ keep.at = iters =>
    /\ ~keep.force => keep.seen \subseteq FilesIn(DOMAIN snapshots)
    /\ keep.files = {} =>
         Stored = In(keep.scope, snapshots[keep.tag].files)
                    \cup In(Iterations \ keep.scope, keep.seen)
=============================================================================
