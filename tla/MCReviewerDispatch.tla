------------------------ MODULE MCReviewerDispatch -------------------------
(***************************************************************************)
(* ReviewerDispatch for TLC: the calls of each run and the patches a       *)
(* finding may carry.                                                      *)
(***************************************************************************)
EXTENDS Resume

Open    == [goal |-> TRUE, outcome |-> "running", cert |-> "none", packet |-> TRUE]
Blocked == [Open EXCEPT !.outcome = "blocked"]
Passed  == [Open EXCEPT !.cert = "quorum_close_passed"]

Call(reviewer, mode, policy, timeout, silence, long, again, edits, watches) ==
  [reviewer |-> reviewer, mode |-> mode, policy |-> policy,
   timeout |-> timeout, silence |-> silence, long |-> long, lines |-> 1,
   calls |-> again, edits |-> edits, scans |-> watches, snapshots |-> 0, iteration |-> Open]
Longer(c)     == [c EXCEPT !.lines = 2]
Resumed(c, i) == [c EXCEPT !.snapshots = 1, !.iteration = i]

\* Each reviewer in each mode, called again and watched; prompts that do not
\* fit the pipe; no timeout; answers of more than one line; somebody at work in
\* the repository; a snapshot of an iteration that is open, blocked or closed.
MCCalls ==
  {Call(r, "review", "permissive", 1, 1, FALSE, 1, 0, 0) : r \in {"codex", "kimi"}}
  \cup {Call(r, "review", "permissive", 1, 0, FALSE, 1, 0, 0) : r \in {"grok", "gemini"}}
  \cup {Call(r, "proposal", "permissive", 1, 1, FALSE, 1, 0, 0) : r \in {"grok", "gemini"}}
  \cup {Call("codex", "review", "strict", 1, 0, FALSE, 2, 0, 0),
        Call("codex", "proposal", "permissive", 1, 0, FALSE, 2, 0, 2),
        Call("kimi", "proposal", "permissive", 1, 0, FALSE, 1, 2, 0),
        Call("kimi", "proposal", "permissive", 1, 0, FALSE, 2, 0, 0),
        Call("gemini", "proposal", "permissive", 0, 1, TRUE, 1, 0, 0),
        Call("kimi", "proposal", "permissive", 1, 1, TRUE, 1, 0, 0),
        Call("codex", "review", "permissive", 1, 1, TRUE, 1, 1, 0)}
  \cup {Longer(Call(r, "proposal", "permissive", 1, 0, FALSE, 1, 0, 0)) :
          r \in {"gemini", "grok"}}
  \cup {Resumed(Call("codex", "review", "permissive", 1, 0, FALSE, 1, 0, 0), Open),
        Resumed(Call("codex", "proposal", "permissive", 1, 0, FALSE, 1, 0, 0), Blocked),
        Resumed(Call("gemini", "proposal", "permissive", 1, 0, FALSE, 1, 0, 0), Passed)}

\* One proposal of Gemini, of two lines.
MCOne == {Longer(Call("gemini", "proposal", "permissive", 1, 0, FALSE, 1, 0, 0))}

Patch(id, files, body, format) ==
  [id |-> id, applies |-> {id}, files |-> files, body |-> body, format |-> format]
\* One that is sound, and one for each rule it can break.
MCPatches ==
  {Patch("f1", {"a"}, {"a"}, "unified"), Patch("f1", {"a"}, {"a", "b"}, "unified"),
   Patch("f1", {"a", "b"}, {"b"}, "unified"), Patch("f2", {"a"}, {"a"}, "unified"),
   Patch("f1", {"a"}, {}, "apply_patch")}
MCIds == {"f1"}
MCAllowed == {"a"}
=============================================================================
