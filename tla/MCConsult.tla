----------------------------- MODULE MCConsult ------------------------------
(***************************************************************************)
(* Consult for TLC: the repositories of each run.                          *)
(***************************************************************************)
EXTENDS Snapshots

\* A consult that waits for its approval.
Asked  == [packet |-> TRUE, forbidden |-> {}, reviews |-> {"codex", "gemini"},
           plan |-> [version |-> 1, parses |-> TRUE], outcome |-> "none"]
Repo   == [scope |-> [i \in Iterations |-> IF i = "i1" THEN {"f"} ELSE {"g"}],
           found |-> [i \in Iterations |-> IF i = "i1" THEN Asked ELSE None],
           continuous |-> TRUE, shells |-> {"a"}, calls |-> 3, edits |-> 1, switches |-> 0,
           plans |-> 1, panel |-> {}, forbids |-> FALSE, refs |-> {},
           starts |-> Iterations, tools |-> {"edit"},
           mints |-> FALSE, crashes |-> FALSE, git |-> TRUE, restores |-> 0,
           fails |-> {"write"}]

\* A consult from its start, about every file.
Fresh  == [Repo EXCEPT !.found = [i \in Iterations |-> None], !.scope["i1"] = Files,
                       !.panel = Families, !.forbids = TRUE, !.starts = {"i1"},
                       !.calls = 4, !.tools = Tools]
\* A second consult after, or next to, the first.
Second == [Repo EXCEPT !.found["i2"] = Asked, !.calls = 4, !.switches = 1,
                       !.tools = Tools]
\* A command dies, a marker is minted by hand, the plan is written again.
Killed == [Repo EXCEPT !.crashes = TRUE, !.mints = TRUE, !.plans = 2]
\* Two shells, and everything that can fail.
Two    == [Repo EXCEPT !.shells = {"a", "b"}, !.starts = {"i2"}, !.fails = {"write", "unlink"}]
\* Edits, removals, tokens and closing; with git and without, the hook failing.
Closed == {[Repo EXCEPT !.edits = 2, !.refs = {"i1"}, !.starts = {}, !.calls = 2, !.git = git,
                        !.tools = Tools, !.fails = IF git THEN {"write"} ELSE {"hook"}] : git \in BOOLEAN}
\* The first is approved, or its approval fails, and another is started.
After  == [Repo EXCEPT !.starts = {"i2"}]

\* The operator saves and restores what others fill in.
Begun  == [packet |-> TRUE, forbidden |-> {}, reviews |-> {}, plan |-> None, outcome |-> "none"]
Saved  == [Repo EXCEPT !.found = [i \in Iterations |-> Begun], !.found["i1"].reviews = {"codex"},
                       !.shells = {}, !.restores = 2, !.plans = 0, !.tools = {}, !.crashes = TRUE]

\* Nothing fails but the approval itself.
MCCalm  == {[Fresh EXCEPT !.fails = {}]}
MCRepos == {Fresh, Second, Killed, Two, After, Saved} \cup Closed
=============================================================================
