----------------------------- MODULE MCGoalLoop -----------------------------
(***************************************************************************)
(* Instances of GoalLoop: patches of one and of two files, one out of      *)
(* scope under an id that another has.                                     *)
(***************************************************************************)
EXTENDS GoalLoop

MCDocs == {"packet", "consensus", "ledger", "outcome"}
Once(ds) == [d \in MCDocs |-> IF d \in ds THEN 1 ELSE 0]
PA  == [id |-> "P", number |-> 1, files |-> {"a"}]
PAB == [id |-> "Q", number |-> 2, files |-> {"a", "b"}]
PC  == [id |-> "P", number |-> 3, files |-> {"c"}]
MCPatches == {PA, PAB, PC}

Plain == [eligible |-> TRUE, named |-> TRUE, sealed |-> FALSE]
Sealed == [Plain EXCEPT !.sealed = TRUE]
EachForm == {Plain, Sealed, [Plain EXCEPT !.eligible = FALSE], [Plain EXCEPT !.named = FALSE]}

Quiet == [authorized |-> TRUE, allowed |-> {"a", "b", "c"}, forbidden |-> {"c"}, sections |-> {},
          max |-> 2, size |-> 0, gates |-> "defined", checks |-> None, repeats |-> FALSE,
          patches |-> {}, writes |-> {}, ledger |-> FALSE, authored |-> Once({"packet"}),
          forms |-> {Plain}, crashes |-> FALSE, time |-> 0, calls |-> 0, edits |-> 0, reviews |-> 0]
\* A patch and people who edit, commit and review meanwhile; the server dies.
Patching == [Quiet EXCEPT !.patches = {PA, PAB}, !.crashes = TRUE, !.calls = 2, !.edits = 2,
                          !.reviews = 1]
Replaced == [Quiet EXCEPT !.patches = {PA, PC}, !.calls = 2, !.reviews = 2]
\* A patch is reviewed and the iteration closed.
Closing  == [Quiet EXCEPT !.patches = {PA}, !.ledger = TRUE, !.time = 2, !.calls = 3, !.reviews = 3,
                          !.forms = {Plain, Sealed}]
Edited   == [Closing EXCEPT !.ledger = FALSE, !.time = 1, !.edits = 1, !.reviews = 2,
                            !.forms = EachForm]
\* Documents, sections and the ledger change under a closing.
Writing  == [Quiet EXCEPT !.writes = {{"packet", "consensus"}}, !.sections = {"b"}, !.ledger = TRUE,
                          !.authored = Once({"consensus"}), !.calls = 2, !.crashes = TRUE,
                          !.edits = 1]
\* run_goal with its stop rules.
Looping  == [Quiet EXCEPT !.patches = {PA, PAB}, !.reviews = 2, !.calls = 2,
                          !.authored = [Once({"consensus", "outcome"}) EXCEPT !["packet"] = 2]]
Ruled    == [Looping EXCEPT !.calls = 0]
MCSetups ==
  {Patching, Replaced, Closing, Edited, Writing, Looping} \cup
  {[Ruled EXCEPT !.checks = "pass"], [Ruled EXCEPT !.checks = "fail"],
   [Ruled EXCEPT !.repeats = TRUE], [Ruled EXCEPT !.gates = "undefined"], [Ruled EXCEPT !.max = 0],
   [Ruled EXCEPT !.size = 1, !.edits = 2]}
=============================================================================
