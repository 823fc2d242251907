-------------------------- MODULE MCArchitectLoop --------------------------
(***************************************************************************)
(* ArchitectLoop for TLC; the instances are in the cfg files.              *)
(***************************************************************************)
EXTENDS ArchitectLoop

\* Where an artifact was edited, the run goes on only under the first spec,
\* before any commit of a builder or of main, and within the wall clock.
MCQuietEdits ==
  corrupt # {} => spec <= 1 /\ laneHead = 0 /\ mainHead = 0 /\ ~overtime
=============================================================================
