----------------------------- MODULE MCEventIntake ----------------------------
(***************************************************************************)
(* Instances of EventIntake for TLC.  Requests are interchangeable, and so *)
(* are filters.                                                            *)
(***************************************************************************)
EXTENDS EventIntake, TLC

Symmetry == Permutations(Requests) \cup Permutations(Filters)
===============================================================================
