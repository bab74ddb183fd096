----------------------------- MODULE MCFilterQueue ----------------------------
(***************************************************************************)
(* An instance of FilterQueue for TLC.                                     *)
(***************************************************************************)
EXTENDS FilterQueue
===============================================================================
