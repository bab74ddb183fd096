---------------------------- MODULE MCBatchDelivery ----------------------------
(***************************************************************************)
(* Instances of BatchDelivery for TLC.                                     *)
(***************************************************************************)
EXTENDS BatchDelivery
===============================================================================
