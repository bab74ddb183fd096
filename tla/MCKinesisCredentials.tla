------------------------- MODULE MCKinesisCredentials -------------------------
(***************************************************************************)
(* Instances of KinesisCredentials for TLC.                                *)
(***************************************************************************)
EXTENDS KinesisCredentials
===============================================================================
