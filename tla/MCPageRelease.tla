---------------------------- MODULE MCPageRelease ----------------------------
(***************************************************************************)
(* Instances of PageRelease.                                               *)
(***************************************************************************)
EXTENDS PageRelease
=============================================================================
