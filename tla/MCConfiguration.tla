-------------------------- MODULE MCConfiguration --------------------------
(***************************************************************************)
(* Small instances of Configuration for TLC.                               *)
(***************************************************************************)
EXTENDS Configuration

CONSTANTS p1, p2, s1, s2
=============================================================================
