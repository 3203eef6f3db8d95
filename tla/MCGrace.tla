------------------------------ MODULE MCGrace ------------------------------
(***************************************************************************)
(* Small instances of Grace: two services, a parent and its children.      *)
(***************************************************************************)
EXTENDS Grace

CONSTANTS s1, s2
=============================================================================
