------------------------- MODULE MCGrantRefinement -------------------------
(* Two runs of one host, so that one may follow while the other's lease is in force, *)
(* and two devices that may enroll.                                                  *)
EXTENDS GrantRefinement, MCRunLifecycle
=============================================================================
