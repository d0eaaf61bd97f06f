---------------------------- MODULE MCResolution ----------------------------
(* Two layers before the host, so that one can destroy what the other wrote and the *)
(* host build on what is left; a lock at each path of the document.                 *)
EXTENDS Resolution

MCLayers == <<"defaults", "profile">>
MCLocks == Paths
=============================================================================
