------------------------------ MODULE MCCatalog ------------------------------
(* Two module ids, which may become two versions of one name or a module and the one *)
(* it depends on, and two profiles, so that a host can be assigned another one.      *)
EXTENDS Catalog, TLC

CONSTANTS m1, m2, p1, p2

MCNames == {"network", "storage"}
MCNeeds == [n \in MCNames |-> IF n = "storage" THEN {"network"} ELSE {}]
MCPlans == {<<m1>>, <<m1, m2>>}

Interchangeable == Permutations(Administrators \ Authors) \cup Permutations(ProfileIds)
=============================================================================
