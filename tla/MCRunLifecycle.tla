--------------------------- MODULE MCRunLifecycle ---------------------------
(* Instances of RunLifecycle for TLC. *)
EXTENDS RunLifecycle, TLC

CONSTANTS h1, r1, r2, k1, k2, b1, b2

\* The second of two steps needs the first, and only the second is required.
ChainDependsOn == (1 :> {} @@ 2 :> {1})

\* No step depends on another.
NoDependsOn == [s \in Steps |-> {}]

KeySymmetry == Permutations(Keys)

\* Handlers compare deadlines with the clock and versions with themselves, so states
\* that differ by a shift of the clock, by how long ago a deadline passed or by the
\* versions have the same behaviours, up to the bounds MaxTime and MaxVersion.
Left(t) == IF t > now THEN t - now ELSE 0
ShiftedRun(row) ==
    [row EXCEPT !.version = 0, !.completedAt = 0,
                !.expiresAt = IF row.status = "prepared" /\ row.expiresAt = now THEN 0
                              ELSE IF row.status = "prepared" THEN 1 + Left(@) ELSE 0,
                !.answerUntil = Left(@), !.enrollUntil = Left(@), !.leaseUntil = Left(@)]
Shifted == <<host, latest, [r \in Runs |-> ShiftedRun(run[r])], admitted,
             [r \in Runs |-> Left(held[r])]>>
=============================================================================
