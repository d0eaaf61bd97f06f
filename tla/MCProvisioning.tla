--------------------------- MODULE MCProvisioning ---------------------------
(* Instances of Provisioning for TLC: one host, one run, one machine. *)
EXTENDS Provisioning, TLC

CONSTANTS h1, r1, k1

NoDependsOn == [s \in Steps |-> {}]

\* States that differ by a shift of the clock or of the versions behave alike: of the
\* deadlines only what is left of them counts, of the versions only which is newer.
\* What nothing looks at any more is left out: the enrollment deadline of an enrolled
\* machine, the step of a process outside the loop, the host's copy of the status.
Left(t) == IF t > now THEN t - now ELSE 0
ShiftedRun ==
    [run[R] EXCEPT !.version = 0, !.answerUntil = Left(@), !.leaseUntil = Left(@),
                   !.enrollUntil = IF disk.enrolled THEN 0 ELSE Left(@),
                   !.expiresAt = IF run[R].status # "prepared" THEN 0
                                 ELSE IF @ = now THEN 1 ELSE 2 * Left(@),
                   !.completedAt = IF now - @ < RetryTime THEN now - @ ELSE RetryTime]
ShiftedDisk ==
    [disk EXCEPT !.runVersion = IF run[R].version > @ THEN 1 ELSE 0,
                 !.haltedVersion = IF run[R].version > @ THEN 1 ELSE 0,
                 !.rebootBoot = IF @ = boot THEN 1 ELSE 0]
InLoop == pc \in {"loop", "step.auth", "step.flush", "step.secrets", "step.start",
                  "step.started", "check", "apply.auth", "apply.start", "apply",
                  "step.done", "step.next", "reboot.event"}
Shifted == <<\E h \in Hosts : host[h].blocked, ShiftedRun, ShiftedDisk, pc,
             IF InLoop THEN cur ELSE 0, boot, recorded, applies>>
ShiftedResumed == <<Shifted, resumed>>
=============================================================================
