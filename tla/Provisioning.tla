---------------------------- MODULE Provisioning ----------------------------
(***************************************************************************)
(* One machine under provisioning: the runner of runner.py with its durable *)
(* state, the systemd unit around it, the network, and the server of        *)
(* RunLifecycle.  The machine works for one run R with one device key K.    *)
(*                                                                          *)
(* A step of the runner ends where it saves state.json (atomic_write, so a  *)
(* crash finds the old state or the new one) or where it has called the     *)
(* server.  Between two steps the process may die or the power fail, and    *)
(* operators, installer, maintenance and the clock go on.  A call is        *)
(* answered, or refused, or lost before or after the server acted on it.    *)
(*                                                                          *)
(* Heartbeat events are left out of the queue.  They change no row, and the *)
(* server takes them wherever the run is active, as it must be for every    *)
(* new event, so that a batch is refused with them where it is without.     *)
(* Nor do they fill the queue: a step lasts 14400 s at most, with one every *)
(* 30 s (runner.py:311, 348, 446), and begins with a flush of the queue,    *)
(* whose limit is 4096.  Logs are left out too: what the server stores of   *)
(* them, no one here reads.                                                 *)
(***************************************************************************)
EXTENDS RunLifecycle, Sequences

CONSTANTS
    R, K,           \* the run the machine works for, and its device key
    RetrySafe,      \* steps whose module version says retry_safe
    MaxEvents,      \* MAX_EVENTS, the limit of the local event queue
    Operations,     \* what operators do after the approval
    Faults,         \* what may happen: the "process" dies, the "power" fails, the
                    \* "network" deadline passes, the "review" deadline passes
    Quick,          \* where the process is too quick for the clock to go on
    MaxLosses       \* bound of the model: so many calls get lost

ASSUME MachineAssumption ==
    /\ R \in Runs /\ K \in Keys
    /\ RetrySafe \subseteq Steps
    /\ MaxEvents \in Nat \ {0}
    /\ Boots \subseteq Nat /\ \A b, c \in Boots : b..c \subseteq Boots
    /\ MaxLosses \in Nat

VARIABLES
    disk,       \* state.json
    pc,         \* where the process is; "down" when there is none
    cur,        \* the manifest step the loop of run() is at
    boot,       \* the boot id of the running kernel
    recorded,   \* length of the part of the local queue the server has stored: its
                \* acknowledged sequence number relative to the oldest queued event
    losses,     \* how many calls or their answers the network has lost
    applies,    \* history: how often apply was started for a step, 2 meaning more
    resumed     \* history: an operator resumed the run since the runner halted

netVars == <<recorded, losses>>
machineVars == <<disk, pc, cur, boot, netVars, applies, resumed>>
vars == <<serverVars, machineVars>>

Checkpoints == {"none", "applying", "reboot_pending", "failed", "succeeded"}

LocalStatus == {"pending", "running", "reboot_pending", "completion_pending", "succeeded",
                "cancellation_pending", "cancelled", "needs_review"}

Init ==
    /\ ServerInit
    /\ disk = [status |-> "pending", steps |-> [s \in Steps |-> "none"], queue |-> <<>>,
               enrolled |-> FALSE, manifest |-> FALSE, rebootBoot |-> NoBoot,
               rebootCount |-> 0, runVersion |-> 0, haltedVersion |-> 0,
               netFailed |-> FALSE]
    /\ pc = "bare" /\ cur = 1 /\ boot \in Boots /\ \A b \in Boots : boot <= b
    /\ recorded = 0 /\ losses = 0
    /\ applies = [s \in Steps |-> 0]
    /\ resumed = FALSE

-----------------------------------------------------------------------------
(* How a step of the runner can end *)

Goto(next) == pc' = next /\ UNCHANGED resumed

\* halt(): the first of its two saves.  The event follows at "halt.event".
Halt(d) ==
    /\ disk' = [d EXCEPT !.status = "needs_review", !.haltedVersion = d.runVersion]
    /\ pc' = "halt.event" /\ resumed' = FALSE

\* network_failure() and exit with 75: the unit restarts the process.  The deadline is
\* counted from the first failure, so the first one never exceeds it.
NetworkFailure(d, next) ==
    \/ disk' = [d EXCEPT !.netFailed = TRUE] /\ Goto(next)
    \/ "network" \in Faults /\ d.netFailed /\ Halt(d)

\* The fields of an event that the server looks at.
StepOf(type) == IF type \in StepEvents THEN cur ELSE 0

\* Mutant: the boot id is the one saved before the reboot.
BootOf_Saved(type) ==
    IF type \in {"run.reboot_pending", "run.resumed"} THEN disk.rebootBoot ELSE NoBoot

BootOf(type) == IF type \in {"run.reboot_pending", "run.resumed"} THEN boot ELSE NoBoot

\* Mutant: the limit is off by one.
QueueFull_Limit(d) == Len(d.queue) > MaxEvents

QueueFull(d) == Len(d.queue) >= MaxEvents

\* event(): queue an event and save, checkpoint and all; over the limit, save and halt.
Report(d, type, next) ==
    IF ~QueueFull(d)
    THEN /\ disk' = [d EXCEPT !.queue = Append(@, Event(type, StepOf(type), BootOf(type)))]
         /\ Goto(next)
    ELSE /\ disk' = [d EXCEPT !.status = "needs_review"]
         /\ pc' = "halt" /\ resumed' = FALSE

-----------------------------------------------------------------------------
(* Calls *)

Lossy == losses < MaxLosses /\ losses' = losses + 1
NoLoss == UNCHANGED losses

\* What the run row becomes with the first n events of a batch, and whether none of them
\* is refused.
AppliedTo(events) ==
    LET acc[n \in 0..Len(events)] ==
          IF n = 0 THEN [ok |-> TRUE, row |-> run[R]]
          ELSE LET before == acc[n - 1] IN
               IF before.ok /\ EventOk(before.row, Blocked(R), events[n])
               THEN [ok |-> TRUE, row |-> AfterEvent(before.row, events[n])]
               ELSE [ok |-> FALSE, row |-> run[R]]
    IN  acc

Applied(events) == AppliedTo(events)[Len(events)]

NewEvents == SubSeq(disk.queue, recorded + 1, Len(disk.queue))

\* The queue as the server takes it: what it stored before is skipped, the rest is
\* applied in one transaction or not at all.
BatchOk ==
    /\ DeviceOk(R, K) \/ RetryOk(R, K, "cancelled")
    /\ Applied(NewEvents).ok

StoreBatch ==
    LET row == Applied(NewEvents).row IN
    /\ BatchOk
    /\ SetRun(R, row)
    /\ IF NewEvents = <<>> THEN UNCHANGED host ELSE SetHost(R, row.status)
    /\ held' = [held EXCEPT ![R] = IF row.status = "cancelled" THEN 0 ELSE @]
    /\ UNCHANGED <<now, latest, admitted>>

\* flush(): next, or what the caller makes of a lost or a refused call.  The queue goes in
\* one call.  The code sends 100 events at a time (runner.py:276), and cuts only a queue that
\* is longer: one with that many undelivered heartbeats in front.  Delivery has the batches.
Flush(next, Lost, Refused) ==
    \/ /\ disk.queue = <<>>
       /\ Goto(next)
       /\ UNCHANGED <<serverVars, disk, netVars>>
    \/ /\ disk.queue # <<>> /\ StoreBatch
       /\ \/ /\ disk' = [disk EXCEPT !.queue = <<>>] /\ recorded' = 0
             /\ Goto(next) /\ NoLoss
          \/ Lossy /\ recorded' = Len(disk.queue) /\ Lost
    \/ /\ disk.queue # <<>> /\ Lossy /\ Lost
       /\ UNCHANGED <<serverVars, recorded>>
    \/ /\ disk.queue # <<>> /\ ~BatchOk /\ Refused
       /\ UNCHANGED <<serverVars, netVars>>

\* What run() makes of them where nothing catches them before.
Lost == NetworkFailure(disk, "down")
Refused == Halt(disk)

Flushing(at, next) ==
    /\ pc = at
    /\ Flush(next, Lost, Refused)
    /\ UNCHANGED <<cur, boot, applies>>

\* The state saved with the answer to a lease request.
Leased == [disk EXCEPT !.runVersion = run[R].version, !.netFailed = FALSE]

\* renew_lease(): Answered is what the caller does with the answer.
RenewLease(Answered) ==
    \/ DeviceOk(R, K) /\ LeaseHandler(R) /\ Answered /\ NoLoss
    \/ DeviceOk(R, K) /\ LeaseHandler(R) /\ Lossy /\ Lost
    \/ Lossy /\ Lost /\ UNCHANGED serverVars
    \/ ~DeviceOk(R, K) /\ Refused /\ UNCHANGED serverVars /\ NoLoss

\* Mutant: the cancellation is saved as confirmed before it was delivered.
Cancel_NoFlush(d) ==
    Report([d EXCEPT !.status = "cancellation_pending"], "run.cancelled", "cancel.save")

\* cancel(), up to its flush.
Cancel(d) == Report([d EXCEPT !.status = "cancellation_pending"], "run.cancelled", "cancel.flush")

ConfirmCancel ==
    /\ pc = "cancel"
    /\ Cancel(disk)
    /\ UNCHANGED <<serverVars, cur, boot, netVars, applies>>

\* authorize(): run, stop for good, halt, or wait for the next start of the unit.  The
\* answer is saved before it is acted on.
AfterLease(next) ==
    CASE LeaseAction(R) = "run" -> next
      [] LeaseAction(R) = "stop" -> "cancel"
      [] LeaseAction(R) = "revoked" -> "halt"
      [] OTHER -> "down"

Authorize(at, next) ==
    /\ pc = at
    /\ RenewLease(disk' = Leased /\ Goto(AfterLease(next)))
    /\ UNCHANGED <<cur, boot, recorded, applies>>

\* A GET or POST whose handler is Handler, accepted under the condition Ok.
Call(Ok, Handler, Answered) ==
    \/ Ok /\ Handler /\ Answered /\ NoLoss
    \/ Ok /\ Handler /\ Lossy /\ Lost
    \/ Lossy /\ Lost /\ UNCHANGED serverVars
    \/ ~Ok /\ Refused /\ UNCHANGED serverVars /\ NoLoss

-----------------------------------------------------------------------------
(* The start of the process: run() down to the loop over the steps *)

\* First boot of the installed system: the bootstrap script, once downloaded, writes
\* the configuration and enables the unit.
Bootstrap ==
    /\ pc = "bare"
    /\ run[R].hashes /\ run[R].status \in {"answer_served", "installed_reported"}
    /\ now < run[R].answerUntil
    /\ ~Blocked(R) /\ ~run[R].cancel
    /\ pc' = "down"
    /\ UNCHANGED <<serverVars, disk, cur, boot, netVars, applies, resumed>>

AfterReview == IF disk.enrolled THEN "begin.auth" ELSE "enroll"

\* Where run() goes with the status it finds on disk.  A review that exceeded its
\* deadline is given up for good: the process ends with 0 whenever it is started.
StartAt ==
    CASE disk.status \in {"succeeded", "cancelled"} -> "off"
      [] disk.status = "cancellation_pending" -> "cancel.flush"
      [] disk.status = "needs_review" -> "review.flush"
      [] disk.status = "completion_pending" -> "finish.flush"
      [] disk.status = "reboot_pending" /\ disk.enrolled ->
            IF disk.rebootBoot = boot THEN "reboot.auth" ELSE "reboot.return"
      [] OTHER -> AfterReview

Start ==
    /\ pc = "down"
    /\ \/ Goto(StartAt)
       \/ "review" \in Faults /\ disk.status = "needs_review" /\ Goto("gave.up")
    /\ cur' = 1
    /\ UNCHANGED <<serverVars, disk, boot, netVars, applies>>

\* Enrollment repeated with the same key is acknowledged without effect.
EnrollHandler ==
    IF run[R].key = K THEN UNCHANGED serverVars ELSE Enroll(R, K, boot)

EnrollCall ==
    /\ pc = "enroll"
    /\ Call(EnrollAccepted(R, K), EnrollHandler,
            disk' = [disk EXCEPT !.enrolled = TRUE] /\ Goto("begin.auth"))
    /\ UNCHANGED <<cur, boot, recorded, applies>>

\* After a planned reboot: two saves, the status first, then the event.
RebootReturn ==
    /\ \/ /\ pc = "reboot.return"
          /\ disk' = [disk EXCEPT !.status = "running"] /\ Goto("reboot.resume")
       \/ /\ pc = "reboot.resume"
          /\ Report(disk, "run.resumed", "reboot.flushed")
    /\ UNCHANGED <<serverVars, cur, boot, netVars, applies>>

\* The manifest is fetched once, under a lease, and cached with its digest.
Manifest ==
    /\ pc = "manifest"
    /\ IF disk.manifest
       THEN Goto("manifest.flush") /\ UNCHANGED <<serverVars, disk, losses>>
       ELSE Call(DeviceOk(R, K) /\ LeaseInForce(R), UNCHANGED serverVars,
                 disk' = [disk EXCEPT !.manifest = TRUE] /\ Goto("manifest.flush"))
    /\ UNCHANGED <<cur, boot, recorded, applies>>

-----------------------------------------------------------------------------
(* The loop over the steps: run_step *)

\* A step that failed for good stops the run, also when it is met again.
Unmet ==
    \/ \E d \in DependsOn[cur] : disk.steps[d] # "succeeded"
    \/ cur \in Required /\ disk.steps[cur] = "failed"

LoopStep ==
    /\ pc = "loop"
    /\ IF cur > NumSteps
       THEN disk' = [disk EXCEPT !.status = "completion_pending"] /\ Goto("finish.flush")
       ELSE IF Unmet THEN Halt(disk)
       ELSE /\ Goto(IF disk.steps[cur] \in {"succeeded", "failed"} THEN "step.done" ELSE "step.auth")
            /\ UNCHANGED disk
    /\ UNCHANGED <<serverVars, cur, boot, netVars, applies>>

\* Artifact and secrets of the step; the first needs no more than the second.
FetchSecrets ==
    /\ pc = "step.secrets"
    /\ Call(DeviceOk(R, K) /\ SecretsServed(R, cur), UNCHANGED serverVars,
            Goto("step.start") /\ UNCHANGED disk)
    /\ UNCHANGED <<cur, boot, recorded, applies>>

StepStart ==
    /\ pc = "step.start"
    /\ Report(disk, "step.started", "step.started")
    /\ UNCHANGED <<serverVars, cur, boot, netVars, applies>>

Checkpoint(status) == [disk EXCEPT !.steps[cur] = status]

\* Mutant: the checkpoint is saved and its event left for later.
Succeed_NoEvent == disk' = Checkpoint("succeeded") /\ Goto("step.done")

Succeed == Report(Checkpoint("succeeded"), "step.succeeded", "step.done")

Fail ==
    Report(Checkpoint("failed"), "step.failed",
           IF cur \in Required THEN "halt" ELSE "step.done")

\* Mutant: only a planned reboot interrupts a step.
Recovering_Reboot == disk.steps[cur] = "reboot_pending"

Recovering == disk.steps[cur] \in {"applying", "reboot_pending"}

\* Phases check and verify, before anything is changed.  Exit codes: 0 is converged or
\* verified, 1 of check is to be applied, anything else is an error.
CheckPhase ==
    /\ pc = "check"
    /\ \E check \in {0, 1, 2}, verify \in {0, 1} :
          \/ check = 0 /\ verify = 0 /\ Succeed
          \/ Recovering /\ (check # 0 \/ verify # 0) /\ cur \notin RetrySafe /\ Halt(disk)
          \/ /\ ~Recovering \/ cur \in RetrySafe
             /\ \/ check = 2 /\ Fail
                \/ ~Recovering /\ check = 0 /\ verify = 1 /\ Fail
                \/ /\ check = 1 \/ (Recovering /\ check = 0 /\ verify = 1)
                   /\ Goto("apply.auth") /\ UNCHANGED disk
    /\ UNCHANGED <<serverVars, cur, boot, netVars, applies>>

\* The durable checkpoint before any mutation, and the start of the mutation.
ApplyStart ==
    /\ pc = "apply.start"
    /\ disk' = [Checkpoint("applying") EXCEPT !.status = "running"]
    /\ applies' = [applies EXCEPT ![cur] = IF @ = 0 THEN 1 ELSE 2]
    /\ Goto("apply")
    /\ UNCHANGED <<serverVars, cur, boot, netVars>>

\* Mutant: off by one.
RebootsLeft_One == disk.rebootCount <= RebootBudget

RebootsLeft == disk.rebootCount < RebootBudget

ApplyEnd ==
    /\ pc = "apply"
    /\ \/ \* exit code 194: the module asks for a reboot
          IF ~RebootsLeft THEN Halt(disk)
          ELSE /\ disk' = [Checkpoint("reboot_pending") EXCEPT
                              !.status = "reboot_pending", !.rebootBoot = boot,
                              !.rebootCount = @ + 1]
               /\ Goto("reboot.event")
       \/ Fail          \* any other exit code, or verify failed
       \/ Succeed       \* apply and verify ended with 0
    /\ UNCHANGED <<serverVars, cur, boot, netVars, applies>>

\* Lease renewal while a phase runs.  No answer interrupts the phase, nor does a refusal.
Heartbeat ==
    /\ pc \in {"check", "apply"}
    /\ \/ DeviceOk(R, K) /\ LeaseHandler(R) /\ disk' = Leased /\ NoLoss
       \/ /\ Lossy /\ disk' = [disk EXCEPT !.netFailed = TRUE]
          /\ UNCHANGED serverVars \/ (DeviceOk(R, K) /\ LeaseHandler(R))
    /\ UNCHANGED <<pc, cur, boot, recorded, applies, resumed>>

NextStep ==
    /\ pc = "step.next"
    /\ cur' = cur + 1 /\ Goto("loop")
    /\ UNCHANGED <<serverVars, disk, boot, netVars, applies>>

-----------------------------------------------------------------------------
(* Planned reboot, halt and review, cancellation, completion *)

RebootEvent ==
    /\ pc = "reboot.event"
    /\ Report(disk, "run.reboot_pending", "reboot.flush")
    /\ UNCHANGED <<serverVars, cur, boot, netVars, applies>>

\* Delivered or buffered: a lost or refused call is ignored here.
RebootFlush ==
    /\ pc = "reboot.flush"
    /\ LET Ignored == Goto("reboot.auth") /\ UNCHANGED disk
       IN  Flush("reboot.auth", Ignored, Ignored)
    /\ UNCHANGED <<cur, boot, applies>>

\* systemctl reboot
Reboot ==
    /\ pc = "rebooting"
    /\ boot + 1 \in Boots
    /\ boot' = boot + 1 /\ pc' = "down" /\ cur' = 1
    /\ UNCHANGED <<serverVars, disk, netVars, applies, resumed>>

\* Halt for a failure that was saved before; then the second save of halt().
HaltStep ==
    /\ \/ pc = "halt" /\ Halt(disk)
       \/ /\ pc = "halt.event"
          /\ IF ~QueueFull(disk)
             THEN Report(disk, "run.needs_review", "halt.flush")
             ELSE Goto("halt.flush") /\ UNCHANGED disk
    /\ UNCHANGED <<serverVars, cur, boot, netVars, applies>>

HaltFlush ==
    /\ pc = "halt.flush"
    /\ LET Ignored == Goto("down") /\ UNCHANGED disk
       IN  Flush("down", Ignored, Ignored)
    /\ UNCHANGED <<cur, boot, applies>>

\* Mutant: every step is opened again.
Reopened_All(d) ==
    [d EXCEPT !.status = "running",
              !.steps = [s \in Steps |-> IF @[s] # "none" THEN "applying" ELSE @[s]]]

\* Failed steps become interrupted ones.
Reopened(d) ==
    [d EXCEPT !.status = "running",
              !.steps = [s \in Steps |-> IF @[s] = "failed" THEN "applying" ELSE @[s]]]

\* Mutant: the version is all that counts.
ResumeSeen_Version == LeaseAction(R) # "stop" /\ run[R].version > disk.haltedVersion

\* The lease answer tells that the run is not as it was when the runner halted.
ResumeSeen == LeaseAction(R) = "run" /\ run[R].version > disk.haltedVersion

AfterAnswer ==
    CASE LeaseAction(R) = "stop" -> "cancel"
      [] ResumeSeen -> "review.resume"
      [] OTHER -> "down"

ReviewLease ==
    /\ pc = "review.lease"
    /\ RenewLease(disk' = Leased /\ Goto(AfterAnswer))
    /\ UNCHANGED <<cur, boot, recorded, applies>>

ReviewResume ==
    /\ pc = "review.resume"
    /\ Report(Reopened(disk), "run.resumed", AfterReview)
    /\ UNCHANGED <<serverVars, cur, boot, netVars, applies>>

Cancelled ==
    /\ pc = "cancel.save"
    /\ disk' = [disk EXCEPT !.status = "cancelled"] /\ Goto("off")
    /\ UNCHANGED <<serverVars, cur, boot, netVars, applies>>

\* Repeated completions are acknowledged for a while after the first.
FinishCall ==
    /\ pc = "finish.complete"
    /\ Call(\/ DeviceOk(R, K) /\ Completable(run[R])
            \/ RetryOk(R, K, "succeeded"),
            IF Active(run[R]) THEN CompleteHandler(R) ELSE UNCHANGED serverVars,
            disk' = [disk EXCEPT !.status = "succeeded"] /\ Goto("off"))
    /\ UNCHANGED <<cur, boot, recorded, applies>>

Flushes ==
    \/ Flushing("reboot.flushed", "begin.auth")
    \/ Flushing("manifest.flush", "loop")
    \/ Flushing("step.flush", "step.secrets")
    \/ Flushing("step.started", "check")
    \/ Flushing("review.flush", "review.lease")
    \/ Flushing("cancel.flush", "cancel.save")
    \/ Flushing("finish.flush", "finish.complete")
    \/ /\ pc = "step.done"
       /\ Flush("step.next", NetworkFailure(disk, "step.next"), Refused)
       /\ UNCHANGED <<cur, boot, applies>>

Leases ==
    \/ Authorize("begin.auth", "manifest")
    \/ Authorize("step.auth", "step.flush")
    \/ Authorize("apply.auth", "apply.start")
    \/ Authorize("reboot.auth", "rebooting")

Runner ==
    \/ Bootstrap \/ Start \/ EnrollCall \/ RebootReturn \/ Manifest \/ LoopStep \/ FetchSecrets
    \/ StepStart \/ CheckPhase \/ ApplyStart \/ ApplyEnd \/ NextStep
    \/ RebootEvent \/ RebootFlush \/ Reboot \/ HaltStep \/ HaltFlush \/ ReviewLease
    \/ ReviewResume \/ ConfirmCancel \/ Cancelled \/ FinishCall \/ Flushes \/ Leases

-----------------------------------------------------------------------------
(* Everything else *)

\* The process is killed, or ends at a fault nothing catches.  The state saved last is
\* whole: atomic_write replaces the file only once the new one is on disk.
Crash ==
    /\ "process" \in Faults
    /\ pc \notin {"bare", "down", "off", "gave.up"}
    /\ pc' = "down" /\ cur' = 1
    /\ UNCHANGED <<serverVars, disk, boot, netVars, applies, resumed>>

\* The power fails: the enabled unit is started under another kernel.  Bound: boots are
\* left for the planned reboots.
PowerFail ==
    /\ "power" \in Faults
    /\ pc \notin {"bare", "off", "gave.up"}
    /\ boot + RebootBudget - disk.rebootCount + 1 \in Boots
    /\ boot' = boot + 1 /\ pc' = "down" /\ cur' = 1
    /\ UNCHANGED <<serverVars, disk, netVars, applies, resumed>>

\* Bound: one cancellation; another would only count up the version, which no one
\* compares in a run asked to stop.
ServerSide ==
    \/ /\ \/ \E h \in Hosts : Approve(h, R)
          \/ ServeAnswer(R) \/ InstallerReport(R)
          \/ Maintain
          \/ "block" \in Operations /\ \E h \in Hosts : UpdateHost(h)
          \/ "cancel" \in Operations /\ ~run[R].cancel /\ CancelRun(R)
          \/ "reconcile" \in Operations /\ ReconcileRun(R)
       /\ UNCHANGED machineVars
    \/ /\ "resume" \in Operations /\ ResumeRun(R)
       /\ resumed' = TRUE
       /\ UNCHANGED <<disk, pc, cur, boot, netVars, applies>>

\* A lease lasts 900 seconds: none runs out in the moment between its answer and the
\* start of apply (runner.py:472-476), and where Quick says so none does in the few calls
\* from the answer to the flush of step.started (runner.py:429-451).
Time == pc \notin Quick \cup {"apply.start"} /\ Tick /\ UNCHANGED machineVars

Next == Runner \/ Heartbeat \/ Crash \/ PowerFail \/ ServerSide \/ Time

Spec == Init /\ [][Next]_vars

-----------------------------------------------------------------------------
(* Properties *)

\* Type correctness of state.json, the process and the history variables.
TypeOK ==
    /\ ServerTypeOK
    /\ disk.status \in LocalStatus
    /\ disk.steps \in [Steps -> Checkpoints]
    /\ Len(disk.queue) <= MaxEvents
    /\ recorded \in 0..Len(disk.queue)
    /\ cur \in 1..(NumSteps + 1) /\ boot \in Boots
    /\ applies \in [Steps -> 0..2]

\* Beliebige Shell Aktionen haben keine Exactly once Garantie: what the runner does
\* promise is that a step not declared retry_safe is applied at most once in its life,
\* over crashes, power failures, reboots, reviews and resumes (runner.py:451-460).
NoRepeatedApply == \A s \in Steps \ RetrySafe : applies[s] <= 1

\* No false success: what the server calls succeeded, the machine has verified and
\* checkpointed, and a succeeded run has no required step that is not.
NoFalseSuccess ==
    /\ \A s \in Steps : run[R].steps[s] = "succeeded" => disk.steps[s] = "succeeded"
    /\ run[R].status = "succeeded" => \A s \in Required : disk.steps[s] = "succeeded"

\* No result is lost: a step that ended has been recorded so, or its event is queued.
ResultsReported ==
    \A s \in Steps : disk.steps[s] \in {"succeeded", "failed"} =>
        \/ run[R].steps[s] = disk.steps[s]
        \/ \E i \in 1..Len(disk.queue) :
              /\ disk.queue[i].step = s
              /\ disk.queue[i].type = IF disk.steps[s] = "failed" THEN "step.failed" ELSE "step.succeeded"

\* The step a runner under a lease asks the secrets for is the one the server serves them
\* for, the first that is not settled (app.py:654-664); the one exception is an optional step
\* the server still knows as failed.
CurrentStepServed ==
    pc = "step.secrets" /\ LeaseInForce(R) =>
        SecretsServed(R, cur) \/ (cur \notin Required /\ run[R].steps[cur] = "failed")

\* state.json and run_steps tell the same of the manifest: every result, and the step at hand.
StepsAgree == ResultsReported /\ CurrentStepServed

\* The two counters of reboots agree as far as they can: the server never counts more
\* than the machine, and the machine never exceeds the budget.
RebootsCounted ==
    run[R].reboots <= disk.rebootCount /\ disk.rebootCount <= RebootBudget

\* A runner that ended for good ended as the server says.
EndAgreed ==
    /\ disk.status = "succeeded" => run[R].status = "succeeded"
    /\ disk.status = "cancelled" => run[R].status = "cancelled"

\* No apply is begun on a machine after the server has recorded the end of its run, whose
\* approval of a next run may follow.  One that is under way goes on: no heartbeat
\* interrupts it, and it may last longer than its lease (runner.py:348, 403-404), which is
\* why the operator looks at the machine before he reconciles (docs/operations.md:175-187).
NoApplyBegunAfterEnd ==
    [][~Active(run[R]) => applies' = applies]_vars

\* Only an explicit server-side resume permits recovery (runner.py:545): the runner does
\* not go back to work from needs_review unless an operator resumed the run after it halted.
OnlyOperatorResumes ==
    [][disk.status = "needs_review" /\ disk'.status = "running" => resumed]_vars

\* A planned reboot continues the same run after the boot (Feinkonzept section 6): the
\* server takes the report of the return, whatever calls and answers were lost and
\* whatever operators did on the way, as long as no process dies (see RebootCrash.cfg).
ReturnAccepted == pc = "reboot.flushed" /\ Active(run[R]) => BatchOk

\* A completion whose acknowledgement got lost is acknowledged when the runner comes back with
\* it in time: no machine halts for review over a run that the server calls succeeded
\* (app.py:600-604, runner.py:562-565), as long as no outage exceeds its deadline.
FinishedIsHeard ==
    run[R].status = "succeeded" /\ now - run[R].completedAt < RetryTime
        => disk.status # "needs_review"

\* Failed steps become interrupted steps and still pass check and verify
\* (runner.py:545-546): a step the runner is allowed to start gets its secrets.
AllowedStepGetsSecrets ==
    pc = "step.secrets" /\ LeaseInForce(R) => SecretsServed(R, cur)

\* Verlust der Enrollment Antwort: Wiederholung mit demselben Schluessel funktioniert
\* (Feinkonzept A08): while nothing ended, stopped or blocked the run, the enrollment that
\* a machine repeats, because it never saw the answer to the one recorded, is accepted.
EnrollRepeatable ==
    pc = "enroll" /\ run[R].key = K /\ Active(run[R]) /\ ~run[R].cancel /\ ~Blocked(R)
        => EnrollAccepted(R, K)

\* The unit restarts the process and the process goes on; maintenance runs, time passes.
Fairness == WF_vars(Runner) /\ WF_vars(Time) /\ WF_vars(Maintain /\ UNCHANGED machineVars)

FairSpec == Spec /\ Fairness

\* No run just hangs: one whose device enrolled comes to an end, waits for an operator on
\* the server, or has a runner that halted for good and waits for one on the machine, over
\* lost calls, outages longer than the deadline, power failures and a cancellation.  That
\* the server always hears of the halt is false (see Outage.cfg).
RunSettles ==
    [](run[R].key # NoKey =>
        \/ <>(run[R].status \in {"succeeded", "cancelled", "needs_review"})
        \/ <>[](disk.status = "needs_review"))

\* Nach konfigurierter Gesamtdauer auf manuelle Pruefung wechseln (Feinkonzept section 6):
\* a runner that halts after an outage gets its report through once the network is back,
\* so that an operator can resume the run.
HaltReported ==
    disk.enrolled /\ disk.status = "needs_review"
        ~> run[R].status \notin {"runner_ready", "running", "reboot_pending"}

\* The same for a runner that halts before it is enrolled: with the network back, its run
\* comes to an end or to a device an operator can resume it for.
UnenrolledHaltReported ==
    ~disk.enrolled /\ disk.status = "needs_review"
        ~> run[R].key # NoKey \/ ~Active(run[R])

\* Abbrechen stoppt einen Runner am naechsten sicheren Uebergang (Feinkonzept section 4):
\* a run with an enrolled runner that is asked to stop is confirmed as cancelled.
CancelReachesRunner == disk.enrolled /\ run[R].cancel ~> run[R].status = "cancelled"
=============================================================================
