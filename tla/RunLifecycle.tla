---------------------------- MODULE RunLifecycle ----------------------------
(***************************************************************************)
(* The server side of an installation run: hosts, approvals, runs and their *)
(* steps, as the SQLite tables of db.py keep them and the handlers of       *)
(* app.py and service.py change them.                                       *)
(*                                                                          *)
(* Every handler is one BEGIN IMMEDIATE transaction (db.py:44-61), so every *)
(* handler is one action.  The dependency `device` of the machine endpoints *)
(* runs in a transaction of its own before the handler's: it is an action   *)
(* too, and anything may happen between the two.  So is the housekeeping    *)
(* that approve and installer_answer run in a transaction of its own first. *)
(*                                                                          *)
(* An operator's request carries the version the browser last saw and is    *)
(* refused unless that is the row's version.  Such a request changes        *)
(* something only when it carries the current version, so the actions have  *)
(* no parameter for it; StatusChangeBumpsVersion is what makes the check    *)
(* worth anything.                                                          *)
(***************************************************************************)
EXTENDS Integers, FiniteSets

CONSTANTS
    Hosts,          \* rows of the table hosts
    Runs,           \* run ids; a run and its approval are created together
    Keys,           \* Ed25519 device keys a machine may present
    Boots,          \* kernel boot ids
    NumSteps,       \* steps of the pinned manifest, in manifest order
    Required,       \* the steps the manifest calls required
    DependsOn,      \* step -> the steps its module version depends on
    RebootBudget,   \* manifest.reboot_budget
    ApprovalTime,   \* valid_minutes of an approval
    AnswerWindow,   \* settings.answer_window_seconds
    EnrollTime,     \* settings.enrollment_hours
    LeaseTime,      \* settings.lease_seconds
    RetryTime,      \* the 3600 s in which a finished run acknowledges a repetition
    MaxTime,        \* bound of the model: the clock stops here
    MaxVersion,     \* bound of the model: no run row is changed more often
    NoHost, NoRun, NoKey, NoBoot

Steps == 1..NumSteps

ASSUME StepsAssumption ==
    /\ NumSteps \in Nat \ {0}
    /\ Required \subseteq Steps
    /\ DependsOn \in [Steps -> SUBSET Steps]
    /\ \A s \in Steps : \A d \in DependsOn[s] : d < s
    /\ RebootBudget \in Nat

ASSUME TimesAssumption ==
    /\ ApprovalTime \in Nat \ {0} /\ AnswerWindow \in Nat \ {0}
    /\ EnrollTime \in Nat \ {0} /\ LeaseTime \in Nat \ {0} /\ RetryTime \in Nat
    /\ MaxTime \in Nat /\ MaxVersion \in Nat

ASSUME AbsentAssumption ==
    /\ NoHost \notin Hosts /\ NoRun \notin Runs
    /\ NoKey \notin Keys /\ NoBoot \notin Boots

VARIABLES
    now,        \* time.time()
    host,       \* hosts: status and blocked of every host
    latest,     \* the run of a host created last (ORDER BY created_at DESC LIMIT 1)
    run,        \* runs, each joined with its approval and its run_steps
    admitted,   \* keys with which a request passed `device`; its handler, or that of
                \* another such request, may still be to run, however late
    held        \* history: latest expiry of the execution leases handed to the device

serverVars == <<now, host, latest, run, admitted, held>>

-----------------------------------------------------------------------------
(* The rows *)

TERMINAL == {"succeeded", "failed", "cancelled", "expired"}

\* `failed` and `waiting_retry` are states of the documents that no statement of
\* the code writes; "absent" is a run id without a row.
RunStatus == {"absent", "prepared", "answer_served", "installed_reported",
              "runner_ready", "running", "reboot_pending", "needs_review",
              "succeeded", "cancelled", "expired"}

\* Mutant: an expired run counts as active.
Active_Expired(row) == row.status \notin (TERMINAL \ {"expired"}) \cup {"absent"}

Active(row) == row.status \notin TERMINAL \cup {"absent"}

StepStatus == {"pending", "applying", "succeeded", "failed"}

RunRow == [host: Hosts \cup {NoHost}, status: RunStatus,
           approval: {"none", "approved", "consumed", "revoked", "expired"},
           cancel: BOOLEAN,             \* data.cancel_requested
           expiresAt: Nat,              \* approvals.expires_at
           answerUntil: Nat, enrollUntil: Nat, leaseUntil: Nat,   \* 0 is NULL
           hashes: BOOLEAN,             \* bootstrap_hash, enrollment_hash, report_hash
           key: Keys \cup {NoKey},      \* device_key
           boot: Boots \cup {NoBoot},   \* data.boot_id
           completedAt: Nat,            \* completed_at, 0 is NULL
           reboots: Nat, version: Nat,
           steps: [Steps -> StepStatus]]

AbsentRow == [host |-> NoHost, status |-> "absent", approval |-> "none",
              cancel |-> FALSE, expiresAt |-> 0, answerUntil |-> 0,
              enrollUntil |-> 0, leaseUntil |-> 0, hashes |-> FALSE,
              key |-> NoKey, boot |-> NoBoot, completedAt |-> 0, reboots |-> 0,
              version |-> 0,
              steps |-> [s \in Steps |-> "pending"]]

Blocked(r) == host[run[r].host].blocked

\* The UPDATE statements of the handlers: the run row and, except where the code
\* leaves it alone, the status of its host.
SetRun(r, row) ==
    /\ row.version <= MaxVersion
    /\ run' = [run EXCEPT ![r] = row]
SetHost(r, status) == host' = [host EXCEPT ![run[r].host].status = status]

ServerInit ==
    /\ now = 1
    /\ host = [h \in Hosts |-> [status |-> "ready", blocked |-> FALSE]]
    /\ latest = [h \in Hosts |-> NoRun]
    /\ run = [r \in Runs |-> AbsentRow]
    /\ admitted = [r \in Runs |-> {}]
    /\ held = [r \in Runs |-> 0]

-----------------------------------------------------------------------------
(* Operators: hosts, approvals, cancel, resume, reconcile *)

\* PATCH /hosts: while a run is active only `blocked` and the tags may change,
\* and they are the only fields a later handler tells apart.
UpdateHost(h) ==
    /\ host' = [host EXCEPT ![h].blocked = ~@]
    /\ UNCHANGED <<now, latest, run, admitted, held>>

\* Mutant: a run that waits for review does not count.
NoActiveRun_Review(h) ==
    \A q \in Runs : run[q].host = h => ~Active(run[q]) \/ run[q].status = "needs_review"

NoActiveRun(h) == \A q \in Runs : run[q].host = h => ~Active(run[q])

\* The row that service.approve inserts, with its approval and its run_steps.
ApprovedRow(h) ==
    [AbsentRow EXCEPT !.host = h, !.status = "prepared", !.approval = "approved",
                      !.expiresAt = now + ApprovalTime, !.version = 1]

Approve(h, r) ==
    /\ run[r].status = "absent"        \* new_id("run")
    /\ NoActiveRun(h)
    /\ now + ApprovalTime < MaxTime    \* bound: every approval can run out
    /\ SetRun(r, ApprovedRow(h))
    /\ latest' = [latest EXCEPT ![h] = r]
    /\ host' = [host EXCEPT ![h].status = "prepared"]
    /\ UNCHANGED <<now, admitted, held>>

\* Mutants: the approval survives, every run without a device ends at once, the
\* version is not counted up.
CancelledByOperator_Approved(row) ==
    [row EXCEPT !.cancel = TRUE, !.version = @ + 1,
                !.status = IF @ = "prepared" THEN "cancelled" ELSE @]
CancelledByOperator_NoDevice(row) ==
    [row EXCEPT !.cancel = TRUE, !.version = @ + 1,
                !.status = IF row.key = NoKey THEN "cancelled" ELSE @,
                !.approval = IF row.key = NoKey THEN "revoked" ELSE @]
CancelledByOperator_Version(row) ==
    [row EXCEPT !.cancel = TRUE,
                !.status = IF @ = "prepared" THEN "cancelled" ELSE @,
                !.approval = IF row.status = "prepared" THEN "revoked" ELSE @]

\* A run nothing was installed for ends here; any other waits for its runner.
CancelledByOperator(row) ==
    IF row.status = "prepared"
    THEN [row EXCEPT !.cancel = TRUE, !.version = @ + 1,
                     !.status = "cancelled", !.approval = "revoked"]
    ELSE [row EXCEPT !.cancel = TRUE, !.version = @ + 1]

CancelRun(r) ==
    /\ Active(run[r])
    /\ SetRun(r, CancelledByOperator(run[r]))
    /\ IF run[r].status = "prepared" THEN SetHost(r, "cancelled") ELSE UNCHANGED host
    /\ UNCHANGED <<now, latest, admitted, held>>

\* Mutant: the device has to enroll again.
ResumeRun_Unbound(r) ==
    /\ run[r].status = "needs_review"
    /\ run[r].key # NoKey /\ ~run[r].cancel
    /\ ~Blocked(r)
    /\ SetRun(r, [run[r] EXCEPT !.status = "runner_ready", !.version = @ + 1, !.key = NoKey])
    /\ SetHost(r, "runner_ready")
    /\ UNCHANGED <<now, latest, admitted, held>>

ResumeRun(r) ==
    /\ run[r].status = "needs_review"
    /\ run[r].key # NoKey /\ ~run[r].cancel
    /\ ~Blocked(r)
    /\ SetRun(r, [run[r] EXCEPT !.status = "runner_ready", !.version = @ + 1])
    /\ SetHost(r, "runner_ready")
    /\ UNCHANGED <<now, latest, admitted, held>>

\* Mutant: only the answer is looked at.
NothingOutstanding_Answer(row) == row.answerUntil <= now

\* No lease and no answer the server gave away may still be in force.
NothingOutstanding(row) == row.leaseUntil <= now /\ row.answerUntil <= now

ReconcileRun(r) ==
    /\ Active(run[r])
    /\ NothingOutstanding(run[r])
    /\ SetRun(r, [run[r] EXCEPT !.status = "cancelled", !.version = @ + 1,
                                !.cancel = TRUE, !.key = NoKey, !.hashes = FALSE,
                                !.leaseUntil = 0, !.approval = "revoked",
                                !.completedAt = now])
    /\ SetHost(r, "cancelled")
    /\ UNCHANGED <<now, latest, admitted, held>>

-----------------------------------------------------------------------------
(* The installer: answer file and report *)

\* A prepared run whose approval is still good for an answer.
ApprovalOpen(row) ==
    /\ row.status = "prepared"
    /\ row.approval = "approved" /\ row.expiresAt > now

\* The group, site, build and hardware identity checks decide which run the
\* request is for; a request that fails one changes nothing.
AnswerDue(r) ==
    /\ run[r].status # "absent" /\ latest[run[r].host] = r
    /\ ~Blocked(r) /\ ~run[r].cancel
    /\ ApprovalOpen(run[r])

\* Repeating an answer that was served changes nothing.
ServeAnswer(r) ==
    /\ AnswerDue(r)
    /\ SetRun(r, [run[r] EXCEPT !.status = "answer_served", !.version = @ + 1,
                                !.hashes = TRUE, !.approval = "consumed",
                                !.answerUntil = now + AnswerWindow,
                                !.enrollUntil = now + EnrollTime])
    /\ SetHost(r, "answer_served")
    /\ UNCHANGED <<now, latest, admitted, held>>

\* POST /installer/v1/report.  In the later states it is accepted without effect.
InstallerReport(r) ==
    /\ run[r].hashes /\ run[r].enrollUntil > now
    /\ run[r].status = "answer_served"
    /\ SetRun(r, [run[r] EXCEPT !.status = "installed_reported", !.version = @ + 1])
    /\ SetHost(r, "installed_reported")
    /\ UNCHANGED <<now, latest, admitted, held>>

-----------------------------------------------------------------------------
(* The device: enrollment, admission, lease *)

\* What the enrollment secret is good for; the first key presented is bound, the
\* same key again is acknowledged without effect, another one is refused.
EnrollAccepted(r, k) ==
    /\ run[r].hashes /\ run[r].enrollUntil > now
    /\ Active(run[r]) /\ run[r].status # "prepared"
    /\ ~run[r].cancel /\ ~Blocked(r)
    /\ run[r].key \in {NoKey, k}

Enroll(r, k, b) ==
    /\ EnrollAccepted(r, k)
    /\ run[r].key = NoKey
    /\ SetRun(r, [run[r] EXCEPT !.key = k, !.boot = b, !.status = "runner_ready",
                                !.version = @ + 1])
    /\ SetHost(r, "runner_ready")
    /\ UNCHANGED <<now, latest, admitted, held>>

\* What `device` asks of the row.
DeviceOk(r, k) == run[r].key = k /\ Active(run[r])

\* Mutant: only a repeated cancellation is let through.
RetryOk_Cancelled(r, k, status) ==
    /\ status = "cancelled" /\ run[r].key = k /\ run[r].status = status
    /\ now - run[r].completedAt < RetryTime

\* After the end it lets a repeated completion or event report through for a while;
\* the handlers then find nothing left to change.
RetryOk(r, k, status) ==
    /\ run[r].key = k /\ run[r].status = status
    /\ now - run[r].completedAt < RetryTime

Device(r, k) ==
    /\ DeviceOk(r, k)
    /\ admitted' = [admitted EXCEPT ![r] = @ \cup {k}]
    /\ UNCHANGED <<now, host, latest, run, held>>

\* Mutant: a run that is about to reboot waits.
LeaseAction_RebootWaits(r) ==
    CASE run[r].cancel -> "stop"
      [] ~run[r].cancel
           /\ (Blocked(r) \/ run[r].status \in {"needs_review", "reboot_pending"}) -> "wait"
      [] ~run[r].cancel /\ ~Blocked(r)
           /\ run[r].status \in {"runner_ready", "running"} -> "run"
      [] OTHER -> "revoked"

LeaseAction(r) ==
    CASE run[r].cancel -> "stop"
      [] ~run[r].cancel /\ (Blocked(r) \/ run[r].status = "needs_review") -> "wait"
      [] ~run[r].cancel /\ ~Blocked(r)
           /\ run[r].status \in {"runner_ready", "running", "reboot_pending"} -> "run"
      [] OTHER -> "revoked"

\* The row forgets no lease that a device may still hold: only a "run" answer
\* moves lease_until.
LeaseGranted(r) ==
    IF LeaseAction(r) = "run" THEN now + LeaseTime ELSE run[r].leaseUntil

\* It writes last_seen too, which only the overview reads, whatever the status of the row.
LeaseHandler(r) ==
    /\ SetRun(r, [run[r] EXCEPT !.leaseUntil = LeaseGranted(r)])
    /\ held' = IF LeaseAction(r) = "run"
               THEN [held EXCEPT ![r] = now + LeaseTime] ELSE held
    /\ UNCHANGED <<now, host, latest, admitted>>

Lease(r, k) == k \in admitted[r] /\ LeaseHandler(r)

\* authorized_run(lease=True), asked by the manifest, artifact and secrets endpoints.
LeaseInForce(r) ==
    /\ run[r].status \in {"runner_ready", "running"} /\ run[r].leaseUntil > now
    /\ ~run[r].cancel /\ ~Blocked(r)

Settled(row, s) ==
    \/ row.steps[s] = "succeeded"
    \/ row.steps[s] = "failed" /\ s \notin Required

\* GET secrets: only for the first step that is not settled.
SecretsServed(r, s) ==
    /\ LeaseInForce(r)
    /\ ~Settled(run[r], s)
    /\ \A p \in 1..(s - 1) : Settled(run[r], p)

-----------------------------------------------------------------------------
(* The events a device reports: apply_event *)

Event(type, step, boot) == [type |-> type, step |-> step, boot |-> boot]

EventTypes == {"heartbeat", "step.started", "step.succeeded", "step.failed",
               "run.needs_review", "run.reboot_pending", "run.resumed", "run.cancelled"}

StepEvents == {"step.started", "step.succeeded", "step.failed"}

\* Mutant: dependencies are left to the manifest order.
StepReached_Order(row, s) == \A p \in 1..(s - 1) : Settled(row, p)

\* Where the manifest stands: everything before the step is settled, everything
\* it depends on succeeded.
StepReached(row, s) ==
    /\ \A p \in 1..(s - 1) : Settled(row, p)
    /\ \A d \in DependsOn[s] : row.steps[d] = "succeeded"

StepEventOk(row, blocked, e) ==
    /\ row.status \in {"runner_ready", "running"}
    /\ StepReached(row, e.step)
    /\ \/ /\ e.type = "step.started"
          /\ row.leaseUntil > now /\ ~row.cancel /\ ~blocked
          /\ row.steps[e.step] # "succeeded"
       \/ /\ e.type \in {"step.succeeded", "step.failed"}
          /\ row.steps[e.step] = "applying"

\* The conditions under which apply_event does not refuse the event.
EventOk(row, blocked, e) ==
    /\ Active(row)
    /\ \/ e.type \in {"heartbeat", "run.needs_review"}
       \/ e.type \in StepEvents /\ StepEventOk(row, blocked, e)
       \/ /\ e.type = "run.reboot_pending"
          /\ row.status \in {"running", "runner_ready"}
          /\ row.reboots < RebootBudget
       \/ /\ e.type = "run.resumed"
          /\ \/ row.status = "reboot_pending" /\ e.boot # row.boot
             \/ row.status = "runner_ready"
       \/ e.type = "run.cancelled" /\ row.cancel

\* The status the run takes with the event.
StatusAfter(row, e) ==
    CASE e.type = "step.started" -> "running"
      [] e.type = "step.succeeded" -> row.status
      [] e.type = "step.failed" -> IF e.step \in Required THEN "needs_review" ELSE "running"
      [] e.type = "run.needs_review" -> "needs_review"
      [] e.type = "run.reboot_pending" -> "reboot_pending"
      [] e.type = "run.resumed" -> "runner_ready"
      [] e.type = "run.cancelled" -> "cancelled"
      [] OTHER -> row.status

StepAfter(e) ==
    CASE e.type = "step.started" -> "applying"
      [] e.type = "step.succeeded" -> "succeeded"
      [] OTHER -> "failed"

\* The run row after an event that was not refused.
AfterEvent(row, e) ==
    CASE e.type = "heartbeat" -> row
      [] e.type \in StepEvents ->
           [row EXCEPT !.status = StatusAfter(row, e), !.version = @ + 1,
                       !.steps[e.step] = StepAfter(e)]
      [] e.type = "run.reboot_pending" ->
           [row EXCEPT !.status = StatusAfter(row, e), !.version = @ + 1,
                       !.reboots = @ + 1, !.boot = e.boot]
      [] e.type = "run.resumed" ->
           [row EXCEPT !.status = StatusAfter(row, e), !.version = @ + 1,
                       !.boot = e.boot]
      [] e.type = "run.cancelled" ->
           [row EXCEPT !.status = StatusAfter(row, e), !.version = @ + 1,
                       !.leaseUntil = 0, !.hashes = FALSE, !.completedAt = now]
      [] OTHER ->
           [row EXCEPT !.status = StatusAfter(row, e), !.version = @ + 1]

\* The device that reports its cancellation has stopped working.
HeldAfter(e, expiry) == IF e.type = "run.cancelled" THEN 0 ELSE expiry

\* POST events with one new event.  Events the table holds already are skipped,
\* and a batch is applied whole or not at all: Provisioning.tla has batches.  Each one,
\* also an empty one for a run that has ended, writes last_seen.
ReportEvent(r, k, e) ==
    /\ k \in admitted[r]
    /\ EventOk(run[r], Blocked(r), e)
    /\ SetRun(r, AfterEvent(run[r], e))
    /\ IF e.type = "heartbeat" THEN UNCHANGED host ELSE SetHost(r, StatusAfter(run[r], e))
    /\ held' = [held EXCEPT ![r] = HeldAfter(e, @)]
    /\ UNCHANGED <<now, latest, admitted>>

\* Mutant: a run asked to stop may still be completed.
Completable_Cancelled(row) ==
    row.status \in {"running", "runner_ready"} /\ \A s \in Steps : Settled(row, s)

\* POST complete; for a run that succeeded already it is acknowledged again.
Completable(row) ==
    /\ row.status \in {"running", "runner_ready"} /\ ~row.cancel
    /\ \A s \in Steps : Settled(row, s)

CompleteHandler(r) ==
    /\ Completable(run[r])
    /\ SetRun(r, [run[r] EXCEPT !.status = "succeeded", !.version = @ + 1,
                                !.leaseUntil = 0, !.hashes = FALSE, !.completedAt = now])
    /\ SetHost(r, "succeeded")
    /\ held' = [held EXCEPT ![r] = 0]
    /\ UNCHANGED <<now, latest, admitted>>

Complete(r, k) == k \in admitted[r] /\ CompleteHandler(r)

-----------------------------------------------------------------------------
(* Housekeeping and time *)

\* Mutant: maintenance looks for approvals that were used.
Expired_Consumed(row) == row.approval = "consumed" /\ row.expiresAt < now

Expired(row) == row.status = "prepared" /\ row.expiresAt < now

ExpiredRow(row) ==
    [row EXCEPT !.status = "expired", !.approval = "expired", !.version = @ + 1,
                !.completedAt = now]

\* service.maintain: every prepared run whose approval ran out, and its host.
Maintain ==
    /\ run' = [r \in Runs |-> IF Expired(run[r]) THEN ExpiredRow(run[r]) ELSE run[r]]
    /\ host' = [h \in Hosts |->
                  IF \E r \in Runs : run[r].host = h /\ Expired(run[r])
                  THEN [host[h] EXCEPT !.status = "expired"] ELSE host[h]]
    /\ UNCHANGED <<now, latest, admitted, held>>

Tick ==
    /\ now < MaxTime
    /\ now' = now + 1
    /\ UNCHANGED <<host, latest, run, admitted, held>>

Operator ==
    \/ \E h \in Hosts : UpdateHost(h) \/ \E r \in Runs : Approve(h, r)
    \/ \E r \in Runs : CancelRun(r) \/ ResumeRun(r) \/ ReconcileRun(r)

Installer == \E r \in Runs : ServeAnswer(r) \/ InstallerReport(r)

\* The device may send anything at any time, also what runner.py would not.
Machine ==
    \E r \in Runs, k \in Keys :
        \/ Device(r, k) \/ Lease(r, k) \/ Complete(r, k)
        \/ \E b \in Boots : Enroll(r, k, b)
        \/ \E t \in EventTypes, s \in Steps, b \in Boots : ReportEvent(r, k, Event(t, s, b))

ServerNext == Operator \/ Installer \/ Machine \/ Maintain \/ Tick

ServerSpec == ServerInit /\ [][ServerNext]_serverVars

-----------------------------------------------------------------------------
(* Properties *)

\* Type correctness of the tables (db.py SCHEMA and the values the handlers write).
ServerTypeOK ==
    /\ now \in Nat
    /\ host \in [Hosts -> [status: RunStatus \cup {"ready"}, blocked: BOOLEAN]]
    /\ latest \in [Hosts -> Runs \cup {NoRun}]
    /\ run \in [Runs -> RunRow]
    /\ admitted \in [Runs -> SUBSET Keys]
    /\ held \in [Runs -> Nat]

\* The permission to erase a disk is open exactly as long as the run is prepared:
\* approvals.status and runs.status are written by seven handlers in two tables.
ApprovalMatchesRun ==
    \A r \in Runs : run[r].approval = "approved" <=> run[r].status = "prepared"

\* A host has one active run at most (the index one_active_run would make the
\* handler fail where this breaks), and it is the run the installer is answered for.
OneActiveRun ==
    \A r \in Runs : Active(run[r]) => latest[run[r].host] = r

\* hosts.status, which the overview shows and which handlers write row by row, is the
\* status of the host's latest run, whatever requests of older runs are still under way.
HostMirrorsRun ==
    \A h \in Hosts :
        host[h].status = IF latest[h] = NoRun THEN "ready" ELSE run[latest[h]].status

\* Execution leases exclude each other: while a device holds an unexpired lease for a
\* host no other run of that host holds one, although a lease cannot be recalled and
\* the operator may reconcile the run and approve the next (app.py:490, 627-630).  It is
\* about leases only: a step that was begun under one may go on after it.
OneLeaseHolder ==
    \A r, q \in Runs :
        run[r].host = run[q].host /\ held[r] > now /\ held[q] > now => r = q

\* Steps go in manifest order: where a step was started, every required step before it
\* and every step it depends on has succeeded, also when an optional step that failed
\* is started anew out of turn (app.py:697-704).
StepOrder ==
    \A r \in Runs, s \in Steps : run[r].steps[s] # "pending" =>
        /\ \A p \in Required : p < s => run[r].steps[p] = "succeeded"
        /\ \A d \in DependsOn[s] : run[r].steps[d] = "succeeded"

\* A run that succeeded was never asked to stop, and no required step of it is open.
SuccessIsEarned ==
    \A r \in Runs : run[r].status = "succeeded" =>
        ~run[r].cancel /\ \A s \in Steps : Settled(run[r], s)

\* A terminal run is frozen: no request, also none that `device` admitted before the
\* run ended and whose handler runs after, changes anything in its row but
\* last_seen, which a repeated batch or a late lease request still writes.
TerminalFrozen ==
    [][\A r \in Runs : run[r].status \in TERMINAL => run'[r] = run[r]]_serverVars

\* A cancellation request is final: from then on no lease is extended, no step is
\* started, and the run does not end as a success.
CancelSticks ==
    [][\A r \in Runs : run[r].cancel =>
        /\ run'[r].cancel
        /\ run'[r].leaseUntil <= run[r].leaseUntil
        /\ run'[r].status # "succeeded"
        /\ \A s \in Steps : run'[r].steps[s] = "applying" => run[r].steps[s] = "applying"]_serverVars

\* The version check of cancel, resume and reconcile means something: where a run stands,
\* with its steps, reboots and approval, changes only together with its version.  Its
\* lease, last_seen, logs and stored events change without.
StatusChangeBumpsVersion ==
    [][\A r \in Runs :
        [run'[r] EXCEPT !.leaseUntil = 0] # [run[r] EXCEPT !.leaseUntil = 0]
            => run'[r].version > run[r].version]_serverVars

\* The maintenance loop runs every 30 seconds and time passes.
ServerFairness == WF_serverVars(Maintain) /\ WF_serverVars(Tick)

FairServerSpec == ServerSpec /\ ServerFairness

\* An approval does not stay open: it is used, cancelled or expires.
ApprovalRunsOut ==
    \A r \in Runs : run[r].status = "prepared" ~> run[r].status # "prepared"

\* The documented life of a run ends in `expired` when the deadline for starting passes
\* (Feinkonzept section 7): a run whose answer was served and that no device enrolled for
\* leaves answer_served and installed_reported once the enrollment window is over.
StartDeadlineExpires ==
    \A r \in Runs :
        run[r].status \in {"answer_served", "installed_reported"} /\ run[r].enrollUntil <= now
            ~> run[r].status \notin {"answer_served", "installed_reported"}
=============================================================================
