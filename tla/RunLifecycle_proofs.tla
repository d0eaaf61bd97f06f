------------------------ MODULE RunLifecycle_proofs ------------------------
(***************************************************************************)
(* Proofs about RunLifecycle, for any hosts, runs, keys, manifest and       *)
(* durations.                                                               *)
(*                                                                          *)
(* Most handlers replace one row of `runs`.  The invariant is split along   *)
(* that line: ConsistentRow speaks of one row, with the keys admitted for   *)
(* it and the lease its device holds, and three conjuncts relate rows to    *)
(* their hosts.  RowStep lifts what a handler does to its row to the whole  *)
(* invariant; each handler then has one lemma.                              *)
(***************************************************************************)
EXTENDS RunLifecycle, TLAPS

\* A row nothing was installed for knows no device and no lease; while a run is active
\* the row remembers every lease the device may hold; afterwards none is in force.
DeviceKnown(row, keys) ==
    row.key # NoKey \/ keys # {} => row.status \notin {"absent", "prepared"}

LeaseRemembered(row, expiry) ==
    /\ row.status \in {"absent", "prepared"} => expiry = 0
    /\ Active(row) => expiry <= row.leaseUntil
    /\ ~Active(row) => expiry <= now

OrderKept(row) ==
    \A s \in Steps : row.steps[s] # "pending" =>
        /\ \A p \in Required : p < s => row.steps[p] = "succeeded"
        /\ \A d \in DependsOn[s] : row.steps[d] = "succeeded"

Earned(row) ==
    row.status = "succeeded" => ~row.cancel /\ \A s \in Steps : Settled(row, s)

ConsistentRow(row, keys, expiry) ==
    /\ row.host = NoHost <=> row.status = "absent"
    /\ row.status = "absent" => ~row.cancel /\ row.version = 0
    /\ row.approval = "approved" <=> row.status = "prepared"
    /\ DeviceKnown(row, keys)
    /\ LeaseRemembered(row, expiry)
    /\ OrderKept(row)
    /\ Earned(row)

LatestOfHost ==
    \A h \in Hosts : latest[h] # NoRun => run[latest[h]].host = h

\* The inductive invariant.
IInv ==
    /\ ServerTypeOK
    /\ \A r \in Runs : ConsistentRow(run[r], admitted[r], held[r])
    /\ LatestOfHost
    /\ OneActiveRun
    /\ HostMirrorsRun

-----------------------------------------------------------------------------
(* Types *)

\* The row a run id has before its approval.
LEMMA AbsentRowType == AbsentRow \in RunRow
BY Zenon DEF AbsentRow, RunRow, RunStatus, StepStatus

\* A handler writes one row of runs and leaves the others alone.
LEMMA SetRunType ==
    ASSUME ServerTypeOK, NEW r \in Runs, NEW row \in RunRow, SetRun(r, row)
    PROVE  /\ run' \in [Runs -> RunRow]
           /\ run'[r] = row
           /\ \A q \in Runs : q # r => run'[q] = run[q]
BY DEF ServerTypeOK, SetRun

\* What a handler that sets the status of a row's host leaves of the table hosts.
LEMMA SetHostType ==
    ASSUME ServerTypeOK, NEW r \in Runs, NEW status \in RunStatus, SetHost(r, status)
    PROVE  /\ host' \in [Hosts -> [status: RunStatus \cup {"ready"}, blocked: BOOLEAN]]
           /\ \A h \in Hosts :
                host'[h].status = IF h = run[r].host THEN status ELSE host[h].status
BY DEF ServerTypeOK, SetHost

-----------------------------------------------------------------------------
(* From a row to the invariant *)

\* Where the host's status goes with the row's, a new status is given to active runs
\* only, and the row is consistent, the invariant holds after the step.
LEMMA RowStep ==
    ASSUME IInv, NEW r \in Runs, NEW row \in RunRow, SetRun(r, row),
           now' = now, latest' = latest, admitted' = admitted,
           held' \in [Runs -> Nat], \A q \in Runs : q # r => held'[q] = held[q],
           host' \in [Hosts -> [status: RunStatus \cup {"ready"}, blocked: BOOLEAN]],
           \A h \in Hosts :
              host'[h].status = IF h = run[r].host THEN row.status ELSE host[h].status,
           row.host = run[r].host, Active(run[r]), row.status # "absent",
           ConsistentRow(row, admitted[r], held'[r])
    PROVE  IInv'
<1>1. ServerTypeOK'
  BY SetRunType DEF IInv, ServerTypeOK
<1>2. /\ run'[r] = row
      /\ \A q \in Runs : q # r => run'[q] = run[q]
  BY SetRunType DEF IInv
<1>3. ASSUME NEW q \in Runs
      PROVE  ConsistentRow(run[q], admitted[q], held[q])'
  <2>1. CASE q = r
    BY <2>1, <1>2 DEF ConsistentRow, DeviceKnown, LeaseRemembered, OrderKept, Earned,
                      Active, Settled
  <2>2. CASE q # r
    BY <2>2, <1>2 DEF IInv, ConsistentRow, DeviceKnown, LeaseRemembered, OrderKept, Earned,
                      Active, Settled
  <2> QED BY <2>1, <2>2
<1>4. LatestOfHost'
  BY <1>2 DEF IInv, LatestOfHost, ServerTypeOK
<1>5. OneActiveRun'
  BY <1>2 DEF IInv, OneActiveRun, Active
<1>6. HostMirrorsRun'
  <2> SUFFICES ASSUME NEW h \in Hosts
               PROVE  host'[h].status =
                        IF latest[h] = NoRun THEN "ready" ELSE run'[latest[h]].status
    BY DEF HostMirrorsRun
  <2>1. latest[run[r].host] = r
    BY DEF IInv, OneActiveRun
  <2>2. CASE h = run[r].host
    BY <2>1, <2>2, <1>2, AbsentAssumption
  <2>3. CASE h # run[r].host
    <3>1. latest[h] # r
      BY <2>3, AbsentAssumption DEF IInv, LatestOfHost
    <3> QED BY <3>1, <2>3, <1>2 DEF IInv, HostMirrorsRun, ServerTypeOK
  <2> QED BY <2>2, <2>3
<1> QED BY <1>1, <1>3, <1>4, <1>5, <1>6 DEF IInv

\* A handler that changes neither the status nor the key of its row, nor its steps.
LEMMA QuietStep ==
    ASSUME IInv, NEW r \in Runs, NEW row \in RunRow, SetRun(r, row),
           now' = now, latest' = latest, admitted' = admitted, host' = host,
           held' \in [Runs -> Nat], \A q \in Runs : q # r => held'[q] = held[q],
           row.host = run[r].host, row.status = run[r].status,
           ConsistentRow(row, admitted[r], held'[r])
    PROVE  IInv'
<1>1. ServerTypeOK'
  BY SetRunType DEF IInv, ServerTypeOK
<1>2. /\ run'[r] = row
      /\ \A q \in Runs : q # r => run'[q] = run[q]
  BY SetRunType DEF IInv
<1>3. ASSUME NEW q \in Runs
      PROVE  ConsistentRow(run[q], admitted[q], held[q])'
  <2>1. CASE q = r
    BY <2>1, <1>2 DEF ConsistentRow, DeviceKnown, LeaseRemembered, OrderKept, Earned,
                      Active, Settled
  <2>2. CASE q # r
    BY <2>2, <1>2 DEF IInv, ConsistentRow, DeviceKnown, LeaseRemembered, OrderKept, Earned,
                      Active, Settled
  <2> QED BY <2>1, <2>2
<1>4. LatestOfHost'
  BY <1>2 DEF IInv, LatestOfHost, ServerTypeOK
<1>5. OneActiveRun'
  BY <1>2 DEF IInv, OneActiveRun, Active
<1>6. HostMirrorsRun'
  BY <1>2 DEF IInv, HostMirrorsRun, ServerTypeOK
<1> QED BY <1>1, <1>3, <1>4, <1>5, <1>6 DEF IInv

-----------------------------------------------------------------------------
(* The handlers *)

\* An empty database.
LEMMA InitHolds == ServerInit => IInv
<1> SUFFICES ASSUME ServerInit PROVE IInv
  OBVIOUS
<1>1. ServerTypeOK
  BY AbsentRowType DEF ServerInit, ServerTypeOK, RunStatus
<1>2. \A r \in Runs : ConsistentRow(run[r], admitted[r], held[r])
  BY DEF ServerInit, ConsistentRow, AbsentRow, DeviceKnown, LeaseRemembered, OrderKept,
         Earned, Active
<1>3. LatestOfHost /\ OneActiveRun /\ HostMirrorsRun
  BY DEF ServerInit, LatestOfHost, OneActiveRun, HostMirrorsRun, AbsentRow, Active
<1> QED BY <1>1, <1>2, <1>3 DEF IInv

\* PATCH /hosts: blocking a host moves no run.
LEMMA UpdateHostStep ==
    ASSUME IInv, NEW h \in Hosts, UpdateHost(h)
    PROVE  IInv'
<1>1. host' \in [Hosts -> [status: RunStatus \cup {"ready"}, blocked: BOOLEAN]]
  BY DEF UpdateHost, IInv, ServerTypeOK
<1>2. \A g \in Hosts : host'[g].status = host[g].status
  BY DEF UpdateHost, IInv, ServerTypeOK
<1>3. HostMirrorsRun'
  BY <1>2 DEF UpdateHost, IInv, HostMirrorsRun
<1>4. \A r \in Runs : ConsistentRow(run[r], admitted[r], held[r])'
  BY DEF UpdateHost, IInv, ConsistentRow, DeviceKnown, LeaseRemembered, OrderKept, Earned,
         Active, Settled
<1> QED BY <1>1, <1>3, <1>4 DEF UpdateHost, IInv, ServerTypeOK, LatestOfHost, OneActiveRun,
                               Active

\* service.approve: the new run becomes its host's latest, and no other is active.
LEMMA ApproveStep ==
    ASSUME IInv, NEW h \in Hosts, NEW r \in Runs, Approve(h, r)
    PROVE  IInv'
<1> DEFINE row == ApprovedRow(h)
<1>1. /\ row.host = h /\ row.status = "prepared" /\ row.approval = "approved"
      /\ row.key = NoKey /\ row.steps = [s \in Steps |-> "pending"]
  BY DEF ApprovedRow, AbsentRow
<1>2. row \in RunRow
  <2>1. now + ApprovalTime \in Nat
    BY TimesAssumption DEF IInv, ServerTypeOK
  <2>2. 1 \in Nat /\ "prepared" \in RunStatus
    BY DEF RunStatus
  <2> QED BY <2>1, <2>2, AbsentRowType, Zenon DEF ApprovedRow, RunRow
<1>3. /\ run' \in [Runs -> RunRow] /\ run'[r] = row
      /\ \A q \in Runs : q # r => run'[q] = run[q]
  BY <1>2, SetRunType DEF Approve, IInv
<1>4. ServerTypeOK'
  BY <1>3 DEF Approve, IInv, ServerTypeOK, RunStatus
<1>5. ASSUME NEW q \in Runs
      PROVE  ConsistentRow(run[q], admitted[q], held[q])'
  <2>1. CASE q = r
    <3>1. admitted[r] = {} /\ held[r] = 0
      BY DEF IInv, ConsistentRow, DeviceKnown, LeaseRemembered, Approve
    <3>2. UNCHANGED <<now, admitted, held>>
      BY DEF Approve
    <3>3. OrderKept(row) /\ Earned(row) /\ DeviceKnown(row, {})
      BY <1>1 DEF OrderKept, Earned, DeviceKnown
    <3>4. LeaseRemembered(row, 0)
      BY <1>1, <1>2 DEF LeaseRemembered, IInv, ServerTypeOK, RunRow
    <3>5. ConsistentRow(row, {}, 0)
      BY <1>1, <3>3, <3>4, AbsentAssumption DEF ConsistentRow
    <3> QED BY <2>1, <3>1, <3>2, <3>5, <1>3
            DEF ConsistentRow, DeviceKnown, LeaseRemembered, OrderKept, Earned, Active, Settled
  <2>2. CASE q # r
    BY <2>2, <1>3 DEF Approve, IInv, ConsistentRow, DeviceKnown, LeaseRemembered, OrderKept,
                      Earned, Active, Settled
  <2> QED BY <2>1, <2>2
<1>6. \A g \in Hosts : latest'[g] = IF g = h THEN r ELSE latest[g]
  BY DEF Approve, IInv, ServerTypeOK
<1>7. \A g \in Hosts : latest[g] # r
  BY AbsentAssumption DEF IInv, LatestOfHost, ConsistentRow, Approve
<1>8. LatestOfHost'
  BY <1>1, <1>3, <1>6, <1>7 DEF IInv, LatestOfHost, ServerTypeOK
<1>9. OneActiveRun'
  BY <1>1, <1>3, <1>6, AbsentAssumption
  DEF Approve, NoActiveRun, IInv, OneActiveRun, ServerTypeOK, Active, RunRow, ConsistentRow
<1>10. HostMirrorsRun'
  <2>1. \A g \in Hosts : host'[g].status = IF g = h THEN "prepared" ELSE host[g].status
    BY DEF Approve, IInv, ServerTypeOK
  <2> QED BY <2>1, <1>1, <1>3, <1>6, <1>7, AbsentAssumption
          DEF IInv, HostMirrorsRun, ServerTypeOK
<1> QED BY <1>4, <1>5, <1>8, <1>9, <1>10 DEF IInv

\* A handler that leaves the steps alone and moves an active run to a status that is
\* neither prepared nor a success keeps the row consistent.
LEMMA Carried ==
    ASSUME NEW old, NEW new, NEW keys, NEW expiry,
           ConsistentRow(old, keys, expiry), old.status # "absent",
           new.host = old.host, new.steps = old.steps,
           new.status \notin {"absent", "prepared", "succeeded"},
           new.approval # "approved",
           Active(new) => expiry <= new.leaseUntil, ~Active(new) => expiry <= now
    PROVE  ConsistentRow(new, keys, expiry)
BY DEF ConsistentRow, DeviceKnown, LeaseRemembered, OrderKept, Earned

\* A device that reports its cancellation holds no lease any more.
LEMMA CancelledCarried ==
    ASSUME ServerTypeOK, NEW old, NEW new, NEW keys, NEW expiry,
           ConsistentRow(old, keys, expiry), old.status # "absent",
           new.host = old.host, new.steps = old.steps, new.status = "cancelled",
           new.approval # "approved"
    PROVE  ConsistentRow(new, keys, 0)
BY DEF ConsistentRow, DeviceKnown, LeaseRemembered, OrderKept, Earned, Active, TERMINAL,
       ServerTypeOK

\* app.py resume_run.
LEMMA ResumeStep ==
    ASSUME IInv, NEW r \in Runs, ResumeRun(r)
    PROVE  IInv'
<1> DEFINE row == [run[r] EXCEPT !.status = "runner_ready", !.version = @ + 1]
<1>1. run[r] \in RunRow /\ ConsistentRow(run[r], admitted[r], held[r])
  BY DEF IInv, ServerTypeOK
<1>2. row \in RunRow
  <2>1. run[r].version + 1 \in Nat /\ "runner_ready" \in RunStatus
    BY <1>1, TimesAssumption, AbsentAssumption DEF IInv, ServerTypeOK, RunRow, RunStatus
  <2> QED BY <1>1, <2>1, Zenon DEF RunRow
<1>3. /\ row.host = run[r].host /\ row.status = "runner_ready" /\ row.approval = run[r].approval
      /\ row.leaseUntil = run[r].leaseUntil /\ row.steps = run[r].steps
  BY <1>1 DEF RunRow
<1>4. Active(run[r])
  BY DEF ResumeRun, Active, TERMINAL
<1>5. ConsistentRow(row, admitted[r], held[r])
  <2>1. row.approval # "approved" /\ run[r].status # "absent"
    BY <1>1, <1>3, <1>4 DEF ConsistentRow, Active, ResumeRun
  <2>2. /\ Active(row) => held[r] <= row.leaseUntil
        /\ ~Active(row) => held[r] <= now
    BY <1>1, <1>3, <1>4 DEF ConsistentRow, LeaseRemembered, Active, TERMINAL, IInv,
                              ServerTypeOK, RunRow
  <2> QED BY <1>1, <1>3, <2>1, <2>2, Carried
<1>6. /\ host' \in [Hosts -> [status: RunStatus \cup {"ready"}, blocked: BOOLEAN]]
      /\ \A h \in Hosts :
           host'[h].status = IF h = run[r].host THEN row.status ELSE host[h].status
  BY <1>3, SetHostType DEF ResumeRun, IInv, RunStatus
<1>7. SetRun(r, row) /\ UNCHANGED <<now, latest, admitted, held>>
  BY DEF ResumeRun
<1> QED BY <1>2, <1>3, <1>4, <1>5, <1>6, <1>7, RowStep DEF IInv, ServerTypeOK

\* app.py reconcile_run: the row may forget its lease because it has run out.
LEMMA ReconcileStep ==
    ASSUME IInv, NEW r \in Runs, ReconcileRun(r)
    PROVE  IInv'
<1> DEFINE row == [run[r] EXCEPT !.status = "cancelled", !.version = @ + 1,
                                !.cancel = TRUE, !.key = NoKey, !.hashes = FALSE,
                                !.leaseUntil = 0, !.approval = "revoked",
                                !.completedAt = now]
<1>1. run[r] \in RunRow /\ ConsistentRow(run[r], admitted[r], held[r])
  BY DEF IInv, ServerTypeOK
<1>2. row \in RunRow
  <2>1. /\ run[r].version + 1 \in Nat /\ "cancelled" \in RunStatus
        /\ now \in Nat /\ 0 \in Nat
    BY <1>1, TimesAssumption, AbsentAssumption DEF IInv, ServerTypeOK, RunRow, RunStatus
  <2> QED BY <1>1, <2>1, Zenon DEF RunRow
<1>3. /\ row.host = run[r].host /\ row.status = "cancelled" /\ row.approval = "revoked"
      /\ row.leaseUntil = 0 /\ row.steps = run[r].steps
  BY <1>1 DEF RunRow
<1>4. Active(run[r])
  BY DEF ReconcileRun, Active, TERMINAL
<1>5. ConsistentRow(row, admitted[r], held[r])
  <2>1. row.approval # "approved" /\ run[r].status # "absent"
    BY <1>1, <1>3, <1>4 DEF ConsistentRow, Active, ReconcileRun
  <2>2. /\ Active(row) => held[r] <= row.leaseUntil
        /\ ~Active(row) => held[r] <= now
    BY <1>1, <1>3, <1>4 DEF ConsistentRow, LeaseRemembered, Active, TERMINAL, IInv,
                              ServerTypeOK, RunRow, ReconcileRun, NothingOutstanding
  <2> QED BY <1>1, <1>3, <2>1, <2>2, Carried
<1>6. /\ host' \in [Hosts -> [status: RunStatus \cup {"ready"}, blocked: BOOLEAN]]
      /\ \A h \in Hosts :
           host'[h].status = IF h = run[r].host THEN row.status ELSE host[h].status
  BY <1>3, SetHostType DEF ReconcileRun, IInv, RunStatus
<1>7. SetRun(r, row) /\ UNCHANGED <<now, latest, admitted, held>>
  BY DEF ReconcileRun
<1> QED BY <1>2, <1>3, <1>4, <1>5, <1>6, <1>7, RowStep DEF IInv, ServerTypeOK

\* service.serve_answer: the approval is consumed with the status.
LEMMA ServeAnswerStep ==
    ASSUME IInv, NEW r \in Runs, ServeAnswer(r)
    PROVE  IInv'
<1> DEFINE row == [run[r] EXCEPT !.status = "answer_served", !.version = @ + 1,
                                !.hashes = TRUE, !.approval = "consumed",
                                !.answerUntil = now + AnswerWindow,
                                !.enrollUntil = now + EnrollTime]
<1>1. run[r] \in RunRow /\ ConsistentRow(run[r], admitted[r], held[r])
  BY DEF IInv, ServerTypeOK
<1>2. row \in RunRow
  <2>1. /\ run[r].version + 1 \in Nat /\ "answer_served" \in RunStatus
        /\ now + AnswerWindow \in Nat /\ now + EnrollTime \in Nat
    BY <1>1, TimesAssumption, AbsentAssumption DEF IInv, ServerTypeOK, RunRow, RunStatus
  <2> QED BY <1>1, <2>1, Zenon DEF RunRow
<1>3. /\ row.host = run[r].host /\ row.status = "answer_served" /\ row.approval = "consumed"
      /\ row.leaseUntil = run[r].leaseUntil /\ row.steps = run[r].steps
  BY <1>1 DEF RunRow
<1>4. Active(run[r])
  BY DEF ServeAnswer, AnswerDue, Active, TERMINAL, ApprovalOpen
<1>5. ConsistentRow(row, admitted[r], held[r])
  <2>1. row.approval # "approved" /\ run[r].status # "absent"
    BY <1>1, <1>3, <1>4 DEF ConsistentRow, Active, ServeAnswer, AnswerDue, ApprovalOpen
  <2>2. /\ Active(row) => held[r] <= row.leaseUntil
        /\ ~Active(row) => held[r] <= now
    BY <1>1, <1>3, <1>4 DEF ConsistentRow, LeaseRemembered, Active, TERMINAL, IInv,
                              ServerTypeOK, RunRow
  <2> QED BY <1>1, <1>3, <2>1, <2>2, Carried
<1>6. /\ host' \in [Hosts -> [status: RunStatus \cup {"ready"}, blocked: BOOLEAN]]
      /\ \A h \in Hosts :
           host'[h].status = IF h = run[r].host THEN row.status ELSE host[h].status
  BY <1>3, SetHostType DEF ServeAnswer, AnswerDue, IInv, RunStatus
<1>7. SetRun(r, row) /\ UNCHANGED <<now, latest, admitted, held>>
  BY DEF ServeAnswer, AnswerDue
<1> QED BY <1>2, <1>3, <1>4, <1>5, <1>6, <1>7, RowStep DEF IInv, ServerTypeOK

\* app.py installer_report.
LEMMA InstallerReportStep ==
    ASSUME IInv, NEW r \in Runs, InstallerReport(r)
    PROVE  IInv'
<1> DEFINE row == [run[r] EXCEPT !.status = "installed_reported", !.version = @ + 1]
<1>1. run[r] \in RunRow /\ ConsistentRow(run[r], admitted[r], held[r])
  BY DEF IInv, ServerTypeOK
<1>2. row \in RunRow
  <2>1. run[r].version + 1 \in Nat /\ "installed_reported" \in RunStatus
    BY <1>1, TimesAssumption, AbsentAssumption DEF IInv, ServerTypeOK, RunRow, RunStatus
  <2> QED BY <1>1, <2>1, Zenon DEF RunRow
<1>3. /\ row.host = run[r].host /\ row.status = "installed_reported" /\ row.approval = run[r].approval
      /\ row.leaseUntil = run[r].leaseUntil /\ row.steps = run[r].steps
  BY <1>1 DEF RunRow
<1>4. Active(run[r])
  BY DEF InstallerReport, Active, TERMINAL
<1>5. ConsistentRow(row, admitted[r], held[r])
  <2>1. row.approval # "approved" /\ run[r].status # "absent"
    BY <1>1, <1>3, <1>4 DEF ConsistentRow, Active, InstallerReport
  <2>2. /\ Active(row) => held[r] <= row.leaseUntil
        /\ ~Active(row) => held[r] <= now
    BY <1>1, <1>3, <1>4 DEF ConsistentRow, LeaseRemembered, Active, TERMINAL, IInv,
                              ServerTypeOK, RunRow
  <2> QED BY <1>1, <1>3, <2>1, <2>2, Carried
<1>6. /\ host' \in [Hosts -> [status: RunStatus \cup {"ready"}, blocked: BOOLEAN]]
      /\ \A h \in Hosts :
           host'[h].status = IF h = run[r].host THEN row.status ELSE host[h].status
  BY <1>3, SetHostType DEF InstallerReport, IInv, RunStatus
<1>7. SetRun(r, row) /\ UNCHANGED <<now, latest, admitted, held>>
  BY DEF InstallerReport
<1> QED BY <1>2, <1>3, <1>4, <1>5, <1>6, <1>7, RowStep DEF IInv, ServerTypeOK

\* app.py enroll: from here on the row knows a device.
LEMMA EnrollStep ==
    ASSUME IInv, NEW r \in Runs, NEW k \in Keys, NEW b \in Boots, Enroll(r, k, b)
    PROVE  IInv'
<1> DEFINE row == [run[r] EXCEPT !.key = k, !.boot = b, !.status = "runner_ready",
                                !.version = @ + 1]
<1>1. run[r] \in RunRow /\ ConsistentRow(run[r], admitted[r], held[r])
  BY DEF IInv, ServerTypeOK
<1>2. row \in RunRow
  <2>1. /\ run[r].version + 1 \in Nat /\ "runner_ready" \in RunStatus
        /\ k \in Keys \cup {NoKey} /\ b \in Boots \cup {NoBoot}
    BY <1>1, TimesAssumption, AbsentAssumption DEF IInv, ServerTypeOK, RunRow, RunStatus
  <2> QED BY <1>1, <2>1, Zenon DEF RunRow
<1>3. /\ row.host = run[r].host /\ row.status = "runner_ready" /\ row.approval = run[r].approval
      /\ row.leaseUntil = run[r].leaseUntil /\ row.steps = run[r].steps
  BY <1>1 DEF RunRow
<1>4. Active(run[r])
  BY DEF Enroll, Active, TERMINAL, EnrollAccepted
<1>5. ConsistentRow(row, admitted[r], held[r])
  <2>1. row.approval # "approved" /\ run[r].status # "absent"
    BY <1>1, <1>3, <1>4 DEF ConsistentRow, Active, Enroll, EnrollAccepted
  <2>2. /\ Active(row) => held[r] <= row.leaseUntil
        /\ ~Active(row) => held[r] <= now
    BY <1>1, <1>3, <1>4 DEF ConsistentRow, LeaseRemembered, Active, TERMINAL, IInv,
                              ServerTypeOK, RunRow
  <2> QED BY <1>1, <1>3, <2>1, <2>2, Carried
<1>6. /\ host' \in [Hosts -> [status: RunStatus \cup {"ready"}, blocked: BOOLEAN]]
      /\ \A h \in Hosts :
           host'[h].status = IF h = run[r].host THEN row.status ELSE host[h].status
  BY <1>3, SetHostType DEF Enroll, IInv, RunStatus
<1>7. SetRun(r, row) /\ UNCHANGED <<now, latest, admitted, held>>
  BY DEF Enroll
<1> QED BY <1>2, <1>3, <1>4, <1>5, <1>6, <1>7, RowStep DEF IInv, ServerTypeOK

\* app.py cancel_run: a prepared run ends, any other only takes the request.
LEMMA CancelStep ==
    ASSUME IInv, NEW r \in Runs, CancelRun(r)
    PROVE  IInv'
<1> DEFINE row == CancelledByOperator(run[r])
<1>1. run[r] \in RunRow /\ ConsistentRow(run[r], admitted[r], held[r])
  BY DEF IInv, ServerTypeOK
<1>2. row \in RunRow
  <2>1. run[r].version + 1 \in Nat /\ "cancelled" \in RunStatus
    BY <1>1 DEF RunRow, RunStatus
  <2> QED BY <1>1, <2>1, Zenon DEF RunRow, CancelledByOperator
<1>3. SetRun(r, row) /\ Active(run[r]) /\ UNCHANGED <<now, latest, admitted, held>>
  BY DEF CancelRun
<1>4. CASE run[r].status = "prepared"
  <2>1. /\ row.host = run[r].host /\ row.status = "cancelled" /\ row.approval = "revoked"
        /\ row.steps = run[r].steps
    BY <1>1, <1>4 DEF RunRow, CancelledByOperator
  <2>2. held[r] = 0 /\ ~Active(row)
    BY <1>1, <1>4, <2>1 DEF ConsistentRow, LeaseRemembered, Active, TERMINAL
  <2>3. ConsistentRow(row, admitted[r], held[r])
    BY <1>1, <1>4, <2>1, <2>2, Carried DEF IInv, ServerTypeOK
  <2>4. /\ host' \in [Hosts -> [status: RunStatus \cup {"ready"}, blocked: BOOLEAN]]
        /\ \A h \in Hosts :
             host'[h].status = IF h = run[r].host THEN row.status ELSE host[h].status
    BY <1>4, <2>1, SetHostType DEF CancelRun, IInv, RunStatus
  <2> QED BY <1>2, <1>3, <2>1, <2>3, <2>4, RowStep DEF IInv, ServerTypeOK
<1>5. CASE run[r].status # "prepared"
  <2>1. /\ row.host = run[r].host /\ row.status = run[r].status
        /\ row.approval = run[r].approval /\ row.steps = run[r].steps
        /\ row.leaseUntil = run[r].leaseUntil
    BY <1>1, <1>5 DEF RunRow, CancelledByOperator
  <2>2. run[r].status \notin {"absent", "prepared", "succeeded"} /\ Active(row)
    BY <1>3, <1>5, <2>1 DEF Active, TERMINAL
  <2>3. ConsistentRow(row, admitted[r], held[r])
    BY <1>1, <1>3, <2>1, <2>2, Carried DEF ConsistentRow, LeaseRemembered
  <2> QED BY <1>2, <1>3, <1>5, <2>1, <2>3, QuietStep DEF IInv, ServerTypeOK, CancelRun
<1> QED BY <1>4, <1>5

\* app.py device: a request is let through, its handler has yet to run.
LEMMA DeviceStep ==
    ASSUME IInv, NEW r \in Runs, NEW k \in Keys, Device(r, k)
    PROVE  IInv'
<1>1. ServerTypeOK'
  BY DEF Device, IInv, ServerTypeOK
<1>2. run[r].status \notin {"absent", "prepared"}
  BY AbsentAssumption DEF Device, DeviceOk, IInv, ConsistentRow, DeviceKnown
<1>3. ASSUME NEW q \in Runs
      PROVE  ConsistentRow(run[q], admitted[q], held[q])'
  <2>1. ConsistentRow(run[q], admitted[q], held[q])
    BY DEF IInv
  <2>2. DeviceKnown(run[q], admitted'[q])
    BY <1>2, <2>1 DEF Device, IInv, ServerTypeOK, ConsistentRow, DeviceKnown
  <2> QED BY <2>1, <2>2 DEF Device, ConsistentRow, DeviceKnown, LeaseRemembered, OrderKept,
                            Earned, Active, Settled
<1> QED BY <1>1, <1>3 DEF Device, IInv, LatestOfHost, OneActiveRun, HostMirrorsRun, Active

\* app.py lease: only the answer "run" moves lease_until, and it goes to the device.
LEMMA LeaseStep ==
    ASSUME IInv, NEW r \in Runs, LeaseHandler(r)
    PROVE  IInv'
<1> DEFINE row == [run[r] EXCEPT !.leaseUntil = LeaseGranted(r)]
<1>1. run[r] \in RunRow /\ ConsistentRow(run[r], admitted[r], held[r])
  BY DEF IInv, ServerTypeOK
<1>2. row \in RunRow
  <2>1. LeaseGranted(r) \in Nat
    BY <1>1, TimesAssumption DEF IInv, ServerTypeOK, LeaseGranted, RunRow
  <2> QED BY <1>1, <2>1, Zenon DEF RunRow
<1>3. SetRun(r, row) /\ UNCHANGED <<now, host, latest, admitted>>
  BY DEF LeaseHandler
<1>4. /\ row.host = run[r].host /\ row.status = run[r].status
      /\ row.approval = run[r].approval /\ row.steps = run[r].steps
      /\ row.cancel = run[r].cancel /\ row.key = run[r].key
      /\ row.leaseUntil = LeaseGranted(r)
  BY <1>1 DEF RunRow
<1>5. /\ held' \in [Runs -> Nat] /\ \A q \in Runs : q # r => held'[q] = held[q]
      /\ held'[r] = IF LeaseAction(r) = "run" THEN now + LeaseTime ELSE held[r]
  BY TimesAssumption DEF LeaseHandler, IInv, ServerTypeOK
<1>7. LeaseRemembered(row, held'[r])
  <2>1. CASE LeaseAction(r) = "run"
    <3>1. held'[r] = row.leaseUntil
      BY <1>4, <1>5, <2>1 DEF LeaseGranted
    <3>2. Active(row) /\ row.status \notin {"absent", "prepared"}
      BY <1>4, <2>1 DEF LeaseAction, Active, TERMINAL
    <3> QED BY <1>2, <3>1, <3>2 DEF LeaseRemembered, RunRow
  <2>2. CASE LeaseAction(r) # "run"
    BY <1>1, <1>4, <1>5, <2>2 DEF LeaseGranted, ConsistentRow, LeaseRemembered, Active
  <2> QED BY <2>1, <2>2
<1>6. row.version = run[r].version
  BY <1>1 DEF RunRow
<1>8. ConsistentRow(row, admitted[r], held'[r])
  BY <1>1, <1>4, <1>6, <1>7 DEF ConsistentRow, DeviceKnown, OrderKept, Earned, Settled
<1> QED BY <1>2, <1>3, <1>4, <1>5, <1>8, QuietStep

\* app.py complete: everything is settled, and the device gives its lease up.
LEMMA CompleteStep ==
    ASSUME IInv, NEW r \in Runs, CompleteHandler(r)
    PROVE  IInv'
<1> DEFINE row == [run[r] EXCEPT !.status = "succeeded", !.version = @ + 1,
                                 !.leaseUntil = 0, !.hashes = FALSE, !.completedAt = now]
<1>1. run[r] \in RunRow /\ ConsistentRow(run[r], admitted[r], held[r])
  BY DEF IInv, ServerTypeOK
<1>2. row \in RunRow
  <2>1. /\ run[r].version + 1 \in Nat /\ "succeeded" \in RunStatus
        /\ now \in Nat /\ 0 \in Nat
    BY <1>1 DEF IInv, ServerTypeOK, RunRow, RunStatus
  <2> QED BY <1>1, <2>1, Zenon DEF RunRow
<1>3. /\ row.host = run[r].host /\ row.status = "succeeded"
      /\ row.approval = run[r].approval /\ row.steps = run[r].steps
      /\ row.cancel = run[r].cancel
  BY <1>1 DEF RunRow
<1>4. /\ SetRun(r, row) /\ UNCHANGED <<now, latest, admitted>> /\ Completable(run[r])
      /\ SetHost(r, "succeeded")
  BY DEF CompleteHandler
<1>5. Active(run[r])
  BY <1>4 DEF Completable, Active, TERMINAL
<1>6. held' \in [Runs -> Nat] /\ held'[r] = 0 /\ \A q \in Runs : q # r => held'[q] = held[q]
  BY DEF CompleteHandler, IInv, ServerTypeOK
<1>7. ConsistentRow(row, admitted[r], held'[r])
  <2>1. OrderKept(row)
    BY <1>1, <1>3 DEF ConsistentRow, OrderKept
  <2>2. Earned(row)
    BY <1>3, <1>4 DEF Completable, Earned, Settled
  <2>3. DeviceKnown(row, admitted[r]) /\ LeaseRemembered(row, held'[r])
    BY <1>3, <1>6 DEF DeviceKnown, LeaseRemembered, Active, TERMINAL, IInv, ServerTypeOK
  <2> QED BY <1>1, <1>3, <1>4, <2>1, <2>2, <2>3 DEF ConsistentRow, Completable
<1>8. /\ host' \in [Hosts -> [status: RunStatus \cup {"ready"}, blocked: BOOLEAN]]
      /\ \A h \in Hosts :
           host'[h].status = IF h = run[r].host THEN row.status ELSE host[h].status
  BY <1>3, <1>4, SetHostType DEF IInv, RunStatus
<1> QED BY <1>2, <1>3, <1>4, <1>5, <1>6, <1>7, <1>8, RowStep

\* Leases that have run out stay so.
LEMMA TickStep ==
    ASSUME IInv, Tick
    PROVE  IInv'
<1>1. now' \in Nat /\ now <= now'
  BY DEF Tick, IInv, ServerTypeOK
<1>2. ASSUME NEW r \in Runs
      PROVE  ConsistentRow(run[r], admitted[r], held[r])'
  <2>1. ConsistentRow(run[r], admitted[r], held[r]) /\ held[r] \in Nat /\ now \in Nat
    BY DEF IInv, ServerTypeOK
  <2>2. LeaseRemembered(run[r], held[r])'
    BY <1>1, <2>1 DEF Tick, ConsistentRow, LeaseRemembered, Active
  <2> QED BY <2>1, <2>2 DEF Tick, ConsistentRow, DeviceKnown, OrderKept, Earned, Settled
<1> QED BY <1>1, <1>2 DEF Tick, IInv, ServerTypeOK, LatestOfHost, OneActiveRun, HostMirrorsRun,
                          Active

\* service.maintain: several runs may expire at once, of different hosts.
LEMMA MaintainStep ==
    ASSUME IInv, Maintain
    PROVE  IInv'
<1>1. /\ \A r \in Runs : run[r] \in RunRow /\ ConsistentRow(run[r], admitted[r], held[r])
      /\ \A r \in Runs : run'[r] = IF Expired(run[r]) THEN ExpiredRow(run[r]) ELSE run[r]
  BY DEF Maintain, IInv, ServerTypeOK
<1>2. ASSUME NEW r \in Runs
      PROVE  /\ ExpiredRow(run[r]) \in RunRow
             /\ ExpiredRow(run[r]).status = "expired"
             /\ ExpiredRow(run[r]).approval = "expired"
             /\ ExpiredRow(run[r]).host = run[r].host
             /\ ExpiredRow(run[r]).steps = run[r].steps
  <2>1. run[r] \in RunRow
    BY <1>1
  <2>2. run[r].version + 1 \in Nat /\ "expired" \in RunStatus /\ now \in Nat
    BY <2>1 DEF IInv, ServerTypeOK, RunRow, RunStatus
  <2>3. ExpiredRow(run[r]) \in RunRow
    BY <2>1, <2>2, Zenon DEF RunRow, ExpiredRow
  <2> QED BY <2>1, <2>3 DEF RunRow, ExpiredRow
<1>3. UNCHANGED <<now, latest, admitted, held>>
  BY DEF Maintain
<1>4. ServerTypeOK'
  <2>1. run' \in [Runs -> RunRow]
    BY <1>1, <1>2 DEF Maintain
  <2>2. host' \in [Hosts -> [status: RunStatus \cup {"ready"}, blocked: BOOLEAN]]
    BY DEF Maintain, IInv, ServerTypeOK, RunStatus
  <2> QED BY <1>3, <2>1, <2>2 DEF IInv, ServerTypeOK
<1>5. ASSUME NEW r \in Runs
      PROVE  ConsistentRow(run[r], admitted[r], held[r])'
  <2>1. CASE Expired(run[r])
    <3>1. held[r] = 0 /\ ~Active(ExpiredRow(run[r]))
      BY <1>1, <1>2, <2>1 DEF ConsistentRow, LeaseRemembered, Expired, Active, TERMINAL
    <3>2. ConsistentRow(ExpiredRow(run[r]), admitted[r], held[r])
      BY <1>1, <1>2, <2>1, <3>1, Carried DEF Expired, IInv, ServerTypeOK
    <3> QED BY <1>1, <1>3, <2>1, <3>2
            DEF ConsistentRow, DeviceKnown, LeaseRemembered, OrderKept, Earned, Active, Settled
  <2>2. CASE ~Expired(run[r])
    BY <1>1, <1>3, <2>2
    DEF ConsistentRow, DeviceKnown, LeaseRemembered, OrderKept, Earned, Active, Settled
  <2> QED BY <2>1, <2>2
<1>6. LatestOfHost'
  BY <1>1, <1>2, <1>3 DEF IInv, LatestOfHost, ServerTypeOK
<1>7. OneActiveRun'
  <2> SUFFICES ASSUME NEW r \in Runs, Active(run'[r])
               PROVE  latest[run'[r].host] = r
    BY <1>3 DEF OneActiveRun, Active
  <2>1. run'[r] = run[r]
    BY <1>1, <1>2 DEF Active, TERMINAL
  <2> QED BY <2>1 DEF IInv, OneActiveRun
<1>8. HostMirrorsRun'
  <2> SUFFICES ASSUME NEW h \in Hosts
               PROVE  host'[h].status =
                        IF latest[h] = NoRun THEN "ready" ELSE run'[latest[h]].status
    BY <1>3 DEF HostMirrorsRun
  <2>1. CASE \E r \in Runs : run[r].host = h /\ Expired(run[r])
    <3>1. PICK r \in Runs : run[r].host = h /\ Expired(run[r])
      BY <2>1
    <3>2. latest[h] = r /\ r # NoRun
      BY <3>1, AbsentAssumption DEF IInv, OneActiveRun, Expired, Active, TERMINAL
    <3>3. host'[h].status = "expired"
      BY <2>1 DEF Maintain, IInv, ServerTypeOK
    <3> QED BY <1>1, <1>2, <3>1, <3>2, <3>3
  <2>2. CASE ~\E r \in Runs : run[r].host = h /\ Expired(run[r])
    <3>1. host'[h].status = host[h].status
      BY <2>2 DEF Maintain
    <3>2. latest[h] # NoRun => run'[latest[h]] = run[latest[h]]
      BY <1>1, <2>2 DEF IInv, LatestOfHost, ServerTypeOK
    <3> QED BY <3>1, <3>2 DEF IInv, HostMirrorsRun
  <2> QED BY <2>1, <2>2
<1> QED BY <1>4, <1>5, <1>6, <1>7, <1>8 DEF IInv

-----------------------------------------------------------------------------
(* Events *)

\* An event names a step of the manifest where it is about one, and the boot where it
\* tells of a reboot.
Fits(e) ==
    /\ e.type \in EventTypes
    /\ e.type \in StepEvents => e.step \in Steps
    /\ e.type \in {"run.reboot_pending", "run.resumed"} => e.boot \in Boots

\* The events that are not about a step leave the steps, the key and the host alone.
LEMMA RunEventRow ==
    ASSUME ServerTypeOK, NEW row \in RunRow, NEW e,
           e.type \in {"run.needs_review", "run.reboot_pending", "run.resumed", "run.cancelled"},
           Fits(e)
    PROVE  /\ AfterEvent(row, e) \in RunRow
           /\ AfterEvent(row, e).host = row.host /\ AfterEvent(row, e).steps = row.steps
           /\ AfterEvent(row, e).approval = row.approval
           /\ AfterEvent(row, e).status = StatusAfter(row, e)
           /\ e.type # "run.cancelled" => AfterEvent(row, e).leaseUntil = row.leaseUntil
<1>1. /\ row.version + 1 \in Nat /\ row.reboots + 1 \in Nat /\ now \in Nat /\ 0 \in Nat
      /\ e.type \in {"run.reboot_pending", "run.resumed"} => e.boot \in Boots \cup {NoBoot}
  BY DEF RunRow, ServerTypeOK, Fits
<1>2. StatusAfter(row, e) \in RunStatus
  BY DEF StatusAfter, RunStatus
<1>3. CASE e.type = "run.needs_review"
  <2>1. AfterEvent(row, e) = [row EXCEPT !.status = StatusAfter(row, e), !.version = @ + 1]
    BY <1>3 DEF AfterEvent, StepEvents
  <2>2. AfterEvent(row, e) \in RunRow
    BY <1>1, <1>2, <2>1, Zenon DEF RunRow
  <2> QED BY <2>1, <2>2 DEF RunRow
<1>4. CASE e.type = "run.reboot_pending"
  <2>1. AfterEvent(row, e) = [row EXCEPT !.status = StatusAfter(row, e), !.version = @ + 1,
                                         !.reboots = @ + 1, !.boot = e.boot]
    BY <1>4 DEF AfterEvent, StepEvents
  <2>2. e.boot \in Boots \cup {NoBoot}
    BY <1>1, <1>4
  <2>3. AfterEvent(row, e) \in RunRow
    BY <1>1, <1>2, <2>1, <2>2, Zenon DEF RunRow
  <2> QED BY <2>1, <2>3 DEF RunRow
<1>5. CASE e.type = "run.resumed"
  <2>1. AfterEvent(row, e) = [row EXCEPT !.status = StatusAfter(row, e), !.version = @ + 1,
                                         !.boot = e.boot]
    BY <1>5 DEF AfterEvent, StepEvents
  <2>2. e.boot \in Boots \cup {NoBoot}
    BY <1>1, <1>5
  <2>3. AfterEvent(row, e) \in RunRow
    BY <1>1, <1>2, <2>1, <2>2, Zenon DEF RunRow
  <2> QED BY <2>1, <2>3 DEF RunRow
<1>6. CASE e.type = "run.cancelled"
  <2>1. AfterEvent(row, e) = [row EXCEPT !.status = StatusAfter(row, e), !.version = @ + 1,
                                         !.leaseUntil = 0, !.hashes = FALSE,
                                         !.completedAt = now]
    BY <1>6 DEF AfterEvent, StepEvents
  <2>2. AfterEvent(row, e) \in RunRow
    BY <1>1, <1>2, <2>1, Zenon DEF RunRow
  <2> QED BY <1>6, <2>1, <2>2 DEF RunRow
<1> QED BY <1>3, <1>4, <1>5, <1>6

\* What a step event leaves of the row (app.py apply_event).
LEMMA StepEventRow ==
    ASSUME ServerTypeOK, NEW row \in RunRow, NEW e, NEW blocked,
           e.type \in StepEvents, e.step \in Steps, StepEventOk(row, blocked, e)
    PROVE  /\ AfterEvent(row, e) \in RunRow
           /\ AfterEvent(row, e).host = row.host
           /\ AfterEvent(row, e).approval = row.approval
           /\ AfterEvent(row, e).leaseUntil = row.leaseUntil
           /\ AfterEvent(row, e).status \in {"runner_ready", "running", "needs_review"}
           /\ AfterEvent(row, e).steps = [row.steps EXCEPT ![e.step] = StepAfter(e)]
<1>1. /\ row.version + 1 \in Nat
      /\ [row.steps EXCEPT ![e.step] = StepAfter(e)] \in [Steps -> StepStatus]
  BY DEF RunRow, StepAfter, StepStatus
<1>2. StatusAfter(row, e) \in {"runner_ready", "running", "needs_review"}
  BY DEF StatusAfter, StepEvents, StepEventOk
<1>3. StatusAfter(row, e) \in RunStatus
  BY <1>2 DEF RunStatus
<1>4. AfterEvent(row, e) = [row EXCEPT !.status = StatusAfter(row, e), !.version = @ + 1,
                                       !.steps[e.step] = StepAfter(e)]
  BY DEF AfterEvent, StepEvents
<1>5. AfterEvent(row, e) \in RunRow
  BY <1>1, <1>3, <1>4, Zenon DEF RunRow
<1> QED BY <1>2, <1>4, <1>5 DEF RunRow

\* A step event keeps the order of the steps: the step was reached, and a step that has
\* succeeded, on which others may rest, takes no event any more.
LEMMA StepEventOrder ==
    ASSUME NEW row \in RunRow, NEW e, NEW blocked, OrderKept(row),
           e.type \in StepEvents, e.step \in Steps, StepEventOk(row, blocked, e)
    PROVE  OrderKept([row EXCEPT !.steps = [row.steps EXCEPT ![e.step] = StepAfter(e)]])
<1> DEFINE s == e.step
           steps == [row.steps EXCEPT ![s] = StepAfter(e)]
           new == [row EXCEPT !.steps = steps]
<1>1. new.steps = steps /\ \A q \in Steps : q # s => steps[q] = row.steps[q]
  BY DEF RunRow
<1>2. row.steps[s] # "succeeded" /\ StepReached(row, s)
  BY DEF StepEventOk
<1>3. Required \subseteq Steps /\ \A q \in Steps : DependsOn[q] \subseteq Steps
  BY StepsAssumption
<1>4. ASSUME NEW q \in Steps, steps[q] # "pending"
      PROVE  /\ \A p \in Required : p < q => steps[p] = "succeeded"
             /\ \A d \in DependsOn[q] : steps[d] = "succeeded"
  <2>1. CASE q = s
    <3>1. ASSUME NEW p \in Required, p < q
          PROVE  row.steps[p] = "succeeded"
      <4>1. p \in 1..(s - 1)
        BY <1>3, <2>1, <3>1, StepsAssumption DEF Steps
      <4> QED BY <1>2, <4>1 DEF StepReached, Settled
    <3>2. \A d \in DependsOn[q] : row.steps[d] = "succeeded"
      BY <1>2, <2>1 DEF StepReached
    <3> QED BY <1>1, <1>2, <1>3, <3>1, <3>2
  <2>2. CASE q # s
    <3>1. /\ \A p \in Required : p < q => row.steps[p] = "succeeded"
          /\ \A d \in DependsOn[q] : row.steps[d] = "succeeded"
      BY <1>1, <1>4, <2>2 DEF OrderKept
    <3> QED BY <1>1, <1>2, <1>3, <3>1
  <2> QED BY <2>1, <2>2
<1>5. \A q \in Steps : new.steps[q] = steps[q]
  BY <1>1
<1>6. \A p \in Required : p \in Steps
  BY <1>3
<1> HIDE DEF new, steps
<1>7. OrderKept(new)
  BY <1>3, <1>4, <1>5, <1>6 DEF OrderKept
<1> QED BY <1>7 DEF new, steps

\* apply_event: an event that is not refused keeps the row of an installed run consistent,
\* with the lease its device still holds.
LEMMA EventRow ==
    ASSUME ServerTypeOK, NEW row \in RunRow, NEW e, NEW blocked, NEW keys, NEW expiry \in Nat,
           Fits(e), EventOk(row, blocked, e), row.status # "prepared",
           ConsistentRow(row, keys, expiry)
    PROVE  /\ AfterEvent(row, e) \in RunRow
           /\ AfterEvent(row, e).host = row.host
           /\ AfterEvent(row, e).status = StatusAfter(row, e)
           /\ AfterEvent(row, e).status \notin {"absent", "prepared", "succeeded"}
           /\ AfterEvent(row, e).status = "cancelled" <=> e.type = "run.cancelled"
           /\ ConsistentRow(AfterEvent(row, e), keys, HeldAfter(e, expiry))
<1> DEFINE new == AfterEvent(row, e)
<1>1. Active(row)
  BY DEF EventOk
<1>2. row.status \notin {"absent", "prepared", "succeeded", "cancelled"}
  BY <1>1 DEF Active, TERMINAL
<1>3. row.approval # "approved" /\ expiry <= row.leaseUntil /\ now \in Nat
  BY <1>1, <1>2 DEF ConsistentRow, LeaseRemembered, ServerTypeOK
<1>4. CASE e.type = "heartbeat"
  <2>1. new = row /\ HeldAfter(e, expiry) = expiry /\ StatusAfter(row, e) = row.status
    BY <1>4 DEF AfterEvent, StepEvents, HeldAfter, StatusAfter
  <2> QED BY <1>2, <1>4, <2>1
<1>5. CASE e.type \in {"run.needs_review", "run.reboot_pending", "run.resumed", "run.cancelled"}
  <2>1. /\ new \in RunRow /\ new.host = row.host /\ new.steps = row.steps
        /\ new.approval = row.approval /\ new.status = StatusAfter(row, e)
        /\ e.type # "run.cancelled" => new.leaseUntil = row.leaseUntil
    BY <1>5, RunEventRow
  <2>2. /\ new.status \in {"needs_review", "reboot_pending", "runner_ready", "cancelled"}
        /\ new.status = "cancelled" <=> e.type = "run.cancelled"
    BY <1>5, <2>1 DEF StatusAfter
  <2>3. Active(new) <=> e.type # "run.cancelled"
    BY <2>2 DEF Active, TERMINAL
  <2>4. ConsistentRow(new, keys, HeldAfter(e, expiry))
    <3>1. CASE e.type = "run.cancelled"
      BY <1>2, <1>3, <2>1, <2>2, <2>3, <3>1, CancelledCarried DEF HeldAfter
    <3>2. CASE e.type # "run.cancelled"
      BY <1>2, <1>3, <2>1, <2>2, <2>3, <3>2, Carried DEF HeldAfter
    <3> QED BY <3>1, <3>2
  <2> QED BY <2>1, <2>2, <2>4
<1>6. CASE e.type \in StepEvents
  <2>1. StepEventOk(row, blocked, e) /\ e.step \in Steps
    BY <1>6 DEF EventOk, StepEvents, Fits
  <2>2. /\ new \in RunRow /\ new.host = row.host /\ new.approval = row.approval
        /\ new.leaseUntil = row.leaseUntil
        /\ new.status \in {"runner_ready", "running", "needs_review"}
        /\ new.steps = [row.steps EXCEPT ![e.step] = StepAfter(e)]
    BY <1>6, <2>1, StepEventRow
  <2>3. OrderKept(new)
    <3>1. OrderKept([row EXCEPT !.steps = [row.steps EXCEPT ![e.step] = StepAfter(e)]])
      BY <1>6, <2>1, StepEventOrder DEF ConsistentRow
    <3>2. [row EXCEPT !.steps = new.steps].steps = new.steps
      BY DEF RunRow
    <3> QED BY <2>2, <3>1, <3>2 DEF OrderKept
  <2>4. Active(new) /\ HeldAfter(e, expiry) = expiry /\ e.type # "run.cancelled"
    BY <1>6, <2>2 DEF Active, TERMINAL, StepEvents, HeldAfter
  <2>5. LeaseRemembered(new, expiry)
    BY <1>3, <2>2, <2>4 DEF LeaseRemembered
  <2>6. ConsistentRow(new, keys, expiry)
    BY <1>2, <1>3, <2>2, <2>3, <2>5 DEF ConsistentRow, DeviceKnown, Earned
  <2>7. StatusAfter(row, e) = new.status
    BY <1>6 DEF AfterEvent, StepEvents, RunRow
  <2> QED BY <2>2, <2>4, <2>6, <2>7
<1> QED BY <1>4, <1>5, <1>6 DEF EventTypes, StepEvents, Fits

\* app.py events and apply_event, one new event.
LEMMA ReportEventStep ==
    ASSUME IInv, NEW r \in Runs, NEW k \in Keys, NEW e, Fits(e), ReportEvent(r, k, e)
    PROVE  IInv'
<1> DEFINE row == AfterEvent(run[r], e)
<1>1. run[r] \in RunRow /\ ConsistentRow(run[r], admitted[r], held[r]) /\ held[r] \in Nat
  BY DEF IInv, ServerTypeOK
<1>2. /\ SetRun(r, row) /\ UNCHANGED <<now, latest, admitted>>
      /\ Active(run[r]) /\ EventOk(run[r], Blocked(r), e)
  BY DEF ReportEvent, EventOk
<1>3. run[r].status # "prepared"
  BY <1>1 DEF ReportEvent, ConsistentRow, DeviceKnown
<1>4. /\ row \in RunRow /\ row.host = run[r].host /\ row.status = StatusAfter(run[r], e)
      /\ row.status # "absent" /\ ConsistentRow(row, admitted[r], HeldAfter(e, held[r]))
  BY <1>1, <1>2, <1>3, EventRow DEF IInv
<1>5. /\ held' \in [Runs -> Nat] /\ \A q \in Runs : q # r => held'[q] = held[q]
      /\ held'[r] = HeldAfter(e, held[r])
  BY DEF ReportEvent, HeldAfter, IInv, ServerTypeOK
<1>6. CASE e.type = "heartbeat"
  <2>1. row.status = run[r].status
    BY <1>4, <1>6 DEF StatusAfter
  <2>2. host' = host
    BY <1>6 DEF ReportEvent
  <2> QED BY <1>2, <1>4, <1>5, <2>1, <2>2, QuietStep
<1>7. CASE e.type # "heartbeat"
  <2>1. SetHost(r, row.status) /\ row.status \in RunStatus
    BY <1>4, <1>7 DEF ReportEvent, RunRow
  <2>2. /\ host' \in [Hosts -> [status: RunStatus \cup {"ready"}, blocked: BOOLEAN]]
        /\ \A h \in Hosts :
             host'[h].status = IF h = run[r].host THEN row.status ELSE host[h].status
    BY <2>1, SetHostType DEF IInv
  <2> QED BY <1>2, <1>4, <1>5, <2>2, RowStep
<1> QED BY <1>6, <1>7
-----------------------------------------------------------------------------
(* The theorems *)

\* Every step keeps the invariant.
LEMMA NextHolds == IInv /\ [ServerNext]_serverVars => IInv'
<1> SUFFICES ASSUME IInv, [ServerNext]_serverVars PROVE IInv'
  OBVIOUS
<1>1. ASSUME NEW h \in Hosts, UpdateHost(h) PROVE IInv'
  BY <1>1, UpdateHostStep
<1>2. ASSUME NEW h \in Hosts, NEW r \in Runs, Approve(h, r) PROVE IInv'
  BY <1>2, ApproveStep
<1>3. ASSUME NEW r \in Runs, CancelRun(r) \/ ResumeRun(r) \/ ReconcileRun(r) PROVE IInv'
  BY <1>3, CancelStep, ResumeStep, ReconcileStep
<1>4. ASSUME NEW r \in Runs, ServeAnswer(r) \/ InstallerReport(r) PROVE IInv'
  BY <1>4, ServeAnswerStep, InstallerReportStep
<1>5. ASSUME NEW r \in Runs, NEW k \in Keys, Device(r, k) \/ Lease(r, k) \/ Complete(r, k)
      PROVE  IInv'
  BY <1>5, DeviceStep, LeaseStep, CompleteStep DEF Lease, Complete
<1>6. ASSUME NEW r \in Runs, NEW k \in Keys, NEW b \in Boots, Enroll(r, k, b) PROVE IInv'
  BY <1>6, EnrollStep
<1>7. ASSUME NEW r \in Runs, NEW k \in Keys, NEW t \in EventTypes, NEW s \in Steps,
             NEW b \in Boots, ReportEvent(r, k, Event(t, s, b))
      PROVE  IInv'
  <2> DEFINE e == Event(t, s, b)
  <2>1. e.type = t /\ e.step = s /\ e.boot = b
    BY DEF Event
  <2> HIDE DEF e
  <2>2. ReportEvent(r, k, e)
    BY <1>7 DEF e
  <2>3. Fits(e)
    BY <2>1 DEF Fits
  <2> QED BY <2>2, <2>3, ReportEventStep
<1>8. CASE Maintain
  BY <1>8, MaintainStep
<1>9. CASE Tick
  BY <1>9, TickStep
<1>10. CASE UNCHANGED serverVars
  <2>1. UNCHANGED <<now, host, latest, run, admitted, held>>
    BY <1>10 DEF serverVars
  <2> QED BY <2>1 DEF IInv, ServerTypeOK, ConsistentRow, DeviceKnown, LeaseRemembered,
                      OrderKept, Earned, LatestOfHost, OneActiveRun, HostMirrorsRun, Active,
                      Settled
<1> QED BY <1>1, <1>2, <1>3, <1>4, <1>5, <1>6, <1>7, <1>8, <1>9, <1>10
        DEF ServerNext, Operator, Installer, Machine

\* The strengthened invariant holds in every reachable state, whatever requests come in
\* which order and however late the handler of an admitted request runs.
THEOREM InvariantHolds == ServerSpec => []IInv
<1>1. ServerInit => IInv
  BY InitHolds
<1>2. IInv /\ [ServerNext]_serverVars => IInv'
  BY NextHolds
<1> QED BY <1>1, <1>2, PTL DEF ServerSpec

\* Every handler writes values of the columns' types only (db.py SCHEMA).
THEOREM TypeCorrect == ServerSpec => []ServerTypeOK
<1>1. IInv => ServerTypeOK
  BY DEF IInv
<1> QED BY <1>1, InvariantHolds, PTL

\* The permission to erase a disk is open exactly while its run is prepared: the seven
\* handlers that write approvals.status and runs.status keep the two tables together.
THEOREM ApprovalFollowsRun == ServerSpec => []ApprovalMatchesRun
<1>1. IInv => ApprovalMatchesRun
  BY DEF IInv, ConsistentRow, ApprovalMatchesRun
<1> QED BY <1>1, InvariantHolds, PTL

\* However runs are approved, cancelled and reconciled, a host has one active run at
\* most and the installer is answered for that one (service.approve, serve_answer).
THEOREM ActiveRunIsLatest == ServerSpec => []OneActiveRun
<1>1. IInv => OneActiveRun
  BY DEF IInv
<1> QED BY <1>1, InvariantHolds, PTL

\* hosts.status never drifts from the latest run's status, although twelve handlers
\* write the two columns in two statements and requests of older runs may come late.
THEOREM HostFollowsRun == ServerSpec => []HostMirrorsRun
<1>1. IInv => HostMirrorsRun
  BY DEF IInv
<1> QED BY <1>1, InvariantHolds, PTL

\* Two devices never hold an execution lease for the same host at the same time: the
\* lease endpoint and the gate of reconcile exclude it together (app.py lease,
\* reconcile_run), for any lease time and any number of runs.
THEOREM LeasesExclude == ServerSpec => []OneLeaseHolder
<1>1. IInv => OneLeaseHolder
  <2> SUFFICES ASSUME IInv, NEW r \in Runs, NEW q \in Runs,
                      run[r].host = run[q].host, held[r] > now, held[q] > now
               PROVE  r = q
    BY DEF OneLeaseHolder
  <2>1. ASSUME NEW p \in Runs, held[p] > now
        PROVE  Active(run[p])
    <3>1. LeaseRemembered(run[p], held[p])
      BY DEF IInv, ConsistentRow
    <3>2. held[p] \in Nat /\ now \in Nat
      BY DEF IInv, ServerTypeOK
    <3> QED BY <2>1, <3>1, <3>2 DEF LeaseRemembered
  <2>2. latest[run[r].host] = r /\ latest[run[q].host] = q
    BY <2>1 DEF IInv, OneActiveRun
  <2> QED BY <2>2
<1> QED BY <1>1, InvariantHolds, PTL

\* Steps go in manifest order and after what they depend on, whatever the device sends:
\* the checks of apply_event suffice without the runner's cooperation.
THEOREM StepsInOrder == ServerSpec => []StepOrder
<1>1. IInv => StepOrder
  BY DEF IInv, ConsistentRow, OrderKept, StepOrder
<1> QED BY <1>1, InvariantHolds, PTL

\* A run recorded as succeeded was never asked to stop and every step of it is settled:
\* nothing reopens a step or requests a cancellation after the completion.
THEOREM SuccessEarned == ServerSpec => []SuccessIsEarned
<1>1. IInv => SuccessIsEarned
  BY DEF IInv, ConsistentRow, Earned, SuccessIsEarned
<1> QED BY <1>1, InvariantHolds, PTL
-----------------------------------------------------------------------------
(* What a step may do to a row *)

\* The three action properties, for one row.
Frozen(old, new) == old.status \in TERMINAL => new = old

Stopped(old, new) ==
    old.cancel =>
        /\ new.cancel
        /\ new.leaseUntil <= old.leaseUntil
        /\ new.status = "succeeded" => old.status = "succeeded"
        /\ \A s \in Steps : new.steps[s] = "applying" => old.steps[s] = "applying"

Counted(old, new) ==
    [new EXCEPT !.leaseUntil = 0] # [old EXCEPT !.leaseUntil = 0] => new.version > old.version

RowMove(old, new) == Frozen(old, new) /\ Stopped(old, new) /\ Counted(old, new)

\* A row that stays as it is.
LEMMA RowUnmoved ==
    ASSUME NEW row \in RunRow PROVE RowMove(row, row)
BY DEF RowMove, Frozen, Stopped, Counted, RunRow

\* Whatever counts the version of a row that is not terminal up, takes no request to
\* stop back and, where there is one, extends no lease, starts no step and completes
\* nothing, is allowed.
LEMMA RowMoved ==
    ASSUME NEW old \in RunRow, NEW new, old.status \notin TERMINAL, new.version > old.version,
           old.cancel => /\ new.cancel
                         /\ new.leaseUntil <= old.leaseUntil
                         /\ new.status # "succeeded"
                         /\ \A s \in Steps :
                              new.steps[s] = "applying" => old.steps[s] = "applying"
    PROVE  RowMove(old, new)
BY DEF RowMove, Frozen, Stopped, Counted

\* A handler that replaces one row moves no other.
LEMMA OneRowMoves ==
    ASSUME ServerTypeOK, NEW r \in Runs, NEW row, run' = [run EXCEPT ![r] = row],
           RowMove(run[r], row)
    PROVE  \A q \in Runs : RowMove(run[q], run'[q])
<1> SUFFICES ASSUME NEW q \in Runs PROVE RowMove(run[q], run'[q])
  OBVIOUS
<1>1. CASE q = r
  BY <1>1 DEF ServerTypeOK
<1>2. CASE q # r
  <2>1. run'[q] = run[q] /\ run[q] \in RunRow
    BY <1>2 DEF ServerTypeOK
  <2> QED BY <2>1, RowUnmoved
<1> QED BY <1>1, <1>2

\* The operator's handlers (service.approve, app.py cancel_run, resume_run, reconcile_run).
LEMMA OperatorMoves ==
    ASSUME IInv, NEW r \in Runs,
           \/ \E h \in Hosts : Approve(h, r)
           \/ CancelRun(r) \/ ResumeRun(r) \/ ReconcileRun(r)
    PROVE  \A q \in Runs : RowMove(run[q], run'[q])
<1>1. /\ run[r] \in RunRow /\ ConsistentRow(run[r], admitted[r], held[r]) /\ ServerTypeOK
  BY DEF IInv, ServerTypeOK
<1>2. ASSUME NEW h \in Hosts, Approve(h, r)
      PROVE  \A q \in Runs : RowMove(run[q], run'[q])
  <2>1. run' = [run EXCEPT ![r] = ApprovedRow(h)]
    BY <1>2 DEF Approve, SetRun
  <2>2. ApprovedRow(h).version = 1
    BY DEF ApprovedRow, AbsentRow
  <2>3. ~run[r].cancel /\ run[r].version = 0 /\ run[r].status \notin TERMINAL
    BY <1>1, <1>2 DEF Approve, ConsistentRow, TERMINAL
  <2>4. ApprovedRow(h).version > run[r].version
    BY <2>2, <2>3
  <2>5. RowMove(run[r], ApprovedRow(h))
    BY <1>1, <2>3, <2>4, RowMoved
  <2> QED BY <1>1, <2>1, <2>5, OneRowMoves
<1>3. CASE CancelRun(r)
  <2> DEFINE row == CancelledByOperator(run[r])
  <2>1. run' = [run EXCEPT ![r] = row] /\ run[r].status \notin TERMINAL
    BY <1>3 DEF CancelRun, SetRun, Active
  <2>2. /\ row.version > run[r].version /\ row.cancel
        /\ row.leaseUntil <= run[r].leaseUntil /\ row.steps = run[r].steps
        /\ row.status \in {run[r].status, "cancelled"}
    BY <1>1 DEF CancelledByOperator, RunRow
  <2>3. row.status # "succeeded"
    BY <2>1, <2>2 DEF TERMINAL
  <2> QED BY <1>1, <2>1, <2>2, <2>3, RowMoved, OneRowMoves
<1>4. CASE ResumeRun(r)
  <2> DEFINE row == [run[r] EXCEPT !.status = "runner_ready", !.version = @ + 1]
  <2>1. run' = [run EXCEPT ![r] = row] /\ run[r].status \notin TERMINAL /\ ~run[r].cancel
    BY <1>4 DEF ResumeRun, SetRun, TERMINAL
  <2>2. row.version > run[r].version
    BY <1>1 DEF RunRow
  <2> QED BY <1>1, <2>1, <2>2, RowMoved, OneRowMoves
<1>5. CASE ReconcileRun(r)
  <2> DEFINE row == [run[r] EXCEPT !.status = "cancelled", !.version = @ + 1,
                                !.cancel = TRUE, !.key = NoKey, !.hashes = FALSE,
                                !.leaseUntil = 0, !.approval = "revoked",
                                !.completedAt = now]
  <2>1. run' = [run EXCEPT ![r] = row] /\ run[r].status \notin TERMINAL
    BY <1>5 DEF ReconcileRun, SetRun, Active
  <2>2. /\ row.version > run[r].version /\ row.cancel /\ row.status = "cancelled"
        /\ row.leaseUntil <= run[r].leaseUntil /\ row.steps = run[r].steps
    BY <1>1 DEF RunRow
  <2> QED BY <1>1, <2>1, <2>2, RowMoved, OneRowMoves
<1> QED BY <1>2, <1>3, <1>4, <1>5

\* The installer's and the device's handlers; lease is the one that counts no version up.
LEMMA MachineMoves ==
    ASSUME IInv, NEW r \in Runs, NEW k, NEW b,
           \/ ServeAnswer(r) \/ InstallerReport(r) \/ Device(r, k) \/ LeaseHandler(r)
           \/ CompleteHandler(r) \/ Enroll(r, k, b)
    PROVE  \A q \in Runs : RowMove(run[q], run'[q])
<1>1. run[r] \in RunRow /\ ServerTypeOK
  BY DEF IInv, ServerTypeOK
<1>2. CASE ServeAnswer(r)
  <2> DEFINE row == [run[r] EXCEPT !.status = "answer_served", !.version = @ + 1,
                                   !.hashes = TRUE, !.approval = "consumed",
                                   !.answerUntil = now + AnswerWindow,
                                   !.enrollUntil = now + EnrollTime]
  <2>1. run' = [run EXCEPT ![r] = row] /\ run[r].status \notin TERMINAL /\ ~run[r].cancel
    BY <1>2 DEF ServeAnswer, AnswerDue, ApprovalOpen, SetRun, TERMINAL
  <2>2. row.version > run[r].version
    BY <1>1 DEF RunRow
  <2> QED BY <1>1, <2>1, <2>2, RowMoved, OneRowMoves
<1>3. CASE InstallerReport(r)
  <2> DEFINE row == [run[r] EXCEPT !.status = "installed_reported", !.version = @ + 1]
  <2>1. run' = [run EXCEPT ![r] = row] /\ run[r].status \notin TERMINAL
    BY <1>3 DEF InstallerReport, SetRun, TERMINAL
  <2>2. /\ row.version > run[r].version /\ row.cancel = run[r].cancel
        /\ row.leaseUntil <= run[r].leaseUntil /\ row.steps = run[r].steps
        /\ row.status # "succeeded"
    BY <1>1 DEF RunRow
  <2> QED BY <1>1, <2>1, <2>2, RowMoved, OneRowMoves
<1>4. CASE Device(r, k)
  BY <1>1, <1>4, RowUnmoved DEF Device, ServerTypeOK
<1>5. CASE LeaseHandler(r)
  <2> DEFINE row == [run[r] EXCEPT !.leaseUntil = LeaseGranted(r)]
  <2>1. run' = [run EXCEPT ![r] = row]
    BY <1>5 DEF LeaseHandler, SetRun
  <2>2. /\ row.cancel = run[r].cancel /\ row.status = run[r].status
        /\ row.steps = run[r].steps /\ row.leaseUntil = LeaseGranted(r)
    BY <1>1 DEF RunRow
  <2>3. /\ run[r].cancel \/ run[r].status \in TERMINAL => LeaseGranted(r) = run[r].leaseUntil
        /\ run[r].leaseUntil \in Nat
    BY <1>1 DEF LeaseGranted, LeaseAction, TERMINAL, RunRow
  <2>4. Frozen(run[r], row)
    <3>1. ASSUME run[r].status \in TERMINAL PROVE row = run[r]
      BY <1>1, <2>3, <3>1 DEF RunRow
    <3> QED BY <3>1 DEF Frozen
  <2>5. Stopped(run[r], row)
    BY <1>1, <2>2, <2>3 DEF Stopped
  <2>6. Counted(run[r], row)
    <3>1. [row EXCEPT !.leaseUntil = 0] = [run[r] EXCEPT !.leaseUntil = 0]
      BY <1>1 DEF RunRow
    <3> QED BY <3>1 DEF Counted
  <2> QED BY <1>1, <2>1, <2>4, <2>5, <2>6, OneRowMoves DEF RowMove
<1>6. CASE CompleteHandler(r)
  <2> DEFINE row == [run[r] EXCEPT !.status = "succeeded", !.version = @ + 1,
                                   !.leaseUntil = 0, !.hashes = FALSE, !.completedAt = now]
  <2>1. run' = [run EXCEPT ![r] = row] /\ run[r].status \notin TERMINAL /\ ~run[r].cancel
    BY <1>6 DEF CompleteHandler, Completable, SetRun, TERMINAL
  <2>2. row.version > run[r].version
    BY <1>1 DEF RunRow
  <2> QED BY <1>1, <2>1, <2>2, RowMoved, OneRowMoves
<1>7. CASE Enroll(r, k, b)
  <2> DEFINE row == [run[r] EXCEPT !.key = k, !.boot = b, !.status = "runner_ready",
                                   !.version = @ + 1]
  <2>1. run' = [run EXCEPT ![r] = row] /\ run[r].status \notin TERMINAL /\ ~run[r].cancel
    BY <1>7 DEF Enroll, EnrollAccepted, Active, SetRun
  <2>2. row.version > run[r].version
    BY <1>1 DEF RunRow
  <2> QED BY <1>1, <2>1, <2>2, RowMoved, OneRowMoves
<1> QED BY <1>2, <1>3, <1>4, <1>5, <1>6, <1>7

\* A request to stop is honoured by every event: only step.started makes a step
\* "applying", and it is refused; no event completes a run or moves its lease on.
LEMMA EventMoves ==
    ASSUME IInv, NEW r \in Runs, NEW k \in Keys, NEW e, Fits(e), ReportEvent(r, k, e)
    PROVE  \A q \in Runs : RowMove(run[q], run'[q])
<1> DEFINE row == AfterEvent(run[r], e)
<1>1. run[r] \in RunRow /\ ServerTypeOK
  BY DEF IInv, ServerTypeOK
<1>2. /\ run' = [run EXCEPT ![r] = row]
      /\ run[r].status \notin TERMINAL
  BY DEF ReportEvent, EventOk, Active, SetRun
<1>3. CASE e.type = "heartbeat"
  <2>1. row = run[r]
    BY <1>3 DEF AfterEvent, StepEvents
  <2> QED BY <1>1, <1>2, <2>1, RowUnmoved, OneRowMoves
<1>4. CASE e.type \in {"run.needs_review", "run.reboot_pending", "run.resumed", "run.cancelled"}
  <2>1. row.steps = run[r].steps /\ row.status = StatusAfter(run[r], e)
    BY <1>1, <1>4, RunEventRow
  <2>2. row.status # "succeeded"
    BY <1>4, <2>1 DEF StatusAfter
  <2>3. /\ row.version > run[r].version /\ row.cancel = run[r].cancel
        /\ row.leaseUntil <= run[r].leaseUntil
    BY <1>1, <1>4 DEF AfterEvent, StepEvents, RunRow
  <2> QED BY <1>1, <1>2, <2>1, <2>2, <2>3, RowMoved, OneRowMoves
<1>5. CASE e.type \in StepEvents
  <2>1. StepEventOk(run[r], Blocked(r), e) /\ e.step \in Steps
    BY <1>5 DEF ReportEvent, EventOk, StepEvents, Fits
  <2>2. /\ row.leaseUntil = run[r].leaseUntil
        /\ row.status \in {"runner_ready", "running", "needs_review"}
        /\ row.steps = [run[r].steps EXCEPT ![e.step] = StepAfter(e)]
    BY <1>1, <1>5, <2>1, StepEventRow
  <2>3. row.version > run[r].version /\ row.cancel = run[r].cancel
    BY <1>1, <1>5 DEF AfterEvent, RunRow
  <2>4. run[r].cancel => \A s \in Steps :
          row.steps[s] = "applying" => run[r].steps[s] = "applying"
    <3> SUFFICES ASSUME run[r].cancel, NEW s \in Steps, row.steps[s] = "applying"
                 PROVE  run[r].steps[s] = "applying"
      OBVIOUS
    <3>1. StepAfter(e) # "applying"
      BY <1>5, <2>1 DEF StepEventOk, StepAfter, StepEvents
    <3> QED BY <1>1, <2>2, <3>1 DEF RunRow
  <2>5. row.status # "succeeded" /\ row.leaseUntil <= run[r].leaseUntil
    BY <1>1, <2>2 DEF RunRow
  <2> HIDE DEF row
  <2>6. RowMove(run[r], row)
    BY <1>1, <1>2, <2>3, <2>4, <2>5, RowMoved
  <2> QED BY <1>1, <1>2, <2>6, OneRowMoves
<1> QED BY <1>3, <1>4, <1>5 DEF EventTypes, StepEvents, Fits

\* service.maintain.
LEMMA MaintainMoves ==
    ASSUME IInv, Maintain
    PROVE  \A q \in Runs : RowMove(run[q], run'[q])
<1> SUFFICES ASSUME NEW q \in Runs PROVE RowMove(run[q], run'[q])
  OBVIOUS
<1>1. run[q] \in RunRow
  BY DEF IInv, ServerTypeOK
<1>2. run'[q] = IF Expired(run[q]) THEN ExpiredRow(run[q]) ELSE run[q]
  BY DEF Maintain
<1>3. CASE Expired(run[q])
  <2> DEFINE row == ExpiredRow(run[q])
  <2>1. /\ row.version > run[q].version /\ row.cancel = run[q].cancel
        /\ row.leaseUntil = run[q].leaseUntil /\ row.steps = run[q].steps
        /\ row.status # "succeeded"
    BY <1>1 DEF ExpiredRow, RunRow
  <2>2. run[q].status \notin TERMINAL
    BY <1>3 DEF Expired, TERMINAL
  <2> QED BY <1>1, <1>2, <1>3, <2>1, <2>2, RowMoved DEF RunRow
<1>4. CASE ~Expired(run[q])
  BY <1>1, <1>2, <1>4, RowUnmoved
<1> QED BY <1>3, <1>4

\* Every step, for every row.
LEMMA RowsMove ==
    ASSUME IInv, [ServerNext]_serverVars
    PROVE  \A q \in Runs : RowMove(run[q], run'[q])
<1>1. ASSUME UNCHANGED run PROVE \A q \in Runs : RowMove(run[q], run'[q])
  BY <1>1, RowUnmoved DEF IInv, ServerTypeOK
<1>2. ASSUME NEW r \in Runs,
             \/ \E h \in Hosts : Approve(h, r)
             \/ CancelRun(r) \/ ResumeRun(r) \/ ReconcileRun(r)
      PROVE  \A q \in Runs : RowMove(run[q], run'[q])
  BY <1>2, OperatorMoves
<1>3. ASSUME NEW r \in Runs, NEW k, NEW b,
             \/ ServeAnswer(r) \/ InstallerReport(r) \/ Device(r, k) \/ Lease(r, k)
             \/ Complete(r, k) \/ Enroll(r, k, b)
      PROVE  \A q \in Runs : RowMove(run[q], run'[q])
  BY <1>3, MachineMoves DEF Lease, Complete
<1>4. ASSUME NEW r \in Runs, NEW k \in Keys, NEW t \in EventTypes, NEW s \in Steps,
             NEW b \in Boots, ReportEvent(r, k, Event(t, s, b))
      PROVE  \A q \in Runs : RowMove(run[q], run'[q])
  <2> DEFINE e == Event(t, s, b)
  <2>1. e.type = t /\ e.step = s /\ e.boot = b
    BY DEF Event
  <2> HIDE DEF e
  <2>2. ReportEvent(r, k, e)
    BY <1>4 DEF e
  <2>3. Fits(e)
    BY <2>1 DEF Fits
  <2> QED BY <2>2, <2>3, EventMoves
<1>5. CASE Maintain
  BY <1>5, MaintainMoves
<1>6. CASE Tick \/ (\E h \in Hosts : UpdateHost(h)) \/ UNCHANGED serverVars
  BY <1>1, <1>6 DEF Tick, UpdateHost, serverVars
<1> QED BY <1>2, <1>3, <1>4, <1>5, <1>6 DEF ServerNext, Operator, Installer, Machine

\* A run that ended is frozen: also a request that `device` admitted before the end and
\* whose handler runs after it changes nothing (app.py device, lease, complete, events).
THEOREM TerminalRowsFrozen == ServerSpec => TerminalFrozen
<1>1. IInv /\ [ServerNext]_serverVars =>
        [\A r \in Runs : run[r].status \in TERMINAL => run'[r] = run[r]]_serverVars
  BY RowsMove DEF RowMove, Frozen
<1> QED BY <1>1, InvariantHolds, PTL DEF ServerSpec, TerminalFrozen

\* A request to stop is never taken back or overtaken: after it no handler extends a
\* lease, lets a step start or records a success (app.py cancel_run, lease, apply_event).
THEOREM CancellationSticks == ServerSpec => CancelSticks
<1>1. IInv /\ [ServerNext]_serverVars =>
        [\A r \in Runs : run[r].cancel =>
            /\ run'[r].cancel
            /\ run'[r].leaseUntil <= run[r].leaseUntil
            /\ run'[r].status # "succeeded"
            /\ \A s \in Steps :
                 run'[r].steps[s] = "applying" => run[r].steps[s] = "applying"]_serverVars
  <2>1. ASSUME IInv, NEW r \in Runs, run[r].cancel PROVE run[r].status # "succeeded"
    BY <2>1 DEF IInv, ConsistentRow, Earned
  <2> QED BY <2>1, RowsMove DEF RowMove, Stopped
<1> QED BY <1>1, InvariantHolds, PTL DEF ServerSpec, CancelSticks

\* The version an operator's request carries proves that nothing of the run but its
\* lease changed since the page was loaded (app.py cancel_run, resume_run, reconcile_run).
THEOREM VersionsCount == ServerSpec => StatusChangeBumpsVersion
<1>1. IInv /\ [ServerNext]_serverVars =>
        [\A r \in Runs :
            [run'[r] EXCEPT !.leaseUntil = 0] # [run[r] EXCEPT !.leaseUntil = 0]
                => run'[r].version > run[r].version]_serverVars
  BY RowsMove DEF RowMove, Counted
<1> QED BY <1>1, InvariantHolds, PTL DEF ServerSpec, StatusChangeBumpsVersion
=============================================================================
