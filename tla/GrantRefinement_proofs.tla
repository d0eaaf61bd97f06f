----------------------- MODULE GrantRefinement_proofs -----------------------
(***************************************************************************)
(* RunLifecycle implements InstallGrant.  Besides the invariant of          *)
(* RunLifecycle_proofs the simulation needs AdmittedIsBound: the handlers   *)
(* that extend a lease, complete a run or take a cancellation report act    *)
(* for a key admitted earlier, and the promise speaks of the bound device.  *)
(***************************************************************************)
EXTENDS GrantRefinement, RunLifecycle_proofs

\* While nothing is bound, nothing is admitted.
LEMMA NoneAdmitted ==
    ASSUME IInv, AdmittedIsBound, NEW r \in Runs, run[r].key = NoKey, run[r].status \notin TERMINAL
    PROVE  admitted[r] = {}
<1>1. admitted[r] \subseteq Keys
  BY DEF IInv, ServerTypeOK
<1>2. CASE Active(run[r])
  BY <1>1, <1>2, AbsentAssumption DEF AdmittedIsBound
<1>3. CASE ~Active(run[r])
  BY <1>3 DEF IInv, ConsistentRow, DeviceKnown, Active
<1> QED BY <1>2, <1>3

\* A handler that replaces one row: it keeps the key, ends the run, or nothing is admitted.
LEMMA KeyKept ==
    ASSUME IInv, AdmittedIsBound, NEW r \in Runs, NEW row, SetRun(r, row), admitted' = admitted,
           \/ Active(run[r]) /\ row.key = run[r].key
           \/ ~Active(row)
           \/ admitted[r] = {}
    PROVE  AdmittedIsBound'
BY DEF IInv, ServerTypeOK, SetRun, AdmittedIsBound, Active

LEMMA KeyStep == IInv /\ AdmittedIsBound /\ [ServerNext]_serverVars => AdmittedIsBound'
<1> SUFFICES ASSUME IInv, AdmittedIsBound, [ServerNext]_serverVars PROVE AdmittedIsBound'
  OBVIOUS
<1>t. \A r \in Runs : run[r] \in RunRow /\ admitted[r] \subseteq Keys
  BY DEF IInv, ServerTypeOK
<1>1. ASSUME UNCHANGED <<run, admitted>> PROVE AdmittedIsBound'
  BY <1>1 DEF AdmittedIsBound, Active
<1>2. ASSUME NEW r \in Runs, NEW h \in Hosts, Approve(h, r) PROVE AdmittedIsBound'
  <2>1. admitted[r] = {}
    BY <1>2 DEF Approve, IInv, ConsistentRow, DeviceKnown
  <2> QED BY <1>2, <2>1, KeyKept DEF Approve
<1>3. ASSUME NEW r \in Runs, CancelRun(r) PROVE AdmittedIsBound'
  <2>1. CancelledByOperator(run[r]).key = run[r].key
    BY <1>t DEF CancelledByOperator, RunRow
  <2> QED BY <1>3, <2>1, KeyKept DEF CancelRun
<1>4. ASSUME NEW r \in Runs, ResumeRun(r) PROVE AdmittedIsBound'
  <2> DEFINE row == [run[r] EXCEPT !.status = "runner_ready", !.version = @ + 1]
  <2>1. row.key = run[r].key /\ Active(run[r])
    BY <1>t, <1>4 DEF RunRow, ResumeRun, Active, TERMINAL
  <2> QED BY <1>4, <2>1, KeyKept DEF ResumeRun
<1>5. ASSUME NEW r \in Runs, ReconcileRun(r) PROVE AdmittedIsBound'
  <2> DEFINE row == [run[r] EXCEPT !.status = "cancelled", !.version = @ + 1,
                                   !.cancel = TRUE, !.key = NoKey, !.hashes = FALSE,
                                   !.leaseUntil = 0, !.approval = "revoked",
                                   !.completedAt = now]
  <2>1. ~Active(row)
    BY <1>t DEF RunRow, Active, TERMINAL
  <2>2. SetRun(r, row) /\ admitted' = admitted
    BY <1>5 DEF ReconcileRun
  <2> QED BY <2>1, <2>2, KeyKept
<1>6. ASSUME NEW r \in Runs, ServeAnswer(r) PROVE AdmittedIsBound'
  <2>1. admitted[r] = {}
    BY <1>6 DEF ServeAnswer, AnswerDue, ApprovalOpen, IInv, ConsistentRow, DeviceKnown
  <2> QED BY <1>6, <2>1, KeyKept DEF ServeAnswer, AnswerDue
<1>7. ASSUME NEW r \in Runs, InstallerReport(r) PROVE AdmittedIsBound'
  <2> DEFINE row == [run[r] EXCEPT !.status = "installed_reported", !.version = @ + 1]
  <2>1. row.key = run[r].key /\ Active(run[r])
    BY <1>t, <1>7 DEF RunRow, InstallerReport, Active, TERMINAL
  <2> QED BY <1>7, <2>1, KeyKept DEF InstallerReport
<1>8. ASSUME NEW r \in Runs, NEW k \in Keys, NEW b \in Boots, Enroll(r, k, b)
      PROVE  AdmittedIsBound'
  <2>1. admitted[r] = {}
    BY <1>8, NoneAdmitted DEF Enroll, EnrollAccepted, Active
  <2> QED BY <1>8, <2>1, KeyKept DEF Enroll
<1>9. ASSUME NEW r \in Runs, NEW k \in Keys, Device(r, k) PROVE AdmittedIsBound'
  <2>1. /\ run' = run /\ run[r].key = k
        /\ \A q \in Runs : admitted'[q] = IF q = r THEN admitted[r] \cup {k} ELSE admitted[q]
    BY <1>9 DEF Device, DeviceOk, IInv, ServerTypeOK
  <2> QED BY <2>1 DEF AdmittedIsBound, Active
<1>10. ASSUME NEW r \in Runs, NEW k \in Keys, Lease(r, k) PROVE AdmittedIsBound'
  <2> DEFINE row == [run[r] EXCEPT !.leaseUntil = LeaseGranted(r)]
  <2>1. row.key = run[r].key /\ row.status = run[r].status
    BY <1>t DEF RunRow
  <2>2. SetRun(r, row) /\ admitted' = admitted
    BY <1>10 DEF Lease, LeaseHandler
  <2> QED BY <2>1, <2>2, KeyKept DEF Active
<1>11. ASSUME NEW r \in Runs, NEW k \in Keys, Complete(r, k) PROVE AdmittedIsBound'
  <2> DEFINE row == [run[r] EXCEPT !.status = "succeeded", !.version = @ + 1,
                                   !.leaseUntil = 0, !.hashes = FALSE, !.completedAt = now]
  <2>1. ~Active(row)
    BY <1>t DEF RunRow, Active, TERMINAL
  <2>2. SetRun(r, row) /\ admitted' = admitted
    BY <1>11 DEF Complete, CompleteHandler
  <2> QED BY <2>1, <2>2, KeyKept
<1>12. ASSUME NEW r \in Runs, NEW k \in Keys, NEW e, ReportEvent(r, k, e)
       PROVE  AdmittedIsBound'
  <2>1. AfterEvent(run[r], e).key = run[r].key
    BY <1>t DEF AfterEvent, RunRow
  <2> QED BY <1>12, <2>1, KeyKept DEF ReportEvent, EventOk
<1>13. CASE Maintain
  <2>1. \A r \in Runs : ExpiredRow(run[r]).status = "expired"
    BY <1>t DEF ExpiredRow, RunRow
  <2> QED BY <1>13, <2>1 DEF Maintain, AdmittedIsBound, Active, TERMINAL
<1>14. CASE Tick \/ (\E h \in Hosts : UpdateHost(h)) \/ UNCHANGED serverVars
  BY <1>1, <1>14 DEF Tick, UpdateHost, serverVars
<1> QED BY <1>2, <1>3, <1>4, <1>5, <1>6, <1>7, <1>8, <1>9, <1>10, <1>11, <1>12, <1>13, <1>14
        DEF ServerNext, Operator, Installer, Machine

\* A request that `device` admitted speaks for the bound device when its handler runs, for
\* any number of devices, runs and requests under way (app.py device, authorized_run).
THEOREM AdmittedBound == ServerSpec => []AdmittedIsBound
<1>1. ServerInit => AdmittedIsBound
  BY DEF ServerInit, AdmittedIsBound
<1> QED BY <1>1, KeyStep, InvariantHolds, PTL DEF ServerSpec

-----------------------------------------------------------------------------
(* The simulation *)

\* What a run's grant says of it.
LEMMA GrantFields ==
    ASSUME NEW r \in Runs
    PROVE  /\ grants[r] = GrantRow(run[r], held[r])
           /\ grants[r].host = run[r].host /\ grants[r].phase = PhaseOf(run[r])
           /\ grants[r].until = held[r]
           /\ grants[r].device = IF PhaseOf(run[r]) = "spent" THEN run[r].key ELSE NoKey
           /\ grants[r].stop = IF PhaseOf(run[r]) = "spent" THEN run[r].cancel ELSE FALSE
BY Zenon DEF grants, GrantRow

\* A handler that replaces one row moves one grant.
LEMMA OneGrantMoves ==
    ASSUME ServerTypeOK, NEW r \in Runs, NEW row, NEW until, SetRun(r, row),
           held' = [held EXCEPT ![r] = until], now' = now
    PROVE  Granted!Becomes(r, GrantRow(row, until))
<1>1. \A q \in Runs : /\ run'[q] = IF q = r THEN row ELSE run[q]
                      /\ held'[q] = IF q = r THEN until ELSE held[q]
  BY DEF ServerTypeOK, SetRun
<1>2. \A q \in Runs : GrantRow(run'[q], held'[q]) =
                        IF q = r THEN GrantRow(row, until) ELSE GrantRow(run[q], held[q])
  BY <1>1
<1>3. grants' = [grants EXCEPT ![r] = GrantRow(row, until)]
  BY <1>2 DEF grants
<1> QED BY <1>3 DEF Granted!Becomes

\* Only active runs claim their host.
LEMMA ClaimsActive ==
    ASSUME IInv, NEW r \in Runs, Granted!Claims(r)
    PROVE  Active(run[r])
<1>1. /\ run[r] \in RunRow /\ ConsistentRow(run[r], admitted[r], held[r])
      /\ held[r] \in Nat /\ now \in Nat
  BY DEF IInv, ServerTypeOK
<1>2. PhaseOf(run[r]) \in {"open", "spent"} \/ held[r] > now
  BY GrantFields DEF Granted!Claims
<1>3. CASE held[r] > now
  BY <1>1, <1>3 DEF ConsistentRow, LeaseRemembered
<1>4. CASE PhaseOf(run[r]) \in {"open", "spent"}
  BY <1>1, <1>4 DEF PhaseOf, Active, TERMINAL, RunRow, RunStatus
<1> QED BY <1>2, <1>3, <1>4

\* service.approve: a new grant is opened.
LEMMA ApproveGrants ==
    ASSUME IInv, NEW r \in Runs, NEW h \in Hosts, Approve(h, r)
    PROVE  Granted!Open(r, h)
<1>1. run[r].status = "absent" /\ held[r] = 0 /\ held' = [held EXCEPT ![r] = 0]
  BY DEF Approve, IInv, ServerTypeOK, ConsistentRow, LeaseRemembered
<1>2. Granted!Becomes(r, GrantRow(ApprovedRow(h), 0))
  BY <1>1, OneGrantMoves DEF Approve, IInv
<1>3. GrantRow(ApprovedRow(h), 0) = Granted!Opened(h)
  <2>1. ApprovedRow(h).host = h /\ ApprovedRow(h).status = "prepared"
    BY DEF ApprovedRow, AbsentRow
  <2>2. PhaseOf(ApprovedRow(h)) = "open"
    BY <2>1 DEF PhaseOf
  <2> QED BY <2>1, <2>2 DEF GrantRow, Granted!Opened
<1>4. grants[r].phase = "none"
  BY <1>1, GrantFields DEF PhaseOf
<1>5. ASSUME NEW o \in Runs, Granted!Claims(o)
      PROVE  grants[o].host # h
  <2>1. Active(run[o]) /\ run[o].host # h
    BY <1>5, ClaimsActive DEF Approve, NoActiveRun
  <2> QED BY <2>1, GrantFields
<1> QED BY <1>2, <1>3, <1>4, <1>5 DEF Granted!Open

\* Which rows are spent grants.
LEMMA SpentPhase ==
    ASSUME NEW row \in RunRow
    PROVE  /\ PhaseOf(row) = "spent" <=> Active(row) /\ row.status # "prepared"
           /\ PhaseOf(row) = "open" <=> row.status = "prepared"
BY DEF PhaseOf, Active, TERMINAL, RunRow, RunStatus

\* The grant of a spent row, written out.
LEMMA SpentGrant ==
    ASSUME NEW row, NEW until, PhaseOf(row) = "spent"
    PROVE  GrantRow(row, until) = [host |-> row.host, phase |-> "spent", until |-> until,
                                   device |-> row.key, stop |-> row.cancel]
BY DEF GrantRow

\* A handler that replaces one row and leaves its grant as it was.
LEMMA GrantStays ==
    ASSUME ServerTypeOK, NEW r \in Runs, NEW row, SetRun(r, row),
           held' = held, now' = now, GrantRow(row, held[r]) = GrantRow(run[r], held[r])
    PROVE  UNCHANGED Granted!vars
<1>1. \A q \in Runs : /\ run'[q] = IF q = r THEN row ELSE run[q]
                      /\ held'[q] = held[q]
  BY DEF ServerTypeOK, SetRun
<1>2. \A q \in Runs : GrantRow(run'[q], held'[q]) = GrantRow(run[q], held[q])
  BY <1>1
<1>3. grants' = grants
  BY <1>2 DEF grants
<1> QED BY <1>3 DEF Granted!vars

\* Rows that differ in nothing the promise knows of.
LEMMA SameGrant ==
    ASSUME NEW old, NEW new, NEW until, new.host = old.host, new.key = old.key,
           new.cancel = old.cancel, PhaseOf(new) = PhaseOf(old)
    PROVE  GrantRow(new, until) = GrantRow(old, until)
BY DEF GrantRow

\* A row that ended leaves no device and no request to stop in its grant.
LEMMA EndedGrant ==
    ASSUME NEW r \in Runs, NEW row, NEW phase, NEW until, row.host = run[r].host,
           PhaseOf(row) = phase, phase # "spent"
    PROVE  GrantRow(row, until) = Granted!Ended(grants[r], phase, until)
BY GrantFields DEF GrantRow, Granted!Ended

\* A handler that ends one prepared run.
LEMMA OneWithdrawn ==
    ASSUME ServerTypeOK, NEW r \in Runs, NEW row, SetRun(r, row), held' = held, now' = now,
           run[r].status = "prepared", row.host = run[r].host, PhaseOf(row) = "over"
    PROVE  Granted!Withdraw({r})
<1>1. \A q \in Runs : /\ run'[q] = IF q = r THEN row ELSE run[q]
                      /\ held'[q] = held[q]
  BY DEF ServerTypeOK, SetRun
<1>2. grants[r].until = held[r] /\ grants[r].phase = "open"
  BY GrantFields DEF PhaseOf
<1>3. GrantRow(row, held[r]) = Granted!Ended(grants[r], "over", grants[r].until)
  BY <1>2, EndedGrant
<1>4. \A q \in Runs : GrantRow(run'[q], held'[q]) =
                        IF q \in {r} THEN Granted!Ended(grants[q], "over", grants[q].until)
                        ELSE grants[q]
  BY <1>1, <1>3, GrantFields
<1>5. grants' = [q \in Runs |-> IF q \in {r}
                                THEN Granted!Ended(grants[q], "over", grants[q].until)
                                ELSE grants[q]]
  BY <1>4 DEF grants
<1> QED BY <1>2, <1>5 DEF Granted!Withdraw

\* service.maintain withdraws every grant whose approval ran out.
LEMMA MaintainGrants ==
    ASSUME IInv, Maintain
    PROVE  Granted!Withdraw({r \in Runs : Expired(run[r])})
<1> DEFINE G == {r \in Runs : Expired(run[r])}
<1>1. \A q \in G : grants[q].phase = "open"
  BY GrantFields DEF PhaseOf, Expired
<1>2. ASSUME NEW q \in Runs
      PROVE  GrantRow(run'[q], held'[q]) =
               IF q \in G THEN Granted!Ended(grants[q], "over", grants[q].until) ELSE grants[q]
  <2>1. run'[q] = (IF Expired(run[q]) THEN ExpiredRow(run[q]) ELSE run[q]) /\ held'[q] = held[q]
    BY DEF Maintain
  <2>2. CASE Expired(run[q])
    <3>1. run[q] \in RunRow
      BY DEF IInv, ServerTypeOK
    <3>2. ExpiredRow(run[q]).host = run[q].host /\ PhaseOf(ExpiredRow(run[q])) = "over"
      BY <3>1 DEF ExpiredRow, PhaseOf, RunRow
    <3>3. GrantRow(ExpiredRow(run[q]), held[q]) = Granted!Ended(grants[q], "over", held[q])
      BY <3>2, EndedGrant
    <3>4. q \in G /\ grants[q].until = held[q]
      BY <2>2, GrantFields
    <3> QED BY <2>1, <2>2, <3>3, <3>4
  <2>3. CASE ~Expired(run[q])
    BY <2>1, <2>3, GrantFields
  <2> QED BY <2>2, <2>3
<1> HIDE DEF G
<1>3. grants' = [q \in Runs |-> IF q \in G
                                THEN Granted!Ended(grants[q], "over", grants[q].until)
                                ELSE grants[q]]
  BY <1>2 DEF grants
<1>4. Granted!Withdraw(G)
  BY <1>1, <1>3 DEF Granted!Withdraw, Maintain
<1> QED BY <1>4 DEF G

\* POST cancel: a prepared run's grant is withdrawn, a spent one is to stop.
LEMMA CancelGrants ==
    ASSUME IInv, NEW r \in Runs, CancelRun(r)
    PROVE  Granted!Withdraw({r}) \/ Granted!Stop(r) \/ UNCHANGED Granted!vars
<1> DEFINE row == CancelledByOperator(run[r])
<1>1. /\ run[r] \in RunRow /\ ServerTypeOK /\ SetRun(r, row) /\ Active(run[r])
      /\ held' = held /\ held' = [held EXCEPT ![r] = held[r]] /\ now' = now
  BY DEF CancelRun, IInv, ServerTypeOK
<1>2. /\ row.host = run[r].host /\ row.key = run[r].key /\ row.cancel = TRUE
      /\ row.status = IF run[r].status = "prepared" THEN "cancelled" ELSE run[r].status
  BY <1>1 DEF CancelledByOperator, RunRow
<1> HIDE DEF row
<1>3. CASE run[r].status = "prepared"
  <2>1. PhaseOf(row) = "over"
    BY <1>2, <1>3 DEF PhaseOf
  <2> QED BY <1>1, <1>2, <1>3, <2>1, OneWithdrawn
<1>4. CASE run[r].status # "prepared"
  <2>1. PhaseOf(run[r]) = "spent" /\ PhaseOf(row) = "spent"
    BY <1>1, <1>2, <1>4, SpentPhase DEF PhaseOf
  <2>2. CASE run[r].cancel
    <3>1. GrantRow(row, held[r]) = GrantRow(run[r], held[r])
      BY <1>2, <2>1, <2>2, SameGrant
    <3> QED BY <1>1, <3>1, GrantStays
  <2>3. CASE ~run[r].cancel
    <3>1. Granted!Becomes(r, GrantRow(row, held[r]))
      BY <1>1, OneGrantMoves
    <3>2. GrantRow(row, held[r]) = [grants[r] EXCEPT !.stop = TRUE]
      <4>1. grants[r] = GrantRow(run[r], held[r])
        BY GrantFields
      <4>2. GrantRow(row, held[r]) =
              [host |-> run[r].host, phase |-> "spent", until |-> held[r],
               device |-> run[r].key, stop |-> TRUE]
        BY <1>2, <2>1, SpentGrant
      <4>3. GrantRow(run[r], held[r]) =
              [host |-> run[r].host, phase |-> "spent", until |-> held[r],
               device |-> run[r].key, stop |-> run[r].cancel]
        BY <2>1, SpentGrant
      <4>4. \A v : [grants[r] EXCEPT !.stop = v] =
                     [host |-> run[r].host, phase |-> "spent", until |-> held[r],
                      device |-> run[r].key, stop |-> v]
        BY <4>1, <4>3
      <4> QED BY <4>2, <4>4, Zenon
    <3>3. grants[r].phase = "spent" /\ ~grants[r].stop
      BY <2>1, <2>3, GrantFields
    <3> QED BY <3>1, <3>2, <3>3 DEF Granted!Stop
  <2> QED BY <1>1, <2>2, <2>3 DEF RunRow
<1> QED BY <1>3, <1>4

\* POST resume and the installer's report show nothing of the grant.
LEMMA ResumeGrants ==
    ASSUME IInv, NEW r \in Runs, ResumeRun(r) \/ InstallerReport(r)
    PROVE  UNCHANGED Granted!vars
<1>1. PICK status \in {"runner_ready", "installed_reported"} :
        SetRun(r, [run[r] EXCEPT !.status = status, !.version = @ + 1])
  BY DEF ResumeRun, InstallerReport
<1> DEFINE row == [run[r] EXCEPT !.status = status, !.version = @ + 1]
<1>2. /\ run[r] \in RunRow /\ ServerTypeOK /\ held' = held /\ now' = now
      /\ run[r].status \in {"needs_review", "answer_served"}
  BY DEF ResumeRun, InstallerReport, IInv, ServerTypeOK
<1>3. /\ row.host = run[r].host /\ row.key = run[r].key /\ row.cancel = run[r].cancel
      /\ row.status = status /\ SetRun(r, row)
  BY <1>1, <1>2 DEF RunRow
<1> HIDE DEF row
<1>4. PhaseOf(row) = PhaseOf(run[r])
  BY <1>2, <1>3 DEF PhaseOf
<1>5. GrantRow(row, held[r]) = GrantRow(run[r], held[r])
  BY <1>3, <1>4, SameGrant
<1> QED BY <1>2, <1>3, <1>5, GrantStays

\* POST reconcile: a spent grant is closed when nothing handed out is in force.
LEMMA ReconcileGrants ==
    ASSUME IInv, NEW r \in Runs, ReconcileRun(r)
    PROVE  Granted!Withdraw({r}) \/ Granted!Close(r)
<1> DEFINE row == [run[r] EXCEPT !.status = "cancelled", !.version = @ + 1,
                                 !.cancel = TRUE, !.key = NoKey, !.hashes = FALSE,
                                 !.leaseUntil = 0, !.approval = "revoked",
                                 !.completedAt = now]
<1>1. /\ run[r] \in RunRow /\ ServerTypeOK /\ SetRun(r, row) /\ Active(run[r])
      /\ held' = held /\ held' = [held EXCEPT ![r] = held[r]] /\ now' = now
      /\ run[r].leaseUntil <= now
  BY DEF ReconcileRun, NothingOutstanding, IInv, ServerTypeOK
<1>2. row.host = run[r].host /\ PhaseOf(row) = "over"
  BY <1>1 DEF RunRow, PhaseOf
<1> HIDE DEF row
<1>3. CASE run[r].status = "prepared"
  BY <1>1, <1>2, <1>3, OneWithdrawn
<1>4. CASE run[r].status # "prepared"
  <2>1. grants[r].phase = "spent"
    BY <1>1, <1>4, SpentPhase, GrantFields
  <2>2. grants[r].until = held[r] /\ held[r] <= now
    <3>1. held[r] <= run[r].leaseUntil
      BY <1>1 DEF IInv, ConsistentRow, LeaseRemembered
    <3>2. held[r] \in Nat /\ now \in Nat /\ run[r].leaseUntil \in Nat
      BY <1>1 DEF ServerTypeOK, RunRow
    <3>3. held[r] <= now
      BY <1>1, <3>1, <3>2
    <3> QED BY <3>3, GrantFields
  <2>3. GrantRow(row, held[r]) = Granted!Ended(grants[r], "over", grants[r].until)
    BY <1>2, <2>2, EndedGrant
  <2>4. Granted!Becomes(r, GrantRow(row, held[r]))
    BY <1>1, OneGrantMoves
  <2> QED BY <2>1, <2>2, <2>3, <2>4 DEF Granted!Close
<1> QED BY <1>3, <1>4

\* The answer file is given away: the grant is spent, bound to no device yet.
LEMMA AnswerGrants ==
    ASSUME IInv, NEW r \in Runs, ServeAnswer(r)
    PROVE  Granted!Spend(r)
<1> DEFINE row == [run[r] EXCEPT !.status = "answer_served", !.version = @ + 1,
                                 !.hashes = TRUE, !.approval = "consumed",
                                 !.answerUntil = now + AnswerWindow,
                                 !.enrollUntil = now + EnrollTime]
<1>1. /\ run[r] \in RunRow /\ ServerTypeOK /\ SetRun(r, row)
      /\ run[r].status = "prepared" /\ run[r].cancel = FALSE
      /\ held' = [held EXCEPT ![r] = held[r]] /\ now' = now
  BY DEF ServeAnswer, AnswerDue, ApprovalOpen, IInv, ServerTypeOK, RunRow
<1>2. /\ row.host = run[r].host /\ row.key = run[r].key /\ row.cancel = FALSE
      /\ row.status = "answer_served"
  BY <1>1 DEF RunRow
<1>3. run[r].key = NoKey
  BY <1>1 DEF IInv, ConsistentRow, DeviceKnown
<1> HIDE DEF row
<1>4. PhaseOf(run[r]) = "open" /\ PhaseOf(row) = "spent"
  BY <1>1, <1>2 DEF PhaseOf
<1>5. GrantRow(row, held[r]) = [grants[r] EXCEPT !.phase = "spent"]
  <2>1. grants[r] = [host |-> run[r].host, phase |-> "open", until |-> held[r],
                     device |-> NoKey, stop |-> run[r].cancel]
    BY <1>1, <1>4, GrantFields DEF GrantRow
  <2>2. GrantRow(row, held[r]) = [host |-> run[r].host, phase |-> "spent", until |-> held[r],
                                  device |-> NoKey, stop |-> run[r].cancel]
    BY <1>1, <1>2, <1>3, <1>4, SpentGrant
  <2>3. [grants[r] EXCEPT !.phase = "spent"] =
          [host |-> run[r].host, phase |-> "spent", until |-> held[r],
           device |-> NoKey, stop |-> run[r].cancel]
    BY <2>1
  <2> QED BY <2>2, <2>3
<1>6. Granted!Becomes(r, GrantRow(row, held[r]))
  BY <1>1, OneGrantMoves
<1> QED BY <1>4, <1>5, <1>6, GrantFields DEF Granted!Spend

\* POST enroll: the first device is bound.
LEMMA EnrollGrants ==
    ASSUME IInv, NEW r \in Runs, NEW k \in Keys, NEW b \in Boots, Enroll(r, k, b)
    PROVE  Granted!Bind(r, k)
<1> DEFINE row == [run[r] EXCEPT !.key = k, !.boot = b, !.status = "runner_ready",
                                 !.version = @ + 1]
<1>1. /\ run[r] \in RunRow /\ ServerTypeOK /\ SetRun(r, row)
      /\ Active(run[r]) /\ run[r].status # "prepared" /\ run[r].cancel = FALSE
      /\ run[r].key = NoKey
      /\ held' = [held EXCEPT ![r] = held[r]] /\ now' = now
  BY DEF Enroll, EnrollAccepted, IInv, ServerTypeOK, RunRow
<1>2. /\ row.host = run[r].host /\ row.key = k /\ row.cancel = FALSE
      /\ row.status = "runner_ready"
  BY <1>1 DEF RunRow
<1> HIDE DEF row
<1>3. PhaseOf(run[r]) = "spent" /\ PhaseOf(row) = "spent"
  BY <1>1, <1>2, SpentPhase DEF PhaseOf
<1>4. GrantRow(row, held[r]) = [grants[r] EXCEPT !.device = k]
  <2>1. grants[r] = [host |-> run[r].host, phase |-> "spent", until |-> held[r],
                     device |-> run[r].key, stop |-> run[r].cancel]
    BY <1>3, SpentGrant, GrantFields
  <2>2. GrantRow(row, held[r]) = [host |-> run[r].host, phase |-> "spent", until |-> held[r],
                                  device |-> k, stop |-> run[r].cancel]
    BY <1>1, <1>2, <1>3, SpentGrant
  <2> QED BY <2>1, <2>2
<1>5. Granted!Becomes(r, GrantRow(row, held[r]))
  BY <1>1, OneGrantMoves
<1> QED BY <1>1, <1>3, <1>4, <1>5, GrantFields DEF Granted!Bind

\* A key admitted for an active run is the device's, and there is a device.
LEMMA AdmittedKey ==
    ASSUME IInv, AdmittedIsBound, NEW r \in Runs, NEW k \in admitted[r], Active(run[r])
    PROVE  run[r].key = k /\ k # NoKey /\ run[r].status # "prepared"
<1>1. run[r].key = k
  BY DEF AdmittedIsBound
<1>2. k # NoKey
  BY AbsentAssumption DEF IInv, ServerTypeOK
<1> QED BY <1>1, <1>2 DEF IInv, ConsistentRow, DeviceKnown

\* POST lease: a span is granted, or nothing is.
LEMMA LeaseGrants ==
    ASSUME IInv, AdmittedIsBound, NEW r \in Runs, NEW k \in Keys, Lease(r, k)
    PROVE  Granted!Extend(r) \/ UNCHANGED Granted!vars
<1> DEFINE row == [run[r] EXCEPT !.leaseUntil = LeaseGranted(r)]
<1>1. /\ run[r] \in RunRow /\ ServerTypeOK /\ SetRun(r, row) /\ now' = now /\ k \in admitted[r]
      /\ held' = IF LeaseAction(r) = "run"
                 THEN [held EXCEPT ![r] = now + LeaseTime] ELSE held
  BY DEF Lease, LeaseHandler, IInv, ServerTypeOK
<1>2. /\ row.host = run[r].host /\ row.key = run[r].key /\ row.cancel = run[r].cancel
      /\ row.status = run[r].status
  BY <1>1 DEF RunRow
<1> HIDE DEF row
<1>3. PhaseOf(row) = PhaseOf(run[r])
  BY <1>2 DEF PhaseOf
<1>4. CASE LeaseAction(r) # "run"
  <2>1. GrantRow(row, held[r]) = GrantRow(run[r], held[r])
    BY <1>2, <1>3, SameGrant
  <2> QED BY <1>1, <1>4, <2>1, GrantStays
<1>5. CASE LeaseAction(r) = "run"
  <2>1. run[r].cancel = FALSE /\ run[r].status \in {"runner_ready", "running", "reboot_pending"}
    BY <1>1, <1>5 DEF LeaseAction, RunRow
  <2>2. Active(run[r]) /\ PhaseOf(run[r]) = "spent"
    BY <2>1 DEF Active, TERMINAL, PhaseOf
  <2>3. run[r].key # NoKey
    BY <1>1, <2>2, AdmittedKey
  <2>4. GrantRow(row, now + LeaseTime) = [grants[r] EXCEPT !.until = now + LeaseTime]
    <3>1. grants[r] = [host |-> run[r].host, phase |-> "spent", until |-> held[r],
                       device |-> run[r].key, stop |-> run[r].cancel]
      BY <2>2, SpentGrant, GrantFields
    <3>2. GrantRow(row, now + LeaseTime) =
            [host |-> run[r].host, phase |-> "spent", until |-> now + LeaseTime,
             device |-> run[r].key, stop |-> run[r].cancel]
      BY <1>2, <1>3, <2>2, SpentGrant
    <3> QED BY <3>1, <3>2
  <2>5. Granted!Becomes(r, GrantRow(row, now + LeaseTime))
    BY <1>1, <1>5, OneGrantMoves
  <2> QED BY <2>1, <2>2, <2>3, <2>4, <2>5, GrantFields DEF Granted!Extend, Granted!Works
<1> QED BY <1>4, <1>5

\* A device that speaks for its key ends its grant, and its work with it.
LEMMA DeviceEnds ==
    ASSUME IInv, AdmittedIsBound, NEW r \in Runs, NEW k \in admitted[r], Active(run[r]),
           NEW row, SetRun(r, row), held' = [held EXCEPT ![r] = 0], now' = now,
           row.host = run[r].host, PhaseOf(row) \in {"won", "over"},
           PhaseOf(row) = "over" <=> run[r].cancel
    PROVE  Granted!Win(r) \/ Granted!StandDown(r)
<1>1. run[r] \in RunRow /\ ServerTypeOK
  BY DEF IInv, ServerTypeOK
<1>2. run[r].key # NoKey /\ PhaseOf(run[r]) = "spent"
  BY <1>1, AdmittedKey, SpentPhase
<1>3. Granted!Becomes(r, Granted!Ended(grants[r], PhaseOf(row), 0))
  <2>1. Granted!Becomes(r, GrantRow(row, 0))
    BY <1>1, OneGrantMoves
  <2>2. GrantRow(row, 0) = Granted!Ended(grants[r], PhaseOf(row), 0)
    BY EndedGrant
  <2> QED BY <2>1, <2>2
<1>4. /\ grants[r].phase = "spent" /\ grants[r].device # NoKey
      /\ grants[r].stop <=> run[r].cancel
  BY <1>2, GrantFields
<1> QED BY <1>3, <1>4 DEF Granted!Win, Granted!Works, Granted!StandDown

\* POST complete: the grant is won.
LEMMA CompleteGrants ==
    ASSUME IInv, AdmittedIsBound, NEW r \in Runs, NEW k \in Keys, Complete(r, k)
    PROVE  Granted!Win(r) \/ Granted!StandDown(r)
<1> DEFINE row == [run[r] EXCEPT !.status = "succeeded", !.version = @ + 1,
                                 !.leaseUntil = 0, !.hashes = FALSE, !.completedAt = now]
<1>1. /\ run[r] \in RunRow /\ SetRun(r, row) /\ now' = now /\ k \in admitted[r]
      /\ held' = [held EXCEPT ![r] = 0] /\ ~run[r].cancel /\ Active(run[r])
  BY DEF Complete, CompleteHandler, Completable, IInv, ServerTypeOK, Active, TERMINAL
<1>2. row.host = run[r].host /\ PhaseOf(row) = "won"
  BY <1>1 DEF RunRow, PhaseOf
<1> HIDE DEF row
<1> QED BY <1>1, <1>2, DeviceEnds

\* POST events: a cancellation report ends the device's work, any other event moves a
\* spent grant's row only.
LEMMA ReportGrants ==
    ASSUME IInv, AdmittedIsBound, NEW r \in Runs, NEW k \in Keys, NEW e, ReportEvent(r, k, e)
    PROVE  Granted!Win(r) \/ Granted!StandDown(r) \/ UNCHANGED Granted!vars
<1> DEFINE row == AfterEvent(run[r], e)
<1>1. /\ run[r] \in RunRow /\ ServerTypeOK /\ SetRun(r, row) /\ now' = now
      /\ k \in admitted[r] /\ Active(run[r])
      /\ held' = [held EXCEPT ![r] = HeldAfter(e, held[r])]
      /\ EventOk(run[r], Blocked(r), e)
  BY DEF ReportEvent, EventOk, IInv, ServerTypeOK
<1>2. /\ row.host = run[r].host /\ row.key = run[r].key /\ row.cancel = run[r].cancel
      /\ row.status = StatusAfter(run[r], e)
  BY <1>1 DEF AfterEvent, RunRow, EventOk, StatusAfter, StepEvents
<1> HIDE DEF row
<1>3. CASE e.type = "run.cancelled"
  <2>1. run[r].cancel
    BY <1>1, <1>3 DEF EventOk, StepEvents
  <2>2. PhaseOf(row) = "over" /\ held' = [held EXCEPT ![r] = 0]
    BY <1>1, <1>2, <1>3 DEF StatusAfter, PhaseOf, HeldAfter
  <2> QED BY <1>1, <1>2, <2>1, <2>2, DeviceEnds
<1>4. CASE e.type # "run.cancelled"
  <2>1. held' = held
    BY <1>1, <1>4 DEF HeldAfter, ServerTypeOK
  <2>2. PhaseOf(run[r]) = "spent"
    BY <1>1, AdmittedKey, SpentPhase
  <2>3. PhaseOf(row) = "spent"
    BY <1>1, <1>2, <1>4, <2>2 DEF StatusAfter, EventOk, PhaseOf, StepEvents
  <2>4. GrantRow(row, held[r]) = GrantRow(run[r], held[r])
    BY <1>2, <2>2, <2>3, SameGrant
  <2> QED BY <1>1, <2>1, <2>4, GrantStays
<1> QED BY <1>3, <1>4

\* Handlers that touch neither runs nor leases; time.
LEMMA IdleGrants ==
    ASSUME UNCHANGED <<now, run, held>>
    PROVE  UNCHANGED Granted!vars
BY DEF Granted!vars, grants

LEMMA TickGrants ==
    ASSUME IInv, Tick
    PROVE  Granted!Pass
<1>1. grants' = grants
  BY DEF Tick, grants
<1> QED BY <1>1 DEF Tick, IInv, ServerTypeOK, Granted!Pass

LEMMA GrantStep ==
    IInv /\ AdmittedIsBound /\ [ServerNext]_serverVars => [Granted!Next]_Granted!vars
<1> SUFFICES ASSUME IInv, AdmittedIsBound, [ServerNext]_serverVars
             PROVE  [Granted!Next]_Granted!vars
  OBVIOUS
<1>1. ASSUME NEW r \in Runs, NEW h \in Hosts, Approve(h, r) PROVE Granted!Next
  BY <1>1, ApproveGrants DEF Granted!Next
<1>2. ASSUME NEW r \in Runs, CancelRun(r) \/ ResumeRun(r) \/ ReconcileRun(r)
      PROVE  [Granted!Next]_Granted!vars
  BY <1>2, CancelGrants, ResumeGrants, ReconcileGrants DEF Granted!Next
<1>3. ASSUME NEW r \in Runs, ServeAnswer(r) \/ InstallerReport(r)
      PROVE  [Granted!Next]_Granted!vars
  BY <1>3, AnswerGrants, ResumeGrants DEF Granted!Next
<1>4. ASSUME NEW r \in Runs, NEW k \in Keys, NEW b \in Boots, Enroll(r, k, b)
      PROVE  Granted!Next
  BY <1>4, EnrollGrants DEF Granted!Next
<1>5. ASSUME NEW r \in Runs, NEW k \in Keys, Lease(r, k) \/ Complete(r, k)
      PROVE  [Granted!Next]_Granted!vars
  BY <1>5, LeaseGrants, CompleteGrants DEF Granted!Next
<1>6. ASSUME NEW r \in Runs, NEW k \in Keys, NEW e, ReportEvent(r, k, e)
      PROVE  [Granted!Next]_Granted!vars
  BY <1>6, ReportGrants DEF Granted!Next
<1>7. CASE Maintain
  <2>1. {r \in Runs : Expired(run[r])} \in SUBSET Runs
    OBVIOUS
  <2> QED BY <1>7, <2>1, MaintainGrants DEF Granted!Next
<1>8. CASE Tick
  BY <1>8, TickGrants DEF Granted!Next
<1>9. ASSUME (\E h \in Hosts : UpdateHost(h)) \/ (\E r \in Runs, k \in Keys : Device(r, k))
             \/ UNCHANGED serverVars
      PROVE  UNCHANGED Granted!vars
  BY <1>9, IdleGrants DEF UpdateHost, Device, serverVars
<1> QED BY <1>1, <1>2, <1>3, <1>4, <1>5, <1>6, <1>7, <1>8, <1>9
        DEF ServerNext, Operator, Installer, Machine

\* The server keeps the promise of InstallGrant, for any hosts, runs, keys, manifest and
\* durations: every handler of app.py and service.py is a step of it or none.
THEOREM PromiseKept == ServerSpec => KeepsPromise
<1>1. ServerInit => Granted!Init
  <2> SUFFICES ASSUME ServerInit PROVE Granted!Init
    OBVIOUS
  <2>1. \A r \in Runs : run[r] = AbsentRow /\ held[r] = 0
    BY DEF ServerInit
  <2>2. AbsentRow.host = NoHost /\ AbsentRow.status = "absent"
    BY DEF AbsentRow
  <2>3. GrantRow(AbsentRow, 0) = Granted!Unused
    BY <2>2 DEF GrantRow, PhaseOf, Granted!Unused
  <2>4. grants = [r \in Runs |-> Granted!Unused]
    BY <2>1, <2>3 DEF grants
  <2> QED BY <2>4 DEF ServerInit, Granted!Init
<1> QED BY <1>1, GrantStep, InvariantHolds, AdmittedBound, PTL
        DEF ServerSpec, KeepsPromise, Granted!Spec

-----------------------------------------------------------------------------
(* What the promise is worth *)

\* Every step but Open leaves hosts alone and gives no grant a claim that it did not have.
ClaimInv == Granted!TypeOK /\ Granted!Exclusive

\* A step that gives no claim keeps them exclusive.
LEMMA NoNewClaim ==
    ASSUME ClaimInv, Granted!TypeOK',
           \A g \in Runs : /\ grants'[g].host = grants[g].host
                           /\ Granted!Claims(g)' => Granted!Claims(g)
    PROVE  ClaimInv'
BY DEF ClaimInv, Granted!Exclusive

\* The same for a step that changes one grant.
LEMMA OneBecomes ==
    ASSUME ClaimInv, NEW g \in Runs, NEW new \in Granted!Grant, Granted!Becomes(g, new),
           new.host = grants[g].host,
           new.phase \in {"open", "spent"} \/ new.until > now => Granted!Claims(g)
    PROVE  ClaimInv'
<1>1. Granted!TypeOK'
  BY DEF ClaimInv, Granted!TypeOK, Granted!Becomes
<1>2. ASSUME NEW o \in Runs
      PROVE  grants'[o].host = grants[o].host /\ (Granted!Claims(o)' => Granted!Claims(o))
  <2>1. grants'[o] = (IF o = g THEN new ELSE grants[o]) /\ now' = now
    BY DEF ClaimInv, Granted!TypeOK, Granted!Becomes
  <2>2. CASE o = g
    BY <2>1, <2>2 DEF Granted!Claims
  <2>3. CASE o # g
    BY <2>1, <2>3 DEF Granted!Claims
  <2> QED BY <2>2, <2>3
<1> QED BY <1>1, <1>2, NoNewClaim

LEMMA EndedType ==
    ASSUME NEW g \in Granted!Grant, NEW phase \in Granted!Phase, NEW until \in Nat
    PROVE  /\ Granted!Ended(g, phase, until) \in Granted!Grant
           /\ Granted!Ended(g, phase, until).host = g.host
           /\ Granted!Ended(g, phase, until).phase = phase
           /\ Granted!Ended(g, phase, until).until = until
BY DEF Granted!Ended, Granted!Grant

\* A grant that has a claim ends.
LEMMA EndStep ==
    ASSUME ClaimInv, NEW g \in Runs, NEW phase \in Granted!Phase, NEW until \in Nat,
           Granted!Claims(g), Granted!Becomes(g, Granted!Ended(grants[g], phase, until))
    PROVE  ClaimInv'
<1> DEFINE new == Granted!Ended(grants[g], phase, until)
<1>1. new \in Granted!Grant /\ new.host = grants[g].host
  BY EndedType DEF ClaimInv, Granted!TypeOK
<1> HIDE DEF new
<1>2. Granted!Becomes(g, new)
  BY DEF new
<1> QED BY <1>1, <1>2, OneBecomes

LEMMA OpenStep ==
    ASSUME ClaimInv, NEW g \in Runs, NEW h \in Hosts, Granted!Open(g, h)
    PROVE  ClaimInv'
<1> DEFINE new == Granted!Opened(h)
<1>1. new \in Granted!Grant /\ new.host = h
  BY 0 \in Nat, Zenon DEF Granted!Opened, Granted!Grant, Granted!Phase
<1>2. /\ now' = now /\ grants' \in [Runs -> Granted!Grant]
      /\ \A o \in Runs : grants'[o] = IF o = g THEN new ELSE grants[o]
  BY <1>1 DEF ClaimInv, Granted!TypeOK, Granted!Open, Granted!Becomes
<1>3. Granted!TypeOK'
  BY <1>2 DEF ClaimInv, Granted!TypeOK
<1>4. ASSUME NEW a \in Runs, NEW b \in Runs, Granted!Claims(a)', Granted!Claims(b)',
             grants'[a].host = grants'[b].host, a # b
      PROVE  FALSE
  <2> HIDE DEF new
  <2>1. ASSUME NEW o \in Runs, o # g, Granted!Claims(o)'
        PROVE  Granted!Claims(o) /\ grants'[o].host # h
    BY <2>1, <1>2 DEF Granted!Claims, Granted!Open
  <2>2. CASE a = g
    BY <2>2, <2>1, <1>1, <1>2, <1>4
  <2>3. CASE b = g
    BY <2>3, <2>1, <1>1, <1>2, <1>4
  <2>4. CASE a # g /\ b # g
    BY <2>4, <2>1, <1>2, <1>4 DEF ClaimInv, Granted!Exclusive
  <2> QED BY <2>2, <2>3, <2>4
<1> QED BY <1>3, <1>4 DEF ClaimInv, Granted!Exclusive

\* The steps of a grant that has a claim: they keep it or give it up.
LEMMA ClaimStep ==
    ASSUME ClaimInv, LeaseTime \in Nat, NEW g \in Runs,
           \/ Granted!Spend(g) \/ Granted!Extend(g) \/ Granted!Stop(g)
           \/ Granted!Win(g) \/ Granted!StandDown(g) \/ Granted!Close(g)
           \/ \E k \in Keys : Granted!Bind(g, k)
    PROVE  ClaimInv'
<1>1. grants[g] \in Granted!Grant /\ now \in Nat
  BY DEF ClaimInv, Granted!TypeOK
<1>2. Granted!Claims(g)
  BY DEF Granted!Claims, Granted!Spend, Granted!Extend, Granted!Stop, Granted!Win,
         Granted!StandDown, Granted!Close, Granted!Bind, Granted!Works
<1>3. CASE \/ Granted!Spend(g) \/ Granted!Extend(g) \/ Granted!Stop(g)
           \/ \E k \in Keys : Granted!Bind(g, k)
  <2>1. PICK new \in Granted!Grant : Granted!Becomes(g, new) /\ new.host = grants[g].host
    <3>1. CASE Granted!Spend(g)
      <4>1. [grants[g] EXCEPT !.phase = "spent"] \in Granted!Grant
        BY <1>1 DEF Granted!Grant, Granted!Phase
      <4> QED BY <1>1, <3>1, <4>1 DEF Granted!Spend, Granted!Grant
    <3>2. CASE Granted!Extend(g)
      <4>1. [grants[g] EXCEPT !.until = now + LeaseTime] \in Granted!Grant
        BY <1>1 DEF Granted!Grant
      <4> QED BY <1>1, <3>2, <4>1 DEF Granted!Extend, Granted!Grant
    <3>3. CASE Granted!Stop(g)
      <4>1. [grants[g] EXCEPT !.stop = TRUE] \in Granted!Grant
        BY <1>1 DEF Granted!Grant
      <4> QED BY <1>1, <3>3, <4>1 DEF Granted!Stop, Granted!Grant
    <3>4. ASSUME NEW k \in Keys, Granted!Bind(g, k)
          PROVE  \E new \in Granted!Grant : Granted!Becomes(g, new) /\ new.host = grants[g].host
      <4>1. [grants[g] EXCEPT !.device = k] \in Granted!Grant
        BY <1>1 DEF Granted!Grant
      <4> QED BY <1>1, <3>4, <4>1 DEF Granted!Bind, Granted!Grant
    <3> QED BY <1>3, <3>1, <3>2, <3>3, <3>4
  <2> QED BY <1>2, <2>1, OneBecomes
<1>4. CASE Granted!Win(g)
  BY <1>2, <1>4, EndStep DEF Granted!Win, Granted!Phase
<1>5. CASE Granted!StandDown(g)
  BY <1>2, <1>5, EndStep DEF Granted!StandDown, Granted!Phase
<1>6. CASE Granted!Close(g)
  <2>1. grants[g].until \in Nat
    BY <1>1 DEF Granted!Grant
  <2> QED BY <1>2, <1>6, <2>1, EndStep DEF Granted!Close, Granted!Phase
<1> QED BY <1>3, <1>4, <1>5, <1>6

LEMMA WithdrawStep ==
    ASSUME ClaimInv, NEW G \in SUBSET Runs, Granted!Withdraw(G)
    PROVE  ClaimInv'
<1>1. ASSUME NEW g \in Runs
      PROVE  /\ grants'[g] \in Granted!Grant
             /\ grants'[g].host = grants[g].host /\ (Granted!Claims(g)' => Granted!Claims(g))
  <2>1. grants[g] \in Granted!Grant /\ grants[g].until \in Nat
    BY DEF ClaimInv, Granted!TypeOK, Granted!Grant
  <2>2. /\ now' = now
        /\ grants'[g] = IF g \in G THEN Granted!Ended(grants[g], "over", grants[g].until)
                        ELSE grants[g]
    BY DEF Granted!Withdraw
  <2>3. CASE g \in G
    <3> DEFINE new == Granted!Ended(grants[g], "over", grants[g].until)
    <3>1. "over" \in Granted!Phase /\ grants[g] \in Granted!Grant /\ grants[g].until \in Nat
      BY <2>1 DEF Granted!Phase
    <3>2. /\ new \in Granted!Grant /\ new.host = grants[g].host
          /\ new.phase = "over" /\ new.until = grants[g].until
      BY <3>1 DEF Granted!Ended, Granted!Grant
    <3> HIDE DEF new
    <3>3. grants'[g] = new
      BY <2>2, <2>3 DEF new
    <3> QED BY <2>2, <3>2, <3>3 DEF Granted!Claims
  <2>4. CASE g \notin G
    BY <2>1, <2>2, <2>4 DEF Granted!Claims
  <2> QED BY <2>3, <2>4
<1>2. Granted!TypeOK'
  BY <1>1 DEF ClaimInv, Granted!TypeOK, Granted!Withdraw
<1> QED BY <1>1, <1>2, NoNewClaim

LEMMA PassStep == ClaimInv /\ Granted!Pass => ClaimInv'
<1> SUFFICES ASSUME ClaimInv, Granted!Pass PROVE ClaimInv'
  OBVIOUS
<1>1. Granted!TypeOK'
  BY DEF ClaimInv, Granted!TypeOK, Granted!Pass
<1>2. ASSUME NEW g \in Runs
      PROVE  grants'[g].host = grants[g].host /\ (Granted!Claims(g)' => Granted!Claims(g))
  <2>1. grants[g].until \in Nat
    BY DEF ClaimInv, Granted!TypeOK, Granted!Grant
  <2> QED BY <2>1 DEF Granted!Claims, Granted!Pass, ClaimInv, Granted!TypeOK
<1> QED BY <1>1, <1>2, NoNewClaim

\* Whoever keeps the promise lets one run at most have a claim to a host, for any number of
\* hosts, runs and devices and any span: nothing but the steps of InstallGrant is used, and
\* the rows of the server do not occur in the argument.
THEOREM PromiseExcludes == KeepsPromise => []OneClaim
<1>1. Granted!Init => ClaimInv
  <2> SUFFICES ASSUME Granted!Init PROVE ClaimInv
    OBVIOUS
  <2>1. Granted!Unused \in Granted!Grant
    BY 0 \in Nat, Zenon DEF Granted!Unused, Granted!Grant, Granted!Phase
  <2>2. \A g \in Runs : ~Granted!Claims(g)
    BY DEF Granted!Init, Granted!Claims, Granted!Unused
  <2> QED BY <2>1, <2>2 DEF Granted!Init, ClaimInv, Granted!TypeOK, Granted!Exclusive
<1>2. ClaimInv /\ [Granted!Next]_Granted!vars => ClaimInv'
  <2> SUFFICES ASSUME ClaimInv, [Granted!Next]_Granted!vars PROVE ClaimInv'
    OBVIOUS
  <2>1. CASE UNCHANGED Granted!vars
    BY <2>1 DEF Granted!vars, ClaimInv, Granted!TypeOK, Granted!Exclusive, Granted!Claims
  <2>2. LeaseTime \in Nat
    BY TimesAssumption
  <2> QED BY <2>1, <2>2, OpenStep, ClaimStep, WithdrawStep, PassStep DEF Granted!Next
<1>3. ClaimInv => OneClaim
  BY DEF ClaimInv, OneClaim
<1> QED BY <1>1, <1>2, <1>3, PTL DEF KeepsPromise, Granted!Spec

\* No two runs have a claim to one host's disk, leases that outlive their run included
\* (app.py:490, 627-630).
THEOREM ClaimExclusive == ServerSpec => []OneClaim
BY PromiseKept, PromiseExcludes, PTL
=============================================================================
