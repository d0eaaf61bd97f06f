# Proxmox AIS: a verification development

Proxmox AIS installs bare-metal hosts in a controlled way. An operator approves one
installation of one host; the server hands the Proxmox installer one answer file; the
installed machine boots, enrolls a device key, and a small runner executes the pinned
steps of the run, reports every result and may reboot on the way. The server is a
FastAPI application over SQLite (`provisioner/app.py`, `service.py`, `db.py`), the runner
one Python file with its state in `state.json` (`runner.py`), started by a systemd unit
that the first-boot script installs (`bootstrap.py`).

This directory holds TLA+ modules of the server, of the machine and of what surrounds
them (catalog, configuration, backup, accounts), the TLC configurations that check them,
and TLAPS proofs.

## 1. Inventory

| Component | State | Operations | What makes it correct |
| --- | --- | --- | --- |
| Run lifecycle, server side (`app.py`, `service.py`) | tables `hosts`, `approvals`, `runs`, `run_steps`, `events` | approve, update host, cancel, resume, reconcile; answer, report; enroll, lease, manifest, secrets, events, complete; maintain | one active run and one lease holder per host; an approval is good for one answer; steps in order; an ended run never changes; a cancellation sticks; versions protect the operator's decisions; approvals expire |
| Device authentication (`app.py` `device`) | `nonces`, `runs.device_key` | admit a signed request, in a transaction before the handler's | nothing is done for a run that ended after the admission |
| Runner (`runner.py`) | `state.json`: status, checkpoints, event queue, reboot and version counters | start, enroll, manifest, step phases, reboot, halt, review, cancel, finish | no repeated apply, no false success, no lost result, recovery only by an operator, a completion is heard of, no run just hangs |
| Bootstrap and systemd unit (`bootstrap.py`) | files under `/etc/pve-provisioner`, the enabled unit | install once, restart on failure | the runner is started again until it ended |
| Answer rendering and identity matching (`service.py`) | `discoveries` | match hardware, render TOML | the answer is for the approved host |
| Log channel and retention (`runner.py` `log`, `event`, `flush`; `app.py` `logs`, `events`) | `logs`, `events`, two queues in `state.json` | append, send, acknowledge, prune | nothing lost, repeated or reordered; numbers and limits block no queue |
| Configuration resolution (`resolve`, `deep_merge`) | none | merge layers, check locks, keep origins | the last writer wins, origins are shown, locks hold |
| Catalog (profiles, modules, publish) | `profiles`, `modules`, the artifact directory | create versions, publish, preview, approve | published versions never change, four eyes, the run installs what was shown for its version of the host |
| Backup and restore (`cli.py`) | data directory, its lock, `RESTORE_FAILED` | backup, restore, start | a backup is complete, a restored database grants nothing, nothing is overwritten |
| Users, sessions, roles, rate limits | `users`, `sessions`, the lock of the data directory | first account, log in and out, create, disable | one first account, a disabled account is out |
| Groups, media, secrets, audit | `groups`, `iso_records`, `secrets`, `audit` | create, revoke, record | gates of the installer's requests |
| Web interface, builtin step modules, container build and CI | - | - | - |

How they interact. Operators and the installer call handlers that each run one
`BEGIN IMMEDIATE` transaction. The runner only ever calls the server: it renews a lease
before every safe transition, and learns from the answer (`run`, `wait`, `stop`,
`revoked`) what operators decided. Its results travel in an ordered queue of events with
sequence numbers; the server skips what it stored and applies the rest of a batch whole
or not at all. Housekeeping runs every 30 seconds.

What is hard here: a request that is admitted in one transaction and handled in another;
leases and answers that cannot be recalled; crashes and power failures between any two
saves of the runner; calls lost before or after the server acted; a queue in which one
refused event blocks all that follow; two views of the same run (the server's rows, the
runner's checkpoints) changed by different actors; deadlines that pass while answers are
under way. `PROJECT.json` lists these hazards one by one, at their lines, with the
properties that cover them.

## 2. Modules

| Module | What it models |
| --- | --- |
| `RunLifecycle` | the server: one action per handler, over rows of the joined tables |
| `Provisioning` | one machine with its runner, disk, kernel and network, composed with `RunLifecycle` |
| `InstallGrant` | abstract: what the server promises about the permission to erase a disk |
| `GrantRefinement` | the mapping from `RunLifecycle` to `InstallGrant` |
| `Delivery` | log chunks and events on their way from the runner to the database |
| `Catalog` | modules and profiles from draft to publication, preview and approval |
| `Resolution` | the merge of configuration layers, locks and origins |
| `BackupRestore` | backup of a running service, restores and starts in a new directory |
| `Accounts` | the first account, sessions, overlapping requests |
| `RunLifecycle_proofs`, `Provisioning_proofs`, `GrantRefinement_proofs`, `Delivery_proofs`, `BackupRestore_proofs`, `Catalog_proofs`, `Resolution_proofs`, `Accounts_proofs` | inductive invariants and theorems |
| `MC...` | instances for TLC: model values, constants that are functions, views, symmetry |

`Provisioning` extends `RunLifecycle`; `GrantRefinement` instantiates `InstallGrant`. The
others stand alone: they share no state with a run but the one variable named in them
(`run.active` in `Catalog`).

### RunLifecycle

`run[r]` is the row of `runs` joined with its approval and its steps; `host[h]` has the
columns `status` and `blocked`; `latest[h]` is what `ORDER BY created_at DESC LIMIT 1`
finds. `admitted[r]` holds the device keys with which a request passed `device`: the
handler of such a request may run at any later time, because `device` commits before the
handler begins. `held[r]` is a history variable: the latest expiry among the leases the
device has been given, which is not what the row remembers.

| Action | Code |
| --- | --- |
| `UpdateHost`, `Approve` | `service.py` `update_host`, `approve` |
| `CancelRun`, `ResumeRun`, `ReconcileRun` | `app.py` `cancel_run`, `resume_run`, `reconcile_run` |
| `ServeAnswer`, `InstallerReport` | `service.serve_answer`, `app.py` `installer_report` |
| `Enroll`, `Device`, `Lease`, `ReportEvent`, `Complete` | `app.py` `enroll`, `device`, `lease`, `events` with `apply_event`, `complete` |
| `Maintain` | `service.maintain`, from the loop and before approvals and answers |
| `Tick` | time |

Here the device may send any event at any time with any admitted key: the server's
properties do not rest on the runner being well behaved. `SecretsServed` and
`LeaseInForce` are the conditions of the endpoints that change no row; `Provisioning`
uses them. `ServeAnswer` begins where the request has been matched with a host: which
hardware that is, and the text of the answer, are left out.

The columns of a row are those that decide something. `last_seen` is not one of them: a
lease and a batch of events write it on the row of a run that ended, too, if they were
admitted before (`app.py:631`, `681`). So `TerminalFrozen` and
`StatusChangeBumpsVersion` speak of the other columns: the time a device was last heard
of, its stored events and its logs may change without a new version, also behind the end.

### Provisioning

`disk` is `state.json`. `pc` names the place in `runner.py` between two saves or calls:
the code between two values of `pc` is one action, because a crash inside it finds the
old file or the new one (`atomic_write`). `boot` is the kernel's boot id, and `recorded`
how much of the local queue the server has stored, `MAX(sequence)` relative to the oldest
queued event. `applies` and `resumed` are history variables.

Every call is modelled with its four outcomes (`RenewLease`, `Call`, `Flush`,
`Heartbeat`): answered, refused, lost on the way, and carried out with the answer lost.
The lease is saved before its answer is acted on, so the confirmation of a cancellation
(`ConfirmCancel`) and the end of a halt (`ReviewResume`) are actions of their own, with
room for a crash before them. `Crash` stops the process
at any point, `PowerFail` also changes the boot id; `Start` is the unit starting the
process. The phases of a step may end with any exit code (`CheckPhase`, `ApplyEnd`).
A batch of events is folded over the row (`Applied`) exactly as the server's
transaction does.

| Where `pc` is | Code in `runner.py` |
| --- | --- |
| `bare`, `down`, `off`, `gave.up` | no process: before the bootstrap, between two starts, disabled, the review deadline passed |
| `review.flush`, `review.lease`, `review.resume` | `review` |
| `enroll`, `reboot.return`, `reboot.resume`, `reboot.flushed`, `begin.auth`, `manifest`, `manifest.flush` | `run` before the loop |
| `loop`, `step.auth` ... `step.started`, `check`, `apply.auth`, `apply.start`, `apply`, `step.done`, `step.next` | the loop and `run_step` |
| `reboot.event`, `reboot.flush`, `reboot.auth`, `rebooting` | the planned reboot |
| `halt`, `halt.event`, `halt.flush` | `halt` |
| `cancel`, `cancel.flush`, `cancel.save` | `cancel` |
| `finish.flush`, `finish.complete` | `finish` |

Abstractions. Heartbeats renew the lease, which is modelled; heartbeat events and logs are
left out of the queue. Neither changes a row, and the server takes a heartbeat's event
wherever the run is active, as it must be for every new event, so a batch is refused with
them where it is without. They cannot fill the queue either: a step lasts 14400 seconds at
most with one every 30 (`runner.py:311`, `348`, `446`), begins with a flush, and the limit
is 4096. A flush is one call with the whole queue; the code sends at most 100 events in
one (`runner.py:276`), which is the same for the queues of the model, whose limits are 3
and 4. How batches follow one another is the matter of `Delivery`. Digests, signatures,
manifest validation and the contents of artifacts and secrets always check out. A process
told to stop (SIGTERM) ends at the next `authorize`, which is a `Crash` at that point. The
clocks of server and machine are one. An operator's request carries the current version:
any other is refused without effect. Rate limits and the approval's version checks only
refuse.

### InstallGrant and GrantRefinement

A grant is opened for a host, spent by one answer, bound to one device, extended by spans
that cannot be recalled, stopped, and closed. `Open` asks that nothing of the host may
still be in use: `Claims`. `GrantRefinement` reads a grant off a row: `prepared` is open,
everything from the answer to the end is spent, and `until` is `held`, the lease in the
device's hands, not the row's. `KeepsPromise` is the specification of `InstallGrant` under
this mapping; `ServeAnswer` is `Spend`, `Enroll` is `Bind`, `Lease` is `Extend`, an
accepted `CancelRun` or `ReconcileRun` is `Withdraw`, `Stop` or `Close`, and what only
concerns steps is a stutter.

### Delivery

`queue` and `counter` are the parts of `state.json`; `call` is the one call a runner waits
for, `late` the calls it gave up and the server has yet to handle. `Send`, `Receive` and
`GiveUp` are `flush` with the retries of `API.request`; `Handle` and `HandleLate` are the
handlers, in their transaction. `Receive` also covers the halt on a refusal, after which
the unit starts the runner again with the same file. `Handle` takes a batch or refuses it
for its numbers; `Forbid` refuses it for everything else that `device` and `apply_event`
ask, at any time, for any event, and rolls the whole batch back. When they do is what
`Provisioning` models. Redaction, and chunks longer than the
limit, are left out: a chunk that does not fit is dropped before it gets a number.

### Catalog

A module or profile is a row with its status, author and publisher. `Check` and `Publish`
are the two transactions of `publish_object`. `Plan` is what `resolve` pins for the
profile's steps; `ReadHost` and `ReadPreview` are the two requests of the approval dialog,
`Approve` the comparison of versions and the second resolution. The page sends both
requests at once (`app.js:221`), so they are handled in either order with anything between
them; `at` is a history variable, the version of the host at the preview. The run keeps
whether the two were of one version (`together`).

### Resolution

One resolution: the layers are merged in turn, each with any document an author may write,
in the right shape or not. A document maps paths to the layer a value was written in, or to
`Object`. `Visit` is one round of the loop of `deep_merge`, at any path whose objects have
been entered: the order of a dictionary, which the recursion follows, is one of these
orders, and nothing else of the program runs between them. `Said` is the reference
definition: the values no later layer overwrote. It says nothing of recursion or order;
`LastWriterWins` compares it with what the visits leave.

### BackupRestore

`live` is the running service's directory, `copy` the backup, `target` the new directory.
Every place in `restore` between two effects on the directory is a value of `pc`. A
restore may raise an error or be killed at each of them; the lock goes with the process.
`LookForMarker` and `Start` are apart because `lifespan` looks for `RESTORE_FAILED` before
it asks for the lock.

### Accounts

`Admit` is `current_user` with `roles`, `Handle` the handler behind it, any time later.
`InitCommand` and `InitInserts` are the two halves of `init`, between which it asks for a
name and a password. `overlap` is a history variable: a request was let through while
another was under way. `AdminRemains`, that an administrator is left as long as that never
happened, belongs to no run: where it does happen, two administrators may disable each
other, and no document says they may not.

## 3. Checks

Deadlines are one or two ticks apart, which is enough to put every step before, at and
after every deadline. There is one host everywhere and one device key except in
`RunLifecycle`.

| Run | Shows | Bounds | Distinct states |
| --- | --- | --- | --- |
| `RunLifecycle` | `KeepsPromise`, `AdmittedIsBound`, `ApprovalMatchesRun`, `OneActiveRun`, `HostMirrorsRun`, `OneLeaseHolder`, `StepOrder`, `SuccessIsEarned`, `TerminalFrozen`, `CancelSticks`, `StatusChangeBumpsVersion` | two runs in turn, two devices, two steps (the first optional, the second dependent on it), one boot, one reboot | 214,578 |
| `Machine` | `NoRepeatedApply`, `NoFalseSuccess`, `StepsAgree`, `RebootsCounted`, `EndAgreed`, `NoApplyBegunAfterEnd`, types of server and runner | two steps, one not retry_safe, one reboot, three boots, queue of three; crashes, power failures, passed deadlines, losses; cancel, resume, reconcile | 2,139,265 |
| `Network` | `ReturnAccepted`, `FinishedIsHeard`, `OnlyOperatorResumes` | as `Machine`, no crashes, no passed deadlines, queue of four, blocking as well, two ticks in which a completion is acknowledged again | 186,416 |
| `Settles` | `RunSettles`, `ApprovalRunsOut` | one step, two losses, clock to 3, passed network deadlines, power failures, a cancellation, with fairness | 571,333 |
| `Delivery` | `NothingLost`, `NeverRefused`, `AllDelivered`, types and limits | three chunks and three events, queues of two, batches of two and one, two calls late, refusals at any time, with fairness | 444,457 |
| `BackupRestore` | `BackupComplete`, `RestoreComplete`, `NothingOverwritten` | two module versions, two restores, the service; errors and kills, also within the copy of the database | 32,988 |
| `Catalog` | `FourEyesKept`, `PublishedFrozen`, `ApprovedAsShown`, `PlanExecutable`, types with dense versions | three administrators, one of them an author, two modules, two profiles, three versions of the host, both orders of the page's requests | 1,379,932 |
| `Resolution` | `LastWriterWins`, `OriginShown`, `LocksHold` | two layers and the host, all documents three levels deep, a lock at each path, all orders of the visits | 67,684 |
| `Accounts` | `FirstOnce`, `DisabledIsOut` | three accounts, two sessions | 46,422 |
| `HaltCrash`, `Cancel`, `KilledRestore` | the divergences of section 5 | as small as the counterexample allows | - |

Ten more configurations belong to no regular run, each to be checked by hand with
`tlc -config <name>.cfg <module>`; TLC reports the violation of their one property, and
section 5 says what it means: `StartDeadline` (`MCRunLifecycle`); `RebootCrash`,
`OptionalStep`, `Outage`, `EnrollRetry`, `EnrollOutage` (`MCProvisioning`);
`LogRetention` (`MCDelivery`); `UnmarkedFailure`, `SilentStart` (`MCBackupRestore`);
`BrowserPreview` (`MCCatalog`).

**Views.** `RunLifecycle`, `Machine` and the runs derived from it use a VIEW. It replaces
every deadline by what is left of it and every version by what it is compared with, so
states that differ by a shift of the clock or of the versions count once; handlers
compare deadlines with the clock and versions with each other and nothing else. The view
keeps everything the properties of these runs speak of, the mapping to `InstallGrant`
included: it sees leases by what is left of them. What it leaves out (the
enrollment deadline of an enrolled machine, the step number of a process outside the
loop, the host's copy of the status) no enabled action reads. `MaxTime` and `MaxVersion`
are far from what a state of the view needs; raising either leaves the number of states
as it is. The runs with liveness properties use no view.

**What is claimed of ends.** `NoApplyBegunAfterEnd` is about the start of `apply`. An apply
under way is never interrupted, may last longer than its lease and may outlast a
reconciled run (`runner.py:348`, `403-404`): `docs/operations.md:175-187` tells the operator
to look at the machine first, and no property promises it for him. `RunSettles` leaves an
enrolled run three ways out: an end, a review shown by the server, or a runner that has
halted for good. The last is needed because the server may never hear of the halt: a
`step.started` that is refused blocks the report behind it (`Outage`), and so does the
return from a reboot (`RebootCrash`). `FinishedIsHeard` covers the time in which the server
acknowledges a completion again; after it the runner halts.

**What is claimed of the page.** `ApprovedAsShown` speaks of approvals whose two answers
were of one version of the host. `ApprovedAsDisplayed` speaks of all, and `BrowserPreview`
shows that it is false of the program.

**What is claimed of locks.** `LocksHold` covers the network parameters. At
`disk_setup.lvm` an empty object is accepted (`service.py:166-169`, `251-252`), so a
malformed scalar there is replaced despite a lock.

**Losses.** `MaxLosses` is 300 in `Machine` and `Network`, more than the depth of the
search: the network may lose any call. In `Settles` and `Outage` it is 2, because a
network that loses calls for ever settles nothing.

**Quick.** A lease lasts 900 seconds. No lease runs out between its answer and the start
of `apply` (`runner.py:472-476`), so the clock stands still at `apply.start`. In
`Settles` and `Outage`, where a lease is one tick, it also stands still during the few
calls from the lease answer to the flush of `step.started`, whose retries are bounded far
below 900 seconds; without this the model would let a runner miss its lease for ever.
The other runs let time pass there.

**Queue.** `MAX_EVENTS` is 4096; at 3 a halt meets a full queue, at 4 the refused event,
the halt and a resume fit.

**Symmetry.** Device keys, module versions, restores, administrators who are no authors,
profiles, accounts and sessions are interchangeable in the runs without liveness.

**Deadlock.** In `RunLifecycle` and `Provisioning` it is checked in every run: time goes
on up to `MaxTime`, and operators can always change a host or a machine can always be
asked something in the bounded part. At the bound the actions that carry no time (the
retries of a device, the restarts of the unit, `UpdateHost`) keep the model going. The
other modules may really stop, and their configurations say so: everything is written and
delivered, one resolution is over, all sources are stored and every session has ended,
all restores have returned or failed.

**Fairness.** `ServerFairness`: the maintenance loop (`app.py:84-87`) and time.
`Fairness`: the runner goes on and is started again (`Restart=on-failure`,
`RestartSec=30`), maintenance, time. `Fairness` of `Delivery`: the runner sends again
after each restart, and a runner that is connected again and again has its calls handled
and answered again and again (strong fairness: a call may be given up any number of times
in between); which answer it gets is left open. A run may go on refusing for ever, and
`AllDelivered` then asks only that refused events hold up no log. Nothing is assumed of
operators, the installer or the network, except that `MaxLosses` bounds its losses. The
loop has no exception handler, so `ApprovalRunsOut` rests on its transactions not failing;
this is listed as a hazard.

Every property has a mutant: a changed definition, written above the one it changes, under
which TLC finds the property violated.

## 4. Proofs

**The server.** `RunLifecycle_proofs` proves, for any sets of hosts, runs, keys and boot
ids, any manifest with its dependencies, and any durations (the assumptions
`StepsAssumption`, `TimesAssumption`, `AbsentAssumption` of `RunLifecycle`, which TLC
evaluates in the runs):

| Theorem | Property |
| --- | --- |
| `InvariantHolds` | the inductive invariant `IInv` |
| `TypeCorrect` | `ServerTypeOK` |
| `ApprovalFollowsRun` | `ApprovalMatchesRun` |
| `ActiveRunIsLatest` | `OneActiveRun` |
| `HostFollowsRun` | `HostMirrorsRun` |
| `LeasesExclude` | `OneLeaseHolder` |
| `StepsInOrder` | `StepOrder` |
| `SuccessEarned` | `SuccessIsEarned` |
| `TerminalRowsFrozen` | `TerminalFrozen` |
| `CancellationSticks` | `CancelSticks` |
| `VersionsCount` | `StatusChangeBumpsVersion` |

The argument. None of these invariants is inductive as it stands. `OneLeaseHolder`, for
one, needs that an active row remembers every lease its device may hold
(`LeaseRemembered`), that a run which ended left none in force, and that a host's active
run is its latest. `TerminalFrozen` for a late handler needs that only the row's status
decides, and that a run without a device has admitted nobody (`DeviceKnown`). `IInv`
collects these: `ConsistentRow`, which speaks of one row with the keys admitted for it
and the lease held for it, and three conjuncts that relate rows to hosts. `RowStep` and
`QuietStep` lift a change of one row to the whole invariant; `Carried` says when a row
whose steps are left alone stays consistent. Each handler then has one lemma, events are
split into those about a step and those about the run, and `NextHolds` combines them.
The action properties follow from `RowsMove`, which bounds what any step may do to any
row. TLC found `IInv` to hold on the instance of `RunLifecycle` before it was proved.

**The refinement.** `GrantRefinement_proofs` shows that the promise is worth making:
`PromiseExcludes`, whoever keeps it never lets two runs have a claim to one host at once.
The argument uses the steps of `InstallGrant` only. And the server keeps it: `PromiseKept`
is `ServerSpec => KeepsPromise`, with one lemma per handler that names the abstract step it
is, or a stutter. Two things are needed beyond `IInv`: `AdmittedBound`, because a handler
extends the lease of the key that was admitted earlier, not of one it asks for; and that an
active run is its host's latest, because `Approve` looks only at that one while `Open` asks
about all. `ClaimExclusive`, exclusiveness for the server's own rows, follows from both.

**The runner.** `Provisioning_proofs` proves, for any manifest, number of boots, queue
limit, faults, operators and losses:

| Theorem | Property |
| --- | --- |
| `RunnerInvariant` | the inductive invariant `RunnerInv` of the machine alone |
| `AppliedOnce` | `NoRepeatedApply` |
| `VerifiedForGood` | a succeeded checkpoint is never left again |
| `MachineInvariant` | the inductive invariant `MachineInv` of machine and server |
| `StateTyped` | `TypeOK` |
| `SuccessIsReal` | `NoFalseSuccess` |
| `RebootsAgree` | `RebootsCounted` |
| `EndsAgree` | `EndAgreed` |
| `NothingBegunAfterEnd` | `NoApplyBegunAfterEnd` |
| `StepsInvariant` | the inductive invariant `StepsInv`, next to the two above |
| `NoResultLost` | `ResultsReported`: an ended step is recorded with its result, or its event is queued |
| `MachineAndServerAgree` | `StepsAgree`: `ResultsReported`, and the step at hand is the one served |
| `ReturnTaken` | `ReturnAccepted`, where neither process nor power is lost |
| `ResumedByOperator` | `OnlyOperatorResumes`, where nothing crashes and no network deadline passes |

The first part is about the machine alone, whatever the server answers. `NoRepeatedApply`
is not inductive: a second apply starts with a process that forgot the first, so the
invariant says that what was begun has left a checkpoint (`Marked`), that a process inside
a step is at one that has not ended (`AtHand`), and that one about to apply is at a new
step or a repeatable one (`FreshOrSafe`). One lemma per group of actions; most keep the
checkpoints and only move the process (`KeptStep`).

The second part relates `state.json` to the server's rows, and needs both invariants at
once: what the machine may queue depends on where its process is, and what the server
makes of the queue depends on its row. None of its properties is inductive, because
all of them are about a result on its way: it is in the checkpoints, in the queue, perhaps
already stored with the answer lost, or in the row. `MachineInv` therefore has a conjunct
for each kind of news and for every place it may be at: `ResultsInv` (an event of a
succeeded step is queued only for a checkpoint that says so, and a checkpoint not yet
recorded has its event in the part of the queue the server lacks), `RebootsInv` (the
report of a reboot is the first in the queue, and until the server has it its count is
below the machine's), `EndsInv` (a cancellation the machine saved has its report last in
the queue or is recorded), `LeasedApply` (whoever is about to
apply holds a lease of an active run), next to the types, the server's `IInv`, and what
no one may have touched before the machine enrolled (`Untouched`).

A batch of events is applied by a recursive function over the queue. What it does to a row
is proved by induction on the length of the batch: `IInv` and the three relations hold
after every event of it, and the last row is the one the transaction stores. The actions
of `Next` are then put into eight kinds, by what they do to queue, results, reboots and
end: those that touch none of them (`Ordinary`), a batch taken and confirmed (`Taken`),
taken with the answer lost (`TakenUnheard`), a step that ended (`StepDone`), a planned
reboot saved (`RebootSaved`) and reported (`RebootTold`), a cancellation confirmed
(`Confirmed`), a completion (`Finished`). Every action is shown to be of one kind, and
every conjunct to survive every kind. TLC found the invariant to hold on the instance of
`Machine` before it was proved.

The third part is about one planned reboot. `ReturnTaken` assumes `NoCrash`, that
`Faults` holds neither `"process"` nor `"power"`; the network may fail and answers may be
lost. Without it the property is false, as `RebootCrash` shows (section 5): a process
killed between the checkpoint and its event never reports the departure, and the return is
refused. `ReturnAccepted` speaks of one place, after the flush
that precedes the return, and the report queued there was written some steps earlier, so
`ReturnInv` follows it from the checkpoint on. `OnTheWay` says that while the machine is
away the server has yet to hear of the reboot, with its report alone in the queue, or
waits for the return from exactly that boot. `Returned` says what both reports then meet,
next to `BootAt` (the kernel that comes back is another one), `RebootAt` and `EnrolledAt`
(where a process with that status may be), `KeyKnown` (no other key gets hold of the run)
and `AtWork`: from the start of a step to its checkpoint the row of an active run reads
"running", since the server took the report of the start before `check` and nothing was
queued since. Only `MachineInv` gives that the budget has room for the reboot.

The fourth part is about a halt and the resume. The runner tells a resume by the answer
"run" and a version that counted up (`runner.py:544`), and its own events count the
version up as well. That the answer is due to an operator follows from what the server had
heard before: `HaltTold` says of a run that is still active and not cancelled that the
server knows of the halt and shows it or was told to resume since (`Heard`), or that the
report of the halt is the last in the queue and not yet stored (`Unheard`), or that it is
about to be queued (`Halting`). The lease is asked for behind a flush, with the queue
empty (`ShortQueue`), so only `Heard` is left there. `NotHalted` says that before a halt
no event waits that would put the run under review, `CancelSeen` that a runner confirms
only a cancellation it was told of, `Turning` that what the answer to the lease said still
stands when the runner acts on it. TLC found `ReviewInv` to hold before it was proved.
`ResumedByOperator` assumes `Undisturbed`: no crash, no network deadline that passes, and
room for three events, which is what a planned reboot may leave in the queue and the
report of the halt after it (the code's `MAX_EVENTS` is 4096, `runner.py:35`). Without
these the property is false. With crashes `HaltCrash` refutes it, as does a power failure
in the same place. In a queue of one the report of the halt may find no room (two suffice
on the instance of `Network`). Where network deadlines keep passing, each repeated halt
queues a report of its own, in a queue of any size, until there is no room for the last
one; the resume of the previous halt is then taken for one of this halt. That is harmless,
an operator did resume the run, but it is not what the property says.

The fifth part is about the manifest as both sides tell it. The server serves secrets for
the first step that is not settled in its rows (`app.py:654-664`), the runner asks for the
step its loop is at; `MachineAndServerAgree` says that these are the same step, whatever is
lost, refused, crashes or is resumed, and that no result is lost on the way.
`CurrentStepServed` speaks of one place in the loop, and a result may be at the machine, in
the queue, stored with the answer lost, or in the row, so neither part is inductive.
`StepsInv` has two conjuncts. `PlacesInv`: while the loop runs, every step behind it has
ended, a required one with success (`Done`), and where the process has just had a flush
answered the queue is empty. `QueueInv`: only the oldest event tells of a step, a queued
`step.started` is about one that has not ended, and a step that failed is recorded so or
its report is that oldest event. Behind an answered flush, then, every step before the one
at hand is settled in the row too. The step at hand itself may be settled there already in
one case, and the property names it: a resume turns a failed step into an interrupted one
on the machine only, so an optional step the server knows as failed is taken up again while
the server has gone past it. That is the divergence `OptionalStep` shows (section 5).
Nothing is assumed about faults. TLC found both conjuncts to hold on the instance of
`Machine` before they were proved.

**Log channel.** `Delivery_proofs` proves `DeliveryInvariant`, `DeliveryTyped`,
`DeliveredOnce` (`NothingLost`) and `NoBatchRefused` (`NeverRefused`), for any sizes of
batches and queues and any number of lost, repeated and late calls. `NothingLost` says
nothing of batches under way, so it cannot be inductive: an old batch handled late must
neither repeat nor skip anything. `DeliveryInv` identifies an entry by its number. The
queue holds the last numbers given out without a gap (`QueueInv`), the table the first
ones, and both together all of them (`ReceivedInv`); and a batch on its way, whether the
runner waits for it or not, is a row of consecutive entries that starts at or before the
first one the table lacks. The table only grows, so this stays true while the batch waits,
and it is what the handler asks for: what it has is the same, the rest follows with no gap.
The theorems assume `~EarlyRetention`, that retention does not delete the log rows of a
run still at work. This is not a matter of proof: `LogRetention` shows that without it
both properties fail (section 5).

**Backup and restore.** `BackupRestore_proofs`: `BackupsComplete`, `RestoresComplete`,
`HolderAlone`, `DatabaseStays`, for any number of restores, module versions and
credentials. `RestoreComplete` is not inductive: what protects a directory after the lock
is released is that it is not empty. The invariant follows owners, restores that copied
the database and have not failed: `OwnerAlone`, and `Owned`, what an owner's directory
holds. For `BackupComplete` it is that the walk starts after the snapshot and that a file
is there before its row (`RowsHaveFiles`).

**Catalog.** `Catalog_proofs`: `FourEyesHold`, `PublishedStays` and `ApprovedShown`, for
either order of the page's two requests. `ChecksHold` carries what the first transaction
of a publication found out to the second: a draft keeps its author. `ScreenTrue` says that
the plan on the screen is what resolving anew gives while the host has the version it had
at the preview: the profile and its modules are published, hence frozen (`PlanFrozen`).
`CatalogTypes` proves the types with the numbers of versions, which `MAX(version)+1` gives
out: the numbers of a name are exactly those up to the count of its rows (`NextNumber`).
`PlansExecutable` proves `PlanExecutable`: the step a dependency is resolved to is the
last one before it with that name (`seen_names`), so it exists and comes earlier, and what
a plan was made of is published and has its artifact (`PlanInv`).

**Resolution.** `Resolution_proofs`: `LastWriterStands`, `OriginsShown`, `LocksKept`, for
any number of layers, any documents over the paths and any keys in the filter. None of the
properties speaks of a merge under way. `MergeInv` does: what has been visited stands as
the document at hand says (`Visited`), and of what the layers before it said the rest is
left that no visited path takes (`Spared`). Since a path is visited after the objects it
lies under, nothing visited is lost again. `SaidSplit` adds one layer to the reference
definition; `SaidApart`, that no value is said below another one, is what `LocksKept`
needs: an override that passes the lock and takes a locked value would leave an object
there, and the shape then wants a value below it, which only an earlier layer could have
written.

**Accounts.** `Accounts_proofs`: `TypeCorrect`, `FirstAlone`, `DisabledStaysOut`,
`AdminStays`, which states `AdminRemains`. `LockKept` says that `init` holds the lock from
its look to its insertion; `Alone`, that a lone request finds its sender an administrator
still.

**Assumptions.** Apart from `~EarlyRetention`, for `ReturnTaken`, `NoCrash`, and for
`ResumedByOperator`, `Undisturbed`, the theorems need only the assumptions named in the
modules, which TLC evaluates in the runs. `MachineAssumption` numbers boot ids without
gaps: a boot id is new at each boot, and nothing compares two of them but for equality.
`CatalogAssumption` says that no name is the absent one, as the models ask for at least
one character (`models.py:98-99`). `MaxTime` and `MaxVersion` are constants of the
specifications, so the theorems hold for every value of them.

**Induction.** The library's induction rules take the induction hypothesis as a parameter,
which the installed provers cannot instantiate. Where a proof needs induction over a
sequence or a number, it goes by the least counterexample: `LeastNumber` and `UpTo` of
`Provisioning_proofs` draw it from the well-foundedness of the naturals, and the recursive
function of `AppliedTo` is shown to exist by the same argument.

**Only model-checked.** The liveness properties `RunSettles`, `ApprovalRunsOut` and
`AllDelivered`, which the prover does not handle under fairness, and `FinishedIsHeard`.
Every other property of a passing run is stated by a theorem.

## 5. What the checks found

The first three are regular runs, the others configurations to be checked by hand.

| Configuration | Code | Says otherwise |
| --- | --- | --- |
| `HaltCrash` | a crash between the two saves of `halt` (`runner.py:519`) lets the runner take its own events for a resume | `runner.py:545`, only an explicit resume permits recovery |
| `Cancel` | a cancellation that arrives while `step.started` is queued is never read: the refused event is flushed before every lease request (`runner.py:539`) | Feinkonzept:151, cancelling stops the runner at the next safe transition |
| `KilledRestore` | the database is copied before its credentials are invalidated and only an exception writes the marker, so a restore killed in between is started with every old credential (`cli.py:221`) | `cli.py:172`, no resurrected machine credentials |
| `StartDeadline` | only `prepared` runs expire; a run whose machine never reports stays open and blocks its host (`service.py:413`) | Feinkonzept:226, `expired` also covers the deadline for starting |
| `RebootCrash` | a crash between the checkpoint of a planned reboot and its event (`runner.py:484`) makes the return be refused, and the queue with it | Feinkonzept:199, the same run goes on after the boot |
| `OptionalStep` | after a resume the runner takes up a failed optional step whose secrets the server does not serve (`app.py:660`) | `runner.py:545`, failed steps become interrupted steps |
| `Outage` | a `step.started` queued during an outage longer than a lease is refused for ever, with the halt behind it (`runner.py:539`) | Feinkonzept:197, changes to manual review |
| `EnrollRetry` | `enroll` looks at the window before it looks for the key: a bound device whose answer was lost is refused with 410 (`app.py:570`) | Feinkonzept:417, repeating with the same key works |
| `EnrollOutage` | a halt before enrollment starts in `review`, whose signed flush is refused with 401 for ever (`runner.py:539`) | Feinkonzept:197, changes to manual review |
| `LogRetention` | a stored chunk whose acknowledgement was lost is deleted by retention; its repetition is a gap, and events wait behind it (`service.py:421`) | Feinkonzept:201, the receipt is returned again |
| `UnmarkedFailure` | the copy of the database stands before the `try` that writes the marker (`cli.py:221`) | operations.md:181, a failed restore leaves `RESTORE_FAILED` |
| `SilentStart` | the marker is looked for before the lock is taken (`app.py:92`) | `cli.py:236`, never start it silently |
| `BrowserPreview` | host and preview are asked for at once, so the version compared may be newer than the plan shown (`app.js:221`) | `service.py:271`, the preview is to be checked again |

`Network` shows that `HaltCrash` and `RebootCrash` need a crash; `Machine` shows that
even with them nothing is applied twice and no success is false.

## 6. Not modelled

The rate limiter (a list in memory, used by several threads without a lock), CSRF tokens,
password hashing, signatures, clock skew and the nonce table: they refuse requests and no
property speaks of the refusal. The validation of single values (addresses, disks, file
systems, schemas) and the text of answer files. Creating groups, media and secrets, the
audit log and discoveries: single rows that no other handler changes or reads. The
settings are constants, so a service restarted with other defaults between preview and
approval is left out. Web interface except the approval dialog, builtin step modules
(shell scripts, any exit code), settings and request models, CI: outside the program's
own control logic. Two machines that claim one run are modelled from the server's side
only (`RunLifecycle`, with two keys).

## 7. Plan

Done: the modules of section 2 with their runs, the refinement of `InstallGrant`, and the
proofs of section 4. What is left, in this order:

1. `RunnerRecovery`, an abstract specification of the runner's steps (attempt at most
   once unless repeatable), implemented by `Provisioning`.
2. Delayed duplicates of a signed request and the nonce window.
