------------------------ MODULE Provisioning_proofs ------------------------
(***************************************************************************)
(* One machine under provisioning, for any manifest, any number of boots    *)
(* and any behaviour of crashes, power, network, operators and the clock.   *)
(*                                                                          *)
(* The first part is about the runner alone: a step that must not be        *)
(* repeated is applied at most once.  The checkpoint "applying" is saved    *)
(* before the first mutation, no save goes back from it to "none", and      *)
(* between the entry of a step and the start of apply the process only goes *)
(* on with a step whose checkpoint it has read.  Nothing is assumed of what *)
(* the server answers: its rows do not occur in RunnerInv.                  *)
(*                                                                          *)
(* The second part relates state.json to the server's rows.  What a batch   *)
(* of events does to a row is shown by induction over the events, with the  *)
(* invariant of RunLifecycle_proofs for every row on the way.  The actions  *)
(* of Next are then put into eight kinds, by what they do to the queue, the *)
(* results, the reboots and the end of the run, and every part of the       *)
(* invariant MachineInv is shown to survive each kind.                      *)
(*                                                                          *)
(* The third part follows one planned reboot, from the saved checkpoint to  *)
(* the flush after it, where neither the process nor the power is lost on   *)
(* the way: what is queued and what the server has heard always fit.        *)
(*                                                                          *)
(* The fourth part follows a halt to the resume: where nothing crashes, no  *)
(* network deadline passes and the queue has room, the server hears of the  *)
(* halt before the runner can take any change of the run for a resume.      *)
(*                                                                          *)
(* The fifth part shows that both tell the same of the steps, whatever is   *)
(* lost or crashes: the loop leaves only ended steps behind, and only the   *)
(* oldest queued event tells of a step, so that behind an answered flush    *)
(* the first step not settled for the server is the one at hand.            *)
(***************************************************************************)
EXTENDS Provisioning, RunLifecycle_proofs, WellFoundedInduction, SequenceTheorems

\* The keys of state.json.
Fields == {"status", "steps", "queue", "enrolled", "manifest", "rebootBoot",
           "rebootCount", "runVersion", "haltedVersion", "netFailed"}

\* Where the process is in run_step before it knows whether to apply ...
Before == {"step.auth", "step.flush", "step.secrets", "step.start", "step.started", "check"}

\* ... where it is about to ...
Decided == {"apply.auth", "apply.start"}

\* ... and where the step at hand has been applied or left behind.
Behind == {"step.done", "step.next"}

InStep == Before \cup Decided \cup {"apply"} \cup Behind

Ended == {"succeeded", "failed"}

Shaped ==
    /\ DOMAIN disk = Fields
    /\ disk.steps \in [Steps -> Checkpoints]
    /\ applies \in [Steps -> 0..2]
    /\ cur \in Nat \ {0}

\* What was begun has left a checkpoint.
Marked == \A s \in Steps : applies[s] # 0 => disk.steps[s] # "none"

\* The step at hand is one of the manifest, and one that has not ended until it is behind.
AtHand ==
    /\ pc \in InStep => cur \in Steps
    /\ pc \in InStep \ Behind => disk.steps[cur] \notin Ended

\* Where a step is about to be applied it is new, or it may be repeated.
FreshOrSafe == pc \in Decided => disk.steps[cur] = "none" \/ cur \in RetrySafe

RunnerInv == Shaped /\ Marked /\ AtHand /\ FreshOrSafe /\ NoRepeatedApply

\* A step that was verified and checkpointed is never opened again, not by a crash, a
\* reboot or a resume (runner.py:547-549 opens failed steps only).
VerifiedStays ==
    [][\A s \in Steps : disk.steps[s] = "succeeded" => disk'.steps[s] = "succeeded"]_vars

LEMMA RunnerInit == Init => RunnerInv
PROOF
  <1> SUFFICES ASSUME Init PROVE RunnerInv
    OBVIOUS
  <1>1. Shaped /\ Marked /\ NoRepeatedApply
    BY DEF Init, Shaped, Fields, Checkpoints, Marked, NoRepeatedApply
  <1>2. AtHand /\ FreshOrSafe
    BY DEF Init, AtHand, FreshOrSafe, InStep, Before, Decided, Behind
  <1> QED
    BY <1>1, <1>2 DEF RunnerInv

-----------------------------------------------------------------------------
(* How a step of the runner can end *)

\* The state to be saved has the checkpoints of the state on disk.
Same(d) == DOMAIN d = Fields /\ d.steps = disk.steps

\* What most steps do: the checkpoints stay, and the process goes to a given place.
Kept(places) ==
    /\ DOMAIN disk' = Fields /\ disk'.steps = disk.steps
    /\ pc' \in places
    /\ UNCHANGED <<cur, applies>>

\* Places outside run_step where a step of the runner may end besides the one it aims at.
Exits == {"down", "halt", "halt.event", "cancel", "cancel.flush"}

LEMMA HaltEnds ==
    ASSUME NEW d, DOMAIN d = Fields, Halt(d)
    PROVE  DOMAIN disk' = Fields /\ disk'.steps = d.steps /\ pc' \in Exits
PROOF
  BY DEF Halt, Fields, Exits

LEMMA ReportEnds ==
    ASSUME NEW d, NEW type, NEW next, DOMAIN d = Fields, Report(d, type, next)
    PROVE  DOMAIN disk' = Fields /\ disk'.steps = d.steps /\ pc' \in Exits \cup {next}
PROOF
  <1>1. CASE ~QueueFull(d)
    <2> DEFINE e == Event(type, StepOf(type), BootOf(type))
    <2>1. disk' = [d EXCEPT !.queue = Append(@, e)] /\ pc' = next
      BY <1>1 DEF Report, Goto
    <2> QED
      BY <2>1 DEF Fields
  <1>2. CASE QueueFull(d)
    BY <1>2 DEF Report, Fields, Exits
  <1> QED
    BY <1>1, <1>2

LEMMA FailureEnds ==
    ASSUME NEW d, NEW next, DOMAIN d = Fields, NetworkFailure(d, next)
    PROVE  DOMAIN disk' = Fields /\ disk'.steps = d.steps /\ pc' \in Exits \cup {next}
PROOF
  <1>1. CASE disk' = [d EXCEPT !.netFailed = TRUE] /\ Goto(next)
    BY <1>1 DEF Goto, Fields
  <1>2. CASE Halt(d)
    BY <1>2, HaltEnds
  <1> QED
    BY <1>1, <1>2 DEF NetworkFailure

LEMMA LostEnds ==
    ASSUME Shaped, Lost
    PROVE  DOMAIN disk' = Fields /\ disk'.steps = disk.steps /\ pc' \in Exits
PROOF
  <1>1. DOMAIN disk = Fields
    BY DEF Shaped
  <1>2. NetworkFailure(disk, "down")
    BY DEF Lost
  <1> QED
    BY <1>1, <1>2, FailureEnds DEF Exits

LEMMA RefusedEnds ==
    ASSUME Shaped, Refused
    PROVE  DOMAIN disk' = Fields /\ disk'.steps = disk.steps /\ pc' \in Exits
PROOF
  BY HaltEnds DEF Shaped, Refused

\* authorize, run, run_step: a flush keeps the checkpoints.
LEMMA FlushingKeeps ==
    ASSUME Shaped, NEW at, NEW next, Flushing(at, next)
    PROVE  pc = at /\ Kept(Exits \cup {next})
PROOF
  <1>1. pc = at /\ UNCHANGED <<cur, applies>> /\ Flush(next, Lost, Refused)
    BY DEF Flushing
  <1>2. CASE Goto(next) /\ UNCHANGED disk
    BY <1>1, <1>2 DEF Goto, Kept, Shaped
  <1>3. CASE disk' = [disk EXCEPT !.queue = <<>>] /\ Goto(next)
    BY <1>1, <1>3 DEF Goto, Kept, Shaped, Fields
  <1>4. CASE Lost
    BY <1>1, <1>4, LostEnds DEF Kept
  <1>5. CASE Refused
    BY <1>1, <1>5, RefusedEnds DEF Kept
  <1> QED
    BY <1>1, <1>2, <1>3, <1>4, <1>5 DEF Flush

LEMMA CancelEnds ==
    ASSUME Shaped, Cancel(disk)
    PROVE  DOMAIN disk' = Fields /\ disk'.steps = disk.steps /\ pc' \in Exits
PROOF
  <1> DEFINE d == [disk EXCEPT !.status = "cancellation_pending"]
  <1>1. DOMAIN d = Fields /\ d.steps = disk.steps
    BY DEF Shaped, Fields
  <1>2. Report(d, "run.cancelled", "cancel.flush")
    BY DEF Cancel
  <1> HIDE DEF d
  <1> QED
    BY <1>1, <1>2, ReportEnds DEF Exits

LEMMA LeasedSame == Shaped => Same(Leased)
PROOF
  BY DEF Shaped, Same, Leased, Fields

\* Where the process goes with the answer of the server.
LEMMA AfterLeaseAt ==
    ASSUME NEW next
    PROVE  /\ AfterLease(next) \in {next, "cancel", "halt", "down"}
           /\ LeaseAction(R) = "run" => AfterLease(next) = next
           /\ LeaseAction(R) # "run" => AfterLease(next) \in {"cancel", "halt", "down"}
           /\ AfterLease(next) = "cancel" /\ next # "cancel" => LeaseAction(R) = "stop"
PROOF
  BY DEF AfterLease

LEMMA AfterAnswerAt ==
    /\ AfterAnswer \in {"cancel", "review.resume", "down"}
    /\ AfterAnswer = "cancel" => LeaseAction(R) = "stop"
    /\ AfterAnswer = "review.resume" => ResumeSeen
PROOF
  BY DEF AfterAnswer

LEMMA AuthorizeKeeps ==
    ASSUME Shaped, NEW at, NEW next, Authorize(at, next)
    PROVE  pc = at /\ Kept(Exits \cup {next})
PROOF
  <1>1. pc = at /\ UNCHANGED <<cur, applies>>
    BY DEF Authorize
  <1>2. DOMAIN Leased = Fields /\ Leased.steps = disk.steps
    BY LeasedSame DEF Same
  <1>3. CASE disk' = Leased /\ Goto(AfterLease(next))
    BY <1>1, <1>2, <1>3, AfterLeaseAt DEF Goto, Kept, Exits
  <1>4. CASE Lost
    BY <1>1, <1>4, LostEnds DEF Kept
  <1>5. CASE Refused
    BY <1>1, <1>5, RefusedEnds DEF Kept
  <1> QED
    BY <1>3, <1>4, <1>5 DEF Authorize, RenewLease

-----------------------------------------------------------------------------
(* What steps do to the invariant *)

Verified == \A s \in Steps : disk.steps[s] = "succeeded" => disk'.steps[s] = "succeeded"

\* The process stays where it is in run_step, goes on in it without a decision, or leaves.
Follows ==
    /\ pc' \in Before => pc \in Before
    /\ pc' \in Decided => pc \in Decided
    /\ pc' = "apply" => pc = "apply"
    /\ pc' \in Behind => pc \in InStep

\* Steps that leave the checkpoints alone.
LEMMA QuietRunner ==
    ASSUME RunnerInv, DOMAIN disk' = Fields, disk'.steps = disk.steps, UNCHANGED <<cur, applies>>,
           Follows
    PROVE  RunnerInv' /\ Verified
PROOF
  <1>1. Shaped' /\ Marked' /\ NoRepeatedApply' /\ Verified
    BY DEF RunnerInv, Shaped, Marked, NoRepeatedApply, Verified
  <1>2. AtHand' /\ FreshOrSafe'
    BY DEF RunnerInv, AtHand, FreshOrSafe, Follows, InStep, Before, Decided, Behind
  <1> QED
    BY <1>1, <1>2 DEF RunnerInv

\* Steps that leave run_step, or start the process, without touching a checkpoint.
LEMMA LeavingStep ==
    ASSUME RunnerInv, DOMAIN disk' = Fields, disk'.steps = disk.steps, UNCHANGED applies,
           cur' \in Nat \ {0}, pc' \notin InStep
    PROVE  RunnerInv' /\ Verified
PROOF
  <1>1. Shaped' /\ Marked' /\ NoRepeatedApply' /\ Verified
    BY DEF RunnerInv, Shaped, Marked, NoRepeatedApply, Verified
  <1>2. AtHand' /\ FreshOrSafe'
    BY DEF AtHand, FreshOrSafe, InStep
  <1> QED
    BY <1>1, <1>2 DEF RunnerInv

\* Steps that save the outcome of the step at hand.
LEMMA OutcomeStep ==
    ASSUME RunnerInv, pc \in InStep \ Behind, NEW status \in Checkpoints \ {"none"},
           DOMAIN disk' = Fields, disk'.steps = [disk.steps EXCEPT ![cur] = status],
           UNCHANGED <<cur, applies>>, pc' \notin InStep \ Behind
    PROVE  RunnerInv' /\ Verified
PROOF
  <1>1. cur \in Steps /\ disk.steps[cur] \notin Ended
    BY DEF RunnerInv, AtHand
  <1>2. Shaped' /\ Marked' /\ NoRepeatedApply'
    BY <1>1 DEF RunnerInv, Shaped, Marked, NoRepeatedApply
  <1>3. Verified
    BY <1>1 DEF RunnerInv, Shaped, Verified, Ended
  <1>4. AtHand' /\ FreshOrSafe'
    BY <1>1 DEF AtHand, FreshOrSafe, InStep, Before, Decided, Behind
  <1> QED
    BY <1>2, <1>3, <1>4 DEF RunnerInv

-----------------------------------------------------------------------------
(* The start of the process *)

LEMMA StartKeeps == RunnerInv /\ (Bootstrap \/ Start) => RunnerInv' /\ Verified
PROOF
  <1> SUFFICES ASSUME RunnerInv, Bootstrap \/ Start PROVE RunnerInv' /\ Verified
    OBVIOUS
  <1>1. Shaped
    BY DEF RunnerInv
  <1>2. CASE Bootstrap
    <2>1. UNCHANGED <<disk, cur, applies>> /\ pc' = "down"
      BY <1>2 DEF Bootstrap
    <2> QED
      BY <1>1, <2>1, LeavingStep DEF Shaped, InStep, Before, Decided, Behind
  <1>3. CASE Start
    <2>1. UNCHANGED <<disk, applies>> /\ cur' = 1 /\ pc' \in {StartAt, "gave.up"}
      BY <1>3 DEF Start, Goto
    <2>2. StartAt \notin InStep
      <3>1. AfterReview \in {"begin.auth", "enroll"}
        BY DEF AfterReview
      <3>2. StartAt \in {"off", "cancel.flush", "review.flush", "finish.flush", "reboot.auth",
                         "reboot.return", AfterReview}
        BY DEF StartAt
      <3> QED
        BY <3>1, <3>2 DEF InStep, Before, Decided, Behind
    <2>3. "gave.up" \notin InStep
      BY DEF InStep, Before, Decided, Behind
    <2> QED
      BY <1>1, <2>1, <2>2, <2>3, LeavingStep DEF Shaped
  <1> QED
    BY <1>2, <1>3

\* Shared by the steps that end in one of a few places and keep the checkpoints.
LEMMA KeptStep ==
    ASSUME RunnerInv, NEW places, Kept(places),
           \/ places \cap InStep = {}
           \/ pc \in Before /\ places \cap InStep \subseteq Before
           \/ pc \in Decided /\ places \cap InStep \subseteq Decided
           \/ pc \in InStep /\ places \cap InStep \subseteq Behind
    PROVE  RunnerInv' /\ Verified
PROOF
  <1>1. /\ Before \cap Decided = {} /\ Before \cap Behind = {} /\ Decided \cap Behind = {}
        /\ "apply" \notin Before \cup Decided \cup Behind
    BY DEF Before, Decided, Behind
  <1>2. pc' \in places
    BY DEF Kept
  <1>3. pc' \in InStep => pc' \in places \cap InStep
    BY <1>2
  <1>4. Follows
    BY <1>1, <1>3 DEF Follows, InStep
  <1> QED
    BY <1>4, QuietRunner DEF Kept

LEMMA ExitsLeave == Exits \cap InStep = {}
PROOF
  BY DEF Exits, InStep, Before, Decided, Behind

\* Calls outside run_step, and the events of a planned reboot.
LEMMA EnrollKeeps == RunnerInv /\ (EnrollCall \/ RebootReturn \/ Manifest) => RunnerInv' /\ Verified
PROOF
  <1> DEFINE Outside == Exits \cup {"begin.auth", "reboot.resume", "reboot.flushed",
                                    "manifest.flush"}
  <1> SUFFICES ASSUME RunnerInv, EnrollCall \/ RebootReturn \/ Manifest PROVE RunnerInv' /\ Verified
    OBVIOUS
  <1>1. Shaped /\ DOMAIN disk = Fields
    BY DEF RunnerInv, Shaped
  <1>2. UNCHANGED <<cur, applies>>
    BY DEF EnrollCall, RebootReturn, Manifest
  <1>3. ASSUME Lost \/ Refused
       PROVE  Kept(Outside)
    BY <1>1, <1>2, <1>3, LostEnds, RefusedEnds DEF Kept
  <1>4. ASSUME disk' = [disk EXCEPT !.enrolled = TRUE] /\ Goto("begin.auth")
       PROVE  Kept(Outside)
    BY <1>1, <1>2, <1>4 DEF Kept, Goto, Fields
  <1>5. ASSUME disk' = [disk EXCEPT !.status = "running"] /\ Goto("reboot.resume")
       PROVE  Kept(Outside)
    BY <1>1, <1>2, <1>5 DEF Kept, Goto, Fields
  <1>6. ASSUME Report(disk, "run.resumed", "reboot.flushed")
       PROVE  Kept(Outside)
    BY <1>1, <1>2, <1>6, ReportEnds DEF Kept
  <1>7. ASSUME Goto("manifest.flush") /\ UNCHANGED disk
       PROVE  Kept(Outside)
    BY <1>1, <1>2, <1>7 DEF Kept, Goto
  <1>8. ASSUME disk' = [disk EXCEPT !.manifest = TRUE] /\ Goto("manifest.flush")
       PROVE  Kept(Outside)
    BY <1>1, <1>2, <1>8 DEF Kept, Goto, Fields
  <1>9. Kept(Outside)
    <2>1. CASE EnrollCall
      BY <2>1, <1>3, <1>4 DEF EnrollCall, Call, Kept
    <2>2. CASE RebootReturn
      BY <2>2, <1>5, <1>6 DEF RebootReturn, Kept
    <2>3. CASE Manifest
      BY <2>3, <1>3, <1>7, <1>8 DEF Manifest, Call, Kept
    <2> QED
      BY <2>1, <2>2, <2>3
  <1>10. Outside \cap InStep = {}
    BY ExitsLeave DEF InStep, Before, Decided, Behind
  <1> QED
    BY <1>9, <1>10, KeptStep

-----------------------------------------------------------------------------
(* The loop over the steps *)

LEMMA LoopKeeps == RunnerInv /\ LoopStep => RunnerInv' /\ Verified
PROOF
  <1> SUFFICES ASSUME RunnerInv, LoopStep PROVE RunnerInv' /\ Verified
    OBVIOUS
  <1>1. Shaped /\ DOMAIN disk = Fields
    BY DEF RunnerInv, Shaped
  <1>2. pc = "loop" /\ UNCHANGED <<cur, applies>>
    BY DEF LoopStep
  <1>3. CASE cur > NumSteps
    <2>1. disk' = [disk EXCEPT !.status = "completion_pending"] /\ pc' = "finish.flush"
      BY <1>3 DEF LoopStep, Goto
    <2>2. Kept({"finish.flush"})
      BY <1>1, <1>2, <2>1 DEF Kept, Fields
    <2>3. {"finish.flush"} \cap InStep = {}
      BY DEF InStep, Before, Decided, Behind
    <2> QED
      BY <2>2, <2>3, KeptStep
  <1>4. CASE ~(cur > NumSteps) /\ Unmet
    <2>1. Halt(disk)
      BY <1>4 DEF LoopStep
    <2>2. Kept(Exits)
      BY <1>1, <1>2, <2>1, HaltEnds DEF Kept
    <2> QED
      BY <2>2, ExitsLeave, KeptStep
  <1>5. CASE ~(cur > NumSteps) /\ ~Unmet
    <2>1. cur \in Steps
      BY <1>1, <1>5, StepsAssumption DEF Shaped, Steps
    <2>2. /\ pc' = IF disk.steps[cur] \in Ended THEN "step.done" ELSE "step.auth"
          /\ UNCHANGED disk
      BY <1>5 DEF LoopStep, Goto, Ended
    <2>3. Shaped' /\ Marked' /\ NoRepeatedApply' /\ Verified
      BY <1>2, <2>2 DEF RunnerInv, Shaped, Marked, NoRepeatedApply, Verified
    <2>4. AtHand' /\ FreshOrSafe'
      BY <1>2, <2>1, <2>2 DEF AtHand, FreshOrSafe, InStep, Before, Decided, Behind
    <2> QED
      BY <2>3, <2>4 DEF RunnerInv
  <1> QED
    BY <1>3, <1>4, <1>5

LEMMA FetchKeeps == RunnerInv /\ (FetchSecrets \/ StepStart) => RunnerInv' /\ Verified
PROOF
  <1> DEFINE Places == Exits \cup {"step.start", "step.started"}
  <1> SUFFICES ASSUME RunnerInv, FetchSecrets \/ StepStart PROVE RunnerInv' /\ Verified
    OBVIOUS
  <1>1. Shaped /\ DOMAIN disk = Fields
    BY DEF RunnerInv, Shaped
  <1>2. pc \in Before /\ UNCHANGED <<cur, applies>>
    BY DEF FetchSecrets, StepStart, Before
  <1>3. ASSUME Lost \/ Refused
       PROVE  Kept(Places)
    BY <1>1, <1>2, <1>3, LostEnds, RefusedEnds DEF Kept
  <1>4. ASSUME Goto("step.start") /\ UNCHANGED disk
       PROVE  Kept(Places)
    BY <1>1, <1>2, <1>4 DEF Kept, Goto
  <1>5. ASSUME StepStart
       PROVE  Kept(Places)
    <2>1. Report(disk, "step.started", "step.started")
      BY <1>5 DEF StepStart
    <2> QED
      BY <1>1, <1>2, <2>1, ReportEnds DEF Kept
  <1>6. Kept(Places)
    BY <1>3, <1>4, <1>5 DEF FetchSecrets, Call, Kept
  <1>7. Places \cap InStep \subseteq Before
    BY ExitsLeave DEF Before
  <1> QED
    BY <1>2, <1>6, <1>7, KeptStep

\* Succeed and Fail save the outcome with its event, or with the halt over the limit.
LEMMA OutcomeKeeps ==
    ASSUME RunnerInv, pc \in {"check", "apply"}, Succeed \/ Fail, UNCHANGED <<cur, applies>>
    PROVE  RunnerInv' /\ Verified
PROOF
  <1>1. DOMAIN disk = Fields
    BY DEF RunnerInv, Shaped
  <1>2. pc \in InStep \ Behind
    BY DEF InStep, Before, Decided, Behind
  <1>3. Exits \cup {"step.done"} \subseteq {"step.done"} \cup Exits /\ "step.done" \in Behind
    BY DEF Behind
  <1>4. \A status : DOMAIN Checkpoint(status) = Fields
                     /\ Checkpoint(status).steps = [disk.steps EXCEPT ![cur] = status]
    BY <1>1 DEF Checkpoint, Fields
  <1>5. \A x \in Exits \cup {"step.done"} : x \notin InStep \ Behind
    BY <1>3, ExitsLeave
  <1>6. CASE Succeed
    <2>1. Report(Checkpoint("succeeded"), "step.succeeded", "step.done")
      BY <1>6 DEF Succeed
    <2>2. /\ DOMAIN disk' = Fields
          /\ disk'.steps = [disk.steps EXCEPT ![cur] = "succeeded"]
          /\ pc' \in Exits \cup {"step.done"}
      BY <1>4, <2>1, ReportEnds
    <2> QED
      BY <1>2, <1>5, <2>2, OutcomeStep DEF Checkpoints
  <1>7. CASE Fail
    <2>1. PICK next \in {"halt", "step.done"} : Report(Checkpoint("failed"), "step.failed", next)
      BY <1>7 DEF Fail
    <2>2. /\ DOMAIN disk' = Fields
          /\ disk'.steps = [disk.steps EXCEPT ![cur] = "failed"]
          /\ pc' \in Exits \cup {next}
      BY <1>4, <2>1, ReportEnds
    <2>3. pc' \in Exits \cup {"step.done"}
      BY <2>2 DEF Exits
    <2> QED
      BY <1>2, <1>5, <2>2, <2>3, OutcomeStep DEF Checkpoints
  <1> QED
    BY <1>6, <1>7

\* A step is decided to be applied only if it is new or may be repeated.
LEMMA CheckKeeps == RunnerInv /\ CheckPhase => RunnerInv' /\ Verified
PROOF
  <1> SUFFICES ASSUME RunnerInv, CheckPhase PROVE RunnerInv' /\ Verified
    OBVIOUS
  <1>1. Shaped /\ DOMAIN disk = Fields
    BY DEF RunnerInv, Shaped
  <1>2. pc = "check" /\ UNCHANGED <<cur, applies>>
    BY DEF CheckPhase
  <1>3. cur \in Steps /\ disk.steps[cur] \in Checkpoints \ Ended
    BY <1>1, <1>2 DEF RunnerInv, AtHand, Shaped, InStep, Before, Behind
  <1>4. CASE Succeed \/ Fail
    BY <1>2, <1>4, OutcomeKeeps
  <1>5. CASE Halt(disk)
    <2>1. Kept(Exits)
      BY <1>1, <1>2, <1>5, HaltEnds DEF Kept
    <2> QED
      BY <2>1, ExitsLeave, KeptStep
  <1>6. CASE (~Recovering \/ cur \in RetrySafe) /\ Goto("apply.auth") /\ UNCHANGED disk
    <2>1. disk.steps[cur] = "none" \/ cur \in RetrySafe
      BY <1>3, <1>6 DEF Recovering, Checkpoints, Ended
    <2>2. pc' = "apply.auth" /\ UNCHANGED <<disk, cur, applies>>
      BY <1>2, <1>6 DEF Goto
    <2>3. Shaped' /\ Marked' /\ NoRepeatedApply' /\ Verified
      BY <2>2 DEF RunnerInv, Shaped, Marked, NoRepeatedApply, Verified
    <2>4. AtHand' /\ FreshOrSafe'
      BY <1>3, <2>1, <2>2 DEF AtHand, FreshOrSafe
    <2> QED
      BY <2>3, <2>4 DEF RunnerInv
  <1> QED
    BY <1>4, <1>5, <1>6 DEF CheckPhase

\* The one step that starts apply: the checkpoint is saved with it.
LEMMA ApplyKeeps == RunnerInv /\ ApplyStart => RunnerInv' /\ Verified
PROOF
  <1> SUFFICES ASSUME RunnerInv, ApplyStart PROVE RunnerInv' /\ Verified
    OBVIOUS
  <1>1. Shaped /\ DOMAIN disk = Fields
    BY DEF RunnerInv, Shaped
  <1>2. pc = "apply.start" /\ pc' = "apply" /\ UNCHANGED cur
    BY DEF ApplyStart, Goto
  <1>3. /\ cur \in Steps /\ disk.steps[cur] \notin Ended
        /\ disk.steps[cur] = "none" \/ cur \in RetrySafe
    BY <1>2 DEF RunnerInv, AtHand, FreshOrSafe, InStep, Decided, Behind
  <1>4. /\ DOMAIN disk' = Fields
        /\ disk'.steps = [disk.steps EXCEPT ![cur] = "applying"]
    BY <1>1 DEF ApplyStart, Checkpoint, Fields
  <1>5. applies' = [applies EXCEPT ![cur] = IF applies[cur] = 0 THEN 1 ELSE 2]
    BY DEF ApplyStart
  <1>6. Shaped' /\ Marked'
    BY <1>1, <1>2, <1>3, <1>4, <1>5 DEF RunnerInv, Shaped, Marked, Checkpoints
  <1>7. NoRepeatedApply'
    <2>1. cur \notin RetrySafe => applies[cur] = 0
      BY <1>3 DEF RunnerInv, Marked
    <2> SUFFICES ASSUME NEW s \in Steps \ RetrySafe PROVE applies'[s] <= 1
      BY DEF NoRepeatedApply
    <2>2. CASE s = cur
      BY <1>1, <1>3, <1>5, <2>1, <2>2 DEF Shaped
    <2>3. CASE s # cur
      BY <1>1, <1>5, <2>3 DEF RunnerInv, Shaped, NoRepeatedApply
    <2> QED
      BY <2>2, <2>3
  <1>8. AtHand' /\ FreshOrSafe' /\ Verified
    BY <1>1, <1>2, <1>3, <1>4 DEF AtHand, FreshOrSafe, Verified, Shaped, Ended, Decided
  <1> QED
    BY <1>6, <1>7, <1>8 DEF RunnerInv

LEMMA ApplyEndKeeps == RunnerInv /\ ApplyEnd => RunnerInv' /\ Verified
PROOF
  <1> SUFFICES ASSUME RunnerInv, ApplyEnd PROVE RunnerInv' /\ Verified
    OBVIOUS
  <1>1. Shaped /\ DOMAIN disk = Fields
    BY DEF RunnerInv, Shaped
  <1>2. pc = "apply" /\ UNCHANGED <<cur, applies>>
    BY DEF ApplyEnd
  <1>3. CASE Succeed \/ Fail
    BY <1>2, <1>3, OutcomeKeeps
  <1>4. CASE Halt(disk)
    <2>1. Kept(Exits)
      BY <1>1, <1>2, <1>4, HaltEnds DEF Kept
    <2> QED
      BY <2>1, ExitsLeave, KeptStep
  <1>5. CASE /\ disk' = [Checkpoint("reboot_pending") EXCEPT
                            !.status = "reboot_pending", !.rebootBoot = boot,
                            !.rebootCount = @ + 1]
             /\ Goto("reboot.event")
    <2>1. /\ DOMAIN disk' = Fields
          /\ disk'.steps = [disk.steps EXCEPT ![cur] = "reboot_pending"]
      BY <1>1, <1>5 DEF Checkpoint, Fields
    <2>2. pc \in InStep \ Behind /\ pc' \notin InStep \ Behind
      BY <1>2, <1>5 DEF Goto, InStep, Before, Decided, Behind
    <2> QED
      BY <1>2, <2>1, <2>2, OutcomeStep DEF Checkpoints
  <1> QED
    BY <1>3, <1>4, <1>5 DEF ApplyEnd

-----------------------------------------------------------------------------
(* Reboot, halt, review, cancellation, completion *)

\* Flushes whose failures are ignored.
LEMMA FlushIgnored ==
    ASSUME Shaped, NEW next, UNCHANGED <<cur, applies>>,
           Flush(next, Goto(next) /\ UNCHANGED disk, Goto(next) /\ UNCHANGED disk)
    PROVE  Kept({next})
PROOF
  <1>1. CASE Goto(next) /\ UNCHANGED disk
    BY <1>1 DEF Goto, Kept, Shaped
  <1>2. CASE disk' = [disk EXCEPT !.queue = <<>>] /\ Goto(next)
    BY <1>2 DEF Goto, Kept, Shaped, Fields
  <1> QED
    BY <1>1, <1>2 DEF Flush

LEMMA HaltKeeps ==
    RunnerInv /\ (RebootEvent \/ RebootFlush \/ HaltStep \/ HaltFlush \/ ConfirmCancel \/ Cancelled)
        => RunnerInv' /\ Verified
PROOF
  <1> DEFINE Outside == Exits \cup {"reboot.flush", "reboot.auth", "halt.flush", "off"}
  <1> SUFFICES ASSUME RunnerInv,
                      RebootEvent \/ RebootFlush \/ HaltStep \/ HaltFlush \/ ConfirmCancel \/ Cancelled
               PROVE  RunnerInv' /\ Verified
    OBVIOUS
  <1>1. Shaped /\ DOMAIN disk = Fields
    BY DEF RunnerInv, Shaped
  <1>2. UNCHANGED <<cur, applies>>
    BY DEF RebootEvent, RebootFlush, HaltStep, HaltFlush, ConfirmCancel, Cancelled
  <1>3. ASSUME NEW type, NEW next \in Outside, Report(disk, type, next)
        PROVE  Kept(Outside)
    BY <1>1, <1>2, <1>3, ReportEnds DEF Kept
  <1>4. ASSUME NEW next \in Outside,
               Flush(next, Goto(next) /\ UNCHANGED disk, Goto(next) /\ UNCHANGED disk)
        PROVE  Kept(Outside)
    <2>1. Kept({next})
      BY <1>1, <1>2, <1>4, FlushIgnored
    <2> QED
      BY <2>1 DEF Kept
  <1>5. ASSUME Halt(disk)
        PROVE  Kept(Outside)
    BY <1>1, <1>2, <1>5, HaltEnds DEF Kept
  <1>6. ASSUME Goto("halt.flush") /\ UNCHANGED disk
        PROVE  Kept(Outside)
    BY <1>1, <1>2, <1>6 DEF Kept, Goto
  <1>7. ASSUME disk' = [disk EXCEPT !.status = "cancelled"] /\ Goto("off")
        PROVE  Kept(Outside)
    BY <1>1, <1>2, <1>7 DEF Kept, Goto, Fields
  <1>8. Kept(Outside)
    <2>1. CASE RebootEvent
      BY <2>1, <1>3 DEF RebootEvent
    <2>2. CASE RebootFlush
      BY <2>2, <1>4 DEF RebootFlush
    <2>3. CASE HaltStep
      BY <2>3, <1>3, <1>5, <1>6 DEF HaltStep
    <2>4. CASE HaltFlush
      BY <2>4, <1>4 DEF HaltFlush, Exits
    <2>5. CASE Cancelled
      BY <2>5, <1>7 DEF Cancelled
    <2>6. CASE ConfirmCancel
      BY <1>1, <1>2, <2>6, CancelEnds DEF ConfirmCancel, Kept
    <2> HIDE DEF Outside
    <2> QED
      BY <2>1, <2>2, <2>3, <2>4, <2>5, <2>6
  <1>9. Outside \cap InStep = {}
    BY ExitsLeave DEF InStep, Before, Decided, Behind
  <1> QED
    BY <1>8, <1>9, KeptStep

\* A resume opens the failed steps again: as interrupted ones, not as new ones.
LEMMA ReopenedKeeps == RunnerInv /\ ReviewResume => RunnerInv' /\ Verified
PROOF
  <1> SUFFICES ASSUME RunnerInv, ReviewResume PROVE RunnerInv' /\ Verified
    OBVIOUS
  <1> DEFINE d == Reopened(disk)
  <1>1. DOMAIN disk = Fields /\ UNCHANGED <<cur, applies>>
    BY DEF RunnerInv, Shaped, ReviewResume
  <1>2. /\ DOMAIN d = Fields
        /\ d.steps = [s \in Steps |-> IF disk.steps[s] = "failed" THEN "applying" ELSE disk.steps[s]]
    BY <1>1 DEF Reopened, Fields
  <1> HIDE DEF d
  <1>3. DOMAIN disk' = Fields /\ disk'.steps = d.steps /\ pc' \in Exits \cup {AfterReview}
    BY <1>2, ReportEnds DEF d, ReviewResume
  <1>4. pc' \notin InStep
    <2>1. AfterReview \in {"begin.auth", "enroll"}
      BY DEF AfterReview
    <2> QED
      BY <1>3, <2>1, ExitsLeave DEF InStep, Before, Decided, Behind
  <1>5. Shaped' /\ Marked' /\ NoRepeatedApply' /\ Verified
    BY <1>1, <1>2, <1>3 DEF RunnerInv, Shaped, Checkpoints, Marked, NoRepeatedApply, Verified
  <1>6. AtHand' /\ FreshOrSafe'
    BY <1>4 DEF AtHand, FreshOrSafe, InStep
  <1> QED
    BY <1>5, <1>6 DEF RunnerInv

LEMMA ReviewKeeps == RunnerInv /\ (ReviewLease \/ FinishCall) => RunnerInv' /\ Verified
PROOF
  <1> DEFINE Outside == Exits \cup {"off", "review.resume"}
  <1> SUFFICES ASSUME RunnerInv, ReviewLease \/ FinishCall PROVE RunnerInv' /\ Verified
    OBVIOUS
  <1>1. Shaped /\ DOMAIN disk = Fields
    BY DEF RunnerInv, Shaped
  <1>2. UNCHANGED <<cur, applies>>
    BY DEF ReviewLease, FinishCall
  <1>3. DOMAIN Leased = Fields /\ Leased.steps = disk.steps
    BY <1>1, LeasedSame DEF Same
  <1>4. ASSUME Lost \/ Refused
        PROVE  Kept(Outside)
    BY <1>1, <1>2, <1>4, LostEnds, RefusedEnds DEF Kept
  <1>5. ASSUME disk' = Leased /\ Goto(AfterAnswer)
        PROVE  Kept(Outside)
    BY <1>2, <1>3, <1>5, AfterAnswerAt DEF Kept, Goto, Exits
  <1>6. ASSUME disk' = [disk EXCEPT !.status = "succeeded"] /\ Goto("off")
        PROVE  Kept(Outside)
    BY <1>1, <1>2, <1>6 DEF Kept, Goto, Fields
  <1>7. Kept(Outside)
    <2>1. CASE ReviewLease
      BY <2>1, <1>4, <1>5 DEF ReviewLease, RenewLease
    <2>2. CASE FinishCall
      BY <2>2, <1>4, <1>6 DEF FinishCall, Call
    <2> QED
      BY <2>1, <2>2
  <1>8. Outside \cap InStep = {}
    BY ExitsLeave DEF InStep, Before, Decided, Behind
  <1> QED
    BY <1>7, <1>8, KeptStep

\* Every flush and every lease of run() and run_step, with the place it leads to.
LEMMA CallsKeep == RunnerInv /\ (Flushes \/ Leases) => RunnerInv' /\ Verified
PROOF
  <1> SUFFICES ASSUME RunnerInv, Flushes \/ Leases PROVE RunnerInv' /\ Verified
    OBVIOUS
  <1> USE DEF InStep, Before, Decided, Behind
  <1>1. Shaped /\ DOMAIN disk = Fields
    BY DEF RunnerInv, Shaped
  <1>2. ASSUME NEW at, NEW next, Flushing(at, next) \/ Authorize(at, next),
               \/ next \notin InStep
               \/ at \in Before /\ next \in Before
               \/ at \in Decided /\ next \in Decided
        PROVE  RunnerInv' /\ Verified
    <2> DEFINE places == Exits \cup {next}
    <2>1. pc = at /\ Kept(places)
      BY <1>1, <1>2, FlushingKeeps, AuthorizeKeeps
    <2>2. places \cap InStep \subseteq {next}
      BY ExitsLeave
    <2>3. next \notin InStep => places \cap InStep = {}
      BY <2>2
    <2> HIDE DEF places
    <2> QED
      BY <1>2, <2>1, <2>2, <2>3, KeptStep
  <1>3. ASSUME pc = "step.done", Flush("step.next", NetworkFailure(disk, "step.next"), Refused),
               UNCHANGED <<cur, applies>>
        PROVE  RunnerInv' /\ Verified
    <2> DEFINE places == Exits \cup {"step.next"}
    <2>1. Goto("step.next") /\ UNCHANGED disk => Kept(places)
      BY <1>1, <1>3 DEF Goto, Kept
    <2>2. disk' = [disk EXCEPT !.queue = <<>>] /\ Goto("step.next") => Kept(places)
      BY <1>1, <1>3 DEF Goto, Kept, Fields
    <2>3. NetworkFailure(disk, "step.next") => Kept(places)
      BY <1>1, <1>3, FailureEnds DEF Kept
    <2>4. Refused => Kept(places)
      BY <1>1, <1>3, RefusedEnds DEF Kept
    <2>5. Kept(places)
      BY <1>3, <2>1, <2>2, <2>3, <2>4 DEF Flush
    <2>6. pc \in InStep /\ places \cap InStep \subseteq Behind
      BY <1>3, ExitsLeave
    <2> HIDE DEF places
    <2> QED
      BY <2>5, <2>6, KeptStep
  <1>4. CASE Flushes
    BY <1>2, <1>3, <1>4 DEF Flushes
  <1>5. CASE Leases
    BY <1>2, <1>5 DEF Leases
  <1> QED
    BY <1>4, <1>5

\* The step after the one at hand, and whatever ends the process.
LEMMA StopKeeps == RunnerInv /\ (NextStep \/ Reboot \/ Crash \/ PowerFail) => RunnerInv' /\ Verified
PROOF
  <1> SUFFICES ASSUME RunnerInv, NextStep \/ Reboot \/ Crash \/ PowerFail PROVE RunnerInv' /\ Verified
    OBVIOUS
  <1>1. Shaped
    BY DEF RunnerInv
  <1>2. UNCHANGED <<disk, applies>>
    BY DEF NextStep, Reboot, Crash, PowerFail
  <1>3. pc' \in {"loop", "down"} /\ cur' \in {1, cur + 1}
    BY DEF NextStep, Reboot, Crash, PowerFail, Goto
  <1>4. cur' \in Nat \ {0}
    BY <1>1, <1>3 DEF Shaped
  <1>5. pc' \notin InStep
    BY <1>3 DEF InStep, Before, Decided, Behind
  <1> QED
    BY <1>1, <1>2, <1>4, <1>5, LeavingStep DEF Shaped

\* The heartbeat beside a running phase, the server and the clock.
LEMMA OthersKeep ==
    RunnerInv /\ (Heartbeat \/ ServerSide \/ Time \/ UNCHANGED vars) => RunnerInv' /\ Verified
PROOF
  <1> SUFFICES ASSUME RunnerInv, Heartbeat \/ ServerSide \/ Time \/ UNCHANGED vars
               PROVE  RunnerInv' /\ Verified
    OBVIOUS
  <1>1. Shaped /\ DOMAIN disk = Fields
    BY DEF RunnerInv, Shaped
  <1>2. UNCHANGED <<pc, cur, applies>>
    BY DEF Heartbeat, ServerSide, Time, vars, machineVars
  <1>3. DOMAIN disk' = Fields /\ disk'.steps = disk.steps
    <2>1. CASE Heartbeat
      <3>1. disk' = Leased \/ disk' = [disk EXCEPT !.netFailed = TRUE]
        BY <2>1 DEF Heartbeat
      <3> QED
        BY <1>1, <3>1, LeasedSame DEF Same, Fields
    <2>2. CASE ServerSide \/ Time \/ UNCHANGED vars
      BY <1>1, <2>2 DEF ServerSide, Time, vars, machineVars
    <2> QED
      BY <2>1, <2>2
  <1>4. Follows
    BY <1>2 DEF Follows, InStep
  <1> QED
    BY <1>2, <1>3, <1>4, QuietRunner

LEMMA RunnerNext == RunnerInv /\ [Next]_vars => RunnerInv' /\ Verified
PROOF
  <1> SUFFICES ASSUME RunnerInv, [Next]_vars PROVE RunnerInv' /\ Verified
    OBVIOUS
  <1>1. CASE Runner
    BY <1>1, StartKeeps, EnrollKeeps, LoopKeeps, FetchKeeps, CheckKeeps, ApplyKeeps,
       ApplyEndKeeps, StopKeeps, HaltKeeps, ReviewKeeps, ReopenedKeeps, CallsKeep DEF Runner
  <1>2. CASE Heartbeat \/ ServerSide \/ Time \/ UNCHANGED vars
    BY <1>2, OthersKeep
  <1>3. CASE Crash \/ PowerFail
    BY <1>3, StopKeeps
  <1> QED
    BY <1>1, <1>2, <1>3 DEF Next

-----------------------------------------------------------------------------
(* The theorems about the runner *)

\* The inductive invariant: checkpoints and program point of the runner.
THEOREM RunnerInvariant == Spec => []RunnerInv
PROOF
  <1> QED
    BY RunnerInit, RunnerNext, PTL DEF Spec

\* A step that is not retry_safe is applied at most once in the life of a machine, for any
\* manifest and any crashes, reboots, resumes and answers of the server (runner.py:451-475).
THEOREM AppliedOnce == Spec => []NoRepeatedApply
PROOF
  <1>1. RunnerInv => NoRepeatedApply
    BY DEF RunnerInv
  <1> QED
    BY <1>1, RunnerInvariant, PTL

\* A verified checkpoint is final (runner.py:423-424, 547-549).
THEOREM VerifiedForGood == Spec => VerifiedStays
PROOF
  <1>1. RunnerInv /\ [Next]_vars
          => [\A s \in Steps : disk.steps[s] = "succeeded" => disk'.steps[s] = "succeeded"]_vars
    BY RunnerNext DEF Verified
  <1> QED
    BY <1>1, RunnerInvariant, PTL DEF Spec, VerifiedStays

-----------------------------------------------------------------------------
(* Induction over the events of a batch *)

\* Every nonempty set of natural numbers has a least element.
LEMMA LeastNumber ==
    ASSUME NEW T, T \subseteq Nat, T # {}
    PROVE  \E n \in T : \A m \in T : n <= m
PROOF
  <1> DEFINE Smaller == OpToRel(<, Nat)
  <1>1. IsWellFoundedOn(Smaller, Nat)
    BY NatLessThanWellFounded
  <1>2. \A m, n \in Nat : <<m, n>> \in Smaller <=> m < n
    BY DEF OpToRel
  <1> HIDE DEF Smaller
  <1>3. \E n \in T : \A m \in T : ~(<<m, n>> \in Smaller)
    BY <1>1, WFMin
  <1>4. PICK n \in T : \A m \in T : ~(<<m, n>> \in Smaller)
    BY <1>3
  <1>5. ASSUME NEW m \in T PROVE n <= m
    <2>1. m \in Nat /\ n \in Nat
      OBVIOUS
    <2>2. ~(m < n)
      BY <1>2, <1>4, <2>1
    <2> QED
      BY <2>1, <2>2
  <1> QED
    BY <1>5

\* A set that holds 0 and, with a number below n, its successor, holds all up to n.
LEMMA UpTo ==
    ASSUME NEW n \in Nat, NEW S, 0 \in S, \A i \in 1..n : i - 1 \in S => i \in S
    PROVE  \A i \in 0..n : i \in S
PROOF
  <1> DEFINE T == {i \in 0..n : i \notin S}
  <1> SUFFICES ASSUME T # {} PROVE FALSE
    OBVIOUS
  <1>1. T \subseteq Nat
    OBVIOUS
  <1>2. PICK i \in T : \A m \in T : i <= m
    BY <1>1, LeastNumber
  <1>3. i \in 1..n /\ i - 1 \in 0..n
    BY <1>2
  <1>4. i - 1 \notin T
    BY <1>2, <1>3
  <1>5. i - 1 \in S
    BY <1>3, <1>4
  <1> QED
    BY <1>2, <1>3, <1>5

\* The rows of a batch are defined, each from the one before (app.py:670-680).
LEMMA AppliedRows ==
    ASSUME NEW events, Len(events) \in Nat
    PROVE  /\ AppliedTo(events)[0] = [ok |-> TRUE, row |-> run[R]]
           /\ \A n \in 1..Len(events) :
                LET before == AppliedTo(events)[n - 1] IN
                AppliedTo(events)[n] =
                    IF before.ok /\ EventOk(before.row, Blocked(R), events[n])
                    THEN [ok |-> TRUE, row |-> AfterEvent(before.row, events[n])]
                    ELSE [ok |-> FALSE, row |-> run[R]]
PROOF
  <1> DEFINE First == [ok |-> TRUE, row |-> run[R]]
             After(b, n) == IF b.ok /\ EventOk(b.row, Blocked(R), events[n])
                            THEN [ok |-> TRUE, row |-> AfterEvent(b.row, events[n])]
                            ELSE [ok |-> FALSE, row |-> run[R]]
             Value(g, n) == IF n = 0 THEN First ELSE After(g[n - 1], n)
             Defines(g, m) == g = [n \in 0..m |-> Value(g, n)]
             Bad == {m \in Nat : ~\E g : Defines(g, m)}
  <1>1. AppliedTo(events) = CHOOSE g : Defines(g, Len(events))
    BY DEF AppliedTo
  <1> HIDE DEF After, First
  <1>2. Bad = {}
    <2> SUFFICES ASSUME Bad # {} PROVE FALSE
      OBVIOUS
    <2>1. PICK m \in Bad : \A i \in Bad : m <= i
      BY LeastNumber
    <2>2. CASE m = 0
      <3> DEFINE g == [n \in 0..m |-> First]
      <3>1. Defines(g, m)
        BY <2>2
      <3> QED
        BY <2>1, <3>1
    <2>3. CASE m # 0
      <3>1. m - 1 \in Nat /\ m \in Nat
        BY <2>3
      <3>2. PICK g : Defines(g, m - 1)
        BY <2>1, <3>1
      <3> DEFINE h == [n \in 0..m |-> Value(g, n)]
      <3>3. ASSUME NEW n \in 0..m PROVE Value(h, n) = Value(g, n)
        <4>1. CASE n = 0
          BY <4>1
        <4>2. CASE n # 0
          <5>1. n - 1 \in 0..(m - 1) /\ n - 1 \in 0..m
            BY <3>1, <4>2
          <5>2. h[n - 1] = Value(g, n - 1) /\ g[n - 1] = Value(g, n - 1)
            BY <3>2, <5>1
          <5> QED
            BY <4>2, <5>2
        <4> QED
          BY <4>1, <4>2
      <3>4. Defines(h, m)
        BY <3>3
      <3> QED
        BY <2>1, <3>4
    <2> QED
      BY <2>2, <2>3
  <1>3. Defines(AppliedTo(events), Len(events))
    BY <1>1, <1>2
  <1> HIDE DEF Bad
  <1>4. ASSUME NEW n \in 0..Len(events)
        PROVE  AppliedTo(events)[n] = Value(AppliedTo(events), n)
    BY <1>3
  <1>5. AppliedTo(events)[0] = First
    BY <1>4
  <1>6. ASSUME NEW n \in 1..Len(events)
        PROVE  AppliedTo(events)[n] = After(AppliedTo(events)[n - 1], n)
    BY <1>4, <1>6
  <1> QED
    BY <1>5, <1>6 DEF First, After

\* What the server has to do with an event of the queue.
Reports ==
    {e \in [type: EventTypes \ {"heartbeat"}, step: 0..NumSteps, boot: Boots \cup {NoBoot}] :
        Fits(e)}

\* Where a batch was accepted, so was every event of it, each on the row the one before left.
LEMMA BatchAccepted ==
    ASSUME NEW events, Len(events) \in Nat, Applied(events).ok
    PROVE  \A n \in 1..Len(events) :
              /\ EventOk(AppliedTo(events)[n - 1].row, Blocked(R), events[n])
              /\ AppliedTo(events)[n].row = AfterEvent(AppliedTo(events)[n - 1].row, events[n])
PROOF
  <1> DEFINE N == Len(events)
             S == {i \in 0..N : AppliedTo(events)[N - i].ok}
  <1>1. ASSUME NEW n \in 1..N, AppliedTo(events)[n].ok
        PROVE  /\ AppliedTo(events)[n - 1].ok
               /\ EventOk(AppliedTo(events)[n - 1].row, Blocked(R), events[n])
               /\ AppliedTo(events)[n].row = AfterEvent(AppliedTo(events)[n - 1].row, events[n])
    <2> DEFINE before == AppliedTo(events)[n - 1]
               new == AppliedTo(events)[n]
               accepted == before.ok /\ EventOk(before.row, Blocked(R), events[n])
    <2>1. new = IF accepted THEN [ok |-> TRUE, row |-> AfterEvent(before.row, events[n])]
                ELSE [ok |-> FALSE, row |-> run[R]]
      BY <1>1, AppliedRows
    <2>2. new.ok
      BY <1>1
    <2> HIDE DEF before, new
    <2>3. CASE accepted
      BY <2>1, <2>3 DEF before, new
    <2>4. CASE ~accepted
      <3> HIDE DEF accepted
      <3>1. new = [ok |-> FALSE, row |-> run[R]]
        BY <2>1, <2>4
      <3>2. new.ok = FALSE
        BY <3>1
      <3> QED
        BY <2>2, <3>2
    <2> QED
      BY <2>3, <2>4
  <1>2. 0 \in S
    BY DEF Applied
  <1>3. ASSUME NEW i \in 1..N, i - 1 \in S PROVE i \in S
    <2>1. N - (i - 1) \in 1..N /\ (N - (i - 1)) - 1 = N - i
      OBVIOUS
    <2>2. AppliedTo(events)[N - (i - 1)].ok
      BY <1>3
    <2> QED
      BY <1>1, <2>1, <2>2
  <1> HIDE DEF S
  <1>4. \A i \in 0..N : i \in S
    BY <1>2, <1>3, UpTo
  <1>5. ASSUME NEW n \in 1..N PROVE AppliedTo(events)[n].ok
    <2>1. N - n \in 0..N /\ N - (N - n) = n
      OBVIOUS
    <2> QED
      BY <1>4, <2>1 DEF S
  <1> QED
    BY <1>1, <1>5

\* The lease the device still holds after a batch that leaves such a row.
HeldWith(row, expiry) == IF row.status = "cancelled" THEN 0 ELSE expiry

\* Every row on the way through an accepted batch is consistent.
LEMMA BatchRows ==
    ASSUME IInv, R \in Runs, NEW events \in Seq(Reports), Applied(events).ok,
           run[R].status # "prepared"
    PROVE  \A n \in 0..Len(events) :
              LET row == AppliedTo(events)[n].row IN
              /\ row \in RunRow
              /\ row.host = run[R].host
              /\ row.status # "prepared" /\ (n > 0 => row.status \notin {"absent", "succeeded"})
              /\ ConsistentRow(row, admitted[R], HeldWith(row, held[R]))
PROOF
  <1> DEFINE N == Len(events)
             Row(n) == AppliedTo(events)[n].row
             S == {n \in 0..N :
                     /\ Row(n) \in RunRow
                     /\ Row(n).host = run[R].host
                     /\ Row(n).status # "prepared"
                     /\ n > 0 => Row(n).status \notin {"absent", "succeeded"}
                     /\ ConsistentRow(Row(n), admitted[R], HeldWith(Row(n), held[R]))}
  <1>1. N \in Nat /\ held[R] \in Nat /\ now \in Nat /\ ServerTypeOK
    BY DEF IInv, ServerTypeOK
  <1>2. 0 \in S
    <2>1. Row(0) = run[R]
      BY <1>1, AppliedRows
    <2>2. run[R] \in RunRow /\ ConsistentRow(run[R], admitted[R], held[R])
      BY DEF IInv, ServerTypeOK
    <2>3. ConsistentRow(run[R], admitted[R], HeldWith(run[R], held[R]))
      BY <1>1, <2>2 DEF ConsistentRow, LeaseRemembered, HeldWith, Active, TERMINAL
    <2> HIDE DEF Row
    <2> QED
      BY <1>1, <2>1, <2>2, <2>3
  <1>3. ASSUME NEW n \in 1..N, n - 1 \in S PROVE n \in S
    <2> DEFINE before == Row(n - 1)
               e == events[n]
    <2>1. EventOk(before, Blocked(R), e) /\ Row(n) = AfterEvent(before, e)
      BY <1>1, BatchAccepted
    <2>2. /\ before \in RunRow /\ before.host = run[R].host /\ before.status # "prepared"
          /\ ConsistentRow(before, admitted[R], HeldWith(before, held[R]))
      BY <1>3
    <2>3. Fits(e)
      BY DEF Reports
    <2>4. HeldWith(before, held[R]) = held[R]
      BY <2>1 DEF HeldWith, EventOk, Active, TERMINAL
    <2> HIDE DEF before, e, Row
    <2>7. ConsistentRow(before, admitted[R], held[R])
      BY <2>2, <2>4
    <2> DEFINE new == AfterEvent(before, e)
    <2>8. EventOk(before, Blocked(R), e) /\ before \in RunRow /\ before.status # "prepared"
      BY <2>1, <2>2
    <2>5. /\ new \in RunRow /\ new.host = before.host
          /\ new.status \notin {"absent", "prepared", "succeeded"}
          /\ new.status = "cancelled" <=> e.type = "run.cancelled"
          /\ ConsistentRow(new, admitted[R], HeldAfter(e, held[R]))
      BY <1>1, <2>3, <2>7, <2>8, EventRow, Zenon
    <2>9. Row(n) = new
      BY <2>1
    <2> HIDE DEF new
    <2>6. HeldWith(new, held[R]) = HeldAfter(e, held[R])
      BY <2>5 DEF HeldWith, HeldAfter
    <2> QED
      BY <2>2, <2>5, <2>6, <2>9
  <1> HIDE DEF S
  <1>4. \A n \in 0..N : n \in S
    BY <1>1, <1>2, <1>3, UpTo
  <1> QED
    BY <1>4 DEF S

\* What one event does to the results and to the count of reboots.
LEMMA EventResults ==
    ASSUME ServerTypeOK, NEW row \in RunRow, NEW e, NEW blocked, Fits(e),
           EventOk(row, blocked, e)
    PROVE  LET new == AfterEvent(row, e) IN
           /\ \A s \in Steps : row.steps[s] = "succeeded" => new.steps[s] = "succeeded"
           /\ \A s \in Steps : new.steps[s] = "succeeded" =>
                 row.steps[s] = "succeeded" \/ (e.type = "step.succeeded" /\ e.step = s)
           /\ e.type = "step.succeeded" => new.steps[e.step] = "succeeded"
           /\ new.reboots = IF e.type = "run.reboot_pending" THEN row.reboots + 1 ELSE row.reboots
PROOF
  <1> DEFINE new == AfterEvent(row, e)
  <1>1. CASE e.type \in StepEvents
    <2>1. StepEventOk(row, blocked, e) /\ e.step \in Steps
      BY <1>1 DEF EventOk, StepEvents, Fits
    <2>2. /\ new.steps = [row.steps EXCEPT ![e.step] = StepAfter(e)]
          /\ new.reboots = row.reboots
      <3>1. new = [row EXCEPT !.status = StatusAfter(row, e), !.version = @ + 1,
                              !.steps[e.step] = StepAfter(e)]
        BY <1>1 DEF AfterEvent, StepEvents
      <3> QED
        BY <3>1 DEF RunRow
    <2>3. row.steps[e.step] # "succeeded"
      BY <2>1 DEF StepEventOk
    <2>4. StepAfter(e) = "succeeded" <=> e.type = "step.succeeded"
      BY <1>1 DEF StepAfter, StepEvents
    <2>5. row.steps \in [Steps -> StepStatus]
      BY DEF RunRow
    <2>6. e.type # "run.reboot_pending"
      BY <1>1 DEF StepEvents
    <2> HIDE DEF new
    <2> QED
      BY <2>1, <2>2, <2>3, <2>4, <2>5, <2>6 DEF new
  <1>2. CASE e.type \notin StepEvents
    <2>1. new.steps = row.steps /\ e.type # "step.succeeded"
      BY <1>2 DEF AfterEvent, RunRow, StepEvents
    <2>2. new.reboots = IF e.type = "run.reboot_pending" THEN row.reboots + 1 ELSE row.reboots
      BY <1>2 DEF AfterEvent, RunRow
    <2> QED
      BY <2>1, <2>2
  <1> QED
    BY <1>1, <1>2

\* A batch takes no result back, records no result that it does not report, and every one
\* that it does.
LEMMA BatchResults ==
    ASSUME IInv, R \in Runs, NEW events \in Seq(Reports), Applied(events).ok,
           run[R].status # "prepared"
    PROVE  LET new == Applied(events).row IN
           /\ \A s \in Steps : run[R].steps[s] = "succeeded" => new.steps[s] = "succeeded"
           /\ \A s \in Steps : new.steps[s] = "succeeded" =>
                 \/ run[R].steps[s] = "succeeded"
                 \/ \E i \in 1..Len(events) : events[i].type = "step.succeeded" /\ events[i].step = s
           /\ \A i \in 1..Len(events) :
                 events[i].type = "step.succeeded" => new.steps[events[i].step] = "succeeded"
PROOF
  <1> DEFINE N == Len(events)
             Row(n) == AppliedTo(events)[n].row
             Done(n, s) == Row(n).steps[s] = "succeeded"
             Told(i, s) == events[i].type = "step.succeeded" /\ events[i].step = s
             S == {n \in 0..N :
                     /\ \A s \in Steps : Done(0, s) => Done(n, s)
                     /\ \A s \in Steps : Done(n, s) => Done(0, s) \/ \E i \in 1..n : Told(i, s)
                     /\ \A i \in 1..n : \A s \in Steps : Told(i, s) => Done(n, s)}
  <1>1. N \in Nat /\ ServerTypeOK /\ Row(0) = run[R]
    BY AppliedRows DEF IInv
  <1>2. ASSUME NEW n \in 1..N
        PROVE  /\ \A s \in Steps : Done(n - 1, s) => Done(n, s)
               /\ \A s \in Steps : Done(n, s) => Done(n - 1, s) \/ Told(n, s)
               /\ \A s \in Steps : Told(n, s) => Done(n, s)
    <2> DEFINE before == Row(n - 1)
               e == events[n]
    <2>1. EventOk(before, Blocked(R), e) /\ Row(n) = AfterEvent(before, e)
      BY <1>1, BatchAccepted
    <2>2. before \in RunRow
      BY BatchRows
    <2>3. Fits(e)
      BY DEF Reports
    <2> HIDE DEF before, e
    <2>4. /\ \A s \in Steps : before.steps[s] = "succeeded" => AfterEvent(before, e).steps[s] = "succeeded"
          /\ \A s \in Steps : AfterEvent(before, e).steps[s] = "succeeded" =>
                 before.steps[s] = "succeeded" \/ (e.type = "step.succeeded" /\ e.step = s)
          /\ e.type = "step.succeeded" => AfterEvent(before, e).steps[e.step] = "succeeded"
      BY <1>1, <2>1, <2>2, <2>3, EventResults
    <2> HIDE DEF Row
    <2> QED
      BY <2>1, <2>4 DEF before, e
  <1> HIDE DEF Done, Told, Row
  <1>3. 0 \in S
    OBVIOUS
  <1>4. ASSUME NEW n \in 1..N, n - 1 \in S PROVE n \in S
    <2>1. /\ \A s \in Steps : Done(0, s) => Done(n - 1, s)
          /\ \A s \in Steps : Done(n - 1, s) => Done(0, s) \/ \E i \in 1..(n - 1) : Told(i, s)
          /\ \A i \in 1..(n - 1) : \A s \in Steps : Told(i, s) => Done(n - 1, s)
      BY <1>4
    <2>2. \A i \in 1..n : i \in 1..(n - 1) \/ i = n
      OBVIOUS
    <2>3. 1..(n - 1) \subseteq 1..n /\ n \in 1..n /\ n \in 0..N
      BY <1>1
    <2>4. \A s \in Steps : Done(0, s) => Done(n, s)
      BY <1>2, <2>1
    <2>5. \A s \in Steps : Done(n, s) => Done(0, s) \/ \E i \in 1..n : Told(i, s)
      BY <1>2, <2>1, <2>3
    <2>6. \A i \in 1..n : \A s \in Steps : Told(i, s) => Done(n, s)
      BY <1>2, <2>1, <2>2
    <2> QED
      BY <2>3, <2>4, <2>5, <2>6
  <1> HIDE DEF S
  <1>9. \A n \in 0..N : n \in S
    BY <1>1, <1>3, <1>4, UpTo
  <1>5. N \in S
    BY <1>1, <1>9
  <1>6. /\ \A s \in Steps : Done(0, s) => Done(N, s)
        /\ \A s \in Steps : Done(N, s) => Done(0, s) \/ \E i \in 1..N : Told(i, s)
        /\ \A i \in 1..N : \A s \in Steps : Told(i, s) => Done(N, s)
    BY <1>5 DEF S
  <1>7. ASSUME NEW i \in 1..N, events[i].type = "step.succeeded" PROVE events[i].step \in Steps
    BY <1>7 DEF Reports, Fits, StepEvents
  <1>8. Row(N) = Applied(events).row
    BY DEF Row, Applied
  <1> QED
    BY <1>1, <1>6, <1>7, <1>8 DEF Done, Told

\* Where only its first event may announce a reboot, a batch counts one at most.
LEMMA BatchReboots ==
    ASSUME IInv, R \in Runs, NEW events \in Seq(Reports), Applied(events).ok,
           run[R].status # "prepared",
           \A i \in 2..Len(events) : events[i].type # "run.reboot_pending"
    PROVE  Applied(events).row.reboots =
              IF events # <<>> /\ events[1].type = "run.reboot_pending"
              THEN run[R].reboots + 1 ELSE run[R].reboots
PROOF
  <1> DEFINE N == Len(events)
             Row(n) == AppliedTo(events)[n].row
             count == IF N > 0 /\ events[1].type = "run.reboot_pending"
                      THEN run[R].reboots + 1 ELSE run[R].reboots
             S == {n \in 0..N : n > 0 => Row(n).reboots = count}
  <1>1. N \in Nat /\ ServerTypeOK /\ Row(0) = run[R]
    BY AppliedRows DEF IInv
  <1>2. ASSUME NEW n \in 1..N
        PROVE  Row(n).reboots = IF events[n].type = "run.reboot_pending"
                                THEN Row(n - 1).reboots + 1 ELSE Row(n - 1).reboots
    <2> DEFINE before == Row(n - 1)
               e == events[n]
    <2>1. EventOk(before, Blocked(R), e) /\ Row(n) = AfterEvent(before, e)
      BY <1>1, BatchAccepted
    <2>2. before \in RunRow
      BY BatchRows
    <2>3. Fits(e)
      BY DEF Reports
    <2> HIDE DEF before, e
    <2>4. AfterEvent(before, e).reboots =
            IF e.type = "run.reboot_pending" THEN before.reboots + 1 ELSE before.reboots
      BY <1>1, <2>1, <2>2, <2>3, EventResults
    <2> HIDE DEF Row
    <2> QED
      BY <2>1, <2>4 DEF before, e
  <1> HIDE DEF Row
  <1>3. 0 \in S
    OBVIOUS
  <1>4. ASSUME NEW n \in 1..N, n - 1 \in S PROVE n \in S
    <2>1. CASE n = 1
      BY <1>1, <1>2, <2>1
    <2>2. CASE n # 1
      <3>1. Row(n - 1).reboots = count /\ events[n].type # "run.reboot_pending"
        BY <1>4, <2>2
      <3> QED
        BY <1>2, <3>1
    <2> QED
      BY <2>1, <2>2
  <1> HIDE DEF S
  <1>9. \A n \in 0..N : n \in S
    BY <1>1, <1>3, <1>4, UpTo
  <1>5. N \in S
    BY <1>1, <1>9
  <1>6. N > 0 => Row(N).reboots = count
    BY <1>5 DEF S
  <1>7. N = 0 => Row(N).reboots = run[R].reboots
    BY <1>1
  <1>8. Row(N) = Applied(events).row /\ (events # <<>> <=> N > 0)
    BY DEF Row, Applied
  <1> QED
    BY <1>1, <1>6, <1>7, <1>8

\* A batch with something new in it goes to an active run, and one that ends with the
\* confirmation of a cancellation ends the run.
LEMMA BatchEnds ==
    ASSUME IInv, R \in Runs, NEW events \in Seq(Reports), Applied(events).ok,
           run[R].status # "prepared"
    PROVE  /\ events = <<>> => Applied(events).row = run[R]
           /\ events # <<>> => Active(run[R])
           /\ events # <<>> /\ events[Len(events)].type = "run.cancelled"
                => Applied(events).row.status = "cancelled"
PROOF
  <1> DEFINE N == Len(events)
             Row(n) == AppliedTo(events)[n].row
  <1>1. N \in Nat /\ ServerTypeOK /\ Row(0) = run[R] /\ (events # <<>> <=> N > 0)
    BY AppliedRows DEF IInv
  <1>2. Applied(events).row = Row(N)
    BY DEF Applied
  <1>3. events # <<>> => EventOk(Row(0), Blocked(R), events[1])
    BY <1>1, BatchAccepted
  <1>4. ASSUME events # <<>>, events[N].type = "run.cancelled"
        PROVE  Row(N).status = "cancelled"
    <2> DEFINE before == Row(N - 1)
    <2>1. Row(N) = AfterEvent(before, events[N])
      BY <1>1, <1>4, BatchAccepted
    <2>2. before \in RunRow
      BY <1>1, <1>4, BatchRows
    <2>3. AfterEvent(before, events[N]).status = StatusAfter(before, events[N])
      BY <1>4, <2>2 DEF AfterEvent, StepEvents, RunRow
    <2> HIDE DEF before
    <2> QED
      BY <1>4, <2>1, <2>3 DEF StatusAfter
  <1> HIDE DEF Row
  <1> QED
    BY <1>1, <1>2, <1>3, <1>4 DEF EventOk

-----------------------------------------------------------------------------
(* The server beside the machine *)

\* A batch as the server takes it out of the queue.
LEMMA NewEventsAre ==
    ASSUME disk.queue \in Seq(Reports), recorded \in 0..Len(disk.queue)
    PROVE  /\ NewEvents \in Seq(Reports)
           /\ Len(NewEvents) = Len(disk.queue) - recorded
           /\ \A i \in 1..Len(NewEvents) : NewEvents[i] = disk.queue[recorded + i]
           /\ NewEvents = <<>> <=> recorded = Len(disk.queue)
PROOF
  <1> DEFINE q == disk.queue
  <1>1. q \in Seq(Reports) /\ recorded \in 0..Len(q) /\ NewEvents = SubSeq(q, recorded + 1, Len(q))
    BY DEF NewEvents
  <1> HIDE DEF q
  <1>2. /\ SubSeq(q, recorded + 1, Len(q)) \in Seq(Reports)
        /\ Len(SubSeq(q, recorded + 1, Len(q))) = Len(q) - recorded
        /\ \A i \in 1..(Len(q) - recorded) : SubSeq(q, recorded + 1, Len(q))[i] = q[recorded + i]
    <2>1. /\ recorded + 1 \in Int /\ Len(q) \in Int
          /\ \A i \in (recorded + 1)..Len(q) : q[i] \in Reports
      BY <1>1
    <2>2. /\ SubSeq(q, recorded + 1, Len(q)) \in Seq(Reports)
          /\ Len(SubSeq(q, recorded + 1, Len(q)))
                = IF recorded + 1 <= Len(q) THEN Len(q) - (recorded + 1) + 1 ELSE 0
          /\ \A i \in 1..(Len(q) - (recorded + 1) + 1) :
                SubSeq(q, recorded + 1, Len(q))[i] = q[recorded + 1 + i - 1]
      BY <2>1, SubSeqProperties
    <2> QED
      BY <1>1, <2>1, <2>2
  <1>3. NewEvents = <<>> <=> Len(NewEvents) = 0
    <2>1. NewEvents \in Seq(Reports)
      BY <1>1, <1>2
    <2> QED
      BY <2>1
  <1> QED
    BY <1>1, <1>2, <1>3 DEF q

\* The server takes a batch in one transaction (app.py:667-682).
LEMMA StoreBatchStep ==
    ASSUME IInv, disk.queue \in Seq(Reports), recorded \in 0..Len(disk.queue), StoreBatch
    PROVE  /\ IInv'
           /\ run[R].status \notin {"absent", "prepared"}
           /\ Applied(NewEvents).ok
           /\ run'[R] = Applied(NewEvents).row
PROOF
  <1> DEFINE row == Applied(NewEvents).row
  <1>1. R \in Runs /\ K \in Keys /\ K # NoKey
    BY MachineAssumption, AbsentAssumption
  <1>2. /\ run[R] \in RunRow /\ ConsistentRow(run[R], admitted[R], held[R])
        /\ held \in [Runs -> Nat] /\ ServerTypeOK
    BY <1>1 DEF IInv, ServerTypeOK
  <1>3. run[R].key = K /\ Applied(NewEvents).ok
    BY DEF StoreBatch, BatchOk, DeviceOk, RetryOk
  <1>4. run[R].status \notin {"absent", "prepared"}
    BY <1>1, <1>2, <1>3 DEF ConsistentRow, DeviceKnown
  <1>5. NewEvents \in Seq(Reports) /\ row = AppliedTo(NewEvents)[Len(NewEvents)].row
    <2>1. NewEvents \in Seq(Reports)
      BY NewEventsAre
    <2> QED
      BY <2>1 DEF Applied
  <1>6. /\ row \in RunRow /\ row.host = run[R].host
        /\ NewEvents # <<>> => row.status # "absent"
        /\ ConsistentRow(row, admitted[R], HeldWith(row, held[R]))
    <2>1. Len(NewEvents) \in 0..Len(NewEvents) /\ (NewEvents # <<>> => Len(NewEvents) > 0)
      BY <1>5
    <2>2. LET r == AppliedTo(NewEvents)[Len(NewEvents)].row IN
          /\ r \in RunRow /\ r.host = run[R].host
          /\ r.status # "prepared" /\ (Len(NewEvents) > 0 => r.status \notin {"absent", "succeeded"})
          /\ ConsistentRow(r, admitted[R], HeldWith(r, held[R]))
      BY <1>1, <1>3, <1>4, <1>5, <2>1, BatchRows, Zenon
    <2> QED
      BY <1>5, <2>1, <2>2
  <1>7. /\ SetRun(R, row) /\ UNCHANGED <<now, latest, admitted>>
        /\ IF NewEvents = <<>> THEN UNCHANGED host ELSE SetHost(R, row.status)
        /\ held' = [held EXCEPT ![R] = HeldWith(row, held[R])]
    BY <1>2 DEF StoreBatch, HeldWith
  <1> HIDE DEF row
  <1>8. /\ held' \in [Runs -> Nat] /\ \A q \in Runs : q # R => held'[q] = held[q]
        /\ held'[R] = HeldWith(row, held[R])
    BY <1>1, <1>2, <1>7 DEF HeldWith
  <1>9. run'[R] = row
    BY <1>1, <1>2, <1>6, <1>7, SetRunType
  <1>10. CASE NewEvents = <<>>
    <2>1. row = run[R]
      BY <1>1, <1>3, <1>4, <1>5, <1>10, BatchEnds DEF row
    <2>2. IInv'
      BY <1>1, <1>6, <1>7, <1>8, <1>10, <2>1, QuietStep
    <2> QED
      BY <1>3, <1>4, <1>9, <2>2 DEF row
  <1>11. CASE NewEvents # <<>>
    <2>1. Active(run[R])
      BY <1>1, <1>3, <1>4, <1>5, <1>11, BatchEnds
    <2>2. SetHost(R, row.status) /\ row.status \in RunStatus
      BY <1>6, <1>7, <1>11 DEF RunRow
    <2>3. /\ host' \in [Hosts -> [status: RunStatus \cup {"ready"}, blocked: BOOLEAN]]
          /\ \A h \in Hosts :
               host'[h].status = IF h = run[R].host THEN row.status ELSE host[h].status
      BY <1>1, <1>2, <2>2, SetHostType
    <2>4. IInv'
      BY <1>1, <1>6, <1>7, <1>8, <1>11, <2>1, <2>3, RowStep
    <2> QED
      BY <1>3, <1>4, <1>9, <2>4 DEF row
  <1> QED
    BY <1>10, <1>11

\* Everything else the server does for the run: no results, no reboots, and an end is final.
Calm(old, new) ==
    /\ \/ new.steps = old.steps /\ new.reboots = old.reboots
       \/ old.status = "absent" /\ new.reboots = 0 /\ \A s \in Steps : new.steps[s] = "pending"
    /\ old.status \in TERMINAL => new = old
    /\ new.status \in {"absent", "prepared"} => old.status \in {"absent", "prepared"}

\* Requests of others, maintenance and the clock.
Beside ==
    \/ \E h \in Hosts : Approve(h, R) \/ UpdateHost(h)
    \/ CancelRun(R) \/ ResumeRun(R) \/ ReconcileRun(R) \/ ServeAnswer(R) \/ InstallerReport(R)
    \/ Maintain \/ Tick

\* Calls of the runner besides its batches.
Called == LeaseHandler(R) \/ Enroll(R, K, boot) \/ CompleteHandler(R)

LEMMA CalmSame == ASSUME NEW row PROVE Calm(row, row)
PROOF
  BY DEF Calm

LEMMA ServerStep ==
    ASSUME IInv, boot \in Boots, Beside \/ Called \/ UNCHANGED serverVars
    PROVE  IInv' /\ Calm(run[R], run'[R])
PROOF
  <1>1. R \in Runs /\ K \in Keys
    BY MachineAssumption
  <1>2. IInv'
    <2>1. CASE Beside
      BY <1>1, <2>1, ApproveStep, UpdateHostStep, CancelStep, ResumeStep, ReconcileStep,
         ServeAnswerStep, InstallerReportStep, MaintainStep, TickStep DEF Beside
    <2>2. CASE Called
      BY <1>1, <2>2, LeaseStep, EnrollStep, CompleteStep DEF Called
    <2>3. CASE UNCHANGED serverVars
      BY <2>3, NextHolds
    <2> QED
      BY <2>1, <2>2, <2>3
  <1>3. run[R] \in RunRow /\ run \in [Runs -> RunRow] /\ ServerTypeOK
    BY <1>1 DEF IInv, ServerTypeOK
  <1>4. Calm(run[R], run'[R])
    <2>1. CASE Tick \/ (\E h \in Hosts : UpdateHost(h)) \/ UNCHANGED serverVars
      BY <2>1, CalmSame DEF Tick, UpdateHost, serverVars
    <2>2. ASSUME NEW h \in Hosts, Approve(h, R) PROVE Calm(run[R], run'[R])
      <3>1. run'[R] = ApprovedRow(h) /\ run[R].status = "absent"
        BY <1>1, <1>3, <2>2 DEF Approve, SetRun
      <3>2. ApprovedRow(h).reboots = 0 /\ \A s \in Steps : ApprovedRow(h).steps[s] = "pending"
        BY DEF ApprovedRow, AbsentRow
      <3> QED
        BY <3>1, <3>2 DEF Calm, TERMINAL
    <2>3. ASSUME CancelRun(R) \/ ResumeRun(R) \/ ReconcileRun(R) \/ ServeAnswer(R)
                 \/ InstallerReport(R) \/ Enroll(R, K, boot) \/ CompleteHandler(R)
          PROVE  Calm(run[R], run'[R])
      <3>1. run[R].status \notin TERMINAL
        BY <2>3 DEF CancelRun, ResumeRun, ReconcileRun, ServeAnswer, AnswerDue, InstallerReport, Enroll,
                    EnrollAccepted, CompleteHandler, Active, Completable, ApprovalOpen, TERMINAL
      <3> DEFINE Quiet(row) ==
                   /\ row.steps = run[R].steps /\ row.reboots = run[R].reboots
                   /\ row.status \in {"absent", "prepared"}
                        => run[R].status \in {"absent", "prepared"}
      <3>2. \A row : run' = [run EXCEPT ![R] = row] => run'[R] = row
        BY <1>1, <1>3
      <3>3. ASSUME CancelRun(R) PROVE Quiet(run'[R])
        <4>1. run'[R] = CancelledByOperator(run[R])
          BY <3>2, <3>3 DEF CancelRun, SetRun
        <4> QED
          BY <1>3, <4>1 DEF CancelledByOperator, RunRow
      <3>4. ASSUME ResumeRun(R) PROVE Quiet(run'[R])
        BY <1>3, <3>2, <3>4 DEF ResumeRun, SetRun, RunRow
      <3>5. ASSUME ReconcileRun(R) PROVE Quiet(run'[R])
        BY <1>3, <3>2, <3>5 DEF ReconcileRun, SetRun, RunRow
      <3>6. ASSUME ServeAnswer(R) PROVE Quiet(run'[R])
        BY <1>3, <3>2, <3>6 DEF ServeAnswer, AnswerDue, SetRun, RunRow
      <3>7. ASSUME InstallerReport(R) PROVE Quiet(run'[R])
        BY <1>3, <3>2, <3>7 DEF InstallerReport, SetRun, RunRow
      <3>8. ASSUME Enroll(R, K, boot) PROVE Quiet(run'[R])
        BY <1>3, <3>2, <3>8 DEF Enroll, SetRun, RunRow
      <3>9. ASSUME CompleteHandler(R) PROVE Quiet(run'[R])
        BY <1>3, <3>2, <3>9 DEF CompleteHandler, SetRun, RunRow
      <3>10. Quiet(run'[R])
        BY <2>3, <3>3, <3>4, <3>5, <3>6, <3>7, <3>8, <3>9
      <3> QED
        BY <3>1, <3>10 DEF Calm
    <2>4. CASE LeaseHandler(R)
      <3>1. run'[R] = [run[R] EXCEPT !.leaseUntil = LeaseGranted(R)]
        BY <1>1, <1>3, <2>4 DEF LeaseHandler, SetRun
      <3>2. /\ run'[R].steps = run[R].steps /\ run'[R].reboots = run[R].reboots
            /\ run'[R].status = run[R].status
        BY <1>3, <3>1 DEF RunRow
      <3>3. ASSUME run[R].status \in TERMINAL PROVE run'[R] = run[R]
        <4>1. LeaseGranted(R) = run[R].leaseUntil
          BY <3>3 DEF LeaseGranted, LeaseAction, TERMINAL
        <4> QED
          BY <1>3, <3>1, <4>1 DEF RunRow
      <3> QED
        BY <3>2, <3>3 DEF Calm
    <2>5. CASE Maintain
      <3>1. run'[R] = IF Expired(run[R]) THEN ExpiredRow(run[R]) ELSE run[R]
        BY <1>1, <2>5 DEF Maintain
      <3>2. CASE Expired(run[R])
        BY <1>3, <3>1, <3>2 DEF Calm, Expired, ExpiredRow, TERMINAL, RunRow
      <3>3. CASE ~Expired(run[R])
        BY <3>1, <3>3, CalmSame
      <3> QED
        BY <3>2, <3>3
    <2> QED
      BY <2>1, <2>2, <2>3, <2>4, <2>5 DEF Beside, Called
  <1> QED
    BY <1>2, <1>4

-----------------------------------------------------------------------------
(* The types of the machine, and the kinds of steps *)

LocalState ==
    [status: LocalStatus, steps: [Steps -> Checkpoints], queue: Seq(Reports),
     enrolled: BOOLEAN, manifest: BOOLEAN, rebootBoot: Boots \cup {NoBoot},
     rebootCount: 0..RebootBudget, runVersion: Nat, haltedVersion: Nat, netFailed: BOOLEAN]

\* From the flush before check on, until the outcome is saved, nothing waits in the queue.
Cleared == {"check", "apply.auth", "apply.start", "apply", "reboot.event"}

Finals == {"succeeded", "cancelled", "cancellation_pending"}

\* Where the process is when its end is on disk.
Stopping ==
    /\ disk.status \in {"succeeded", "cancelled"} => pc = "off"
    /\ disk.status = "cancellation_pending" => pc \in {"cancel.flush", "cancel.save", "down"}
    /\ pc \in {"cancel.flush", "cancel.save"} => disk.status = "cancellation_pending"

Typed ==
    /\ disk \in LocalState
    /\ Len(disk.queue) <= MaxEvents
    /\ recorded \in 0..Len(disk.queue)
    /\ cur \in 1..(NumSteps + 1)
    /\ boot \in Boots
    /\ pc \in Cleared => disk.queue = <<>>
    /\ Stopping

\* Events that report neither a result nor a reboot.
PlainReports == {e \in Reports : e.type \notin {"step.succeeded", "run.reboot_pending"}}

\* What is saved counts no reboot and neither adds nor takes back a success.
Saved ==
    /\ disk' \in LocalState
    /\ disk'.rebootCount = disk.rebootCount
    /\ \A s \in Steps : disk'.steps[s] = "succeeded" <=> disk.steps[s] = "succeeded"

\* Nothing is reported, and no end is put on disk that was not there.
Quietly(places) ==
    /\ Saved /\ disk'.queue = disk.queue /\ pc' \in places
    /\ disk'.status \in Finals =>
          /\ disk'.status = disk.status
          /\ pc' = pc \/ (pc' \in {"down", "cancel.flush"} /\ disk.status = "cancellation_pending")

Telling(places) ==
    /\ Saved /\ pc' \in places /\ Len(disk.queue) < MaxEvents
    /\ \E e \in PlainReports : disk'.queue = Append(disk.queue, e)
    /\ disk'.status \notin Finals

\* The cancellation is confirmed to the server, by the last event of the queue.
StopTold ==
    /\ Saved /\ pc' = "cancel.flush" /\ Len(disk.queue) < MaxEvents
    /\ \E e \in PlainReports : e.type = "run.cancelled" /\ disk'.queue = Append(disk.queue, e)
    /\ disk'.status = "cancellation_pending"

\* Places a step enters only in the kinds below, or not at all.
Guarded == {"bare", "cancel.flush", "cancel.save", "reboot.event", "apply.start"}

Leasing == LeaseAction(R) = "run" /\ LeaseHandler(R)

Entering ==
    pc' \in Guarded =>
        \/ pc' = pc /\ (pc = "apply.start" => ServerSide \/ UNCHANGED serverVars)
                    /\ (pc \in {"cancel.flush", "cancel.save"} => disk'.status = disk.status)
                    /\ (pc = "bare" => UNCHANGED disk)
        \/ pc' = "cancel.flush" /\ disk'.status = "cancellation_pending"
        \/ pc' = "apply.start" /\ Leasing

Ordinary ==
    /\ Beside \/ Called \/ UNCHANGED serverVars
    /\ recorded' = recorded
    /\ Quietly({pc'}) \/ Telling({pc'}) \/ StopTold
    /\ Entering

\* A flush whose answer arrived, and one whose answer was lost.
Taken ==
    /\ \/ disk.queue = <<>> /\ UNCHANGED serverVars
       \/ disk.queue # <<>> /\ StoreBatch
    /\ disk' = [disk EXCEPT !.queue = <<>>] /\ recorded' = 0
    /\ pc' \notin Guarded \/ (pc = "cancel.flush" /\ pc' = "cancel.save")

TakenUnheard ==
    /\ disk.queue # <<>> /\ StoreBatch
    /\ recorded' = Len(disk.queue) /\ Quietly({pc'})
    /\ pc' \notin Guarded

StepDone ==
    /\ UNCHANGED <<serverVars, recorded>> /\ cur \in Steps /\ disk.queue = <<>>
    /\ disk' = [disk EXCEPT !.steps[cur] = "succeeded",
                            !.queue = Append(@, Event("step.succeeded", cur, NoBoot))]
    /\ pc' = "step.done" /\ disk.status \notin Finals

RebootSaved ==
    /\ UNCHANGED <<serverVars, recorded>> /\ disk.queue = <<>>
    /\ disk' \in LocalState /\ disk'.queue = <<>>
    /\ disk'.rebootCount = disk.rebootCount + 1
    /\ \A s \in Steps : disk'.steps[s] = "succeeded" <=> disk.steps[s] = "succeeded"
    /\ disk'.status \notin Finals /\ pc' = "reboot.event"

RebootTold ==
    /\ UNCHANGED <<serverVars, recorded>> /\ disk.queue = <<>>
    /\ pc = "reboot.event" /\ pc' = "reboot.flush"
    /\ disk' = [disk EXCEPT !.queue = Append(@, Event("run.reboot_pending", 0, boot))]
    /\ disk.status \notin Finals

Confirmed ==
    /\ UNCHANGED <<serverVars, recorded>>
    /\ pc = "cancel.save" /\ pc' = "off"
    /\ disk' = [disk EXCEPT !.status = "cancelled"]

Finished ==
    /\ \/ CompleteHandler(R)
       \/ UNCHANGED serverVars /\ run[R].status = "succeeded"
    /\ recorded' = recorded
    /\ pc = "finish.complete" /\ pc' = "off"
    /\ disk' = [disk EXCEPT !.status = "succeeded"]

Kind ==
    \/ Ordinary \/ Taken \/ TakenUnheard \/ StepDone \/ RebootSaved \/ RebootTold
    \/ Confirmed \/ Finished

-----------------------------------------------------------------------------
(* Types after a step of each kind *)

LEMMA OrdinaryTyped ==
    ASSUME Typed, Ordinary, cur' \in 1..(NumSteps + 1), boot' \in Boots,
           pc' \in Cleared => disk'.queue = <<>>
    PROVE  Typed'
PROOF
  <1>1. Stopping'
    <2>1. CASE Quietly({pc'})
      BY <2>1 DEF Typed, Stopping, Ordinary, Quietly, Finals, Entering, Guarded
    <2>2. CASE Telling({pc'})
      BY <2>2 DEF Typed, Stopping, Ordinary, Telling, Finals, Entering, Guarded
    <2>3. CASE StopTold
      BY <2>3 DEF Typed, Stopping, Ordinary, StopTold
    <2> QED
      BY <2>1, <2>2, <2>3 DEF Ordinary
  <1>2. disk' \in LocalState /\ recorded' = recorded
    BY DEF Ordinary, Quietly, Telling, StopTold, Saved
  <1>3. Len(disk'.queue) <= MaxEvents /\ recorded \in 0..Len(disk'.queue)
    <2>1. disk.queue \in Seq(Reports) /\ MaxEvents \in Nat
      BY MachineAssumption DEF Typed, LocalState
    <2>2. CASE disk'.queue = disk.queue
      BY <2>1, <2>2 DEF Typed
    <2>3. CASE \E e \in PlainReports : disk'.queue = Append(disk.queue, e) /\ Len(disk.queue) < MaxEvents
      <3>1. PICK e \in Reports : disk'.queue = Append(disk.queue, e)
        BY <2>3 DEF PlainReports
      <3>2. Len(disk'.queue) = Len(disk.queue) + 1
        BY <2>1, <3>1, AppendProperties
      <3> QED
        BY <2>1, <2>3, <3>2 DEF Typed
    <2> QED
      BY <2>2, <2>3 DEF Ordinary, Quietly, Telling, StopTold
  <1> QED
    BY <1>1, <1>2, <1>3 DEF Typed

\* A step that reports nothing, outside the guarded places.
LEMMA QuietKind ==
    ASSUME Typed, NEW places, Quietly(places), Beside \/ Called \/ UNCHANGED serverVars,
           recorded' = recorded, cur' \in 1..(NumSteps + 1), boot' \in Boots,
           pc' \in Cleared => disk.queue = <<>>,
           pc' \notin Guarded
    PROVE  Typed' /\ Kind
PROOF
  <1>1. Ordinary
    BY DEF Ordinary, Quietly, Entering
  <1>2. pc' \in Cleared => disk'.queue = <<>>
    BY DEF Quietly
  <1> QED
    BY <1>1, <1>2, OrdinaryTyped DEF Kind

LEMMA TellingKind ==
    ASSUME Typed, NEW places, Telling(places), Beside \/ Called \/ UNCHANGED serverVars,
           recorded' = recorded, cur' \in 1..(NumSteps + 1), boot' \in Boots,
           pc' \notin Cleared \cup Guarded
    PROVE  Typed' /\ Kind
PROOF
  <1>1. Ordinary
    BY DEF Ordinary, Telling, Entering
  <1> QED
    BY <1>1, OrdinaryTyped DEF Kind

LEMMA StoppedKind ==
    ASSUME Typed, StopTold, Beside \/ Called \/ UNCHANGED serverVars,
           recorded' = recorded, cur' \in 1..(NumSteps + 1), boot' \in Boots
    PROVE  Typed' /\ Kind
PROOF
  <1>1. Ordinary /\ pc' \notin Cleared
    BY DEF Ordinary, StopTold, Entering, Cleared
  <1> QED
    BY <1>1, OrdinaryTyped DEF Kind

\* A flush that was answered.
LEMMA TakenKind ==
    ASSUME Typed, NEW next,
           \/ disk.queue = <<>> /\ UNCHANGED <<serverVars, disk, recorded>>
           \/ /\ disk.queue # <<>> /\ StoreBatch
              /\ disk' = [disk EXCEPT !.queue = <<>>] /\ recorded' = 0,
           pc' = next, UNCHANGED <<cur, boot>>,
           \/ pc = "cancel.flush" /\ next = "cancel.save"
           \/ pc \notin {"off", "down", "cancel.flush", "cancel.save"} /\ next \notin Guarded
    PROVE  Typed' /\ Kind
PROOF
  <1>1. disk' = [disk EXCEPT !.queue = <<>>] /\ recorded' = 0
    BY DEF Typed, LocalState
  <1>2. disk' \in LocalState /\ disk'.queue = <<>> /\ disk'.status = disk.status
    <2>1. <<>> \in Seq(Reports)
      OBVIOUS
    <2> QED
      BY <1>1, <2>1 DEF Typed, LocalState
  <1>3. Stopping'
    BY <1>2 DEF Typed, Stopping, Guarded
  <1>4. Typed'
    BY <1>1, <1>2, <1>3, MachineAssumption DEF Typed
  <1>5. Taken
    BY <1>1 DEF Taken
  <1> QED
    BY <1>4, <1>5 DEF Kind

\* A flush that the server stored without the runner hearing of it.
LEMMA UnheardKind ==
    ASSUME Typed, NEW places, disk.queue # <<>>, StoreBatch, recorded' = Len(disk.queue),
           Quietly(places), pc' \notin Cleared \cup Guarded, UNCHANGED <<cur, boot>>
    PROVE  Typed' /\ Kind
PROOF
  <1>1. TakenUnheard
    BY DEF TakenUnheard, Quietly
  <1>2. disk' \in LocalState /\ disk'.queue = disk.queue
    BY DEF Quietly, Saved
  <1>3. Stopping'
    BY DEF Typed, Stopping, Quietly, Finals, Guarded
  <1>4. Len(disk.queue) \in Nat
    BY DEF Typed, LocalState
  <1>5. Typed'
    BY <1>2, <1>3, <1>4 DEF Typed
  <1> QED
    BY <1>1, <1>5 DEF Kind

-----------------------------------------------------------------------------
(* How a step of the runner can end, with the types *)

\* A state to be saved that differs from the one on disk in nothing an event reports.
Derived(d) ==
    /\ d \in LocalState
    /\ d.queue = disk.queue /\ d.rebootCount = disk.rebootCount
    /\ \A s \in Steps : d.steps[s] = "succeeded" <=> disk.steps[s] = "succeeded"

LEMMA DerivedSelf == Typed => Derived(disk)
PROOF
  BY DEF Typed, Derived

\* Such a state with another of the fields no event reports.
LEMMA DerivedFields ==
    ASSUME NEW d, Derived(d)
    PROVE  /\ Derived([d EXCEPT !.netFailed = TRUE])
           /\ Derived([d EXCEPT !.enrolled = TRUE])
           /\ Derived([d EXCEPT !.manifest = TRUE])
           /\ Derived([d EXCEPT !.status = "needs_review", !.haltedVersion = d.runVersion])
PROOF
  BY DEF Derived, LocalState, LocalStatus

LEMMA DerivedStatus ==
    ASSUME NEW d, Derived(d), NEW status \in LocalStatus
    PROVE  LET new == [d EXCEPT !.status = status] IN Derived(new) /\ new.status = status
PROOF
  BY DEF Derived, LocalState

LEMMA LeasedDerived ==
    ASSUME Typed, IInv
    PROVE  Derived(Leased) /\ Leased.status = disk.status
PROOF
  <1>1. run[R].version \in Nat
    BY MachineAssumption DEF IInv, ServerTypeOK, RunRow
  <1> QED
    BY <1>1 DEF Leased, Derived, LocalState, Typed

LEMMA ReopenedDerived ==
    ASSUME NEW d, Derived(d)
    PROVE  Derived(Reopened(d)) /\ Reopened(d).status = "running"
PROOF
  <1> DEFINE steps == [s \in Steps |-> IF d.steps[s] = "failed" THEN "applying" ELSE d.steps[s]]
  <1>1. steps \in [Steps -> Checkpoints]
    BY DEF Derived, LocalState, Checkpoints
  <1>2. \A s \in Steps : steps[s] = "succeeded" <=> d.steps[s] = "succeeded"
    OBVIOUS
  <1>3. Reopened(d) = [d EXCEPT !.status = "running", !.steps = steps]
    BY DEF Reopened
  <1> HIDE DEF steps
  <1>4. "running" \in LocalStatus
    BY DEF LocalStatus
  <1>5. Reopened(d) \in LocalState
    BY <1>1, <1>3, <1>4 DEF Derived, LocalState
  <1>6. /\ Reopened(d).steps = steps /\ Reopened(d).status = "running"
        /\ Reopened(d).queue = d.queue /\ Reopened(d).rebootCount = d.rebootCount
    BY <1>3 DEF Derived, LocalState
  <1> QED
    BY <1>2, <1>5, <1>6 DEF Derived

\* A checkpoint other than "succeeded" of a step that has not succeeded.
LEMMA CheckpointDerived ==
    ASSUME Typed, cur \in Steps, disk.steps[cur] # "succeeded",
           NEW status \in Checkpoints \ {"succeeded"}
    PROVE  Derived(Checkpoint(status)) /\ Checkpoint(status).status = disk.status
PROOF
  BY DEF Checkpoint, Typed, Derived, LocalState

LEMMA HaltQuiet ==
    ASSUME NEW d, Derived(d), Halt(d)
    PROVE  Quietly({"halt.event"})
PROOF
  <1> DEFINE new == [d EXCEPT !.status = "needs_review", !.haltedVersion = d.runVersion]
  <1>1. disk' = new /\ pc' = "halt.event"
    BY DEF Halt
  <1>2. Derived(new)
    BY DerivedFields
  <1>3. new.status = "needs_review"
    BY DEF Derived, LocalState
  <1> HIDE DEF new
  <1> QED
    BY <1>1, <1>2, <1>3 DEF Quietly, Saved, Derived, Finals

\* A state that is no end, or the end that is on disk already, on the way down.
LEMMA QuietEnd ==
    ASSUME NEW next, Derived(disk'), pc' = next,
           \/ disk'.status \notin Finals
           \/ disk'.status = disk.status /\ Stopping /\ next = "down" /\ pc # "off"
    PROVE  Quietly({next})
PROOF
  <1>1. Saved /\ disk'.queue = disk.queue
    BY DEF Saved, Derived
  <1> QED
    BY <1>1 DEF Quietly, Finals, Stopping

LEMMA FailureQuiet ==
    ASSUME Typed, NEW next, NetworkFailure(disk, next),
           disk.status \notin Finals \/ (next = "down" /\ pc # "off")
    PROVE  Quietly({next, "halt.event"})
PROOF
  <1>1. Derived(disk) /\ Stopping
    BY DerivedSelf DEF Typed
  <1>2. CASE disk' = [disk EXCEPT !.netFailed = TRUE] /\ Goto(next)
    <2> DEFINE new == [disk EXCEPT !.netFailed = TRUE]
    <2>3. Derived(new)
      BY <1>1, DerivedFields
    <2>4. new.status = disk.status
      BY <1>1 DEF Derived, LocalState
    <2>5. disk' = new /\ pc' = next
      BY <1>2 DEF Goto
    <2> HIDE DEF new
    <2>1. Derived(disk') /\ disk'.status = disk.status /\ pc' = next
      BY <2>3, <2>4, <2>5
    <2>2. Quietly({next})
      BY <1>1, <2>1, QuietEnd
    <2> QED
      BY <2>2 DEF Quietly
  <1>3. CASE Halt(disk)
    BY <1>1, <1>3, HaltQuiet DEF Quietly
  <1> QED
    BY <1>2, <1>3 DEF NetworkFailure

LEMMA LostQuiet ==
    ASSUME Typed, pc # "off", Lost
    PROVE  Quietly({"down", "halt.event"})
PROOF
  BY FailureQuiet DEF Lost

LEMMA RefusedQuiet ==
    ASSUME Typed, Refused
    PROVE  Quietly({"halt.event"})
PROOF
  BY DerivedSelf, HaltQuiet DEF Refused

LEMMA EventReported ==
    ASSUME Typed, NEW type \in EventTypes \ {"heartbeat"}, type \in StepEvents => cur \in Steps
    PROVE  Event(type, StepOf(type), BootOf(type)) \in Reports
PROOF
  <1>1. boot \in Boots /\ Steps \subseteq 0..NumSteps /\ 0 \in 0..NumSteps
    BY StepsAssumption DEF Typed, Steps
  <1>2. /\ StepOf(type) \in 0..NumSteps /\ (type \in StepEvents => StepOf(type) = cur)
    BY <1>1 DEF StepOf
  <1>3. /\ BootOf(type) \in Boots \cup {NoBoot}
        /\ type \in {"run.reboot_pending", "run.resumed"} => BootOf(type) \in Boots
    BY <1>1 DEF BootOf
  <1> QED
    BY <1>2, <1>3 DEF Reports, Fits, Event

\* event() with a report of neither a result nor a reboot.
LEMMA ReportKind ==
    ASSUME Typed, NEW d, Derived(d), NEW next,
           NEW type \in EventTypes \ {"heartbeat", "step.succeeded", "run.reboot_pending"},
           type \in StepEvents => cur \in Steps, Report(d, type, next)
    PROVE  \/ /\ Saved /\ pc' = next /\ disk'.status = d.status /\ Len(disk.queue) < MaxEvents
              /\ \E e \in PlainReports : e.type = type /\ disk'.queue = Append(disk.queue, e)
           \/ Quietly({"halt"})
PROOF
  <1> DEFINE e == Event(type, StepOf(type), BootOf(type))
  <1>1. e \in PlainReports /\ e.type = type
    BY EventReported DEF PlainReports, Event
  <1>2. Len(disk.queue) \in Nat /\ MaxEvents \in Nat /\ d.queue = disk.queue /\ d.queue \in Seq(Reports)
    BY MachineAssumption DEF Typed, LocalState, Derived
  <1>3. CASE ~QueueFull(d)
    <2>1. disk' = [d EXCEPT !.queue = Append(@, e)] /\ pc' = next
      BY <1>3 DEF Report, Goto
    <2> HIDE DEF e
    <2>2. Append(d.queue, e) \in Seq(Reports)
      BY <1>1, <1>2 DEF PlainReports
    <2>3. Saved /\ disk'.queue = Append(disk.queue, e) /\ disk'.status = d.status
      BY <1>2, <2>1, <2>2 DEF Saved, Derived, LocalState
    <2> QED
      BY <1>1, <1>2, <1>3, <2>1, <2>3 DEF QueueFull
  <1>4. CASE QueueFull(d)
    <2>1. Derived(disk') /\ disk'.status = "needs_review" /\ pc' = "halt"
      <3>1. disk' = [d EXCEPT !.status = "needs_review"] /\ pc' = "halt"
        BY <1>4 DEF Report
      <3> QED
        BY <3>1, DerivedStatus DEF LocalStatus
    <2>2. disk'.status \notin Finals
      BY <2>1 DEF Finals
    <2> QED
      BY <2>1, <2>2, QuietEnd
  <1> QED
    BY <1>3, <1>4

LEMMA ReportTells ==
    ASSUME Typed, NEW d, Derived(d), NEW next, d.status \notin Finals,
           NEW type \in EventTypes \ {"heartbeat", "step.succeeded", "run.reboot_pending"},
           type \in StepEvents => cur \in Steps, Report(d, type, next)
    PROVE  Telling({next}) \/ Quietly({"halt"})
PROOF
  <1>1. \/ /\ Saved /\ pc' = next /\ disk'.status = d.status /\ Len(disk.queue) < MaxEvents
           /\ \E e \in PlainReports : e.type = type /\ disk'.queue = Append(disk.queue, e)
        \/ Quietly({"halt"})
    BY ReportKind
  <1> QED
    BY <1>1 DEF Telling

LEMMA CancelTells ==
    ASSUME Typed, Cancel(disk)
    PROVE  StopTold \/ Quietly({"halt"})
PROOF
  <1> DEFINE d == [disk EXCEPT !.status = "cancellation_pending"]
  <1>1. Derived(d) /\ d.status = "cancellation_pending"
    BY DerivedSelf, DerivedStatus DEF LocalStatus
  <1>2. Report(d, "run.cancelled", "cancel.flush")
    BY DEF Cancel
  <1> HIDE DEF d
  <1>3. \/ /\ Saved /\ pc' = "cancel.flush" /\ disk'.status = d.status /\ Len(disk.queue) < MaxEvents
           /\ \E e \in PlainReports : e.type = "run.cancelled" /\ disk'.queue = Append(disk.queue, e)
        \/ Quietly({"halt"})
    BY <1>1, <1>2, ReportKind DEF EventTypes, StepEvents
  <1> QED
    BY <1>1, <1>3 DEF StopTold

-----------------------------------------------------------------------------
(* Flushes, leases and other calls *)

\* A flush whose failures stop the process, or are ignored.
LEMMA FlushKind ==
    ASSUME Typed, NEW next, NEW lost, NEW refused, UNCHANGED <<cur, boot>>,
           Flush(next, lost, refused),
           \/ pc = "cancel.flush" /\ next = "cancel.save"
           \/ pc \notin {"off", "down", "cancel.flush", "cancel.save"} /\ next \notin Guarded,
           NEW places, places \cap (Cleared \cup Guarded) = {},
           lost \/ refused => Quietly(places)
    PROVE  Typed' /\ Kind
PROOF
  <1> SUFFICES ASSUME lost \/ refused PROVE Typed' /\ Kind
    <2>1. CASE lost \/ refused
      BY <2>1
    <2>2. CASE ~(lost \/ refused)
      <3>1. /\ pc' = next
            /\ \/ disk.queue = <<>> /\ UNCHANGED <<serverVars, disk, recorded>>
               \/ /\ disk.queue # <<>> /\ StoreBatch
                  /\ disk' = [disk EXCEPT !.queue = <<>>] /\ recorded' = 0
        BY <2>2 DEF Flush, Goto, netVars
      <3> QED
        BY <3>1, TakenKind
    <2> QED
      BY <2>1, <2>2
  <1>1. CASE pc' = next /\ disk.queue = <<>> /\ UNCHANGED <<serverVars, disk, recorded>>
    BY <1>1, TakenKind
  <1>2. CASE /\ pc' = next /\ disk.queue # <<>> /\ StoreBatch
             /\ disk' = [disk EXCEPT !.queue = <<>>] /\ recorded' = 0
    BY <1>2, TakenKind
  <1>3. Quietly(places) /\ pc' \notin Cleared \cup Guarded
    BY DEF Quietly
  <1>4. CASE disk.queue # <<>> /\ StoreBatch /\ recorded' = Len(disk.queue)
    BY <1>3, <1>4, UnheardKind
  <1>5. CASE UNCHANGED <<serverVars, recorded>>
    <2>1. cur' \in 1..(NumSteps + 1) /\ boot' \in Boots
      BY DEF Typed
    <2> QED
      BY <1>3, <1>5, <2>1, QuietKind
  <1> QED
    BY <1>1, <1>2, <1>4, <1>5 DEF Flush, Goto, netVars

-----------------------------------------------------------------------------
(* The kind of every step *)

\* The state on disk stays as it is, and no end is on it unless the process goes down.
LEMMA SameQuiet ==
    ASSUME Typed, UNCHANGED disk,
           pc \notin {"off", "down", "cancel.flush", "cancel.save"} \/ (pc' = "down" /\ pc # "off")
    PROVE  Quietly({pc'})
PROOF
  <1>1. Derived(disk') /\ Stopping
    BY DerivedSelf DEF Typed
  <1>2. disk'.status \notin Finals \/ (pc' = "down" /\ pc # "off")
    BY DEF Typed, Stopping, Finals
  <1> QED
    BY <1>1, <1>2, QuietEnd

LEMMA SameKind ==
    ASSUME Typed, UNCHANGED <<disk, recorded>>, Beside \/ Called \/ UNCHANGED serverVars,
           cur' \in 1..(NumSteps + 1), boot' \in Boots, pc' \notin Cleared \cup Guarded,
           pc \notin {"off", "down", "cancel.flush", "cancel.save"} \/ (pc' = "down" /\ pc # "off")
    PROVE  Typed' /\ Kind
PROOF
  <1>1. Quietly({pc'})
    BY SameQuiet
  <1> QED
    BY <1>1, QuietKind

\* A GET or POST, with what its answer leads to.
LEMMA CallKind ==
    ASSUME Typed, NEW Ok, NEW Handler, NEW Answered, UNCHANGED <<cur, boot, recorded>>,
           Call(Ok, Handler, Answered), pc # "off",
           Handler => Called \/ UNCHANGED serverVars,
           NEW places, places \cap (Cleared \cup Guarded) = {},
           Answered => Quietly(places)
    PROVE  Typed' /\ Kind
PROOF
  <1>1. cur' \in 1..(NumSteps + 1) /\ boot' \in Boots
    BY DEF Typed
  <1>2. Called \/ UNCHANGED serverVars
    BY DEF Call
  <1>3. Answered \/ Lost \/ Refused
    BY DEF Call
  <1>4. CASE Answered
    <2>1. pc' \notin Cleared \cup Guarded
      BY <1>4 DEF Quietly
    <2> QED
      BY <1>1, <1>2, <1>4, <2>1, QuietKind
  <1>5. CASE Lost \/ Refused
    <2>1. Quietly({"down", "halt.event"})
      BY <1>5, LostQuiet, RefusedQuiet DEF Quietly
    <2>2. pc' \notin Cleared \cup Guarded
      BY <2>1 DEF Quietly, Cleared, Guarded
    <2> QED
      BY <1>1, <1>2, <2>1, <2>2, QuietKind
  <1> QED
    BY <1>3, <1>4, <1>5

LEMMA BootstrapKind == Typed /\ Bootstrap => Typed' /\ Kind
PROOF
  <1> SUFFICES ASSUME Typed, Bootstrap PROVE Typed' /\ Kind
    OBVIOUS
  <1>1. /\ pc = "bare" /\ pc' = "down"
        /\ UNCHANGED <<serverVars, disk, cur, boot, recorded>>
    BY DEF Bootstrap, netVars
  <1>2. cur' \in 1..(NumSteps + 1) /\ boot' \in Boots
    BY <1>1 DEF Typed
  <1>3. "down" \notin Cleared \cup Guarded
    BY DEF Cleared, Guarded
  <1> QED
    BY <1>1, <1>2, <1>3, SameKind

LEMMA StartKind == Typed /\ Start => Typed' /\ Kind
PROOF
  <1> SUFFICES ASSUME Typed, Start PROVE Typed' /\ Kind
    OBVIOUS
  <1>1. /\ pc = "down" /\ cur' = 1
        /\ UNCHANGED <<serverVars, disk, boot, recorded>>
        /\ pc' = StartAt \/ (disk.status = "needs_review" /\ pc' = "gave.up")
    BY DEF Start, netVars, Goto
  <1>2. disk.status \notin {"succeeded", "cancelled"}
    BY <1>1 DEF Typed, Stopping
  <1>3. AfterReview \in {"begin.auth", "enroll"}
    BY DEF AfterReview
  <1>4. StartAt \in {"cancel.flush", "review.flush", "finish.flush", "reboot.auth",
                     "reboot.return", "begin.auth", "enroll"}
    BY <1>2, <1>3 DEF StartAt
  <1>5. StartAt = "cancel.flush" <=> disk.status = "cancellation_pending"
    BY <1>2, <1>3 DEF StartAt
  <1>6. Derived(disk)
    BY DerivedSelf
  <1>7. Quietly({pc'})
    BY <1>1, <1>2, <1>5, <1>6 DEF Quietly, Saved, Derived, Finals
  <1>8. Entering
    BY <1>1, <1>4, <1>5 DEF Entering, Guarded
  <1>9. Ordinary
    BY <1>1, <1>7, <1>8 DEF Ordinary
  <1>10. pc' \notin Cleared
    BY <1>1, <1>4 DEF Cleared
  <1>11. cur' \in 1..(NumSteps + 1) /\ boot' \in Boots
    BY <1>1, StepsAssumption DEF Typed
  <1> QED
    BY <1>9, <1>10, <1>11, OrdinaryTyped DEF Kind

LEMMA EnrollKind == Typed /\ EnrollCall => Typed' /\ Kind
PROOF
  <1> SUFFICES ASSUME Typed, EnrollCall PROVE Typed' /\ Kind
    OBVIOUS
  <1> DEFINE Answered == disk' = [disk EXCEPT !.enrolled = TRUE] /\ Goto("begin.auth")
  <1>1. pc = "enroll" /\ UNCHANGED <<cur, boot, recorded>>
    BY DEF EnrollCall
  <1>2. Call(EnrollAccepted(R, K), EnrollHandler, Answered)
    BY DEF EnrollCall
  <1>3. EnrollHandler => Called \/ UNCHANGED serverVars
    BY DEF EnrollHandler, Called
  <1>4. Answered => Quietly({"begin.auth"})
    <2> SUFFICES ASSUME Answered PROVE Quietly({"begin.auth"})
      OBVIOUS
    <2> DEFINE new == [disk EXCEPT !.enrolled = TRUE]
    <2>1. Derived(disk)
      BY DerivedSelf
    <2>2. Derived(new)
      BY <2>1, DerivedFields
    <2>3. new.status = disk.status
      BY DEF Typed, LocalState
    <2>4. disk' = new /\ pc' = "begin.auth"
      BY DEF Goto
    <2>5. disk.status \notin Finals
      BY <1>1 DEF Typed, Stopping, Finals
    <2> HIDE DEF new
    <2> QED
      BY <2>2, <2>3, <2>4, <2>5, QuietEnd
  <1>5. {"begin.auth"} \cap (Cleared \cup Guarded) = {} /\ pc # "off"
    BY <1>1 DEF Cleared, Guarded
  <1> HIDE DEF Answered
  <1> QED
    BY <1>1, <1>2, <1>3, <1>4, <1>5, CallKind

LEMMA ManifestKind == Typed /\ Manifest => Typed' /\ Kind
PROOF
  <1> SUFFICES ASSUME Typed, Manifest PROVE Typed' /\ Kind
    OBVIOUS
  <1> DEFINE Answered == disk' = [disk EXCEPT !.manifest = TRUE] /\ Goto("manifest.flush")
  <1>1. pc = "manifest" /\ UNCHANGED <<cur, boot, recorded>>
    BY DEF Manifest
  <1>2. {"manifest.flush"} \cap (Cleared \cup Guarded) = {} /\ pc # "off"
    BY <1>1 DEF Cleared, Guarded
  <1>3. CASE disk.manifest
    <2>1. pc' = "manifest.flush" /\ UNCHANGED <<serverVars, disk>>
      BY <1>3 DEF Manifest, Goto
    <2>2. cur' \in 1..(NumSteps + 1) /\ boot' \in Boots
      BY <1>1 DEF Typed
    <2> QED
      BY <1>1, <1>2, <2>1, <2>2, SameKind
  <1>4. CASE ~disk.manifest
    <2>1. Call(DeviceOk(R, K) /\ LeaseInForce(R), UNCHANGED serverVars, Answered)
      BY <1>4 DEF Manifest
    <2>2. Answered => Quietly({"manifest.flush"})
      <3> SUFFICES ASSUME Answered PROVE Quietly({"manifest.flush"})
        OBVIOUS
      <3> DEFINE new == [disk EXCEPT !.manifest = TRUE]
      <3>1. Derived(disk)
        BY DerivedSelf
      <3>2. Derived(new)
        BY <3>1, DerivedFields
      <3>3. new.status = disk.status
        BY DEF Typed, LocalState
      <3>4. disk' = new /\ pc' = "manifest.flush"
        BY DEF Goto
      <3>5. disk.status \notin Finals
        BY <1>1 DEF Typed, Stopping, Finals
      <3> HIDE DEF new
      <3> QED
        BY <3>2, <3>3, <3>4, <3>5, QuietEnd
    <2> HIDE DEF Answered
    <2> QED
      BY <1>1, <1>2, <2>1, <2>2, CallKind
  <1> QED
    BY <1>3, <1>4

\* Steps that save a new status, no end, with what is on disk.
LEMMA StatusQuiet ==
    ASSUME Typed, NEW status \in LocalStatus \ Finals, NEW next,
           disk' = [disk EXCEPT !.status = status], pc' = next
    PROVE  Quietly({next})
PROOF
  <1>1. Derived(disk)
    BY DerivedSelf
  <1>2. Derived(disk') /\ disk'.status = status
    BY <1>1, DerivedStatus
  <1> QED
    BY <1>2, QuietEnd

LEMMA EndsKind ==
    ASSUME Typed, UNCHANGED <<serverVars, recorded>>, cur' \in 1..(NumSteps + 1),
           boot' \in Boots, NEW places, Telling(places) \/ Quietly(places),
           pc' \notin Cleared \cup Guarded
    PROVE  Typed' /\ Kind
PROOF
  BY QuietKind, TellingKind

LEMMA ReturnKind == Typed /\ RebootReturn => Typed' /\ Kind
PROOF
  <1> SUFFICES ASSUME Typed, RebootReturn PROVE Typed' /\ Kind
    OBVIOUS
  <1>1. UNCHANGED <<serverVars, cur, boot, recorded>> /\ pc \in {"reboot.return", "reboot.resume"}
    BY DEF RebootReturn, netVars
  <1>2. cur' \in 1..(NumSteps + 1) /\ boot' \in Boots
    BY <1>1 DEF Typed
  <1>3. CASE disk' = [disk EXCEPT !.status = "running"] /\ Goto("reboot.resume")
    <2>1. Quietly({"reboot.resume"})
      BY <1>3, StatusQuiet DEF Goto, LocalStatus, Finals
    <2>2. pc' \notin Cleared \cup Guarded
      BY <1>3 DEF Goto, Cleared, Guarded
    <2> QED
      BY <1>1, <1>2, <2>1, <2>2, EndsKind
  <1>4. CASE Report(disk, "run.resumed", "reboot.flushed")
    <2>1. disk.status \notin Finals /\ Derived(disk)
      BY <1>1, DerivedSelf DEF Typed, Stopping, Finals
    <2>2. Telling({"reboot.flushed"}) \/ Quietly({"halt"})
      BY <1>4, <2>1, ReportTells DEF EventTypes, StepEvents
    <2>3. pc' \notin Cleared \cup Guarded
      BY <2>2 DEF Telling, Quietly, Cleared, Guarded
    <2> QED
      BY <1>1, <1>2, <2>2, <2>3, EndsKind
  <1> QED
    BY <1>3, <1>4 DEF RebootReturn

-----------------------------------------------------------------------------
(* The kinds of the steps in the loop *)

LEMMA LoopKind == Typed /\ LoopStep => Typed' /\ Kind
PROOF
  <1> SUFFICES ASSUME Typed, LoopStep PROVE Typed' /\ Kind
    OBVIOUS
  <1>1. UNCHANGED <<serverVars, cur, boot, recorded>> /\ pc = "loop"
    BY DEF LoopStep, netVars
  <1>2. cur' \in 1..(NumSteps + 1) /\ boot' \in Boots
    BY <1>1 DEF Typed
  <1>3. CASE disk' = [disk EXCEPT !.status = "completion_pending"] /\ Goto("finish.flush")
    <2>1. Quietly({"finish.flush"})
      BY <1>3, StatusQuiet DEF Goto, LocalStatus, Finals
    <2>2. pc' \notin Cleared \cup Guarded
      BY <1>3 DEF Goto, Cleared, Guarded
    <2> QED
      BY <1>1, <1>2, <2>1, <2>2, EndsKind
  <1>4. CASE Halt(disk)
    <2>1. Quietly({"halt.event"})
      BY <1>4, DerivedSelf, HaltQuiet
    <2>2. pc' \notin Cleared \cup Guarded
      BY <2>1 DEF Quietly, Cleared, Guarded
    <2> QED
      BY <1>1, <1>2, <2>1, <2>2, EndsKind
  <1>5. CASE pc' \in {"step.done", "step.auth"} /\ UNCHANGED disk
    <2>1. pc' \notin Cleared \cup Guarded
      BY <1>5 DEF Cleared, Guarded
    <2> QED
      BY <1>1, <1>2, <1>5, <2>1, SameKind
  <1> QED
    BY <1>3, <1>4, <1>5 DEF LoopStep, Goto

LEMMA FetchKind == Typed /\ FetchSecrets => Typed' /\ Kind
PROOF
  <1> SUFFICES ASSUME Typed, FetchSecrets PROVE Typed' /\ Kind
    OBVIOUS
  <1> DEFINE Answered == Goto("step.start") /\ UNCHANGED disk
  <1>1. pc = "step.secrets" /\ UNCHANGED <<cur, boot, recorded>>
    BY DEF FetchSecrets
  <1>2. Call(DeviceOk(R, K) /\ SecretsServed(R, cur), UNCHANGED serverVars, Answered)
    BY DEF FetchSecrets
  <1>3. Answered => Quietly({"step.start"})
    BY <1>1, SameQuiet DEF Goto
  <1>4. {"step.start"} \cap (Cleared \cup Guarded) = {} /\ pc # "off"
    BY <1>1 DEF Cleared, Guarded
  <1> HIDE DEF Answered
  <1> QED
    BY <1>1, <1>2, <1>3, <1>4, CallKind

LEMMA StepStartKind == RunnerInv /\ Typed /\ StepStart => Typed' /\ Kind
PROOF
  <1> SUFFICES ASSUME RunnerInv, Typed, StepStart PROVE Typed' /\ Kind
    OBVIOUS
  <1>1. UNCHANGED <<serverVars, cur, boot, recorded>> /\ pc = "step.start"
    BY DEF StepStart, netVars
  <1>2. cur' \in 1..(NumSteps + 1) /\ boot' \in Boots
    BY <1>1 DEF Typed
  <1>3. disk.status \notin Finals /\ Derived(disk) /\ cur \in Steps
    BY <1>1, DerivedSelf DEF Typed, Stopping, Finals, RunnerInv, AtHand, InStep, Before
  <1>4. Report(disk, "step.started", "step.started")
    BY DEF StepStart
  <1>5. Telling({"step.started"}) \/ Quietly({"halt"})
    BY <1>3, <1>4, ReportTells DEF EventTypes
  <1>6. pc' \notin Cleared \cup Guarded
    BY <1>5 DEF Telling, Quietly, Cleared, Guarded
  <1> QED
    BY <1>1, <1>2, <1>5, <1>6, EndsKind

\* The outcome of the step at hand: nothing waits in the queue, so its report fits in.
LEMMA OutcomeKind ==
    ASSUME RunnerInv, Typed, pc \in {"check", "apply"}, Succeed \/ Fail,
           UNCHANGED <<serverVars, cur, boot, recorded>>
    PROVE  Typed' /\ Kind
PROOF
  <1>1. /\ cur \in Steps /\ disk.steps[cur] # "succeeded" /\ disk.queue = <<>>
        /\ disk.status \notin Finals
    BY DEF RunnerInv, AtHand, InStep, Before, Behind, Ended, Typed, Cleared, Stopping, Finals
  <1>2. cur' \in 1..(NumSteps + 1) /\ boot' \in Boots
    BY DEF Typed
  <1>3. CASE Fail
    <2>1. PICK next \in {"halt", "step.done"} : Report(Checkpoint("failed"), "step.failed", next)
      BY <1>3 DEF Fail
    <2>2. Derived(Checkpoint("failed")) /\ Checkpoint("failed").status \notin Finals
      BY <1>1, CheckpointDerived DEF Checkpoints
    <2>3. Telling({next}) \/ Quietly({"halt"})
      BY <1>1, <2>1, <2>2, ReportTells DEF EventTypes
    <2>4. pc' \notin Cleared \cup Guarded
      BY <2>3 DEF Telling, Quietly, Cleared, Guarded
    <2> QED
      BY <1>2, <2>3, <2>4, EndsKind
  <1>4. CASE Succeed
    <2> DEFINE e == Event("step.succeeded", cur, NoBoot)
               d == Checkpoint("succeeded")
    <2>1. e = Event("step.succeeded", StepOf("step.succeeded"), BootOf("step.succeeded"))
      BY DEF StepOf, BootOf, StepEvents
    <2>2. e \in Reports
      BY <1>1, <2>1, EventReported DEF EventTypes
    <2>3. ~QueueFull(d)
      <3>1. d.queue = <<>>
        BY <1>1 DEF Checkpoint, Typed, LocalState
      <3> QED
        BY <3>1, MachineAssumption DEF QueueFull
    <2>4. disk' = [d EXCEPT !.queue = Append(@, e)] /\ pc' = "step.done"
      <3>1. Report(d, "step.succeeded", "step.done")
        BY <1>4 DEF Succeed
      <3> QED
        BY <2>1, <2>3, <3>1 DEF Report, Goto
    <2>5. disk' = [disk EXCEPT !.steps[cur] = "succeeded",
                               !.queue = Append(@, Event("step.succeeded", cur, NoBoot))]
      BY <2>4 DEF Checkpoint, Typed, LocalState
    <2>6. StepDone
      BY <1>1, <2>4, <2>5 DEF StepDone, netVars
    <2> HIDE DEF e, d
    <2>7. disk' \in LocalState /\ Len(disk'.queue) = 1 /\ disk'.status = disk.status
      <3>1. Append(disk.queue, e) \in Seq(Reports) /\ Len(Append(disk.queue, e)) = 1
        BY <1>1, <2>2
      <3>2. disk' = [disk EXCEPT !.steps[cur] = "succeeded", !.queue = Append(disk.queue, e)]
        BY <2>5 DEF e
      <3>3. [disk.steps EXCEPT ![cur] = "succeeded"] \in [Steps -> Checkpoints]
        BY <1>1 DEF Typed, LocalState, Checkpoints
      <3> QED
        BY <3>1, <3>2, <3>3 DEF Typed, LocalState
    <2>8. 1 <= MaxEvents /\ recorded = 0
      BY <1>1, MachineAssumption DEF Typed
    <2>9. Typed'
      BY <1>1, <1>2, <2>4, <2>7, <2>8 DEF Typed, Stopping, Cleared, Finals
    <2> QED
      BY <2>6, <2>9 DEF Kind
  <1> QED
    BY <1>3, <1>4

LEMMA CheckKind == RunnerInv /\ Typed /\ CheckPhase => Typed' /\ Kind
PROOF
  <1> SUFFICES ASSUME RunnerInv, Typed, CheckPhase PROVE Typed' /\ Kind
    OBVIOUS
  <1>1. UNCHANGED <<serverVars, cur, boot, recorded>> /\ pc = "check"
    BY DEF CheckPhase, netVars
  <1>2. cur' \in 1..(NumSteps + 1) /\ boot' \in Boots
    BY <1>1 DEF Typed
  <1>3. CASE Succeed \/ Fail
    BY <1>1, <1>3, OutcomeKind
  <1>4. CASE Halt(disk)
    <2>1. Quietly({"halt.event"})
      BY <1>4, DerivedSelf, HaltQuiet
    <2>2. pc' \notin Cleared \cup Guarded
      BY <2>1 DEF Quietly, Cleared, Guarded
    <2> QED
      BY <1>1, <1>2, <2>1, <2>2, EndsKind
  <1>5. CASE Goto("apply.auth") /\ UNCHANGED disk
    <2>1. disk.queue = <<>> /\ pc' \notin Guarded
      BY <1>1, <1>5 DEF Typed, Cleared, Goto, Guarded
    <2>2. Quietly({pc'})
      BY <1>1, <1>5, SameQuiet
    <2> QED
      BY <1>1, <1>2, <2>1, <2>2, QuietKind
  <1> QED
    BY <1>3, <1>4, <1>5 DEF CheckPhase

LEMMA ApplyStartKind == RunnerInv /\ Typed /\ ApplyStart => Typed' /\ Kind
PROOF
  <1> SUFFICES ASSUME RunnerInv, Typed, ApplyStart PROVE Typed' /\ Kind
    OBVIOUS
  <1>1. /\ UNCHANGED <<serverVars, cur, boot, recorded>>
        /\ pc = "apply.start" /\ pc' = "apply"
        /\ disk' = [Checkpoint("applying") EXCEPT !.status = "running"]
    BY DEF ApplyStart, netVars, Goto
  <1>2. cur' \in 1..(NumSteps + 1) /\ boot' \in Boots
    BY <1>1 DEF Typed
  <1>3. cur \in Steps /\ disk.steps[cur] # "succeeded" /\ disk.queue = <<>>
    BY <1>1 DEF RunnerInv, AtHand, InStep, Decided, Behind, Ended, Typed, Cleared
  <1>4. Derived(Checkpoint("applying"))
    BY <1>3, CheckpointDerived DEF Checkpoints
  <1>5. Derived(disk') /\ disk'.status = "running"
    BY <1>1, <1>4, DerivedStatus DEF LocalStatus
  <1>6. Quietly({"apply"})
    BY <1>1, <1>5, QuietEnd DEF Finals
  <1>7. pc' \notin Guarded
    BY <1>1 DEF Guarded
  <1> QED
    BY <1>1, <1>2, <1>3, <1>6, <1>7, QuietKind

LEMMA ApplyEndKind == RunnerInv /\ Typed /\ ApplyEnd => Typed' /\ Kind
PROOF
  <1> SUFFICES ASSUME RunnerInv, Typed, ApplyEnd PROVE Typed' /\ Kind
    OBVIOUS
  <1>1. UNCHANGED <<serverVars, cur, boot, recorded>> /\ pc = "apply"
    BY DEF ApplyEnd, netVars
  <1>2. cur' \in 1..(NumSteps + 1) /\ boot' \in Boots
    BY <1>1 DEF Typed
  <1>3. CASE Succeed \/ Fail
    BY <1>1, <1>3, OutcomeKind
  <1>4. CASE Halt(disk)
    <2>1. Quietly({"halt.event"})
      BY <1>4, DerivedSelf, HaltQuiet
    <2>2. pc' \notin Cleared \cup Guarded
      BY <2>1 DEF Quietly, Cleared, Guarded
    <2> QED
      BY <1>1, <1>2, <2>1, <2>2, EndsKind
  <1>5. CASE /\ RebootsLeft
             /\ disk' = [Checkpoint("reboot_pending") EXCEPT
                            !.status = "reboot_pending", !.rebootBoot = boot,
                            !.rebootCount = @ + 1]
             /\ Goto("reboot.event")
    <2> DEFINE d == Checkpoint("reboot_pending")
    <2>1. cur \in Steps /\ disk.steps[cur] # "succeeded" /\ disk.queue = <<>>
      BY <1>1 DEF RunnerInv, AtHand, InStep, Decided, Behind, Ended, Typed, Cleared
    <2>2. Derived(d)
      BY <2>1, CheckpointDerived DEF Checkpoints
    <2>3. disk.rebootCount + 1 \in 0..RebootBudget /\ boot \in Boots /\ "reboot_pending" \in LocalStatus
      BY <1>5, StepsAssumption DEF RebootsLeft, Typed, LocalState, LocalStatus
    <2>4. disk' = [d EXCEPT !.status = "reboot_pending", !.rebootBoot = boot,
                            !.rebootCount = d.rebootCount + 1]
      BY <1>5
    <2> HIDE DEF d
    <2>5. /\ disk' \in LocalState /\ disk'.queue = d.queue /\ disk'.steps = d.steps
          /\ disk'.rebootCount = d.rebootCount + 1 /\ disk'.status = "reboot_pending"
      BY <2>2, <2>3, <2>4 DEF Derived, LocalState
    <2>6. /\ disk'.queue = <<>> /\ disk'.rebootCount = disk.rebootCount + 1
          /\ \A s \in Steps : disk'.steps[s] = "succeeded" <=> disk.steps[s] = "succeeded"
      BY <2>1, <2>2, <2>5 DEF Derived
    <2>7. pc' = "reboot.event"
      BY <1>5 DEF Goto
    <2>8. RebootSaved
      BY <1>1, <2>1, <2>5, <2>6, <2>7 DEF RebootSaved, Finals
    <2>9. Stopping'
      BY <2>5, <2>7 DEF Stopping
    <2>10. Len(disk'.queue) = 0 /\ recorded = 0 /\ MaxEvents \in Nat
      BY <2>1, <2>6, MachineAssumption DEF Typed
    <2>11. Typed'
      BY <1>1, <1>2, <2>5, <2>6, <2>9, <2>10 DEF Typed
    <2> QED
      BY <2>8, <2>11 DEF Kind
  <1> QED
    BY <1>3, <1>4, <1>5 DEF ApplyEnd

LEMMA HeartbeatKind == IInv /\ Typed /\ Heartbeat => Typed' /\ Kind
PROOF
  <1> SUFFICES ASSUME IInv, Typed, Heartbeat PROVE Typed' /\ Kind
    OBVIOUS
  <1>1. UNCHANGED <<pc, cur, boot, recorded>> /\ pc \in {"check", "apply"}
    BY DEF Heartbeat
  <1>2. cur' \in 1..(NumSteps + 1) /\ boot' \in Boots
    BY <1>1 DEF Typed
  <1>3. disk.status \notin Finals /\ disk.queue = <<>> /\ pc' \notin Guarded
    BY <1>1 DEF Typed, Stopping, Finals, Cleared, Guarded
  <1>4. Derived(disk') /\ disk'.status = disk.status
    <2>1. CASE disk' = Leased
      BY <2>1, LeasedDerived
    <2>2. CASE disk' = [disk EXCEPT !.netFailed = TRUE]
      <3> DEFINE new == [disk EXCEPT !.netFailed = TRUE]
      <3>1. Derived(disk)
        BY DerivedSelf
      <3>2. Derived(new)
        BY <3>1, DerivedFields
      <3>3. new.status = disk.status
        BY DEF Typed, LocalState
      <3> HIDE DEF new
      <3> QED
        BY <2>2, <3>2, <3>3 DEF new
    <2> QED
      BY <2>1, <2>2 DEF Heartbeat
  <1>5. Quietly({pc'})
    BY <1>3, <1>4, QuietEnd
  <1>6. Called \/ UNCHANGED serverVars
    BY DEF Heartbeat, Called
  <1> QED
    BY <1>1, <1>2, <1>3, <1>5, <1>6, QuietKind

LEMMA NextStepKind == RunnerInv /\ Typed /\ NextStep => Typed' /\ Kind
PROOF
  <1> SUFFICES ASSUME RunnerInv, Typed, NextStep PROVE Typed' /\ Kind
    OBVIOUS
  <1>1. /\ UNCHANGED <<serverVars, disk, boot, recorded>> /\ pc = "step.next"
        /\ pc' = "loop" /\ cur' = cur + 1
    BY DEF NextStep, netVars, Goto
  <1>2. cur \in Steps
    BY <1>1 DEF RunnerInv, AtHand, InStep, Behind
  <1>3. cur' \in 1..(NumSteps + 1) /\ boot' \in Boots
    BY <1>1, <1>2, StepsAssumption DEF Typed, Steps
  <1>4. pc' \notin Cleared \cup Guarded
    BY <1>1 DEF Cleared, Guarded
  <1> QED
    BY <1>1, <1>3, <1>4, SameKind

-----------------------------------------------------------------------------
(* The kinds of the other steps *)

LEMMA RebootEventKind == Typed /\ RebootEvent => Typed' /\ Kind
PROOF
  <1> SUFFICES ASSUME Typed, RebootEvent PROVE Typed' /\ Kind
    OBVIOUS
  <1> DEFINE e == Event("run.reboot_pending", 0, boot)
  <1>1. UNCHANGED <<serverVars, cur, boot, recorded>> /\ pc = "reboot.event"
    BY DEF RebootEvent, netVars
  <1>2. cur' \in 1..(NumSteps + 1) /\ boot' \in Boots
    BY <1>1 DEF Typed
  <1>3. disk.status \notin Finals /\ disk.queue = <<>>
    BY <1>1 DEF Typed, Stopping, Finals, Cleared
  <1>4. e = Event("run.reboot_pending", StepOf("run.reboot_pending"), BootOf("run.reboot_pending"))
    BY DEF StepOf, BootOf, StepEvents
  <1>5. e \in Reports
    BY <1>4, EventReported DEF EventTypes, StepEvents
  <1>6. ~QueueFull(disk)
    BY <1>3, MachineAssumption DEF QueueFull
  <1>7. disk' = [disk EXCEPT !.queue = Append(@, e)] /\ pc' = "reboot.flush"
    <2>1. Report(disk, "run.reboot_pending", "reboot.flush")
      BY DEF RebootEvent
    <2> QED
      BY <1>4, <1>6, <2>1 DEF Report, Goto
  <1>8. RebootTold
    BY <1>1, <1>3, <1>7 DEF RebootTold, netVars
  <1> HIDE DEF e
  <1>9. disk' \in LocalState /\ Len(disk'.queue) = 1 /\ disk'.status = disk.status
    <2>1. Append(disk.queue, e) \in Seq(Reports) /\ Len(Append(disk.queue, e)) = 1
      BY <1>3, <1>5
    <2> QED
      BY <1>7, <2>1 DEF Typed, LocalState
  <1>10. 1 <= MaxEvents /\ recorded = 0
    BY <1>3, MachineAssumption DEF Typed
  <1>11. Typed'
    BY <1>1, <1>2, <1>3, <1>7, <1>9, <1>10 DEF Typed, Stopping, Cleared, Finals
  <1> QED
    BY <1>8, <1>11 DEF Kind

LEMMA RebootFlushKind == Typed /\ (RebootFlush \/ HaltFlush) => Typed' /\ Kind
PROOF
  <1> SUFFICES ASSUME Typed, RebootFlush \/ HaltFlush PROVE Typed' /\ Kind
    OBVIOUS
  <1>1. ASSUME NEW next \in {"reboot.auth", "down"},
               Flush(next, Goto(next) /\ UNCHANGED disk, Goto(next) /\ UNCHANGED disk)
        PROVE  Typed' /\ Kind
    <2> DEFINE Ignored == Goto(next) /\ UNCHANGED disk
    <2>1. pc \in {"reboot.flush", "halt.flush"} /\ UNCHANGED <<cur, boot>>
      BY DEF RebootFlush, HaltFlush
    <2>2. Ignored => Quietly({next})
      BY <2>1, SameQuiet DEF Goto
    <2>3. {next} \cap (Cleared \cup Guarded) = {} /\ next \notin Guarded
      BY DEF Cleared, Guarded
    <2>4. Flush(next, Ignored, Ignored)
      BY <1>1
    <2> HIDE DEF Ignored
    <2> QED
      BY <2>1, <2>2, <2>3, <2>4, FlushKind
  <1>2. CASE RebootFlush
    BY <1>1, <1>2 DEF RebootFlush
  <1>3. CASE HaltFlush
    BY <1>1, <1>3 DEF HaltFlush
  <1> QED
    BY <1>2, <1>3

LEMMA HaltStepKind == Typed /\ HaltStep => Typed' /\ Kind
PROOF
  <1> SUFFICES ASSUME Typed, HaltStep PROVE Typed' /\ Kind
    OBVIOUS
  <1>1. UNCHANGED <<serverVars, cur, boot, recorded>> /\ pc \in {"halt", "halt.event"}
    BY DEF HaltStep, netVars
  <1>2. cur' \in 1..(NumSteps + 1) /\ boot' \in Boots
    BY <1>1 DEF Typed
  <1>3. CASE Halt(disk)
    <2>1. Quietly({"halt.event"})
      BY <1>3, DerivedSelf, HaltQuiet
    <2>2. pc' \notin Cleared \cup Guarded
      BY <2>1 DEF Quietly, Cleared, Guarded
    <2> QED
      BY <1>1, <1>2, <2>1, <2>2, EndsKind
  <1>4. CASE Report(disk, "run.needs_review", "halt.flush")
    <2>1. disk.status \notin Finals /\ Derived(disk)
      BY <1>1, DerivedSelf DEF Typed, Stopping, Finals
    <2>2. Telling({"halt.flush"}) \/ Quietly({"halt"})
      BY <1>4, <2>1, ReportTells DEF EventTypes, StepEvents
    <2>3. pc' \notin Cleared \cup Guarded
      BY <2>2 DEF Telling, Quietly, Cleared, Guarded
    <2> QED
      BY <1>1, <1>2, <2>2, <2>3, EndsKind
  <1>5. CASE Goto("halt.flush") /\ UNCHANGED disk
    <2>1. pc' \notin Cleared \cup Guarded
      BY <1>5 DEF Goto, Cleared, Guarded
    <2> QED
      BY <1>1, <1>2, <1>5, <2>1, SameKind
  <1> QED
    BY <1>3, <1>4, <1>5 DEF HaltStep

\* The reboot, a crash and a power failure: the process is down, the state is what it was.
LEMMA DownKind == Typed /\ (Reboot \/ Crash \/ PowerFail) => Typed' /\ Kind
PROOF
  <1> SUFFICES ASSUME Typed, Reboot \/ Crash \/ PowerFail PROVE Typed' /\ Kind
    OBVIOUS
  <1>1. /\ UNCHANGED <<serverVars, disk, recorded>> /\ pc # "off"
        /\ pc' = "down" /\ cur' = 1
    BY DEF Reboot, Crash, PowerFail, netVars
  <1>2. boot' \in Boots
    <2>1. CASE PowerFail
      <3> DEFINE left == RebootBudget - disk.rebootCount
      <3>1. left \in Nat /\ boot \in Boots /\ boot + left + 1 \in Boots
        BY <2>1, StepsAssumption DEF PowerFail, Typed, LocalState
      <3>2. boot \in Nat /\ boot + 1 \in boot..(boot + left + 1)
        BY <3>1, MachineAssumption
      <3> QED
        BY <2>1, <3>1, <3>2, MachineAssumption DEF PowerFail
    <2>2. CASE Reboot \/ Crash
      BY <2>2 DEF Reboot, Crash, Typed
    <2> QED
      BY <2>1, <2>2
  <1>3. cur' \in 1..(NumSteps + 1) /\ pc' \notin Cleared \cup Guarded
    BY <1>1, StepsAssumption DEF Cleared, Guarded
  <1> QED
    BY <1>1, <1>2, <1>3, SameKind

LEMMA CancelledKind == Typed /\ Cancelled => Typed' /\ Kind
PROOF
  <1> SUFFICES ASSUME Typed, Cancelled PROVE Typed' /\ Kind
    OBVIOUS
  <1>1. /\ UNCHANGED <<serverVars, cur, boot, recorded>> /\ pc = "cancel.save" /\ pc' = "off"
        /\ disk' = [disk EXCEPT !.status = "cancelled"]
    BY DEF Cancelled, netVars, Goto
  <1>2. Confirmed
    BY <1>1 DEF Confirmed, netVars
  <1>3. disk' \in LocalState /\ disk'.queue = disk.queue /\ disk'.status = "cancelled"
    BY <1>1 DEF Typed, LocalState, LocalStatus
  <1>4. Typed'
    BY <1>1, <1>3 DEF Typed, Stopping, Cleared
  <1> QED
    BY <1>2, <1>4 DEF Kind

LEMMA FinishKind == Typed /\ FinishCall => Typed' /\ Kind
PROOF
  <1> SUFFICES ASSUME Typed, FinishCall PROVE Typed' /\ Kind
    OBVIOUS
  <1> DEFINE Answered == disk' = [disk EXCEPT !.status = "succeeded"] /\ Goto("off")
             Handler == IF Active(run[R]) THEN CompleteHandler(R) ELSE UNCHANGED serverVars
             Ok == (DeviceOk(R, K) /\ Completable(run[R])) \/ RetryOk(R, K, "succeeded")
  <1>1. UNCHANGED <<cur, boot, recorded>> /\ pc = "finish.complete" /\ Call(Ok, Handler, Answered)
    BY DEF FinishCall
  <1>2. Handler => Called \/ UNCHANGED serverVars
    BY DEF Called
  <1>3. CASE Ok /\ Handler /\ Answered
    <2>1. CompleteHandler(R) \/ (UNCHANGED serverVars /\ run[R].status = "succeeded")
      BY <1>3 DEF DeviceOk, RetryOk
    <2>2. Finished
      BY <1>1, <1>3, <2>1 DEF Finished, Goto
    <2>3. disk' \in LocalState /\ disk'.queue = disk.queue /\ disk'.status = "succeeded" /\ pc' = "off"
      BY <1>3 DEF Typed, LocalState, LocalStatus, Goto
    <2>4. Typed'
      BY <1>1, <2>3 DEF Typed, Stopping, Cleared
    <2> QED
      BY <2>2, <2>4 DEF Kind
  <1>4. CASE ~(Ok /\ Handler /\ Answered)
    <2> DEFINE places == {"down", "halt.event"}
    <2>1. Lost \/ Refused
      BY <1>1, <1>4 DEF Call
    <2>2. Quietly(places)
      BY <1>1, <2>1, LostQuiet, RefusedQuiet DEF Quietly
    <2>3. pc' \notin Cleared \cup Guarded /\ cur' \in 1..(NumSteps + 1) /\ boot' \in Boots
      BY <1>1, <2>2 DEF Quietly, Cleared, Guarded, Typed
    <2>4. Called \/ UNCHANGED serverVars
      BY <1>1, <1>2 DEF Call
    <2> HIDE DEF places
    <2> QED
      BY <1>1, <2>2, <2>3, <2>4, QuietKind
  <1> QED
    BY <1>3, <1>4

\* The answers of a lease request are the caller's; lost and refused ones stop the process.
LEMMA LeaseFailedKind ==
    ASSUME Typed, NEW Answered, RenewLease(Answered), pc # "off",
           UNCHANGED <<cur, boot, recorded>>
    PROVE  (LeaseHandler(R) /\ Answered) \/ (Typed' /\ Kind)
PROOF
  <1>1. CASE Lost \/ Refused
    <2> DEFINE places == {"down", "halt.event"}
    <2>1. Quietly(places)
      BY <1>1, LostQuiet, RefusedQuiet DEF Quietly
    <2>2. pc' \notin Cleared \cup Guarded /\ cur' \in 1..(NumSteps + 1) /\ boot' \in Boots
      BY <2>1 DEF Quietly, Cleared, Guarded, Typed
    <2>3. Called \/ UNCHANGED serverVars
      BY DEF RenewLease, Called
    <2> HIDE DEF places
    <2> QED
      BY <2>1, <2>2, <2>3, QuietKind
  <1> QED
    BY <1>1 DEF RenewLease

\* A lease was answered, and the answer saved.
LEMMA LeasedKind ==
    ASSUME IInv, Typed, LeaseHandler(R), pc \notin {"off", "down", "cancel.flush", "cancel.save"},
           UNCHANGED <<cur, boot, recorded>>, disk' = Leased, pc' \notin Cleared \cup Guarded
    PROVE  Typed' /\ Kind
PROOF
  <1>1. Derived(Leased) /\ Leased.status = disk.status
    BY LeasedDerived
  <1>2. Called /\ cur' \in 1..(NumSteps + 1) /\ boot' \in Boots
    BY DEF Called, Typed
  <1>3. disk.status \notin Finals
    BY DEF Typed, Stopping, Finals
  <1>4. Quietly({pc'})
    BY <1>1, <1>3, QuietEnd
  <1> QED
    BY <1>2, <1>4, QuietKind

LEMMA ConfirmCancelKind == Typed /\ ConfirmCancel => Typed' /\ Kind
PROOF
  <1> SUFFICES ASSUME Typed, ConfirmCancel PROVE Typed' /\ Kind
    OBVIOUS
  <1>1. /\ UNCHANGED <<serverVars, cur, boot, recorded>> /\ pc = "cancel"
        /\ cur' \in 1..(NumSteps + 1) /\ boot' \in Boots
    BY DEF ConfirmCancel, netVars, Typed
  <1>2. StopTold \/ Quietly({"halt"})
    BY CancelTells DEF ConfirmCancel
  <1>3. CASE StopTold
    BY <1>1, <1>3, StoppedKind
  <1>4. CASE Quietly({"halt"})
    <2>1. pc' \notin Cleared \cup Guarded
      BY <1>4 DEF Quietly, Cleared, Guarded
    <2> QED
      BY <1>1, <1>4, <2>1, EndsKind
  <1> QED
    BY <1>2, <1>3, <1>4

LEMMA ReviewKind == IInv /\ Typed /\ ReviewLease => Typed' /\ Kind
PROOF
  <1> SUFFICES ASSUME IInv, Typed, ReviewLease PROVE Typed' /\ Kind
    OBVIOUS
  <1> DEFINE Answered == disk' = Leased /\ Goto(AfterAnswer)
  <1>1. pc = "review.lease" /\ UNCHANGED <<cur, boot, recorded>> /\ RenewLease(Answered)
    BY DEF ReviewLease
  <1>2. Answered => disk' = Leased /\ pc' \notin Cleared \cup Guarded
    BY AfterAnswerAt DEF Goto, Cleared, Guarded
  <1> HIDE DEF Answered
  <1> QED
    BY <1>1, <1>2, LeaseFailedKind, LeasedKind

LEMMA ReviewResumeKind == Typed /\ ReviewResume => Typed' /\ Kind
PROOF
  <1> SUFFICES ASSUME Typed, ReviewResume PROVE Typed' /\ Kind
    OBVIOUS
  <1>1. /\ UNCHANGED <<serverVars, cur, boot, recorded>> /\ pc = "review.resume"
        /\ cur' \in 1..(NumSteps + 1) /\ boot' \in Boots
    BY DEF ReviewResume, netVars, Typed
  <1>2. Derived(Reopened(disk)) /\ Reopened(disk).status \notin Finals
    BY DerivedSelf, ReopenedDerived DEF Finals
  <1>3. Telling({AfterReview}) \/ Quietly({"halt"})
    BY <1>2, ReportTells DEF ReviewResume, EventTypes, StepEvents
  <1>4. pc' \notin Cleared \cup Guarded
    BY <1>3 DEF Telling, Quietly, AfterReview, Cleared, Guarded
  <1> QED
    BY <1>1, <1>3, <1>4, EndsKind

LEMMA AuthorizeKind ==
    ASSUME IInv, Typed, NEW at, NEW next, Authorize(at, next),
           at \notin {"off", "down", "cancel.flush", "cancel.save"},
           next \notin Cleared \cup Guarded \/ (at = "apply.auth" /\ next = "apply.start")
    PROVE  Typed' /\ Kind
PROOF
  <1> DEFINE Answered == disk' = Leased /\ Goto(AfterLease(next))
  <1>1. pc = at /\ UNCHANGED <<cur, boot, recorded>> /\ RenewLease(Answered)
    BY DEF Authorize
  <1>2. Answered => /\ disk' = Leased
                    /\ \/ LeaseAction(R) = "run" /\ pc' = next
                       \/ pc' \in {"cancel", "halt", "down"}
    BY AfterLeaseAt DEF Goto
  <1> HIDE DEF Answered
  <1>3. SUFFICES ASSUME LeaseHandler(R), Answered PROVE Typed' /\ Kind
    BY <1>1, LeaseFailedKind
  <1>4. CASE pc' \in {"cancel", "halt", "down"}
    BY <1>1, <1>2, <1>3, <1>4, LeasedKind DEF Cleared, Guarded
  <1>5. CASE LeaseAction(R) = "run" /\ disk' = Leased /\ pc' = next
    <2>1. CASE next \notin Cleared \cup Guarded
      BY <1>1, <1>3, <1>5, <2>1, LeasedKind
    <2>2. CASE at = "apply.auth" /\ next = "apply.start"
      <3>1. Derived(Leased) /\ Leased.status = disk.status
        BY LeasedDerived
      <3>2. disk.status \notin Finals /\ disk.queue = <<>>
        BY <1>1, <2>2 DEF Typed, Stopping, Finals, Cleared
      <3>3. Quietly({pc'})
        BY <1>5, <3>1, <3>2, QuietEnd
      <3>4. Called /\ Leasing
        BY <1>3, <1>5 DEF Called, Leasing
      <3>5. Ordinary
        BY <1>1, <1>5, <2>2, <3>3, <3>4 DEF Ordinary, Entering
      <3>6. disk'.queue = <<>> /\ cur' \in 1..(NumSteps + 1) /\ boot' \in Boots
        BY <1>1, <1>5, <3>1, <3>2 DEF Derived, Typed
      <3> QED
        BY <3>5, <3>6, OrdinaryTyped DEF Kind
    <2> QED
      BY <2>1, <2>2
  <1> QED
    BY <1>2, <1>3, <1>4, <1>5

LEMMA LeasesKind == IInv /\ Typed /\ Leases => Typed' /\ Kind
PROOF
  <1> SUFFICES ASSUME IInv, Typed, Leases PROVE Typed' /\ Kind
    OBVIOUS
  <1>1. \A next \in {"manifest", "step.flush", "rebooting"} : next \notin Cleared \cup Guarded
    BY DEF Cleared, Guarded
  <1>2. CASE Authorize("begin.auth", "manifest")
    BY <1>1, <1>2, AuthorizeKind
  <1>3. CASE Authorize("step.auth", "step.flush")
    BY <1>1, <1>3, AuthorizeKind
  <1>4. CASE Authorize("apply.auth", "apply.start")
    BY <1>4, AuthorizeKind
  <1>5. CASE Authorize("reboot.auth", "rebooting")
    BY <1>1, <1>5, AuthorizeKind
  <1> QED
    BY <1>2, <1>3, <1>4, <1>5 DEF Leases

LEMMA FlushesKind == Typed /\ Flushes => Typed' /\ Kind
PROOF
  <1> SUFFICES ASSUME Typed, Flushes PROVE Typed' /\ Kind
    OBVIOUS
  <1> DEFINE places == {"down", "halt.event"}
  <1>1. places \cap (Cleared \cup Guarded) = {}
    BY DEF Cleared, Guarded
  <1>2. pc # "off" /\ (Lost \/ Refused) => Quietly(places)
    BY LostQuiet, RefusedQuiet DEF Quietly
  <1> HIDE DEF places
  <1>3. ASSUME NEW at, NEW next, Flushing(at, next),
               \/ at = "cancel.flush" /\ next = "cancel.save"
               \/ at \notin {"off", "down", "cancel.flush", "cancel.save"} /\ next \notin Guarded
        PROVE  Typed' /\ Kind
    <2>1. pc = at /\ UNCHANGED <<cur, boot>> /\ Flush(next, Lost, Refused)
      BY <1>3 DEF Flushing
    <2>2. Lost \/ Refused => Quietly(places)
      BY <1>2, <1>3, <2>1
    <2> QED
      BY <1>1, <1>3, <2>1, <2>2, FlushKind
  <1>4. ASSUME pc = "step.done", Flush("step.next", NetworkFailure(disk, "step.next"), Refused),
               UNCHANGED <<cur, boot>>
        PROVE  Typed' /\ Kind
    <2> DEFINE ends == {"step.next", "halt.event"}
    <2>1. disk.status \notin Finals
      BY <1>4 DEF Typed, Stopping, Finals
    <2>2. NetworkFailure(disk, "step.next") \/ Refused => Quietly(ends)
      BY <2>1, FailureQuiet, RefusedQuiet DEF Quietly
    <2>3. ends \cap (Cleared \cup Guarded) = {} /\ "step.next" \notin Guarded
      BY DEF Cleared, Guarded
    <2> HIDE DEF ends
    <2> QED
      BY <1>4, <2>2, <2>3, FlushKind
  <1>5. \A next \in {"begin.auth", "loop", "step.secrets", "check", "review.lease", "finish.complete"} :
           next \notin Guarded
    BY DEF Guarded
  <1> QED
    BY <1>3, <1>4, <1>5 DEF Flushes

\* Steps in which the runner does nothing.
LEMMA OthersKind == Typed /\ (ServerSide \/ Time \/ UNCHANGED vars) => Typed' /\ Kind
PROOF
  <1> SUFFICES ASSUME Typed, ServerSide \/ Time \/ UNCHANGED vars PROVE Typed' /\ Kind
    OBVIOUS
  <1>1. UNCHANGED <<disk, pc, cur, boot, recorded>>
    BY DEF ServerSide, Time, vars, machineVars, netVars
  <1>2. Beside \/ UNCHANGED serverVars
    BY DEF ServerSide, Time, vars, Beside
  <1>3. Quietly({pc'})
    BY <1>1, DerivedSelf DEF Quietly, Saved, Derived
  <1>4. pc = "apply.start" => ServerSide \/ UNCHANGED serverVars
    BY DEF Time, vars
  <1>5. Ordinary
    BY <1>1, <1>2, <1>3, <1>4 DEF Ordinary, Entering
  <1>6. cur' \in 1..(NumSteps + 1) /\ boot' \in Boots /\ (pc' \in Cleared => disk'.queue = <<>>)
    BY <1>1 DEF Typed
  <1> QED
    BY <1>5, <1>6, OrdinaryTyped DEF Kind

LEMMA NextKind == RunnerInv /\ IInv /\ Typed /\ [Next]_vars => Typed' /\ Kind
PROOF
  <1> SUFFICES ASSUME RunnerInv, IInv, Typed, [Next]_vars PROVE Typed' /\ Kind
    OBVIOUS
  <1>1. CASE Bootstrap \/ Start \/ EnrollCall \/ RebootReturn \/ Manifest
    BY <1>1, BootstrapKind, StartKind, EnrollKind, ReturnKind, ManifestKind
  <1>2. CASE LoopStep \/ FetchSecrets \/ StepStart \/ CheckPhase \/ ApplyStart \/ ApplyEnd \/ NextStep
    BY <1>2, LoopKind, FetchKind, StepStartKind, CheckKind, ApplyStartKind, ApplyEndKind, NextStepKind
  <1>3. CASE RebootEvent \/ RebootFlush \/ Reboot \/ HaltStep \/ HaltFlush \/ ReviewLease
    BY <1>3, RebootEventKind, RebootFlushKind, DownKind, HaltStepKind, ReviewKind
  <1>4. CASE ReviewResume \/ ConfirmCancel \/ Cancelled \/ FinishCall \/ Flushes \/ Leases
    BY <1>4, ReviewResumeKind, ConfirmCancelKind, CancelledKind, FinishKind, FlushesKind, LeasesKind
  <1>5. CASE Heartbeat \/ Crash \/ PowerFail
    BY <1>5, HeartbeatKind, DownKind
  <1>6. CASE ServerSide \/ Time \/ UNCHANGED vars
    BY <1>6, OthersKind
  <1> QED
    BY <1>1, <1>2, <1>3, <1>4, <1>5, <1>6 DEF Next, Runner

-----------------------------------------------------------------------------
(* The invariants that relate the machine to the server *)

\* A run nothing was installed for yet has a machine that has done nothing yet.
Untouched ==
    /\ run[R].status \in {"absent", "prepared"} => pc = "bare"
    /\ pc = "bare" => /\ disk.queue = <<>> /\ disk.rebootCount = 0
                      /\ \A s \in Steps : disk.steps[s] = "none"

\* The server knows of the success of a step, or will with the next batch.
Reported(s) ==
    \/ run[R].steps[s] = "succeeded"
    \/ \E i \in (recorded + 1)..Len(disk.queue) :
          disk.queue[i].type = "step.succeeded" /\ disk.queue[i].step = s

ResultsInv ==
    /\ \A s \in Steps : disk.steps[s] = "succeeded" => Reported(s)
    /\ \A s \in Steps : run[R].steps[s] = "succeeded" => disk.steps[s] = "succeeded"
    /\ \A i \in 1..Len(disk.queue) :
          disk.queue[i].type = "step.succeeded" => disk.steps[disk.queue[i].step] = "succeeded"

\* A reboot the machine has counted and the server not yet.
Announced == disk.queue # <<>> /\ recorded = 0 /\ disk.queue[1].type = "run.reboot_pending"

RebootsInv ==
    /\ \A i \in 2..Len(disk.queue) : disk.queue[i].type # "run.reboot_pending"
    /\ run[R].reboots <= disk.rebootCount
    /\ Announced \/ pc = "reboot.event" => run[R].reboots < disk.rebootCount

\* The report of the cancellation is the last in the queue, and not yet stored.
StopReported ==
    /\ disk.queue # <<>> /\ recorded < Len(disk.queue)
    /\ disk.queue[Len(disk.queue)].type = "run.cancelled"

EndsInv ==
    /\ EndAgreed
    /\ disk.status = "cancellation_pending" => run[R].status = "cancelled" \/ StopReported
    /\ pc = "cancel.save" => run[R].status = "cancelled"

Working == {"runner_ready", "running", "reboot_pending"}

\* Apply is about to start under a lease that is in force.
LeasedApply == pc = "apply.start" => run[R].status \in Working /\ run[R].leaseUntil > now

MachineInv ==
    IInv /\ Typed /\ Untouched /\ ResultsInv /\ RebootsInv /\ EndsInv /\ LeasedApply

LEMMA MachineInit == Init => MachineInv
PROOF
  <1> SUFFICES ASSUME Init PROVE MachineInv
    OBVIOUS
  <1>1. IInv
    BY InitHolds DEF Init
  <1>2. run[R] = AbsentRow
    BY MachineAssumption DEF Init, ServerInit
  <1>3. disk = [status |-> "pending", steps |-> [s \in Steps |-> "none"], queue |-> <<>>,
                enrolled |-> FALSE, manifest |-> FALSE, rebootBoot |-> NoBoot,
                rebootCount |-> 0, runVersion |-> 0, haltedVersion |-> 0, netFailed |-> FALSE]
    BY DEF Init
  <1>4. disk \in LocalState
    <2>1. <<>> \in Seq(Reports) /\ [s \in Steps |-> "none"] \in [Steps -> Checkpoints]
      BY DEF Checkpoints
    <2> QED
      BY <1>3, <2>1, StepsAssumption DEF LocalState, LocalStatus
  <1>5. Typed
    <2>1. Len(disk.queue) = 0 /\ pc = "bare" /\ recorded = 0 /\ cur = 1 /\ boot \in Boots
      BY <1>3 DEF Init
    <2> QED
      BY <1>3, <1>4, <2>1, MachineAssumption, StepsAssumption DEF Typed, Stopping, Cleared
  <1>6. Untouched /\ LeasedApply
    BY <1>3 DEF Init, Untouched, LeasedApply
  <1>7. ResultsInv
    <2>1. Len(disk.queue) = 0 /\ \A s \in Steps : disk.steps[s] = "none"
      BY <1>3
    <2>2. \A s \in Steps : run[R].steps[s] = "pending"
      BY <1>2 DEF AbsentRow
    <2> QED
      BY <2>1, <2>2 DEF ResultsInv
  <1>8. RebootsInv
    <2>1. Len(disk.queue) = 0 /\ disk.queue = <<>> /\ disk.rebootCount = 0 /\ pc = "bare"
      BY <1>3 DEF Init
    <2>2. run[R].reboots = 0
      BY <1>2 DEF AbsentRow
    <2> QED
      BY <2>1, <2>2 DEF RebootsInv, Announced
  <1>9. EndsInv
    BY <1>3 DEF EndsInv, EndAgreed, Init
  <1> QED
    BY <1>1, <1>5, <1>6, <1>7, <1>8, <1>9 DEF MachineInv

-----------------------------------------------------------------------------
(* The server's side of a step *)

\* A batch the server stores now.
Stored == disk.queue # <<>> /\ StoreBatch

LEMMA KindServer ==
    ASSUME IInv, Typed, Kind
    PROVE  IInv' /\ (Calm(run[R], run'[R]) \/ (Stored /\ (Taken \/ TakenUnheard)))
PROOF
  <1>1. disk.queue \in Seq(Reports) /\ recorded \in 0..Len(disk.queue) /\ boot \in Boots
    BY DEF Typed, LocalState
  <1>2. CASE Stored /\ (Taken \/ TakenUnheard)
    <2>1. IInv'
      BY <1>1, <1>2, StoreBatchStep DEF Stored
    <2> QED
      BY <1>2, <2>1
  <1>3. CASE ~(Stored /\ (Taken \/ TakenUnheard))
    <2>1. Beside \/ Called \/ UNCHANGED serverVars
      BY <1>3 DEF Kind, Ordinary, Taken, TakenUnheard, Stored, StepDone, RebootSaved, RebootTold,
                  Confirmed, Finished, Called
    <2> QED
      BY <1>1, <2>1, ServerStep
  <1> QED
    BY <1>2, <1>3

\* The run row after a batch, in terms of the queue.
LEMMA StoredResults ==
    ASSUME IInv, Typed, Stored
    PROVE  /\ \A s \in Steps : run[R].steps[s] = "succeeded" => run'[R].steps[s] = "succeeded"
           /\ \A s \in Steps : run'[R].steps[s] = "succeeded" =>
                 \/ run[R].steps[s] = "succeeded"
                 \/ \E i \in 1..Len(disk.queue) :
                       disk.queue[i].type = "step.succeeded" /\ disk.queue[i].step = s
           /\ \A i \in (recorded + 1)..Len(disk.queue) :
                 disk.queue[i].type = "step.succeeded"
                    => run'[R].steps[disk.queue[i].step] = "succeeded"
PROOF
  <1>1. disk.queue \in Seq(Reports) /\ recorded \in 0..Len(disk.queue) /\ R \in Runs
    BY MachineAssumption DEF Typed, LocalState
  <1>2. /\ run[R].status # "prepared" /\ Applied(NewEvents).ok
        /\ run'[R] = Applied(NewEvents).row
    BY <1>1, StoreBatchStep DEF Stored
  <1>3. /\ NewEvents \in Seq(Reports) /\ Len(NewEvents) = Len(disk.queue) - recorded
        /\ \A i \in 1..Len(NewEvents) : NewEvents[i] = disk.queue[recorded + i]
    BY <1>1, NewEventsAre
  <1>4. /\ \A s \in Steps : run[R].steps[s] = "succeeded" => run'[R].steps[s] = "succeeded"
        /\ \A s \in Steps : run'[R].steps[s] = "succeeded" =>
              \/ run[R].steps[s] = "succeeded"
              \/ \E i \in 1..Len(NewEvents) :
                    NewEvents[i].type = "step.succeeded" /\ NewEvents[i].step = s
        /\ \A i \in 1..Len(NewEvents) :
              NewEvents[i].type = "step.succeeded" => run'[R].steps[NewEvents[i].step] = "succeeded"
    <2>1. LET new == Applied(NewEvents).row IN
           /\ \A s \in Steps : run[R].steps[s] = "succeeded" => new.steps[s] = "succeeded"
           /\ \A s \in Steps : new.steps[s] = "succeeded" =>
                 \/ run[R].steps[s] = "succeeded"
                 \/ \E i \in 1..Len(NewEvents) :
                       NewEvents[i].type = "step.succeeded" /\ NewEvents[i].step = s
           /\ \A i \in 1..Len(NewEvents) :
                 NewEvents[i].type = "step.succeeded" => new.steps[NewEvents[i].step] = "succeeded"
      BY <1>1, <1>2, <1>3, BatchResults, Zenon
    <2> QED
      BY <1>2, <2>1
  <1>5. ASSUME NEW i \in 1..Len(NewEvents)
        PROVE  recorded + i \in (recorded + 1)..Len(disk.queue) /\ recorded + i \in 1..Len(disk.queue)
    BY <1>1, <1>3
  <1>6. ASSUME NEW i \in (recorded + 1)..Len(disk.queue)
        PROVE  i - recorded \in 1..Len(NewEvents) /\ NewEvents[i - recorded] = disk.queue[i]
    <2>1. i - recorded \in 1..Len(NewEvents) /\ recorded + (i - recorded) = i
      BY <1>1, <1>3
    <2> QED
      BY <1>3, <2>1
  <1>7. ASSUME NEW s \in Steps, run'[R].steps[s] = "succeeded"
        PROVE  \/ run[R].steps[s] = "succeeded"
               \/ \E i \in 1..Len(disk.queue) :
                     disk.queue[i].type = "step.succeeded" /\ disk.queue[i].step = s
    <2> SUFFICES ASSUME NEW i \in 1..Len(NewEvents),
                        NewEvents[i].type = "step.succeeded", NewEvents[i].step = s
                 PROVE  \E j \in 1..Len(disk.queue) :
                           disk.queue[j].type = "step.succeeded" /\ disk.queue[j].step = s
      BY <1>4, <1>7
    <2> QED
      BY <1>3, <1>5
  <1>8. ASSUME NEW i \in (recorded + 1)..Len(disk.queue), disk.queue[i].type = "step.succeeded"
        PROVE  run'[R].steps[disk.queue[i].step] = "succeeded"
    BY <1>4, <1>6, <1>8
  <1> QED
    BY <1>4, <1>7, <1>8

LEMMA StoredReboots ==
    ASSUME IInv, Typed, RebootsInv, Stored
    PROVE  run'[R].reboots <= disk.rebootCount
PROOF
  <1>1. /\ disk.queue \in Seq(Reports) /\ recorded \in 0..Len(disk.queue) /\ R \in Runs
        /\ disk.rebootCount \in Nat
    BY MachineAssumption, StepsAssumption DEF Typed, LocalState
  <1>2. /\ run[R].status # "prepared" /\ Applied(NewEvents).ok
        /\ run'[R] = Applied(NewEvents).row
    BY <1>1, StoreBatchStep DEF Stored
  <1>3. /\ NewEvents \in Seq(Reports) /\ Len(NewEvents) = Len(disk.queue) - recorded
        /\ \A i \in 1..Len(NewEvents) : NewEvents[i] = disk.queue[recorded + i]
    BY <1>1, NewEventsAre
  <1>4. \A i \in 2..Len(NewEvents) : NewEvents[i].type # "run.reboot_pending"
    <2> SUFFICES ASSUME NEW i \in 2..Len(NewEvents) PROVE NewEvents[i].type # "run.reboot_pending"
      OBVIOUS
    <2>1. i \in 1..Len(NewEvents) /\ recorded + i \in 2..Len(disk.queue)
      BY <1>1, <1>3
    <2> QED
      BY <1>3, <2>1 DEF RebootsInv
  <1>5. run'[R].reboots = IF NewEvents # <<>> /\ NewEvents[1].type = "run.reboot_pending"
                          THEN run[R].reboots + 1 ELSE run[R].reboots
    <2>1. Applied(NewEvents).row.reboots =
             IF NewEvents # <<>> /\ NewEvents[1].type = "run.reboot_pending"
             THEN run[R].reboots + 1 ELSE run[R].reboots
      BY <1>1, <1>2, <1>3, <1>4, BatchReboots, Zenon
    <2> QED
      BY <1>2, <2>1
  <1>6. run[R].reboots \in Nat
    BY <1>1 DEF IInv, ServerTypeOK, RunRow
  <1>7. CASE NewEvents # <<>> /\ NewEvents[1].type = "run.reboot_pending"
    <2>1. 1 \in 1..Len(NewEvents)
      BY <1>3, <1>7
    <2>2. disk.queue[recorded + 1].type = "run.reboot_pending" /\ recorded + 1 \in 1..Len(disk.queue)
      BY <1>1, <1>3, <1>7, <2>1
    <2>3. recorded = 0
      BY <1>1, <2>2 DEF RebootsInv
    <2>4. Announced
      BY <2>2, <2>3 DEF Announced, Stored
    <2> QED
      BY <1>1, <1>5, <1>6, <1>7, <2>4 DEF RebootsInv
  <1>8. CASE ~(NewEvents # <<>> /\ NewEvents[1].type = "run.reboot_pending")
    BY <1>5, <1>8 DEF RebootsInv
  <1> QED
    BY <1>7, <1>8

LEMMA StoredEnds ==
    ASSUME IInv, Typed, Stored
    PROVE  /\ run[R].status \in TERMINAL => run'[R] = run[R]
           /\ StopReported => run'[R].status = "cancelled"
           /\ {run[R].status, run'[R].status} \cap {"absent", "prepared"} = {}
PROOF
  <1>1. disk.queue \in Seq(Reports) /\ recorded \in 0..Len(disk.queue) /\ R \in Runs
    BY MachineAssumption DEF Typed, LocalState
  <1>2. /\ run[R].status \notin {"absent", "prepared"} /\ Applied(NewEvents).ok
        /\ run'[R] = Applied(NewEvents).row
    BY <1>1, StoreBatchStep DEF Stored
  <1>3. /\ NewEvents \in Seq(Reports) /\ Len(NewEvents) = Len(disk.queue) - recorded
        /\ \A i \in 1..Len(NewEvents) : NewEvents[i] = disk.queue[recorded + i]
        /\ NewEvents = <<>> <=> recorded = Len(disk.queue)
    BY <1>1, NewEventsAre
  <1>4. /\ NewEvents = <<>> => Applied(NewEvents).row = run[R]
        /\ NewEvents # <<>> => Active(run[R])
        /\ NewEvents # <<>> /\ NewEvents[Len(NewEvents)].type = "run.cancelled"
              => Applied(NewEvents).row.status = "cancelled"
    <2>1. run[R].status # "prepared"
      BY <1>2
    <2> QED
      BY <1>1, <1>2, <1>3, <2>1, BatchEnds, Zenon
  <1>5. run[R].status \in TERMINAL => run'[R] = run[R]
    BY <1>2, <1>4 DEF Active
  <1>6. ASSUME StopReported PROVE run'[R].status = "cancelled"
    <2>1. Len(NewEvents) \in 1..Len(NewEvents) /\ recorded + Len(NewEvents) = Len(disk.queue)
      BY <1>1, <1>3, <1>6 DEF StopReported
    <2>2. NewEvents[Len(NewEvents)].type = "run.cancelled" /\ NewEvents # <<>>
      BY <1>1, <1>3, <1>6, <2>1 DEF StopReported
    <2> QED
      BY <1>2, <1>4, <2>2
  <1>7. run'[R].status \notin {"absent", "prepared"}
    <2>1. \A n \in 0..Len(NewEvents) :
             LET row == AppliedTo(NewEvents)[n].row IN
             /\ row \in RunRow
             /\ row.host = run[R].host
             /\ row.status # "prepared" /\ (n > 0 => row.status \notin {"absent", "succeeded"})
             /\ ConsistentRow(row, admitted[R], HeldWith(row, held[R]))
      <3>1. run[R].status # "prepared"
        BY <1>2
      <3> QED
        BY <1>1, <1>2, <1>3, <3>1, BatchRows, Zenon
    <2>2. Len(NewEvents) \in 0..Len(NewEvents) /\ (NewEvents # <<>> => Len(NewEvents) > 0)
      BY <1>3
    <2>3. run'[R].status # "prepared" /\ (NewEvents # <<>> => run'[R].status # "absent")
      BY <1>2, <2>1, <2>2 DEF Applied
    <2> QED
      BY <1>2, <1>4, <2>3
  <1> QED
    BY <1>2, <1>5, <1>6, <1>7

-----------------------------------------------------------------------------
(* Every step keeps the invariants *)

\* The machine leaves its bare state with the bootstrap of an answered run only.
LEMMA BareLeaves ==
    ASSUME [Next]_vars, pc = "bare"
    PROVE  pc' = "bare" \/ (UNCHANGED serverVars /\ run[R].status \notin {"absent", "prepared"})
PROOF
  <1>1. CASE Bootstrap
    BY <1>1 DEF Bootstrap
  <1>2. CASE Heartbeat \/ Crash \/ PowerFail \/ ServerSide \/ Time \/ UNCHANGED vars
    BY <1>2 DEF Heartbeat, Crash, PowerFail, ServerSide, Time, vars, machineVars
  <1>3. ~(Start \/ EnrollCall \/ RebootReturn \/ Manifest \/ LoopStep \/ FetchSecrets)
    BY DEF Start, EnrollCall, RebootReturn, Manifest, LoopStep, FetchSecrets
  <1>4. ~(StepStart \/ CheckPhase \/ ApplyStart \/ ApplyEnd \/ NextStep)
    BY DEF StepStart, CheckPhase, ApplyStart, ApplyEnd, NextStep
  <1>5. ~(RebootEvent \/ RebootFlush \/ Reboot \/ HaltStep \/ HaltFlush \/ ReviewLease)
    BY DEF RebootEvent, RebootFlush, Reboot, HaltStep, HaltFlush, ReviewLease
  <1>6. ~(ReviewResume \/ ConfirmCancel \/ Cancelled \/ FinishCall \/ Flushes \/ Leases)
    BY DEF ReviewResume, ConfirmCancel, Cancelled, FinishCall, Flushes, Flushing, Leases, Authorize
  <1> QED
    BY <1>1, <1>2, <1>3, <1>4, <1>5, <1>6 DEF Next, Runner

LEMMA UntouchedStep ==
    ASSUME MachineInv, Kind, [Next]_vars
    PROVE  Untouched'
PROOF
  <1>1. Untouched /\ IInv /\ Typed
    BY DEF MachineInv
  <1>2. Calm(run[R], run'[R]) \/ Stored
    BY <1>1, KindServer
  <1>3. ASSUME run'[R].status \in {"absent", "prepared"} PROVE pc' = "bare"
    <2>1. run[R].status \in {"absent", "prepared"}
      BY <1>1, <1>2, <1>3, StoredEnds DEF Calm
    <2>2. pc = "bare"
      BY <1>1, <2>1 DEF Untouched
    <2> QED
      BY <2>1, <2>2, BareLeaves
  <1>4. ASSUME pc' = "bare"
        PROVE  /\ disk'.queue = <<>> /\ disk'.rebootCount = 0
               /\ \A s \in Steps : disk'.steps[s] = "none"
    <2>1. pc = "bare" /\ UNCHANGED disk
      BY <1>4 DEF Kind, Ordinary, Entering, Guarded, Taken, TakenUnheard, StepDone, RebootSaved,
                  RebootTold, Confirmed, Finished
    <2> QED
      BY <1>1, <2>1 DEF Untouched
  <1> QED
    BY <1>3, <1>4 DEF Untouched

\* The queue after an ordinary step: as it was, or with a plain report more.
LEMMA OrdinaryQueue ==
    ASSUME Typed, Ordinary
    PROVE  /\ recorded' = recorded /\ Saved
           /\ disk'.queue \in Seq(Reports)
           /\ Len(disk'.queue) \in {Len(disk.queue), Len(disk.queue) + 1}
           /\ \A i \in 1..Len(disk.queue) : disk'.queue[i] = disk.queue[i]
           /\ \A i \in 1..Len(disk'.queue) : i > Len(disk.queue) => disk'.queue[i] \in PlainReports
PROOF
  <1>1. recorded' = recorded /\ Saved
    BY DEF Ordinary, Quietly, Telling, StopTold
  <1>2. disk.queue \in Seq(Reports) /\ disk'.queue \in Seq(Reports)
    BY <1>1 DEF Typed, LocalState, Saved
  <1>3. CASE disk'.queue = disk.queue
    BY <1>1, <1>2, <1>3
  <1>4. ASSUME NEW e \in PlainReports, disk'.queue = Append(disk.queue, e)
        PROVE  /\ Len(disk'.queue) = Len(disk.queue) + 1
               /\ \A i \in 1..Len(disk.queue) : disk'.queue[i] = disk.queue[i]
               /\ \A i \in 1..Len(disk'.queue) : i > Len(disk.queue) => disk'.queue[i] = e
    <2>1. e \in Reports
      BY DEF PlainReports
    <2>2. /\ Len(Append(disk.queue, e)) = Len(disk.queue) + 1
          /\ \A i \in 1..Len(disk.queue) : Append(disk.queue, e)[i] = disk.queue[i]
          /\ Append(disk.queue, e)[Len(disk.queue) + 1] = e
      BY <1>2, <2>1, AppendProperties
    <2>3. Len(disk.queue) \in Nat
      BY <1>2
    <2> QED
      BY <1>4, <2>2, <2>3
  <1>5. \/ disk'.queue = disk.queue
        \/ \E e \in PlainReports : disk'.queue = Append(disk.queue, e)
    BY DEF Ordinary, Quietly, Telling, StopTold
  <1>6. CASE \E e \in PlainReports : disk'.queue = Append(disk.queue, e)
    BY <1>1, <1>2, <1>4, <1>6
  <1> QED
    BY <1>3, <1>5, <1>6

\* The queue with one report put into the empty queue.
LEMMA OnlyReport ==
    ASSUME NEW e, NEW q, q = Append(<<>>, e)
    PROVE  q # <<>> /\ Len(q) = 1 /\ q[1] = e
PROOF
  OBVIOUS

\* Steps that are not ordinary, with what the server makes of them.
LEMMA OtherKinds ==
    ASSUME MachineInv, Kind
    PROVE  \/ Ordinary
           \/ Stored /\ (Taken \/ TakenUnheard)
           \/ /\ run'[R].steps = run[R].steps /\ run'[R].reboots = run[R].reboots
              /\ ~Stored \/ ~(Taken \/ TakenUnheard)
PROOF
  <1>1. Calm(run[R], run'[R]) \/ (Stored /\ (Taken \/ TakenUnheard))
    BY KindServer DEF MachineInv
  <1>2. CASE UNCHANGED serverVars
    BY <1>2 DEF serverVars
  <1>3. CASE CompleteHandler(R)
    <2>1. run[R].status # "absent"
      BY <1>3 DEF CompleteHandler, Completable
    <2> QED
      BY <1>1, <2>1 DEF Calm
  <1> QED
    BY <1>2, <1>3 DEF Kind, Taken, TakenUnheard, Stored, StepDone, RebootSaved, RebootTold,
       Confirmed, Finished

LEMMA ResultsOrdinary ==
    ASSUME MachineInv, Ordinary, Typed'
    PROVE  ResultsInv'
PROOF
  <1>1. Untouched /\ IInv /\ Typed /\ ResultsInv
    BY DEF MachineInv
  <1>2. /\ disk.queue \in Seq(Reports) /\ recorded \in 0..Len(disk.queue)
        /\ Len(disk.queue) \in Nat /\ Len(disk'.queue) \in Nat
    BY <1>1 DEF Typed, LocalState
  <1>3. /\ recorded' = recorded
        /\ \A s \in Steps : disk'.steps[s] = "succeeded" <=> disk.steps[s] = "succeeded"
        /\ Len(disk'.queue) \in {Len(disk.queue), Len(disk.queue) + 1}
        /\ \A i \in 1..Len(disk.queue) : disk'.queue[i] = disk.queue[i]
        /\ \A i \in 1..Len(disk'.queue) : i > Len(disk.queue) => disk'.queue[i] \in PlainReports
    BY <1>1, OrdinaryQueue DEF Saved
  <1>4. \A i \in 1..Len(disk'.queue) : disk'.queue[i].type = "step.succeeded" =>
           i \in 1..Len(disk.queue) /\ disk'.queue[i] = disk.queue[i]
    BY <1>2, <1>3 DEF PlainReports
  <1>5. \A i \in 1..Len(disk.queue) :
           disk.queue[i].type = "step.succeeded" => disk.queue[i].step \in Steps
    <2> SUFFICES ASSUME NEW i \in 1..Len(disk.queue), disk.queue[i].type = "step.succeeded"
                 PROVE  disk.queue[i].step \in Steps
      OBVIOUS
    <2>1. disk.queue[i] \in Reports
      BY <1>2
    <2> QED
      BY <2>1 DEF Reports, Fits, StepEvents
  <1>6. \A i \in 1..Len(disk'.queue) : disk'.queue[i].type = "step.succeeded"
           => disk'.steps[disk'.queue[i].step] = "succeeded"
    BY <1>1, <1>3, <1>4, <1>5 DEF ResultsInv
  <1>7. Calm(run[R], run'[R])
    <2>1. boot \in Boots
      BY <1>1 DEF Typed
    <2> QED
      BY <1>1, <2>1, ServerStep DEF Ordinary
  <1>8. CASE run'[R].steps = run[R].steps
    <2>1. ASSUME NEW s \in Steps, disk'.steps[s] = "succeeded"
          PROVE  Reported(s)'
      <3>1. Reported(s)
        BY <1>1, <1>3, <2>1 DEF ResultsInv
      <3>2. CASE run[R].steps[s] = "succeeded"
        BY <1>8, <3>2 DEF Reported
      <3>3. ASSUME NEW i \in (recorded + 1)..Len(disk.queue),
                   disk.queue[i].type = "step.succeeded", disk.queue[i].step = s
            PROVE  Reported(s)'
        <4>1. i \in 1..Len(disk.queue) /\ i \in (recorded' + 1)..Len(disk'.queue)
          BY <1>2, <1>3
        <4> QED
          BY <1>3, <3>3, <4>1 DEF Reported
      <3> QED
        BY <3>1, <3>2, <3>3 DEF Reported
    <2>2. \A s \in Steps : run'[R].steps[s] = "succeeded" => disk'.steps[s] = "succeeded"
      BY <1>1, <1>3, <1>8 DEF ResultsInv
    <2> QED
      BY <1>6, <2>1, <2>2 DEF ResultsInv
  <1>9. CASE run[R].status = "absent" /\ \A s \in Steps : run'[R].steps[s] = "pending"
    <2>1. \A s \in Steps : disk.steps[s] = "none"
      BY <1>1, <1>9 DEF Untouched
    <2> QED
      BY <1>3, <1>6, <1>9, <2>1 DEF ResultsInv
  <1> QED
    BY <1>7, <1>8, <1>9 DEF Calm

LEMMA ResultsStored ==
    ASSUME MachineInv, Stored, Taken \/ TakenUnheard, Typed'
    PROVE  ResultsInv'
PROOF
  <1>1. IInv /\ Typed /\ ResultsInv
    BY DEF MachineInv
  <1>2. disk.queue \in Seq(Reports) /\ recorded \in 0..Len(disk.queue) /\ Len(disk.queue) \in Nat
    BY <1>1 DEF Typed, LocalState
  <1>3. \A s \in Steps : disk'.steps[s] = "succeeded" <=> disk.steps[s] = "succeeded"
    <2>1. CASE Taken
      BY <1>1, <2>1 DEF Taken, Typed, LocalState
    <2>2. CASE TakenUnheard
      BY <2>2 DEF TakenUnheard, Quietly, Saved
    <2> QED
      BY <2>1, <2>2
  <1>4. disk'.queue = <<>> \/ disk'.queue = disk.queue
    <2>1. CASE Taken
      BY <1>1, <2>1 DEF Taken, Typed, LocalState
    <2>2. CASE TakenUnheard
      BY <2>2 DEF TakenUnheard, Quietly
    <2> QED
      BY <2>1, <2>2
  <1>5. /\ \A s \in Steps : run[R].steps[s] = "succeeded" => run'[R].steps[s] = "succeeded"
        /\ \A s \in Steps : run'[R].steps[s] = "succeeded" =>
              \/ run[R].steps[s] = "succeeded"
              \/ \E i \in 1..Len(disk.queue) :
                    disk.queue[i].type = "step.succeeded" /\ disk.queue[i].step = s
        /\ \A i \in (recorded + 1)..Len(disk.queue) :
              disk.queue[i].type = "step.succeeded"
                 => run'[R].steps[disk.queue[i].step] = "succeeded"
    BY <1>1, StoredResults
  <1>6. \A s \in Steps : disk'.steps[s] = "succeeded" => run'[R].steps[s] = "succeeded"
    <2> SUFFICES ASSUME NEW s \in Steps, disk.steps[s] = "succeeded"
                 PROVE  run'[R].steps[s] = "succeeded"
      BY <1>3
    <2>1. Reported(s)
      BY <1>1 DEF ResultsInv
    <2> QED
      BY <1>5, <2>1 DEF Reported
  <1>7. \A s \in Steps : run'[R].steps[s] = "succeeded" => disk'.steps[s] = "succeeded"
    <2> SUFFICES ASSUME NEW s \in Steps, run'[R].steps[s] = "succeeded"
                 PROVE  disk.steps[s] = "succeeded"
      BY <1>3
    <2> QED
      BY <1>1, <1>5 DEF ResultsInv
  <1>8. \A i \in 1..Len(disk'.queue) : disk'.queue[i].type = "step.succeeded"
           => disk'.steps[disk'.queue[i].step] = "succeeded"
    <2>1. CASE disk'.queue = <<>>
      <3>1. Len(disk'.queue) = 0
        BY <2>1
      <3> QED
        BY <3>1
    <2>2. ASSUME disk'.queue = disk.queue, NEW i \in 1..Len(disk.queue),
                 disk.queue[i].type = "step.succeeded"
          PROVE  disk'.steps[disk.queue[i].step] = "succeeded"
      <3>1. disk.queue[i] \in Reports
        BY <1>2
      <3>2. disk.queue[i].step \in Steps
        BY <2>2, <3>1 DEF Reports, Fits, StepEvents
      <3> QED
        BY <1>1, <1>3, <2>2, <3>2 DEF ResultsInv
    <2> QED
      BY <1>4, <2>1, <2>2
  <1> QED
    BY <1>6, <1>7, <1>8 DEF ResultsInv, Reported

LEMMA ResultsStep ==
    ASSUME MachineInv, Kind, Typed'
    PROVE  ResultsInv'
PROOF
  <1>1. Typed /\ ResultsInv /\ disk \in LocalState
    BY DEF MachineInv, Typed
  <1>2. disk.queue \in Seq(Reports) /\ recorded \in 0..Len(disk.queue) /\ Len(disk.queue) \in Nat
    BY <1>1 DEF Typed, LocalState
  <1>3. SUFFICES ASSUME ~Ordinary, ~Stored \/ ~(Taken \/ TakenUnheard),
                        run'[R].steps = run[R].steps
                 PROVE  ResultsInv'
    BY ResultsOrdinary, ResultsStored, OtherKinds
  \* Nothing was queued: what had succeeded before is known to the server.
  <1>4. ASSUME disk.queue = <<>>, NEW s \in Steps, disk.steps[s] = "succeeded"
        PROVE  run'[R].steps[s] = "succeeded"
    <2>1. Reported(s) /\ Len(disk.queue) = 0
      BY <1>1, <1>4 DEF ResultsInv
    <2> QED
      BY <1>2, <1>3, <2>1 DEF Reported
  <1>5. CASE UNCHANGED recorded /\ disk'.queue = disk.queue /\ disk'.steps = disk.steps
    BY <1>1, <1>3, <1>5 DEF ResultsInv, Reported
  <1>6. CASE Taken
    <2>1. disk.queue = <<>> /\ recorded' = recorded
      BY <1>2, <1>3, <1>6 DEF Taken, Stored
    <2>2. disk'.queue = disk.queue /\ disk'.steps = disk.steps
      BY <1>1, <1>6, <2>1 DEF Taken, LocalState
    <2> QED
      BY <1>5, <2>1, <2>2
  <1>7. CASE StepDone
    <2> DEFINE e == Event("step.succeeded", cur, NoBoot)
    <2>1. /\ cur \in Steps /\ disk.queue = <<>> /\ recorded' = 0
          /\ disk'.steps = [disk.steps EXCEPT ![cur] = "succeeded"]
          /\ disk'.queue = Append(<<>>, e)
      BY <1>1, <1>2, <1>7 DEF StepDone, LocalState
    <2>2. Len(disk'.queue) = 1 /\ disk'.queue[1] = e
      BY <2>1, OnlyReport
    <2>3. e.type = "step.succeeded" /\ e.step = cur
      BY DEF Event
    <2> HIDE DEF e
    <2>4. \A s \in Steps : disk'.steps[s] = "succeeded" <=> s = cur \/ disk.steps[s] = "succeeded"
      BY <1>1, <2>1 DEF LocalState
    <2>5. \A s \in Steps : disk'.steps[s] = "succeeded" => Reported(s)'
      BY <1>4, <2>1, <2>2, <2>3, <2>4 DEF Reported
    <2>6. \A s \in Steps : run'[R].steps[s] = "succeeded" => disk'.steps[s] = "succeeded"
      BY <1>1, <1>3, <2>4 DEF ResultsInv
    <2> QED
      BY <2>1, <2>2, <2>3, <2>4, <2>5, <2>6 DEF ResultsInv
  <1>8. CASE RebootSaved \/ RebootTold
    <2>1. /\ disk.queue = <<>>
          /\ \A s \in Steps : disk'.steps[s] = "succeeded" <=> disk.steps[s] = "succeeded"
      BY <1>1, <1>8 DEF RebootSaved, RebootTold, LocalState
    <2>2. \A i \in 1..Len(disk'.queue) : disk'.queue[i].type # "step.succeeded"
      <3>1. CASE RebootSaved
        <4>1. Len(disk'.queue) = 0
          BY <3>1 DEF RebootSaved
        <4> QED
          BY <4>1
      <3>2. CASE RebootTold
        <4> DEFINE e == Event("run.reboot_pending", 0, boot)
        <4>1. disk'.queue = Append(<<>>, e)
          BY <1>1, <2>1, <3>2 DEF RebootTold, LocalState
        <4>2. Len(disk'.queue) = 1 /\ disk'.queue[1] = e
          BY <4>1, OnlyReport
        <4>3. e.type = "run.reboot_pending"
          BY DEF Event
        <4> QED
          BY <4>2, <4>3
      <3> QED
        BY <1>8, <3>1, <3>2
    <2>3. \A s \in Steps : disk'.steps[s] = "succeeded" => Reported(s)'
      BY <1>4, <2>1 DEF Reported
    <2>4. \A s \in Steps : run'[R].steps[s] = "succeeded" => disk'.steps[s] = "succeeded"
      BY <1>1, <1>3, <2>1 DEF ResultsInv
    <2> QED
      BY <2>2, <2>3, <2>4 DEF ResultsInv
  <1>9. CASE Confirmed \/ Finished
    <2>1. UNCHANGED recorded /\ disk'.queue = disk.queue /\ disk'.steps = disk.steps
      BY <1>1, <1>9 DEF Confirmed, Finished, LocalState
    <2> QED
      BY <1>5, <2>1
  <1>10. ~TakenUnheard
    BY <1>3 DEF TakenUnheard, Stored
  <1> QED
    BY <1>3, <1>6, <1>7, <1>8, <1>9, <1>10 DEF Kind

LEMMA RebootsOrdinary ==
    ASSUME MachineInv, Ordinary, Typed'
    PROVE  RebootsInv'
PROOF
  <1>1. Untouched /\ IInv /\ Typed /\ RebootsInv
    BY DEF MachineInv
  <1>2. /\ disk.queue \in Seq(Reports) /\ recorded \in 0..Len(disk.queue)
        /\ Len(disk.queue) \in Nat /\ disk'.queue \in Seq(Reports)
    BY <1>1 DEF Typed, LocalState
  <1>3. /\ recorded' = recorded /\ disk'.rebootCount = disk.rebootCount
        /\ Len(disk'.queue) \in {Len(disk.queue), Len(disk.queue) + 1}
        /\ \A i \in 1..Len(disk.queue) : disk'.queue[i] = disk.queue[i]
        /\ \A i \in 1..Len(disk'.queue) : i > Len(disk.queue) => disk'.queue[i] \in PlainReports
    BY <1>1, OrdinaryQueue DEF Saved
  <1>4. \A i \in 1..Len(disk'.queue) : disk'.queue[i].type = "run.reboot_pending" =>
           i \in 1..Len(disk.queue) /\ disk'.queue[i] = disk.queue[i]
    BY <1>2, <1>3 DEF PlainReports
  <1>5. \A i \in 2..Len(disk'.queue) : disk'.queue[i].type # "run.reboot_pending"
    <2> SUFFICES ASSUME NEW i \in 2..Len(disk'.queue), disk'.queue[i].type = "run.reboot_pending"
                 PROVE  FALSE
      OBVIOUS
    <2>1. i \in 1..Len(disk'.queue)
      BY <1>2
    <2>2. i \in 2..Len(disk.queue) /\ disk.queue[i].type = "run.reboot_pending"
      BY <1>2, <1>4, <2>1
    <2> QED
      BY <1>1, <2>2 DEF RebootsInv
  <1>6. Announced' => Announced
    <2> SUFFICES ASSUME Announced' PROVE Announced
      OBVIOUS
    <2>1. Len(disk'.queue) # 0
      BY <1>2 DEF Announced
    <2>2. 1 \in 1..Len(disk'.queue)
      BY <1>2, <2>1
    <2>3. 1 \in 1..Len(disk.queue) /\ disk.queue[1].type = "run.reboot_pending"
      BY <1>4, <2>2 DEF Announced
    <2> QED
      BY <1>2, <1>3, <2>3 DEF Announced
  <1>7. pc' = "reboot.event" => pc = "reboot.event"
    BY DEF Ordinary, Entering, Guarded
  <1>8. Calm(run[R], run'[R])
    <2>1. boot \in Boots
      BY <1>1 DEF Typed
    <2> QED
      BY <1>1, <2>1, ServerStep DEF Ordinary
  <1>9. CASE run'[R].reboots = run[R].reboots
    BY <1>1, <1>3, <1>5, <1>6, <1>7, <1>9 DEF RebootsInv
  <1>10. CASE run[R].status = "absent" /\ run'[R].reboots = 0
    <2>1. disk.queue = <<>> /\ pc = "bare" /\ disk.rebootCount = 0
      BY <1>1, <1>10 DEF Untouched
    <2>2. ~Announced' /\ pc' # "reboot.event"
      BY <1>6, <1>7, <2>1 DEF Announced
    <2> QED
      BY <1>3, <1>5, <1>10, <2>1, <2>2 DEF RebootsInv
  <1> QED
    BY <1>8, <1>9, <1>10 DEF Calm

LEMMA RebootsStep ==
    ASSUME MachineInv, Kind, Typed'
    PROVE  RebootsInv'
PROOF
  <1>1. Typed /\ IInv /\ RebootsInv /\ disk \in LocalState
    BY DEF MachineInv, Typed
  <1>2. /\ disk.queue \in Seq(Reports) /\ recorded \in 0..Len(disk.queue) /\ Len(disk.queue) \in Nat
        /\ disk.rebootCount \in Nat /\ run[R].reboots \in Nat
    <2>1. run[R] \in RunRow
      BY <1>1, MachineAssumption DEF IInv, ServerTypeOK
    <2>2. run[R].reboots \in Nat
      BY <2>1 DEF RunRow
    <2>3. disk.rebootCount \in Nat
      BY <1>1, StepsAssumption DEF LocalState
    <2> QED
      BY <1>1, <2>2, <2>3 DEF Typed, LocalState
  <1>3. CASE Stored /\ Taken
    <2>1. run'[R].reboots <= disk.rebootCount
      BY <1>1, <1>3, StoredReboots
    <2>2. disk'.queue = <<>> /\ disk'.rebootCount = disk.rebootCount /\ pc' # "reboot.event"
      BY <1>1, <1>3 DEF Taken, LocalState, Guarded
    <2>3. Len(disk'.queue) = 0
      BY <2>2
    <2> QED
      BY <2>1, <2>2, <2>3 DEF RebootsInv, Announced
  <1>4. CASE Stored /\ TakenUnheard
    <2>1. run'[R].reboots <= disk.rebootCount
      BY <1>1, <1>4, StoredReboots
    <2>2. disk'.queue = disk.queue /\ disk'.rebootCount = disk.rebootCount /\ pc' # "reboot.event"
          /\ recorded' = Len(disk.queue) /\ disk.queue # <<>>
      BY <1>4 DEF TakenUnheard, Quietly, Saved, Guarded
    <2>3. recorded' # 0
      BY <1>2, <2>2
    <2> QED
      BY <1>1, <2>1, <2>2, <2>3 DEF RebootsInv, Announced
  <1>5. SUFFICES ASSUME ~Ordinary, ~Stored \/ ~(Taken \/ TakenUnheard),
                        run'[R].reboots = run[R].reboots
                 PROVE  RebootsInv'
    BY <1>3, <1>4, RebootsOrdinary, OtherKinds
  <1>6. CASE /\ UNCHANGED recorded /\ disk'.queue = disk.queue
             /\ disk'.rebootCount = disk.rebootCount /\ pc' # "reboot.event"
    BY <1>1, <1>5, <1>6 DEF RebootsInv, Announced
  <1>7. CASE Taken
    <2>1. disk.queue = <<>> /\ recorded' = recorded
      BY <1>2, <1>5, <1>7 DEF Taken, Stored
    <2>2. disk'.queue = disk.queue /\ disk'.rebootCount = disk.rebootCount /\ pc' # "reboot.event"
      BY <1>1, <1>7, <2>1 DEF Taken, LocalState, Guarded
    <2> QED
      BY <1>6, <2>1, <2>2
  <1>8. CASE StepDone
    <2> DEFINE e == Event("step.succeeded", cur, NoBoot)
    <2>1. /\ disk'.queue = Append(<<>>, e) /\ disk'.rebootCount = disk.rebootCount
          /\ pc' = "step.done"
      BY <1>1, <1>8 DEF StepDone, LocalState
    <2>2. Len(disk'.queue) = 1 /\ disk'.queue[1] = e
      BY <2>1, OnlyReport
    <2>3. e.type = "step.succeeded"
      BY DEF Event
    <2> HIDE DEF e
    <2> QED
      BY <1>1, <1>5, <2>1, <2>2, <2>3 DEF RebootsInv, Announced
  <1>9. CASE RebootSaved
    <2>1. disk'.queue = <<>> /\ disk'.rebootCount = disk.rebootCount + 1
      BY <1>9 DEF RebootSaved
    <2>2. Len(disk'.queue) = 0
      BY <2>1
    <2> QED
      BY <1>1, <1>2, <1>5, <2>1, <2>2 DEF RebootsInv, Announced
  <1>10. CASE RebootTold
    <2> DEFINE e == Event("run.reboot_pending", 0, boot)
    <2>1. /\ disk'.queue = Append(<<>>, e) /\ disk'.rebootCount = disk.rebootCount
          /\ pc = "reboot.event"
      BY <1>1, <1>10 DEF RebootTold, LocalState
    <2>2. Len(disk'.queue) = 1
      BY <2>1, OnlyReport
    <2>3. run[R].reboots < disk.rebootCount
      BY <1>1, <2>1 DEF RebootsInv
    <2> QED
      BY <1>2, <1>5, <2>1, <2>2, <2>3 DEF RebootsInv
  <1>11. CASE Confirmed \/ Finished
    <2>1. UNCHANGED recorded /\ disk'.queue = disk.queue
          /\ disk'.rebootCount = disk.rebootCount /\ pc' # "reboot.event"
      BY <1>1, <1>11 DEF Confirmed, Finished, LocalState
    <2> QED
      BY <1>6, <2>1
  <1>12. ~TakenUnheard
    BY <1>5 DEF TakenUnheard, Stored
  <1> QED
    BY <1>5, <1>7, <1>8, <1>9, <1>10, <1>11, <1>12 DEF Kind

LEMMA EndsOrdinary ==
    ASSUME MachineInv, Ordinary, Typed'
    PROVE  EndsInv'
PROOF
  <1>1. IInv /\ Typed /\ EndsInv /\ boot \in Boots
    BY DEF MachineInv, Typed
  <1>2. Calm(run[R], run'[R])
    BY <1>1, ServerStep DEF Ordinary
  <1>3. run[R].status \in TERMINAL => run'[R] = run[R]
    BY <1>2 DEF Calm
  <1>4. pc' = "cancel.save" => pc = "cancel.save" /\ disk'.status = disk.status
    BY DEF Ordinary, Entering, Guarded
  <1>5. pc' = "cancel.save" => run'[R].status = "cancelled"
    BY <1>1, <1>3, <1>4 DEF EndsInv, TERMINAL
  <1>6. CASE Quietly({pc'})
    <2>1. disk'.status \in Finals => disk'.status = disk.status
      BY <1>6 DEF Quietly
    <2>2. StopReported => StopReported'
      BY <1>6 DEF Quietly, Ordinary, StopReported
    <2> QED
      BY <1>1, <1>3, <1>5, <2>1, <2>2 DEF EndsInv, EndAgreed, Finals, TERMINAL
  <1>7. CASE Telling({pc'})
    BY <1>5, <1>7 DEF Telling, EndsInv, EndAgreed, Finals
  <1>8. CASE StopTold
    <2>1. PICK e \in PlainReports : e.type = "run.cancelled" /\ disk'.queue = Append(disk.queue, e)
      BY <1>8 DEF StopTold
    <2>2. /\ disk.queue \in Seq(Reports) /\ e \in Reports /\ recorded \in 0..Len(disk.queue)
          /\ Len(disk.queue) \in Nat /\ recorded' = recorded
      BY <1>1 DEF Typed, LocalState, PlainReports, Ordinary
    <2>3. /\ Len(disk'.queue) = Len(disk.queue) + 1
          /\ disk'.queue[Len(disk.queue) + 1] = e
      BY <2>1, <2>2, AppendProperties
    <2>4. disk'.queue # <<>>
      <3>1. disk'.queue \in Seq(Reports) /\ Len(disk'.queue) # 0
        BY <2>2, <2>3 DEF Typed, LocalState
      <3> QED
        BY <3>1
    <2>5. StopReported'
      BY <2>1, <2>2, <2>3, <2>4 DEF StopReported
    <2> QED
      BY <1>5, <1>8, <2>5 DEF StopTold, EndsInv, EndAgreed
  <1> QED
    BY <1>6, <1>7, <1>8 DEF Ordinary

LEMMA EndsStep ==
    ASSUME MachineInv, Kind, Typed'
    PROVE  EndsInv'
PROOF
  <1>1. IInv /\ Typed /\ EndsInv /\ Stopping /\ boot \in Boots /\ disk \in LocalState
    BY DEF MachineInv, Typed
  <1>2. CASE Ordinary
    BY <1>2, EndsOrdinary
  <1>3. CASE Stored /\ (Taken \/ TakenUnheard)
    <2>1. /\ run[R].status \in TERMINAL => run'[R] = run[R]
          /\ StopReported => run'[R].status = "cancelled"
      BY <1>1, <1>3, StoredEnds
    <2>2. disk'.status \in Finals => disk'.status = disk.status
      BY <1>1, <1>3 DEF Taken, TakenUnheard, Quietly, LocalState
    <2>3. pc' = "cancel.save" => disk.status = "cancellation_pending"
      BY <1>1, <1>3 DEF Taken, TakenUnheard, Guarded, Stopping
    <2>4. disk.status = "cancellation_pending" => run'[R].status = "cancelled"
      BY <1>1, <2>1 DEF EndsInv, TERMINAL
    <2> QED
      BY <1>1, <2>1, <2>2, <2>3, <2>4 DEF EndsInv, EndAgreed, Finals, TERMINAL
  <1>4. CASE Taken /\ ~Stored
    <2>1. disk.queue = <<>> /\ UNCHANGED serverVars /\ disk' = [disk EXCEPT !.queue = <<>>]
      BY <1>4 DEF Taken, Stored
    <2>2. disk'.status = disk.status /\ run' = run
      BY <1>1, <2>1 DEF LocalState, serverVars
    <2>3. ~StopReported
      BY <2>1 DEF StopReported
    <2>4. pc' = "cancel.save" => disk.status = "cancellation_pending"
      BY <1>1, <1>4 DEF Taken, Guarded, Stopping
    <2> QED
      BY <1>1, <2>2, <2>3, <2>4 DEF EndsInv, EndAgreed
  <1>5. CASE StepDone
    <2>1. disk'.status = disk.status /\ disk.status \notin Finals /\ pc' = "step.done"
      BY <1>1, <1>5 DEF StepDone, LocalState
    <2> QED
      BY <2>1 DEF EndsInv, EndAgreed, Finals
  <1>6. CASE RebootSaved
    BY <1>6 DEF RebootSaved, EndsInv, EndAgreed, Finals
  <1>7. CASE RebootTold
    <2>1. disk'.status = disk.status /\ disk.status \notin Finals /\ pc' = "reboot.flush"
      BY <1>1, <1>7 DEF RebootTold, LocalState
    <2> QED
      BY <2>1 DEF EndsInv, EndAgreed, Finals
  <1>8. CASE Confirmed
    <2>1. disk'.status = "cancelled" /\ pc = "cancel.save" /\ pc' = "off" /\ run' = run
      BY <1>1, <1>8 DEF Confirmed, LocalState, serverVars
    <2> QED
      BY <1>1, <2>1 DEF EndsInv, EndAgreed
  <1>9. CASE Finished
    <2>1. disk'.status = "succeeded" /\ pc' = "off"
      BY <1>1, <1>9 DEF Finished, LocalState
    <2>2. run'[R].status = "succeeded"
      <3>1. CASE CompleteHandler(R)
        <4>1. R \in Runs /\ run \in [Runs -> RunRow]
          BY <1>1, MachineAssumption DEF IInv, ServerTypeOK
        <4> QED
          BY <3>1, <4>1 DEF CompleteHandler, SetRun, RunRow
      <3>2. CASE UNCHANGED serverVars /\ run[R].status = "succeeded"
        BY <3>2 DEF serverVars
      <3> QED
        BY <1>9, <3>1, <3>2 DEF Finished
    <2> QED
      BY <2>1, <2>2 DEF EndsInv, EndAgreed
  <1>10. TakenUnheard => Stored
    BY DEF TakenUnheard, Stored
  <1> QED
    BY <1>2, <1>3, <1>4, <1>5, <1>6, <1>7, <1>8, <1>9, <1>10 DEF Kind

\* While the answer to the lease request is on its way to the start of apply, no request
\* ends the run or takes the lease back: reconciling has to wait for it (app.py:490, 627-631).
LEMMA LeaseStands ==
    ASSUME IInv, run[R].status \in Working, run[R].leaseUntil > now,
           ServerSide \/ UNCHANGED serverVars
    PROVE  run'[R].status \in Working /\ run'[R].leaseUntil > now'
PROOF
  <1>1. R \in Runs /\ run \in [Runs -> RunRow] /\ run[R] \in RunRow /\ now \in Nat
    BY MachineAssumption DEF IInv, ServerTypeOK
  <1>2. \A row : run' = [run EXCEPT ![R] = row] => run'[R] = row
    BY <1>1
  <1>3. CASE UNCHANGED serverVars
    BY <1>3 DEF serverVars
  <1>4. CASE \E h \in Hosts : Approve(h, R)
    BY <1>4 DEF Approve, Working
  <1>5. CASE ServeAnswer(R) \/ InstallerReport(R)
    BY <1>5 DEF ServeAnswer, AnswerDue, InstallerReport, ApprovalOpen, Working
  <1>6. CASE Maintain
    <2>1. run'[R] = IF Expired(run[R]) THEN ExpiredRow(run[R]) ELSE run[R]
      BY <1>1, <1>6 DEF Maintain
    <2>2. ~Expired(run[R]) /\ now' = now
      BY <1>6 DEF Expired, Working, Maintain
    <2> QED
      BY <2>1, <2>2
  <1>7. CASE \E h \in Hosts : UpdateHost(h)
    BY <1>7 DEF UpdateHost
  <1>8. CASE CancelRun(R)
    <2>1. run'[R] = CancelledByOperator(run[R]) /\ now' = now
      BY <1>2, <1>8 DEF CancelRun, SetRun
    <2> QED
      BY <1>1, <2>1 DEF CancelledByOperator, RunRow, Working
  <1>9. CASE ReconcileRun(R)
    BY <1>1, <1>9 DEF ReconcileRun, NothingOutstanding, RunRow
  <1>10. CASE ResumeRun(R)
    BY <1>10 DEF ResumeRun, Working
  <1> QED
    BY <1>3, <1>4, <1>5, <1>6, <1>7, <1>8, <1>9, <1>10 DEF ServerSide

LEMMA LeasedStep ==
    ASSUME MachineInv, Kind
    PROVE  LeasedApply'
PROOF
  <1> SUFFICES ASSUME pc' = "apply.start"
               PROVE  run'[R].status \in Working /\ run'[R].leaseUntil > now'
    BY DEF LeasedApply
  <1>1. IInv /\ LeasedApply
    BY DEF MachineInv
  <1>2. \/ pc = "apply.start" /\ (ServerSide \/ UNCHANGED serverVars)
        \/ Leasing
    BY DEF Kind, Ordinary, Entering, Guarded, Taken, TakenUnheard, StepDone, RebootSaved, RebootTold,
           Confirmed, Finished
  <1>3. CASE pc = "apply.start" /\ (ServerSide \/ UNCHANGED serverVars)
    BY <1>1, <1>3, LeaseStands DEF LeasedApply
  <1>4. CASE Leasing
    <2>1. R \in Runs /\ run \in [Runs -> RunRow] /\ run[R] \in RunRow /\ now \in Nat
      BY <1>1, MachineAssumption DEF IInv, ServerTypeOK
    <2>2. run'[R] = [run[R] EXCEPT !.leaseUntil = now + LeaseTime] /\ now' = now
      BY <1>4, <2>1 DEF Leasing, LeaseHandler, SetRun, LeaseGranted
    <2>3. run[R].status \in Working
      BY <1>4 DEF Leasing, LeaseAction, Working
    <2> QED
      BY <2>1, <2>2, <2>3, TimesAssumption DEF RunRow
  <1> QED
    BY <1>2, <1>3, <1>4

LEMMA MachineNext == RunnerInv /\ MachineInv /\ [Next]_vars => MachineInv'
PROOF
  <1> SUFFICES ASSUME RunnerInv, MachineInv, [Next]_vars PROVE MachineInv'
    OBVIOUS
  <1>1. Typed' /\ Kind
    BY NextKind DEF MachineInv
  <1>2. IInv'
    BY <1>1, KindServer DEF MachineInv
  <1> QED
    BY <1>1, <1>2, UntouchedStep, ResultsStep, RebootsStep, EndsStep, LeasedStep DEF MachineInv

-----------------------------------------------------------------------------
(* The theorems about machine and server *)

\* The inductive invariant of the whole: with every crash, loss and retry, machine and
\* server stay related, and the server's own invariant holds with batches, too.
THEOREM MachineInvariant == Spec => [](RunnerInv /\ MachineInv)
PROOF
  <1>1. Init => RunnerInv /\ MachineInv
    BY RunnerInit, MachineInit
  <1>2. RunnerInv /\ MachineInv /\ [Next]_vars => RunnerInv' /\ MachineInv'
    BY RunnerNext, MachineNext
  <1> QED
    BY <1>1, <1>2, PTL DEF Spec

\* state.json, the rows and the history variables keep their types; the event queue never
\* exceeds its limit, and the server stores reports without a gap (runner.py:242-252, app.py:669-680).
THEOREM StateTyped == Spec => []TypeOK
PROOF
  <1>1. RunnerInv /\ MachineInv => TypeOK
    BY DEF RunnerInv, Shaped, MachineInv, IInv, Typed, LocalState, TypeOK
  <1> QED
    BY <1>1, MachineInvariant, PTL

\* No false success: what the server shows as succeeded, the machine has verified and
\* checkpointed before, and a run recorded as succeeded has every required step verified,
\* whatever was lost, repeated, crashed, resumed or reconciled (runner.py:495-508,
\* app.py:705-708, 752-762).
THEOREM SuccessIsReal == Spec => []NoFalseSuccess
PROOF
  <1>1. MachineInv => NoFalseSuccess
    <2> SUFFICES ASSUME MachineInv PROVE NoFalseSuccess
      OBVIOUS
    <2>1. \A s \in Steps : run[R].steps[s] = "succeeded" => disk.steps[s] = "succeeded"
      BY DEF MachineInv, ResultsInv
    <2>2. Earned(run[R])
      BY MachineAssumption DEF MachineInv, IInv, ConsistentRow
    <2>3. run[R].status = "succeeded" => \A s \in Required : disk.steps[s] = "succeeded"
      BY <2>1, <2>2, StepsAssumption DEF Earned, Settled
    <2> QED
      BY <2>1, <2>3 DEF NoFalseSuccess
  <1> QED
    BY <1>1, MachineInvariant, PTL

\* The reboots the server counts are never more than the machine's, and those never more
\* than the budget: a report stored twice or after a crash is counted once (runner.py:477-487,
\* app.py:673-675, 715-719).
THEOREM RebootsAgree == Spec => []RebootsCounted
PROOF
  <1>1. MachineInv => RebootsCounted
    BY StepsAssumption DEF MachineInv, RebootsInv, Typed, LocalState, RebootsCounted
  <1> QED
    BY <1>1, MachineInvariant, PTL

\* A runner that ended for good ended as the server says, although its last call may be
\* answered long after it was handled, or repeated (runner.py:529-534, 557-564).
THEOREM EndsAgree == Spec => []EndAgreed
PROOF
  <1>1. MachineInv => EndAgreed
    BY DEF MachineInv, EndsInv
  <1> QED
    BY <1>1, MachineInvariant, PTL

\* Only the start of apply starts an apply.
LEMMA AppliesAt == [Next]_vars => applies' = applies \/ pc = "apply.start"
PROOF
  <1> SUFFICES ASSUME [Next]_vars PROVE applies' = applies \/ pc = "apply.start"
    OBVIOUS
  <1>1. CASE Heartbeat \/ Crash \/ PowerFail \/ ServerSide \/ Time \/ UNCHANGED vars
    BY <1>1 DEF Heartbeat, Crash, PowerFail, ServerSide, Time, vars, machineVars
  <1>2. CASE Bootstrap \/ Start \/ EnrollCall \/ RebootReturn \/ Manifest \/ LoopStep \/ FetchSecrets
    BY <1>2 DEF Bootstrap, Start, EnrollCall, RebootReturn, Manifest, LoopStep, FetchSecrets
  <1>3. CASE StepStart \/ CheckPhase \/ ApplyStart \/ ApplyEnd \/ NextStep
    BY <1>3 DEF StepStart, CheckPhase, ApplyStart, ApplyEnd, NextStep
  <1>4. CASE RebootEvent \/ RebootFlush \/ Reboot \/ HaltStep \/ HaltFlush \/ ReviewLease
    BY <1>4 DEF RebootEvent, RebootFlush, Reboot, HaltStep, HaltFlush, ReviewLease
  <1>5. CASE ReviewResume \/ ConfirmCancel \/ Cancelled \/ FinishCall \/ Flushes \/ Leases
    BY <1>5 DEF ReviewResume, ConfirmCancel, Cancelled, FinishCall, Flushes, Flushing, Leases, Authorize
  <1> QED
    BY <1>1, <1>2, <1>3, <1>4, <1>5 DEF Next, Runner

\* No apply is begun once the run has ended on the server: the lease that the start of
\* apply was granted keeps the run from being reconciled until it ran out (runner.py:472-476,
\* app.py:490, 627-631).  Of an apply that is under way by then the theorem says nothing.
THEOREM NothingBegunAfterEnd == Spec => NoApplyBegunAfterEnd
PROOF
  <1>1. MachineInv /\ [Next]_vars => [~Active(run[R]) => applies' = applies]_vars
    <2> SUFFICES ASSUME MachineInv, [Next]_vars, ~Active(run[R]) PROVE applies' = applies
      OBVIOUS
    <2>1. pc # "apply.start"
      BY DEF MachineInv, LeasedApply, Active, Working, TERMINAL
    <2> QED
      BY <2>1, AppliesAt
  <1> QED
    BY <1>1, MachineInvariant, PTL DEF Spec, NoApplyBegunAfterEnd

-----------------------------------------------------------------------------
(* The return from a planned reboot, where nothing crashes *)

\* The process is only ended by the server's answers or a passed deadline, and the kernel
\* only changed by the planned reboots.
NoCrash == "process" \notin Faults /\ "power" \notin Faults

RebootPlaces == {"reboot.event", "reboot.flush", "reboot.auth", "rebooting", "reboot.return"}

\* What comes after the enrollment.
Past == {"begin.auth", "manifest", "manifest.flush", "loop", "reboot.resume",
         "reboot.flushed"} \cup InStep

\* A cancellation or a halt between its lease and its save finds the reboot on disk as well.
RebootAt ==
    /\ disk.status = "reboot_pending" => pc \in RebootPlaces \cup {"down", "cancel", "halt"}
    /\ pc \in RebootPlaces => disk.status = "reboot_pending"

EnrolledAt ==
    /\ pc \in Past \/ disk.status = "reboot_pending" => disk.enrolled
    /\ pc = "bare" => ~disk.enrolled

BootAt ==
    /\ pc = "reboot.event" => disk.rebootBoot = boot
    /\ pc \in {"reboot.return", "reboot.resume"} => disk.rebootBoot # boot

\* The start of the step was taken before check, and nothing was reported since.
AtWork ==
    /\ pc \in Cleared /\ Active(run[R]) => run[R].status = "running"
    /\ pc = "step.started" => /\ recorded < Len(disk.queue)
                              /\ disk.queue[Len(disk.queue)].type = "step.started"

GoneEvent == Event("run.reboot_pending", 0, disk.rebootBoot)
BackEvent == Event("run.resumed", 0, boot)

\* The server has yet to hear of the reboot, or waits for the return from it.
Pending == disk.queue = <<GoneEvent>> /\ recorded = 0 /\ run[R].status = "running"
Awaited ==
    /\ run[R].status = "reboot_pending" /\ run[R].boot = disk.rebootBoot
    /\ disk.queue = <<>> \/ (disk.queue = <<GoneEvent>> /\ recorded = 1)

Away ==
    \/ pc \in {"reboot.flush", "reboot.auth", "rebooting", "reboot.return", "reboot.resume"}
    \/ pc = "down" /\ disk.status = "reboot_pending"

OnTheWay == Away /\ Active(run[R]) => Pending \/ Awaited

Returned ==
    pc = "reboot.flushed" /\ Active(run[R]) =>
        /\ boot # disk.rebootBoot
        /\ \/ /\ run[R].status = "running"
              /\ disk.queue = <<GoneEvent, BackEvent>> /\ recorded = 0
           \/ /\ run[R].status = "reboot_pending" /\ run[R].boot = disk.rebootBoot
              /\ \/ disk.queue = <<BackEvent>> /\ recorded = 0
                 \/ disk.queue = <<GoneEvent, BackEvent>> /\ recorded = 1

KeyKnown ==
    /\ run[R].key \in {NoKey, K}
    /\ disk.enrolled /\ Active(run[R]) => run[R].key = K

ReturnInv == RebootAt /\ EnrolledAt /\ BootAt /\ AtWork /\ OnTheWay /\ Returned /\ KeyKnown

LEMMA ReturnInit == Init => ReturnInv
PROOF
  <1> SUFFICES ASSUME Init PROVE ReturnInv
    OBVIOUS
  <1>1. pc = "bare" /\ disk.status = "pending" /\ disk.enrolled = FALSE
    BY DEF Init
  <1>2. run[R].key = NoKey
    <2>1. run[R] = AbsentRow
      BY MachineAssumption DEF Init, ServerInit
    <2> QED
      BY <2>1 DEF AbsentRow
  <1>3. RebootAt /\ EnrolledAt /\ BootAt /\ AtWork /\ OnTheWay /\ Returned
    BY <1>1 DEF RebootAt, RebootPlaces, EnrolledAt, Past, InStep, Before, Decided, Behind, BootAt,
                AtWork, Cleared, OnTheWay, Away, Returned
  <1>4. KeyKnown
    BY <1>1, <1>2 DEF KeyKnown
  <1> QED
    BY <1>3, <1>4 DEF ReturnInv

\* What the server does beside batches to the row of a run at work: it ends it or leaves its
\* status alone.
RowStands ==
    Active(run'[R]) /\ run[R].status # "absent" =>
        /\ Active(run[R])
        /\ run[R].status \in {"running", "reboot_pending"} =>
              run'[R].status = run[R].status /\ run'[R].boot = run[R].boot

\* What any step does to its key.
KeyKept ==
    /\ run'[R].key \in {NoKey, K}
    /\ Active(run'[R]) /\ run[R].status # "absent" =>
          Active(run[R]) /\ (run'[R].key = run[R].key \/ run'[R].key = K)

LEMMA ReconciledRow ==
    ASSUME run \in [Runs -> RunRow], R \in Runs, ReconcileRun(R)
    PROVE  run'[R].status = "cancelled" /\ run'[R].key = NoKey
PROOF
  <1>1. run[R] \in RunRow
    OBVIOUS
  <1>2. run'[R] = [run[R] EXCEPT !.status = "cancelled", !.version = @ + 1,
                                 !.cancel = TRUE, !.key = NoKey, !.hashes = FALSE,
                                 !.leaseUntil = 0, !.approval = "revoked",
                                 !.completedAt = now]
    BY DEF ReconcileRun, SetRun
  <1> QED
    BY <1>1, <1>2 DEF RunRow

LEMMA RowKept ==
    ASSUME IInv, Beside \/ LeaseHandler(R) \/ UNCHANGED serverVars
    PROVE  RowStands
PROOF
  <1>1. R \in Runs
    BY MachineAssumption
  <1>2. run[R] \in RunRow /\ run \in [Runs -> RunRow] /\ ServerTypeOK
    BY <1>1 DEF IInv, ServerTypeOK
  <1>3. \A row : run' = [run EXCEPT ![R] = row] => run'[R] = row
    BY <1>1, <1>2
  <1>4. CASE Tick \/ (\E h \in Hosts : UpdateHost(h)) \/ UNCHANGED serverVars
    BY <1>4 DEF Tick, UpdateHost, serverVars, RowStands
  <1>5. CASE \E h \in Hosts : Approve(h, R)
    BY <1>5 DEF Approve, RowStands
  <1>6. CASE CancelRun(R)
    <2>1. Active(run[R]) /\ run'[R] = CancelledByOperator(run[R])
      BY <1>3, <1>6 DEF CancelRun, SetRun
    <2> QED
      BY <1>2, <2>1 DEF CancelledByOperator, RunRow, RowStands
  <1>7. CASE ResumeRun(R)
    BY <1>7 DEF ResumeRun, RowStands, Active, TERMINAL
  <1>8. CASE ReconcileRun(R)
    <2>1. run'[R].status = "cancelled"
      BY <1>1, <1>2, <1>8, ReconciledRow
    <2> QED
      BY <2>1 DEF RowStands, Active, TERMINAL
  <1>9. CASE ServeAnswer(R) \/ InstallerReport(R)
    BY <1>9 DEF ServeAnswer, AnswerDue, ApprovalOpen, InstallerReport, RowStands, Active, TERMINAL
  <1>10. CASE Maintain
    <2>1. run'[R] = IF Expired(run[R]) THEN ExpiredRow(run[R]) ELSE run[R]
      BY <1>1, <1>10 DEF Maintain
    <2> QED
      BY <1>2, <2>1 DEF Expired, ExpiredRow, RunRow, RowStands, Active, TERMINAL
  <1>11. CASE LeaseHandler(R)
    <2>1. run'[R] = [run[R] EXCEPT !.leaseUntil = LeaseGranted(R)]
      BY <1>3, <1>11 DEF LeaseHandler, SetRun
    <2> QED
      BY <1>2, <2>1 DEF RunRow, RowStands, Active
  <1> QED
    BY <1>4, <1>5, <1>6, <1>7, <1>8, <1>9, <1>10, <1>11 DEF Beside


\* A batch leaves the key of a row alone, and its last event decides on the status.
LEMMA BatchRow ==
    ASSUME IInv, R \in Runs, NEW events \in Seq(Reports), Applied(events).ok,
           run[R].status # "prepared"
    PROVE  /\ Applied(events).row.key = run[R].key
           /\ events # <<>> /\ events[Len(events)].type = "step.started"
                => Applied(events).row.status = "running"
PROOF
  <1> DEFINE N == Len(events)
             Row(n) == AppliedTo(events)[n].row
             S == {n \in 0..N : Row(n).key = run[R].key}
  <1>1. N \in Nat /\ Row(0) = run[R] /\ (events # <<>> <=> N > 0)
    BY AppliedRows
  <1>2. ASSUME NEW n \in 1..N
        PROVE  /\ Row(n).key = Row(n - 1).key
               /\ events[n].type = "step.started" => Row(n).status = "running"
    <2> DEFINE before == Row(n - 1)
               e == events[n]
    <2>1. Row(n) = AfterEvent(before, e)
      BY <1>1, BatchAccepted
    <2>2. before \in RunRow
      BY BatchRows
    <2> HIDE DEF before, e
    <2>3. AfterEvent(before, e).key = before.key
      BY <2>2 DEF AfterEvent, RunRow
    <2>4. e.type = "step.started" => AfterEvent(before, e).status = "running"
      BY <2>2 DEF AfterEvent, StatusAfter, StepEvents, RunRow
    <2> HIDE DEF Row
    <2> QED
      BY <2>1, <2>3, <2>4 DEF before, e
  <1> HIDE DEF Row
  <1>3. 0 \in S
    BY <1>1
  <1>4. ASSUME NEW n \in 1..N, n - 1 \in S PROVE n \in S
    BY <1>2, <1>4
  <1> HIDE DEF S
  <1>5. \A n \in 0..N : n \in S
    BY <1>1, <1>3, <1>4, UpTo
  <1>6. N \in S
    BY <1>1, <1>5
  <1>7. Row(N).key = run[R].key
    BY <1>6 DEF S
  <1>8. Row(N) = Applied(events).row
    BY DEF Row, Applied
  <1> QED
    BY <1>1, <1>2, <1>7, <1>8

\* The row after a batch taken from the queue.
LEMMA StoredRow ==
    ASSUME IInv, Typed, Stored
    PROVE  /\ run'[R].key = run[R].key
           /\ recorded < Len(disk.queue) /\ disk.queue[Len(disk.queue)].type = "step.started"
                => run'[R].status = "running"
           /\ recorded = Len(disk.queue) => run'[R] = run[R]
           /\ recorded + 1 = Len(disk.queue)
                => run'[R] = AfterEvent(run[R], disk.queue[Len(disk.queue)])
PROOF
  <1>1. disk.queue \in Seq(Reports) /\ recorded \in 0..Len(disk.queue) /\ R \in Runs
    BY MachineAssumption DEF Typed, LocalState
  <1>2. /\ run[R].status # "prepared" /\ Applied(NewEvents).ok
        /\ run'[R] = Applied(NewEvents).row
    BY <1>1, StoreBatchStep DEF Stored
  <1>3. /\ NewEvents \in Seq(Reports) /\ Len(NewEvents) = Len(disk.queue) - recorded
        /\ \A i \in 1..Len(NewEvents) : NewEvents[i] = disk.queue[recorded + i]
        /\ NewEvents = <<>> <=> recorded = Len(disk.queue)
    BY <1>1, NewEventsAre
  <1>4. /\ Applied(NewEvents).row.key = run[R].key
        /\ NewEvents # <<>> /\ NewEvents[Len(NewEvents)].type = "step.started"
              => Applied(NewEvents).row.status = "running"
    BY <1>1, <1>2, <1>3, BatchRow, Zenon
  <1>5. NewEvents = <<>> => Applied(NewEvents).row = run[R]
    BY <1>1, <1>2, <1>3, BatchEnds, Zenon
  <1>6. recorded < Len(disk.queue) => NewEvents[Len(NewEvents)] = disk.queue[Len(disk.queue)]
    <2> SUFFICES ASSUME recorded < Len(disk.queue)
                 PROVE  NewEvents[Len(NewEvents)] = disk.queue[Len(disk.queue)]
      OBVIOUS
    <2>1. Len(NewEvents) \in 1..Len(NewEvents) /\ recorded + Len(NewEvents) = Len(disk.queue)
      BY <1>1, <1>3
    <2> QED
      BY <1>3, <2>1
  <1>7. ASSUME recorded + 1 = Len(disk.queue)
        PROVE  run'[R] = AfterEvent(run[R], disk.queue[Len(disk.queue)])
    <2>1. Len(NewEvents) = 1 /\ recorded < Len(disk.queue)
      BY <1>1, <1>3, <1>7
    <2>2. /\ AppliedTo(NewEvents)[0].row = run[R]
          /\ AppliedTo(NewEvents)[1].row = AfterEvent(AppliedTo(NewEvents)[1 - 1].row, NewEvents[1])
      <3>1. Len(NewEvents) \in Nat /\ 1 \in 1..Len(NewEvents)
        BY <2>1
      <3>2. AppliedTo(NewEvents)[0].row = run[R]
        BY <3>1, AppliedRows
      <3> QED
        BY <1>2, <3>1, <3>2, BatchAccepted
    <2> QED
      BY <1>2, <1>6, <2>1, <2>2 DEF Applied
  <1> QED
    BY <1>1, <1>2, <1>3, <1>4, <1>5, <1>6, <1>7

LEMMA KeyStep ==
    ASSUME MachineInv, ReturnInv, Kind
    PROVE  KeyKept
PROOF
  <1>1. IInv /\ Typed /\ boot \in Boots /\ run[R].key \in {NoKey, K}
    BY DEF MachineInv, Typed, ReturnInv, KeyKnown
  <1>2. R \in Runs /\ run \in [Runs -> RunRow] /\ run[R] \in RunRow
    BY <1>1, MachineAssumption DEF IInv, ServerTypeOK
  <1>3. \A row : run' = [run EXCEPT ![R] = row] => run'[R] = row
    BY <1>2
  <1> DEFINE Stays(row) == row.key = run[R].key /\ (Active(row) => Active(run[R]))
  <1>4. ASSUME Stays(run'[R]) PROVE KeyKept
    BY <1>1, <1>4 DEF KeyKept
  <1>5. CASE Stored /\ (Taken \/ TakenUnheard)
    <2>1. run'[R].key = run[R].key
      BY <1>1, <1>5, StoredRow
    <2>2. /\ run[R].status \in TERMINAL => run'[R] = run[R]
          /\ run[R].status # "absent"
      BY <1>1, <1>5, StoredEnds
    <2> QED
      BY <1>4, <2>1, <2>2 DEF Active
  <1>6. CASE Tick \/ (\E h \in Hosts : UpdateHost(h)) \/ UNCHANGED serverVars
    BY <1>4, <1>6 DEF Tick, UpdateHost, serverVars
  <1>7. ASSUME NEW h \in Hosts, Approve(h, R) PROVE KeyKept
    <2>1. run'[R] = ApprovedRow(h) /\ run[R].status = "absent"
      BY <1>3, <1>7 DEF Approve, SetRun
    <2>2. ApprovedRow(h).key = NoKey
      BY DEF ApprovedRow, AbsentRow
    <2> QED
      BY <2>1, <2>2 DEF KeyKept
  <1>8. CASE CancelRun(R)
    <2>1. Active(run[R]) /\ run'[R] = CancelledByOperator(run[R])
      BY <1>3, <1>8 DEF CancelRun, SetRun
    <2>2. run'[R].key = run[R].key
      BY <1>2, <2>1 DEF CancelledByOperator, RunRow
    <2> QED
      BY <1>4, <2>1, <2>2
  <1>9. CASE ResumeRun(R)
    <2>1. /\ run[R].status = "needs_review"
          /\ run'[R] = [run[R] EXCEPT !.status = "runner_ready", !.version = @ + 1]
      BY <1>3, <1>9 DEF ResumeRun, SetRun
    <2> QED
      BY <1>2, <1>4, <2>1 DEF RunRow, Active, TERMINAL
  <1>10. CASE ReconcileRun(R)
    <2>1. run'[R].status = "cancelled" /\ run'[R].key = NoKey
      BY <1>2, <1>10, ReconciledRow
    <2> QED
      BY <2>1 DEF KeyKept, Active, TERMINAL
  <1>11. CASE ServeAnswer(R)
    <2>1. /\ run[R].status = "prepared"
          /\ run'[R] = [run[R] EXCEPT !.status = "answer_served", !.version = @ + 1,
                                !.hashes = TRUE, !.approval = "consumed",
                                !.answerUntil = now + AnswerWindow,
                                !.enrollUntil = now + EnrollTime]
      BY <1>3, <1>11 DEF ServeAnswer, AnswerDue, ApprovalOpen, SetRun
    <2> QED
      BY <1>2, <1>4, <2>1 DEF RunRow, Active, TERMINAL
  <1>12. CASE InstallerReport(R)
    <2>1. /\ run[R].status = "answer_served"
          /\ run'[R] = [run[R] EXCEPT !.status = "installed_reported", !.version = @ + 1]
      BY <1>3, <1>12 DEF InstallerReport, SetRun
    <2> QED
      BY <1>2, <1>4, <2>1 DEF RunRow, Active, TERMINAL
  <1>13. CASE Maintain
    <2>1. run'[R] = IF Expired(run[R]) THEN ExpiredRow(run[R]) ELSE run[R]
      BY <1>2, <1>13 DEF Maintain
    <2>2. ExpiredRow(run[R]).key = run[R].key /\ ExpiredRow(run[R]).status = "expired"
      BY <1>2 DEF ExpiredRow, RunRow
    <2> QED
      BY <1>4, <2>1, <2>2 DEF Active, TERMINAL
  <1>14. CASE LeaseHandler(R)
    <2>1. run'[R] = [run[R] EXCEPT !.leaseUntil = LeaseGranted(R)]
      BY <1>3, <1>14 DEF LeaseHandler, SetRun
    <2>2. run'[R].key = run[R].key /\ run'[R].status = run[R].status
      BY <1>2, <2>1 DEF RunRow
    <2> QED
      BY <1>4, <2>2 DEF Active
  <1>15. CASE Enroll(R, K, boot)
    <2>1. /\ Active(run[R])
          /\ run'[R] = [run[R] EXCEPT !.key = K, !.boot = boot, !.status = "runner_ready",
                                       !.version = @ + 1]
      BY <1>3, <1>15 DEF Enroll, EnrollAccepted, SetRun
    <2>2. run'[R].key = K
      BY <1>2, <2>1 DEF RunRow
    <2> QED
      BY <2>1, <2>2 DEF KeyKept
  <1>16. CASE CompleteHandler(R)
    <2>1. run'[R] = [run[R] EXCEPT !.status = "succeeded", !.version = @ + 1,
                                   !.leaseUntil = 0, !.hashes = FALSE, !.completedAt = now]
      BY <1>3, <1>16 DEF CompleteHandler, SetRun
    <2>2. run'[R].key = run[R].key /\ run'[R].status = "succeeded"
      BY <1>2, <2>1 DEF RunRow
    <2> QED
      BY <1>4, <2>2 DEF Active, TERMINAL
  <1> HIDE DEF Stays
  <1>17. (Stored /\ (Taken \/ TakenUnheard)) \/ Beside \/ Called \/ UNCHANGED serverVars
    BY DEF Kind, Ordinary, Taken, TakenUnheard, Stored, StepDone, RebootSaved, RebootTold,
           Confirmed, Finished, Called
  <1> QED
    BY <1>5, <1>6, <1>7, <1>8, <1>9, <1>10, <1>11, <1>12, <1>13, <1>14, <1>15, <1>16, <1>17
       DEF Beside, Called

-----------------------------------------------------------------------------
(* Steps away from the reboot *)

\* What is saved is no reboot, and the machine is as enrolled as before.
Apart ==
    /\ DOMAIN disk' = Fields /\ disk'.enrolled = disk.enrolled
    /\ disk'.status # "reboot_pending"

\* The places ReturnInv tells apart.
Marks == RebootPlaces \cup Cleared
            \cup {"reboot.resume", "reboot.flushed", "step.started", "bare"}

\* The key is known, too, once the step is made.
LEMMA KeyStays ==
    ASSUME MachineInv, ReturnInv, KeyKept, disk'.enrolled = disk.enrolled
    PROVE  KeyKnown'
PROOF
  <1>1. disk.enrolled => run[R].status # "absent"
    BY DEF MachineInv, Untouched, ReturnInv, EnrolledAt
  <1> QED
    BY <1>1 DEF ReturnInv, KeyKnown, KeyKept

LEMMA ApartStep ==
    ASSUME MachineInv, ReturnInv, KeyKept, Apart, NEW next, pc' \in Exits \cup {next},
           next \notin Marks, next \in Past => disk.enrolled
    PROVE  ReturnInv'
PROOF
  <1>1. KeyKnown'
    BY KeyStays DEF Apart
  <1>2. pc' \notin Marks /\ (pc' \in Past => disk.enrolled)
    BY DEF Exits, Marks, RebootPlaces, Cleared, Past, InStep, Before, Decided, Behind
  <1>3. disk'.status # "reboot_pending" /\ disk'.enrolled = disk.enrolled
    BY DEF Apart
  <1>4. RebootAt' /\ EnrolledAt' /\ BootAt' /\ AtWork'
    BY <1>2, <1>3 DEF RebootAt, EnrolledAt, BootAt, AtWork, Marks, RebootPlaces, Cleared
  <1>5. OnTheWay' /\ Returned'
    BY <1>2, <1>3 DEF OnTheWay, Away, Returned, Marks, RebootPlaces
  <1> QED
    BY <1>1, <1>4, <1>5 DEF ReturnInv

\* Where there is no reboot.
Home == DOMAIN disk = Fields /\ disk.status # "reboot_pending"

LEMMA HomeAt ==
    ASSUME RunnerInv, ReturnInv, pc \notin RebootPlaces \cup {"down", "cancel", "halt"}
    PROVE  Home
PROOF
  BY DEF RunnerInv, Shaped, ReturnInv, RebootAt, Home

LEMMA HaltApart ==
    ASSUME NEW d, DOMAIN d = Fields, d.enrolled = disk.enrolled, Halt(d)
    PROVE  Apart /\ pc' \in Exits
PROOF
  BY DEF Halt, Fields, Apart, Exits

LEMMA ReportApart ==
    ASSUME NEW d, DOMAIN d = Fields, d.enrolled = disk.enrolled, d.status # "reboot_pending",
           NEW type, NEW next, Report(d, type, next)
    PROVE  Apart /\ pc' \in Exits \cup {next}
PROOF
  <1>1. CASE ~QueueFull(d)
    <2> DEFINE e == Event(type, StepOf(type), BootOf(type))
    <2>1. disk' = [d EXCEPT !.queue = Append(@, e)] /\ pc' = next
      BY <1>1 DEF Report, Goto
    <2> QED
      BY <2>1 DEF Fields, Apart
  <1>2. CASE QueueFull(d)
    BY <1>2 DEF Report, Fields, Apart, Exits
  <1> QED
    BY <1>1, <1>2

LEMMA FailureApart ==
    ASSUME Home, NEW next, NetworkFailure(disk, next)
    PROVE  Apart /\ pc' \in Exits \cup {next}
PROOF
  <1>1. CASE disk' = [disk EXCEPT !.netFailed = TRUE] /\ Goto(next)
    BY <1>1 DEF Home, Goto, Fields, Apart
  <1>2. CASE Halt(disk)
    BY <1>2, HaltApart DEF Home
  <1> QED
    BY <1>1, <1>2 DEF NetworkFailure

LEMMA StopApart ==
    ASSUME Home, Lost \/ Refused
    PROVE  Apart /\ pc' \in Exits
PROOF
  <1>1. CASE Lost
    BY <1>1, FailureApart DEF Lost, Exits
  <1>2. CASE Refused
    BY <1>2, HaltApart DEF Refused, Home
  <1> QED
    BY <1>1, <1>2

LEMMA CancelApart ==
    ASSUME DOMAIN disk = Fields, Cancel(disk)
    PROVE  Apart /\ pc' \in Exits
PROOF
  <1> DEFINE d == [disk EXCEPT !.status = "cancellation_pending"]
  <1>1. DOMAIN d = Fields /\ d.enrolled = disk.enrolled /\ d.status # "reboot_pending"
    BY DEF Fields
  <1>2. Report(d, "run.cancelled", "cancel.flush")
    BY DEF Cancel
  <1> HIDE DEF d
  <1> QED
    BY <1>1, <1>2, ReportApart DEF Exits

LEMMA LeasedFields ==
    ASSUME DOMAIN disk = Fields
    PROVE  /\ DOMAIN Leased = Fields
           /\ \A f \in {"status", "enrolled", "queue", "rebootBoot", "steps"} : Leased[f] = disk[f]
PROOF
  BY DEF Leased, Fields

LEMMA SameApart ==
    ASSUME Home, NEW next, Goto(next), disk' \in {disk, Leased, [disk EXCEPT !.queue = <<>>]}
    PROVE  Apart /\ pc' = next
PROOF
  BY DEF Home, Goto, Leased, Fields, Apart

\* A flush that goes on, or stops as lost and refused do.
LEMMA FlushApart ==
    ASSUME Home, NEW next, NEW lost, NEW refused, Flush(next, lost, refused),
           lost \/ refused => Apart /\ pc' \in Exits \cup {next}
    PROVE  Apart /\ pc' \in Exits \cup {next}
PROOF
  <1>1. CASE Goto(next) /\ disk' \in {disk, [disk EXCEPT !.queue = <<>>]}
    BY <1>1, SameApart
  <1>2. CASE lost \/ refused
    BY <1>2
  <1> QED
    BY <1>1, <1>2 DEF Flush

LEMMA FlushingApart ==
    ASSUME MachineInv, ReturnInv, KeyKept, RunnerInv, NEW at, NEW next, Flushing(at, next),
           at \notin RebootPlaces \cup {"down", "cancel", "halt"}, next \notin Marks,
           next \in Past => at \in Past
    PROVE  ReturnInv'
PROOF
  <1>1. pc = at /\ Flush(next, Lost, Refused)
    BY DEF Flushing
  <1>2. Home
    BY <1>1, HomeAt
  <1>3. Apart /\ pc' \in Exits \cup {next}
    BY <1>1, <1>2, StopApart, FlushApart
  <1>4. next \in Past => disk.enrolled
    BY <1>1 DEF ReturnInv, EnrolledAt
  <1> QED
    BY <1>3, <1>4, ApartStep

LEMMA CallApart ==
    ASSUME Home, NEW Ok, NEW Handler, NEW Answered, Call(Ok, Handler, Answered), ~Answered
    PROVE  Apart /\ pc' \in Exits
PROOF
  BY StopApart DEF Call


-----------------------------------------------------------------------------
(* Steps that go on as before *)

\* The process moves on, if at all, without having told the server anything.
LEMMA Moving ==
    ASSUME MachineInv, ReturnInv, KeyKept, RowStands,
           disk'.queue = disk.queue, disk'.rebootBoot = disk.rebootBoot,
           disk'.enrolled = disk.enrolled, recorded' = recorded,
           disk'.status = "reboot_pending" => disk.status = "reboot_pending",
           RebootAt', BootAt', pc' \in Past => disk.enrolled, pc' = "bare" => pc = "bare",
           pc' \in Cleared => pc \in Cleared, pc' = "step.started" => pc = "step.started",
           pc' = "reboot.flushed" => pc = "reboot.flushed" /\ boot' = boot, Away' => Away
    PROVE  ReturnInv'
PROOF
  <1>1. /\ EnrolledAt /\ AtWork /\ OnTheWay /\ Returned
        /\ run[R].status = "absent" => pc = "bare"
    BY DEF ReturnInv, MachineInv, Untouched
  <1>2. KeyKnown'
    BY KeyStays
  <1>3. EnrolledAt'
    BY <1>1 DEF EnrolledAt
  <1>4. AtWork'
    <2>1. pc \in Cleared => run[R].status # "absent"
      BY <1>1 DEF Cleared
    <2> QED
      BY <1>1, <2>1 DEF AtWork, RowStands
  <1>5. OnTheWay'
    <2> SUFFICES ASSUME Away', Active(run'[R]) PROVE Pending' \/ Awaited'
      BY DEF OnTheWay
    <2>1. Away /\ run[R].status # "absent"
      BY <1>1 DEF Away
    <2>2. Pending \/ Awaited
      BY <1>1, <2>1 DEF OnTheWay, RowStands
    <2>3. GoneEvent' = GoneEvent
      BY DEF GoneEvent
    <2>4. /\ run[R].status \in {"running", "reboot_pending"}
          /\ run'[R].status = run[R].status /\ run'[R].boot = run[R].boot
      BY <2>1, <2>2 DEF Pending, Awaited, RowStands
    <2> QED
      BY <2>2, <2>3, <2>4 DEF Pending, Awaited
  <1>6. Returned'
    <2> SUFFICES ASSUME pc' = "reboot.flushed", Active(run'[R]) PROVE Returned'
      BY DEF Returned
    <2>1. pc = "reboot.flushed" /\ boot' = boot /\ run[R].status # "absent"
      BY <1>1
    <2>2. GoneEvent' = GoneEvent /\ BackEvent' = BackEvent
      BY <2>1 DEF GoneEvent, BackEvent
    <2>3. Active(run[R])
      BY <2>1 DEF RowStands
    <2>4. /\ run[R].status \in {"running", "reboot_pending"}
          /\ run'[R].status = run[R].status /\ run'[R].boot = run[R].boot
      BY <1>1, <2>1, <2>3 DEF Returned, RowStands
    <2> QED
      BY <1>1, <2>1, <2>2, <2>3, <2>4 DEF Returned
  <1> QED
    BY <1>2, <1>3, <1>4, <1>5, <1>6 DEF ReturnInv

\* The fields of state.json that ReturnInv looks at stay as they are.
LEMMA StandsStill ==
    ASSUME MachineInv, ReturnInv, KeyKept, RowStands, UNCHANGED <<pc, boot, recorded>>,
           \A f \in {"status", "queue", "rebootBoot", "enrolled"} : disk'[f] = disk[f]
    PROVE  ReturnInv'
PROOF
  <1>1. RebootAt' /\ BootAt' /\ (Away' => Away)
    BY DEF ReturnInv, RebootAt, BootAt, Away
  <1>2. pc \in Past => disk.enrolled
    BY DEF ReturnInv, EnrolledAt
  <1> QED
    BY <1>1, <1>2, Moving

LEMMA OthersReturn ==
    ASSUME RunnerInv, MachineInv, ReturnInv, KeyKept,
           Heartbeat \/ ServerSide \/ Time \/ UNCHANGED vars
    PROVE  ReturnInv'
PROOF
  <1>1. RowStands
    <2>1. Beside \/ LeaseHandler(R) \/ UNCHANGED serverVars
      BY DEF Heartbeat, ServerSide, Time, vars, Beside
    <2> QED
      BY <2>1, RowKept DEF MachineInv
  <1>2. UNCHANGED <<pc, boot, recorded>>
    BY DEF Heartbeat, ServerSide, Time, vars, machineVars, netVars
  <1>3. DOMAIN disk = Fields
    BY DEF RunnerInv, Shaped
  <1>4. disk' = disk \/ disk' = Leased \/ disk' = [disk EXCEPT !.netFailed = TRUE]
    BY DEF Heartbeat, ServerSide, Time, vars, machineVars
  <1>5. \A f \in {"status", "queue", "rebootBoot", "enrolled"} : disk'[f] = disk[f]
    <2>1. CASE disk' = Leased
      BY <1>3, <2>1, LeasedFields
    <2>2. CASE disk' = disk \/ disk' = [disk EXCEPT !.netFailed = TRUE]
      BY <1>3, <2>2 DEF Fields
    <2> QED
      BY <1>4, <2>1, <2>2
  <1> QED
    BY <1>1, <1>2, <1>5, StandsStill

-----------------------------------------------------------------------------
(* The start of the process, and the loop over the steps *)

LEMMA StartReturns ==
    ASSUME RunnerInv, MachineInv, ReturnInv, KeyKept, Bootstrap \/ Start
    PROVE  ReturnInv'
PROOF
  <1>1. DOMAIN disk = Fields
    BY DEF RunnerInv, Shaped
  <1>2. CASE Bootstrap
    <2>1. Home
      BY <1>2, HomeAt DEF Bootstrap, RebootPlaces
    <2>2. Apart /\ pc' = "down"
      BY <1>2, <2>1 DEF Bootstrap, Home, Apart
    <2> QED
      BY <2>2, ApartStep DEF Exits, Marks, RebootPlaces, Cleared, Past, InStep, Before, Decided, Behind
  <1>3. CASE Start /\ disk.status # "reboot_pending"
    <2>1. /\ UNCHANGED disk
          /\ pc' \in {"off", "cancel.flush", "review.flush", "finish.flush", AfterReview, "gave.up"}
      BY <1>3 DEF Start, StartAt, Goto
    <2>2. Apart
      BY <1>1, <1>3, <2>1 DEF Apart
    <2>3. pc' \notin Marks /\ (pc' \in Past => disk.enrolled)
      BY <2>1 DEF AfterReview, Marks, RebootPlaces, Cleared, Past, InStep, Before, Decided, Behind
    <2> QED
      BY <2>2, <2>3, ApartStep
  <1>4. CASE Start /\ disk.status = "reboot_pending"
    <2>1. disk.enrolled /\ pc = "down"
      BY <1>4 DEF ReturnInv, EnrolledAt, Start
    <2>2. /\ UNCHANGED <<serverVars, disk, boot, recorded>>
          /\ pc' = IF disk.rebootBoot = boot THEN "reboot.auth" ELSE "reboot.return"
      BY <1>4, <2>1 DEF Start, StartAt, Goto, netVars
    <2>3. RowStands
      BY <2>2, RowKept DEF MachineInv
    <2>4. RebootAt' /\ BootAt' /\ Away
      BY <1>4, <2>1, <2>2 DEF RebootAt, RebootPlaces, BootAt, Away
    <2>5. pc' \notin Past \cup Cleared \cup {"bare", "step.started", "reboot.flushed"}
      BY <2>2 DEF Past, InStep, Before, Decided, Behind, Cleared
    <2> QED
      BY <2>2, <2>3, <2>4, <2>5, Moving
  <1> QED
    BY <1>2, <1>3, <1>4

LEMMA EnrollReturns ==
    ASSUME RunnerInv, MachineInv, ReturnInv, KeyKept, EnrollCall
    PROVE  ReturnInv'
PROOF
  <1> DEFINE Answered == disk' = [disk EXCEPT !.enrolled = TRUE] /\ Goto("begin.auth")
  <1>1. pc = "enroll" /\ Call(EnrollAccepted(R, K), EnrollHandler, Answered)
    BY DEF EnrollCall
  <1>2. Home
    BY <1>1, HomeAt DEF RebootPlaces
  <1>3. CASE ~Answered
    <2>1. Apart /\ pc' \in Exits
      BY <1>1, <1>2, <1>3, CallApart
    <2> QED
      BY <2>1, ApartStep DEF Exits, Marks, RebootPlaces, Cleared, Past, InStep, Before, Decided, Behind
  <1>4. CASE Answered
    <2>1. disk'.enrolled = TRUE /\ disk'.status # "reboot_pending" /\ pc' = "begin.auth"
      BY <1>2, <1>4 DEF Home, Fields, Goto
    <2>2. EnrollHandler \/ disk'.enrolled = disk.enrolled
      <3>1. EnrollHandler \/ Lost \/ Refused
        BY <1>1 DEF Call
      <3> QED
        BY <1>2, <3>1, StopApart DEF Apart
    <2>3. KeyKnown'
      <3>1. CASE EnrollHandler
        <4>1. R \in Runs /\ run \in [Runs -> RunRow] /\ run[R] \in RunRow
          BY MachineAssumption DEF MachineInv, IInv, ServerTypeOK
        <4>2. CASE run[R].key = K
          BY <3>1, <4>2 DEF EnrollHandler, serverVars, KeyKnown
        <4>3. CASE run[R].key # K
          <5>1. run'[R] = [run[R] EXCEPT !.key = K, !.boot = boot, !.status = "runner_ready",
                                         !.version = @ + 1]
            BY <3>1, <4>1, <4>3 DEF EnrollHandler, Enroll, SetRun
          <5>2. run'[R].key = K
            BY <4>1, <5>1 DEF RunRow
          <5> QED
            BY <5>2 DEF KeyKnown
        <4> QED
          BY <4>2, <4>3
      <3>2. CASE disk'.enrolled = disk.enrolled
        BY <3>2, KeyStays
      <3> QED
        BY <2>2, <3>1, <3>2
    <2>4. RebootAt' /\ EnrolledAt' /\ BootAt' /\ AtWork' /\ OnTheWay' /\ Returned'
      BY <2>1 DEF RebootAt, RebootPlaces, EnrolledAt, BootAt, AtWork, Cleared, OnTheWay, Away, Returned
    <2> QED
      BY <2>3, <2>4 DEF ReturnInv
  <1> QED
    BY <1>3, <1>4


\* Steps outside run_step that have nothing to do with a reboot.
LEMMA PlainReturns ==
    ASSUME RunnerInv, MachineInv, ReturnInv, KeyKept,
           Manifest \/ LoopStep \/ FetchSecrets \/ NextStep
    PROVE  ReturnInv'
PROOF
  <1> DEFINE Next1 == {"manifest.flush", "finish.flush", "step.done", "step.auth", "step.start",
                       "loop"}
  <1>1. Home
    <2>1. pc \notin RebootPlaces \cup {"down", "cancel", "halt"}
      BY DEF Manifest, LoopStep, FetchSecrets, NextStep, RebootPlaces
    <2> QED
      BY <2>1, HomeAt
  <1>2. ASSUME NEW next \in Next1, Goto(next), disk' = disk PROVE Apart /\ pc' \in Exits \cup Next1
    BY <1>1, <1>2, SameApart
  <1>3. ASSUME NEW d, NEW next \in Next1, Goto(next), disk' = d,
               d \in {[disk EXCEPT !.manifest = TRUE], [disk EXCEPT !.status = "completion_pending"]}
        PROVE  Apart /\ pc' \in Exits \cup Next1
    BY <1>1, <1>3 DEF Home, Fields, Apart, Goto
  <1>4. Apart /\ pc' \in Exits \cup Next1
    <2>1. CASE Manifest
      <3>1. CASE disk.manifest
        BY <1>2, <2>1, <3>1 DEF Manifest
      <3>2. CASE ~disk.manifest
        <4> DEFINE Answered == disk' = [disk EXCEPT !.manifest = TRUE] /\ Goto("manifest.flush")
        <4>1. Call(DeviceOk(R, K) /\ LeaseInForce(R), UNCHANGED serverVars, Answered)
          BY <2>1, <3>2 DEF Manifest
        <4>2. CASE ~Answered
          BY <1>1, <4>1, <4>2, CallApart
        <4>3. CASE Answered
          BY <1>3, <4>3
        <4> QED
          BY <4>2, <4>3
      <3> QED
        BY <3>1, <3>2
    <2>2. CASE LoopStep
      <3>1. CASE cur > NumSteps
        BY <1>3, <2>2, <3>1 DEF LoopStep
      <3>2. CASE ~(cur > NumSteps) /\ Unmet
        BY <1>1, <2>2, <3>2, HaltApart DEF LoopStep, Home
      <3>3. CASE ~(cur > NumSteps) /\ ~Unmet
        BY <1>2, <2>2, <3>3 DEF LoopStep
      <3> QED
        BY <3>1, <3>2, <3>3
    <2>3. CASE FetchSecrets
      <3> DEFINE Answered == Goto("step.start") /\ UNCHANGED disk
      <3>1. Call(DeviceOk(R, K) /\ SecretsServed(R, cur), UNCHANGED serverVars, Answered)
        BY <2>3 DEF FetchSecrets
      <3>2. CASE ~Answered
        BY <1>1, <3>1, <3>2, CallApart
      <3>3. CASE Answered
        BY <1>2, <3>3
      <3> QED
        BY <3>2, <3>3
    <2>4. CASE NextStep
      BY <1>2, <2>4 DEF NextStep
    <2> QED
      BY <2>1, <2>2, <2>3, <2>4
  <1>5. pc' \notin Marks /\ (pc' \in Past => disk.enrolled)
    <2>1. pc \in Past
      BY DEF Past, InStep, Before, Behind, Manifest, LoopStep, FetchSecrets, NextStep
    <2>2. pc' \notin Marks
      BY <1>4 DEF Exits, Marks, RebootPlaces, Cleared
    <2> QED
      BY <2>1, <2>2 DEF ReturnInv, EnrolledAt
  <1> QED
    BY <1>4, <1>5, ApartStep

LEMMA EndReturns ==
    ASSUME RunnerInv, MachineInv, ReturnInv, KeyKept, Cancelled \/ FinishCall
    PROVE  ReturnInv'
PROOF
  <1>1. Home
    <2>1. pc \notin RebootPlaces \cup {"down", "cancel", "halt"}
      BY DEF Cancelled, FinishCall, RebootPlaces
    <2> QED
      BY <2>1, HomeAt
  <1>2. CASE Goto("off") /\ disk' \in {[disk EXCEPT !.status = "cancelled"],
                                       [disk EXCEPT !.status = "succeeded"]}
    <2>1. Apart /\ pc' = "off"
      BY <1>1, <1>2 DEF Home, Fields, Apart, Goto
    <2> QED
      BY <2>1, ApartStep DEF Marks, RebootPlaces, Cleared, Past, InStep, Before, Decided, Behind
  <1>3. CASE FinishCall /\ ~(disk' = [disk EXCEPT !.status = "succeeded"] /\ Goto("off"))
    <2> DEFINE Answered == disk' = [disk EXCEPT !.status = "succeeded"] /\ Goto("off")
    <2>1. PICK Ok, Handler : Call(Ok, Handler, Answered)
      BY <1>3 DEF FinishCall
    <2>2. Apart /\ pc' \in Exits
      BY <1>1, <1>3, <2>1, CallApart
    <2> QED
      BY <2>2, ApartStep DEF Exits, Marks, RebootPlaces, Cleared, Past, InStep, Before, Decided, Behind
  <1> QED
    BY <1>2, <1>3 DEF Cancelled

\* Halt and review.
LEMMA HaltReturns ==
    ASSUME RunnerInv, MachineInv, ReturnInv, KeyKept,
           HaltStep \/ HaltFlush \/ ReviewLease \/ ReviewResume \/ ConfirmCancel
    PROVE  ReturnInv'
PROOF
  <1>1. DOMAIN disk = Fields /\ (Home \/ pc \in {"cancel", "halt"})
    <2>1. pc \notin RebootPlaces \cup {"down"}
      BY DEF HaltStep, HaltFlush, ReviewLease, ReviewResume, ConfirmCancel, RebootPlaces
    <2> QED
      BY <2>1, HomeAt DEF RunnerInv, Shaped
  <1>2. Apart /\ pc' \in Exits \cup {"halt.flush", "review.resume", AfterReview}
    <2>1. CASE HaltStep
      <3>1. CASE Halt(disk)
        BY <1>1, <3>1, HaltApart
      <3>2. CASE pc = "halt.event" /\ Report(disk, "run.needs_review", "halt.flush")
        BY <1>1, <3>2, ReportApart DEF Home
      <3>3. CASE pc = "halt.event" /\ Goto("halt.flush") /\ UNCHANGED disk
        BY <1>1, <3>3, SameApart
      <3> QED
        BY <2>1, <3>1, <3>2, <3>3 DEF HaltStep
    <2>2. CASE HaltFlush
      <3> DEFINE Ignored == Goto("down") /\ UNCHANGED disk
      <3>1. Home /\ Flush("down", Ignored, Ignored)
        BY <1>1, <2>2 DEF HaltFlush
      <3>2. Ignored => Apart /\ pc' \in Exits \cup {"down"}
        BY <3>1, SameApart
      <3> HIDE DEF Ignored
      <3> QED
        BY <3>1, <3>2, FlushApart DEF Exits
    <2>3. CASE ReviewLease
      <3>1. Home
        BY <1>1, <2>3 DEF ReviewLease
      <3>2. CASE disk' = Leased /\ Goto(AfterAnswer)
        <4>1. Apart /\ pc' = AfterAnswer
          BY <3>1, <3>2, SameApart
        <4> QED
          BY <4>1, AfterAnswerAt DEF Exits
      <3>3. CASE Lost \/ Refused
        BY <3>1, <3>3, StopApart
      <3> QED
        BY <2>3, <3>2, <3>3 DEF ReviewLease, RenewLease
    <2>4. CASE ReviewResume
      <3> DEFINE d == Reopened(disk)
      <3>1. DOMAIN d = Fields /\ d.enrolled = disk.enrolled /\ d.status = "running"
        BY <1>1 DEF Reopened, Fields
      <3>2. Report(d, "run.resumed", AfterReview)
        BY <2>4 DEF ReviewResume
      <3> HIDE DEF d
      <3> QED
        BY <3>1, <3>2, ReportApart
    <2>5. CASE ConfirmCancel
      BY <1>1, <2>5, CancelApart DEF ConfirmCancel
    <2> QED
      BY <2>1, <2>2, <2>3, <2>4, <2>5
  <1>3. /\ \/ pc' \in Exits \cup {"halt.flush", "review.resume", "enroll"}
           \/ pc' = "begin.auth" /\ disk.enrolled
        /\ pc' \notin Marks
    BY <1>2 DEF AfterReview, Exits, Marks, RebootPlaces, Cleared
  <1>4. pc' \in Past => disk.enrolled
    BY <1>3 DEF Exits, Past, InStep, Before, Decided, Behind
  <1> QED
    BY <1>2, <1>3, <1>4, ApartStep

-----------------------------------------------------------------------------
(* run_step *)

LEMMA StepStartReturns ==
    ASSUME RunnerInv, MachineInv, ReturnInv, KeyKept, StepStart
    PROVE  ReturnInv'
PROOF
  <1> DEFINE e == Event("step.started", StepOf("step.started"), BootOf("step.started"))
  <1>1. pc = "step.start" /\ Report(disk, "step.started", "step.started")
    BY DEF StepStart
  <1>2. Home /\ disk.enrolled
    <2>1. pc \notin RebootPlaces \cup {"down", "cancel", "halt"} /\ pc \in Past
      BY <1>1 DEF RebootPlaces, Past, InStep, Before
    <2> QED
      BY <2>1, HomeAt DEF ReturnInv, EnrolledAt
  <1>3. Apart /\ pc' \in Exits \cup {"step.started"}
    BY <1>1, <1>2, ReportApart DEF Home
  <1>4. CASE pc' = "step.started"
    <2>1. disk' = [disk EXCEPT !.queue = Append(@, e)]
      BY <1>1, <1>4 DEF Report, Goto
    <2>2. e.type = "step.started" /\ e \in Reports
      <3>1. cur \in Steps
        BY <1>1 DEF RunnerInv, AtHand, InStep, Before
      <3>2. Typed
        BY DEF MachineInv
      <3> QED
        BY <3>1, <3>2, EventReported DEF EventTypes, Event
    <2> HIDE DEF e
    <2>3. disk'.queue = Append(disk.queue, e) /\ disk.queue \in Seq(Reports) /\ recorded \in 0..Len(disk.queue)
      BY <1>2, <2>1 DEF Home, Fields, MachineInv, Typed, LocalState
    <2>4. Len(disk'.queue) = Len(disk.queue) + 1 /\ disk'.queue[Len(disk.queue) + 1] = e
      BY <2>2, <2>3, AppendProperties
    <2>5. recorded' = recorded
      BY DEF StepStart, netVars
    <2>6. recorded' < Len(disk'.queue) /\ disk'.queue[Len(disk'.queue)].type = "step.started"
      BY <2>2, <2>3, <2>4, <2>5
    <2>7. RebootAt' /\ EnrolledAt' /\ BootAt' /\ AtWork' /\ OnTheWay' /\ Returned'
      BY <1>2, <1>3, <1>4, <2>6 DEF Apart, RebootAt, RebootPlaces, EnrolledAt, BootAt, AtWork,
                                   Cleared, OnTheWay, Away, Returned
    <2>8. KeyKnown'
      BY <1>3, KeyStays DEF Apart
    <2> QED
      BY <2>7, <2>8 DEF ReturnInv
  <1>5. CASE pc' \in Exits
    BY <1>3, <1>5, ApartStep DEF Exits, Marks, RebootPlaces, Cleared, Past, InStep, Before, Decided, Behind
  <1> QED
    BY <1>3, <1>4, <1>5

LEMMA OutcomeReturns ==
    ASSUME RunnerInv, MachineInv, ReturnInv, KeyKept, pc \in {"check", "apply"},
           Succeed \/ Fail \/ Halt(disk)
    PROVE  ReturnInv'
PROOF
  <1>1. Home /\ disk.enrolled
    <2>1. pc \notin RebootPlaces \cup {"down", "cancel", "halt"} /\ pc \in Past
      BY DEF RebootPlaces, Past, InStep, Before
    <2> QED
      BY <2>1, HomeAt DEF ReturnInv, EnrolledAt
  <1>2. \A status : /\ DOMAIN Checkpoint(status) = Fields
                     /\ Checkpoint(status).enrolled = disk.enrolled
                     /\ Checkpoint(status).status # "reboot_pending"
    BY <1>1 DEF Checkpoint, Home, Fields
  <1>3. Apart /\ pc' \in Exits \cup {"step.done"}
    <2>1. CASE Succeed
      BY <1>2, <2>1, ReportApart DEF Succeed
    <2>2. CASE Fail
      <3>1. PICK next \in {"halt", "step.done"} : Report(Checkpoint("failed"), "step.failed", next)
        BY <2>2 DEF Fail
      <3>2. Apart /\ pc' \in Exits \cup {next}
        BY <1>2, <3>1, ReportApart
      <3> QED
        BY <3>2 DEF Exits
    <2>3. CASE Halt(disk)
      BY <1>1, <2>3, HaltApart DEF Home
    <2> QED
      BY <2>1, <2>2, <2>3
  <1> QED
    BY <1>1, <1>3, ApartStep DEF Marks, RebootPlaces, Cleared

\* From check to apply, nothing reaches the server.
LEMMA ApplyReturns ==
    ASSUME RunnerInv, MachineInv, ReturnInv, KeyKept, CheckPhase \/ ApplyStart
    PROVE  ReturnInv'
PROOF
  <1>1. pc \in {"check", "apply.start"} /\ UNCHANGED <<serverVars, boot, recorded>>
    BY DEF CheckPhase, ApplyStart, netVars
  <1>2. Home /\ disk.enrolled
    <2>1. pc \notin RebootPlaces \cup {"down", "cancel", "halt"} /\ pc \in Past
      BY <1>1 DEF RebootPlaces, Past, InStep, Before, Decided
    <2> QED
      BY <2>1, HomeAt DEF ReturnInv, EnrolledAt
  <1>3. CASE CheckPhase /\ (Succeed \/ Fail \/ Halt(disk))
    BY <1>3, OutcomeReturns DEF CheckPhase
  <1>4. CASE \/ CheckPhase /\ pc' = "apply.auth" /\ disk' = disk
             \/ ApplyStart
    <2>1. RowStands
      BY <1>1, RowKept DEF MachineInv
    <2>2. /\ disk'.queue = disk.queue /\ disk'.rebootBoot = disk.rebootBoot
          /\ disk'.enrolled = disk.enrolled /\ disk'.status # "reboot_pending"
          /\ pc' \in {"apply.auth", "apply"}
      BY <1>2, <1>4 DEF Home, Fields, ApplyStart, Checkpoint, Goto
    <2>3. RebootAt' /\ BootAt' /\ ~Away'
      BY <2>2 DEF RebootAt, RebootPlaces, BootAt, Away
    <2>4. pc \in Cleared /\ pc' \notin {"bare", "step.started", "reboot.flushed"}
      BY <1>1, <2>2 DEF Cleared
    <2> QED
      BY <1>1, <1>2, <2>1, <2>2, <2>3, <2>4, Moving
  <1>5. \/ Succeed \/ Fail \/ Halt(disk)
        \/ pc' = "apply.auth" /\ disk' = disk
        \/ ApplyStart
    BY DEF CheckPhase, Goto
  <1> QED
    BY <1>3, <1>4, <1>5

\* The module asks for a reboot: the run is at work and the server has heard of all before.
LEMMA ApplyEndReturns ==
    ASSUME RunnerInv, MachineInv, ReturnInv, KeyKept, ApplyEnd
    PROVE  ReturnInv'
PROOF
  <1>1. pc = "apply" /\ UNCHANGED <<serverVars, boot, recorded>>
    BY DEF ApplyEnd, netVars
  <1>2. Home /\ disk.enrolled
    <2>1. pc \notin RebootPlaces \cup {"down", "cancel", "halt"} /\ pc \in Past
      BY <1>1 DEF RebootPlaces, Past, InStep
    <2> QED
      BY <2>1, HomeAt DEF ReturnInv, EnrolledAt
  <1>3. CASE Succeed \/ Fail \/ Halt(disk)
    BY <1>1, <1>3, OutcomeReturns
  <1>4. CASE /\ disk' = [Checkpoint("reboot_pending") EXCEPT
                            !.status = "reboot_pending", !.rebootBoot = boot,
                            !.rebootCount = @ + 1]
             /\ Goto("reboot.event")
    <2>1. /\ disk'.status = "reboot_pending" /\ disk'.rebootBoot = boot
          /\ disk'.enrolled = disk.enrolled /\ pc' = "reboot.event"
      BY <1>2, <1>4 DEF Home, Fields, Checkpoint, Goto
    <2>2. RebootAt' /\ EnrolledAt' /\ BootAt'
      BY <1>1, <1>2, <2>1 DEF RebootAt, RebootPlaces, EnrolledAt, BootAt
    <2>3. AtWork'
      BY <1>1, <2>1 DEF ReturnInv, AtWork, Cleared, serverVars, Active
    <2>4. OnTheWay' /\ Returned'
      BY <2>1 DEF OnTheWay, Away, Returned
    <2>5. KeyKnown'
      BY <2>1, KeyStays
    <2> QED
      BY <2>2, <2>3, <2>4, <2>5 DEF ReturnInv
  <1> QED
    BY <1>3, <1>4 DEF ApplyEnd


-----------------------------------------------------------------------------
(* Calls *)

\* The flush before check delivers the start of the step: the run is at work.
LEMMA StartedReturns ==
    ASSUME RunnerInv, MachineInv, ReturnInv, KeyKept, Flushing("step.started", "check")
    PROVE  ReturnInv'
PROOF
  <1>1. pc = "step.started" /\ Flush("check", Lost, Refused) /\ boot' = boot
    BY DEF Flushing
  <1>2. Home /\ disk.enrolled
    <2>1. pc \notin RebootPlaces \cup {"down", "cancel", "halt"} /\ pc \in Past
      BY <1>1 DEF RebootPlaces, Past, InStep, Before
    <2> QED
      BY <2>1, HomeAt DEF ReturnInv, EnrolledAt
  <1>3. /\ recorded < Len(disk.queue) /\ disk.queue[Len(disk.queue)].type = "step.started"
        /\ IInv /\ Typed /\ disk.queue # <<>>
    <2>1. recorded < Len(disk.queue) /\ disk.queue[Len(disk.queue)].type = "step.started"
      BY <1>1 DEF ReturnInv, AtWork
    <2>2. recorded \in 0..Len(disk.queue) /\ disk.queue \in Seq(Reports)
      BY DEF MachineInv, Typed, LocalState
    <2> QED
      BY <2>1, <2>2 DEF MachineInv
  <1>4. CASE Lost \/ Refused
    <2>1. Apart /\ pc' \in Exits
      BY <1>2, <1>4, StopApart
    <2> QED
      BY <2>1, ApartStep DEF Exits, Marks, RebootPlaces, Cleared, Past, InStep, Before, Decided, Behind
  <1>5. CASE StoreBatch /\ disk' = [disk EXCEPT !.queue = <<>>] /\ Goto("check")
    <2>1. run'[R].status = "running"
      BY <1>3, <1>5, StoredRow DEF Stored
    <2>2. Apart /\ pc' = "check"
      BY <1>2, <1>5, SameApart
    <2>3. RebootAt' /\ EnrolledAt' /\ BootAt' /\ AtWork' /\ OnTheWay' /\ Returned'
      BY <1>2, <2>1, <2>2 DEF Apart, RebootAt, RebootPlaces, EnrolledAt, BootAt, AtWork, OnTheWay,
                              Away, Returned
    <2>4. KeyKnown'
      BY <2>2, KeyStays DEF Apart
    <2> QED
      BY <2>3, <2>4 DEF ReturnInv
  <1> QED
    BY <1>1, <1>3, <1>4, <1>5 DEF Flush

LEMMA FlushesReturn ==
    ASSUME RunnerInv, MachineInv, ReturnInv, KeyKept, Flushes
    PROVE  ReturnInv'
PROOF
  <1> USE DEF RebootPlaces, Marks, Cleared, Past, InStep, Before, Decided, Behind
  <1>1. CASE Flushing("reboot.flushed", "begin.auth")
    BY <1>1, FlushingApart
  <1>2. CASE Flushing("manifest.flush", "loop")
    BY <1>2, FlushingApart
  <1>3. CASE Flushing("step.flush", "step.secrets")
    BY <1>3, FlushingApart
  <1>4. CASE Flushing("step.started", "check")
    BY <1>4, StartedReturns
  <1>5. CASE Flushing("review.flush", "review.lease")
    BY <1>5, FlushingApart
  <1>6. CASE Flushing("cancel.flush", "cancel.save")
    BY <1>6, FlushingApart
  <1>7. CASE Flushing("finish.flush", "finish.complete")
    BY <1>7, FlushingApart
  <1>8. CASE pc = "step.done" /\ Flush("step.next", NetworkFailure(disk, "step.next"), Refused)
    <2>1. Home
      BY <1>8, HomeAt
    <2>2. Apart /\ pc' \in Exits \cup {"step.next"}
      <3>1. NetworkFailure(disk, "step.next") \/ Refused => Apart /\ pc' \in Exits \cup {"step.next"}
        BY <2>1, FailureApart, StopApart
      <3> HIDE DEF RebootPlaces, Marks, Cleared, Past, InStep, Before, Decided, Behind
      <3> QED
        BY <1>8, <2>1, <3>1, FlushApart
    <2>3. disk.enrolled
      BY <1>8 DEF ReturnInv, EnrolledAt
    <2> QED
      BY <2>2, <2>3, ApartStep
  <1> QED
    BY <1>1, <1>2, <1>3, <1>4, <1>5, <1>6, <1>7, <1>8 DEF Flushes

\* How an authorization ends.
LEMMA AuthorizeEnds ==
    ASSUME DOMAIN disk = Fields, NEW at, NEW next, Authorize(at, next)
    PROVE  /\ pc = at /\ UNCHANGED <<boot, recorded>>
           /\ LeaseHandler(R) \/ UNCHANGED serverVars
           /\ \/ disk' = Leased /\ pc' \in {next, "cancel", "halt", "down"}
              \/ disk' = [disk EXCEPT !.netFailed = TRUE] /\ pc' = "down"
              \/ Apart /\ pc' \in Exits
PROOF
  <1>1. /\ pc = at /\ UNCHANGED <<boot, recorded>>
        /\ LeaseHandler(R) \/ UNCHANGED serverVars
    BY DEF Authorize, RenewLease
  <1>2. CASE disk' = Leased /\ Goto(AfterLease(next))
    BY <1>1, <1>2, AfterLeaseAt DEF Goto
  <1>3. CASE Lost
    <2>1. CASE disk' = [disk EXCEPT !.netFailed = TRUE] /\ Goto("down")
      BY <1>1, <2>1 DEF Goto
    <2>2. CASE Halt(disk)
      BY <1>1, <2>2, HaltApart
    <2> QED
      BY <1>3, <2>1, <2>2 DEF Lost, NetworkFailure
  <1>4. CASE Refused
    BY <1>1, <1>4, HaltApart DEF Refused
  <1> QED
    BY <1>2, <1>3, <1>4 DEF Authorize, RenewLease

LEMMA LeasesReturn ==
    ASSUME RunnerInv, MachineInv, ReturnInv, KeyKept, Leases
    PROVE  ReturnInv'
PROOF
  <1>1. PICK at, next : /\ Authorize(at, next)
                        /\ <<at, next>> \in {<<"begin.auth", "manifest">>, <<"step.auth", "step.flush">>,
                                             <<"apply.auth", "apply.start">>,
                                             <<"reboot.auth", "rebooting">>}
    BY DEF Leases
  <1>2. DOMAIN disk = Fields
    BY DEF RunnerInv, Shaped
  <1>3. /\ pc = at /\ UNCHANGED <<boot, recorded>>
        /\ LeaseHandler(R) \/ UNCHANGED serverVars
        /\ \/ disk' = Leased /\ pc' \in {next, "cancel", "halt", "down"}
           \/ disk' = [disk EXCEPT !.netFailed = TRUE] /\ pc' = "down"
           \/ Apart /\ pc' \in Exits
    BY <1>1, <1>2, AuthorizeEnds
  <1>4. CASE Apart /\ pc' \in Exits
    BY <1>4, ApartStep DEF Exits, Marks, RebootPlaces, Cleared, Past, InStep, Before, Decided, Behind
  <1>5. CASE /\ disk' \in {Leased, [disk EXCEPT !.netFailed = TRUE]}
             /\ pc' \in {next, "cancel", "halt", "down"}
    <2>1. \A f \in {"status", "queue", "rebootBoot", "enrolled"} : disk'[f] = disk[f]
      <3>1. CASE disk' = Leased
        BY <1>2, <3>1, LeasedFields
      <3>2. CASE disk' = [disk EXCEPT !.netFailed = TRUE]
        BY <1>2, <3>2 DEF Fields
      <3> QED
        BY <1>5, <3>1, <3>2
    <2>2. RowStands
      BY <1>3, RowKept DEF MachineInv
    <2>3. disk.enrolled /\ (at = "reboot.auth" <=> disk.status = "reboot_pending")
      BY <1>1, <1>3 DEF ReturnInv, EnrolledAt, RebootAt, RebootPlaces, Past, InStep, Before, Decided
    <2>4. \/ pc' \in {"cancel", "halt", "down"}
          \/ at = "apply.auth" /\ pc' = "apply.start"
          \/ at = "reboot.auth" /\ pc' = "rebooting"
          \/ at \in {"begin.auth", "step.auth"} /\ pc' \in {"manifest", "step.flush"}
      BY <1>1, <1>5
    <2>5. RebootAt'
      BY <2>1, <2>3, <2>4 DEF RebootAt, RebootPlaces
    <2>6. BootAt' /\ (Away' => Away)
      BY <1>3, <2>1, <2>3, <2>4 DEF BootAt, Away
    <2>7. /\ pc' \in Cleared => pc \in Cleared
          /\ pc' \notin {"bare", "step.started", "reboot.flushed"}
      BY <1>3, <2>4 DEF Cleared
    <2> QED
      BY <1>3, <2>1, <2>2, <2>3, <2>5, <2>6, <2>7, Moving
  <1> QED
    BY <1>3, <1>4, <1>5

-----------------------------------------------------------------------------
(* The planned reboot *)

LEMMA OneQueued ==
    ASSUME NEW x
    PROVE  <<x>> # <<>> /\ Len(<<x>>) = 1 /\ <<x>>[1] = x
PROOF
  OBVIOUS

LEMMA TwoQueued ==
    ASSUME NEW x, NEW y
    PROVE  /\ Len(<<x, y>>) = 2 /\ <<x, y>>[1] = x /\ <<x, y>>[2] = y
           /\ Append(<<x>>, y) = <<x, y>>
PROOF
  <1> DEFINE S == {x, y}
  <1>1. <<x>> \in Seq(S) /\ Len(<<x>>) = 1 /\ <<x>>[1] = x /\ x \in S /\ y \in S
    OBVIOUS
  <1>2. <<x, y>> \in Seq(S) /\ Len(<<x, y>>) = 2 /\ <<x, y>>[1] = x /\ <<x, y>>[2] = y
    OBVIOUS
  <1> HIDE DEF S
  <1>3. /\ Append(<<x>>, y) \in Seq(S)
        /\ Len(Append(<<x>>, y)) = 2
        /\ Append(<<x>>, y)[1] = x
        /\ Append(<<x>>, y)[2] = y
    BY <1>1, AppendProperties
  <1>4. ASSUME NEW q \in Seq(S), Len(q) = 2, q[1] = x, q[2] = y
        PROVE  q = <<x, y>>
    BY <1>4
  <1> QED
    BY <1>2, <1>3, <1>4
LEMMA RebootEventReturns ==
    ASSUME RunnerInv, MachineInv, ReturnInv, KeyKept, RebootEvent
    PROVE  ReturnInv'
PROOF
  <1> DEFINE e == Event("run.reboot_pending", 0, boot)
  <1>1. /\ pc = "reboot.event" /\ Report(disk, "run.reboot_pending", "reboot.flush")
        /\ UNCHANGED <<serverVars, boot, recorded>>
    BY DEF RebootEvent, netVars
  <1>2. /\ DOMAIN disk = Fields /\ disk.status = "reboot_pending" /\ disk.enrolled
        /\ disk.rebootBoot = boot /\ (Active(run[R]) => run[R].status = "running")
        /\ disk.queue = <<>> /\ recorded = 0
    <2>1. disk.queue = <<>> /\ recorded \in 0..Len(disk.queue)
      BY <1>1 DEF MachineInv, Typed, Cleared
    <2>2. recorded = 0
      BY <2>1
    <2> QED
      BY <1>1, <2>1, <2>2 DEF RunnerInv, Shaped, ReturnInv, RebootAt, RebootPlaces, EnrolledAt,
                              BootAt, AtWork, Cleared
  <1>3. CASE QueueFull(disk)
    <2>1. Apart /\ pc' \in Exits
      BY <1>1, <1>2, <1>3 DEF Report, Fields, Apart, Exits
    <2> QED
      BY <2>1, ApartStep DEF Exits, Marks, RebootPlaces, Cleared, Past, InStep, Before, Decided, Behind
  <1>4. CASE ~QueueFull(disk)
    <2>1. disk' = [disk EXCEPT !.queue = Append(@, e)] /\ pc' = "reboot.flush"
      BY <1>1, <1>4 DEF Report, Goto, StepOf, StepEvents, BootOf
    <2> HIDE DEF e
    <2>2. /\ disk'.status = "reboot_pending" /\ disk'.enrolled = disk.enrolled
          /\ disk'.rebootBoot = boot /\ disk'.queue = Append(<<>>, e)
      BY <1>2, <2>1 DEF Fields
    <2>3. disk'.queue = <<e>>
      BY <2>2
    <2>4. e = GoneEvent'
      BY <2>2 DEF e, GoneEvent
    <2>5. RebootAt' /\ EnrolledAt' /\ BootAt' /\ AtWork' /\ Returned'
      BY <1>2, <2>1, <2>2 DEF RebootAt, RebootPlaces, EnrolledAt, Past, InStep, Before, Decided,
                              Behind, BootAt, AtWork, Cleared, Returned
    <2>6. OnTheWay'
      BY <1>1, <1>2, <2>3, <2>4 DEF OnTheWay, Pending, serverVars, Active
    <2>7. KeyKnown'
      BY <2>2, KeyStays
    <2> QED
      BY <2>5, <2>6, <2>7 DEF ReturnInv
  <1> QED
    BY <1>3, <1>4


LEMMA RebootFlushReturns ==
    ASSUME RunnerInv, MachineInv, ReturnInv, KeyKept, RebootFlush
    PROVE  ReturnInv'
PROOF
  <1>1. /\ pc = "reboot.flush" /\ pc' = "reboot.auth" /\ boot' = boot
        /\ \/ UNCHANGED <<serverVars, disk, recorded>>
           \/ Stored /\ disk' = [disk EXCEPT !.queue = <<>>] /\ recorded' = 0
           \/ Stored /\ disk' = disk /\ recorded' = Len(disk.queue)
    BY DEF RebootFlush, Flush, Goto, netVars, Stored
  <1>2. /\ DOMAIN disk = Fields /\ disk.status = "reboot_pending" /\ disk.enrolled
        /\ IInv /\ Typed
    BY <1>1 DEF RunnerInv, Shaped, MachineInv, ReturnInv, RebootAt, RebootPlaces, EnrolledAt
  <1>3. /\ disk'.status = "reboot_pending" /\ disk'.enrolled = disk.enrolled
        /\ disk'.rebootBoot = disk.rebootBoot
    BY <1>1, <1>2 DEF Fields
  <1>4. RebootAt' /\ EnrolledAt' /\ BootAt' /\ AtWork' /\ Returned'
    BY <1>1, <1>2, <1>3 DEF RebootAt, RebootPlaces, EnrolledAt, BootAt, AtWork, Cleared, Returned
  <1>5. KeyKnown'
    BY <1>3, KeyStays
  <1>6. OnTheWay'
    <2> SUFFICES ASSUME Active(run'[R]) PROVE Pending' \/ Awaited'
      BY DEF OnTheWay
    <2>1. GoneEvent' = GoneEvent
      BY <1>3 DEF GoneEvent
    <2>2. CASE UNCHANGED <<serverVars, disk, recorded>>
      <3>1. run' = run /\ Active(run[R])
        BY <2>2 DEF serverVars
      <3>2. Pending \/ Awaited
        BY <1>1, <3>1 DEF ReturnInv, OnTheWay, Away
      <3> QED
        BY <2>1, <2>2, <3>1, <3>2 DEF Pending, Awaited
    <2>3. CASE Stored
      <3>1. Active(run[R])
        BY <1>2, <2>3, StoredEnds DEF Active
      <3>2. Pending \/ Awaited
        BY <1>1, <3>1 DEF ReturnInv, OnTheWay, Away
      <3>3. disk.queue = <<GoneEvent>> /\ Len(disk.queue) = 1 /\ disk.queue[1] = GoneEvent
        <4>1. disk.queue = <<GoneEvent>>
          BY <2>3, <3>2 DEF Stored, Pending, Awaited
        <4> QED
          BY <4>1, OneQueued
      <3>4. run'[R].status = "reboot_pending" /\ run'[R].boot = disk.rebootBoot
        <4>1. CASE Pending
          <5>1. run'[R] = AfterEvent(run[R], GoneEvent)
            <6>1. recorded + 1 = Len(disk.queue)
              BY <3>3, <4>1 DEF Pending
            <6> QED
              BY <1>2, <2>3, <3>3, <6>1, StoredRow
          <5>2. run[R] \in RunRow
            BY <1>2, MachineAssumption DEF IInv, ServerTypeOK
          <5>3. GoneEvent.type = "run.reboot_pending" /\ GoneEvent.boot = disk.rebootBoot
            BY DEF GoneEvent, Event
          <5> QED
            BY <5>1, <5>2, <5>3 DEF AfterEvent, StatusAfter, StepEvents, RunRow
        <4>2. CASE Awaited
          <5>1. recorded = Len(disk.queue)
            BY <2>3, <3>3, <4>2 DEF Awaited, Stored
          <5> QED
            BY <1>2, <2>3, <4>2, <5>1, StoredRow DEF Awaited
        <4> QED
          BY <3>2, <4>1, <4>2
      <3>5. \/ disk'.queue = <<>>
            \/ disk'.queue = <<GoneEvent>> /\ recorded' = 1
        <4>1. CASE disk' = [disk EXCEPT !.queue = <<>>]
          BY <1>2, <4>1 DEF Fields
        <4>2. CASE disk' = disk /\ recorded' = Len(disk.queue)
          BY <3>3, <4>2
        <4>3. CASE UNCHANGED <<serverVars, disk, recorded>>
          <5>1. recorded = 1
            <6>1. run'[R] = run[R]
              BY <4>3 DEF serverVars
            <6> QED
              BY <3>2, <3>3, <3>4, <6>1 DEF Pending, Awaited
          <5> QED
            BY <3>3, <4>3, <5>1
        <4> QED
          BY <1>1, <4>1, <4>2, <4>3
      <3> QED
        BY <1>3, <2>1, <3>4, <3>5 DEF Awaited
    <2> QED
      BY <1>1, <2>2, <2>3
  <1> QED
    BY <1>4, <1>5, <1>6 DEF ReturnInv

LEMMA RebootReturns ==
    ASSUME RunnerInv, MachineInv, ReturnInv, KeyKept, Reboot
    PROVE  ReturnInv'
PROOF
  <1>1. /\ pc = "rebooting" /\ pc' = "down" /\ UNCHANGED <<serverVars, disk, recorded>>
    BY DEF Reboot, netVars
  <1>2. RowStands
    BY <1>1, RowKept DEF MachineInv
  <1>3. RebootAt' /\ BootAt' /\ Away
    BY <1>1 DEF RebootAt, RebootPlaces, BootAt, Away
  <1>4. pc' \notin Past \cup Cleared \cup {"bare", "step.started", "reboot.flushed"}
    BY <1>1 DEF Past, InStep, Before, Decided, Behind, Cleared
  <1> QED
    BY <1>1, <1>2, <1>3, <1>4, Moving

LEMMA ReturnReturns ==
    ASSUME RunnerInv, MachineInv, ReturnInv, KeyKept, RebootReturn
    PROVE  ReturnInv'
PROOF
  <1>1. UNCHANGED <<serverVars, boot, recorded>> /\ DOMAIN disk = Fields
    BY DEF RebootReturn, netVars, RunnerInv, Shaped
  <1>2. CASE pc = "reboot.return"
    <2>1. /\ disk' = [disk EXCEPT !.status = "running"] /\ pc' = "reboot.resume"
          /\ disk.enrolled /\ disk.rebootBoot # boot
      BY <1>2 DEF RebootReturn, Goto, ReturnInv, RebootAt, RebootPlaces, EnrolledAt, BootAt
    <2>2. /\ disk'.queue = disk.queue /\ disk'.rebootBoot = disk.rebootBoot
          /\ disk'.enrolled = disk.enrolled /\ disk'.status = "running"
      BY <1>1, <2>1 DEF Fields
    <2>3. RowStands
      BY <1>1, RowKept DEF MachineInv
    <2>4. RebootAt' /\ BootAt' /\ Away
      BY <1>1, <1>2, <2>1, <2>2 DEF RebootAt, RebootPlaces, BootAt, Away
    <2>5. pc' \notin Cleared \cup {"bare", "step.started", "reboot.flushed"}
      BY <2>1 DEF Cleared
    <2> QED
      BY <1>1, <2>1, <2>2, <2>3, <2>4, <2>5, Moving
  <1>3. CASE pc = "reboot.resume"
    <2> DEFINE e == Event("run.resumed", 0, boot)
    <2>1. Report(disk, "run.resumed", "reboot.flushed")
      BY <1>3 DEF RebootReturn
    <2>2. Home /\ disk.enrolled /\ disk.rebootBoot # boot
      <3>1. Home
        BY <1>3, HomeAt DEF RebootPlaces
      <3> QED
        BY <1>3, <3>1 DEF ReturnInv, EnrolledAt, Past, BootAt
    <2>3. CASE QueueFull(disk)
      <3>1. Apart /\ pc' \in Exits
        BY <1>1, <2>1, <2>3 DEF Report, Fields, Apart, Exits
      <3> QED
        BY <3>1, ApartStep DEF Exits, Marks, RebootPlaces, Cleared, Past, InStep, Before, Decided,
                               Behind
    <2>4. CASE ~QueueFull(disk)
      <3>1. disk' = [disk EXCEPT !.queue = Append(@, e)] /\ pc' = "reboot.flushed"
        BY <2>1, <2>4 DEF Report, Goto, StepOf, StepEvents, BootOf
      <3> HIDE DEF e
      <3>2. /\ disk'.status = disk.status /\ disk'.enrolled = disk.enrolled
            /\ disk'.rebootBoot = disk.rebootBoot /\ disk'.queue = Append(disk.queue, e)
        BY <1>1, <3>1 DEF Fields
      <3>3. GoneEvent' = GoneEvent /\ BackEvent' = e
        BY <1>1, <3>2 DEF GoneEvent, BackEvent, e
      <3>4. RebootAt' /\ EnrolledAt' /\ BootAt' /\ AtWork' /\ OnTheWay'
        BY <2>2, <3>1, <3>2 DEF Home, RebootAt, RebootPlaces, EnrolledAt, BootAt, AtWork, Cleared,
                                OnTheWay, Away
      <3>5. KeyKnown'
        BY <3>2, KeyStays
      <3>6. Returned'
        <4> SUFFICES ASSUME Active(run'[R]) PROVE Returned'
          BY DEF Returned
        <4>1. run' = run
          BY <1>1 DEF serverVars
        <4>2. Pending \/ Awaited
          BY <1>3, <4>1 DEF ReturnInv, OnTheWay, Away
        <4>3. CASE Pending
          <5>1. disk'.queue = <<GoneEvent, e>>
            BY <3>2, <4>3, TwoQueued DEF Pending
          <5> QED
            BY <1>1, <2>2, <3>2, <3>3, <4>1, <4>3, <5>1 DEF Pending, Returned
        <4>4. CASE Awaited /\ disk.queue = <<>>
          <5>1. disk'.queue = <<e>>
            BY <3>2, <4>4
          <5>2. recorded = 0
            <6>1. recorded \in 0..Len(disk.queue)
              BY DEF MachineInv, Typed
            <6> QED
              BY <4>4, <6>1
          <5> QED
            BY <1>1, <2>2, <3>2, <3>3, <4>1, <4>4, <5>1, <5>2 DEF Awaited, Returned
        <4>5. CASE Awaited /\ disk.queue = <<GoneEvent>> /\ recorded = 1
          <5>1. disk'.queue = <<GoneEvent, e>>
            BY <3>2, <4>5, TwoQueued
          <5> QED
            BY <1>1, <2>2, <3>2, <3>3, <4>1, <4>5, <5>1 DEF Awaited, Returned
        <4> QED
          BY <4>2, <4>3, <4>4, <4>5 DEF Awaited
      <3> QED
        BY <3>4, <3>5, <3>6 DEF ReturnInv
    <2> QED
      BY <2>3, <2>4
  <1> QED
    BY <1>2, <1>3 DEF RebootReturn

LEMMA ReturnNext ==
    NoCrash /\ RunnerInv /\ MachineInv /\ ReturnInv /\ [Next]_vars => ReturnInv'
PROOF
  <1> SUFFICES ASSUME NoCrash, RunnerInv, MachineInv, ReturnInv, [Next]_vars PROVE ReturnInv'
    OBVIOUS
  <1>1. KeyKept
    <2>1. Kind
      BY NextKind DEF MachineInv
    <2> QED
      BY <2>1, KeyStep
  <1>2. ~Crash /\ ~PowerFail
    BY DEF NoCrash, Crash, PowerFail
  <1>3. CASE Runner
    <2>1. CASE Bootstrap \/ Start \/ EnrollCall \/ RebootReturn
      BY <1>1, <2>1, StartReturns, EnrollReturns, ReturnReturns
    <2>2. CASE Manifest \/ LoopStep \/ FetchSecrets \/ NextStep \/ Cancelled \/ FinishCall
      BY <1>1, <2>2, PlainReturns, EndReturns
    <2>3. CASE StepStart \/ CheckPhase \/ ApplyStart \/ ApplyEnd
      BY <1>1, <2>3, StepStartReturns, ApplyReturns, ApplyEndReturns
    <2>4. CASE RebootEvent \/ RebootFlush \/ Reboot
      BY <1>1, <2>4, RebootEventReturns, RebootFlushReturns, RebootReturns
    <2>5. CASE HaltStep \/ HaltFlush \/ ReviewLease \/ ReviewResume \/ ConfirmCancel \/ Flushes \/ Leases
      BY <1>1, <2>5, HaltReturns, FlushesReturn, LeasesReturn
    <2> QED
      BY <1>3, <2>1, <2>2, <2>3, <2>4, <2>5 DEF Runner
  <1>4. CASE Heartbeat \/ ServerSide \/ Time \/ UNCHANGED vars
    BY <1>1, <1>4, OthersReturn
  <1> QED
    BY <1>2, <1>3, <1>4 DEF Next

\* A batch goes on from a row with an event that is not refused.
LEMMA OneMore ==
    ASSUME NEW events, Len(events) \in Nat, NEW n \in 1..Len(events), NEW row,
           AppliedTo(events)[n - 1] = [ok |-> TRUE, row |-> row],
           EventOk(row, Blocked(R), events[n])
    PROVE  AppliedTo(events)[n] = [ok |-> TRUE, row |-> AfterEvent(row, events[n])]
PROOF
  <1> DEFINE before == AppliedTo(events)[n - 1]
             new == AppliedTo(events)[n]
  <1>1. new = IF before.ok /\ EventOk(before.row, Blocked(R), events[n])
              THEN [ok |-> TRUE, row |-> AfterEvent(before.row, events[n])]
              ELSE [ok |-> FALSE, row |-> run[R]]
    BY AppliedRows
  <1>2. before.ok /\ before.row = row
    OBVIOUS
  <1> HIDE DEF before, new
  <1>3. new = [ok |-> TRUE, row |-> AfterEvent(row, events[n])]
    BY <1>1, <1>2
  <1> QED
    BY <1>3 DEF new

LEMMA OneAccepted ==
    ASSUME NEW events, Len(events) = 1, EventOk(run[R], Blocked(R), events[1])
    PROVE  Applied(events).ok
PROOF
  <1>1. 1 \in 1..Len(events) /\ Len(events) \in Nat /\ 1 - 1 = 0
    OBVIOUS
  <1>2. AppliedTo(events)[1 - 1] = [ok |-> TRUE, row |-> run[R]]
    BY <1>1, AppliedRows
  <1>3. AppliedTo(events)[1] = [ok |-> TRUE, row |-> AfterEvent(run[R], events[1])]
    BY <1>1, <1>2, OneMore, Zenon
  <1> QED
    BY <1>3 DEF Applied

LEMMA TwoAccepted ==
    ASSUME NEW events, Len(events) = 2, EventOk(run[R], Blocked(R), events[1]),
           EventOk(AfterEvent(run[R], events[1]), Blocked(R), events[2])
    PROVE  Applied(events).ok
PROOF
  <1> DEFINE row == AfterEvent(run[R], events[1])
  <1>1. /\ 1 \in 1..Len(events) /\ 2 \in 1..Len(events) /\ Len(events) \in Nat
        /\ 1 - 1 = 0 /\ 2 - 1 = 1
    OBVIOUS
  <1>2. AppliedTo(events)[1 - 1] = [ok |-> TRUE, row |-> run[R]]
    BY <1>1, AppliedRows
  <1>3. AppliedTo(events)[1] = [ok |-> TRUE, row |-> row]
    BY <1>1, <1>2, OneMore, Zenon
  <1> HIDE DEF row
  <1>4. AppliedTo(events)[2 - 1] = [ok |-> TRUE, row |-> row] /\ EventOk(row, Blocked(R), events[2])
    BY <1>1, <1>3 DEF row
  <1>5. AppliedTo(events)[2] = [ok |-> TRUE, row |-> AfterEvent(row, events[2])]
    BY <1>1, <1>4, OneMore, Zenon
  <1> QED
    BY <1>5 DEF Applied

\* Both reports of a planned reboot fit the row: the budget leaves room for the first, and
\* the second comes from another kernel than the first.
LEMMA ReturnFits == MachineInv /\ ReturnInv => ReturnAccepted
PROOF
  <1> SUFFICES ASSUME MachineInv, ReturnInv, pc = "reboot.flushed", Active(run[R]) PROVE BatchOk
    BY DEF ReturnAccepted
  <1>1. Typed /\ IInv /\ RebootsInv /\ Returned
    BY DEF MachineInv, ReturnInv
  <1>2. DeviceOk(R, K)
    BY DEF ReturnInv, EnrolledAt, Past, KeyKnown, DeviceOk
  <1>3. run[R] \in RunRow /\ run[R].reboots \in Nat
    <2>1. run[R] \in RunRow
      BY <1>1, MachineAssumption DEF IInv, ServerTypeOK
    <2> QED
      BY <2>1 DEF RunRow
  <1>4. /\ GoneEvent.type = "run.reboot_pending" /\ GoneEvent.boot = disk.rebootBoot
        /\ BackEvent.type = "run.resumed" /\ BackEvent.boot = boot
    BY DEF GoneEvent, BackEvent, Event
  <1>5. boot # disk.rebootBoot
    BY <1>1 DEF Returned
  <1>6. ASSUME NEW row, row.status = "reboot_pending", row.boot = disk.rebootBoot
        PROVE  EventOk(row, Blocked(R), BackEvent)
    BY <1>4, <1>5, <1>6 DEF EventOk, Active, TERMINAL
  <1>7. CASE run[R].status = "running" /\ disk.queue = <<GoneEvent, BackEvent>> /\ recorded = 0
    <2>1. NewEvents = <<GoneEvent, BackEvent>>
      <3>1. disk.queue \in Seq(Reports) /\ recorded \in 0..Len(disk.queue) /\ Len(disk.queue) = 2
        BY <1>1, <1>7 DEF Typed, LocalState
      <3>2. /\ NewEvents \in Seq(Reports) /\ Len(NewEvents) = 2
            /\ \A i \in 1..2 : NewEvents[i] = disk.queue[i]
        BY <1>7, <3>1, NewEventsAre
      <3> QED
        BY <1>7, <3>2
    <2> DEFINE gone == AfterEvent(run[R], GoneEvent)
    <2>3. EventOk(run[R], Blocked(R), GoneEvent)
      <3>1. Announced
        BY <1>4, <1>7 DEF Announced
      <3>2. run[R].reboots < disk.rebootCount /\ disk.rebootCount \in 0..RebootBudget
        BY <1>1, <3>1 DEF RebootsInv, Typed, LocalState
      <3>3. run[R].reboots < RebootBudget
        BY <1>3, <3>2, StepsAssumption
      <3> QED
        BY <1>4, <1>7, <3>3 DEF EventOk, Active, TERMINAL
    <2>4. gone.status = "reboot_pending" /\ gone.boot = disk.rebootBoot
      BY <1>3, <1>4 DEF AfterEvent, StatusAfter, StepEvents, RunRow
    <2>5. EventOk(gone, Blocked(R), BackEvent)
      BY <1>6, <2>4
    <2>6. Len(NewEvents) = 2 /\ NewEvents[1] = GoneEvent /\ NewEvents[2] = BackEvent
      BY <2>1, TwoQueued
    <2>7. Applied(NewEvents).ok
      BY <2>3, <2>5, <2>6, TwoAccepted, Zenon
    <2> QED
      BY <1>2, <2>7 DEF BatchOk
  <1>8. CASE /\ run[R].status = "reboot_pending" /\ run[R].boot = disk.rebootBoot
             /\ \/ disk.queue = <<BackEvent>> /\ recorded = 0
                \/ disk.queue = <<GoneEvent, BackEvent>> /\ recorded = 1
    <2>1. Len(NewEvents) = 1 /\ NewEvents[1] = BackEvent
      <3>1. disk.queue \in Seq(Reports) /\ recorded \in 0..Len(disk.queue)
        BY <1>1 DEF Typed, LocalState
      <3>2. Len(disk.queue) = recorded + 1 /\ disk.queue[recorded + 1] = BackEvent
        <4>1. CASE disk.queue = <<BackEvent>> /\ recorded = 0
          <5>1. Len(disk.queue) = 1 /\ disk.queue[1] = BackEvent
            BY <4>1, OneQueued
          <5>2. recorded + 1 = 1
            BY <4>1
          <5> QED
            BY <5>1, <5>2
        <4>2. CASE disk.queue = <<GoneEvent, BackEvent>> /\ recorded = 1
          <5>1. Len(disk.queue) = 2 /\ disk.queue[2] = BackEvent
            BY <4>2, TwoQueued
          <5>2. recorded + 1 = 2
            BY <4>2
          <5> QED
            BY <5>1, <5>2
        <4> QED
          BY <1>8, <4>1, <4>2
      <3>3. /\ Len(NewEvents) = Len(disk.queue) - recorded
            /\ \A i \in 1..Len(NewEvents) : NewEvents[i] = disk.queue[recorded + i]
        BY <3>1, NewEventsAre
      <3>4. recorded \in Nat /\ Len(disk.queue) - recorded = 1
        BY <3>1, <3>2
      <3> QED
        BY <3>2, <3>3, <3>4
    <2>2. EventOk(run[R], Blocked(R), NewEvents[1])
      BY <1>6, <1>8, <2>1
    <2>3. Applied(NewEvents).ok
      BY <2>1, <2>2, OneAccepted
    <2> QED
      BY <1>2, <2>3 DEF BatchOk
  <1> QED
    BY <1>1, <1>7, <1>8 DEF Returned

\* A planned reboot continues the run: where neither the process is killed nor the power
\* fails, the server takes the report of the return, whether it heard of the reboot or not
\* (runner.py:477-491, 535-544, app.py:715-725).
THEOREM ReturnTaken ==
    ASSUME NoCrash
    PROVE  Spec => []ReturnAccepted
PROOF
  <1>1. Init => RunnerInv /\ MachineInv /\ ReturnInv
    BY RunnerInit, MachineInit, ReturnInit
  <1>2. RunnerInv /\ MachineInv /\ ReturnInv /\ [Next]_vars => (RunnerInv /\ MachineInv /\ ReturnInv)'
    BY RunnerNext, MachineNext, ReturnNext
  <1>3. RunnerInv /\ MachineInv /\ ReturnInv => ReturnAccepted
    BY ReturnFits
  <1> QED
    BY <1>1, <1>2, <1>3, PTL DEF Spec

-----------------------------------------------------------------------------
(* The review, where nothing crashes and the queue has room for the halt *)

\* Besides: no deadline of the network passes, and a halt finds room for its event behind
\* both reports of a planned reboot.
Undisturbed == NoCrash /\ "network" \notin Faults /\ MaxEvents >= 3

\* The places of the review, and the one that leads out of it, or of the work, when the run is
\* to be cancelled.
InReview == {"halt.event", "halt.flush", "review.flush", "review.lease", "review.resume",
             "gave.up", "cancel"}

\* The statuses in which the runner has given up its work.
Over == {"needs_review", "cancellation_pending", "cancelled"}

ReviewAt ==
    /\ disk.status = "needs_review" => pc \in InReview \cup {"down"}
    /\ pc \in InReview \ {"cancel"} => disk.status = "needs_review"

\* Behind a flush that has to be answered.
Emptied == {"step.secrets", "step.start", "review.lease", "review.resume"}

ShortQueue ==
    /\ disk.status \notin Over => Len(disk.queue) <= 2
    /\ Away => Len(disk.queue) <= 1
    /\ pc \in Emptied => disk.queue = <<>>

\* The events that put the run under review.
TellsHalt(e) == e.type = "run.needs_review" \/ (e.type = "step.failed" /\ e.step \in Required)

\* Before the runner halts no one else has put the run under review, nor is about to.
NotHalted ==
    disk.status \notin Over =>
        /\ run[R].status # "needs_review"
        /\ pc # "halt" => \A i \in 1..Len(disk.queue) : ~TellsHalt(disk.queue[i])

CancelSeen == disk.status = "cancellation_pending" /\ Active(run[R]) => run[R].cancel

\* The server has heard of the halt, and an operator has resumed the run since or will have to;
\* or it is the last that is queued for it; or it is about to be queued.
Heard ==
    /\ run[R].key = K /\ recorded = Len(disk.queue) /\ pc # "halt.event"
    /\ resumed \/ run[R].status = "needs_review"
Unheard ==
    /\ ~resumed /\ run[R].status # "needs_review" /\ recorded < Len(disk.queue)
    /\ disk.queue[Len(disk.queue)].type = "run.needs_review"
Halting ==
    /\ ~resumed /\ run[R].status # "needs_review"
    /\ pc = "halt.event" /\ Len(disk.queue) <= 2

HaltTold ==
    disk.status = "needs_review" /\ Active(run[R]) /\ ~run[R].cancel => Heard \/ Unheard \/ Halting

\* What the answer to a lease request told the runner stays so until it acts on it.
Turning ==
    /\ pc = "cancel" => Len(disk.queue) <= 2 /\ (Active(run[R]) => run[R].cancel)
    /\ pc = "review.resume" => resumed /\ run[R].status # "needs_review"

ReviewInv == ReviewAt /\ ShortQueue /\ NotHalted /\ CancelSeen /\ HaltTold /\ Turning

LEMMA ReviewInit == Init => ReviewInv
PROOF
  <1> SUFFICES ASSUME Init PROVE ReviewInv
    OBVIOUS
  <1>1. pc = "bare" /\ disk.status = "pending" /\ disk.queue = <<>>
    BY DEF Init
  <1>2. run[R].status = "absent"
    <2>1. run[R] = AbsentRow
      BY MachineAssumption DEF Init, ServerInit
    <2> QED
      BY <2>1 DEF AbsentRow
  <1> QED
    BY <1>1, <1>2 DEF ReviewInv, ReviewAt, InReview, ShortQueue, Away, Emptied, NotHalted, CancelSeen,
                      HaltTold, Turning

\* What the server does beside batches to the row of a run under review: only an operator
\* resumes it.
GoesOn ==
    /\ run'[R].status = "needs_review" => run[R].status = "needs_review"
    /\ Active(run'[R]) /\ run[R].status # "absent" =>
          /\ Active(run[R])
          /\ run'[R].key = run[R].key /\ (run[R].cancel => run'[R].cancel)
          /\ run[R].status = "needs_review" => run'[R].status = "needs_review" \/ ResumeRun(R)

LEMMA RowGoesOn ==
    ASSUME IInv, Beside \/ LeaseHandler(R) \/ UNCHANGED serverVars
    PROVE  GoesOn
PROOF
  <1>1. R \in Runs
    BY MachineAssumption
  <1>2. run[R] \in RunRow /\ run \in [Runs -> RunRow] /\ ServerTypeOK
    BY <1>1 DEF IInv, ServerTypeOK
  <1>3. \A row : run' = [run EXCEPT ![R] = row] => run'[R] = row
    BY <1>1, <1>2
  <1>4. CASE Tick \/ (\E h \in Hosts : UpdateHost(h)) \/ UNCHANGED serverVars
    BY <1>4 DEF Tick, UpdateHost, serverVars, GoesOn
  <1>5. ASSUME NEW h \in Hosts, Approve(h, R) PROVE GoesOn
    <2>1. run'[R] = ApprovedRow(h) /\ run[R].status = "absent"
      BY <1>3, <1>5 DEF Approve, SetRun
    <2>2. ApprovedRow(h).status = "prepared"
      BY DEF ApprovedRow, AbsentRow
    <2> QED
      BY <2>1, <2>2 DEF GoesOn
  <1>6. CASE CancelRun(R)
    <2>1. Active(run[R]) /\ run'[R] = CancelledByOperator(run[R])
      BY <1>3, <1>6 DEF CancelRun, SetRun
    <2>2. /\ run'[R].key = run[R].key /\ run'[R].cancel = TRUE
          /\ run'[R].status = IF run[R].status = "prepared" THEN "cancelled" ELSE run[R].status
      BY <1>2, <2>1 DEF CancelledByOperator, RunRow
    <2> QED
      BY <2>1, <2>2 DEF GoesOn
  <1>7. CASE ResumeRun(R)
    <2>1. /\ run[R].status = "needs_review" /\ ~run[R].cancel
          /\ run'[R] = [run[R] EXCEPT !.status = "runner_ready", !.version = @ + 1]
      BY <1>3, <1>7 DEF ResumeRun, SetRun
    <2>2. run'[R].key = run[R].key /\ run'[R].status = "runner_ready"
      BY <1>2, <2>1 DEF RunRow
    <2> QED
      BY <1>7, <2>1, <2>2 DEF GoesOn, Active, TERMINAL
  <1>8. CASE ReconcileRun(R)
    <2>1. run'[R].status = "cancelled"
      BY <1>1, <1>2, <1>8, ReconciledRow
    <2> QED
      BY <2>1 DEF GoesOn, Active, TERMINAL
  <1>9. CASE ServeAnswer(R)
    <2>1. /\ run[R].status = "prepared" /\ ~run[R].cancel
          /\ run'[R] = [run[R] EXCEPT !.status = "answer_served", !.version = @ + 1,
                                !.hashes = TRUE, !.approval = "consumed",
                                !.answerUntil = now + AnswerWindow,
                                !.enrollUntil = now + EnrollTime]
      BY <1>3, <1>9 DEF ServeAnswer, AnswerDue, ApprovalOpen, SetRun
    <2>2. run'[R].key = run[R].key /\ run'[R].status = "answer_served"
      BY <1>2, <2>1 DEF RunRow
    <2> QED
      BY <2>1, <2>2 DEF GoesOn, Active, TERMINAL
  <1>10. CASE InstallerReport(R)
    <2>1. /\ run[R].status = "answer_served"
          /\ run'[R] = [run[R] EXCEPT !.status = "installed_reported", !.version = @ + 1]
      BY <1>3, <1>10 DEF InstallerReport, SetRun
    <2>2. /\ run'[R].key = run[R].key /\ run'[R].status = "installed_reported"
          /\ run'[R].cancel = run[R].cancel
      BY <1>2, <2>1 DEF RunRow
    <2> QED
      BY <2>1, <2>2 DEF GoesOn, Active, TERMINAL
  <1>11. CASE Maintain
    <2>1. run'[R] = IF Expired(run[R]) THEN ExpiredRow(run[R]) ELSE run[R]
      BY <1>1, <1>11 DEF Maintain
    <2>2. ExpiredRow(run[R]).status = "expired"
      BY <1>2 DEF ExpiredRow, RunRow
    <2> QED
      BY <2>1, <2>2 DEF GoesOn, Active, TERMINAL
  <1>12. CASE LeaseHandler(R)
    <2>1. run'[R] = [run[R] EXCEPT !.leaseUntil = LeaseGranted(R)]
      BY <1>3, <1>12 DEF LeaseHandler, SetRun
    <2>2. /\ run'[R].key = run[R].key /\ run'[R].status = run[R].status
          /\ run'[R].cancel = run[R].cancel
      BY <1>2, <2>1 DEF RunRow
    <2> QED
      BY <2>2 DEF GoesOn, Active
  <1> QED
    BY <1>4, <1>5, <1>6, <1>7, <1>8, <1>9, <1>10, <1>11, <1>12 DEF Beside

\* A run comes under review with a batch only by an event that says so, and one that ends
\* with such an event leaves it there.
LEMMA BatchHalts ==
    ASSUME IInv, R \in Runs, NEW events \in Seq(Reports), Applied(events).ok,
           run[R].status # "prepared"
    PROVE  /\ Applied(events).row.cancel = run[R].cancel
           /\ Applied(events).row.status = "needs_review"
                => \/ run[R].status = "needs_review"
                   \/ \E i \in 1..Len(events) : TellsHalt(events[i])
           /\ events # <<>> /\ events[Len(events)].type = "run.needs_review"
                => Applied(events).row.status = "needs_review"
PROOF
  <1> DEFINE N == Len(events)
             Row(n) == AppliedTo(events)[n].row
             Told == \E i \in 1..N : TellsHalt(events[i])
             Fits3(row) == /\ row.cancel = run[R].cancel
                           /\ row.status = "needs_review" => run[R].status = "needs_review" \/ Told
             S == {n \in 0..N : Fits3(Row(n))}
  <1>1. N \in Nat /\ Row(0) = run[R] /\ (events # <<>> <=> N > 0)
    BY AppliedRows
  <1>2. ASSUME NEW n \in 1..N
        PROVE  /\ Row(n).cancel = Row(n - 1).cancel
               /\ Row(n).status = "needs_review"
                    => Row(n - 1).status = "needs_review" \/ TellsHalt(events[n])
               /\ events[n].type = "run.needs_review" => Row(n).status = "needs_review"
    <2> DEFINE before == Row(n - 1)
               e == events[n]
    <2>1. Row(n) = AfterEvent(before, e)
      BY <1>1, BatchAccepted
    <2>2. before \in RunRow
      BY BatchRows
    <2>3. e.type \in EventTypes \ {"heartbeat"}
      BY DEF Reports
    <2> HIDE DEF before, e, Row
    <2>4. /\ AfterEvent(before, e).cancel = before.cancel
          /\ AfterEvent(before, e).status = StatusAfter(before, e)
      BY <2>2, <2>3 DEF AfterEvent, StepEvents, RunRow
    <2>5. /\ StatusAfter(before, e) = "needs_review"
               => before.status = "needs_review" \/ TellsHalt(e)
          /\ e.type = "run.needs_review" => StatusAfter(before, e) = "needs_review"
      BY <2>3 DEF StatusAfter, TellsHalt, EventTypes
    <2> QED
      BY <2>1, <2>4, <2>5 DEF before, e
  <1> HIDE DEF Row
  <1>3. 0 \in S
    BY <1>1
  <1>4. ASSUME NEW n \in 1..N, n - 1 \in S PROVE n \in S
    <2>1. Fits3(Row(n - 1))
      BY <1>4
    <2>2. Fits3(Row(n))
      BY <1>2, <2>1
    <2> QED
      BY <2>2
  <1> HIDE DEF S
  <1>5. \A n \in 0..N : n \in S
    BY <1>1, <1>3, <1>4, UpTo
  <1>6. Fits3(Row(N))
    BY <1>1, <1>5 DEF S
  <1>7. Row(N) = Applied(events).row
    BY DEF Row, Applied
  <1>8. events # <<>> => N \in 1..N
    BY <1>1
  <1> QED
    BY <1>2, <1>6, <1>7, <1>8

LEMMA StoredReview ==
    ASSUME IInv, Typed, Stored
    PROVE  /\ run'[R].cancel = run[R].cancel /\ run'[R].key = K /\ run[R].key = K
           /\ Active(run'[R]) => Active(run[R])
           /\ run'[R].status = "needs_review"
                => \/ run[R].status = "needs_review"
                   \/ \E i \in 1..Len(disk.queue) : TellsHalt(disk.queue[i])
           /\ recorded < Len(disk.queue) /\ disk.queue[Len(disk.queue)].type = "run.needs_review"
                => run'[R].status = "needs_review"
           /\ recorded = Len(disk.queue) => run'[R] = run[R]
PROOF
  <1>1. disk.queue \in Seq(Reports) /\ recorded \in 0..Len(disk.queue) /\ R \in Runs
    BY MachineAssumption DEF Typed, LocalState
  <1>2. /\ run[R].status \notin {"absent", "prepared"} /\ Applied(NewEvents).ok
        /\ run'[R] = Applied(NewEvents).row
    BY <1>1, StoreBatchStep DEF Stored
  <1>3. /\ NewEvents \in Seq(Reports) /\ Len(NewEvents) = Len(disk.queue) - recorded
        /\ \A i \in 1..Len(NewEvents) : NewEvents[i] = disk.queue[recorded + i]
        /\ NewEvents = <<>> <=> recorded = Len(disk.queue)
    BY <1>1, NewEventsAre
  <1>4. /\ Applied(NewEvents).row.cancel = run[R].cancel
        /\ Applied(NewEvents).row.status = "needs_review"
             => \/ run[R].status = "needs_review"
                \/ \E i \in 1..Len(NewEvents) : TellsHalt(NewEvents[i])
        /\ NewEvents # <<>> /\ NewEvents[Len(NewEvents)].type = "run.needs_review"
             => Applied(NewEvents).row.status = "needs_review"
    BY <1>1, <1>2, <1>3, BatchHalts, Zenon
  <1>5. run[R].key = K
    BY DEF Stored, StoreBatch, BatchOk, DeviceOk, RetryOk
  <1>6. /\ run'[R].key = run[R].key
        /\ recorded = Len(disk.queue) => run'[R] = run[R]
    BY StoredRow
  <1>7. Active(run'[R]) => Active(run[R])
    <2>1. run[R].status \in TERMINAL => run'[R] = run[R]
      BY StoredEnds
    <2> QED
      BY <1>2, <2>1 DEF Active
  <1>8. ASSUME NEW i \in 1..Len(NewEvents), TellsHalt(NewEvents[i])
        PROVE  \E j \in 1..Len(disk.queue) : TellsHalt(disk.queue[j])
    <2>1. recorded + i \in 1..Len(disk.queue)
      BY <1>1, <1>3
    <2>2. TellsHalt(disk.queue[recorded + i])
      BY <1>3, <1>8
    <2> QED
      BY <2>1, <2>2
  <1>9. recorded < Len(disk.queue) =>
            NewEvents # <<>> /\ NewEvents[Len(NewEvents)] = disk.queue[Len(disk.queue)]
    <2> SUFFICES ASSUME recorded < Len(disk.queue)
                 PROVE  NewEvents # <<>> /\ NewEvents[Len(NewEvents)] = disk.queue[Len(disk.queue)]
      OBVIOUS
    <2>1. Len(NewEvents) \in 1..Len(NewEvents) /\ recorded + Len(NewEvents) = Len(disk.queue)
      BY <1>1, <1>3
    <2>2. recorded # Len(disk.queue)
      BY <1>1
    <2> QED
      BY <1>3, <2>1, <2>2
  <1>10. run'[R].status = "needs_review"
           => \/ run[R].status = "needs_review"
              \/ \E i \in 1..Len(disk.queue) : TellsHalt(disk.queue[i])
    BY <1>2, <1>4, <1>8
  <1>11. recorded < Len(disk.queue) /\ disk.queue[Len(disk.queue)].type = "run.needs_review"
           => run'[R].status = "needs_review"
    BY <1>2, <1>4, <1>9
  <1> QED
    BY <1>2, <1>4, <1>5, <1>6, <1>7, <1>10, <1>11

-----------------------------------------------------------------------------
(* What steps do to the review *)

\* A step after which the runner is at work.
LEMMA AtWorkReview ==
    ASSUME disk'.status \notin Over, pc' \notin InReview, Len(disk'.queue) <= 2,
           Away' => Len(disk'.queue) <= 1, pc' \in Emptied => disk'.queue = <<>>,
           run'[R].status # "needs_review",
           pc' # "halt" => \A i \in 1..Len(disk'.queue) : ~TellsHalt(disk'.queue[i])
    PROVE  ReviewInv'
PROOF
  <1>1. ReviewAt' /\ NotHalted' /\ CancelSeen' /\ HaltTold' /\ Turning'
    BY DEF ReviewAt, InReview, NotHalted, CancelSeen, HaltTold, Turning, Over
  <1>2. ShortQueue'
    BY DEF ShortQueue
  <1> QED
    BY <1>1, <1>2 DEF ReviewInv

\* A step that only moves on, or one whose flush empties the queue.
LEMMA Passing ==
    ASSUME ReviewInv, disk.status \notin Over, pc # "halt", disk'.status \notin Over,
           pc' \notin InReview, disk'.queue \in {disk.queue, <<>>},
           run'[R].status = "needs_review" => run[R].status = "needs_review",
           Away' => Away \/ disk'.queue = <<>>, pc' \in Emptied => disk'.queue = <<>>
    PROVE  ReviewInv'
PROOF
  <1>1. /\ Len(disk.queue) <= 2 /\ (Away => Len(disk.queue) <= 1)
        /\ run[R].status # "needs_review"
        /\ \A i \in 1..Len(disk.queue) : ~TellsHalt(disk.queue[i])
    BY DEF ReviewInv, ShortQueue, NotHalted
  <1>2. Len(<<>>) = 0
    OBVIOUS
  <1>3. CASE disk'.queue = <<>>
    BY <1>1, <1>2, <1>3, AtWorkReview
  <1>4. CASE disk'.queue = disk.queue
    <2>1. Len(disk'.queue) <= 2 /\ (Away' => Len(disk'.queue) <= 1)
      BY <1>1, <1>2, <1>4
    <2>2. \A i \in 1..Len(disk'.queue) : ~TellsHalt(disk'.queue[i])
      BY <1>1, <1>4
    <2> QED
      BY <1>1, <2>1, <2>2, AtWorkReview
  <1> QED
    BY <1>3, <1>4

\* A step that leaves the process and the queue where they are.
LEMMA Waiting ==
    ASSUME MachineInv, ReviewInv, GoesOn, UNCHANGED <<pc, recorded>>,
           disk'.status = disk.status, disk'.queue = disk.queue,
           IF ResumeRun(R) THEN resumed' = TRUE ELSE resumed' = resumed
    PROVE  ReviewInv'
PROOF
  <1>1. /\ disk.status \in {"needs_review", "cancellation_pending"} => pc # "bare"
        /\ run[R].status = "absent" => pc = "bare"
    BY DEF MachineInv, Untouched, Typed, Stopping, ReviewInv, ReviewAt, InReview
  <1>2. ReviewAt' /\ ShortQueue'
    BY DEF ReviewInv, ReviewAt, ShortQueue, Away
  <1>3. Turning'
    <2>1. CASE pc = "cancel"
      BY <1>1, <2>1 DEF ReviewInv, Turning, GoesOn
    <2>2. CASE pc = "review.resume"
      BY <2>2 DEF ReviewInv, Turning, GoesOn
    <2> QED
      BY <2>1, <2>2 DEF Turning
  <1>4. NotHalted'
    BY DEF ReviewInv, NotHalted, GoesOn
  <1>5. CancelSeen'
    BY <1>1 DEF ReviewInv, CancelSeen, GoesOn
  <1>6. HaltTold'
    <2> SUFFICES ASSUME disk.status = "needs_review", Active(run'[R]), ~run'[R].cancel
                 PROVE  Heard' \/ Unheard' \/ Halting'
      BY DEF HaltTold
    <2>1. /\ Active(run[R]) /\ ~run[R].cancel /\ run'[R].key = run[R].key
          /\ run[R].status = "needs_review" => run'[R].status = "needs_review" \/ ResumeRun(R)
      BY <1>1 DEF GoesOn
    <2>2. Heard \/ Unheard \/ Halting
      BY <2>1 DEF ReviewInv, HaltTold
    <2>3. CASE Heard
      BY <2>1, <2>3 DEF Heard
    <2>4. CASE Unheard \/ Halting
      <3>1. ~ResumeRun(R) /\ run'[R].status # "needs_review"
        BY <2>4 DEF Unheard, Halting, ResumeRun, GoesOn
      <3> QED
        BY <2>4, <3>1 DEF Unheard, Halting
    <2> QED
      BY <2>2, <2>3, <2>4
  <1> QED
    BY <1>2, <1>3, <1>4, <1>5, <1>6 DEF ReviewInv

\* A step from one place of the review to another, none of them the second save of halt().
LEMMA Reviewing ==
    ASSUME MachineInv, ReviewInv, GoesOn, ~ResumeRun(R), UNCHANGED <<recorded, resumed>>,
           disk.status = "needs_review", disk'.status = "needs_review",
           disk'.queue = disk.queue, pc \notin {"halt.event", "cancel"},
           pc' \in {"down", "halt.flush", "review.flush", "review.lease", "gave.up"},
           pc' = "review.lease" => disk.queue = <<>>
    PROVE  ReviewInv'
PROOF
  <1>1. run[R].status # "absent"
    BY DEF MachineInv, Untouched, ReviewInv, ReviewAt, InReview
  <1>2. ReviewAt' /\ ShortQueue' /\ NotHalted' /\ CancelSeen' /\ Turning'
    BY DEF ReviewAt, InReview, ShortQueue, Away, Emptied, NotHalted, Over, CancelSeen, Turning
  <1>3. HaltTold'
    <2> SUFFICES ASSUME Active(run'[R]), ~run'[R].cancel PROVE Heard' \/ Unheard'
      BY DEF HaltTold
    <2>1. /\ Active(run[R]) /\ ~run[R].cancel /\ run'[R].key = run[R].key
          /\ run[R].status = "needs_review" => run'[R].status = "needs_review"
      BY <1>1 DEF GoesOn
    <2>2. Heard \/ Unheard
      BY <2>1 DEF ReviewInv, HaltTold, Halting
    <2> QED
      BY <2>1, <2>2 DEF Heard, Unheard, GoesOn
  <1> QED
    BY <1>2, <1>3 DEF ReviewInv

\* The runner halts outside the review: what it tells of it fits into the queue.
LEMMA HaltsAt ==
    ASSUME MachineInv, ReviewInv, GoesOn, pc # "bare", recorded' = recorded,
           disk.status \notin {"needs_review", "cancelled"},
           NEW d, DOMAIN d = Fields, d.queue = disk.queue, Halt(d)
    PROVE  ReviewInv'
PROOF
  <1>1. /\ disk'.status = "needs_review" /\ disk'.queue = disk.queue
        /\ pc' = "halt.event" /\ resumed' = FALSE
    BY DEF Halt, Fields
  <1>2. ReviewAt' /\ ShortQueue' /\ NotHalted' /\ CancelSeen' /\ Turning'
    BY <1>1 DEF ReviewAt, InReview, ShortQueue, Away, Emptied, NotHalted, Over, CancelSeen,
                Turning
  <1>3. HaltTold'
    <2> SUFFICES ASSUME Active(run'[R]), ~run'[R].cancel PROVE Halting'
      BY DEF HaltTold
    <2>1. Active(run[R]) /\ ~run[R].cancel
      BY DEF MachineInv, Untouched, GoesOn
    <2>2. disk.status \notin Over
      BY <2>1 DEF Over, ReviewInv, CancelSeen
    <2>3. Len(disk.queue) <= 2 /\ run[R].status # "needs_review"
      BY <2>2 DEF ReviewInv, ShortQueue, NotHalted
    <2> QED
      BY <1>1, <2>3 DEF Halting, GoesOn
  <1> QED
    BY <1>2, <1>3 DEF ReviewInv

\* The runner is about to confirm a cancellation it has been told of, or has confirmed it.
LEMMA Cancelling ==
    ASSUME disk'.status \in {"cancellation_pending", "cancelled"},
           pc' \notin InReview \cup Emptied, ~Away', Active(run'[R]) => run'[R].cancel
    PROVE  ReviewInv'
PROOF
  BY DEF ReviewInv, ReviewAt, InReview, ShortQueue, NotHalted, Over, CancelSeen, HaltTold, Turning

\* Without the deadline of the network a lost call ends the process and no more.
LEMMA LostDown ==
    ASSUME Undisturbed, DOMAIN disk = Fields, NEW next, NetworkFailure(disk, next)
    PROVE  /\ disk'.status = disk.status /\ disk'.queue = disk.queue
           /\ pc' = next /\ resumed' = resumed
PROOF
  BY DEF Undisturbed, NetworkFailure, Goto, Fields

\* event() with room in the queue.
LEMMA Reporting ==
    ASSUME NEW d, DOMAIN d = Fields, NEW type, NEW next, Report(d, type, next), ~QueueFull(d)
    PROVE  /\ disk'.status = d.status /\ pc' = next /\ resumed' = resumed
           /\ disk'.queue = Append(d.queue, Event(type, StepOf(type), BootOf(type)))
PROOF
  BY DEF Report, Goto, Fields

\* The first event in an empty queue.
LEMMA FirstReport ==
    ASSUME Undisturbed, NEW d, DOMAIN d = Fields, d.queue = <<>>, d.status \notin Over,
           NEW type, NEW next, Report(d, type, next), next \notin InReview \cup Emptied,
           run'[R].status # "needs_review",
           next = "halt" \/ ~TellsHalt(Event(type, StepOf(type), BootOf(type)))
    PROVE  ReviewInv' /\ resumed' = resumed
PROOF
  <1> DEFINE e == Event(type, StepOf(type), BootOf(type))
  <1>1. ~QueueFull(d)
    <2>1. Len(d.queue) = 0
      OBVIOUS
    <2> QED
      BY <2>1, MachineAssumption DEF QueueFull, Undisturbed
  <1>2. /\ disk'.status = d.status /\ pc' = next /\ resumed' = resumed
        /\ disk'.queue = Append(d.queue, e)
    BY <1>1, Reporting
  <1> HIDE DEF e
  <1>3. disk'.queue = <<e>>
    BY <1>2
  <1>4. Len(disk'.queue) = 1 /\ disk'.queue[1] = e
    BY <1>3, OneQueued
  <1>5. next # "halt" => \A i \in 1..Len(disk'.queue) : ~TellsHalt(disk'.queue[i])
    BY <1>4 DEF e
  <1>6. Len(disk'.queue) <= 2 /\ Len(disk'.queue) <= 1
    BY <1>4
  <1> QED
    BY <1>2, <1>5, <1>6, AtWorkReview

\* cancel(): the queue has room for the confirmation.
LEMMA CancelReview ==
    ASSUME Undisturbed, MachineInv, DOMAIN disk = Fields, Len(disk.queue) <= 2, Cancel(disk),
           Active(run'[R]) => run'[R].cancel
    PROVE  ReviewInv' /\ disk'.status = "cancellation_pending"
PROOF
  <1> DEFINE d == [disk EXCEPT !.status = "cancellation_pending"]
  <1>1. DOMAIN d = Fields /\ d.queue = disk.queue /\ d.status = "cancellation_pending"
    BY DEF Fields
  <1>2. Report(d, "run.cancelled", "cancel.flush")
    BY DEF Cancel
  <1> HIDE DEF d
  <1>3. ~QueueFull(d)
    <2>1. Len(disk.queue) \in Nat
      BY DEF MachineInv, Typed, LocalState
    <2> QED
      BY <1>1, <2>1, MachineAssumption DEF QueueFull, Undisturbed
  <1>4. disk'.status = "cancellation_pending" /\ pc' = "cancel.flush"
    BY <1>1, <1>2, <1>3, Reporting
  <1> QED
    BY <1>4, Cancelling DEF InReview, Emptied, Away

-----------------------------------------------------------------------------
(* Steps of a runner at work, and the review *)

\* What the invariants say together.
Together == RunnerInv /\ MachineInv /\ ReturnInv /\ ReviewInv

\* At work, and not on the way of a planned reboot.
Busy ==
    pc \notin RebootPlaces \cup InReview
                \cup {"reboot.resume", "down", "cancel.flush", "cancel.save", "off", "bare", "halt"}

LEMMA BusyAt ==
    ASSUME Together, Busy
    PROVE  Home /\ disk.status \notin Over /\ pc \notin {"halt", "bare"} /\ ~Away
PROOF
  <1>1. Home
    BY HomeAt DEF Together, Busy, InReview
  <1>2. disk.status \notin Over
    BY DEF Together, Busy, ReviewInv, ReviewAt, MachineInv, Typed, Stopping, Over
  <1>3. ~Away
    BY <1>1 DEF Away, Home, Busy, RebootPlaces
  <1> QED
    BY <1>1, <1>2, <1>3 DEF Busy

\* The server's side of a step without a batch.
LEMMA Unheeded ==
    ASSUME Together, LeaseHandler(R) \/ UNCHANGED serverVars
    PROVE  GoesOn
PROOF
  BY RowGoesOn DEF Together, MachineInv

\* The process goes on within its work, with or without a lease.
LEMMA BusyStep ==
    ASSUME Together, Busy, disk'.status \notin Over \cup {"reboot_pending"},
           disk'.queue \in {disk.queue, <<>>}, pc' \notin InReview \cup RebootPlaces \cup {"reboot.resume"},
           run'[R].status = "needs_review" => run[R].status = "needs_review",
           pc' \in Emptied => disk'.queue = <<>>
    PROVE  ReviewInv'
PROOF
  <1>1. disk.status \notin Over /\ pc # "halt"
    BY BusyAt
  <1>2. ~Away'
    BY DEF Away, RebootPlaces
  <1> QED
    BY <1>1, <1>2, Passing DEF Together

LEMMA BusyHalt ==
    ASSUME Together, Busy \/ pc \in {"cancel.flush", "halt", "reboot.auth"}, recorded' = recorded,
           LeaseHandler(R) \/ UNCHANGED serverVars, Halt(disk)
    PROVE  ReviewInv'
PROOF
  <1>1. GoesOn
    BY Unheeded
  <1>2. DOMAIN disk = Fields
    BY DEF Together, RunnerInv, Shaped
  <1>3. disk.status \notin {"needs_review", "cancelled"} /\ pc # "bare"
    <2>1. CASE Busy
      BY <2>1, BusyAt DEF Over
    <2>2. CASE pc \in {"cancel.flush", "halt", "reboot.auth"}
      BY <2>2 DEF Together, ReviewInv, ReviewAt, InReview, MachineInv, Typed, Stopping
    <2> QED
      BY <2>1, <2>2
  <1> QED
    BY <1>1, <1>2, <1>3, HaltsAt DEF Together

\* A call that is lost or refused.
LEMMA CallReview ==
    ASSUME Undisturbed, Together, Busy, recorded' = recorded,
           NEW Ok, NEW Handler, NEW Answered, Call(Ok, Handler, Answered), ~Answered,
           run'[R].status = "needs_review" => run[R].status = "needs_review"
    PROVE  ReviewInv'
PROOF
  <1>1. Home /\ disk.status \notin Over
    BY BusyAt
  <1>2. CASE Lost
    <2>1. disk'.status = disk.status /\ disk'.queue = disk.queue /\ pc' = "down"
      BY <1>1, <1>2, LostDown DEF Lost, Home
    <2> QED
      BY <1>1, <2>1, BusyStep DEF Home, InReview, RebootPlaces, Emptied
  <1>3. CASE Refused /\ UNCHANGED serverVars
    BY <1>3, BusyHalt DEF Refused
  <1> QED
    BY <1>2, <1>3 DEF Call

\* A batch of a runner at work does not put its run under review.
LEMMA StoredBusy ==
    ASSUME Together, disk.status \notin Over, pc # "halt", Stored
    PROVE  run'[R].status # "needs_review"
PROOF
  <1>1. IInv /\ Typed
    BY DEF Together, MachineInv
  <1>2. /\ run[R].status # "needs_review"
        /\ \A i \in 1..Len(disk.queue) : ~TellsHalt(disk.queue[i])
    BY DEF Together, ReviewInv, NotHalted
  <1> QED
    BY <1>1, <1>2, StoredReview

LEMMA FlushReview ==
    ASSUME Undisturbed, Together, Busy, NEW next, NEW otherwise,
           Flush(next, NetworkFailure(disk, otherwise), Refused),
           next \notin InReview \cup RebootPlaces \cup {"reboot.resume"},
           otherwise \in {"down", "step.next"}
    PROVE  ReviewInv'
PROOF
  <1>1. Home /\ disk.status \notin Over \cup {"reboot_pending"} /\ pc # "halt"
    BY BusyAt DEF Home
  <1>2. otherwise \notin InReview \cup RebootPlaces \cup Emptied \cup {"reboot.resume"}
    BY DEF InReview, RebootPlaces, Emptied
  <1>3. CASE disk.queue = <<>> /\ Goto(next) /\ UNCHANGED <<serverVars, disk, netVars>>
    BY <1>1, <1>3, BusyStep DEF Goto, serverVars
  <1>4. CASE Stored
    <2>1. run'[R].status # "needs_review"
      BY <1>1, <1>4, StoredBusy
    <2>2. CASE disk' = [disk EXCEPT !.queue = <<>>] /\ Goto(next)
      <3>1. disk'.queue = <<>> /\ disk'.status = disk.status /\ pc' = next
        BY <1>1, <2>2 DEF Goto, Home, Fields
      <3> QED
        BY <1>1, <2>1, <3>1, BusyStep
    <2>3. CASE NetworkFailure(disk, otherwise)
      <3>1. disk'.status = disk.status /\ disk'.queue = disk.queue /\ pc' = otherwise
        BY <1>1, <2>3, LostDown DEF Home
      <3> QED
        BY <1>1, <1>2, <2>1, <3>1, BusyStep
    <2>4. CASE ~NetworkFailure(disk, otherwise) /\ ~(disk' = [disk EXCEPT !.queue = <<>>] /\ Goto(next))
      <3>1. UNCHANGED serverVars /\ Refused /\ UNCHANGED netVars
        BY <1>4, <2>4 DEF Flush, Stored
      <3> QED
        BY <3>1, BusyHalt DEF Refused, netVars
    <2> QED
      BY <2>2, <2>3, <2>4
  <1>5. CASE NetworkFailure(disk, otherwise) /\ UNCHANGED <<serverVars, recorded>>
    <2>1. disk'.status = disk.status /\ disk'.queue = disk.queue /\ pc' = otherwise
      BY <1>1, <1>5, LostDown DEF Home
    <2> QED
      BY <1>1, <1>2, <1>5, <2>1, BusyStep DEF serverVars
  <1>6. CASE Refused /\ UNCHANGED <<serverVars, netVars>>
    BY <1>6, BusyHalt DEF Refused, netVars
  <1> QED
    BY <1>3, <1>4, <1>5, <1>6 DEF Flush, Stored

-----------------------------------------------------------------------------
(* The start of the process, and the loop over the steps *)

LEMMA StartReview ==
    ASSUME Together, Bootstrap \/ Start
    PROVE  ReviewInv'
PROOF
  <1>1. /\ UNCHANGED <<serverVars, disk, recorded, resumed>>
        /\ DOMAIN disk = Fields
    BY DEF Bootstrap, Start, Goto, netVars, Together, RunnerInv, Shaped
  <1>2. GoesOn /\ ~ResumeRun(R) /\ run' = run
    <2>1. GoesOn /\ run' = run
      BY <1>1, Unheeded DEF serverVars
    <2>2. R \in Runs /\ run \in [Runs -> RunRow] /\ run[R] \in RunRow
      BY MachineAssumption DEF Together, MachineInv, IInv, ServerTypeOK
    <2>3. ResumeRun(R) => run'[R].status # run[R].status
      BY <2>2 DEF ResumeRun, SetRun, RunRow
    <2> QED
      BY <2>1, <2>3
  <1>3. CASE Bootstrap
    <2>1. pc = "bare" /\ pc' = "down" /\ disk.status \notin Over \cup {"reboot_pending"}
      BY <1>3 DEF Bootstrap, Together, ReturnInv, EnrolledAt, ReviewInv, ReviewAt, InReview,
                  MachineInv, Typed, Stopping, Over
    <2>2. ~Away'
      BY <1>1, <2>1 DEF Away
    <2> QED
      BY <1>1, <1>2, <2>1, <2>2, Passing DEF Together, InReview, Emptied
  <1>4. CASE Start /\ disk.status = "needs_review"
    <2>1. pc = "down" /\ pc' \in {"review.flush", "gave.up"}
      BY <1>4 DEF Start, StartAt, Goto
    <2> QED
      BY <1>1, <1>2, <1>4, <2>1, Reviewing DEF Together
  <1>5. CASE Start /\ disk.status = "cancellation_pending"
    <2>1. pc' = "cancel.flush"
      BY <1>5 DEF Start, StartAt, Goto
    <2> QED
      BY <1>1, <1>2, <1>5, <2>1, Cancelling DEF InReview, Emptied, Away, Together, ReviewInv,
         CancelSeen
  <1>6. CASE Start /\ disk.status \notin {"needs_review", "cancellation_pending"}
    <2>1. pc = "down" /\ disk.status \notin Over
      BY <1>6 DEF Start, Together, MachineInv, Typed, Stopping, Over
    <2>2. \/ pc' \in {"off", "finish.flush", "begin.auth", "enroll"}
          \/ pc' \in {"reboot.auth", "reboot.return"} /\ disk.status = "reboot_pending"
      BY <1>6 DEF Start, StartAt, AfterReview, Goto
    <2>3. Away' => Away
      BY <1>1, <2>1, <2>2 DEF Away
    <2>4. pc' \notin InReview \cup Emptied
      BY <2>2 DEF InReview, Emptied
    <2> QED
      BY <1>1, <1>2, <2>1, <2>3, <2>4, Passing DEF Together
  <1> QED
    BY <1>3, <1>4, <1>5, <1>6

LEMMA EnrollReview ==
    ASSUME Undisturbed, Together, EnrollCall
    PROVE  ReviewInv'
PROOF
  <1> DEFINE Answered == disk' = [disk EXCEPT !.enrolled = TRUE] /\ Goto("begin.auth")
  <1>1. /\ pc = "enroll" /\ recorded' = recorded
        /\ Call(EnrollAccepted(R, K), EnrollHandler, Answered)
    BY DEF EnrollCall
  <1>2. Busy
    BY <1>1 DEF Busy, InReview, RebootPlaces
  <1>3. run'[R].status = "needs_review" => run[R].status = "needs_review"
    <2>1. R \in Runs /\ run \in [Runs -> RunRow] /\ run[R] \in RunRow
      BY MachineAssumption DEF Together, MachineInv, IInv, ServerTypeOK
    <2>2. Enroll(R, K, boot) => run'[R].status = "runner_ready"
      BY <2>1 DEF Enroll, SetRun, RunRow
    <2>3. EnrollHandler \/ UNCHANGED serverVars
      BY <1>1 DEF Call
    <2> QED
      BY <2>2, <2>3 DEF EnrollHandler, serverVars
  <1>4. CASE Answered
    <2>1. Home /\ disk.status \notin Over
      BY <1>2, BusyAt
    <2>2. disk'.status = disk.status /\ disk'.queue = disk.queue /\ pc' = "begin.auth"
      BY <1>4, <2>1 DEF Home, Fields, Goto
    <2> QED
      BY <1>2, <1>3, <2>1, <2>2, BusyStep DEF Home, InReview, RebootPlaces, Emptied
  <1>5. CASE ~Answered
    <2> HIDE DEF Answered
    <2> QED
      BY <1>1, <1>2, <1>3, <1>5, CallReview
  <1> QED
    BY <1>4, <1>5

LEMMA PlainReview ==
    ASSUME Undisturbed, Together, Manifest \/ LoopStep \/ FetchSecrets \/ NextStep
    PROVE  ReviewInv'
PROOF
  <1> USE DEF InReview, RebootPlaces, Emptied
  <1>1. Busy /\ recorded' = recorded
    BY DEF Busy, Manifest, LoopStep, FetchSecrets, NextStep, netVars
  <1>2. Home /\ disk.status \notin Over \cup {"reboot_pending"}
    BY <1>1, BusyAt DEF Home
  <1>3. ASSUME NEW next \in {"manifest.flush", "finish.flush", "step.done", "step.auth", "loop",
                             "step.start"},
               Goto(next), run' = run,
               disk' \in {disk, [disk EXCEPT !.manifest = TRUE],
                          [disk EXCEPT !.status = "completion_pending"]},
               next = "step.start" => disk.queue = <<>>
        PROVE  ReviewInv'
    <2>1. disk'.queue = disk.queue /\ disk'.status \notin Over \cup {"reboot_pending"}
      BY <1>2, <1>3 DEF Home, Fields, Over
    <2> QED
      BY <1>1, <1>3, <2>1, BusyStep DEF Goto
  <1>4. UNCHANGED serverVars /\ run' = run
    BY DEF Manifest, LoopStep, FetchSecrets, NextStep, Call, serverVars
  <1>5. CASE Manifest
    <2>1. CASE disk.manifest
      BY <1>3, <1>4, <1>5, <2>1 DEF Manifest
    <2>2. CASE ~disk.manifest
      <3> DEFINE Answered == disk' = [disk EXCEPT !.manifest = TRUE] /\ Goto("manifest.flush")
      <3>1. Call(DeviceOk(R, K) /\ LeaseInForce(R), UNCHANGED serverVars, Answered)
        BY <1>5, <2>2 DEF Manifest
      <3>2. CASE Answered
        BY <1>3, <1>4, <3>2
      <3>3. CASE ~Answered
        <4> HIDE DEF Answered
        <4> QED
          BY <1>1, <1>4, <3>1, <3>3, CallReview
      <3> QED
        BY <3>2, <3>3
    <2> QED
      BY <2>1, <2>2
  <1>6. CASE LoopStep
    <2>1. CASE cur > NumSteps
      BY <1>3, <1>4, <1>6, <2>1 DEF LoopStep
    <2>2. CASE ~(cur > NumSteps) /\ Unmet
      BY <1>1, <1>6, <2>2, BusyHalt DEF LoopStep
    <2>3. CASE ~(cur > NumSteps) /\ ~Unmet
      BY <1>3, <1>4, <1>6, <2>3 DEF LoopStep
    <2> QED
      BY <2>1, <2>2, <2>3
  <1>7. CASE FetchSecrets
    <2> DEFINE Answered == Goto("step.start") /\ UNCHANGED disk
    <2>1. Call(DeviceOk(R, K) /\ SecretsServed(R, cur), UNCHANGED serverVars, Answered)
      BY <1>7 DEF FetchSecrets
    <2>2. CASE Answered
      <3>1. disk.queue = <<>>
        BY <1>7 DEF FetchSecrets, Together, ReviewInv, ShortQueue
      <3> QED
        BY <1>3, <1>4, <2>2, <3>1
    <2>3. CASE ~Answered
      <3> HIDE DEF Answered
      <3> QED
        BY <1>1, <1>4, <2>1, <2>3, CallReview
    <2> QED
      BY <2>2, <2>3
  <1>8. CASE NextStep
    BY <1>3, <1>4, <1>8 DEF NextStep
  <1> QED
    BY <1>5, <1>6, <1>7, <1>8

-----------------------------------------------------------------------------
(* run_step *)

\* The first event of a runner at work.
LEMMA BusyReport ==
    ASSUME Undisturbed, Together, Busy \/ pc = "reboot.event", disk.queue = <<>>,
           UNCHANGED serverVars,
           NEW d, DOMAIN d = Fields, d.queue = <<>>, d.status \notin Over,
           NEW type, NEW next, Report(d, type, next), next \notin InReview \cup Emptied,
           type \in {"step.started", "step.succeeded", "run.reboot_pending"}
             \/ (type = "step.failed" /\ (next = "halt" \/ cur \notin Required))
    PROVE  ReviewInv'
PROOF
  <1>1. disk.status \notin Over
    <2>1. CASE Busy
      BY <2>1, BusyAt
    <2>2. CASE pc = "reboot.event"
      BY <2>2 DEF Together, ReturnInv, RebootAt, RebootPlaces, Over
    <2> QED
      BY <2>1, <2>2
  <1>2. run'[R].status # "needs_review"
    BY <1>1 DEF Together, ReviewInv, NotHalted, serverVars
  <1>3. next = "halt" \/ ~TellsHalt(Event(type, StepOf(type), BootOf(type)))
    BY DEF TellsHalt, Event, StepOf, StepEvents
  <1> QED
    BY <1>2, <1>3, FirstReport

LEMMA StepStartReview ==
    ASSUME Undisturbed, Together, StepStart
    PROVE  ReviewInv'
PROOF
  <1>1. /\ pc = "step.start" /\ UNCHANGED serverVars
        /\ Report(disk, "step.started", "step.started")
    BY DEF StepStart
  <1>2. Busy /\ disk.queue = <<>>
    BY <1>1 DEF Busy, InReview, RebootPlaces, Together, ReviewInv, ShortQueue, Emptied
  <1>3. Home /\ disk.status \notin Over
    BY <1>2, BusyAt
  <1> QED
    BY <1>1, <1>2, <1>3, BusyReport DEF Home, InReview, Emptied

LEMMA OutcomeReview ==
    ASSUME Undisturbed, Together, pc \in {"check", "apply"}, UNCHANGED <<serverVars, recorded>>,
           Succeed \/ Fail \/ Halt(disk)
    PROVE  ReviewInv'
PROOF
  <1>1. Busy /\ disk.queue = <<>>
    BY DEF Busy, InReview, RebootPlaces, Together, MachineInv, Typed, Cleared
  <1>2. Home /\ disk.status \notin Over
    BY <1>1, BusyAt
  <1>3. \A status : /\ DOMAIN Checkpoint(status) = Fields
                     /\ Checkpoint(status).queue = disk.queue
                     /\ Checkpoint(status).status = disk.status
    BY <1>2 DEF Checkpoint, Home, Fields
  <1>4. CASE Succeed
    BY <1>1, <1>2, <1>3, <1>4, BusyReport DEF Succeed, InReview, Emptied
  <1>5. CASE Fail
    <2> DEFINE next == IF cur \in Required THEN "halt" ELSE "step.done"
    <2>1. Report(Checkpoint("failed"), "step.failed", next)
      BY <1>5 DEF Fail
    <2>2. next \notin InReview \cup Emptied /\ (next = "halt" \/ cur \notin Required)
      BY DEF InReview, Emptied
    <2> HIDE DEF next
    <2> QED
      BY <1>1, <1>2, <1>3, <2>1, <2>2, BusyReport
  <1>6. CASE Halt(disk)
    BY <1>1, <1>6, BusyHalt
  <1> QED
    BY <1>4, <1>5, <1>6

LEMMA ApplyReview ==
    ASSUME Undisturbed, Together, CheckPhase \/ ApplyStart \/ ApplyEnd
    PROVE  ReviewInv'
PROOF
  <1>1. /\ pc \in {"check", "apply.start", "apply"} /\ UNCHANGED <<serverVars, recorded>>
        /\ run' = run
    BY DEF CheckPhase, ApplyStart, ApplyEnd, netVars, serverVars
  <1>2. Busy
    BY <1>1 DEF Busy, InReview, RebootPlaces
  <1>3. Home /\ disk.status \notin Over \cup {"reboot_pending"} /\ pc # "halt"
    BY <1>2, BusyAt DEF Home
  <1>4. CASE (CheckPhase \/ ApplyEnd) /\ (Succeed \/ Fail \/ Halt(disk))
    <2>1. pc \in {"check", "apply"}
      BY <1>4 DEF CheckPhase, ApplyEnd
    <2> QED
      BY <1>1, <1>4, <2>1, OutcomeReview
  <1>5. CASE \/ pc' = "apply.auth" /\ disk' = disk
             \/ ApplyStart
    <2>1. /\ disk'.queue = disk.queue /\ pc' \in {"apply.auth", "apply"}
          /\ disk'.status \in {disk.status, "running"}
      BY <1>3, <1>5 DEF Home, Fields, ApplyStart, Checkpoint, Goto
    <2> QED
      BY <1>1, <1>2, <1>3, <2>1, BusyStep DEF InReview, RebootPlaces, Emptied, Over
  <1>6. CASE /\ disk' = [Checkpoint("reboot_pending") EXCEPT
                            !.status = "reboot_pending", !.rebootBoot = boot,
                            !.rebootCount = @ + 1]
             /\ Goto("reboot.event")
    <2>1. disk'.queue = disk.queue /\ disk'.status = "reboot_pending" /\ pc' = "reboot.event"
      BY <1>3, <1>6 DEF Home, Fields, Checkpoint, Goto
    <2> QED
      BY <1>1, <1>3, <2>1, Passing DEF Together, InReview, Emptied, Away, Over
  <1>7. \/ (CheckPhase \/ ApplyEnd) /\ (Succeed \/ Fail \/ Halt(disk))
        \/ pc' = "apply.auth" /\ disk' = disk
        \/ ApplyStart
        \/ /\ disk' = [Checkpoint("reboot_pending") EXCEPT
                            !.status = "reboot_pending", !.rebootBoot = boot,
                            !.rebootCount = @ + 1]
           /\ Goto("reboot.event")
    BY DEF CheckPhase, ApplyEnd, Goto
  <1> QED
    BY <1>4, <1>5, <1>6, <1>7

-----------------------------------------------------------------------------
(* The planned reboot, and the review *)

LEMMA RebootReview ==
    ASSUME Undisturbed, Together, RebootEvent \/ RebootFlush \/ Reboot
    PROVE  ReviewInv'
PROOF
  <1>1. /\ pc \in {"reboot.event", "reboot.flush", "rebooting"} /\ DOMAIN disk = Fields
        /\ disk.status = "reboot_pending"
    BY DEF RebootEvent, RebootFlush, Reboot, Together, RunnerInv, Shaped, ReturnInv, RebootAt,
           RebootPlaces
  <1>2. CASE RebootEvent
    <2>1. /\ pc = "reboot.event" /\ UNCHANGED serverVars
          /\ Report(disk, "run.reboot_pending", "reboot.flush")
      BY <1>2 DEF RebootEvent
    <2>2. disk.queue = <<>>
      BY <2>1 DEF Together, MachineInv, Typed, Cleared
    <2> QED
      BY <1>1, <2>1, <2>2, BusyReport DEF InReview, Emptied, Over
  <1>3. CASE RebootFlush
    <2>1. /\ pc = "reboot.flush" /\ pc' = "reboot.auth"
          /\ \/ UNCHANGED <<serverVars, disk>>
             \/ Stored /\ disk' \in {disk, [disk EXCEPT !.queue = <<>>]}
      BY <1>3 DEF RebootFlush, Flush, Goto, Stored
    <2>2. run'[R].status = "needs_review" => run[R].status = "needs_review"
      <3>1. Stored => run'[R].status # "needs_review"
        BY <1>1, StoredBusy DEF Over
      <3> QED
        BY <2>1, <3>1 DEF serverVars
    <2>3. disk'.status = disk.status /\ disk'.queue \in {disk.queue, <<>>}
      BY <1>1, <2>1 DEF Fields
    <2> QED
      BY <1>1, <2>1, <2>2, <2>3, Passing DEF Together, InReview, Emptied, Away, Over
  <1>4. CASE Reboot
    <2>1. pc = "rebooting" /\ pc' = "down" /\ UNCHANGED <<serverVars, disk>>
      BY <1>4 DEF Reboot
    <2> QED
      BY <1>1, <2>1, Passing DEF Together, InReview, Emptied, Away, Over, serverVars
  <1> QED
    BY <1>2, <1>3, <1>4

LEMMA ReturnReview ==
    ASSUME Undisturbed, Together, RebootReturn
    PROVE  ReviewInv'
PROOF
  <1>1. UNCHANGED <<serverVars, recorded>> /\ run' = run /\ DOMAIN disk = Fields
    BY DEF RebootReturn, netVars, serverVars, Together, RunnerInv, Shaped
  <1>2. disk.status \notin Over /\ pc # "halt" /\ Away
    BY DEF RebootReturn, Away, Over, InReview, Together, ReviewInv, ReviewAt, MachineInv, Typed,
           Stopping
  <1>3. CASE pc = "reboot.return"
    <2>1. disk'.status = "running" /\ disk'.queue = disk.queue /\ pc' = "reboot.resume"
      BY <1>1, <1>3 DEF RebootReturn, Goto, Fields
    <2> QED
      BY <1>1, <1>2, <2>1, Passing DEF Together, InReview, Emptied, Over
  <1>4. CASE pc = "reboot.resume"
    <2> DEFINE e == Event("run.resumed", StepOf("run.resumed"), BootOf("run.resumed"))
    <2>1. Report(disk, "run.resumed", "reboot.flushed")
      BY <1>4 DEF RebootReturn
    <2>2. /\ Len(disk.queue) <= 1 /\ run[R].status # "needs_review"
          /\ \A i \in 1..Len(disk.queue) : ~TellsHalt(disk.queue[i])
      BY <1>2 DEF Together, ReviewInv, ShortQueue, NotHalted
    <2>3. disk.queue \in Seq(Reports) /\ Len(disk.queue) \in Nat
      BY DEF Together, MachineInv, Typed, LocalState
    <2>4. ~QueueFull(disk)
      BY <2>2, <2>3, MachineAssumption DEF QueueFull, Undisturbed
    <2>5. /\ disk'.status = disk.status /\ pc' = "reboot.flushed"
          /\ disk'.queue = Append(disk.queue, e)
      BY <1>1, <2>1, <2>4, Reporting
    <2>6. ~TellsHalt(e)
      BY DEF TellsHalt, Event
    <2>7. /\ Len(Append(disk.queue, e)) = Len(disk.queue) + 1
          /\ \A i \in 1..Len(disk.queue) : Append(disk.queue, e)[i] = disk.queue[i]
          /\ Append(disk.queue, e)[Len(disk.queue) + 1] = e
      <3>1. disk.queue \in Seq(Reports \cup {e}) /\ e \in Reports \cup {e}
        BY <2>3
      <3> HIDE DEF e
      <3> QED
        BY <3>1, AppendProperties
    <2> HIDE DEF e
    <2>8. Len(disk'.queue) <= 2
      BY <2>2, <2>3, <2>5, <2>7
    <2>9. ASSUME NEW i \in 1..Len(disk'.queue) PROVE ~TellsHalt(disk'.queue[i])
      <3>1. i \in 1..Len(disk.queue) \/ i = Len(disk.queue) + 1
        BY <2>3, <2>5, <2>7
      <3> QED
        BY <2>2, <2>5, <2>6, <2>7, <3>1
    <2>10. ~Away' /\ pc' \notin InReview \cup Emptied
      BY <2>5 DEF Away, InReview, Emptied
    <2> QED
      BY <1>1, <1>2, <2>2, <2>5, <2>8, <2>9, <2>10, AtWorkReview
  <1> QED
    BY <1>3, <1>4 DEF RebootReturn

\* The second save of halt() finds room for the event.
LEMMA HaltStepReview ==
    ASSUME Undisturbed, Together, HaltStep
    PROVE  ReviewInv'
PROOF
  <1>1. UNCHANGED <<serverVars, recorded>> /\ run' = run /\ DOMAIN disk = Fields
    BY DEF HaltStep, netVars, serverVars, Together, RunnerInv, Shaped
  <1>2. CASE pc = "halt" /\ Halt(disk)
    BY <1>1, <1>2, BusyHalt
  <1>3. CASE pc = "halt.event"
    <2> DEFINE e == Event("run.needs_review", StepOf("run.needs_review"), BootOf("run.needs_review"))
    <2>1. disk.status = "needs_review"
      BY <1>3 DEF Together, ReviewInv, ReviewAt, InReview
    <2>2. ASSUME Active(run[R]), ~run[R].cancel PROVE Unheard \/ Halting
      BY <1>3, <2>1, <2>2 DEF Together, ReviewInv, HaltTold, Heard
    <2>3. disk.queue \in Seq(Reports) /\ Len(disk.queue) \in Nat /\ recorded \in 0..Len(disk.queue)
      BY DEF Together, MachineInv, Typed, LocalState
    <2>4. ASSUME disk'.status = "needs_review", pc' = "halt.flush", resumed' = resumed,
                 Active(run[R]) /\ ~run[R].cancel => Unheard'
          PROVE  ReviewInv'
      <3>1. ReviewAt' /\ ShortQueue' /\ NotHalted' /\ CancelSeen' /\ Turning'
        BY <2>4 DEF ReviewAt, InReview, ShortQueue, Away, Emptied, NotHalted, Over, CancelSeen,
                    Turning
      <3>2. HaltTold'
        BY <1>1, <2>4 DEF HaltTold, Active
      <3> QED
        BY <3>1, <3>2 DEF ReviewInv
    <2>5. CASE QueueFull(disk)
      <3>1. disk' = disk /\ pc' = "halt.flush" /\ resumed' = resumed
        BY <1>3, <2>5 DEF HaltStep, Goto
      <3>2. ~Halting
        BY <2>3, <2>5, MachineAssumption DEF Halting, QueueFull, Undisturbed
      <3>3. Unheard => Unheard'
        BY <1>1, <3>1 DEF Unheard
      <3> QED
        BY <2>1, <2>2, <2>4, <3>1, <3>2, <3>3
    <2>6. CASE ~QueueFull(disk)
      <3>1. Report(disk, "run.needs_review", "halt.flush")
        BY <1>3, <2>6 DEF HaltStep
      <3>2. /\ disk'.status = disk.status /\ pc' = "halt.flush" /\ resumed' = resumed
            /\ disk'.queue = Append(disk.queue, e)
        BY <1>1, <2>6, <3>1, Reporting
      <3>3. e.type = "run.needs_review"
        BY DEF Event
      <3> HIDE DEF e
      <3>4. /\ Len(Append(disk.queue, e)) = Len(disk.queue) + 1
            /\ Append(disk.queue, e)[Len(disk.queue) + 1] = e
        <4>1. disk.queue \in Seq(Reports \cup {e}) /\ e \in Reports \cup {e}
          BY <2>3
        <4> QED
          BY <4>1, AppendProperties
      <3>5. /\ recorded' < Len(disk'.queue)
            /\ disk'.queue[Len(disk'.queue)].type = "run.needs_review"
        BY <1>1, <2>3, <3>2, <3>3, <3>4
      <3>6. Unheard \/ Halting => Unheard'
        BY <1>1, <3>2, <3>5 DEF Unheard, Halting
      <3> QED
        BY <2>1, <2>2, <2>4, <3>2, <3>6
    <2> QED
      BY <2>5, <2>6
  <1> QED
    BY <1>2, <1>3 DEF HaltStep

\* A batch that the server takes from a runner under review tells it of the halt.
LEMMA StoredHalt ==
    ASSUME Together, Stored, disk.status = "needs_review", pc # "halt.event",
           disk'.status = "needs_review", disk'.queue \in {disk.queue, <<>>},
           recorded' = Len(disk'.queue), resumed' = resumed,
           pc' = "down" \/ (pc' = "review.lease" /\ disk'.queue = <<>>)
    PROVE  ReviewInv'
PROOF
  <1>1. ReviewAt' /\ ShortQueue' /\ NotHalted' /\ CancelSeen' /\ Turning'
    BY DEF ReviewAt, InReview, ShortQueue, Away, Emptied, NotHalted, Over, CancelSeen, Turning
  <1>2. HaltTold'
    <2> SUFFICES ASSUME Active(run'[R]), ~run'[R].cancel PROVE Heard'
      BY DEF HaltTold
    <2>1. IInv /\ Typed
      BY DEF Together, MachineInv
    <2>2. /\ run'[R].cancel = run[R].cancel /\ run'[R].key = K
          /\ Active(run'[R]) => Active(run[R])
          /\ recorded < Len(disk.queue) /\ disk.queue[Len(disk.queue)].type = "run.needs_review"
               => run'[R].status = "needs_review"
          /\ recorded = Len(disk.queue) => run'[R] = run[R]
      BY <2>1, StoredReview
    <2>3. Heard \/ Unheard
      BY <2>2 DEF Together, ReviewInv, HaltTold, Halting
    <2>4. resumed \/ run'[R].status = "needs_review"
      BY <2>2, <2>3 DEF Heard, Unheard
    <2> QED
      BY <2>2, <2>4 DEF Heard
  <1> QED
    BY <1>1, <1>2 DEF ReviewInv

\* A runner under review whose batch is refused has a run that ended or is to stop, or has
\* not told of its halt yet.
LEMMA RefusedHalt ==
    ASSUME Together, UNCHANGED <<serverVars, recorded>>, disk.status = "needs_review",
           pc # "halt.event", ~BatchOk, Halt(disk)
    PROVE  ReviewInv'
PROOF
  <1>1. /\ disk'.status = "needs_review" /\ disk'.queue = disk.queue
        /\ pc' = "halt.event" /\ resumed' = FALSE /\ run' = run
    BY DEF Halt, Fields, Together, RunnerInv, Shaped, serverVars
  <1>2. ReviewAt' /\ ShortQueue' /\ NotHalted' /\ CancelSeen' /\ Turning'
    BY <1>1 DEF ReviewAt, InReview, ShortQueue, Away, Emptied, NotHalted, Over, CancelSeen,
                Turning
  <1>3. HaltTold'
    <2> SUFFICES ASSUME Active(run[R]), ~run[R].cancel PROVE Unheard'
      BY <1>1 DEF HaltTold, Active
    <2>1. Heard \/ Unheard
      BY DEF Together, ReviewInv, HaltTold, Halting
    <2>2. ~Heard
      <3> SUFFICES ASSUME Heard PROVE FALSE
        OBVIOUS
      <3>1. disk.queue \in Seq(Reports) /\ recorded \in 0..Len(disk.queue)
        BY DEF Together, MachineInv, Typed, LocalState
      <3>2. NewEvents = <<>>
        BY <3>1, NewEventsAre DEF Heard
      <3>3. Applied(NewEvents).ok
        <4>1. Len(NewEvents) = 0 /\ Len(NewEvents) \in Nat
          BY <3>2
        <4>2. AppliedTo(NewEvents)[0] = [ok |-> TRUE, row |-> run[R]]
          BY <4>1, AppliedRows
        <4>3. Applied(NewEvents) = [ok |-> TRUE, row |-> run[R]]
          BY <4>1, <4>2 DEF Applied
        <4> QED
          BY <4>3
      <3> QED
        BY <3>3 DEF BatchOk, DeviceOk, Heard
    <2> QED
      BY <1>1, <2>1, <2>2 DEF Unheard
  <1> QED
    BY <1>2, <1>3 DEF ReviewInv

LEMMA NoResume ==
    ASSUME Together, run'[R].status = run[R].status
    PROVE  ~ResumeRun(R)
PROOF
  <1>1. R \in Runs /\ run \in [Runs -> RunRow] /\ run[R] \in RunRow
    BY MachineAssumption DEF Together, MachineInv, IInv, ServerTypeOK
  <1> QED
    BY <1>1 DEF ResumeRun, SetRun, RunRow

LEMMA ReviewFlush ==
    ASSUME Undisturbed, Together, HaltFlush \/ Flushing("review.flush", "review.lease")
    PROVE  ReviewInv'
PROOF
  <1>1. /\ pc \in {"halt.flush", "review.flush"} /\ disk.status = "needs_review"
        /\ DOMAIN disk = Fields
    BY DEF HaltFlush, Flushing, Together, ReviewInv, ReviewAt, InReview, RunnerInv, Shaped
  <1> DEFINE Stay == /\ disk'.status = disk.status /\ disk'.queue = disk.queue
                     /\ pc' = "down" /\ resumed' = resumed
             Empty(next) == disk' = [disk EXCEPT !.queue = <<>>] /\ recorded' = 0 /\ Goto(next)
  <1>2. \/ disk.queue = <<>> /\ pc' \in {"down", "review.lease"}
              /\ UNCHANGED <<serverVars, disk, recorded, resumed>>
        \/ Stored /\ (Empty("down") \/ Empty("review.lease"))
        \/ Stored /\ Stay /\ recorded' = Len(disk.queue)
        \/ UNCHANGED <<serverVars, recorded>> /\ Stay
        \/ UNCHANGED <<serverVars, recorded>> /\ ~BatchOk /\ Halt(disk)
    <2>1. CASE HaltFlush
      <3>1. Goto("down") /\ UNCHANGED disk => Stay
        BY DEF Goto
      <3> QED
        BY <2>1, <3>1 DEF HaltFlush, Flush, Stored, Goto, netVars
    <2>2. CASE Flushing("review.flush", "review.lease")
      <3>1. Lost => Stay
        BY <1>1, LostDown DEF Lost
      <3>2. \/ disk.queue = <<>> /\ Goto("review.lease") /\ UNCHANGED <<serverVars, disk, netVars>>
            \/ Stored /\ Empty("review.lease")
            \/ Stored /\ Lost /\ recorded' = Len(disk.queue)
            \/ Lost /\ UNCHANGED <<serverVars, recorded>>
            \/ ~BatchOk /\ Halt(disk) /\ UNCHANGED <<serverVars, netVars>>
        BY <2>2 DEF Flushing, Flush, Stored, Refused
      <3> HIDE DEF Stay, Empty
      <3> QED
        BY <3>1, <3>2 DEF Goto, netVars
    <2> QED
      BY <2>1, <2>2
  <1>3. CASE /\ disk'.status = disk.status /\ disk'.queue = disk.queue
             /\ UNCHANGED <<serverVars, recorded, resumed>>
             /\ pc' = "down" \/ (pc' = "review.lease" /\ disk.queue = <<>>)
    <2>1. GoesOn /\ ~ResumeRun(R)
      BY <1>3, Unheeded, NoResume DEF serverVars
    <2> QED
      BY <1>1, <1>3, <2>1, Reviewing DEF Together
  <1>4. CASE Stored /\ (Empty("down") \/ Empty("review.lease"))
    <2>1. disk'.status = "needs_review" /\ disk'.queue = <<>> /\ recorded' = Len(disk'.queue)
      BY <1>1, <1>4 DEF Fields
    <2>2. pc' \in {"down", "review.lease"} /\ resumed' = resumed
      BY <1>4 DEF Goto
    <2> QED
      BY <1>1, <1>4, <2>1, <2>2, StoredHalt
  <1>5. CASE Stored /\ Stay /\ recorded' = Len(disk.queue)
    BY <1>1, <1>5, StoredHalt
  <1>6. CASE UNCHANGED <<serverVars, recorded>> /\ ~BatchOk /\ Halt(disk)
    BY <1>1, <1>6, RefusedHalt
  <1> QED
    BY <1>2, <1>3, <1>4, <1>5, <1>6

\* The answer to a lease request.
LEMMA LeaseAnswer ==
    ASSUME Together, LeaseHandler(R)
    PROVE  run'[R].status = run[R].status /\ run'[R].cancel = run[R].cancel
PROOF
  <1>1. R \in Runs /\ run \in [Runs -> RunRow] /\ run[R] \in RunRow
    BY MachineAssumption DEF Together, MachineInv, IInv, ServerTypeOK
  <1>2. run'[R] = [run[R] EXCEPT !.leaseUntil = LeaseGranted(R)]
    BY <1>1 DEF LeaseHandler, SetRun
  <1> QED
    BY <1>1, <1>2 DEF RunRow

LEMMA ActionRow ==
    ASSUME Together
    PROVE  /\ LeaseAction(R) = "stop" => run[R].cancel
           /\ LeaseAction(R) = "run"
                => ~run[R].cancel /\ run[R].status \in {"runner_ready", "running", "reboot_pending"}
PROOF
  <1>1. run[R].cancel \in BOOLEAN
    <2>1. R \in Runs /\ run \in [Runs -> RunRow] /\ run[R] \in RunRow
      BY MachineAssumption DEF Together, MachineInv, IInv, ServerTypeOK
    <2> QED
      BY <2>1 DEF RunRow
  <1>2. CASE run[R].cancel
    BY <1>2 DEF LeaseAction
  <1>3. CASE ~run[R].cancel
    <2> DEFINE waits == Blocked(R) \/ run[R].status = "needs_review"
               works == ~Blocked(R) /\ run[R].status \in {"runner_ready", "running", "reboot_pending"}
    <2>1. LeaseAction(R) = CASE run[R].cancel -> "stop"
                             [] ~run[R].cancel /\ waits -> "wait"
                             [] ~run[R].cancel /\ works -> "run"
                             [] OTHER -> "revoked"
      BY DEF LeaseAction
    <2>2. works => run[R].status \in {"runner_ready", "running", "reboot_pending"}
      OBVIOUS
    <2> HIDE DEF waits, works
    <2> QED
      BY <1>1, <1>3, <2>1, <2>2
  <1> QED
    BY <1>2, <1>3

\* The runner is told to stop, at work or under review, and has saved the answer.
LEMMA ToldToStop ==
    ASSUME Together, pc # "halt", disk.status \notin {"cancellation_pending", "cancelled"},
           disk.status = "needs_review" => disk.queue = <<>>,
           LeaseHandler(R), LeaseAction(R) = "stop", disk' = Leased, Goto("cancel")
    PROVE  ReviewInv'
PROOF
  <1>1. /\ pc' = "cancel" /\ disk'.status = disk.status /\ disk'.queue = disk.queue
        /\ run'[R].cancel /\ run'[R].status = run[R].status
    BY LeasedFields, LeaseAnswer, ActionRow DEF Goto, Together, RunnerInv, Shaped
  <1>2. Len(disk'.queue) <= 2
    <2>1. CASE disk.status = "needs_review"
      <3>1. Len(disk.queue) = 0
        BY <2>1
      <3> QED
        BY <1>1, <3>1
    <2>2. CASE disk.status # "needs_review"
      BY <1>1, <2>2 DEF Together, ReviewInv, ShortQueue, Over
    <2> QED
      BY <2>1, <2>2
  <1>3. ReviewAt' /\ CancelSeen' /\ HaltTold' /\ Turning'
    BY <1>1, <1>2 DEF ReviewAt, InReview, CancelSeen, HaltTold, Turning
  <1>4. ShortQueue'
    BY <1>1, <1>2 DEF ShortQueue, Away, Emptied
  <1>5. NotHalted'
    BY <1>1 DEF Together, ReviewInv, NotHalted
  <1> QED
    BY <1>3, <1>4, <1>5 DEF ReviewInv

\* The steps of the review that follow the answer to its lease.
LEMMA ReviewLeaseReview ==
    ASSUME Undisturbed, Together, ReviewLease
    PROVE  ReviewInv' /\ disk'.status = "needs_review"
PROOF
  <1>1. /\ pc = "review.lease" /\ disk.status = "needs_review" /\ disk.queue = <<>>
        /\ recorded' = recorded /\ DOMAIN disk = Fields
    BY DEF ReviewLease, Together, ReviewInv, ReviewAt, InReview, ShortQueue, Emptied, RunnerInv, Shaped
  <1>2. /\ DOMAIN Leased = Fields /\ Leased.queue = <<>> /\ Leased.status = "needs_review"
    BY <1>1, LeasedFields
  <1>3. LeaseHandler(R) \/ UNCHANGED serverVars
    BY DEF ReviewLease, RenewLease
  <1>4. GoesOn /\ ~ResumeRun(R)
    BY <1>3, Unheeded, NoResume, LeaseAnswer DEF serverVars
  <1>5. CASE /\ disk'.status = "needs_review" /\ disk'.queue = disk.queue
             /\ pc' = "down" /\ resumed' = resumed
    BY <1>1, <1>4, <1>5, Reviewing DEF Together
  <1>6. CASE Lost
    BY <1>1, <1>5, <1>6, LostDown DEF Lost
  <1>7. CASE DeviceOk(R, K) /\ LeaseHandler(R) /\ disk' = Leased /\ Goto(AfterAnswer)
    <2>1. disk'.status = "needs_review" /\ disk'.queue = <<>>
      BY <1>2, <1>7
    <2>2. CASE AfterAnswer = "down"
      BY <1>1, <1>5, <1>7, <2>1, <2>2 DEF Goto
    <2>3. CASE AfterAnswer = "cancel"
      BY <1>1, <1>7, <2>1, <2>3, AfterAnswerAt, ToldToStop
    <2>4. CASE AfterAnswer = "review.resume"
      <3>1. /\ Active(run[R]) /\ ~run[R].cancel
            /\ run[R].status # "needs_review" /\ run'[R].status = run[R].status
        BY <1>7, <2>4, AfterAnswerAt, ActionRow, LeaseAnswer DEF DeviceOk, ResumeSeen
      <3>2. resumed
        BY <1>1, <3>1 DEF Together, ReviewInv, HaltTold, Heard, Unheard, Halting, MachineInv, Typed
      <3>3. pc' = "review.resume" /\ resumed' = resumed
        BY <1>7, <2>4 DEF Goto
      <3>4. ReviewAt' /\ ShortQueue' /\ NotHalted' /\ CancelSeen' /\ Turning'
        BY <2>1, <3>1, <3>2, <3>3 DEF ReviewAt, InReview, ShortQueue, Away, Emptied, NotHalted,
                                      Over, CancelSeen, Turning
      <3>5. HaltTold'
        <4>1. run'[R].key = run[R].key /\ run[R].key = K
          BY <1>4, <1>7, <3>1 DEF GoesOn, DeviceOk, Active
        <4>2. recorded' = Len(disk'.queue)
          <5>1. recorded = 0 /\ Len(disk.queue) = 0
            BY <1>1 DEF Together, MachineInv, Typed
          <5> QED
            BY <1>1, <2>1, <5>1
        <4> QED
          BY <3>2, <3>3, <4>1, <4>2 DEF HaltTold, Heard
      <3> QED
        BY <2>1, <3>4, <3>5 DEF ReviewInv
    <2> QED
      BY <2>1, <2>2, <2>3, <2>4, AfterAnswerAt
  <1>8. CASE ~DeviceOk(R, K) /\ Refused /\ UNCHANGED serverVars
    <2>1. /\ disk'.status = "needs_review" /\ disk'.queue = disk.queue
          /\ pc' = "halt.event" /\ resumed' = FALSE /\ run' = run
      BY <1>1, <1>8 DEF Refused, Halt, Fields, serverVars
    <2>2. ReviewAt' /\ ShortQueue' /\ NotHalted' /\ CancelSeen' /\ Turning'
      BY <2>1 DEF ReviewAt, InReview, ShortQueue, Away, Emptied, NotHalted, Over, CancelSeen,
                  Turning
    <2>3. HaltTold'
      <3> SUFFICES ASSUME Active(run[R]), ~run[R].cancel PROVE FALSE
        BY <2>1 DEF HaltTold, Active
      <3>1. run[R].key # K
        BY <1>8 DEF DeviceOk
      <3>2. recorded = 0 /\ Len(disk.queue) = 0
        BY <1>1 DEF Together, MachineInv, Typed
      <3> QED
        BY <1>1, <3>1, <3>2 DEF Together, ReviewInv, HaltTold, Heard, Unheard, Halting
    <2> QED
      BY <2>1, <2>2, <2>3 DEF ReviewInv
  <1>9. \/ Lost
        \/ DeviceOk(R, K) /\ LeaseHandler(R) /\ disk' = Leased /\ Goto(AfterAnswer)
        \/ ~DeviceOk(R, K) /\ Refused /\ UNCHANGED serverVars
    BY DEF ReviewLease, RenewLease
  <1> HIDE DEF ReviewLease
  <1>10. CASE Lost
    BY <1>1, <1>6, <1>10, LostDown DEF Lost
  <1>11. DeviceOk(R, K) /\ LeaseHandler(R) /\ disk' = Leased /\ Goto(AfterAnswer)
           => disk'.status = "needs_review"
    BY <1>2
  <1>12. Refused => disk'.status = "needs_review"
    BY <1>1 DEF Refused, Halt, Fields
  <1> QED
    BY <1>7, <1>8, <1>9, <1>10, <1>11, <1>12

\* The runner saves that its review is over, and takes up its work again.
LEMMA ReviewResumeReview ==
    ASSUME Undisturbed, Together, ReviewResume
    PROVE  ReviewInv' /\ resumed
PROOF
  <1> DEFINE d == Reopened(disk)
  <1>1. /\ pc = "review.resume" /\ UNCHANGED serverVars /\ Report(d, "run.resumed", AfterReview)
        /\ DOMAIN disk = Fields
    BY DEF ReviewResume, Together, RunnerInv, Shaped
  <1>2. resumed /\ disk.queue = <<>> /\ run[R].status # "needs_review"
    BY <1>1 DEF Together, ReviewInv, Turning, ShortQueue, Emptied
  <1>3. DOMAIN d = Fields /\ d.queue = <<>> /\ d.status \notin Over
    BY <1>1, <1>2 DEF Reopened, Fields, Over
  <1>4. AfterReview \notin InReview \cup Emptied
    BY DEF AfterReview, InReview, Emptied
  <1>5. ~TellsHalt(Event("run.resumed", StepOf("run.resumed"), BootOf("run.resumed")))
    BY DEF TellsHalt, Event
  <1>6. run'[R].status # "needs_review"
    BY <1>1, <1>2 DEF serverVars
  <1> HIDE DEF d
  <1> QED
    BY <1>1, <1>2, <1>3, <1>4, <1>5, <1>6, FirstReport

\* Told to stop, the runner queues the confirmation.
LEMMA ConfirmCancelReview ==
    ASSUME Undisturbed, Together, ConfirmCancel
    PROVE  ReviewInv' /\ disk'.status = "cancellation_pending"
PROOF
  <1>1. pc = "cancel" /\ UNCHANGED serverVars /\ Cancel(disk) /\ DOMAIN disk = Fields
    BY DEF ConfirmCancel, Together, RunnerInv, Shaped
  <1>2. Len(disk.queue) <= 2 /\ (Active(run'[R]) => run'[R].cancel)
    BY <1>1 DEF Together, ReviewInv, Turning, Active, serverVars
  <1> QED
    BY <1>1, <1>2, CancelReview DEF Together

-----------------------------------------------------------------------------
(* Cancellation, completion, and the remaining calls *)

LEMMA CancelFlushReview ==
    ASSUME Undisturbed, Together, Flushing("cancel.flush", "cancel.save") \/ Cancelled
    PROVE  ReviewInv'
PROOF
  <1>1. disk.status = "cancellation_pending" /\ pc \in {"cancel.flush", "cancel.save"}
    BY DEF Flushing, Cancelled, Together, MachineInv, Typed, Stopping
  <1>2. (Active(run[R]) => run[R].cancel) /\ DOMAIN disk = Fields
    BY <1>1 DEF Together, ReviewInv, CancelSeen, RunnerInv, Shaped
  <1>3. CASE Cancelled
    <2>1. disk'.status = "cancelled" /\ pc' = "off" /\ run' = run
      BY <1>2, <1>3 DEF Cancelled, Fields, Goto, serverVars
    <2>2. Active(run'[R]) => run'[R].cancel
      BY <1>2, <2>1 DEF Active
    <2> QED
      BY <2>1, <2>2, Cancelling DEF InReview, Emptied, Away
  <1>4. CASE Flushing("cancel.flush", "cancel.save")
    <2>1. \/ disk.queue = <<>> /\ Goto("cancel.save") /\ UNCHANGED <<serverVars, disk, netVars>>
          \/ Stored /\ disk' = [disk EXCEPT !.queue = <<>>] /\ Goto("cancel.save")
          \/ Stored /\ Lost
          \/ Lost /\ UNCHANGED serverVars
          \/ Refused /\ UNCHANGED <<serverVars, netVars>>
      BY <1>4 DEF Flushing, Flush, Stored
    <2>2. Lost => disk'.status = disk.status /\ pc' = "down"
      BY <1>2, LostDown DEF Lost
    <2>3. CASE Refused /\ UNCHANGED <<serverVars, netVars>>
      BY <1>4, <2>3, BusyHalt DEF Refused, netVars, Flushing
    <2>4. CASE Stored \/ UNCHANGED serverVars
      <3>1. IInv /\ Typed
        BY DEF Together, MachineInv
      <3>2. Active(run'[R]) => Active(run[R]) /\ run'[R].cancel = run[R].cancel
        <4>1. CASE Stored
          BY <3>1, <4>1, StoredReview
        <4>2. CASE UNCHANGED serverVars
          BY <4>2 DEF serverVars
        <4> QED
          BY <2>4, <4>1, <4>2
      <3>3. Active(run'[R]) => run'[R].cancel
        BY <1>2, <3>2
      <3>4. CASE disk'.status = "cancellation_pending" /\ pc' \in {"down", "cancel.save"}
        BY <3>3, <3>4, Cancelling DEF InReview, Emptied, Away
      <3>5. \/ disk'.status = "cancellation_pending" /\ pc' \in {"down", "cancel.save"}
            \/ Refused /\ UNCHANGED <<serverVars, netVars>>
        <4>1. [disk EXCEPT !.queue = <<>>].status = disk.status
          BY <1>2 DEF Fields
        <4> QED
          BY <1>1, <2>1, <2>2, <4>1 DEF Goto
      <3> QED
        BY <2>3, <3>4, <3>5
    <2> QED
      BY <2>1, <2>3, <2>4
  <1> QED
    BY <1>3, <1>4

LEMMA FinishReview ==
    ASSUME Undisturbed, Together, FinishCall
    PROVE  ReviewInv'
PROOF
  <1> DEFINE Answered == disk' = [disk EXCEPT !.status = "succeeded"] /\ Goto("off")
             Accepted == \/ DeviceOk(R, K) /\ Completable(run[R])
                         \/ RetryOk(R, K, "succeeded")
             Handler == IF Active(run[R]) THEN CompleteHandler(R) ELSE UNCHANGED serverVars
  <1>1. /\ pc = "finish.complete" /\ recorded' = recorded
        /\ Call(Accepted, Handler, Answered)
    BY DEF FinishCall
  <1>2. Busy
    BY <1>1 DEF Busy, InReview, RebootPlaces
  <1>3. run'[R].status = "needs_review" => run[R].status = "needs_review"
    <2>1. R \in Runs /\ run \in [Runs -> RunRow] /\ run[R] \in RunRow
      BY MachineAssumption DEF Together, MachineInv, IInv, ServerTypeOK
    <2>2. CompleteHandler(R) => run'[R].status = "succeeded"
      BY <2>1 DEF CompleteHandler, SetRun, RunRow
    <2>3. Handler \/ UNCHANGED serverVars
      BY <1>1 DEF Call
    <2> QED
      BY <2>2, <2>3 DEF serverVars
  <1>4. CASE Answered
    <2>1. Home
      BY <1>2, BusyAt
    <2>2. disk'.status = "succeeded" /\ disk'.queue = disk.queue /\ pc' = "off"
      BY <1>4, <2>1 DEF Home, Fields, Goto
    <2> QED
      BY <1>2, <1>3, <2>2, BusyStep DEF Over, InReview, RebootPlaces, Emptied
  <1>5. CASE ~Answered
    <2> HIDE DEF Answered, Accepted, Handler
    <2> QED
      BY <1>1, <1>2, <1>3, <1>5, CallReview
  <1> QED
    BY <1>4, <1>5

LEMMA FlushesReview ==
    ASSUME Undisturbed, Together, Flushes
    PROVE  ReviewInv'
PROOF
  <1>1. ASSUME NEW at \in {"reboot.flushed", "manifest.flush", "step.flush", "step.started",
                           "finish.flush", "step.done"},
               NEW next \in {"begin.auth", "loop", "step.secrets", "check", "finish.complete",
                             "step.next"},
               NEW otherwise \in {"down", "step.next"}, pc = at,
               Flush(next, NetworkFailure(disk, otherwise), Refused)
        PROVE  ReviewInv'
    <2>1. Busy
      BY <1>1 DEF Busy, InReview, RebootPlaces
    <2>2. next \notin InReview \cup RebootPlaces \cup {"reboot.resume"}
      BY DEF InReview, RebootPlaces
    <2> QED
      BY <1>1, <2>1, <2>2, FlushReview
  <1>2. ASSUME NEW at \in {"reboot.flushed", "manifest.flush", "step.flush", "step.started",
                           "finish.flush"},
               NEW next \in {"begin.auth", "loop", "step.secrets", "check", "finish.complete"},
               Flushing(at, next)
        PROVE  ReviewInv'
    <2>1. pc = at /\ Flush(next, NetworkFailure(disk, "down"), Refused)
      BY <1>2 DEF Flushing, Lost
    <2> QED
      BY <1>1, <2>1
  <1>3. CASE \/ Flushing("reboot.flushed", "begin.auth") \/ Flushing("manifest.flush", "loop")
             \/ Flushing("step.flush", "step.secrets") \/ Flushing("step.started", "check")
             \/ Flushing("finish.flush", "finish.complete")
    BY <1>2, <1>3
  <1>4. CASE pc = "step.done" /\ Flush("step.next", NetworkFailure(disk, "step.next"), Refused)
    BY <1>1, <1>4
  <1> QED
    BY <1>3, <1>4, ReviewFlush, CancelFlushReview DEF Flushes

LEMMA LeasesReview ==
    ASSUME Undisturbed, Together, Leases
    PROVE  ReviewInv'
PROOF
  <1>1. PICK at, next : /\ Authorize(at, next)
                        /\ <<at, next>> \in {<<"begin.auth", "manifest">>, <<"step.auth", "step.flush">>,
                                             <<"apply.auth", "apply.start">>,
                                             <<"reboot.auth", "rebooting">>}
    BY DEF Leases
  <1>2. /\ pc = at /\ recorded' = recorded /\ DOMAIN disk = Fields
        /\ at \in {"begin.auth", "step.auth", "apply.auth", "reboot.auth"}
        /\ next \in {"manifest", "step.flush", "apply.start", "rebooting"}
        /\ next = "rebooting" => at = "reboot.auth"
    BY <1>1 DEF Authorize, Together, RunnerInv, Shaped
  <1>3. (Busy \/ at = "reboot.auth") /\ disk.status \notin Over
    <2>1. CASE at = "reboot.auth"
      BY <1>2, <2>1 DEF Together, ReturnInv, RebootAt, RebootPlaces, Over
    <2>2. CASE at # "reboot.auth"
      <3>1. Busy
        BY <1>2, <2>2 DEF Busy, InReview, RebootPlaces
      <3> QED
        BY <3>1, BusyAt
    <2> QED
      BY <2>1, <2>2
  <1>4. LeaseHandler(R) \/ UNCHANGED serverVars
    BY <1>1 DEF Authorize, RenewLease
  <1>5. run'[R].status = "needs_review" => run[R].status = "needs_review"
    BY <1>4, Unheeded DEF GoesOn
  <1>6. DOMAIN Leased = Fields /\ Leased.queue = disk.queue /\ Leased.status = disk.status
    BY <1>2, LeasedFields
  <1>7. CASE disk'.status = disk.status /\ disk'.queue = disk.queue /\ pc' \in {next, "halt", "down"}
    <2>1. pc' \notin InReview \cup Emptied /\ pc # "halt"
      BY <1>2, <1>7 DEF InReview, Emptied
    <2>2. Away' => Away
      <3>1. CASE at = "reboot.auth"
        BY <1>2, <3>1 DEF Away
      <3>2. CASE at # "reboot.auth"
        <4>1. pc' \in {"manifest", "step.flush", "apply.start", "halt", "down"}
          BY <1>2, <1>7, <3>2
        <4>2. disk'.status # "reboot_pending"
          BY <1>3, <1>7, <3>2, BusyAt DEF Home
        <4> QED
          BY <4>1, <4>2 DEF Away
      <3> QED
        BY <3>1, <3>2
    <2> QED
      BY <1>3, <1>5, <1>7, <2>1, <2>2, Passing DEF Together
  <1>8. CASE LeaseHandler(R) /\ disk' = Leased /\ Goto(AfterLease(next)) /\ AfterLease(next) = "cancel"
    <2>1. LeaseAction(R) = "stop" /\ pc # "halt" /\ Goto("cancel")
      BY <1>2, <1>8, AfterLeaseAt
    <2> QED
      BY <1>3, <1>8, <2>1, ToldToStop DEF Over
  <1>9. CASE Halt(disk)
    BY <1>2, <1>3, <1>4, <1>9, BusyHalt
  <1>10. Lost => disk'.status = disk.status /\ disk'.queue = disk.queue /\ pc' = "down"
    BY <1>2, LostDown DEF Lost
  <1>11. \/ LeaseHandler(R) /\ disk' = Leased /\ Goto(AfterLease(next))
         \/ Halt(disk) \/ Lost
    BY <1>1 DEF Authorize, RenewLease, Refused
  <1>12. AfterLease(next) \in {next, "cancel", "halt", "down"}
    BY AfterLeaseAt
  <1> QED
    BY <1>6, <1>7, <1>8, <1>9, <1>10, <1>11, <1>12 DEF Goto

\* What else the server does is no resume.
LEMMA OtherRequests ==
    ASSUME Together, ResumeRun(R),
           NEW request, request => UNCHANGED run \/ Maintain \/ (\E h \in Hosts : Approve(h, R))
                                \/ ServeAnswer(R) \/ InstallerReport(R) \/ CancelRun(R)
                                \/ ReconcileRun(R)
    PROVE  ~request
PROOF
  <1>1. R \in Runs /\ run \in [Runs -> RunRow] /\ run[R] \in RunRow
    BY MachineAssumption DEF Together, MachineInv, IInv, ServerTypeOK
  <1>2. \A row : run' = [run EXCEPT ![R] = row] => run'[R] = row
    BY <1>1
  <1>3. run[R].status = "needs_review" /\ run'[R].status = "runner_ready"
    BY <1>1, <1>2 DEF ResumeRun, SetRun, RunRow
  <1>4. ~UNCHANGED run /\ ~Maintain
    BY <1>1, <1>3 DEF Maintain, Expired
  <1>5. ~ServeAnswer(R) /\ ~InstallerReport(R) /\ \A h \in Hosts : ~Approve(h, R)
    BY <1>3 DEF ServeAnswer, AnswerDue, ApprovalOpen, InstallerReport, Approve
  <1>6. ~CancelRun(R)
    <2>1. CancelledByOperator(run[R]).status = "needs_review"
      BY <1>1, <1>3 DEF CancelledByOperator, RunRow
    <2> QED
      BY <1>2, <1>3, <2>1 DEF CancelRun, SetRun
  <1>7. ~ReconcileRun(R)
    <2>1. ReconcileRun(R) => run'[R].status = "cancelled"
      BY <1>1, <1>2 DEF ReconcileRun, SetRun, RunRow
    <2> QED
      BY <1>3, <2>1
  <1> QED
    BY <1>4, <1>5, <1>6, <1>7

LEMMA OthersReview ==
    ASSUME Together, Heartbeat \/ ServerSide \/ Time \/ UNCHANGED vars
    PROVE  ReviewInv'
PROOF
  <1>1. GoesOn
    <2>1. Beside \/ LeaseHandler(R) \/ UNCHANGED serverVars
      BY DEF Heartbeat, ServerSide, Time, vars, Beside
    <2> QED
      BY <2>1, RowGoesOn DEF Together, MachineInv
  <1>2. UNCHANGED <<pc, recorded>>
    BY DEF Heartbeat, ServerSide, Time, vars, machineVars, netVars
  <1>3. DOMAIN disk = Fields
    BY DEF Together, RunnerInv, Shaped
  <1>4. disk' = disk \/ disk' = Leased \/ disk' = [disk EXCEPT !.netFailed = TRUE]
    BY DEF Heartbeat, ServerSide, Time, vars, machineVars
  <1>5. disk'.status = disk.status /\ disk'.queue = disk.queue
    <2>1. CASE disk' = Leased
      BY <1>3, <2>1, LeasedFields
    <2>2. CASE disk' = disk \/ disk' = [disk EXCEPT !.netFailed = TRUE]
      BY <1>3, <2>2 DEF Fields
    <2> QED
      BY <1>4, <2>1, <2>2
  <1>6. IF ResumeRun(R) THEN resumed' = TRUE ELSE resumed' = resumed
    <2>1. resumed' = TRUE \/ resumed' = resumed
      BY DEF Heartbeat, ServerSide, Time, vars, machineVars
    <2> DEFINE request == /\ \/ UNCHANGED run \/ Maintain \/ (\E h \in Hosts : Approve(h, R))
                             \/ ServeAnswer(R) \/ InstallerReport(R) \/ CancelRun(R)
                             \/ ReconcileRun(R)
                          /\ resumed' = resumed
    <2>2. request => ~ResumeRun(R)
      <3>1. request => UNCHANGED run \/ Maintain \/ (\E h \in Hosts : Approve(h, R))
                          \/ ServeAnswer(R) \/ InstallerReport(R) \/ CancelRun(R)
                          \/ ReconcileRun(R)
        OBVIOUS
      <3> HIDE DEF request
      <3> QED
        BY <3>1, OtherRequests
    <2>3. CASE Heartbeat
      <3>1. (LeaseHandler(R) \/ UNCHANGED serverVars) /\ resumed' = resumed
        BY <2>3 DEF Heartbeat
      <3>2. run'[R].status = run[R].status
        BY <3>1, LeaseAnswer DEF serverVars
      <3> QED
        BY <3>1, <3>2, NoResume
    <2>4. CASE ServerSide
      <3>1. request \/ (ResumeRun(R) /\ resumed' = TRUE)
        BY <2>4 DEF ServerSide, UpdateHost, machineVars
      <3> QED
        BY <2>2, <3>1
    <2>5. CASE Time \/ UNCHANGED vars
      <3>1. request
        BY <2>5 DEF Time, Tick, vars, serverVars, machineVars
      <3> QED
        BY <2>2, <3>1
    <2> QED
      BY <2>3, <2>4, <2>5
  <1> QED
    BY <1>1, <1>2, <1>5, <1>6, Waiting DEF Together

LEMMA ReviewNext ==
    Undisturbed /\ Together /\ [Next]_vars => ReviewInv'
PROOF
  <1> SUFFICES ASSUME Undisturbed, Together, [Next]_vars PROVE ReviewInv'
    OBVIOUS
  <1>1. ~Crash /\ ~PowerFail
    BY DEF Undisturbed, NoCrash, Crash, PowerFail
  <1>2. CASE Runner
    <2>1. CASE Bootstrap \/ Start \/ EnrollCall \/ RebootReturn
      BY <2>1, StartReview, EnrollReview, ReturnReview
    <2>2. CASE Manifest \/ LoopStep \/ FetchSecrets \/ NextStep \/ Cancelled \/ FinishCall
      BY <2>2, PlainReview, CancelFlushReview, FinishReview
    <2>3. CASE StepStart \/ CheckPhase \/ ApplyStart \/ ApplyEnd
      BY <2>3, StepStartReview, ApplyReview
    <2>4. CASE RebootEvent \/ RebootFlush \/ Reboot
      BY <2>4, RebootReview
    <2>5. CASE HaltStep \/ HaltFlush \/ Flushes \/ Leases
      BY <2>5, HaltStepReview, ReviewFlush, FlushesReview, LeasesReview
    <2>6. CASE ReviewLease \/ ReviewResume \/ ConfirmCancel
      BY <2>6, ReviewLeaseReview, ReviewResumeReview, ConfirmCancelReview
    <2> QED
      BY <1>2, <2>1, <2>2, <2>3, <2>4, <2>5, <2>6 DEF Runner
  <1>3. CASE Heartbeat \/ ServerSide \/ Time \/ UNCHANGED vars
    BY <1>3, OthersReview
  <1> QED
    BY <1>1, <1>2, <1>3 DEF Next

\* The step that leaves the review for work follows the answer to its lease.
LEMMA ReviewLeft ==
    ASSUME Undisturbed, Together, [Next]_vars,
           disk.status = "needs_review", disk'.status = "running"
    PROVE  resumed
PROOF
  <1>1. pc \in InReview \cup {"down"} /\ DOMAIN disk = Fields
    BY DEF Together, ReviewInv, ReviewAt, RunnerInv, Shaped
  <1>2. disk' # disk
    OBVIOUS
  <1>3. \/ HaltStep \/ HaltFlush \/ Flushing("review.flush", "review.lease")
        \/ ReviewLease \/ ReviewResume \/ ConfirmCancel
    <2>1. ~Crash /\ ~PowerFail /\ ~Heartbeat /\ ~ServerSide /\ ~Time /\ ~UNCHANGED vars
      BY <1>1, <1>2 DEF Crash, PowerFail, Heartbeat, ServerSide, Time, vars, machineVars, InReview
    <2>2. Runner
      BY <2>1 DEF Next
    <2>3. ~Leases
      BY <1>1 DEF Leases, Authorize, InReview
    <2>4. Flushes => Flushing("review.flush", "review.lease")
      BY <1>1 DEF Flushes, Flushing, InReview
    <2>5. ~(Bootstrap \/ Start \/ EnrollCall \/ RebootReturn \/ Manifest \/ LoopStep \/ FetchSecrets)
      BY <1>1, <1>2 DEF Bootstrap, Start, EnrollCall, RebootReturn, Manifest, LoopStep, FetchSecrets,
                        InReview
    <2>6. ~(StepStart \/ CheckPhase \/ ApplyStart \/ ApplyEnd \/ NextStep \/ Cancelled \/ FinishCall)
      BY <1>1 DEF StepStart, CheckPhase, ApplyStart, ApplyEnd, NextStep, Cancelled, FinishCall,
                  InReview
    <2>7. ~(RebootEvent \/ RebootFlush \/ Reboot)
      BY <1>1 DEF RebootEvent, RebootFlush, Reboot, InReview
    <2> QED
      BY <2>2, <2>3, <2>4, <2>5, <2>6, <2>7 DEF Runner
  <1>4. CASE ReviewLease \/ ReviewResume \/ ConfirmCancel
    BY <1>4, ReviewLeaseReview, ReviewResumeReview, ConfirmCancelReview
  <1>5. Halt(disk) => disk'.status = "needs_review"
    BY <1>1 DEF Halt, Fields
  <1>6. [disk EXCEPT !.queue = <<>>].status = disk.status
    BY <1>1 DEF Fields
  <1>7. CASE HaltStep
    <2>1. ASSUME Report(disk, "run.needs_review", "halt.flush"), ~QueueFull(disk)
          PROVE  disk'.status = "needs_review"
      BY <1>1, <2>1, Reporting
    <2> QED
      BY <1>5, <1>7, <2>1 DEF HaltStep
  <1>8. CASE HaltFlush
    BY <1>6, <1>8 DEF HaltFlush, Flush
  <1>9. CASE Flushing("review.flush", "review.lease")
    <2>1. Lost => disk'.status = disk.status
      BY <1>1, LostDown DEF Lost
    <2> QED
      BY <1>5, <1>6, <1>9, <2>1 DEF Flushing, Flush, Refused
  <1> QED
    BY <1>3, <1>4, <1>7, <1>8, <1>9

\* Only an explicit server-side resume permits recovery (runner.py:545): where nothing
\* crashes, no network deadline passes and the queue has room for the report of a halt, the
\* runner goes back to work only if an operator resumed the run (app.py:469) after the halt.
THEOREM ResumedByOperator ==
    ASSUME Undisturbed
    PROVE  Spec => OnlyOperatorResumes
PROOF
  <1>1. Init => Together
    BY RunnerInit, MachineInit, ReturnInit, ReviewInit DEF Together
  <1>2. Together /\ [Next]_vars => Together'
    BY RunnerNext, MachineNext, ReturnNext, ReviewNext DEF Together, Undisturbed
  <1>3. Together /\ [Next]_vars
          => [disk.status = "needs_review" /\ disk'.status = "running" => resumed]_vars
    BY ReviewLeft
  <1> QED
    BY <1>1, <1>2, <1>3, PTL DEF Spec, OnlyOperatorResumes

-----------------------------------------------------------------------------
(* The steps of the manifest, as machine and server tell them *)

\* Where the loop of run() has not begun yet.
Opening == {"enroll", "begin.auth", "manifest", "manifest.flush", "reboot.return", "reboot.resume",
            "reboot.flushed", "review.flush", "review.lease", "review.resume"}

Looping == {"loop"} \cup InStep

\* The loop leaves a step behind with its result, and a required one only with success.
Done(s) == disk.steps[s] \in Ended /\ (s \in Required => disk.steps[s] = "succeeded")

PlacesInv ==
    /\ pc \in Emptied => disk.queue = <<>>
    /\ pc \in Opening => cur = 1
    /\ pc \in Looping => \A p \in 1..(cur - 1) : Done(p)
    /\ pc \in Behind => Done(cur)

FailureQueued(s) ==
    /\ recorded = 0 /\ disk.queue # <<>>
    /\ disk.queue[1].type = "step.failed" /\ disk.queue[1].step = s

\* Only the oldest event of the queue tells of a step, and what it tells has not changed since.
QueueInv ==
    /\ \A i \in 2..Len(disk.queue) : disk.queue[i].type \notin StepEvents
    /\ disk.queue # <<>> /\ disk.queue[1].type = "step.started"
          => disk.steps[disk.queue[1].step] \notin Ended
    /\ \A s \in Steps : disk.steps[s] = "failed" => run[R].steps[s] = "failed" \/ FailureQueued(s)

StepsInv == PlacesInv /\ QueueInv

LEMMA StepsInit == Init => StepsInv
PROOF
  <1> SUFFICES ASSUME Init PROVE StepsInv
    OBVIOUS
  <1>1. /\ pc = "bare" /\ disk.queue = <<>> /\ Len(disk.queue) = 0
        /\ \A s \in Steps : disk.steps[s] = "none"
    BY DEF Init
  <1>2. PlacesInv
    BY <1>1 DEF PlacesInv, Opening, Looping, InStep, Before, Decided, Behind
  <1>3. QueueInv
    BY <1>1 DEF QueueInv
  <1> QED
    BY <1>2, <1>3 DEF StepsInv

\* What one event does to the steps of a row.
LEMMA EventSteps ==
    ASSUME NEW row \in RunRow, NEW e, Fits(e)
    PROVE  \A s \in Steps : AfterEvent(row, e).steps[s] =
              IF e.type \in StepEvents /\ e.step = s THEN StepAfter(e) ELSE row.steps[s]
PROOF
  <1> DEFINE new == AfterEvent(row, e)
  <1>1. row.steps \in [Steps -> StepStatus]
    BY DEF RunRow
  <1>2. CASE e.type \in StepEvents
    <2>1. e.step \in Steps
      BY <1>2 DEF StepEvents, Fits
    <2>2. new = [row EXCEPT !.status = StatusAfter(row, e), !.version = @ + 1,
                            !.steps[e.step] = StepAfter(e)]
      BY <1>2 DEF AfterEvent, StepEvents
    <2>3. new.steps = [row.steps EXCEPT ![e.step] = StepAfter(e)]
      BY <2>2 DEF RunRow
    <2> HIDE DEF new
    <2> QED
      BY <1>1, <1>2, <2>1, <2>3 DEF new
  <1>3. CASE e.type \notin StepEvents
    <2>1. new.steps = row.steps
      BY <1>3 DEF AfterEvent, RunRow, StepEvents
    <2> QED
      BY <1>3, <2>1
  <1> QED
    BY <1>2, <1>3

\* A batch of which only the first event may tell of a step.
LEMMA BatchSteps ==
    ASSUME IInv, R \in Runs, NEW events \in Seq(Reports), Applied(events).ok,
           run[R].status # "prepared", events # <<>>,
           \A i \in 2..Len(events) : events[i].type \notin StepEvents
    PROVE  \A s \in Steps : Applied(events).row.steps[s] =
              IF events[1].type \in StepEvents /\ events[1].step = s
              THEN StepAfter(events[1]) ELSE run[R].steps[s]
PROOF
  <1> DEFINE N == Len(events)
             Row(n) == AppliedTo(events)[n].row
             Told(s) == IF events[1].type \in StepEvents /\ events[1].step = s
                        THEN StepAfter(events[1]) ELSE run[R].steps[s]
             S == {n \in 0..N : n > 0 => \A s \in Steps : Row(n).steps[s] = Told(s)}
  <1>1. N \in Nat /\ N > 0 /\ Row(0) = run[R]
    BY AppliedRows
  <1>2. ASSUME NEW n \in 1..N
        PROVE  \A s \in Steps : Row(n).steps[s] =
                  IF events[n].type \in StepEvents /\ events[n].step = s
                  THEN StepAfter(events[n]) ELSE Row(n - 1).steps[s]
    <2> DEFINE before == Row(n - 1)
               e == events[n]
    <2>1. Row(n) = AfterEvent(before, e)
      BY <1>1, BatchAccepted
    <2>2. before \in RunRow
      BY BatchRows
    <2>3. Fits(e)
      BY DEF Reports
    <2> HIDE DEF before, e, Row
    <2>4. \A s \in Steps : AfterEvent(before, e).steps[s] =
             IF e.type \in StepEvents /\ e.step = s THEN StepAfter(e) ELSE before.steps[s]
      BY <2>2, <2>3, EventSteps
    <2> QED
      BY <2>1, <2>4 DEF before, e
  <1> HIDE DEF Row
  <1>3. 0 \in S
    BY <1>1
  <1>4. ASSUME NEW n \in 1..N, n - 1 \in S PROVE n \in S
    <2>1. CASE n = 1
      <3>1. \A s \in Steps : Row(1).steps[s] = Told(s)
        BY <1>1, <1>2, <2>1
      <3> QED
        BY <2>1, <3>1
    <2>2. CASE n # 1
      <3>1. n \in 2..N /\ n - 1 > 0
        BY <2>2
      <3>2. \A s \in Steps : Row(n - 1).steps[s] = Told(s)
        BY <1>4, <3>1
      <3>3. \A s \in Steps : Row(n).steps[s] = Told(s)
        BY <1>2, <3>1, <3>2
      <3> QED
        BY <3>3
    <2> QED
      BY <2>1, <2>2
  <1> HIDE DEF S
  <1>5. \A n \in 0..N : n \in S
    BY <1>1, <1>3, <1>4, UpTo
  <1>6. \A s \in Steps : Row(N).steps[s] = Told(s)
    BY <1>1, <1>5 DEF S
  <1> QED
    BY <1>6 DEF Row, Applied

\* The steps of the row after a batch taken from the queue.
LEMMA StoredSteps ==
    ASSUME IInv, Typed, QueueInv, Stored
    PROVE  \A s \in Steps : run'[R].steps[s] =
              IF recorded = 0 /\ disk.queue[1].type \in StepEvents /\ disk.queue[1].step = s
              THEN StepAfter(disk.queue[1]) ELSE run[R].steps[s]
PROOF
  <1>1. disk.queue \in Seq(Reports) /\ recorded \in 0..Len(disk.queue) /\ R \in Runs
    BY MachineAssumption DEF Typed, LocalState
  <1>2. /\ run[R].status # "prepared" /\ Applied(NewEvents).ok
        /\ run'[R] = Applied(NewEvents).row
    BY <1>1, StoreBatchStep DEF Stored
  <1>3. /\ NewEvents \in Seq(Reports) /\ Len(NewEvents) = Len(disk.queue) - recorded
        /\ \A i \in 1..Len(NewEvents) : NewEvents[i] = disk.queue[recorded + i]
        /\ NewEvents = <<>> <=> recorded = Len(disk.queue)
    BY <1>1, NewEventsAre
  <1>4. Len(disk.queue) # 0
    BY <1>1 DEF Stored
  <1>5. CASE NewEvents = <<>>
    <2>1. run'[R] = run[R]
      BY <1>3, <1>5, StoredRow
    <2>2. recorded # 0
      BY <1>3, <1>4, <1>5
    <2> QED
      BY <2>1, <2>2
  <1>6. CASE NewEvents # <<>>
    <2>1. \A i \in 2..Len(NewEvents) : NewEvents[i].type \notin StepEvents
      <3> SUFFICES ASSUME NEW i \in 2..Len(NewEvents) PROVE NewEvents[i].type \notin StepEvents
        OBVIOUS
      <3>1. i \in 1..Len(NewEvents) /\ recorded + i \in 2..Len(disk.queue)
        BY <1>1, <1>3
      <3> QED
        BY <1>3, <3>1 DEF QueueInv
    <2>2. \A s \in Steps : Applied(NewEvents).row.steps[s] =
             IF NewEvents[1].type \in StepEvents /\ NewEvents[1].step = s
             THEN StepAfter(NewEvents[1]) ELSE run[R].steps[s]
      BY <1>1, <1>2, <1>3, <1>6, <2>1, BatchSteps, Zenon
    <2>3. 1 \in 1..Len(NewEvents) /\ recorded + 1 \in 1..Len(disk.queue)
      BY <1>1, <1>3, <1>6
    <2>4. NewEvents[1] = disk.queue[recorded + 1]
      BY <1>3, <2>3
    <2>5. CASE recorded = 0
      BY <1>2, <2>2, <2>4, <2>5
    <2>6. CASE recorded # 0
      <3>1. recorded + 1 \in 2..Len(disk.queue)
        BY <1>1, <2>3, <2>6
      <3>2. NewEvents[1].type \notin StepEvents
        BY <2>4, <3>1 DEF QueueInv
      <3> QED
        BY <1>2, <2>2, <2>6, <3>2
    <2> QED
      BY <2>5, <2>6
  <1> QED
    BY <1>5, <1>6

\* A failure the server knows of, or that the queue tells of, stays known or queued.
LEMMA FailuresHeard ==
    ASSUME MachineInv, QueueInv, Kind, NEW s \in Steps, disk.steps[s] = "failed"
    PROVE  \/ run'[R].steps[s] = "failed"
           \/ /\ FailureQueued(s) /\ recorded' = 0
              /\ disk'.queue # <<>> /\ disk'.queue[1] = disk.queue[1]
PROOF
  <1>1. IInv /\ Typed /\ Untouched /\ ResultsInv
    BY DEF MachineInv
  <1>2. disk.queue \in Seq(Reports) /\ recorded \in 0..Len(disk.queue)
    BY <1>1 DEF Typed, LocalState
  <1>3. run[R].steps[s] = "failed" \/ FailureQueued(s)
    BY DEF QueueInv
  <1>4. CASE Stored
    <2>1. disk.queue # <<>> /\ 1 \in 1..Len(disk.queue)
      BY <1>2, <1>4 DEF Stored
    <2>2. run'[R].steps[s] =
              IF recorded = 0 /\ disk.queue[1].type \in StepEvents /\ disk.queue[1].step = s
              THEN StepAfter(disk.queue[1]) ELSE run[R].steps[s]
      BY <1>1, <1>4, StoredSteps
    <2>3. CASE recorded = 0 /\ disk.queue[1].type \in StepEvents /\ disk.queue[1].step = s
      <3>1. disk.queue[1].type # "step.started"
        BY <2>1, <2>3 DEF QueueInv, Ended
      <3>2. disk.queue[1].type # "step.succeeded"
        BY <1>1, <2>1, <2>3 DEF ResultsInv
      <3> QED
        BY <2>2, <2>3, <3>1, <3>2 DEF StepAfter
    <2>4. CASE ~(recorded = 0 /\ disk.queue[1].type \in StepEvents /\ disk.queue[1].step = s)
      BY <1>3, <2>2, <2>4 DEF FailureQueued, StepEvents
    <2> QED
      BY <2>3, <2>4
  <1>5. CASE ~Stored
    <2>1. Calm(run[R], run'[R])
      BY <1>1, <1>5, KindServer
    <2>2. run[R].status # "absent"
      BY <1>1 DEF Untouched
    <2>3. run'[R].steps = run[R].steps
      BY <2>1, <2>2 DEF Calm
    <2>4. CASE FailureQueued(s)
      <3>1. disk.queue # <<>> /\ 1 \in 1..Len(disk.queue) /\ recorded = 0
        BY <1>2, <2>4 DEF FailureQueued
      <3>2. CASE Ordinary
        <4>1. /\ recorded' = recorded /\ disk'.queue \in Seq(Reports)
              /\ Len(disk'.queue) \in {Len(disk.queue), Len(disk.queue) + 1}
              /\ \A i \in 1..Len(disk.queue) : disk'.queue[i] = disk.queue[i]
          BY <1>1, <3>2, OrdinaryQueue
        <4>2. disk'.queue # <<>>
          BY <1>2, <3>1, <4>1
        <4> QED
          BY <2>4, <3>1, <4>1, <4>2
      <3>3. CASE Confirmed \/ Finished
        <4>1. DOMAIN disk = Fields
          BY <1>1 DEF Typed, LocalState, Fields
        <4>2. disk'.queue = disk.queue /\ recorded' = recorded
          BY <3>3, <4>1 DEF Confirmed, Finished, Fields
        <4> QED
          BY <2>4, <3>1, <4>2
      <3> QED
        BY <1>5, <3>1, <3>2, <3>3 DEF Kind, Taken, TakenUnheard, Stored, StepDone, RebootSaved, RebootTold
    <2> QED
      BY <1>3, <2>3, <2>4
  <1> QED
    BY <1>4, <1>5

-----------------------------------------------------------------------------
(* What steps do to the steps of the manifest *)

\* What machine and server are known to agree on, and the kind of the step.
Agreeing == RunnerInv /\ MachineInv /\ StepsInv /\ Kind

\* No checkpoint is touched, and nothing about a step is reported.
Alike ==
    /\ disk'.steps = disk.steps
    /\ \/ disk'.queue \in {disk.queue, <<>>}
       \/ \E e \in Reports : e.type \notin StepEvents /\ disk'.queue = Append(disk.queue, e)

LEMMA AlikeQueue ==
    ASSUME Agreeing, Alike
    PROVE  QueueInv'
PROOF
  <1>1. MachineInv /\ QueueInv /\ Kind
    BY DEF Agreeing, StepsInv
  <1>2. disk.queue \in Seq(Reports)
    BY <1>1 DEF MachineInv, Typed, LocalState
  <1>3. \A s \in Steps : disk'.steps[s] = "failed" => run'[R].steps[s] = "failed" \/ FailureQueued(s)'
    <2> SUFFICES ASSUME NEW s \in Steps, disk.steps[s] = "failed"
                 PROVE  run'[R].steps[s] = "failed" \/ FailureQueued(s)'
      BY DEF Alike
    <2>1. \/ run'[R].steps[s] = "failed"
          \/ /\ FailureQueued(s) /\ recorded' = 0
             /\ disk'.queue # <<>> /\ disk'.queue[1] = disk.queue[1]
      BY <1>1, FailuresHeard
    <2> QED
      BY <2>1 DEF FailureQueued
  <1>4. CASE disk'.queue = disk.queue
    <2>1. /\ \A i \in 2..Len(disk'.queue) : disk'.queue[i].type \notin StepEvents
          /\ disk'.queue # <<>> /\ disk'.queue[1].type = "step.started"
                => disk'.steps[disk'.queue[1].step] \notin Ended
      BY <1>1, <1>4 DEF Alike, QueueInv
    <2> QED
      BY <1>3, <2>1 DEF QueueInv
  <1>5. CASE disk'.queue = <<>>
    <2>1. Len(disk'.queue) = 0
      BY <1>5
    <2> QED
      BY <1>3, <1>5, <2>1 DEF QueueInv
  <1>6. ASSUME NEW e \in Reports, e.type \notin StepEvents, disk'.queue = Append(disk.queue, e)
        PROVE  QueueInv'
    <2>1. /\ Len(disk'.queue) = Len(disk.queue) + 1 /\ Len(disk.queue) \in Nat
          /\ \A i \in 1..Len(disk.queue) : disk'.queue[i] = disk.queue[i]
          /\ disk'.queue[Len(disk.queue) + 1] = e
      BY <1>2, <1>6, AppendProperties
    <2>2. \A i \in 2..Len(disk'.queue) : disk'.queue[i].type \notin StepEvents
      <3> SUFFICES ASSUME NEW i \in 2..Len(disk'.queue) PROVE disk'.queue[i].type \notin StepEvents
        OBVIOUS
      <3>1. (i \in 2..Len(disk.queue) /\ i \in 1..Len(disk.queue)) \/ i = Len(disk.queue) + 1
        BY <2>1
      <3> QED
        BY <1>1, <1>6, <2>1, <3>1 DEF QueueInv
    <2>3. ASSUME disk'.queue # <<>>, disk'.queue[1].type = "step.started"
          PROVE  disk'.steps[disk'.queue[1].step] \notin Ended
      <3>1. Len(disk.queue) # 0
        BY <1>6, <2>1, <2>3 DEF StepEvents
      <3>2. disk.queue # <<>> /\ disk'.queue[1] = disk.queue[1]
        BY <1>2, <2>1, <3>1
      <3> QED
        BY <1>1, <2>3, <3>2 DEF Alike, QueueInv
    <2> QED
      BY <1>3, <2>2, <2>3 DEF QueueInv
  <1> QED
    BY <1>4, <1>5, <1>6 DEF Alike

\* The queue is empty, and at most the first event in it will tell of a step.
LEMMA FirstQueue ==
    ASSUME Agreeing, disk.queue = <<>>, recorded' = recorded,
           \/ disk'.queue = <<>>
           \/ \E e : disk'.queue = <<e>> /\ (e.type = "step.started" => disk'.steps[e.step] \notin Ended),
           \A s \in Steps : disk'.steps[s] = "failed" =>
              \/ disk.steps[s] = "failed"
              \/ disk'.queue # <<>> /\ disk'.queue[1].type = "step.failed" /\ disk'.queue[1].step = s
    PROVE  QueueInv'
PROOF
  <1>1. MachineInv /\ QueueInv /\ Kind
    BY DEF Agreeing, StepsInv
  <1>2. recorded' = 0
    BY <1>1 DEF MachineInv, Typed
  <1>3. \A s \in Steps : disk'.steps[s] = "failed" => run'[R].steps[s] = "failed" \/ FailureQueued(s)'
    <2> SUFFICES ASSUME NEW s \in Steps, disk'.steps[s] = "failed"
                 PROVE  run'[R].steps[s] = "failed" \/ FailureQueued(s)'
      OBVIOUS
    <2>1. CASE disk.steps[s] = "failed"
      BY <1>1, <2>1, FailuresHeard DEF FailureQueued
    <2>2. CASE disk.steps[s] # "failed"
      BY <1>2, <2>2 DEF FailureQueued
    <2> QED
      BY <2>1, <2>2
  <1>4. CASE disk'.queue = <<>>
    <2>1. Len(disk'.queue) = 0
      BY <1>4
    <2> QED
      BY <1>3, <1>4, <2>1 DEF QueueInv
  <1>5. ASSUME NEW e, disk'.queue = <<e>>, e.type = "step.started" => disk'.steps[e.step] \notin Ended
        PROVE  QueueInv'
    <2>1. Len(disk'.queue) = 1 /\ disk'.queue[1] = e
      BY <1>5, OneQueued
    <2> QED
      BY <1>3, <1>5, <2>1 DEF QueueInv
  <1> QED
    BY <1>4, <1>5

\* Outside the loop, and not on the way into it.
Aside == {"bare", "down", "halt", "halt.event", "halt.flush", "gave.up", "cancel", "cancel.flush",
          "cancel.save", "off", "finish.flush", "finish.complete", "reboot.event", "reboot.flush",
          "reboot.auth", "rebooting"}

LEMMA AsidePlaces == pc' \in Aside => PlacesInv'
PROOF
  BY DEF Aside, PlacesInv, Emptied, Opening, Looping, InStep, Before, Decided, Behind

\* Where the process may go on to without another look at the steps.
Leads(next) ==
    /\ next \in Opening => cur = 1
    /\ next \in Looping => pc \in Looping \/ cur = 1
    /\ next \in Behind => pc \in Behind \/ Done(cur)

LEMMA PlacesKept ==
    ASSUME PlacesInv, NEW next, Leads(next), pc' = next, cur' = cur,
           disk'.steps = disk.steps, next \in Emptied => disk'.queue = <<>>
    PROVE  PlacesInv'
PROOF
  <1>1. \A s : Done(s)' <=> Done(s)
    BY DEF Done
  <1>2. ASSUME pc' \in Looping PROVE \A p \in 1..(cur - 1) : Done(p)
    <2>1. CASE pc \in Looping
      BY <2>1 DEF PlacesInv
    <2>2. CASE cur = 1
      BY <2>2
    <2> QED
      BY <1>2, <2>1, <2>2 DEF Leads
  <1>3. pc' \in Behind => Done(cur)
    BY DEF Leads, PlacesInv
  <1>4. pc' \in Opening => cur' = 1
    BY DEF Leads
  <1>5. pc' \in Looping => \A p \in 1..(cur' - 1) : Done(p)'
    BY <1>1, <1>2
  <1>6. pc' \in Behind => Done(cur)'
    BY <1>1, <1>3
  <1>7. pc' \in Emptied => disk'.queue = <<>>
    OBVIOUS
  <1> QED
    BY <1>4, <1>5, <1>6, <1>7 DEF PlacesInv

\* A step that goes on to a given place, or aside.
LEMMA StepsKept ==
    ASSUME Agreeing, Alike, NEW next, Leads(next), pc' \in Aside \cup {next}, cur' = cur,
           next \in Emptied => pc' \in Aside \/ disk'.queue = <<>>
    PROVE  StepsInv'
PROOF
  <1>1. QueueInv'
    BY AlikeQueue
  <1>2. CASE pc' \in Aside
    BY <1>1, <1>2, AsidePlaces DEF StepsInv
  <1>3. CASE pc' = next /\ pc' \notin Aside
    <2>1. PlacesInv
      BY DEF Agreeing, StepsInv
    <2>2. PlacesInv'
      BY <1>3, <2>1, PlacesKept DEF Alike
    <2> QED
      BY <1>1, <2>2 DEF StepsInv
  <1> QED
    BY <1>2, <1>3

\* The state to be saved has the checkpoints and the queue of the one on disk.
SameSteps(d) == DOMAIN d = Fields /\ d.steps = disk.steps /\ d.queue = disk.queue

LEMMA SameAlike ==
    ASSUME NEW d, SameSteps(d), disk' = d
    PROVE  Alike
PROOF
  BY DEF SameSteps, Alike

LEMMA LeasedSteps == DOMAIN disk = Fields => SameSteps(disk) /\ SameSteps(Leased)
PROOF
  BY LeasedFields DEF SameSteps

LEMMA HaltAlike ==
    ASSUME NEW d, SameSteps(d), Halt(d)
    PROVE  Alike /\ pc' \in Aside
PROOF
  BY DEF Halt, SameSteps, Fields, Alike, Aside

LEMMA FailureAlike ==
    ASSUME NEW next, DOMAIN disk = Fields, NetworkFailure(disk, next)
    PROVE  Alike /\ pc' \in Aside \cup {next}
PROOF
  <1>1. CASE disk' = [disk EXCEPT !.netFailed = TRUE] /\ Goto(next)
    BY <1>1 DEF Fields, Goto, Alike
  <1>2. CASE Halt(disk)
    BY <1>2, HaltAlike, LeasedSteps
  <1> QED
    BY <1>1, <1>2 DEF NetworkFailure

LEMMA StopAlike ==
    ASSUME DOMAIN disk = Fields, Lost \/ Refused
    PROVE  Alike /\ pc' \in Aside
PROOF
  <1>1. CASE Lost
    BY <1>1, FailureAlike DEF Lost, Aside
  <1>2. CASE Refused
    BY <1>2, HaltAlike, LeasedSteps DEF Refused
  <1> QED
    BY <1>1, <1>2

\* event() with a report that is not about a step.
LEMMA ReportAlike ==
    ASSUME Typed, NEW d, SameSteps(d), NEW type \in EventTypes \ ({"heartbeat"} \cup StepEvents),
           NEW next, Report(d, type, next)
    PROVE  Alike /\ pc' \in Aside \cup {next}
PROOF
  <1> DEFINE e == Event(type, StepOf(type), BootOf(type))
  <1>1. e \in Reports /\ e.type \notin StepEvents
    <2>1. e.type = type
      BY DEF Event
    <2> QED
      BY <2>1, EventReported
  <1>2. CASE ~QueueFull(d)
    <2>1. disk' = [d EXCEPT !.queue = Append(@, e)] /\ pc' = next
      BY <1>2 DEF Report, Goto
    <2> HIDE DEF e
    <2>2. disk'.steps = disk.steps /\ disk'.queue = Append(disk.queue, e)
      BY <2>1 DEF SameSteps, Fields
    <2> QED
      BY <1>1, <2>1, <2>2 DEF Alike
  <1>3. CASE QueueFull(d)
    BY <1>3 DEF Report, SameSteps, Fields, Alike, Aside
  <1> QED
    BY <1>2, <1>3

LEMMA CancelAlike ==
    ASSUME Typed, SameSteps(disk), Cancel(disk)
    PROVE  Alike /\ pc' \in Aside
PROOF
  <1> DEFINE d == [disk EXCEPT !.status = "cancellation_pending"]
  <1>1. SameSteps(d)
    BY DEF SameSteps, Fields
  <1>2. Report(d, "run.cancelled", "cancel.flush")
    BY DEF Cancel
  <1> HIDE DEF d
  <1>3. "run.cancelled" \in EventTypes \ ({"heartbeat"} \cup StepEvents)
    BY DEF EventTypes, StepEvents
  <1>4. Alike /\ pc' \in Aside \cup {"cancel.flush"}
    BY <1>1, <1>2, <1>3, ReportAlike
  <1> QED
    BY <1>4 DEF Aside

\* A flush: what its failures do is the caller's.
LEMMA FlushAlike ==
    ASSUME DOMAIN disk = Fields, NEW next, NEW lost, NEW refused, Flush(next, lost, refused),
           lost \/ refused => Alike /\ pc' \in Aside \cup {next},
           next \in Emptied => (lost \/ refused => pc' \in Aside)
    PROVE  /\ Alike /\ pc' \in Aside \cup {next}
           /\ next \in Emptied => pc' \in Aside \/ disk'.queue = <<>>
PROOF
  <1>1. CASE Goto(next) /\ disk.queue = <<>> /\ UNCHANGED disk
    BY <1>1 DEF Goto, Alike
  <1>2. CASE Goto(next) /\ disk' = [disk EXCEPT !.queue = <<>>]
    BY <1>2 DEF Goto, Alike, Fields
  <1>3. CASE lost \/ refused
    BY <1>3
  <1> QED
    BY <1>1, <1>2, <1>3 DEF Flush

LEMMA CallAlike ==
    ASSUME DOMAIN disk = Fields, NEW Ok, NEW Handler, NEW Answered, Call(Ok, Handler, Answered), ~Answered
    PROVE  Alike /\ pc' \in Aside
PROOF
  BY StopAlike DEF Call

-----------------------------------------------------------------------------
(* Steps that tell nothing of a step *)

LEMMA AgreeingShape ==
    Agreeing => /\ DOMAIN disk = Fields /\ Typed /\ PlacesInv
                /\ SameSteps(disk) /\ SameSteps(Leased)
PROOF
  BY LeasedSteps DEF Agreeing, RunnerInv, Shaped, MachineInv, StepsInv

LEMMA AsideSteps == Agreeing /\ Alike /\ pc' \in Aside => StepsInv'
PROOF
  BY AlikeQueue, AsidePlaces DEF StepsInv

\* The process stops, starts or is out of the loop, or nothing of it changes.
LEMMA StartSteps ==
    ASSUME Agreeing, Bootstrap \/ Start \/ Reboot \/ Crash \/ PowerFail
    PROVE  StepsInv'
PROOF
  <1>1. UNCHANGED disk
    BY DEF Bootstrap, Start, Reboot, Crash, PowerFail
  <1>2. QueueInv'
    BY <1>1, AlikeQueue DEF Alike
  <1>3. CASE Start
    <2>1. /\ cur' = 1
          /\ pc' \in {"off", "cancel.flush", "review.flush", "finish.flush", "reboot.auth",
                      "reboot.return", "begin.auth", "enroll", "gave.up"}
      BY <1>3 DEF Start, Goto, StartAt, AfterReview
    <2>2. PlacesInv'
      BY <2>1 DEF PlacesInv, Emptied, Looping, InStep, Before, Decided, Behind
    <2> QED
      BY <1>2, <2>2 DEF StepsInv
  <1>4. CASE Bootstrap \/ Reboot \/ Crash \/ PowerFail
    <2>1. pc' \in Aside
      BY <1>4 DEF Bootstrap, Reboot, Crash, PowerFail, Aside
    <2> QED
      BY <1>2, <2>1, AsidePlaces DEF StepsInv
  <1> QED
    BY <1>3, <1>4

LEMMA OthersSteps ==
    ASSUME Agreeing, Heartbeat \/ ServerSide \/ Time \/ UNCHANGED vars
    PROVE  StepsInv'
PROOF
  <1>1. DOMAIN disk = Fields /\ PlacesInv /\ SameSteps(Leased)
    BY AgreeingShape
  <1>2. pc' = pc /\ cur' = cur
    BY DEF Heartbeat, ServerSide, Time, machineVars, vars
  <1>3. disk'.steps = disk.steps /\ disk'.queue = disk.queue
    <2>1. CASE Heartbeat
      <3>1. CASE disk' = Leased
        BY <1>1, <3>1 DEF SameSteps
      <3>2. CASE disk' = [disk EXCEPT !.netFailed = TRUE]
        BY <1>1, <3>2 DEF Fields
      <3> QED
        BY <2>1, <3>1, <3>2 DEF Heartbeat
    <2>2. CASE ServerSide \/ Time \/ UNCHANGED vars
      BY <2>2 DEF ServerSide, Time, machineVars, vars
    <2> QED
      BY <2>1, <2>2
  <1>4. QueueInv'
    BY <1>3, AlikeQueue DEF Alike
  <1>5. PlacesInv'
    <2>1. \A s : Done(s)' <=> Done(s)
      BY <1>3 DEF Done
    <2>2. /\ pc' \in Looping => \A p \in 1..(cur' - 1) : Done(p)'
          /\ pc' \in Behind => Done(cur)'
      BY <1>1, <1>2, <2>1 DEF PlacesInv
    <2> QED
      BY <1>1, <1>2, <1>3, <2>2 DEF PlacesInv
  <1> QED
    BY <1>4, <1>5 DEF StepsInv

\* Calls and saves on the way to the loop, out of it, and on to the secrets.
LEMMA CallsSteps ==
    ASSUME Agreeing, EnrollCall \/ Manifest \/ FetchSecrets \/ FinishCall \/ Cancelled
    PROVE  StepsInv'
PROOF
  <1>1. DOMAIN disk = Fields /\ PlacesInv /\ SameSteps(disk)
    BY AgreeingShape
  <1>2. cur' = cur
    BY DEF EnrollCall, Manifest, FetchSecrets, FinishCall, Cancelled
  <1>3. ASSUME NEW Ok, NEW Handler, NEW Answered, Call(Ok, Handler, Answered), ~Answered
        PROVE  StepsInv'
    <2>1. Alike /\ pc' \in Aside
      BY <1>1, <1>3, CallAlike
    <2> QED
      BY <2>1, AsideSteps
  <1>4. CASE EnrollCall
    <2> DEFINE Answered == disk' = [disk EXCEPT !.enrolled = TRUE] /\ Goto("begin.auth")
    <2>1. pc = "enroll" /\ Call(EnrollAccepted(R, K), EnrollHandler, Answered)
      BY <1>4 DEF EnrollCall
    <2>2. CASE Answered
      <3>1. Alike /\ pc' = "begin.auth"
        BY <1>1, <2>2 DEF Goto, Alike, Fields
      <3>2. Leads("begin.auth") /\ "begin.auth" \notin Emptied
        BY <1>1, <2>1 DEF PlacesInv, Leads, Opening, Looping, InStep, Before, Decided, Behind, Emptied
      <3> QED
        BY <1>2, <3>1, <3>2, StepsKept
    <2> HIDE DEF Answered
    <2>3. CASE ~Answered
      BY <1>3, <2>1, <2>3
    <2> QED
      BY <2>2, <2>3
  <1>5. CASE Manifest
    <2> DEFINE Ok == DeviceOk(R, K) /\ LeaseInForce(R)
               Handler == UNCHANGED serverVars
               Answered == disk' = [disk EXCEPT !.manifest = TRUE] /\ Goto("manifest.flush")
               Cached == Goto("manifest.flush") /\ UNCHANGED disk
    <2>1. pc = "manifest" /\ (Cached \/ Call(Ok, Handler, Answered))
      BY <1>5 DEF Manifest
    <2>2. CASE Answered \/ Cached
      <3>1. Alike /\ pc' = "manifest.flush"
        BY <1>1, <2>2 DEF Goto, Alike, Fields
      <3>2. Leads("manifest.flush") /\ "manifest.flush" \notin Emptied
        BY <1>1, <2>1 DEF PlacesInv, Leads, Opening, Looping, InStep, Before, Decided, Behind, Emptied
      <3> QED
        BY <1>2, <3>1, <3>2, StepsKept
    <2> HIDE DEF Answered, Cached, Ok, Handler
    <2>3. CASE ~(Answered \/ Cached)
      BY <1>3, <2>1, <2>3
    <2> QED
      BY <2>2, <2>3
  <1>6. CASE FetchSecrets
    <2> DEFINE Ok == DeviceOk(R, K) /\ SecretsServed(R, cur)
               Handler == UNCHANGED serverVars
               Answered == Goto("step.start") /\ UNCHANGED disk
    <2>1. pc = "step.secrets" /\ Call(Ok, Handler, Answered)
      BY <1>6 DEF FetchSecrets
    <2>2. CASE Answered
      <3>1. Alike /\ pc' = "step.start"
        BY <2>2 DEF Goto, Alike
      <3>2. Leads("step.start") /\ disk.queue = <<>>
        BY <1>1, <2>1 DEF PlacesInv, Leads, Opening, Looping, InStep, Before, Decided, Behind, Emptied
      <3> QED
        BY <1>2, <2>2, <3>1, <3>2, StepsKept
    <2> HIDE DEF Answered, Ok, Handler
    <2>3. CASE ~Answered
      BY <1>3, <2>1, <2>3
    <2> QED
      BY <2>2, <2>3
  <1>7. ASSUME NEW status, disk' = [disk EXCEPT !.status = status], Goto("off")
        PROVE  StepsInv'
    <2>1. Alike /\ pc' \in Aside
      BY <1>1, <1>7 DEF Goto, Alike, Fields, Aside
    <2> QED
      BY <2>1, AsideSteps
  <1>8. CASE FinishCall
    <2> DEFINE Ok == (DeviceOk(R, K) /\ Completable(run[R])) \/ RetryOk(R, K, "succeeded")
               Handler == IF Active(run[R]) THEN CompleteHandler(R) ELSE UNCHANGED serverVars
               Answered == disk' = [disk EXCEPT !.status = "succeeded"] /\ Goto("off")
    <2>1. Call(Ok, Handler, Answered)
      BY <1>8 DEF FinishCall
    <2>2. CASE Answered
      BY <1>7, <2>2
    <2> HIDE DEF Answered, Ok, Handler
    <2>3. CASE ~Answered
      BY <1>3, <2>1, <2>3
    <2> QED
      BY <2>2, <2>3
  <1>9. CASE Cancelled
    BY <1>7, <1>9 DEF Cancelled
  <1> QED
    BY <1>4, <1>5, <1>6, <1>8, <1>9

\* The reports of a planned reboot, of a halt and of a cancellation.
LEMMA ReportsSteps ==
    ASSUME Agreeing, RebootReturn \/ RebootEvent \/ HaltStep \/ ConfirmCancel
    PROVE  StepsInv'
PROOF
  <1>1. DOMAIN disk = Fields /\ Typed /\ PlacesInv /\ SameSteps(disk)
    BY AgreeingShape
  <1>2. cur' = cur
    BY DEF RebootReturn, RebootEvent, HaltStep, ConfirmCancel
  <1>3. {"run.resumed", "run.reboot_pending", "run.needs_review"}
           \subseteq EventTypes \ ({"heartbeat"} \cup StepEvents)
    BY DEF EventTypes, StepEvents
  <1>4. CASE RebootReturn
    <2>1. pc \in {"reboot.return", "reboot.resume"} /\ cur = 1
      BY <1>1, <1>4 DEF RebootReturn, PlacesInv, Opening
    <2>2. PICK next \in {"reboot.resume", "reboot.flushed"} : Alike /\ pc' \in Aside \cup {next}
      <3>1. CASE disk' = [disk EXCEPT !.status = "running"] /\ Goto("reboot.resume")
        BY <1>1, <3>1 DEF Alike, Goto, Fields
      <3>2. CASE Report(disk, "run.resumed", "reboot.flushed")
        BY <1>1, <1>3, <3>2, ReportAlike
      <3> QED
        BY <1>4, <3>1, <3>2 DEF RebootReturn
    <2>3. Leads(next) /\ next \notin Emptied
      BY <2>1 DEF Leads, Looping, InStep, Before, Decided, Behind, Emptied
    <2> QED
      BY <1>2, <2>2, <2>3, StepsKept
  <1>5. CASE RebootEvent
    <2>1. Alike /\ pc' \in Aside
      BY <1>1, <1>3, <1>5, ReportAlike DEF RebootEvent, Aside
    <2> QED
      BY <2>1, AsideSteps
  <1>6. CASE HaltStep
    <2>1. CASE Halt(disk)
      BY <1>1, <2>1, AsideSteps, HaltAlike
    <2>2. CASE Report(disk, "run.needs_review", "halt.flush")
      <3>1. Alike /\ pc' \in Aside
        BY <1>1, <1>3, <2>2, ReportAlike DEF Aside
      <3> QED
        BY <3>1, AsideSteps
    <2>3. CASE Goto("halt.flush") /\ UNCHANGED disk
      BY <2>3, AsideSteps DEF Goto, Alike, Aside
    <2> QED
      BY <1>6, <2>1, <2>2, <2>3 DEF HaltStep
  <1>7. CASE ConfirmCancel
    BY <1>1, <1>7, CancelAlike, AsideSteps DEF ConfirmCancel
  <1> QED
    BY <1>4, <1>5, <1>6, <1>7

-----------------------------------------------------------------------------
(* The loop, and the steps that tell of a step *)

LEMMA LoopSteps ==
    ASSUME Agreeing, LoopStep \/ NextStep
    PROVE  StepsInv'
PROOF
  <1>1. DOMAIN disk = Fields /\ PlacesInv /\ SameSteps(disk) /\ cur \in Nat \ {0}
    BY AgreeingShape DEF Agreeing, RunnerInv, Shaped
  <1>2. CASE LoopStep
    <2>1. pc = "loop" /\ cur' = cur /\ pc \in Looping
      BY <1>2 DEF LoopStep, Looping
    <2>2. CASE disk' = [disk EXCEPT !.status = "completion_pending"] /\ Goto("finish.flush")
      <3>1. Alike /\ pc' \in Aside
        BY <1>1, <2>2 DEF Alike, Goto, Fields, Aside
      <3> QED
        BY <3>1, AsideSteps
    <2>3. CASE Halt(disk)
      BY <1>1, <2>3, HaltAlike, AsideSteps
    <2>4. CASE /\ ~Unmet /\ UNCHANGED disk
               /\ Goto(IF disk.steps[cur] \in {"succeeded", "failed"} THEN "step.done" ELSE "step.auth")
      <3> DEFINE next == IF disk.steps[cur] \in Ended THEN "step.done" ELSE "step.auth"
      <3>1. Alike /\ pc' = next
        BY <2>4 DEF Alike, Goto, Ended
      <3>2. Leads(next)
        <4>1. disk.steps[cur] \in Ended => Done(cur)
          BY <2>4 DEF Unmet, Done, Ended
        <4> QED
          BY <2>1, <4>1 DEF Leads, Opening, Behind
      <3>3. next \notin Emptied
        BY DEF Emptied
      <3> HIDE DEF next
      <3> QED
        BY <2>1, <3>1, <3>2, <3>3, StepsKept
    <2> QED
      BY <1>2, <2>2, <2>3, <2>4 DEF LoopStep
  <1>3. CASE NextStep
    <2>1. pc = "step.next" /\ cur' = cur + 1 /\ pc' = "loop" /\ UNCHANGED disk
      BY <1>3 DEF NextStep, Goto
    <2>2. QueueInv'
      BY <2>1, AlikeQueue DEF Alike
    <2>3. \A p \in 1..cur : Done(p)
      <3>1. pc \in Looping /\ pc \in Behind
        BY <2>1 DEF Looping, InStep, Behind
      <3>2. \A p \in 1..cur : p \in 1..(cur - 1) \/ p = cur
        BY <1>1
      <3> QED
        BY <1>1, <3>1, <3>2 DEF PlacesInv
    <2>4. \A p \in 1..(cur' - 1) : Done(p)'
      BY <1>1, <2>1, <2>3 DEF Done
    <2>5. pc' \notin Emptied \cup Opening \cup Behind
      BY <2>1 DEF Emptied, Opening, Behind
    <2>6. PlacesInv'
      BY <2>4, <2>5 DEF PlacesInv
    <2> QED
      BY <2>2, <2>6 DEF StepsInv
  <1> QED
    BY <1>2, <1>3

\* A step that saves a new checkpoint of the step at hand.
LEMMA AtStepPlaces ==
    ASSUME Agreeing, pc \in {"check", "apply.start", "apply"}, cur' = cur, NEW status,
           disk'.steps = [disk.steps EXCEPT ![cur] = status],
           pc' \in Aside \cup {"apply", "step.done"},
           pc' = "step.done" => status \in Ended /\ (cur \in Required => status = "succeeded")
    PROVE  PlacesInv'
PROOF
  <1>1. /\ cur \in Steps /\ disk.steps \in [Steps -> Checkpoints]
        /\ \A p \in 1..(cur - 1) : Done(p)
    BY DEF Agreeing, RunnerInv, Shaped, AtHand, StepsInv, PlacesInv, Looping, InStep, Before, Decided,
           Behind
  <1>2. \A p \in 1..(cur - 1) : Done(p)'
    <2>1. ASSUME NEW p \in 1..(cur - 1) PROVE disk'.steps[p] = disk.steps[p]
      <3>1. p # cur /\ p \in Steps
        BY <1>1, StepsAssumption DEF Steps
      <3> QED
        BY <1>1, <3>1
    <2> QED
      BY <1>1, <2>1 DEF Done
  <1>3. disk'.steps[cur] = status
    BY <1>1
  <1>4. pc' = "step.done" => Done(cur)'
    BY <1>3 DEF Done
  <1>5. pc' \notin Emptied \cup Opening /\ (pc' \in Behind => pc' = "step.done")
    BY DEF Aside, Emptied, Opening, Behind
  <1>6. \A p \in 1..(cur' - 1) : Done(p)'
    BY <1>2
  <1>7. pc' \in Behind => Done(cur)'
    BY <1>4, <1>5
  <1> QED
    BY <1>5, <1>6, <1>7 DEF PlacesInv

\* The first event of a queue that has room for it.
LEMMA FirstReported ==
    ASSUME Typed, disk.queue = <<>>, NEW d, DOMAIN d = Fields, d.queue = disk.queue,
           NEW type, NEW next, Report(d, type, next)
    PROVE  /\ disk'.steps = d.steps /\ pc' = next
           /\ disk'.queue = <<Event(type, StepOf(type), BootOf(type))>>
PROOF
  <1> DEFINE e == Event(type, StepOf(type), BootOf(type))
  <1>1. ~QueueFull(d)
    <2>1. Len(d.queue) = 0
      OBVIOUS
    <2> QED
      BY <2>1, MachineAssumption DEF QueueFull
  <1>2. disk' = [d EXCEPT !.queue = Append(@, e)] /\ pc' = next
    BY <1>1 DEF Report, Goto
  <1> HIDE DEF e
  <1>3. disk'.queue = Append(<<>>, e) /\ disk'.steps = d.steps
    BY <1>2 DEF Fields
  <1>4. Append(<<>>, e) = <<e>>
    OBVIOUS
  <1> QED
    BY <1>2, <1>3, <1>4 DEF e

LEMMA StartedSteps ==
    ASSUME Agreeing, StepStart
    PROVE  StepsInv'
PROOF
  <1>1. /\ pc = "step.start" /\ cur' = cur /\ recorded' = recorded
        /\ Report(disk, "step.started", "step.started")
    BY DEF StepStart, netVars
  <1>2. DOMAIN disk = Fields /\ Typed /\ PlacesInv /\ disk.queue = <<>>
    BY <1>1, AgreeingShape DEF PlacesInv, Emptied
  <1>3. cur \in Steps /\ disk.steps[cur] \notin Ended
    BY <1>1 DEF Agreeing, RunnerInv, AtHand, InStep, Before, Behind
  <1> DEFINE e == Event("step.started", cur, BootOf("step.started"))
  <1>4. disk'.steps = disk.steps /\ pc' = "step.started" /\ disk'.queue = <<e>>
    BY <1>1, <1>2, FirstReported DEF StepOf, StepEvents
  <1>5. e.type = "step.started" /\ e.step = cur
    BY DEF Event
  <1> HIDE DEF e
  <1>6. QueueInv'
    <2>1. \E f : disk'.queue = <<f>> /\ (f.type = "step.started" => disk'.steps[f.step] \notin Ended)
      BY <1>3, <1>4, <1>5
    <2>2. \A s \in Steps : disk'.steps[s] = "failed" => disk.steps[s] = "failed"
      BY <1>4
    <2> QED
      BY <1>1, <1>2, <2>1, <2>2, FirstQueue
  <1>7. Leads("step.started") /\ "step.started" \notin Emptied
    BY <1>1 DEF Leads, Opening, Looping, InStep, Before, Behind, Emptied
  <1>8. PlacesInv'
    BY <1>1, <1>2, <1>4, <1>7, PlacesKept
  <1> QED
    BY <1>6, <1>8 DEF StepsInv

\* The outcome of the step at hand is saved with its report.
LEMMA OutcomeSteps ==
    ASSUME Agreeing, pc \in {"check", "apply"}, cur' = cur, recorded' = recorded, Succeed \/ Fail
    PROVE  StepsInv'
PROOF
  <1>1. DOMAIN disk = Fields /\ Typed /\ disk.queue = <<>>
    BY AgreeingShape DEF Typed, Cleared
  <1>2. cur \in Steps /\ disk.steps \in [Steps -> Checkpoints]
    BY DEF Agreeing, RunnerInv, Shaped, AtHand, InStep, Before
  <1>3. \A status : /\ DOMAIN Checkpoint(status) = Fields /\ Checkpoint(status).queue = disk.queue
                    /\ Checkpoint(status).steps = [disk.steps EXCEPT ![cur] = status]
    BY <1>1 DEF Checkpoint, Fields
  <1>4. PICK status \in Ended, type \in {"step.succeeded", "step.failed"}, next \in {"step.done", "halt"} :
           /\ Report(Checkpoint(status), type, next)
           /\ status = "failed" <=> type = "step.failed"
           /\ next = "step.done" /\ cur \in Required => status = "succeeded"
    <2>1. CASE Succeed
      BY <2>1 DEF Succeed, Ended
    <2>2. CASE Fail
      BY <2>2 DEF Fail, Ended
    <2> QED
      BY <2>1, <2>2
  <1> DEFINE e == Event(type, cur, BootOf(type))
  <1>5. /\ disk'.steps = [disk.steps EXCEPT ![cur] = status]
        /\ pc' = next /\ disk'.queue = <<e>>
    <2>1. StepOf(type) = cur
      BY DEF StepOf, StepEvents
    <2> QED
      BY <1>1, <1>3, <1>4, <2>1, FirstReported
  <1>6. e.type = type /\ e.step = cur
    BY DEF Event
  <1> HIDE DEF e
  <1>7. QueueInv'
    <2>1. \E f : disk'.queue = <<f>> /\ (f.type = "step.started" => disk'.steps[f.step] \notin Ended)
      BY <1>5, <1>6
    <2>2. disk'.queue # <<>> /\ disk'.queue[1] = e
      BY <1>5
    <2>3. ASSUME NEW s \in Steps, disk'.steps[s] = "failed"
          PROVE  disk.steps[s] = "failed" \/ (e.type = "step.failed" /\ e.step = s)
      BY <1>2, <1>4, <1>5, <1>6, <2>3
    <2> QED
      BY <1>1, <2>1, <2>2, <2>3, FirstQueue
  <1>8. PlacesInv'
    <2>1. next = "halt" => next \in Aside
      BY DEF Aside
    <2>2. pc' \in Aside \cup {"apply", "step.done"}
      BY <1>5, <2>1
    <2> QED
      BY <1>4, <1>5, <2>2, AtStepPlaces
  <1> QED
    BY <1>7, <1>8 DEF StepsInv

\* From check to the end of apply.
LEMMA PhasesSteps ==
    ASSUME Agreeing, CheckPhase \/ ApplyStart \/ ApplyEnd
    PROVE  StepsInv'
PROOF
  <1>1. /\ pc \in {"check", "apply.start", "apply"}
        /\ cur' = cur /\ recorded' = recorded
    BY DEF CheckPhase, ApplyStart, ApplyEnd, netVars
  <1>2. /\ DOMAIN disk = Fields /\ Typed /\ SameSteps(disk) /\ disk.queue = <<>>
        /\ cur \in Steps /\ disk.steps \in [Steps -> Checkpoints]
    BY <1>1, AgreeingShape
       DEF Typed, Cleared, Agreeing, RunnerInv, Shaped, AtHand, InStep, Before, Decided
  <1>3. CASE (CheckPhase \/ ApplyEnd) /\ (Succeed \/ Fail)
    <2>1. pc \in {"check", "apply"}
      BY <1>3 DEF CheckPhase, ApplyEnd
    <2> QED
      BY <1>1, <1>3, <2>1, OutcomeSteps
  <1>4. CASE Halt(disk)
    BY <1>2, <1>4, HaltAlike, AsideSteps
  <1>5. CASE CheckPhase /\ Goto("apply.auth") /\ UNCHANGED disk
    <2>1. Alike /\ pc' = "apply.auth" /\ pc = "check"
      BY <1>5 DEF CheckPhase, Goto, Alike
    <2>2. Leads("apply.auth") /\ "apply.auth" \notin Emptied
      BY <2>1 DEF Leads, Opening, Looping, InStep, Before, Decided, Behind, Emptied
    <2> QED
      BY <1>1, <2>1, <2>2, StepsKept
  <1>6. ASSUME NEW status \in {"applying", "reboot_pending"}, disk'.queue = disk.queue,
               disk'.steps = [disk.steps EXCEPT ![cur] = status], pc' \in {"apply", "reboot.event"}
        PROVE  StepsInv'
    <2>1. \A s \in Steps : disk'.steps[s] = "failed" => disk.steps[s] = "failed"
      BY <1>2, <1>6
    <2>2. QueueInv'
      BY <1>1, <1>2, <1>6, <2>1, FirstQueue
    <2>3. PlacesInv'
      BY <1>1, <1>6, AtStepPlaces DEF Aside
    <2> QED
      BY <2>2, <2>3 DEF StepsInv
  <1>7. CASE ApplyStart
    <2>1. /\ disk'.queue = disk.queue /\ pc' = "apply"
          /\ disk'.steps = [disk.steps EXCEPT ![cur] = "applying"]
      BY <1>2, <1>7 DEF ApplyStart, Checkpoint, Goto, Fields
    <2> QED
      BY <1>6, <2>1
  <1>8. CASE /\ disk' = [Checkpoint("reboot_pending") EXCEPT
                              !.status = "reboot_pending", !.rebootBoot = boot,
                              !.rebootCount = @ + 1]
             /\ Goto("reboot.event")
    <2>1. /\ disk'.queue = disk.queue /\ pc' = "reboot.event"
          /\ disk'.steps = [disk.steps EXCEPT ![cur] = "reboot_pending"]
      BY <1>2, <1>8 DEF Checkpoint, Goto, Fields
    <2> QED
      BY <1>6, <2>1
  <1>9. CASE CheckPhase
    BY <1>3, <1>4, <1>5, <1>9 DEF CheckPhase
  <1>10. CASE ApplyEnd
    BY <1>3, <1>4, <1>8, <1>10 DEF ApplyEnd
  <1> QED
    BY <1>7, <1>9, <1>10

-----------------------------------------------------------------------------
(* Flushes, leases and the review *)

LEMMA FlushesSteps ==
    ASSUME Agreeing, Flushes \/ RebootFlush \/ HaltFlush
    PROVE  StepsInv'
PROOF
  <1>1. DOMAIN disk = Fields /\ PlacesInv /\ SameSteps(disk)
    BY AgreeingShape
  <1>2. ASSUME NEW at, NEW next, Flushing(at, next), pc = at => Leads(next)
        PROVE  StepsInv'
    <2>1. pc = at /\ cur' = cur /\ Flush(next, Lost, Refused)
      BY <1>2 DEF Flushing
    <2>2. Lost \/ Refused => Alike /\ pc' \in Aside
      BY <1>1, StopAlike
    <2>3. /\ Alike /\ pc' \in Aside \cup {next}
          /\ next \in Emptied => pc' \in Aside \/ disk'.queue = <<>>
      BY <1>1, <2>1, <2>2, FlushAlike
    <2> QED
      BY <1>2, <2>1, <2>3, StepsKept
  <1>3. CASE /\ pc = "step.done" /\ Flush("step.next", NetworkFailure(disk, "step.next"), Refused)
             /\ cur' = cur
    <2>1. NetworkFailure(disk, "step.next") => Alike /\ pc' \in Aside \cup {"step.next"}
      BY <1>1, FailureAlike
    <2>2. Refused => Alike /\ pc' \in Aside
      BY <1>1, StopAlike
    <2>3. "step.next" \notin Emptied
      BY DEF Emptied
    <2> DEFINE lost == NetworkFailure(disk, "step.next")
    <2>4. /\ Flush("step.next", lost, Refused)
          /\ lost \/ Refused => Alike /\ pc' \in Aside \cup {"step.next"}
      BY <1>3, <2>1, <2>2
    <2> HIDE DEF lost
    <2>5. Alike /\ pc' \in Aside \cup {"step.next"}
      BY <1>1, <2>3, <2>4, FlushAlike
    <2>6. Leads("step.next")
      BY <1>3 DEF Leads, Opening, Looping, InStep, Behind
    <2> QED
      BY <1>3, <2>3, <2>5, <2>6, StepsKept
  <1>4. ASSUME NEW next, next \in Aside, NEW Ignored, Flush(next, Ignored, Ignored),
               Ignored => Goto(next) /\ UNCHANGED disk
        PROVE  StepsInv'
    <2>1. Ignored => Alike /\ pc' \in Aside \cup {next}
      BY <1>4 DEF Goto, Alike
    <2>2. next \notin Emptied
      BY <1>4 DEF Aside, Emptied
    <2>3. Alike /\ pc' \in Aside
      BY <1>1, <1>4, <2>1, <2>2, FlushAlike
    <2> QED
      BY <2>3, AsideSteps
  <1>5. CASE RebootFlush
    BY <1>4, <1>5 DEF RebootFlush, Aside
  <1>6. CASE HaltFlush
    BY <1>4, <1>6 DEF HaltFlush, Aside
  <1>7. CASE Flushes
    <2>1. /\ pc = "reboot.flushed" => Leads("begin.auth")
          /\ pc = "manifest.flush" => Leads("loop")
          /\ pc = "step.flush" => Leads("step.secrets")
          /\ pc = "step.started" => Leads("check")
          /\ pc = "review.flush" => Leads("review.lease")
          /\ Leads("cancel.save") /\ Leads("finish.complete")
      BY <1>1 DEF PlacesInv, Leads, Opening, Looping, InStep, Before, Decided, Behind
    <2>2. CASE Flushing("reboot.flushed", "begin.auth")
      BY <1>2, <2>1, <2>2
    <2>3. CASE Flushing("manifest.flush", "loop")
      BY <1>2, <2>1, <2>3
    <2>4. CASE Flushing("step.flush", "step.secrets") \/ Flushing("step.started", "check")
      BY <1>2, <2>1, <2>4
    <2>5. CASE Flushing("review.flush", "review.lease")
      BY <1>2, <2>1, <2>5
    <2>6. CASE Flushing("cancel.flush", "cancel.save") \/ Flushing("finish.flush", "finish.complete")
      BY <1>2, <2>1, <2>6
    <2> QED
      BY <1>3, <1>7, <2>2, <2>3, <2>4, <2>5, <2>6 DEF Flushes
  <1> QED
    BY <1>5, <1>6, <1>7

LEMMA LeasesSteps ==
    ASSUME Agreeing, Leases
    PROVE  StepsInv'
PROOF
  <1>1. DOMAIN disk = Fields /\ Typed /\ PlacesInv /\ SameSteps(disk) /\ SameSteps(Leased)
    BY AgreeingShape
  <1>2. ASSUME NEW at, NEW next, Authorize(at, next), pc = at => Leads(next), next \notin Emptied
        PROVE  StepsInv'
    <2>1. pc = at /\ cur' = cur
      BY <1>2 DEF Authorize
    <2>2. CASE disk' = Leased /\ Goto(AfterLease(next))
      <3>1. Alike /\ pc' \in Aside \cup {next}
        BY <1>1, <2>2, SameAlike, AfterLeaseAt DEF Goto, Aside
      <3> QED
        BY <1>2, <2>1, <3>1, StepsKept
    <2>3. CASE Lost \/ Refused
      BY <1>1, <2>3, StopAlike, AsideSteps
    <2> QED
      BY <1>2, <2>2, <2>3 DEF Authorize, RenewLease
  <1>3. /\ pc = "begin.auth" => Leads("manifest")
        /\ pc = "step.auth" => Leads("step.flush")
        /\ pc = "apply.auth" => Leads("apply.start")
        /\ Leads("rebooting")
    BY <1>1 DEF PlacesInv, Leads, Opening, Looping, InStep, Before, Decided, Behind
  <1>4. "manifest" \notin Emptied /\ "step.flush" \notin Emptied /\ "apply.start" \notin Emptied
        /\ "rebooting" \notin Emptied
    BY DEF Emptied
  <1> QED
    BY <1>2, <1>3, <1>4 DEF Leases

LEMMA ReviewSteps ==
    ASSUME Agreeing, ReviewLease
    PROVE  StepsInv'
PROOF
  <1>1. DOMAIN disk = Fields /\ PlacesInv /\ SameSteps(Leased)
    BY AgreeingShape
  <1>2. pc = "review.lease" /\ cur' = cur
    BY DEF ReviewLease
  <1>3. disk.queue = <<>> /\ cur = 1
    BY <1>1, <1>2 DEF PlacesInv, Emptied, Opening
  <1>4. CASE Lost \/ Refused
    BY <1>1, <1>4, StopAlike, AsideSteps
  <1>5. CASE disk' = Leased /\ Goto(AfterAnswer)
    <2>1. Alike /\ disk'.queue = <<>> /\ pc' \in Aside \cup {"review.resume"}
      BY <1>1, <1>3, <1>5, SameAlike, AfterAnswerAt DEF SameSteps, Goto, Aside
    <2>2. Leads("review.resume")
      BY <1>3 DEF Leads, Looping, InStep, Before, Decided, Behind
    <2> QED
      BY <1>2, <2>1, <2>2, StepsKept
  <1> QED
    BY <1>4, <1>5 DEF ReviewLease, RenewLease

\* A resume opens the failed steps again, before the first of them: none has failed any more.
LEMMA ResumeSteps ==
    ASSUME Agreeing, ReviewResume
    PROVE  StepsInv'
PROOF
  <1>1. DOMAIN disk = Fields /\ Typed /\ PlacesInv /\ SameSteps(disk)
    BY AgreeingShape
  <1>2. /\ pc = "review.resume" /\ cur' = cur /\ recorded' = recorded
        /\ Report(Reopened(disk), "run.resumed", AfterReview)
    BY DEF ReviewResume, netVars
  <1>3. disk.queue = <<>> /\ cur = 1
    BY <1>1, <1>2 DEF PlacesInv, Emptied, Opening
  <1> DEFINE d == Reopened(disk)
             e == Event("run.resumed", StepOf("run.resumed"), BootOf("run.resumed"))
  <1>4. /\ DOMAIN d = Fields /\ d.queue = disk.queue
        /\ d.steps = [s \in Steps |-> IF disk.steps[s] = "failed" THEN "applying" ELSE disk.steps[s]]
    BY <1>1 DEF Reopened, SameSteps, Fields
  <1>5. e.type # "step.started"
    BY DEF Event
  <1> HIDE DEF d, e
  <1>6. disk'.steps = d.steps /\ pc' = AfterReview /\ disk'.queue = <<e>>
    BY <1>1, <1>2, <1>3, <1>4, FirstReported DEF d, e
  <1>7. \A s \in Steps : disk'.steps[s] # "failed"
    BY <1>4, <1>6
  <1>8. QueueInv'
    <2>1. \E f : disk'.queue = <<f>> /\ (f.type = "step.started" => disk'.steps[f.step] \notin Ended)
      BY <1>5, <1>6
    <2> QED
      BY <1>2, <1>3, <1>7, <2>1, FirstQueue
  <1>9. PlacesInv'
    <2>1. pc' \in {"begin.auth", "enroll"}
      BY <1>6 DEF AfterReview
    <2> QED
      BY <1>2, <1>3, <2>1 DEF PlacesInv, Emptied, Opening, Looping, InStep, Before, Decided, Behind
  <1> QED
    BY <1>8, <1>9 DEF StepsInv

LEMMA StepsNext == RunnerInv /\ MachineInv /\ StepsInv /\ [Next]_vars => StepsInv'
PROOF
  <1> SUFFICES ASSUME RunnerInv, MachineInv, StepsInv, [Next]_vars PROVE StepsInv'
    OBVIOUS
  <1>1. Agreeing
    BY NextKind DEF Agreeing, MachineInv
  <1>2. CASE Runner
    <2>1. CASE Bootstrap \/ Start \/ Reboot
      BY <1>1, <2>1, StartSteps
    <2>2. CASE EnrollCall \/ Manifest \/ FetchSecrets \/ FinishCall \/ Cancelled
      BY <1>1, <2>2, CallsSteps
    <2>3. CASE RebootReturn \/ RebootEvent \/ HaltStep \/ ConfirmCancel
      BY <1>1, <2>3, ReportsSteps
    <2>4. CASE LoopStep \/ NextStep
      BY <1>1, <2>4, LoopSteps
    <2>5. CASE StepStart \/ CheckPhase \/ ApplyStart \/ ApplyEnd
      BY <1>1, <2>5, StartedSteps, PhasesSteps
    <2>6. CASE RebootFlush \/ HaltFlush \/ Flushes \/ Leases
      BY <1>1, <2>6, FlushesSteps, LeasesSteps
    <2>7. CASE ReviewLease \/ ReviewResume
      BY <1>1, <2>7, ReviewSteps, ResumeSteps
    <2> QED
      BY <1>2, <2>1, <2>2, <2>3, <2>4, <2>5, <2>6, <2>7 DEF Runner
  <1>3. CASE Heartbeat \/ ServerSide \/ Time \/ UNCHANGED vars
    BY <1>1, <1>3, OthersSteps
  <1>4. CASE Crash \/ PowerFail
    BY <1>1, <1>4, StartSteps
  <1> QED
    BY <1>2, <1>3, <1>4 DEF Next

\* The inductive invariant: the results left behind, the step at hand and what is queued of it.
THEOREM StepsInvariant == Spec => [](RunnerInv /\ MachineInv /\ StepsInv)
PROOF
  <1>1. Init => RunnerInv /\ MachineInv /\ StepsInv
    BY RunnerInit, MachineInit, StepsInit
  <1>2. RunnerInv /\ MachineInv /\ StepsInv /\ [Next]_vars => (RunnerInv /\ MachineInv /\ StepsInv)'
    BY RunnerNext, MachineNext, StepsNext
  <1> QED
    BY <1>1, <1>2, PTL DEF Spec

LEMMA ResultsTold == MachineInv /\ StepsInv => ResultsReported
PROOF
  <1> SUFFICES ASSUME MachineInv, StepsInv, NEW s \in Steps,
                      disk.steps[s] \in Ended, run[R].steps[s] # disk.steps[s]
               PROVE  \E i \in 1..Len(disk.queue) :
                         /\ disk.queue[i].step = s
                         /\ disk.queue[i].type =
                               IF disk.steps[s] = "failed" THEN "step.failed" ELSE "step.succeeded"
    BY DEF ResultsReported, Ended
  <1>1. disk.queue \in Seq(Reports) /\ recorded \in 0..Len(disk.queue)
    BY DEF MachineInv, Typed, LocalState
  <1>2. CASE disk.steps[s] = "succeeded"
    <2>1. \E i \in (recorded + 1)..Len(disk.queue) :
             disk.queue[i].type = "step.succeeded" /\ disk.queue[i].step = s
      BY <1>2 DEF MachineInv, ResultsInv, Reported
    <2>2. \A i \in (recorded + 1)..Len(disk.queue) : i \in 1..Len(disk.queue)
      BY <1>1
    <2> QED
      BY <1>2, <2>1, <2>2
  <1>3. CASE disk.steps[s] = "failed"
    <2>1. FailureQueued(s)
      BY <1>3 DEF StepsInv, QueueInv
    <2>2. 1 \in 1..Len(disk.queue)
      BY <1>1, <2>1 DEF FailureQueued
    <2> QED
      BY <1>3, <2>1, <2>2 DEF FailureQueued
  <1> QED
    BY <1>2, <1>3 DEF Ended

\* A result is saved with its report and the report leaves the queue only when the server
\* has it: at every moment a step that ended is known to the server with its result, or its
\* report is queued (runner.py:242-252, 275-282).
THEOREM NoResultLost == Spec => []ResultsReported
PROOF
  <1>1. RunnerInv /\ MachineInv /\ StepsInv => ResultsReported
    BY ResultsTold
  <1> QED
    BY <1>1, StepsInvariant, PTL

\* Everything before the step at hand is settled for the server, and it is not.
LEMMA Served == RunnerInv /\ MachineInv /\ StepsInv => CurrentStepServed
PROOF
  <1> SUFFICES ASSUME RunnerInv, MachineInv, StepsInv, pc = "step.secrets", LeaseInForce(R),
                      ~(cur \notin Required /\ run[R].steps[cur] = "failed")
               PROVE  SecretsServed(R, cur)
    BY DEF CurrentStepServed
  <1>1. disk.queue = <<>> /\ Len(disk.queue) = 0
    BY DEF StepsInv, PlacesInv, Emptied
  <1>2. cur \in Steps /\ disk.steps[cur] \notin Ended
    BY DEF RunnerInv, AtHand, InStep, Before, Behind
  <1>3. ResultsReported
    BY ResultsTold
  <1>4. \A s \in Steps : disk.steps[s] \in Ended => run[R].steps[s] = disk.steps[s]
    BY <1>1, <1>3 DEF ResultsReported, Ended
  <1>5. ~Settled(run[R], cur)
    <2>1. run[R].steps[cur] # "succeeded"
      BY <1>2 DEF MachineInv, ResultsInv, Ended
    <2> QED
      BY <2>1 DEF Settled
  <1>6. ASSUME NEW p \in 1..(cur - 1) PROVE Settled(run[R], p)
    <2>1. p \in Steps
      BY <1>2, StepsAssumption DEF Steps
    <2>2. disk.steps[p] \in Ended /\ (p \in Required => disk.steps[p] = "succeeded")
      BY DEF StepsInv, PlacesInv, Done, Looping, InStep, Before
    <2> QED
      BY <1>4, <2>1, <2>2 DEF Settled, Ended
  <1> QED
    BY <1>5, <1>6 DEF SecretsServed

\* A runner that is allowed to work on a step gets the secrets of it: what the server holds
\* for the first step not settled is the step the runner is at, unless the step is optional
\* and failed before a resume (runner.py:429-444, 545-549, app.py:654-664).
THEOREM MachineAndServerAgree == Spec => []StepsAgree
PROOF
  <1>1. RunnerInv /\ MachineInv /\ StepsInv => StepsAgree
    BY ResultsTold, Served DEF StepsAgree
  <1> QED
    BY <1>1, StepsInvariant, PTL
=============================================================================
