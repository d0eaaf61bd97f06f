--------------------------- MODULE GrantRefinement ---------------------------
(***************************************************************************)
(* The server of RunLifecycle keeps the promise of InstallGrant: a run with *)
(* its approval is a grant.  Where the row says `prepared` the grant is     *)
(* open, and it is spent from the answer to the end of the run, whatever    *)
(* installer, device and operators make of it meanwhile.  What the device   *)
(* may count on is the lease it was handed, which the row cannot recall.    *)
(***************************************************************************)
EXTENDS RunLifecycle

PhaseOf(row) ==
    CASE row.status = "absent" -> "none"
      [] row.status = "prepared" -> "open"
      [] row.status = "succeeded" -> "won"
      [] row.status \in {"cancelled", "expired", "failed"} -> "over"
      [] OTHER -> "spent"

\* A spent grant is what the row says of key and cancellation; until is the lease in
\* the device's hands.
GrantRow(row, until) ==
    LET phase == PhaseOf(row) IN
    [host |-> row.host, phase |-> phase, until |-> until,
     device |-> IF phase = "spent" THEN row.key ELSE NoKey,
     stop |-> IF phase = "spent" THEN row.cancel ELSE FALSE]

grants == [r \in Runs |-> GrantRow(run[r], held[r])]

Granted == INSTANCE InstallGrant WITH
    Grants <- Runs, Span <- LeaseTime, clock <- now, grant <- grants

\* Every handler of app.py and service.py is a step of the promise or no step of it: an
\* answer is served once, one device is bound, only it gets leases, never after a request
\* to stop, and the next approval waits until what was handed out is over.
KeepsPromise == Granted!Spec

\* While the disk of a host may be erased for one run, no device works on it under
\* another, although reconcile ends runs and leases outlive them (app.py:490, 627-630).
OneClaim == Granted!Exclusive

\* A request that `device` admitted still speaks for the bound device when its handler
\* runs, however much later: no handler asks for the key again (app.py:585-618).
AdmittedIsBound ==
    \A r \in Runs : Active(run[r]) => \A k \in admitted[r] : run[r].key = k
=============================================================================
