----------------------------- MODULE MCDelivery -----------------------------
(* Batches of two chunks and of one event: the queue of events takes more than one call. *)
(* Both queues fill up before all is written.                                            *)
EXTENDS Delivery

MCBatch == [logs |-> 2, events |-> 1]
MCLimit == [logs |-> 2, events |-> 2]
MCWritten == [logs |-> 3, events |-> 3]
MCWrittenFew == [logs |-> 3, events |-> 1]
=============================================================================
