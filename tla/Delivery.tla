------------------------------ MODULE Delivery ------------------------------
(***************************************************************************)
(* How the log chunks and the events of a run get from the runner into the  *)
(* database: log(), event() and flush() of runner.py, the handlers logs and *)
(* events of app.py, and the retention of maintain() in service.py.         *)
(*                                                                          *)
(* The runner numbers what it queues and keeps it in state.json until a     *)
(* number at or above it is acknowledged.  The handlers skip what they have, *)
(* refuse gaps, and acknowledge MAX(sequence).  A call may be handled after *)
(* the runner gave it up, so that an older batch follows a newer one.       *)
(*                                                                          *)
(* What an event does to its run is Provisioning's matter: here the run may  *)
(* refuse any call at any time, for as long as it likes.                     *)
(***************************************************************************)
EXTENDS Integers, Sequences, FiniteSets, SequencesExt

CONSTANTS
    Contents,       \* what a chunk or an event may say
    Batch,          \* per channel: the most a call carries (8 chunks, 100 events)
    Limit,          \* per channel: the most the queue holds (MAX_LOG_BYTES, MAX_EVENTS)
    EarlyRetention, \* log_retention_days may pass while the run is at work
    MaxWritten,     \* bound of the model, per channel: so much is written
    MaxLate         \* bound of the model: so many calls given up are still under way

Channels == {"logs", "events"}

ASSUME DeliveryAssumption ==
    /\ Batch \in [Channels -> Nat \ {0}]
    /\ Limit \in [Channels -> Nat \ {0}]
    /\ EarlyRetention \in BOOLEAN
    /\ MaxWritten \in [Channels -> Nat]
    /\ MaxLate \in Nat

VARIABLES
    counter,        \* state.json: event_sequence and log_sequence
    queue,          \* state.json: events and logs
    call,           \* the call the runner waits for; << >> when there is none
    late,           \* batches of calls the runner gave up, still to be handled
    rows,           \* the tables events and logs
    written,        \* history: what log() and event() took
    received        \* history: what the handlers inserted

vars == <<counter, queue, call, late, rows, written, received>>

Init ==
    /\ counter = [ch \in Channels |-> 0]
    /\ queue = [ch \in Channels |-> <<>>]
    /\ call = <<>> /\ late = <<>>
    /\ rows = [ch \in Channels |-> {}]
    /\ written = [ch \in Channels |-> <<>>]
    /\ received = [ch \in Channels |-> <<>>]

\* The entries of a queue or a batch with a number above n, in their order.
Above(entries, n) ==
    LET kept == {i \in DOMAIN entries : entries[i].seq > n}
        place(i) == Cardinality({j \in kept : j <= i}) IN
    [k \in 1..Cardinality(kept) |-> entries[CHOOSE i \in kept : place(i) = k]]

-----------------------------------------------------------------------------
(* The runner *)

\* Mutant: numbers start over when the queue is empty.
Number_OfQueue(ch) == IF queue[ch] = <<>> THEN 1 ELSE Last(queue[ch]).seq + 1

Number(ch) == counter[ch] + 1

\* Queue c and save.
Append1(ch, c) ==
    /\ call = <<>>
    /\ Len(written[ch]) < MaxWritten[ch]
    /\ counter' = [counter EXCEPT ![ch] = Number(ch)]
    /\ queue' = [queue EXCEPT ![ch] = Append(@, [seq |-> Number(ch), content |-> c])]
    /\ written' = [written EXCEPT ![ch] = Append(@, c)]
    /\ UNCHANGED <<call, late, rows, received>>

\* Mutant: the limit is off by one.
Log_Limit(c) == Len(queue["logs"]) <= Limit["logs"] /\ Append1("logs", c)

\* log(): what is over the limit is dropped before it gets a number.  A longer output
\* is several chunks, each a step here.
Log(c) == Len(queue["logs"]) < Limit["logs"] /\ Append1("logs", c)

\* event(): over the limit the run halts and nothing is queued.
Report(c) == Len(queue["events"]) < Limit["events"] /\ Append1("events", c)

\* flush() sends logs first, and events when there are none left.
NextChannel == IF queue["logs"] # <<>> THEN "logs" ELSE "events"

Send ==
    LET q == queue[NextChannel] IN
    /\ call = <<>> /\ q # <<>>
    /\ call' = <<[channel |-> NextChannel,
                  batch |-> SubSeq(q, 1, IF Len(q) < Batch[NextChannel]
                                         THEN Len(q) ELSE Batch[NextChannel]),
                  state |-> "sent", ack |-> 0]>>
    /\ UNCHANGED <<counter, queue, late, rows, written, received>>

Unacknowledged(ch, ack) == Above(queue[ch], ack)

AckValid(c) == Head(c.batch).seq <= c.ack /\ c.ack <= counter[c.channel]

\* The answer: a valid acknowledgement shortens the queue; any other answer halts the
\* run, which leaves the queue as it is.
Receive ==
    /\ call # <<>> /\ call[1].state # "sent"
    /\ LET c == call[1] IN
       queue' = IF c.state = "acked" /\ AckValid(c)
                THEN [queue EXCEPT ![c.channel] = Unacknowledged(c.channel, c.ack)]
                ELSE queue
    /\ call' = <<>>
    /\ UNCHANGED <<counter, late, rows, written, received>>

\* A timeout, a lost request or answer, or the end of the process: all else is durable.
\* The server may still come to handle the request.
GiveUp ==
    /\ call # <<>>
    /\ call' = <<>>
    /\ \/ UNCHANGED late
       \/ /\ call[1].state = "sent" /\ Len(late) < MaxLate
          /\ late' = Append(late, [channel |-> call[1].channel, batch |-> call[1].batch])
    /\ UNCHANGED <<counter, queue, rows, written, received>>

-----------------------------------------------------------------------------
(* The server *)

Seqs(ch) == {row.seq : row \in rows[ch]}

\* COALESCE(MAX(sequence),0)
Ack(ch) == IF rows[ch] = {} THEN 0 ELSE CHOOSE n \in Seqs(ch) : \A m \in Seqs(ch) : m <= n

\* Mutant: what was stored before is stored again.
New_All(ch, batch) == batch

New(ch, batch) == Above(batch, Ack(ch))

\* Mutant: a repeated number is refused.
BatchOk_FirstOnly(ch, batch) == \A i \in DOMAIN batch : batch[i].seq = Ack(ch) + i

\* What has a number already stored is the same as before; the rest follows it with no gap.
\* These are the refusals for the numbers; those for the state of the run are Forbid's.
BatchOk(ch, batch) ==
    \A i \in DOMAIN batch :
        LET ack == IF i > 1 /\ batch[i - 1].seq > Ack(ch) THEN batch[i - 1].seq ELSE Ack(ch) IN
        IF batch[i].seq <= ack THEN batch[i] \in rows[ch] ELSE batch[i].seq = ack + 1

\* One transaction: all of the batch or, refused with 409 for its numbers, none of it.
Store(ch, batch) ==
    IF BatchOk(ch, batch)
    THEN /\ rows' = [rows EXCEPT ![ch] = @ \cup Range(New(ch, batch))]
         /\ received' = [received EXCEPT ![ch] = @ \o [i \in DOMAIN New(ch, batch) |->
                                                           New(ch, batch)[i].content]]
    ELSE UNCHANGED <<rows, received>>

\* The call the runner waits for.  AckAfter is the loop's last ack.
AckAfter(ch, batch) == IF New(ch, batch) = <<>> THEN Ack(ch) ELSE Last(New(ch, batch)).seq

Handle ==
    /\ call # <<>> /\ call[1].state = "sent"
    /\ LET c == call[1] IN
       /\ Store(c.channel, c.batch)
       /\ call' = IF BatchOk(c.channel, c.batch)
                  THEN <<[c EXCEPT !.state = "acked", !.ack = AckAfter(c.channel, c.batch)]>>
                  ELSE <<[c EXCEPT !.state = "refused"]>>
    /\ UNCHANGED <<counter, queue, late, written>>

\* The run refuses the call: device() a run that ended or has no such key, apply_event one
\* event of the batch, which rolls back the whole of it (app.py:598-604, 678, 687-725).  For
\* a late call, whose answer reaches no one, this is the same as to be lost.
Forbid ==
    /\ call # <<>> /\ call[1].state = "sent"
    /\ call' = <<[call[1] EXCEPT !.state = "forbidden"]>>
    /\ UNCHANGED <<counter, queue, late, rows, written, received>>

\* A call given up, in any order; its answer reaches no one.
HandleLate ==
    \E i \in DOMAIN late :
        /\ Store(late[i].channel, late[i].batch)
        /\ late' = RemoveAt(late, i)
        /\ UNCHANGED <<counter, queue, call, written>>

RunOver == /\ call = <<>> /\ late = <<>>
           /\ \A ch \in Channels : queue[ch] = <<>> /\ Len(written[ch]) = MaxWritten[ch]

\* maintain() deletes the log rows that are too old; events stay.
Expire ==
    /\ EarlyRetention \/ RunOver
    /\ \E n \in Seqs("logs") :
          rows' = [rows EXCEPT !["logs"] = {row \in @ : row.seq > n}]
    /\ UNCHANGED <<counter, queue, call, late, written, received>>

-----------------------------------------------------------------------------
Next ==
    \/ \E c \in Contents : Log(c) \/ Report(c)
    \/ Send \/ Receive \/ GiveUp
    \/ Handle \/ Forbid \/ HandleLate
    \/ Expire

Spec == Init /\ [][Next]_vars

\* The unit starts the runner again after each exit with 75, and a connected runner's
\* calls get through again and again.  Nothing is said of how they are answered.
Fairness == WF_vars(Send) /\ SF_vars(Handle \/ Forbid) /\ SF_vars(Receive)

FairSpec == Spec /\ Fairness

-----------------------------------------------------------------------------
(* Properties *)

Entries == [seq : Nat, content : Contents]

\* Types; and state.json stays within its limits (runner.py MAX_LOG_BYTES, MAX_EVENTS).
TypeOK ==
    /\ counter \in [Channels -> Nat]
    /\ \A ch \in Channels : Len(queue[ch]) <= Limit[ch]
    /\ \A ch \in Channels : Range(queue[ch]) \subseteq Entries /\ rows[ch] \subseteq Entries
    /\ call = <<>> \/ call[1].state \in {"sent", "acked", "refused", "forbidden"}
    /\ \A i \in DOMAIN late : late[i].channel \in Channels
    /\ \A ch \in Channels : Range(written[ch]) \cup Range(received[ch]) \subseteq Contents

\* What the server has taken is what the runner wrote, in that order, each once, however
\* often a batch was repeated and however late an older one was handled (app.py logs,
\* events; Feinkonzept "deduplizieren"); and what it has not taken is still in state.json
\* under its number: no crash, loss or acknowledgement drops it (runner.py flush, log).
NothingLost ==
    \A ch \in Channels :
        /\ IsPrefix(received[ch], written[ch])
        /\ \A n \in Len(received[ch]) + 1 .. Len(written[ch]) :
              [seq |-> n, content |-> written[ch][n]] \in Range(queue[ch])

\* The server never refuses a batch of this runner for its numbers, and never answers with
\* one the runner would halt for: app.py answers 409 "nicht lueckenlos" to gaps, and there
\* are none (app.py:672-676, 739-743).
NeverRefused == call # <<>> => /\ call[1].state # "refused"
                               /\ call[1].state = "acked" => AckValid(call[1])

\* The call under way is one of these channels, and the run refuses it.
Forbidden(channels) ==
    call # <<>> /\ call[1].state = "forbidden" /\ call[1].channel \in channels

\* The server catches up with the runner again and again, unless the run goes on refusing:
\* no order of lost, late and repeated calls, limit or number blocks a queue, the log chunks
\* sent first do not starve the events, and refused events hold up no log (runner.py flush).
\* What a refusal for ever blocks is Provisioning's matter: RunSettles, Outage, Cancel.
AllDelivered ==
    /\ []<>(received["logs"] = written["logs"]) \/ []<>Forbidden({"logs"})
    /\ []<>(received["events"] = written["events"]) \/ []<>Forbidden(Channels)
=============================================================================
