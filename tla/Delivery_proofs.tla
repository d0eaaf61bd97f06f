-------------------------- MODULE Delivery_proofs --------------------------
(***************************************************************************)
(* The log channel and the event channel, for any sizes of batches and      *)
(* queues, and any number of lost, repeated and late calls.                 *)
(*                                                                          *)
(* An entry is known by its number: the queue holds the last numbers that   *)
(* were given out, the table the first ones, and together they hold all.    *)
(* A batch on its way, whether the runner waits for it or not, is a row of  *)
(* such numbers that starts at or before the first one the table lacks: it  *)
(* stays so while the table grows, and is therefore taken whenever it comes *)
(* in.                                                                      *)
(*                                                                          *)
(* All of it holds while no log rows are deleted before the run is over:    *)
(* ~EarlyRetention.  With log rows deleted under a run the handlers do      *)
(* refuse batches (LogRetention.cfg).                                       *)
(***************************************************************************)
EXTENDS Delivery, SequenceTheorems, FiniteSetTheorems, TLAPS

\* What was written to a channel under number n.
Entry(ch, n) == [seq |-> n, content |-> written[ch][n]]

\* The number of the last entry that has left the queue.
Confirmed(ch) == counter[ch] - Len(queue[ch])

\* state.json: all from the first unacknowledged entry to the last written, with no gap.
QueueInv(ch) ==
    /\ counter[ch] = Len(written[ch])
    /\ written[ch] \in Seq(Contents)
    /\ queue[ch] \in Seq(Entries)
    /\ Len(queue[ch]) <= Limit[ch]
    /\ Confirmed(ch) >= 0
    /\ \A i \in 1..Len(queue[ch]) : queue[ch][i] = Entry(ch, Confirmed(ch) + i)

\* The server has taken the first entries, at least those the runner has seen acknowledged.
ReceivedInv(ch) ==
    /\ received[ch] \in Seq(Contents)
    /\ Confirmed(ch) <= Len(received[ch])
    /\ Len(received[ch]) <= Len(written[ch])
    /\ \A n \in 1..Len(received[ch]) : received[ch][n] = written[ch][n]

\* All it has taken is in the table, until the run is over.
Taken(ch) == {Entry(ch, n) : n \in 1..Len(received[ch])}

RowsInv(ch) ==
    /\ rows[ch] \subseteq Taken(ch)
    /\ RunOver \/ rows[ch] = Taken(ch)

\* A batch on its way: entries in a row, which start no later than with what is lacking.
Fits(ch, batch) ==
    /\ ch \in Channels
    /\ batch \in Seq(Entries) /\ Len(batch) > 0
    /\ batch[1].seq \in 1..Len(received[ch]) + 1
    /\ batch[1].seq + Len(batch) - 1 <= Len(written[ch])
    /\ \A i \in 1..Len(batch) : batch[i] = Entry(ch, batch[1].seq + i - 1)

Calls == [channel : Channels, batch : Seq(Entries), state : {"sent", "acked", "forbidden"}, ack : Nat]

\* The runner waits for one call at most, none is refused for its numbers, and what is acknowledged has
\* been taken.
CallInv ==
    \/ call = <<>>
    \/ \E c \in Calls :
          /\ call = <<c>>
          /\ Fits(c.channel, c.batch)
          /\ c.state = "acked" => /\ c.batch[1].seq <= c.ack
                                  /\ c.ack <= Len(received[c.channel])

LateInv ==
    /\ late \in Seq([channel : Channels, batch : Seq(Entries)])
    /\ \A b \in Range(late) : Fits(b.channel, b.batch)

DeliveryInv ==
    /\ counter \in [Channels -> Nat]
    /\ DOMAIN queue = Channels /\ DOMAIN written = Channels
    /\ DOMAIN received = Channels /\ DOMAIN rows = Channels
    /\ \A ch \in Channels : QueueInv(ch) /\ ReceivedInv(ch) /\ RowsInv(ch)
    /\ CallInv
    /\ LateInv

-----------------------------------------------------------------------------
(* Operators *)

\* So many entries of a gap-free queue, which begins after number f, are not above n.
Cut(entries, f, n) ==
    IF n <= f THEN 0 ELSE IF n - f <= Len(entries) THEN n - f ELSE Len(entries)

\* Above cuts off the front of a gap-free queue.
LEMMA AboveCuts ==
    ASSUME NEW entries \in Seq(Entries), NEW f \in Int, NEW n \in Int,
           \A i \in 1..Len(entries) : entries[i].seq = f + i
    PROVE  LET cut == Cut(entries, f, n) IN
           /\ cut \in 0..Len(entries)
           /\ Above(entries, n) \in Seq(Entries)
           /\ Len(Above(entries, n)) = Len(entries) - cut
           /\ \A k \in 1..Len(entries) - cut : Above(entries, n)[k] = entries[cut + k]
PROOF
  <1> DEFINE N == Len(entries)
             cut == Cut(entries, f, n)
             kept == {i \in DOMAIN entries : entries[i].seq > n}
             place(i) == Cardinality({j \in kept : j <= i})
  <1>1. N \in Nat /\ DOMAIN entries = 1..N /\ cut \in 0..N
    BY DEF Cut
  <1>2. kept = (cut + 1)..N
    <2>1. ASSUME NEW i \in 1..N PROVE (entries[i].seq > n) <=> (i \in (cut + 1)..N)
      <3>1. entries[i].seq = f + i
        OBVIOUS
      <3> QED
        BY <1>1, <3>1 DEF Cut
    <2> HIDE DEF cut, N
    <2>2. ASSUME NEW i PROVE i \in kept <=> i \in (cut + 1)..N
      BY <1>1, <2>1
    <2> QED
      BY <2>2
  <1> HIDE DEF cut, N, kept
  <1>3. Cardinality(kept) = N - cut
    <2>1. cut + 1 \in Int /\ N \in Int /\ cut <= N
      BY <1>1
    <2>2. Cardinality((cut + 1)..N) = IF cut + 1 > N THEN 0 ELSE N - (cut + 1) + 1
      BY <2>1, FS_Interval
    <2> QED
      BY <1>1, <1>2, <2>2
  <1>4. ASSUME NEW i \in kept PROVE place(i) = i - cut
    <2>1. i \in (cut + 1)..N
      BY <1>2
    <2>2. ASSUME NEW j PROVE j \in {m \in kept : m <= i} <=> j \in (cut + 1)..i
      BY <1>1, <1>2, <2>1
    <2>3. place(i) = Cardinality((cut + 1)..i)
      BY <2>2
    <2>4. cut + 1 \in Int /\ i \in Int
      BY <1>1, <2>1
    <2>5. Cardinality((cut + 1)..i) = IF cut + 1 > i THEN 0 ELSE i - (cut + 1) + 1
      BY <2>4, FS_Interval
    <2> QED
      BY <1>1, <2>1, <2>3, <2>5
  <1> HIDE DEF place
  <1>5. ASSUME NEW k \in 1..N - cut PROVE (CHOOSE i \in kept : place(i) = k) = cut + k
    <2>1. cut + k \in kept
      BY <1>1, <1>2
    <2>2. \A i \in kept : place(i) = k <=> i = cut + k
      BY <1>1, <1>2, <1>4
    <2> QED
      BY <2>1, <2>2
  <1>6. Above(entries, n) = [k \in 1..N - cut |-> entries[CHOOSE i \in kept : place(i) = k]]
    BY <1>3 DEF Above, kept, place
  <1> HIDE DEF Cut
  <1>7. Above(entries, n) = [k \in 1..N - cut |-> entries[cut + k]]
    BY <1>5, <1>6
  <1>8. ASSUME NEW k \in 1..N - cut PROVE entries[cut + k] \in Entries
    BY <1>1 DEF N
  <1>9. Above(entries, n) \in Seq(Entries) /\ Len(Above(entries, n)) = N - cut
    BY <1>1, <1>7, <1>8
  <1> QED
    BY <1>1, <1>7, <1>9 DEF cut, N

\* Where the table holds what was taken, the handlers acknowledge the number of it.
LEMMA AckIsTaken ==
    ASSUME NEW ch \in Channels, Len(received[ch]) \in Nat,
           rows[ch] = Taken(ch)
    PROVE  Ack(ch) = Len(received[ch])
PROOF
  <1> DEFINE R == Len(received[ch])
  <1>1. Seqs(ch) = 1..R
    <2>1. \A n : Entry(ch, n).seq = n
      BY DEF Entry
    <2>2. Seqs(ch) = {Entry(ch, n).seq : n \in 1..R}
      BY DEF Seqs, Taken
    <2> QED
      BY <2>1, <2>2
  <1>2. CASE R = 0
    <2>1. 1..R = {}
      BY <1>2
    <2> HIDE DEF R
    <2>2. rows[ch] = {}
      BY <2>1 DEF Taken, R
    <2> QED
      BY <1>2, <2>2 DEF Ack, R
  <1>3. CASE R # 0
    <2>1. Entry(ch, 1) \in rows[ch]
      BY <1>3 DEF Taken
    <2>2. R \in Seqs(ch) /\ \A m \in Seqs(ch) : m <= R
      BY <1>1, <1>3
    <2> HIDE DEF R
    <2>3. \A n \in Seqs(ch) : (\A m \in Seqs(ch) : m <= n) => n = R
      BY <1>1, <2>2
    <2> QED
      BY <2>1, <2>2, <2>3 DEF Ack, R
  <1> QED
    BY <1>2, <1>3

\* A batch of this runner is accepted.
LEMMA BatchAccepted ==
    ASSUME NEW ch \in Channels, NEW batch, Fits(ch, batch), Len(received[ch]) \in Nat,
           rows[ch] = Taken(ch)
    PROVE  BatchOk(ch, batch)
PROOF
  <1> DEFINE R == Len(received[ch])
             f == batch[1].seq
  <1>1. Ack(ch) = R
    BY AckIsTaken
  <1>2. batch \in Seq(Entries) /\ f \in 1..R + 1 /\ 1 \in DOMAIN batch
    BY DEF Fits
  <1>3. ASSUME NEW i \in 1..Len(batch)
        PROVE  batch[i] = Entry(ch, f + i - 1) /\ batch[i].seq = f + i - 1
    BY DEF Fits, Entry
  <1> DEFINE ack(i) == IF i > 1 /\ batch[i - 1].seq > R THEN batch[i - 1].seq ELSE R
  <1>4. ASSUME NEW i \in 1..Len(batch)
        PROVE  IF batch[i].seq <= ack(i) THEN batch[i] \in rows[ch]
               ELSE batch[i].seq = ack(i) + 1
    <2>1. i > 1 => i - 1 \in 1..Len(batch) /\ batch[i - 1].seq = f + i - 2
      <3> SUFFICES ASSUME i > 1 PROVE i - 1 \in 1..Len(batch) /\ batch[i - 1].seq = f + i - 2
        OBVIOUS
      <3>1. i - 1 \in 1..Len(batch)
        BY <1>2
      <3>2. batch[i - 1].seq = f + (i - 1) - 1
        BY <1>3, <3>1
      <3> QED
        BY <1>2, <3>1, <3>2
    <2>2. batch[i].seq = f + i - 1
      BY <1>3
    <2>3. CASE f + i - 1 <= R
      <3>1. batch[i].seq \in 1..R
        BY <1>2, <2>2, <2>3
      <3>2. batch[i] = Entry(ch, f + i - 1) /\ f + i - 1 \in 1..R
        BY <1>3, <2>2, <3>1
      <3>3. ack(i) = R
        BY <1>2, <2>1, <2>3
      <3>4. batch[i] \in rows[ch]
        BY <3>2 DEF Taken
      <3> HIDE DEF ack, f, R
      <3> QED
        BY <3>1, <3>3, <3>4
    <2>4. CASE f + i - 1 > R
      <3>1. ack(i) = f + i - 2
        <4>1. CASE i = 1
          BY <1>2, <2>4, <4>1
        <4>2. CASE i > 1
          BY <1>2, <2>1, <2>4, <4>2
        <4> QED
          BY <4>1, <4>2
      <3> HIDE DEF ack, f, R
      <3>2. f \in Int
        BY <1>2
      <3> QED
        BY <2>2, <3>1, <3>2
    <2> QED
      BY <1>2, <2>3, <2>4
  <1> HIDE DEF R, f
  <1>5. DOMAIN batch = 1..Len(batch)
    BY <1>2
  <1> QED
    BY <1>1, <1>4, <1>5 DEF BatchOk

\* A batch that was stored has been taken to its last entry, once, and is acknowledged so.
LEMMA StoreTakes ==
    ASSUME NEW ch \in Channels, NEW batch, Fits(ch, batch), rows[ch] = Taken(ch),
           written[ch] \in Seq(Contents), ReceivedInv(ch),
           DOMAIN rows = Channels, DOMAIN received = Channels, Store(ch, batch)
    PROVE  LET last == batch[1].seq + Len(batch) - 1
               top == IF last > Len(received[ch]) THEN last ELSE Len(received[ch]) IN
           /\ \E stored \in Seq(Contents) :
                 /\ received' = [received EXCEPT ![ch] = stored]
                 /\ Len(stored) = top
                 /\ \A n \in 1..top : stored[n] = written[ch][n]
           /\ rows' = [rows EXCEPT ![ch] = {Entry(ch, n) : n \in 1..top}]
           /\ AckAfter(ch, batch) = top
PROOF
  <1> DEFINE first == batch[1].seq
             N == Len(batch)
             R == Len(received[ch])
             last == first + N - 1
             top == IF last > R THEN last ELSE R
             new == New(ch, batch)
             contents == [i \in DOMAIN new |-> new[i].content]
             stored == received[ch] \o contents
  <1>1. batch \in Seq(Entries) /\ N \in Nat \ {0} /\ first \in 1..R + 1 /\ R \in Nat
    BY DEF Fits, ReceivedInv
  <1>2. top \in Nat /\ top >= R /\ top <= Len(written[ch]) /\ Len(written[ch]) \in Nat
    BY <1>1 DEF Fits, ReceivedInv
  <1>3. Ack(ch) = R
    BY <1>1, AckIsTaken
  <1>4. /\ new \in Seq(Entries) /\ Len(new) = top - R
        /\ \A k \in 1..top - R : new[k] = Entry(ch, R + k)
    <2> DEFINE cut == Cut(batch, first - 1, R)
    <2>1. ASSUME NEW i \in 1..N
          PROVE  batch[i] = Entry(ch, first + i - 1) /\ batch[i].seq = (first - 1) + i
      <3>1. batch[i] = Entry(ch, first + i - 1)
        BY DEF Fits
      <3>2. Entry(ch, first + i - 1).seq = first + i - 1
        BY DEF Entry
      <3>3. i \in Nat /\ first \in Nat
        BY <1>1
      <3> HIDE DEF first
      <3>4. first + i - 1 = (first - 1) + i
        BY <3>3
      <3> QED
        BY <3>1, <3>2, <3>4
    <2>2. first - 1 \in Int /\ R \in Int
      BY <1>1
    <2>3. /\ cut \in 0..N /\ new \in Seq(Entries) /\ Len(new) = N - cut
          /\ \A k \in 1..N - cut : new[k] = batch[cut + k]
      BY <1>1, <1>3, <2>1, <2>2, AboveCuts DEF New
    <2>4. N - cut = top - R /\ (top > R => cut = R - first + 1)
      <3>1. cut = IF R <= first - 1 THEN 0 ELSE IF R - (first - 1) <= N THEN R - (first - 1) ELSE N
        BY DEF Cut
      <3> HIDE DEF first, N, R, cut
      <3> QED
        BY <1>1, <3>1
    <2> HIDE DEF cut, new
    <2>5. ASSUME NEW k \in 1..top - R PROVE new[k] = Entry(ch, R + k)
      <3> HIDE DEF first, N, R, top
      <3>1. top > R /\ k \in 1..N - cut /\ cut + k \in 1..N
        BY <1>1, <1>2, <2>3, <2>4
      <3>2. cut = R - first + 1
        BY <2>4, <3>1
      <3>3. first + (cut + k) - 1 = R + k
        BY <1>1, <3>2
      <3>4. batch[cut + k] = Entry(ch, first + (cut + k) - 1)
        BY <2>1, <3>1
      <3> QED
        BY <2>3, <3>1, <3>3, <3>4
    <2> QED
      BY <2>3, <2>4, <2>5
  <1>5. BatchOk(ch, batch)
    BY <1>1, BatchAccepted
  <1>6. /\ rows' = [rows EXCEPT ![ch] = @ \cup Range(new)]
        /\ received' = [received EXCEPT ![ch] = stored]
    BY <1>5 DEF Store
  <1> HIDE DEF first, N, new, R, top
  <1>7. contents \in Seq(Contents) /\ Len(contents) = top - R
    <2>1. DOMAIN new = 1..top - R /\ \A i \in 1..top - R : new[i] \in Entries
      BY <1>4
    <2>2. contents \in [1..top - R -> Contents]
      BY <2>1 DEF Entries
    <2>3. top - R \in Nat
      BY <1>1, <1>2
    <2> QED
      BY <2>2, <2>3
  <1>8. stored \in Seq(Contents) /\ Len(stored) = top
    BY <1>1, <1>2, <1>7 DEF R, ReceivedInv
  <1>9. ASSUME NEW n \in 1..top PROVE stored[n] = written[ch][n]
    <2> HIDE DEF contents
    <2>1. CASE n <= R
      <3>1. stored[n] = received[ch][n]
        BY <1>1, <1>7, <2>1 DEF R, ReceivedInv
      <3> QED
        BY <1>1, <2>1, <3>1 DEF R, ReceivedInv
    <2>2. CASE n > R
      <3>1. n - R \in 1..top - R /\ R + (n - R) = n
        BY <1>1, <1>2, <2>2
      <3>2. stored[n] = contents[n - R]
        BY <1>1, <1>2, <1>7, <2>2 DEF R, ReceivedInv
      <3>3. contents[n - R] = new[n - R].content
        BY <1>4, <3>1 DEF contents
      <3>4. new[n - R] = Entry(ch, n)
        BY <1>4, <3>1
      <3> QED
        BY <3>2, <3>3, <3>4 DEF Entry
    <2> HIDE DEF stored
    <2> QED
      BY <1>1, <1>2, <2>1, <2>2
  <1>10. rows[ch] \cup Range(new) = {Entry(ch, n) : n \in 1..top}
    <2>1. Range(new) = {Entry(ch, R + k) : k \in 1..top - R}
      <3>1. Range(new) = {new[k] : k \in 1..top - R}
        BY <1>4 DEF Range
      <3> QED
        BY <1>4, <3>1
    <2>2. rows[ch] = {Entry(ch, n) : n \in 1..R}
      BY DEF Taken, R
    <2>3. ASSUME NEW n \in 1..top PROVE Entry(ch, n) \in rows[ch] \cup Range(new)
      <3>1. CASE n <= R
        BY <1>1, <2>2, <3>1
      <3>2. CASE n > R
        <4>1. n - R \in 1..top - R /\ R + (n - R) = n
          BY <1>1, <1>2, <3>2
        <4> QED
          BY <2>1, <4>1
      <3> QED
        BY <1>1, <3>1, <3>2
    <2>4. ASSUME NEW k \in 1..top - R PROVE R + k \in 1..top
      BY <1>1, <1>2
    <2>5. ASSUME NEW n \in 1..R PROVE n \in 1..top
      BY <1>1, <1>2
    <2> QED
      BY <2>1, <2>2, <2>3, <2>4, <2>5
  <1>11. AckAfter(ch, batch) = top
    <2>1. CASE top = R
      BY <1>1, <1>3, <1>4, <2>1 DEF AckAfter, new
    <2>2. CASE top > R
      <3>1. top - R \in 1..top - R /\ R + (top - R) = top
        BY <1>1, <1>2, <2>2
      <3>2. new # <<>> /\ Last(new) = new[top - R]
        BY <1>4, <3>1 DEF Last
      <3>3. Last(new).seq = top
        BY <1>4, <3>1, <3>2 DEF Entry
      <3> QED
        BY <3>2, <3>3 DEF AckAfter, new
    <2> QED
      BY <1>1, <1>2, <2>1, <2>2
  <1>12. rows' = [rows EXCEPT ![ch] = {Entry(ch, n) : n \in 1..top}]
    BY <1>6, <1>10
  <1> HIDE DEF stored
  <1>13. \E s \in Seq(Contents) :
            /\ received' = [received EXCEPT ![ch] = s]
            /\ Len(s) = top
            /\ \A n \in 1..top : s[n] = written[ch][n]
    BY <1>6, <1>8, <1>9
  <1> QED
    BY <1>11, <1>12, <1>13 DEF top, R, N, first

\* A call taken out of the calls on their way.
LEMMA TakenOut ==
    ASSUME NEW S, NEW s \in Seq(S), NEW i \in DOMAIN s
    PROVE  RemoveAt(s, i) \in Seq(S) /\ Range(RemoveAt(s, i)) \subseteq Range(s)
PROOF
  <1> DEFINE front == SubSeq(s, 1, i - 1)
             back == SubSeq(s, i + 1, Len(s))
  <1>1. Len(s) \in Nat /\ i \in 1..Len(s) /\ DOMAIN s = 1..Len(s)
    OBVIOUS
  <1>2. front \in Seq(S) /\ Len(front) = i - 1 /\ \A k \in 1..i - 1 : front[k] = s[k]
    <2>1. \A k \in 1..i - 1 : s[k] \in S
      BY <1>1
    <2> QED
      BY <1>1, <2>1, SubSeqProperties
  <1>3. /\ back \in Seq(S) /\ Len(back) = Len(s) - i
        /\ \A k \in 1..Len(s) - i : back[k] = s[i + k]
    <2>1. \A k \in i + 1..Len(s) : s[k] \in S
      BY <1>1
    <2> QED
      BY <1>1, <2>1, SubSeqProperties
  <1>4. RemoveAt(s, i) = front \o back
    BY DEF RemoveAt
  <1> HIDE DEF front, back
  <1>5. RemoveAt(s, i) \in Seq(S) /\ DOMAIN RemoveAt(s, i) = 1..Len(s) - 1
    <2>1. front \o back \in Seq(S) /\ Len(front \o back) = (i - 1) + (Len(s) - i)
      BY <1>2, <1>3, ConcatProperties
    <2>2. (i - 1) + (Len(s) - i) = Len(s) - 1 /\ Len(s) - 1 \in Nat
      BY <1>1
    <2> QED
      BY <1>4, <2>1, <2>2
  <1>6. ASSUME NEW k \in 1..Len(s) - 1
        PROVE  \E j \in DOMAIN s : RemoveAt(s, i)[k] = s[j]
    <2>1. CASE k <= i - 1
      BY <1>1, <1>2, <1>3, <1>4, <2>1
    <2>2. CASE k > i - 1
      <3>1. k - (i - 1) \in 1..Len(s) - i
        BY <1>1, <2>2
      <3>2. (front \o back)[k] = back[k - (i - 1)]
        BY <1>1, <1>2, <1>3, <2>2
      <3>3. i + (k - (i - 1)) \in DOMAIN s
        BY <1>1, <3>1
      <3> QED
        BY <1>3, <1>4, <3>1, <3>2, <3>3
    <2> QED
      BY <1>1, <2>1, <2>2
  <1> QED
    BY <1>5, <1>6 DEF Range

-----------------------------------------------------------------------------
(* Steps *)

\* What is written and received only grows.
Grows ==
    \A ch \in Channels :
        /\ Len(received[ch]) \in Nat /\ Len(received'[ch]) \in Nat
        /\ Len(written[ch]) \in Nat /\ Len(written'[ch]) \in Nat
        /\ Len(received[ch]) <= Len(received'[ch])
        /\ Len(written[ch]) <= Len(written'[ch])
        /\ \A n \in 1..Len(written[ch]) : written'[ch][n] = written[ch][n]

\* A batch on its way stays fit to be taken, however long it is on its way.
LEMMA FitsLater ==
    ASSUME Grows, NEW ch, NEW batch, Fits(ch, batch) PROVE Fits(ch, batch)'
PROOF
  <1> DEFINE first == batch[1].seq
             N == Len(batch)
  <1>1. /\ ch \in Channels
        /\ Len(received[ch]) \in Nat /\ Len(received'[ch]) \in Nat
        /\ Len(written[ch]) \in Nat /\ Len(written'[ch]) \in Nat
        /\ Len(received[ch]) <= Len(received'[ch])
        /\ Len(written[ch]) <= Len(written'[ch])
        /\ \A n \in 1..Len(written[ch]) : written'[ch][n] = written[ch][n]
    BY DEF Fits, Grows
  <1>2. /\ batch \in Seq(Entries) /\ N > 0 /\ first \in 1..Len(received[ch]) + 1
        /\ first + N - 1 <= Len(written[ch])
        /\ \A i \in 1..N : batch[i] = Entry(ch, first + i - 1)
    BY DEF Fits
  <1>3. N \in Nat /\ first \in Nat \ {0}
    BY <1>1, <1>2
  <1> HIDE DEF N, first
  <1>4. first \in 1..Len(received'[ch]) + 1 /\ first + N - 1 <= Len(written'[ch])
    <2> DEFINE r == Len(received[ch])
               s == Len(received'[ch])
               w == Len(written[ch])
               x == Len(written'[ch])
    <2>1. r \in Nat /\ s \in Nat /\ w \in Nat /\ x \in Nat /\ r <= s /\ w <= x
      BY <1>1
    <2>2. first \in 1..r + 1 /\ first + N - 1 <= w
      BY <1>2
    <2> HIDE DEF r, s, w, x
    <2>3. first \in 1..s + 1 /\ first + N - 1 <= x
      BY <1>3, <2>1, <2>2
    <2> QED
      BY <2>3 DEF s, x
  <1>5. ASSUME NEW i \in 1..N PROVE batch[i] = Entry(ch, first + i - 1)'
    <2>1. first + i - 1 \in 1..Len(written[ch])
      BY <1>1, <1>2, <1>3
    <2>2. written'[ch][first + i - 1] = written[ch][first + i - 1]
      BY <1>1, <2>1
    <2> QED
      BY <1>2, <2>2 DEF Entry
  <1> QED
    BY <1>1, <1>2, <1>4, <1>5 DEF Fits, N, first

LEMMA CallLater == ASSUME Grows, CallInv, call' = call PROVE CallInv'
PROOF
  <1>1. CASE call = <<>>
    BY <1>1 DEF CallInv
  <1>2. CASE call # <<>>
    <2>1. PICK c \in Calls : /\ call = <<c>> /\ Fits(c.channel, c.batch)
                             /\ c.state = "acked" => /\ c.batch[1].seq <= c.ack
                                                     /\ c.ack <= Len(received[c.channel])
      BY <1>2 DEF CallInv
    <2>2. Fits(c.channel, c.batch)'
      BY <2>1, FitsLater
    <2>3. c.channel \in Channels /\ c.ack \in Nat
      BY DEF Calls
    <2>4. c.ack <= Len(received[c.channel]) => c.ack <= Len(received'[c.channel])
      BY <2>3 DEF Grows
    <2> QED
      BY <2>1, <2>2, <2>4 DEF CallInv
  <1> QED
    BY <1>1, <1>2

LEMMA LateLater ==
    ASSUME Grows, LateInv,
           late' \in Seq([channel : Channels, batch : Seq(Entries)]),
           \A b \in Range(late') : b \in Range(late) \/ Fits(b.channel, b.batch)
    PROVE  LateInv'
PROOF
  <1>1. ASSUME NEW b \in Range(late)' PROVE Fits(b.channel, b.batch)'
    <2>1. Fits(b.channel, b.batch)
      BY DEF LateInv
    <2> QED
      BY <2>1, FitsLater
  <1> QED
    BY <1>1 DEF LateInv

\* What holds of a channel while the run is at work.
Whole(ch) == QueueInv(ch) /\ ReceivedInv(ch) /\ rows[ch] = Taken(ch)

LEMMA SameChannel ==
    ASSUME NEW ch \in Channels, Whole(ch),
           counter'[ch] = counter[ch], queue'[ch] = queue[ch], written'[ch] = written[ch],
           received'[ch] = received[ch], rows'[ch] = rows[ch]
    PROVE  Whole(ch)'
PROOF
  <1>1. Confirmed(ch)' = Confirmed(ch)
    BY DEF Confirmed
  <1>2. \A n : Entry(ch, n)' = Entry(ch, n)
    BY DEF Entry
  <1>3. QueueInv(ch)'
    BY <1>1, <1>2 DEF Whole, QueueInv
  <1>4. ReceivedInv(ch)'
    BY <1>1 DEF Whole, ReceivedInv
  <1>5. Taken(ch)' = Taken(ch)
    BY <1>2 DEF Taken
  <1> QED
    BY <1>3, <1>4, <1>5 DEF Whole

LEMMA AtWork == ASSUME DeliveryInv, ~RunOver PROVE \A ch \in Channels : Whole(ch)
PROOF
  BY DEF DeliveryInv, RowsInv, Whole

LEMMA WholeAgain ==
    ASSUME counter' \in [Channels -> Nat],
           DOMAIN queue' = Channels, DOMAIN written' = Channels,
           DOMAIN received' = Channels, DOMAIN rows' = Channels,
           \A ch \in Channels : Whole(ch)', CallInv', LateInv'
    PROVE  DeliveryInv'
PROOF
  <1>1. ASSUME NEW ch \in Channels PROVE QueueInv(ch)' /\ ReceivedInv(ch)' /\ RowsInv(ch)'
    BY DEF Whole, RowsInv
  <1> QED
    BY <1>1 DEF DeliveryInv

\* While nothing is written or received, all is as it was.
LEMMA NothingNew ==
    ASSUME DeliveryInv, written' = written, received' = received PROVE Grows
PROOF
  BY DEF DeliveryInv, QueueInv, ReceivedInv, Grows

LEMMA AppendStep ==
    ASSUME DeliveryInv, NEW ch \in Channels, NEW c \in Contents,
           Len(queue[ch]) < Limit[ch], Append1(ch, c)
    PROVE  DeliveryInv'
PROOF
  <1>0. PICK N, Q : N = counter[ch] /\ Q = Len(queue[ch])
    OBVIOUS
  <1> DEFINE e == [seq |-> N + 1, content |-> c]
  <1>1. /\ counter \in [Channels -> Nat]
        /\ DOMAIN queue = Channels /\ DOMAIN written = Channels
        /\ DOMAIN received = Channels /\ DOMAIN rows = Channels
        /\ CallInv /\ LateInv
    BY DEF DeliveryInv
  <1>2. \A x \in Channels : Whole(x)
    <2>1. ~RunOver
      BY DEF RunOver, Append1
    <2> QED
      BY <2>1, AtWork
  <1>3. /\ counter' = [counter EXCEPT ![ch] = N + 1]
        /\ queue' = [queue EXCEPT ![ch] = Append(queue[ch], e)]
        /\ written' = [written EXCEPT ![ch] = Append(written[ch], c)]
        /\ call' = call /\ late' = late /\ rows' = rows /\ received' = received
    BY <1>0 DEF Append1, Number
  <1>4. /\ counter' \in [Channels -> Nat] /\ DOMAIN queue' = Channels
        /\ DOMAIN written' = Channels /\ DOMAIN received' = Channels /\ DOMAIN rows' = Channels
    BY <1>0, <1>1, <1>3
  <1>5. /\ counter'[ch] = N + 1 /\ queue'[ch] = Append(queue[ch], e)
        /\ written'[ch] = Append(written[ch], c)
    BY <1>1, <1>3
  <1>6. /\ N \in Nat /\ N = Len(written[ch]) /\ written[ch] \in Seq(Contents)
        /\ queue[ch] \in Seq(Entries) /\ Q \in Nat /\ Q <= N
        /\ \A i \in 1..Q : queue[ch][i] = Entry(ch, (N - Q) + i)
    BY <1>0, <1>1, <1>2 DEF Whole, QueueInv, Confirmed
  <1>7. e \in Entries
    BY <1>6 DEF Entries
  <1> HIDE DEF e
  <1>8. /\ Append(written[ch], c) \in Seq(Contents) /\ Len(Append(written[ch], c)) = N + 1
        /\ \A n \in 1..N : Append(written[ch], c)[n] = written[ch][n]
        /\ Append(written[ch], c)[N + 1] = c
    BY <1>6, AppendProperties
  <1>9. /\ Append(queue[ch], e) \in Seq(Entries)
        /\ Len(Append(queue[ch], e)) = Q + 1
        /\ \A i \in 1..Q : Append(queue[ch], e)[i] = queue[ch][i]
        /\ Append(queue[ch], e)[Q + 1] = e
    BY <1>0, <1>6, <1>7, AppendProperties
  <1>10. Confirmed(ch)' = N - Q /\ Confirmed(ch) = N - Q
    BY <1>0, <1>5, <1>6, <1>9 DEF Confirmed
  <1>11. \A n \in 1..N : Entry(ch, n)' = Entry(ch, n)
    BY <1>5, <1>8 DEF Entry
  <1>12. Entry(ch, N + 1)' = e
    BY <1>5, <1>8 DEF Entry, e
  <1>13. Limit[ch] \in Nat
    BY DeliveryAssumption
  <1>14. QueueInv(ch)'
    <2>1. ASSUME NEW i \in 1..Q + 1
          PROVE  queue'[ch][i] = Entry(ch, Confirmed(ch) + i)'
      <3>1. CASE i = Q + 1
        <4>1. (N - Q) + i = N + 1
          <5>1. N \in Nat /\ Q \in Nat
            BY <1>6
          <5> QED
            BY <3>1, <5>1
        <4>2. queue'[ch][i] = Entry(ch, (N - Q) + i)'
          BY <1>5, <1>9, <1>12, <3>1, <4>1
        <4> QED
          BY <1>10, <4>2
      <3>2. CASE i # Q + 1
        <4>1. i \in 1..Q /\ (N - Q) + i \in 1..N
          BY <1>6, <3>2
        <4>2. queue'[ch][i] = Entry(ch, (N - Q) + i)
          BY <1>5, <1>6, <1>9, <4>1
        <4>3. queue'[ch][i] = Entry(ch, (N - Q) + i)'
          BY <1>11, <4>1, <4>2
        <4> QED
          BY <1>10, <4>3
      <3> QED
        BY <3>1, <3>2
    <2>2. Len(queue'[ch]) = Q + 1 /\ Len(queue'[ch]) <= Limit[ch]
      BY <1>0, <1>5, <1>6, <1>9, <1>13
    <2> QED
      BY <1>5, <1>6, <1>8, <1>9, <1>10, <2>1, <2>2 DEF QueueInv
  <1>15. ReceivedInv(ch)'
    <2>1. ReceivedInv(ch)
      BY <1>2 DEF Whole
    <2>2. Len(received[ch]) \in Nat
      BY <2>1 DEF ReceivedInv
    <2>3. \A n \in 1..Len(received[ch]) : written'[ch][n] = written[ch][n]
      BY <1>5, <1>6, <1>8, <2>1, <2>2 DEF ReceivedInv
    <2> QED
      BY <1>3, <1>5, <1>6, <1>8, <1>10, <2>1, <2>2, <2>3 DEF ReceivedInv
  <1>16. rows'[ch] = Taken(ch)'
    <2>1. ReceivedInv(ch) /\ rows[ch] = Taken(ch)
      BY <1>2 DEF Whole
    <2>2. Len(received[ch]) \in Nat /\ Len(received[ch]) <= N
      BY <1>6, <2>1 DEF ReceivedInv
    <2>3. \A n \in 1..Len(received[ch]) : Entry(ch, n)' = Entry(ch, n)
      BY <1>6, <1>11, <2>2
    <2>4. Taken(ch)' = {Entry(ch, n)' : n \in 1..Len(received[ch])}
      BY <1>3 DEF Taken
    <2> QED
      BY <1>3, <2>1, <2>3, <2>4 DEF Taken
  <1>17. ASSUME NEW x \in Channels, x # ch PROVE Whole(x)'
    BY <1>1, <1>2, <1>3, <1>17, SameChannel
  <1>18. \A x \in Channels : Whole(x)'
    BY <1>14, <1>15, <1>16, <1>17 DEF Whole
  <1>19. Grows
    <2>1. ASSUME NEW x \in Channels
          PROVE  /\ Len(received[x]) \in Nat /\ Len(received'[x]) \in Nat
                 /\ Len(written[x]) \in Nat /\ Len(written'[x]) \in Nat
                 /\ Len(received[x]) <= Len(received'[x])
                 /\ Len(written[x]) <= Len(written'[x])
                 /\ \A n \in 1..Len(written[x]) : written'[x][n] = written[x][n]
      <3>1. received[x] \in Seq(Contents) /\ written[x] \in Seq(Contents)
        BY <1>2 DEF Whole, QueueInv, ReceivedInv
      <3>2. CASE x = ch
        BY <1>3, <1>5, <1>6, <1>8, <3>1, <3>2
      <3>3. CASE x # ch
        BY <1>1, <1>3, <3>1, <3>3
      <3> QED
        BY <3>2, <3>3
    <2> QED
      BY <2>1 DEF Grows
  <1>20. CallInv'
    BY <1>1, <1>3, <1>19, CallLater
  <1>21. LateInv'
    <2>1. late \in Seq([channel : Channels, batch : Seq(Entries)])
      BY <1>1 DEF LateInv
    <2> QED
      BY <1>1, <1>3, <1>19, <2>1, LateLater
  <1> QED
    BY <1>4, <1>18, <1>20, <1>21, WholeAgain

LEMMA SendStep == ASSUME DeliveryInv, Send PROVE DeliveryInv'
PROOF
  <1>0. PICK ch, q : ch = NextChannel /\ q = queue[ch]
    OBVIOUS
  <1>1. ch \in Channels /\ q # <<>> /\ call = <<>>
    BY <1>0 DEF Send, NextChannel, Channels
  <1>2. /\ counter \in [Channels -> Nat]
        /\ DOMAIN queue = Channels /\ DOMAIN written = Channels
        /\ DOMAIN received = Channels /\ DOMAIN rows = Channels
        /\ CallInv /\ LateInv
    BY DEF DeliveryInv
  <1>3. \A x \in Channels : Whole(x)
    <2>1. ~RunOver
      BY <1>0, <1>1 DEF RunOver
    <2> QED
      BY <2>1, AtWork
  <1>4. /\ counter' = counter /\ queue' = queue /\ written' = written
        /\ late' = late /\ rows' = rows /\ received' = received
    BY DEF Send
  <1>5. \A x \in Channels : Whole(x)'
    BY <1>3, <1>4, SameChannel
  <1>6. Grows
    BY <1>4, NothingNew
  <1>7. LateInv'
    <2>1. late \in Seq([channel : Channels, batch : Seq(Entries)])
      BY <1>2 DEF LateInv
    <2> QED
      BY <1>2, <1>4, <1>6, <2>1, LateLater
  <1> DEFINE n == IF Len(q) < Batch[ch] THEN Len(q) ELSE Batch[ch]
             batch == SubSeq(q, 1, n)
             c == [channel |-> ch, batch |-> batch, state |-> "sent", ack |-> 0]
  <1>8. call' = <<c>>
    BY <1>0 DEF Send
  <1>9. PICK f : f = Confirmed(ch)
    OBVIOUS
  <1>10. /\ q \in Seq(Entries) /\ Len(q) \in Nat /\ Len(q) > 0
         /\ f \in Nat /\ f + Len(q) = Len(written[ch]) /\ f <= Len(received[ch])
         /\ Len(received[ch]) \in Nat
         /\ \A i \in 1..Len(q) : q[i] = Entry(ch, f + i)
    <2>1. QueueInv(ch) /\ ReceivedInv(ch) /\ counter[ch] \in Nat
      BY <1>1, <1>2, <1>3 DEF Whole
    <2>2. q \in Seq(Entries)
      BY <1>0, <2>1 DEF QueueInv
    <2>3. Len(q) \in Nat /\ Len(q) > 0
      BY <1>1, <2>2
    <2>4. f = counter[ch] - Len(q) /\ counter[ch] = Len(written[ch]) /\ f >= 0
      BY <1>0, <1>9, <2>1 DEF QueueInv, Confirmed
    <2>5. f <= Len(received[ch]) /\ Len(received[ch]) \in Nat
      BY <1>9, <2>1 DEF ReceivedInv
    <2>6. \A i \in 1..Len(q) : q[i] = Entry(ch, f + i)
      BY <1>0, <1>9, <2>1 DEF QueueInv
    <2> QED
      BY <2>1, <2>2, <2>3, <2>4, <2>5, <2>6
  <1>11. n \in 1..Len(q)
    <2>1. Batch[ch] \in Nat \ {0}
      BY <1>1, DeliveryAssumption
    <2> QED
      BY <1>10, <2>1
  <1> HIDE DEF n
  <1>12. /\ batch \in Seq(Entries) /\ Len(batch) = n
         /\ \A i \in 1..n : batch[i] = q[i]
    <2>1. \A i \in 1..n : q[i] \in Entries
      BY <1>10, <1>11
    <2>2. 1 \in Int /\ n \in Int /\ n >= 1
      BY <1>11
    <2> HIDE DEF batch
    <2>3. /\ batch \in Seq(Entries) /\ Len(batch) = IF 1 <= n THEN n - 1 + 1 ELSE 0
          /\ \A i \in 1..n - 1 + 1 : batch[i] = q[1 + i - 1]
      BY <2>1, <2>2, SubSeqProperties DEF batch
    <2> QED
      BY <2>2, <2>3
  <1> HIDE DEF batch
  <1>13. c \in Calls
    BY <1>1, <1>12 DEF Calls
  <1>14. batch[1].seq = f + 1
    <2>1. 1 \in 1..n /\ 1 \in 1..Len(q)
      BY <1>10, <1>11
    <2>2. batch[1] = Entry(ch, f + 1)
      BY <1>10, <1>12, <2>1
    <2> QED
      BY <2>2 DEF Entry
  <1>15. Fits(ch, batch)
    <2>1. ASSUME NEW i \in 1..n PROVE batch[i] = Entry(ch, (f + 1) + i - 1)
      <3>1. (f + 1) + i - 1 = f + i /\ i \in 1..Len(q)
        BY <1>10, <1>11
      <3> QED
        BY <1>10, <1>12, <3>1
    <2>2. f + 1 \in 1..Len(received[ch]) + 1 /\ (f + 1) + n - 1 <= Len(written[ch]) /\ n > 0
      BY <1>10, <1>11
    <2> QED
      BY <1>1, <1>12, <1>14, <2>1, <2>2 DEF Fits
  <1>16. CallInv'
    <2>1. PICK b : b = batch
      OBVIOUS
    <2> DEFINE d == [channel |-> ch, batch |-> b, state |-> "sent", ack |-> 0]
    <2>2. Fits(ch, b)'
      BY <1>6, <1>15, <2>1, FitsLater
    <2>3. d \in Calls /\ call' = <<d>>
      BY <1>8, <1>13, <2>1
    <2>4. d.channel = ch /\ d.batch = b /\ d.state # "acked"
      OBVIOUS
    <2>5. Fits(d.channel, d.batch)'
      BY <2>2, <2>4
    <2> QED
      BY <2>3, <2>4, <2>5 DEF CallInv
  <1> QED
    BY <1>2, <1>4, <1>5, <1>7, <1>16, WholeAgain

LEMMA GiveUpStep == ASSUME DeliveryInv, GiveUp PROVE DeliveryInv'
PROOF
  <1>1. /\ counter \in [Channels -> Nat]
        /\ DOMAIN queue = Channels /\ DOMAIN written = Channels
        /\ DOMAIN received = Channels /\ DOMAIN rows = Channels
        /\ CallInv /\ LateInv
    BY DEF DeliveryInv
  <1>2. \A x \in Channels : Whole(x)
    <2>1. ~RunOver
      BY DEF RunOver, GiveUp
    <2> QED
      BY <2>1, AtWork
  <1>3. /\ counter' = counter /\ queue' = queue /\ written' = written
        /\ rows' = rows /\ received' = received /\ call' = <<>>
    BY DEF GiveUp
  <1>4. \A x \in Channels : Whole(x)'
    BY <1>2, <1>3, SameChannel
  <1>5. Grows
    BY <1>3, NothingNew
  <1>6. CallInv'
    BY <1>3 DEF CallInv
  <1>7. LateInv'
    <2>1. late \in Seq([channel : Channels, batch : Seq(Entries)])
      BY <1>1 DEF LateInv
    <2>2. CASE late' = late
      BY <1>1, <1>5, <2>1, <2>2, LateLater
    <2>3. CASE late' # late
      <3>1. PICK c \in Calls : call = <<c>> /\ Fits(c.channel, c.batch)
        BY <1>1 DEF CallInv, GiveUp
      <3> DEFINE b == [channel |-> c.channel, batch |-> c.batch]
      <3>2. late' = Append(late, b)
        BY <2>3, <3>1 DEF GiveUp
      <3>3. b \in [channel : Channels, batch : Seq(Entries)] /\ Fits(b.channel, b.batch)
        BY <3>1 DEF Calls
      <3> HIDE DEF b
      <3>4. /\ late' \in Seq([channel : Channels, batch : Seq(Entries)])
            /\ \A x \in Range(late') : x \in Range(late) \/ x = b
        <4>1. /\ Append(late, b) \in Seq([channel : Channels, batch : Seq(Entries)])
              /\ Len(Append(late, b)) = Len(late) + 1
              /\ \A i \in 1..Len(late) : Append(late, b)[i] = late[i]
              /\ Append(late, b)[Len(late) + 1] = b
          BY <2>1, <3>3, AppendProperties
        <4>2. Len(late) \in Nat /\ DOMAIN late = 1..Len(late)
          BY <2>1
        <4>3. DOMAIN late' = 1..Len(late) + 1
          BY <3>2, <4>1
        <4> QED
          BY <3>2, <4>1, <4>2, <4>3 DEF Range
      <3> QED
        BY <1>1, <1>5, <3>3, <3>4, LateLater
    <2> QED
      BY <2>2, <2>3
  <1> QED
    BY <1>1, <1>3, <1>4, <1>6, <1>7, WholeAgain

LEMMA ReceiveStep == ASSUME DeliveryInv, Receive PROVE DeliveryInv'
PROOF
  <1>1. /\ counter \in [Channels -> Nat]
        /\ DOMAIN queue = Channels /\ DOMAIN written = Channels
        /\ DOMAIN received = Channels /\ DOMAIN rows = Channels
        /\ CallInv /\ LateInv /\ call # <<>>
    BY DEF DeliveryInv, Receive
  <1>2. \A x \in Channels : Whole(x)
    <2>1. ~RunOver
      BY <1>1 DEF RunOver
    <2> QED
      BY <2>1, AtWork
  <1>3. PICK c \in Calls :
           /\ call = <<c>> /\ Fits(c.channel, c.batch)
           /\ c.state = "acked" => /\ c.batch[1].seq <= c.ack
                                   /\ c.ack <= Len(received[c.channel])
    BY <1>1 DEF CallInv
  <1>4. /\ counter' = counter /\ written' = written /\ late' = late
        /\ rows' = rows /\ received' = received /\ call' = <<>>
    BY DEF Receive
  <1>6. c.channel \in Channels /\ c.batch \in Seq(Entries) /\ c.ack \in Nat
    BY DEF Calls
  <1>7. Grows
    BY <1>4, NothingNew
  <1>8. CallInv'
    BY <1>4 DEF CallInv
  <1>9. LateInv'
    <2>1. late \in Seq([channel : Channels, batch : Seq(Entries)])
      BY <1>1 DEF LateInv
    <2> QED
      BY <1>1, <1>4, <1>7, <2>1, LateLater
  <1> DEFINE ch == c.channel
             q == queue[ch]
             n == c.ack
  <1>10. PICK f, Q : f = Confirmed(ch) /\ Q = Len(queue[ch])
    OBVIOUS
  <1>11. /\ q \in Seq(Entries) /\ Q \in Nat /\ Q = Len(q) /\ Q <= Limit[ch]
         /\ f \in Nat /\ f + Q = counter[ch] /\ f <= Len(received[ch])
         /\ Len(received[ch]) \in Nat /\ Len(received[ch]) <= counter[ch]
         /\ \A i \in 1..Q : q[i] = Entry(ch, f + i)
    <2>1. QueueInv(ch) /\ ReceivedInv(ch) /\ counter[ch] \in Nat
      BY <1>1, <1>2, <1>6 DEF Whole
    <2>2. q \in Seq(Entries)
      BY <2>1 DEF QueueInv
    <2>3. Q \in Nat /\ Q = Len(q)
      BY <1>10, <2>2
    <2>4. f = counter[ch] - Q /\ f >= 0 /\ Q <= Limit[ch]
      BY <1>10, <2>1 DEF QueueInv, Confirmed
    <2>5. /\ f <= Len(received[ch]) /\ Len(received[ch]) \in Nat
          /\ Len(received[ch]) <= counter[ch]
      BY <1>10, <2>1 DEF QueueInv, ReceivedInv
    <2>6. \A i \in 1..Q : q[i] = Entry(ch, f + i)
      BY <1>10, <2>1 DEF QueueInv
    <2> QED
      BY <2>1, <2>2, <2>3, <2>4, <2>5, <2>6
  <1>12. c.state = "acked" => n \in Nat /\ n <= Len(received[ch]) /\ c.batch[1].seq <= n
    BY <1>3, <1>6
  <1>13. CASE ~(c.state = "acked" /\ AckValid(c))
    <2>1. queue' = queue
      BY <1>3, <1>13 DEF Receive
    <2>2. \A x \in Channels : Whole(x)'
      BY <1>2, <1>4, <2>1, SameChannel
    <2> QED
      BY <1>1, <1>4, <1>8, <1>9, <2>1, <2>2, WholeAgain
  <1>14. CASE c.state = "acked" /\ AckValid(c)
    <2> DEFINE rest == Above(q, n)
    <2>1. queue' = [queue EXCEPT ![ch] = rest]
      BY <1>3, <1>14 DEF Receive, Unacknowledged
    <2>2. queue'[ch] = rest /\ DOMAIN queue' = Channels
          /\ \A x \in Channels : x # ch => queue'[x] = queue[x]
      BY <1>1, <1>6, <2>1
    <2>3. PICK cut : cut = Cut(q, f, n)
      OBVIOUS
    <2>4. /\ cut \in 0..Q /\ rest \in Seq(Entries) /\ Len(rest) = Q - cut
          /\ \A k \in 1..Q - cut : rest[k] = q[cut + k]
      <3>1. ASSUME NEW i \in 1..Len(q) PROVE q[i].seq = f + i
        <4>1. q[i] = Entry(ch, f + i)
          BY <1>11
        <4> QED
          BY <4>1 DEF Entry
      <3>2. f \in Int /\ n \in Int
        BY <1>11, <1>12, <1>14
      <3> QED
        BY <1>11, <2>3, <3>1, <3>2, AboveCuts
    <2>5. f + cut <= Len(received[ch])
      <3>1. cut = IF n <= f THEN 0 ELSE IF n - f <= Q THEN n - f ELSE Q
        BY <1>11, <2>3 DEF Cut
      <3> HIDE DEF n
      <3> QED
        BY <1>11, <1>12, <1>14, <2>4, <3>1
    <2>6. \A x : Entry(ch, x)' = Entry(ch, x)
      BY <1>4 DEF Entry
    <2> HIDE DEF rest
    <2>7. Confirmed(ch)' = f + cut
      BY <1>4, <1>11, <2>2, <2>4 DEF Confirmed
    <2>8. QueueInv(ch)'
      <3>1. QueueInv(ch) /\ Limit[ch] \in Nat
        BY <1>2, <1>6, DeliveryAssumption DEF Whole
      <3>2. ASSUME NEW i \in 1..Q - cut PROVE queue'[ch][i] = Entry(ch, (f + cut) + i)'
        <4>1. cut + i \in 1..Q /\ f + (cut + i) = (f + cut) + i
          BY <1>11, <2>4
        <4>2. rest[i] = Entry(ch, (f + cut) + i)
          BY <1>11, <2>4, <4>1
        <4> QED
          BY <2>2, <2>6, <4>2
      <3>3. Len(queue'[ch]) = Q - cut /\ Q - cut <= Limit[ch] /\ f + cut >= 0
        BY <1>11, <2>2, <2>4, <3>1
      <3> QED
        BY <1>4, <2>2, <2>4, <2>7, <3>1, <3>2, <3>3 DEF QueueInv
    <2>9. ReceivedInv(ch)'
      <3>1. ReceivedInv(ch)
        BY <1>2, <1>6 DEF Whole
      <3> QED
        BY <1>4, <2>5, <2>7, <3>1 DEF ReceivedInv
    <2>10. rows'[ch] = Taken(ch)'
      BY <1>2, <1>4, <1>6, <2>6 DEF Whole, Taken
    <2>11. ASSUME NEW x \in Channels, x # ch PROVE Whole(x)'
      BY <1>2, <1>4, <2>2, <2>11, SameChannel
    <2>12. \A x \in Channels : Whole(x)'
      BY <2>8, <2>9, <2>10, <2>11 DEF Whole
    <2> QED
      BY <1>1, <1>4, <1>8, <1>9, <2>2, <2>12, WholeAgain
  <1> QED
    BY <1>13, <1>14

\* A batch is taken, asked for by a call or late.
LEMMA StoreStep ==
    ASSUME DeliveryInv, \A x \in Channels : Whole(x),
           NEW ch, NEW batch, Fits(ch, batch), Store(ch, batch),
           counter' = counter, queue' = queue, written' = written
    PROVE  /\ DOMAIN rows' = Channels /\ DOMAIN received' = Channels
           /\ \A x \in Channels : Whole(x)'
           /\ Grows
           /\ AckAfter(ch, batch) \in Nat
           /\ batch[1].seq <= AckAfter(ch, batch)
           /\ AckAfter(ch, batch) <= Len(received'[ch])
PROOF
  <1>1. /\ ch \in Channels /\ batch \in Seq(Entries)
        /\ DOMAIN rows = Channels /\ DOMAIN received = Channels
    BY DEF DeliveryInv, Fits
  <1>2. /\ rows[ch] = Taken(ch) /\ written[ch] \in Seq(Contents) /\ ReceivedInv(ch)
    BY <1>1 DEF Whole, QueueInv
  <1>3. PICK R, N, last, top :
           /\ R = Len(received[ch]) /\ N = Len(batch)
           /\ last = batch[1].seq + Len(batch) - 1
           /\ top = IF last > Len(received[ch]) THEN last ELSE Len(received[ch])
    OBVIOUS
  <1>4. /\ \E stored \in Seq(Contents) :
              /\ received' = [received EXCEPT ![ch] = stored]
              /\ Len(stored) = top
              /\ \A n \in 1..top : stored[n] = written[ch][n]
        /\ rows' = [rows EXCEPT ![ch] = {Entry(ch, n) : n \in 1..top}]
        /\ AckAfter(ch, batch) = top
    <2> DEFINE end == batch[1].seq + Len(batch) - 1
               all == IF end > Len(received[ch]) THEN end ELSE Len(received[ch])
    <2>1. /\ \E stored \in Seq(Contents) :
                /\ received' = [received EXCEPT ![ch] = stored]
                /\ Len(stored) = all
                /\ \A n \in 1..all : stored[n] = written[ch][n]
          /\ rows' = [rows EXCEPT ![ch] = {Entry(ch, n) : n \in 1..all}]
          /\ AckAfter(ch, batch) = all
      BY <1>1, <1>2, StoreTakes
    <2>2. top = all
      BY <1>3
    <2> HIDE DEF all
    <2> QED
      BY <2>1, <2>2
  <1>5. PICK stored \in Seq(Contents) :
           /\ received' = [received EXCEPT ![ch] = stored]
           /\ Len(stored) = top
           /\ \A n \in 1..top : stored[n] = written[ch][n]
    BY <1>4
  <1>6. /\ R \in Nat /\ N \in Nat /\ N > 0 /\ batch[1].seq \in 1..R + 1
        /\ last <= Len(written[ch]) /\ R <= Len(written[ch])
    BY <1>2, <1>3 DEF Fits, ReceivedInv
  <1>7. /\ top \in Nat /\ R <= top /\ top <= Len(written[ch]) /\ batch[1].seq <= top
    BY <1>3, <1>6
  <1>8. /\ received'[ch] = stored /\ rows'[ch] = {Entry(ch, n) : n \in 1..top}
        /\ DOMAIN rows' = Channels /\ DOMAIN received' = Channels
        /\ \A x \in Channels : x # ch => received'[x] = received[x] /\ rows'[x] = rows[x]
    BY <1>1, <1>4, <1>5
  <1>9. \A n : Entry(ch, n)' = Entry(ch, n)
    BY DEF Entry
  <1>10. Confirmed(ch)' = Confirmed(ch)
    BY DEF Confirmed
  <1>11. QueueInv(ch)'
    BY <1>1, <1>9, <1>10 DEF Whole, QueueInv
  <1>12. ReceivedInv(ch)'
    <2>1. Confirmed(ch) <= R /\ Confirmed(ch) \in Int
      <3>1. QueueInv(ch) /\ counter[ch] \in Nat
        BY <1>1 DEF Whole, DeliveryInv
      <3>2. Len(queue[ch]) \in Nat
        BY <3>1 DEF QueueInv
      <3> QED
        BY <1>2, <1>3, <3>1, <3>2 DEF ReceivedInv, Confirmed
    <2>2. Confirmed(ch) <= top
      BY <1>6, <1>7, <2>1
    <2> QED
      BY <1>5, <1>7, <1>8, <1>10, <2>2 DEF ReceivedInv
  <1>13. rows'[ch] = Taken(ch)'
    <2>1. Taken(ch)' = {Entry(ch, n)' : n \in 1..Len(received'[ch])}
      BY DEF Taken
    <2> QED
      BY <1>5, <1>8, <1>9, <2>1
  <1>14. ASSUME NEW x \in Channels, x # ch PROVE Whole(x)'
    BY <1>8, <1>14, SameChannel
  <1>15. \A x \in Channels : Whole(x)'
    BY <1>11, <1>12, <1>13, <1>14 DEF Whole
  <1>16. Grows
    <2>1. ASSUME NEW x \in Channels
          PROVE  /\ Len(received[x]) \in Nat /\ Len(received'[x]) \in Nat
                 /\ Len(received[x]) <= Len(received'[x]) /\ Len(written[x]) \in Nat
      <3>1. received[x] \in Seq(Contents) /\ written[x] \in Seq(Contents)
        BY DEF Whole, QueueInv, ReceivedInv
      <3>2. CASE x = ch
        BY <1>3, <1>5, <1>7, <1>8, <3>1, <3>2
      <3>3. CASE x # ch
        BY <1>8, <3>1, <3>3
      <3> QED
        BY <3>2, <3>3
    <2> QED
      BY <2>1 DEF Grows
  <1> QED
    BY <1>4, <1>5, <1>7, <1>8, <1>15, <1>16

LEMMA HandleStep == ASSUME DeliveryInv, Handle PROVE DeliveryInv'
PROOF
  <1>1. /\ counter \in [Channels -> Nat]
        /\ DOMAIN queue = Channels /\ DOMAIN written = Channels
        /\ CallInv /\ LateInv /\ call # <<>>
    BY DEF DeliveryInv, Handle
  <1>2. \A x \in Channels : Whole(x)
    <2>1. ~RunOver
      BY <1>1 DEF RunOver
    <2> QED
      BY <2>1, AtWork
  <1>3. PICK c \in Calls : call = <<c>> /\ Fits(c.channel, c.batch)
    BY <1>1 DEF CallInv
  <1>4. /\ counter' = counter /\ queue' = queue /\ written' = written /\ late' = late
        /\ Store(c.channel, c.batch)
    BY <1>3 DEF Handle
  <1>5. /\ DOMAIN rows' = Channels /\ DOMAIN received' = Channels
        /\ \A x \in Channels : Whole(x)'
        /\ Grows
        /\ AckAfter(c.channel, c.batch) \in Nat
        /\ c.batch[1].seq <= AckAfter(c.channel, c.batch)
        /\ AckAfter(c.channel, c.batch) <= Len(received'[c.channel])
    BY <1>2, <1>3, <1>4, StoreStep
  <1>6. LateInv'
    <2>1. late \in Seq([channel : Channels, batch : Seq(Entries)])
      BY <1>1 DEF LateInv
    <2> QED
      BY <1>1, <1>4, <1>5, <2>1, LateLater
  <1>7. CallInv'
    <2>1. BatchOk(c.channel, c.batch)
      <3>1. c.channel \in Channels
        BY DEF Calls
      <3>2. rows[c.channel] = Taken(c.channel) /\ Len(received[c.channel]) \in Nat
        BY <1>2, <3>1 DEF Whole, ReceivedInv
      <3> QED
        BY <1>3, <3>1, <3>2, BatchAccepted
    <2>2. PICK ack : ack = AckAfter(c.channel, c.batch)
      OBVIOUS
    <2> DEFINE d == [c EXCEPT !.state = "acked", !.ack = ack]
    <2>3. call' = <<d>>
      BY <1>3, <2>1, <2>2 DEF Handle
    <2>4. d \in Calls /\ d.channel = c.channel /\ d.batch = c.batch /\ d.ack = ack
      BY <1>5, <2>2 DEF Calls
    <2>5. Fits(c.channel, c.batch)'
      BY <1>3, <1>5, FitsLater
    <2> HIDE DEF d
    <2>6. Fits(d.channel, d.batch)'
      BY <2>4, <2>5
    <2> QED
      BY <1>5, <2>2, <2>3, <2>4, <2>6 DEF CallInv
  <1> QED
    BY <1>1, <1>4, <1>5, <1>6, <1>7, WholeAgain

\* A refused call changes neither queue nor table.
LEMMA ForbidStep == ASSUME DeliveryInv, Forbid PROVE DeliveryInv'
PROOF
  <1>1. /\ counter \in [Channels -> Nat]
        /\ DOMAIN queue = Channels /\ DOMAIN written = Channels
        /\ DOMAIN received = Channels /\ DOMAIN rows = Channels
        /\ CallInv /\ LateInv /\ call # <<>>
    BY DEF DeliveryInv, Forbid
  <1>2. ~RunOver
    BY <1>1 DEF RunOver
  <1>3. \A x \in Channels : Whole(x)
    BY <1>2, AtWork
  <1>4. /\ counter' = counter /\ queue' = queue /\ late' = late
        /\ rows' = rows /\ written' = written /\ received' = received
    BY DEF Forbid
  <1>5. \A x \in Channels : Whole(x)'
    BY <1>3, <1>4, SameChannel
  <1>6. Grows
    BY <1>4, NothingNew
  <1>7. LateInv'
    <2>1. late \in Seq([channel : Channels, batch : Seq(Entries)])
      BY <1>1 DEF LateInv
    <2> QED
      BY <1>1, <1>4, <1>6, <2>1, LateLater
  <1>8. CallInv'
    <2>1. PICK c \in Calls : call = <<c>> /\ Fits(c.channel, c.batch)
      BY <1>1 DEF CallInv
    <2> DEFINE d == [c EXCEPT !.state = "forbidden"]
    <2>2. call' = <<d>>
      BY <2>1 DEF Forbid
    <2>3. d \in Calls /\ d.channel = c.channel /\ d.batch = c.batch /\ d.state = "forbidden"
      BY DEF Calls
    <2>4. Fits(c.channel, c.batch)'
      BY <1>6, <2>1, FitsLater
    <2> HIDE DEF d
    <2>5. Fits(d.channel, d.batch)'
      BY <2>3, <2>4
    <2> QED
      BY <2>2, <2>3, <2>5 DEF CallInv
  <1> QED
    BY <1>1, <1>4, <1>5, <1>7, <1>8, WholeAgain

LEMMA HandleLateStep == ASSUME DeliveryInv, HandleLate PROVE DeliveryInv'
PROOF
  <1>1. /\ counter \in [Channels -> Nat]
        /\ DOMAIN queue = Channels /\ DOMAIN written = Channels
        /\ CallInv /\ LateInv
    BY DEF DeliveryInv
  <1>2. PICK i \in DOMAIN late :
           /\ Store(late[i].channel, late[i].batch)
           /\ late' = RemoveAt(late, i)
           /\ counter' = counter /\ queue' = queue /\ call' = call /\ written' = written
    BY DEF HandleLate
  <1>3. \A x \in Channels : Whole(x)
    <2>1. ~RunOver
      BY <1>2 DEF RunOver
    <2> QED
      BY <2>1, AtWork
  <1>4. PICK b : b = late[i]
    OBVIOUS
  <1>5. Fits(b.channel, b.batch) /\ Store(b.channel, b.batch)
    BY <1>1, <1>2, <1>4 DEF LateInv, Range
  <1>6. /\ DOMAIN rows' = Channels /\ DOMAIN received' = Channels
        /\ \A x \in Channels : Whole(x)'
        /\ Grows
    BY <1>2, <1>3, <1>5, StoreStep
  <1>7. LateInv'
    <2>1. late \in Seq([channel : Channels, batch : Seq(Entries)])
      BY <1>1 DEF LateInv
    <2>2. /\ late' \in Seq([channel : Channels, batch : Seq(Entries)])
          /\ Range(late') \subseteq Range(late)
      BY <1>2, <2>1, TakenOut
    <2> QED
      BY <1>1, <1>6, <2>2, LateLater
  <1>8. CallInv'
    BY <1>1, <1>2, <1>6, CallLater
  <1> QED
    BY <1>1, <1>2, <1>6, <1>7, <1>8, WholeAgain

\* What is deleted once the run is over was taken before.
LEMMA ExpireStep == ASSUME DeliveryInv, ~EarlyRetention, Expire PROVE DeliveryInv'
PROOF
  <1>1. /\ counter' = counter /\ queue' = queue /\ written' = written
        /\ call' = call /\ late' = late /\ received' = received
        /\ RunOver
    BY DEF Expire
  <1>2. PICK n : rows' = [rows EXCEPT !["logs"] = {row \in rows["logs"] : row.seq > n}]
    BY DEF Expire
  <1>3. DOMAIN rows = Channels
    BY DEF DeliveryInv
  <1>4. \A x \in Channels : rows'[x] \subseteq rows[x]
    BY <1>2, <1>3
  <1>5. RunOver'
    BY <1>1 DEF RunOver
  <1>6. \A x, m : Entry(x, m)' = Entry(x, m)
    BY <1>1 DEF Entry
  <1>7. \A x : Confirmed(x)' = Confirmed(x) /\ Taken(x)' = Taken(x)
    BY <1>1, <1>6 DEF Confirmed, Taken
  <1>8. ASSUME NEW x \in Channels PROVE QueueInv(x)' /\ ReceivedInv(x)' /\ RowsInv(x)'
    <2>1. QueueInv(x) /\ ReceivedInv(x) /\ RowsInv(x)
      BY DEF DeliveryInv
    <2>2. QueueInv(x)'
      BY <1>1, <1>6, <1>7, <2>1 DEF QueueInv
    <2>3. ReceivedInv(x)'
      BY <1>1, <1>7, <2>1 DEF ReceivedInv
    <2>4. RowsInv(x)'
      BY <1>4, <1>5, <1>7, <2>1 DEF RowsInv
    <2> QED
      BY <2>2, <2>3, <2>4
  <1>9. CallInv' /\ LateInv'
    <2>1. Grows
      BY <1>1, NothingNew
    <2>2. CallInv /\ LateInv
      BY DEF DeliveryInv
    <2>3. late \in Seq([channel : Channels, batch : Seq(Entries)])
      BY <2>2 DEF LateInv
    <2> QED
      BY <1>1, <2>1, <2>2, <2>3, CallLater, LateLater
  <1>10. DOMAIN rows' = Channels
    BY <1>2, <1>3
  <1> QED
    BY <1>1, <1>8, <1>9, <1>10 DEF DeliveryInv

-----------------------------------------------------------------------------
(* Theorems *)

LEMMA DeliveryInit == Init => DeliveryInv
PROOF
  <1> SUFFICES ASSUME Init PROVE DeliveryInv
    OBVIOUS
  <1>1. \A ch \in Channels : /\ counter[ch] = 0 /\ queue[ch] = <<>> /\ rows[ch] = {}
                             /\ written[ch] = <<>> /\ received[ch] = <<>>
    BY DEF Init
  <1>2. ASSUME NEW ch \in Channels PROVE QueueInv(ch) /\ ReceivedInv(ch) /\ RowsInv(ch)
    <2>1. Limit[ch] \in Nat
      BY DeliveryAssumption
    <2>2. <<>> \in Seq(Contents) /\ <<>> \in Seq(Entries) /\ Len(<<>>) = 0
      BY EmptySeq
    <2>3. Confirmed(ch) = 0
      BY <1>1 DEF Confirmed
    <2>4. Taken(ch) = {}
      BY <1>1 DEF Taken
    <2>5. QueueInv(ch)
      BY <1>1, <2>1, <2>2, <2>3 DEF QueueInv, Init
    <2>6. ReceivedInv(ch)
      <3>1. /\ received[ch] \in Seq(Contents)
            /\ Len(received[ch]) = 0 /\ Len(written[ch]) = 0
        BY <1>1, <2>2
      <3> QED
        BY <2>3, <3>1 DEF ReceivedInv
    <2>7. RowsInv(ch)
      BY <1>1, <2>4 DEF RowsInv
    <2> QED
      BY <2>5, <2>6, <2>7
  <1>3. CallInv /\ LateInv
    BY DEF Init, CallInv, LateInv, Range
  <1> QED
    BY <1>2, <1>3 DEF DeliveryInv, Init

LEMMA DeliveryNext ==
    ASSUME ~EarlyRetention, DeliveryInv, [Next]_vars PROVE DeliveryInv'
PROOF
  <1>1. ASSUME NEW c \in Contents, Log(c) PROVE DeliveryInv'
    BY <1>1, AppendStep DEF Log, Channels
  <1>2. ASSUME NEW c \in Contents, Report(c) PROVE DeliveryInv'
    BY <1>2, AppendStep DEF Report, Channels
  <1>3. CASE Send
    BY <1>3, SendStep
  <1>4. CASE Receive
    BY <1>4, ReceiveStep
  <1>5. CASE GiveUp
    BY <1>5, GiveUpStep
  <1>6. CASE Handle
    BY <1>6, HandleStep
  <1>10. CASE Forbid
    BY <1>10, ForbidStep
  <1>7. CASE HandleLate
    BY <1>7, HandleLateStep
  <1>8. CASE Expire
    BY <1>8, ExpireStep
  <1>9. CASE UNCHANGED vars
    <2>1. /\ counter' = counter /\ queue' = queue /\ call' = call /\ late' = late
          /\ rows' = rows /\ written' = written /\ received' = received
      BY <1>9 DEF vars
    <2>2. \A x, n : Entry(x, n)' = Entry(x, n)
      BY <2>1 DEF Entry
    <2>3. \A x : Confirmed(x)' = Confirmed(x) /\ Taken(x)' = Taken(x)
      BY <2>1, <2>2 DEF Confirmed, Taken
    <2>4. RunOver' = RunOver
      BY <2>1 DEF RunOver
    <2>5. ASSUME NEW x \in Channels PROVE QueueInv(x)' /\ ReceivedInv(x)' /\ RowsInv(x)'
      <3>1. QueueInv(x) /\ ReceivedInv(x) /\ RowsInv(x)
        BY DEF DeliveryInv
      <3>2. QueueInv(x)'
        BY <2>1, <2>2, <2>3, <3>1 DEF QueueInv
      <3>3. ReceivedInv(x)'
        BY <2>1, <2>3, <3>1 DEF ReceivedInv
      <3>4. RowsInv(x)'
        BY <2>1, <2>3, <2>4, <3>1 DEF RowsInv
      <3> QED
        BY <3>2, <3>3, <3>4
    <2>6. CallInv' /\ LateInv'
      <3>1. Grows
        BY <2>1, NothingNew
      <3>2. CallInv /\ LateInv
        BY DEF DeliveryInv
      <3>3. late \in Seq([channel : Channels, batch : Seq(Entries)])
        BY <3>2 DEF LateInv
      <3> QED
        BY <2>1, <3>1, <3>2, <3>3, CallLater, LateLater
    <2> QED
      BY <2>1, <2>5, <2>6 DEF DeliveryInv
  <1> QED
    BY <1>1, <1>2, <1>3, <1>4, <1>5, <1>6, <1>7, <1>8, <1>9, <1>10 DEF Next

\* For any batch and queue limits, any number of crashes, losses and calls handled late.
THEOREM DeliveryInvariant == ASSUME ~EarlyRetention PROVE Spec => []DeliveryInv
PROOF
  <1>1. Init => DeliveryInv
    BY DeliveryInit
  <1>2. DeliveryInv /\ [Next]_vars => DeliveryInv'
    BY DeliveryNext
  <1> QED
    BY <1>1, <1>2, PTL DEF Spec

\* The types; and neither queue of state.json ever exceeds its limit (runner.py:242-270).
THEOREM DeliveryTyped == ASSUME ~EarlyRetention PROVE Spec => []TypeOK
PROOF
  <1>1. DeliveryInv => TypeOK
    <2> SUFFICES ASSUME DeliveryInv PROVE TypeOK
      OBVIOUS
    <2>1. ASSUME NEW ch \in Channels
          PROVE  /\ Len(queue[ch]) <= Limit[ch]
                 /\ Range(queue[ch]) \subseteq Entries /\ rows[ch] \subseteq Entries
                 /\ Range(written[ch]) \cup Range(received[ch]) \subseteq Contents
      <3>1. QueueInv(ch) /\ ReceivedInv(ch) /\ rows[ch] \subseteq Taken(ch)
        BY DEF DeliveryInv, RowsInv
      <3>2. /\ queue[ch] \in Seq(Entries)
            /\ written[ch] \in Seq(Contents) /\ received[ch] \in Seq(Contents)
        BY <3>1 DEF QueueInv, ReceivedInv
      <3>3. /\ Range(queue[ch]) \subseteq Entries
            /\ Range(written[ch]) \subseteq Contents /\ Range(received[ch]) \subseteq Contents
        BY <3>2 DEF Range
      <3>4. ASSUME NEW n \in 1..Len(received[ch]) PROVE Entry(ch, n) \in Entries
        <4>1. n \in Nat /\ n \in 1..Len(written[ch])
          BY <3>1, <3>2 DEF ReceivedInv
        <4>2. written[ch][n] \in Contents
          BY <3>2, <4>1
        <4> QED
          BY <4>1, <4>2 DEF Entry, Entries
      <3> QED
        BY <3>1, <3>3, <3>4 DEF QueueInv, Taken
    <2>2. call = <<>> \/ call[1].state \in {"sent", "acked", "refused", "forbidden"}
      BY DEF DeliveryInv, CallInv, Calls
    <2>3. ASSUME NEW i \in DOMAIN late PROVE late[i].channel \in Channels
      <3>1. Fits(late[i].channel, late[i].batch)
        BY DEF DeliveryInv, LateInv, Range
      <3> QED
        BY <3>1 DEF Fits
    <2> QED
      BY <2>1, <2>2, <2>3 DEF DeliveryInv, TypeOK
  <1> QED
    BY <1>1, DeliveryInvariant, PTL

\* What is taken is what was written, once and in order, and what is not is still queued
\* (runner.py:272-282, app.py:669-682, 736-746).
THEOREM DeliveredOnce == ASSUME ~EarlyRetention PROVE Spec => []NothingLost
PROOF
  <1>1. DeliveryInv => NothingLost
    <2> SUFFICES ASSUME DeliveryInv, NEW ch \in Channels
                 PROVE  /\ IsPrefix(received[ch], written[ch])
                        /\ \A n \in Len(received[ch]) + 1 .. Len(written[ch]) :
                              [seq |-> n, content |-> written[ch][n]] \in Range(queue[ch])
      BY DEF NothingLost
    <2>1. QueueInv(ch) /\ ReceivedInv(ch) /\ counter[ch] \in Nat
      BY DEF DeliveryInv
    <2>2. PICK R, s, w : R = Len(received[ch]) /\ s = received[ch] /\ w = written[ch]
      OBVIOUS
    <2>3. /\ s \in Seq(Contents) /\ w \in Seq(Contents) /\ R = Len(s) /\ R \in Nat
          /\ R <= Len(w) /\ \A n \in 1..R : s[n] = w[n]
      BY <2>1, <2>2 DEF QueueInv, ReceivedInv
    <2>4. IsPrefix(s, w)
      <3>1. ASSUME NEW x \in Seq(Contents), R <= Len(x)
            PROVE  /\ SubSeq(x, 1, R) \in Seq(Contents) /\ Len(SubSeq(x, 1, R)) = R
                   /\ \A n \in 1..R : SubSeq(x, 1, R)[n] = x[n]
        <4>1. \A n \in 1..R : x[n] \in Contents
          BY <2>3, <3>1
        <4> DEFINE y == SubSeq(x, 1, R)
        <4>2. /\ y \in Seq(Contents) /\ Len(y) = IF 1 <= R THEN R - 1 + 1 ELSE 0
              /\ \A n \in 1..R - 1 + 1 : y[n] = x[1 + n - 1]
          BY <2>3, <4>1, SubSeqProperties
        <4> HIDE DEF y
        <4>3. y \in Seq(Contents) /\ Len(y) = R /\ \A n \in 1..R : y[n] = x[n]
          BY <2>3, <4>2
        <4> QED
          BY <4>3 DEF y
      <3>2. /\ SubSeq(s, 1, R) \in Seq(Contents) /\ Len(SubSeq(s, 1, R)) = R
            /\ SubSeq(w, 1, R) \in Seq(Contents) /\ Len(SubSeq(w, 1, R)) = R
            /\ \A n \in 1..R : SubSeq(s, 1, R)[n] = SubSeq(w, 1, R)[n]
        BY <2>3, <3>1
      <3>3. SubSeq(s, 1, R) = SubSeq(w, 1, R)
        BY <3>2
      <3> QED
        BY <2>3, <3>3 DEF IsPrefix
    <2>5. ASSUME NEW n \in R + 1 .. Len(w) PROVE Entry(ch, n) \in Range(queue[ch])
      <3>1. PICK f, Q : f = Confirmed(ch) /\ Q = Len(queue[ch])
        OBVIOUS
      <3>2. queue[ch] \in Seq(Entries) /\ Q \in Nat /\ f + Q = Len(w) /\ f \in Nat /\ f <= R
        <4>1. queue[ch] \in Seq(Entries) /\ counter[ch] = Len(w)
          BY <2>1, <2>2 DEF QueueInv
        <4>2. Q \in Nat /\ f = counter[ch] - Q /\ f >= 0
          BY <2>1, <3>1, <4>1 DEF QueueInv, Confirmed
        <4>3. f <= R
          BY <2>1, <2>2, <3>1 DEF ReceivedInv
        <4>4. f \in Nat /\ f + Q = counter[ch]
          BY <2>1, <4>2
        <4> QED
          BY <4>1, <4>2, <4>3, <4>4
      <3>3. n - f \in 1..Q /\ f + (n - f) = n
        BY <2>3, <3>2
      <3>4. queue[ch][n - f] = Entry(ch, n)
        BY <2>1, <3>1, <3>3 DEF QueueInv
      <3>5. n - f \in DOMAIN queue[ch]
        <4>1. DOMAIN queue[ch] = 1..Q
          BY <3>1, <3>2, LenProperties
        <4> QED
          BY <3>3, <4>1
      <3> QED
        BY <3>4, <3>5 DEF Range
    <2> QED
      BY <2>2, <2>4, <2>5 DEF Entry
  <1> QED
    BY <1>1, DeliveryInvariant, PTL

\* No batch is refused for its numbers, and no answer makes the runner halt (runner.py:277-280,
\* app.py:672-676, 739-743).
THEOREM NoBatchRefused == ASSUME ~EarlyRetention PROVE Spec => []NeverRefused
PROOF
  <1>1. DeliveryInv => NeverRefused
    <2> SUFFICES ASSUME DeliveryInv, call # <<>> PROVE NeverRefused
      BY DEF NeverRefused
    <2>1. PICK c \in Calls :
             /\ call = <<c>> /\ Fits(c.channel, c.batch)
             /\ c.state = "acked" => /\ c.batch[1].seq <= c.ack
                                     /\ c.ack <= Len(received[c.channel])
      BY DEF DeliveryInv, CallInv
    <2>2. c.state # "refused"
      BY DEF Calls
    <2>3. ASSUME c.state = "acked" PROVE AckValid(c)
      <3>1. c.channel \in Channels /\ c.ack \in Nat
        BY DEF Calls
      <3>2. QueueInv(c.channel) /\ ReceivedInv(c.channel) /\ counter[c.channel] \in Nat
        BY <3>1 DEF DeliveryInv
      <3>3. c.ack <= counter[c.channel]
        <4>1. Len(received[c.channel]) \in Nat /\ Len(received[c.channel]) <= counter[c.channel]
          BY <3>2 DEF QueueInv, ReceivedInv
        <4> QED
          BY <2>1, <2>3, <3>1, <3>2, <4>1
      <3>4. Head(c.batch) = c.batch[1]
        BY <2>1 DEF Fits
      <3> QED
        BY <2>1, <2>3, <3>3, <3>4 DEF AckValid
    <2> QED
      BY <2>1, <2>2, <2>3 DEF NeverRefused
  <1> QED
    BY <1>1, DeliveryInvariant, PTL
=============================================================================
