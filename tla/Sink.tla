-------------------------------- MODULE Sink --------------------------------
(***************************************************************************)
(* A buffered sink, src/src/sinks/Sink.js, in front of a driver that       *)
(* answers later: SqlSink, whose statement stores a batch at once, or      *)
(* S3Sink, which with a key stores it row by row.  flush() takes the       *)
(* buffer without waiting for the flushes under way, so several batches    *)
(* may be with the driver at a time.                                       *)
(*                                                                         *)
(* Rows are numbered in the order write() accepted them; of a row only its *)
(* number and its key are told apart.                                      *)
(***************************************************************************)
EXTENDS Naturals, Sequences, SequencesExt

CONSTANTS
    Keys, NoKey,  \* a row's key; NoKey for a row without the key field
    BatchSize, Retries,
    MaxRows,      \* bound: rows that are accepted
    MaxPerCall    \* bound: rows in one call of write

ASSUME SinkAssumption ==
    /\ NoKey \notin Keys
    /\ BatchSize \in Nat \ {0} /\ Retries \in Nat /\ MaxRows \in Nat /\ MaxPerCall \in Nat \ {0}

\* Configurations: whether there is a key, whether the driver stores row by row, which S3Sink
\* does with a key only, and whether there is a flushInterval.
Setups ==
    {s \in [keyed: BOOLEAN, rowByRow: BOOLEAN, timer: BOOLEAN] : s.rowByRow => s.keyed}

VARIABLES
    setup,
    buffer,       \* _buffer
    index,        \* _index: the place of a key in the buffer, or 0
    flights,      \* the flushes under way
    closing,      \* close() was called
    closed,       \* _closed
    accepted,     \* how many rows write() accepted
    keyOf,        \* history: the keys of the accepted rows
    written, failed, replaced,   \* the rows that _stats counts as written, failed, duplicates
    table,        \* what the destination holds under a key, or 0
    copies,       \* how often each row was stored
    retried,      \* history: the rows whose driver call failed at least once
    overlapped    \* history: the keys that were in two batches under way at once

stats == <<written, failed, replaced>>
destination == <<table, copies>>
vars == <<setup, buffer, index, flights, closing, closed, accepted, keyOf, stats, destination,
          retried, overlapped>>

RowIds == 1..MaxRows
Rows == [id: RowIds, key: Keys \union {NoKey}]

\* A flush: its batch, the attempt it is at, how many rows that attempt stored so far,
\* whether it waits for its next attempt, and whether close() waits for it.
Flights == [batch: Seq(Rows), attempt: 0..Retries, stored: Nat, delayed: BOOLEAN,
            forClose: BOOLEAN]

IdsOf(aBatch) == {aBatch[k].id : k \in DOMAIN aBatch}
KeysOf(aBatch) == {aBatch[k].key : k \in DOMAIN aBatch}

\* Types; the index is that of the buffer.
TypeOK ==
    /\ setup \in Setups
    /\ buffer \in Seq(Rows)
    /\ index \in [Keys -> 0..MaxRows]
    /\ \A k \in Keys : index[k] # 0 => index[k] \in DOMAIN buffer /\ buffer[index[k]].key = k
    /\ flights \subseteq Flights
    /\ closing \in BOOLEAN /\ closed \in BOOLEAN
    /\ accepted \in 0..MaxRows /\ keyOf \in Seq(Keys \union {NoKey}) /\ Len(keyOf) = accepted
    /\ written \subseteq RowIds /\ failed \subseteq RowIds /\ replaced \subseteq RowIds
    /\ table \in [Keys -> 0..MaxRows] /\ copies \in [RowIds -> Nat]
    /\ retried \subseteq RowIds /\ overlapped \subseteq Keys

-----------------------------------------------------------------------------
\* The slip of noting the place before the row.
PushMisplaced(acc, row) ==
    IF setup.keyed /\ acc.index[row.key] # 0
    THEN [acc EXCEPT !.buffer[acc.index[row.key]] = row,
                     !.replaced = @ \union {acc.buffer[acc.index[row.key]].id}]
    ELSE [acc EXCEPT !.buffer = Append(@, row),
                     !.index = IF setup.keyed THEN [@ EXCEPT ![row.key] = Len(acc.buffer)]
                               ELSE @]

\* _push: with a key the newest row takes the place of the one that waits.
Push(acc, row) ==
    IF setup.keyed /\ acc.index[row.key] # 0
    THEN [acc EXCEPT !.buffer[acc.index[row.key]] = row,
                     !.replaced = @ \union {acc.buffer[acc.index[row.key]].id}]
    ELSE [acc EXCEPT !.buffer = Append(@, row),
                     !.index = IF setup.keyed THEN [@ EXCEPT ![row.key] = Len(acc.buffer) + 1]
                               ELSE @]

NoIndex == [k \in Keys |-> 0]

\* The first lines of flush: the buffer and its index start afresh.
Take == buffer' = <<>> /\ index' = NoIndex

Launch(aBatch, forClose) ==
    /\ flights' = flights \union
          {[batch |-> aBatch, attempt |-> 0, stored |-> 0, delayed |-> FALSE,
            forClose |-> forClose]}
    /\ overlapped' = overlapped \union
          {k \in KeysOf(aBatch) \intersect Keys : \E f \in flights : k \in KeysOf(f.batch)}

-----------------------------------------------------------------------------
Init ==
    /\ setup \in Setups
    /\ buffer = <<>> /\ index = NoIndex
    /\ flights = {}
    /\ closing = FALSE /\ closed = FALSE
    /\ accepted = 0 /\ keyOf = <<>>
    /\ written = {} /\ failed = {} /\ replaced = {}
    /\ table = [k \in Keys |-> 0] /\ copies = [r \in RowIds |-> 0]
    /\ retried = {} /\ overlapped = {}

KeysIn(keys) == {keys[n] : n \in DOMAIN keys}

\* The rows that a call of write pushes: with a key, those before the first that lacks it.
Pushed(keys) ==
    LET missing == {n \in DOMAIN keys : setup.keyed /\ keys[n] = NoKey}
        count == IF missing = {} THEN Len(keys) ELSE Min(missing) - 1
    IN  [n \in 1..count |-> [id |-> accepted + n, key |-> keys[n]]]

\* What the buffer has become when write has pushed the rows one by one.
PushedAll(rows) ==
    LET after[n \in 0..Len(rows)] ==
            IF n = 0 THEN [buffer |-> buffer, index |-> index, replaced |-> replaced]
            ELSE Push(after[n - 1], rows[n])
    IN  after[Len(rows)]

\* write: the rows are pushed one by one; unless one of them threw, a full buffer is flushed.
Write(keys) ==
    LET rows == Pushed(keys)
        acc == PushedAll(rows)
    IN  /\ ~closed
        /\ setup.keyed \/ KeysIn(keys) = {NoKey}
        /\ accepted + Len(keys) <= MaxRows
        /\ accepted' = accepted + Len(rows)
        /\ keyOf' = keyOf \o [n \in DOMAIN rows |-> rows[n].key]
        /\ replaced' = acc.replaced
        /\ IF Len(rows) = Len(keys) /\ Len(acc.buffer) >= BatchSize
           THEN Take /\ Launch(acc.buffer, FALSE)
           ELSE buffer' = acc.buffer /\ index' = acc.index /\ UNCHANGED <<flights, overlapped>>
        /\ UNCHANGED <<setup, closing, closed, written, failed, destination, retried>>

\* flush called from outside.
Flush ==
    /\ buffer # <<>>
    /\ Take /\ Launch(buffer, FALSE)
    /\ UNCHANGED <<setup, closing, closed, accepted, keyOf, stats, destination, retried>>

\* flush called by the interval timer, which close stops first.
TimerFires == setup.timer /\ ~closing /\ Flush

StoreRow(row) ==
    /\ table' = IF row.key = NoKey THEN table ELSE [table EXCEPT ![row.key] = row.id]
    /\ copies' = [copies EXCEPT ![row.id] = @ + 1]

\* The driver stores the next row of a batch, or the whole of it.
StoreNext(f) ==
    /\ setup.rowByRow /\ ~f.delayed /\ f.stored < Len(f.batch)
    /\ StoreRow(f.batch[f.stored + 1])
    /\ flights' = (flights \ {f}) \union {[f EXCEPT !.stored = @ + 1]}
    /\ UNCHANGED <<setup, buffer, index, closing, closed, accepted, keyOf, stats, retried,
                   overlapped>>

StoreAll(f) ==
    /\ ~setup.rowByRow /\ ~f.delayed /\ f.stored = 0
    /\ table' = [k \in Keys |->
                    IF k \in KeysOf(f.batch)
                    THEN Max({r.id : r \in {s \in ToSet(f.batch) : s.key = k}}) ELSE table[k]]
    /\ copies' = [r \in RowIds |-> IF r \in IdsOf(f.batch) THEN copies[r] + 1 ELSE copies[r]]
    /\ flights' = (flights \ {f}) \union {[f EXCEPT !.stored = Len(f.batch)]}
    /\ UNCHANGED <<setup, buffer, index, closing, closed, accepted, keyOf, stats, retried,
                   overlapped>>

\* The slip of counting a batch that was only sent.
SucceedUnanswered(f) ==
    /\ ~f.delayed
    /\ written' = written \union IdsOf(f.batch)
    /\ flights' = flights \ {f}
    /\ UNCHANGED <<setup, buffer, index, closing, closed, accepted, keyOf, failed, replaced,
                   destination, retried, overlapped>>

\* _onBatch resolves.
Succeed(f) ==
    /\ ~f.delayed /\ f.stored = Len(f.batch)
    /\ written' = written \union IdsOf(f.batch)
    /\ flights' = flights \ {f}
    /\ UNCHANGED <<setup, buffer, index, closing, closed, accepted, keyOf, failed, replaced,
                   destination, retried, overlapped>>

\* _onBatch rejects, whatever it had stored by then, and flush will try again.
Reject(f) ==
    /\ ~f.delayed /\ f.attempt < Retries
    /\ flights' = (flights \ {f}) \union {[f EXCEPT !.delayed = TRUE]}
    /\ retried' = retried \union IdsOf(f.batch)
    /\ UNCHANGED <<setup, buffer, index, closing, closed, accepted, keyOf, stats, destination,
                   overlapped>>

\* The slip of a retry that goes on for ever.
RetryAgain(f) ==
    /\ f.delayed
    /\ flights' = (flights \ {f}) \union {[f EXCEPT !.delayed = FALSE, !.stored = 0]}
    /\ UNCHANGED <<setup, buffer, index, closing, closed, accepted, keyOf, stats, destination,
                   retried, overlapped>>

\* The delay before the next attempt is over.
Retry(f) ==
    /\ f.delayed
    /\ flights' = (flights \ {f}) \union
          {[f EXCEPT !.delayed = FALSE, !.stored = 0, !.attempt = @ + 1]}
    /\ UNCHANGED <<setup, buffer, index, closing, closed, accepted, keyOf, stats, destination,
                   retried, overlapped>>

\* _onBatch rejects for the last time: the batch is counted and dropped, flush rejects.
Abandon(f) ==
    /\ ~f.delayed /\ f.attempt = Retries
    /\ failed' = failed \union IdsOf(f.batch)
    /\ flights' = flights \ {f}
    /\ retried' = retried \union IdsOf(f.batch)
    /\ UNCHANGED <<setup, buffer, index, closing, closed, accepted, keyOf, written, replaced,
                   destination, overlapped>>

\* close stops the timer and flushes what the buffer holds.
Close ==
    /\ ~closing
    /\ closing' = TRUE
    /\ IF buffer = <<>> THEN UNCHANGED <<buffer, index, flights, overlapped>>
       ELSE Take /\ Launch(buffer, TRUE)
    /\ UNCHANGED <<setup, closed, accepted, keyOf, stats, destination, retried>>

\* The flush of close has resolved or rejected.
CloseReturns ==
    /\ closing /\ ~closed
    /\ \A f \in flights : ~f.forClose
    /\ closed' = TRUE
    /\ UNCHANGED <<setup, buffer, index, flights, closing, accepted, keyOf, stats, destination,
                   retried, overlapped>>

Answer(f) == StoreNext(f) \/ StoreAll(f) \/ Succeed(f) \/ Reject(f) \/ Retry(f) \/ Abandon(f)

Next ==
    \/ \E n \in 1..MaxPerCall : \E keys \in [1..n -> Keys \union {NoKey}] : Write(keys)
    \/ Flush \/ TimerFires \/ Close \/ CloseReturns
    \/ \E f \in flights : Answer(f)

\* The interval timer fires, a promise that is settled is acted on, and the driver answers.
Spec ==
    /\ Init /\ [][Next]_vars
    /\ WF_vars(TimerFires) /\ WF_vars(CloseReturns) /\ WF_vars(\E f \in flights : Answer(f))

-----------------------------------------------------------------------------
Buffered == IdsOf(buffer)
Apart(places) == \A m, n \in 1..5 : m # n => places[m] \intersect places[n] = {}
UnderWay == UNION {IdsOf(f.batch) : f \in flights}

\* Every row that write() accepted is in one place: buffered, in one batch under way,
\* counted as written or as failed, or replaced by a newer row of its key.  A written row was
\* stored, and more often than once only after a driver call failed.
RowsAccounted ==
    /\ 1..accepted = Buffered \union UnderWay \union written \union failed \union replaced
    /\ Apart(<<Buffered, UnderWay, written, failed, replaced>>)
    /\ \A f, g \in flights : f = g \/ IdsOf(f.batch) \intersect IdsOf(g.batch) = {}
    /\ \A r \in written : copies[r] >= 1
    /\ \A r \in RowIds \ retried : copies[r] <= 1
    /\ \A r \in replaced : copies[r] = 0

\* The state is of its types, and every row is accounted for.
RowsSound == TypeOK /\ RowsAccounted

\* Under a key the destination holds no row older than one that was written, unless two
\* batches with that key were under way at once.
NewestWins ==
    setup.keyed =>
       \A k \in Keys \ overlapped, r \in written : keyOf[r] = k => table[k] >= r

\* The timer sees to it that no buffered row waits for ever, the flushes under way come to
\* their end, however often the driver fails, and close() returns.
RowsSettle ==
    /\ setup.timer /\ buffer # <<>> ~> closing \/ buffer = <<>>
    /\ flights # {} ~> flights = {}
    /\ closing ~> closed

\* README.md: "close() flushes what is left, stops the timer and marks the sink closed".
CloseLeavesNothing == closed => buffer = <<>>
=============================================================================
