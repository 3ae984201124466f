-------------------------- MODULE DistributedQueue --------------------------
(***************************************************************************)
(* One run() of a DistributedQueue on its MemoryAdapter,                   *)
(* src/src/modules/DistributedQueue.js.  The adapter's methods run to      *)
(* their end without awaiting, so each is atomic; the workers interleave   *)
(* at the visits, at the awaits around an adapter call, and while they     *)
(* sleep.  Leases are checked by nobody but the next dequeue.              *)
(*                                                                         *)
(* The queue, which the code sorts by priority and time of arrival, is     *)
(* kept as one first-in first-out line per priority; time is told apart    *)
(* only as the age of a lease.                                             *)
(***************************************************************************)
EXTENDS Naturals, Sequences, FiniteSets

CONSTANTS
    Items, Workers,
    Priorities,      \* what enqueue is called with; 0 is the default and the most urgent
    EmptyRetries, MaxItemRetries,
    LeaseTimeout,    \* leaseTimeoutMs in ticks; 0 for leases that do not expire
    MaxEnqueues,     \* bound: calls of enqueue
    MaxHangs,        \* bound: visits that never settle
    None             \* no item, no lease

ASSUME DistributedQueueAssumption ==
    /\ IsFiniteSet(Items) /\ IsFiniteSet(Workers) /\ None \notin Items
    /\ Priorities \subseteq Nat /\ 0 \in Priorities
    /\ EmptyRetries \in Nat \ {0} /\ MaxItemRetries \in Nat \ {0} /\ LeaseTimeout \in Nat
    /\ MaxEnqueues \in Nat /\ MaxHangs \in Nat
    /\ None \notin [age: Nat, priority: Nat]

VARIABLES
    queue,           \* _queue, a line of items for each priority
    locked,          \* _locked: the lease on an item, or None
    done,            \* _done
    worker,          \* where each worker of run() is, its item and its emptyStreak
    failureCounts,   \* of run(); 0 for an item it has no entry for
    deadLetter,      \* how often an item is on the dead-letter list
    succeeded,       \* history: how often results holds an item without error
    known,           \* history: the items enqueue was called with
    expired,         \* history: the items whose lease ran out and was taken away
    enqueues, hangs  \* how often enqueue was called, a visit hung

adapter == <<queue, locked, done>>
vars == <<adapter, worker, failureCounts, deadLetter, succeeded, known, expired, enqueues, hangs>>

Leases == [age: 0..LeaseTimeout, priority: Priorities]
Places == {"polling", "visiting", "hung", "settling", "dropping", "sleeping", "finished"}
WorkerStates == [pc: Places, item: Items \union {None}, emptyStreak: 0..EmptyRetries]

\* Types; only a worker that polls, sleeps or has left has no item.
TypeOK ==
    /\ queue \in [Priorities -> Seq(Items)]
    /\ locked \in [Items -> Leases \union {None}]
    /\ done \subseteq Items
    /\ worker \in [Workers -> WorkerStates]
    /\ \A w \in Workers :
          worker[w].item = None <=> worker[w].pc \in {"polling", "sleeping", "finished"}
    /\ failureCounts \in [Items -> Nat]
    /\ deadLetter \in [Items -> Nat] /\ succeeded \in [Items -> Nat]
    /\ known \subseteq Items /\ expired \subseteq Items
    /\ enqueues \in 0..MaxEnqueues /\ hangs \in 0..MaxHangs

-----------------------------------------------------------------------------
At(w, pc) == worker[w].pc = pc

Goto(w, pc) == worker' = [worker EXCEPT ![w] = [pc |-> pc, item |-> None, emptyStreak |-> 0]]

GotoWith(w, pc, i) == worker' = [worker EXCEPT ![w] = [pc |-> pc, item |-> i, emptyStreak |-> 0]]

Queued(i) == \E p \in Priorities : \E k \in DOMAIN queue[p] : queue[p][k] = i

Locked(i) == locked[i] # None

\* The slip of queueing only what nobody works on: it is remembered for nobody.
PushUnlessLocked(i, p) ==
    queue' = IF i \in done \/ Locked(i) THEN queue ELSE [queue EXCEPT ![p] = Append(@, i)]

\* The last lines of enqueue and release, and of the lease that ran out.
Push(i, p) ==
    queue' = IF i \in done \/ Queued(i) THEN queue ELSE [queue EXCEPT ![p] = Append(@, i)]

\* The slip of handing the lease's time out in full, and one tick more.
ExpiredLate == {i \in Items : Locked(i) /\ LeaseTimeout > 0 /\ locked[i].age > LeaseTimeout}

Expired == {i \in Items : Locked(i) /\ LeaseTimeout > 0 /\ locked[i].age >= LeaseTimeout}

Lines(S) == {s \in [1..Cardinality(S) -> S] : \A i \in S : \E k \in DOMAIN s : s[k] = i}

\* What _expireLeases may push on each line.  In which order it comes on leases that
\* ran out between the same two dequeues is left open.
Returned ==
    LET due(p) == {i \in Expired : i \notin done /\ ~Queued(i) /\ locked[i].priority = p}
    IN  {back \in [Priorities -> UNION {Lines(S) : S \in SUBSET Expired}] :
            \A p \in Priorities : back[p] \in Lines(due(p))}

\* The queue and the leases after _expireLeases.
Pool(back) == [p \in Priorities |-> queue[p] \o back[p]]

Kept == [i \in Items |-> IF i \in Expired THEN None ELSE locked[i]]

\* The slip of taking the next entry without looking for a lease on it.
FreeUnlessDone(line) == {k \in DOMAIN line : line[k] \notin done}

\* The places in a line that the loop of dequeue does not pass over.
Free(line) == {k \in DOMAIN line : Kept[line[k]] = None /\ line[k] \notin done}

-----------------------------------------------------------------------------
Init ==
    /\ queue = [p \in Priorities |-> <<>>]
    /\ locked = [i \in Items |-> None]
    /\ done = {}
    /\ worker = [w \in Workers |-> [pc |-> "polling", item |-> None, emptyStreak |-> 0]]
    /\ failureCounts = [i \in Items |-> 0]
    /\ deadLetter = [i \in Items |-> 0] /\ succeeded = [i \in Items |-> 0]
    /\ known = {} /\ expired = {}
    /\ enqueues = 0 /\ hangs = 0

\* enqueue of one item; a list is as many calls.
Enqueue(i, p) ==
    /\ enqueues < MaxEnqueues
    /\ enqueues' = enqueues + 1
    /\ known' = known \union {i}
    /\ Push(i, p)
    /\ UNCHANGED <<locked, done, worker, failureCounts, deadLetter, succeeded, expired, hangs>>

\* dequeue hands out the first free entry; what it passed over is gone from the queue.
HandOut(w) ==
    /\ At(w, "polling")
    /\ \E back \in Returned, p \in Priorities :
         \E k \in Free(Pool(back)[p]) :
            LET line == Pool(back)[p]
            IN  /\ \A l \in Free(line) : k <= l
                /\ \A q \in Priorities : q < p => Free(Pool(back)[q]) = {}
                /\ queue' = [q \in Priorities |->
                                IF q < p THEN <<>>
                                ELSE IF q = p THEN SubSeq(line, k + 1, Len(line))
                                ELSE Pool(back)[q]]
                /\ locked' = [Kept EXCEPT ![line[k]] = [age |-> 0, priority |-> p]]
                /\ GotoWith(w, "visiting", line[k])
    /\ expired' = expired \union Expired
    /\ UNCHANGED <<done, failureCounts, deadLetter, succeeded, known, enqueues, hangs>>

\* dequeue finds nothing: the worker sleeps for the pollInterval.
ComeBackEmpty(w) ==
    /\ At(w, "polling")
    /\ \E back \in Returned :
          \A p \in Priorities : Free(Pool(back)[p]) = {}
    /\ queue' = [p \in Priorities |-> <<>>]
    /\ locked' = Kept
    /\ worker' = [worker EXCEPT ![w] = [pc |-> "sleeping", item |-> None,
                                        emptyStreak |-> @.emptyStreak + 1]]
    /\ expired' = expired \union Expired
    /\ UNCHANGED <<done, failureCounts, deadLetter, succeeded, known, enqueues, hangs>>

\* The slip of leaving after the first empty poll.
WakeOnce(w) ==
    /\ At(w, "sleeping")
    /\ worker' = [worker EXCEPT ![w].pc = "finished"]
    /\ UNCHANGED <<adapter, failureCounts, deadLetter, succeeded, known, expired, enqueues, hangs>>

Wake(w) ==
    /\ At(w, "sleeping")
    /\ worker' = [worker EXCEPT ![w].pc =
                     IF worker[w].emptyStreak < EmptyRetries THEN "polling" ELSE "finished"]
    /\ UNCHANGED <<adapter, failureCounts, deadLetter, succeeded, known, expired, enqueues, hangs>>

Complete(i) ==
    /\ locked' = [locked EXCEPT ![i] = None]
    /\ done' = done \union {i}
    /\ UNCHANGED queue

\* visitFn resolves: the item is completed, whoever holds its lease by now.
VisitSucceeds(w) ==
    /\ At(w, "visiting")
    /\ Complete(worker[w].item)
    /\ GotoWith(w, "settling", worker[w].item)
    /\ UNCHANGED <<failureCounts, deadLetter, succeeded, known, expired, enqueues, hangs>>

Settle(w) ==
    /\ At(w, "settling")
    /\ failureCounts' = [failureCounts EXCEPT ![worker[w].item] = 0]
    /\ succeeded' = [succeeded EXCEPT ![worker[w].item] = @ + 1]
    /\ Goto(w, "polling")
    /\ UNCHANGED <<adapter, deadLetter, known, expired, enqueues, hangs>>

CountFailure(i) == failureCounts' = [failureCounts EXCEPT ![i] = @ + 1]

\* visitFn rejects once too often: the item is completed and then recorded as dead.
GiveUp(w) ==
    /\ At(w, "visiting")
    /\ failureCounts[worker[w].item] + 1 >= MaxItemRetries
    /\ CountFailure(worker[w].item)
    /\ Complete(worker[w].item)
    /\ GotoWith(w, "dropping", worker[w].item)
    /\ UNCHANGED <<deadLetter, succeeded, known, expired, enqueues, hangs>>

Drop(w) ==
    /\ At(w, "dropping")
    /\ deadLetter' = [deadLetter EXCEPT ![worker[w].item] = @ + 1]
    /\ Goto(w, "polling")
    /\ UNCHANGED <<adapter, failureCounts, succeeded, known, expired, enqueues, hangs>>

\* visitFn rejects: the item goes back into the queue, at priority 0.
Release(w) ==
    /\ At(w, "visiting")
    /\ failureCounts[worker[w].item] + 1 < MaxItemRetries
    /\ CountFailure(worker[w].item)
    /\ locked' = [locked EXCEPT ![worker[w].item] = None]
    /\ Push(worker[w].item, 0)
    /\ Goto(w, "polling")
    /\ UNCHANGED <<done, deadLetter, succeeded, known, expired, enqueues, hangs>>

\* visitFn never settles.
Hang(w) ==
    /\ At(w, "visiting") /\ hangs < MaxHangs
    /\ hangs' = hangs + 1
    /\ worker' = [worker EXCEPT ![w].pc = "hung"]
    /\ UNCHANGED <<adapter, failureCounts, deadLetter, succeeded, known, expired, enqueues>>

\* Time passes; a lease that has run out grows no older.
Tick ==
    /\ \E i \in Items : Locked(i) /\ locked[i].age < LeaseTimeout
    /\ locked' = [i \in Items |->
                     IF Locked(i) /\ locked[i].age < LeaseTimeout
                     THEN [locked[i] EXCEPT !.age = @ + 1] ELSE locked[i]]
    /\ UNCHANGED <<queue, done, worker, failureCounts, deadLetter, succeeded, known, expired,
                   enqueues, hangs>>

Proceed(w) == \/ HandOut(w) \/ ComeBackEmpty(w) \/ Wake(w) \/ Settle(w) \/ Drop(w)
              \/ VisitSucceeds(w) \/ GiveUp(w) \/ Release(w)

Next ==
    \/ \E i \in Items, p \in Priorities : Enqueue(i, p)
    \/ \E w \in Workers : Proceed(w) \/ Hang(w)
    \/ Tick

\* A worker goes on until it leaves: a visit that does not hang settles, a sleep ends.
\* The clock runs.
Spec == Init /\ [][Next]_vars /\ (\A w \in Workers : WF_vars(Proceed(w))) /\ WF_vars(Tick)

-----------------------------------------------------------------------------
Holds(w, i) == worker[w].pc \in {"visiting", "hung"} /\ worker[w].item = i

\* An item given to enqueue is queued, leased or done, although dequeue throws away the
\* entries of leased items and a late worker takes a lease away from its successor; and
\* there is a worker to every lease, so that someone ends or outlives it.
NothingLost ==
    /\ \A i \in known : i \in done \/ Queued(i) \/ Locked(i)
    /\ \A i \in Items : Locked(i) => \E w \in Workers : Holds(w, i)

Recording(w, i) == worker[w].pc \in {"settling", "dropping"} /\ worker[w].item = i

\* As long as no lease of an item runs out, one worker at a time has the item, and it ends
\* once: as one result without error or as one dead letter, after at most MaxItemRetries
\* failures.
OneHolder ==
    \A i \in Items \ expired :
       /\ \A v, w \in Workers : Holds(v, i) /\ Holds(w, i) => v = w
       /\ deadLetter[i] + succeeded[i] + Cardinality({w \in Workers : Recording(w, i)}) =
             IF i \in done THEN 1 ELSE 0
       /\ failureCounts[i] <= MaxItemRetries

\* A worker counts an empty poll only when everything unfinished is under a lease that
\* still runs: it never leaves over work it could have had.
EmptyMeansBusy ==
    [][\A w \in Workers :
          At(w, "polling") /\ At(w, "sleeping")' =>
             \A i \in known \ done :
                Locked(i)' /\ (LeaseTimeout = 0 \/ locked'[i].age < LeaseTimeout)]_vars

\* A worker that will poll once more, if its visit does not hang.
Attentive(w) ==
    \/ worker[w].pc \in {"polling", "visiting", "settling", "dropping"}
    \/ At(w, "sleeping") /\ worker[w].emptyStreak < EmptyRetries

\* An item that is enqueued while a worker will poll once more is brought to its end,
\* unless a visit hangs: the workers that could take its lease over may have left by then.
EveryItemSettles ==
    \A i \in Items :
       i \in known /\ (\E w \in Workers : Attentive(w)) ~>
          i \in done \/ \E w \in Workers : At(w, "hung")

\* run() returns when no visit hangs, however the workers wait for each other's items.
RunReturns == <>(\A w \in Workers : At(w, "finished")) \/ <>(\E w \in Workers : At(w, "hung"))
=============================================================================
