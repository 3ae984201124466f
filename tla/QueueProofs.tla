---------------------------- MODULE QueueProofs ----------------------------
(***************************************************************************)
(* Theorems about the machines of QueueMC: the queue of pages, what is     *)
(* written down and told of them, the sessions, and the sink of a file;    *)
(* those about CrawlQueue and Discover are in CrawlProofs.                 *)
(*                                                                         *)
(* DistributedQueue, for any number of items, workers, priorities and      *)
(* retries, and any lease time: nothing is lost, and an item whose leases  *)
(* last has one holder and one end.                                        *)
(*                                                                         *)
(* Sessions, for any hosts, sites, cookies, days, users and sizes of the   *)
(* pool: a request bears what stands in its session for its site.          *)
(*                                                                         *)
(* Snapshots, Watch and Webhook, for any calls, fields, windows, events    *)
(* and retries: data recorded with a validator are of its version, the     *)
(* reports of a watch tell every change, and a delivery has one result.    *)
(*                                                                         *)
(* Flows and FileSink, for any rows, keys and batch sizes: a flow that     *)
(* resolves has had each of its rows stored or given up, and a row that    *)
(* counts as written to a file is there, once, through retries and         *)
(* restarts.                                                               *)
(*                                                                         *)
(* The composition: all of it at once, from the lemmas on each machine.    *)
(***************************************************************************)
EXTENDS QueueMC, CrawlProofs, TLAPS, FiniteSetTheorems, SequenceTheorems,
        NaturalsInduction, WellFoundedInduction

-----------------------------------------------------------------------------
(* DistributedQueue.                                                       *)

\* A worker polls only while its streak of empty polls allows it.
Attending == \A w \in Workers : At(w, "polling") => worker[w].emptyStreak < EmptyRetries

Typed == TypeOK /\ Attending

-----------------------------------------------------------------------------
\* A line made of a set of items is a sequence of them.
LEMMA LinesAreSequences ==
    ASSUME NEW S \in SUBSET Items, NEW s \in Lines(S)
    PROVE  s \in Seq(Items) /\ \A i \in S : \E k \in DOMAIN s : s[k] = i
<1>1. IsFiniteSet(S)
  BY FS_Subset, DistributedQueueAssumption
<1>2. Cardinality(S) \in Nat
  BY <1>1, FS_CardinalityType
<1>3. s \in [1..Cardinality(S) -> Items]
  BY DEF Lines
<1>4. s \in Seq(Items)
  BY <1>2, <1>3
<1> QED
  BY <1>4 DEF Lines

InPool(back, i) == \E p \in Priorities : \E k \in DOMAIN Pool(back)[p] : Pool(back)[p][k] = i

\* The queue after _expireLeases is made of lines of items.  It holds what was queued, and
\* the items of the leases that ran out, unless they are done.
LEMMA PoolFacts ==
    ASSUME TypeOK, NEW back \in Returned
    PROVE  /\ Pool(back) \in [Priorities -> Seq(Items)]
           /\ \A i \in Items : Queued(i) \/ (i \in Expired /\ i \notin done) => InPool(back, i)
<1> DEFINE dueAt(p) == {i \in Expired : i \notin done /\ ~Queued(i) /\ locked[i].priority = p}
<1>1. \A p \in Priorities : back[p] \in Lines(dueAt(p))
  BY DEF Returned
<1>2. \A p \in Priorities : dueAt(p) \in SUBSET Items
  <2>1. Expired \subseteq Items
    BY DEF Expired
  <2>2. \A p \in Priorities : dueAt(p) \subseteq Expired
    OBVIOUS
  <2> HIDE DEF dueAt
  <2> QED
    BY <2>1, <2>2
<1>3. \A p \in Priorities : /\ back[p] \in Seq(Items)
                            /\ \A i \in dueAt(p) : \E k \in DOMAIN back[p] : back[p][k] = i
  BY <1>1, <1>2, LinesAreSequences, ZenonT(40)
<1>4. \A p \in Priorities : queue[p] \in Seq(Items)
  BY DEF TypeOK
<1>5. \A p \in Priorities :
         /\ Pool(back)[p] \in Seq(Items)
         /\ \A k \in DOMAIN queue[p] : k \in DOMAIN Pool(back)[p] /\ Pool(back)[p][k] = queue[p][k]
         /\ \A k \in DOMAIN back[p] :
               LET l == Len(queue[p]) + k
               IN  l \in DOMAIN Pool(back)[p] /\ Pool(back)[p][l] = back[p][k]
  <2> SUFFICES ASSUME NEW p \in Priorities
               PROVE  /\ Pool(back)[p] \in Seq(Items)
                      /\ \A k \in DOMAIN queue[p] :
                            k \in DOMAIN Pool(back)[p] /\ Pool(back)[p][k] = queue[p][k]
                      /\ \A k \in DOMAIN back[p] :
                            /\ Len(queue[p]) + k \in DOMAIN Pool(back)[p]
                            /\ Pool(back)[p][Len(queue[p]) + k] = back[p][k]
    OBVIOUS
  <2> DEFINE s == queue[p]  t == back[p]
  <2>1. Pool(back)[p] = s \o t
    BY DEF Pool
  <2>2. s \in Seq(Items) /\ t \in Seq(Items)
    BY <1>3, <1>4
  <2> HIDE DEF s, t
  <2>3. /\ s \o t \in Seq(Items)
        /\ \A k \in DOMAIN s : k \in DOMAIN (s \o t) /\ (s \o t)[k] = s[k]
        /\ \A k \in DOMAIN t : Len(s) + k \in DOMAIN (s \o t) /\ (s \o t)[Len(s) + k] = t[k]
    BY <2>2
  <2> QED
    BY <2>1, <2>3 DEF s, t
<1>6. Pool(back) \in [Priorities -> Seq(Items)]
  BY <1>5 DEF Pool
<1>7. ASSUME NEW i \in Items, Queued(i) PROVE InPool(back, i)
  BY <1>5, <1>7 DEF Queued, InPool
<1>8. ASSUME NEW i \in Expired, i \notin done, ~Queued(i) PROVE InPool(back, i)
  <2> DEFINE p == locked[i].priority
  <2>1. p \in Priorities
    BY DEF TypeOK, Leases, Expired, Locked
  <2>2. i \in dueAt(p)
    BY <1>8
  <2>3. PICK k \in DOMAIN back[p] : back[p][k] = i
    BY <2>1, <2>2, <1>3
  <2> QED
    BY <2>1, <2>3, <1>5 DEF InPool
<1> QED
  BY <1>6, <1>7, <1>8

\* Taking the leases that ran out away leaves leases.
LEMMA KeptFacts ==
    ASSUME TypeOK
    PROVE  /\ Kept \in [Items -> Leases \union {None}]
           /\ \A i \in Items : Kept[i] # None <=> (Locked(i) /\ i \notin Expired)
           /\ \A i \in Items : Kept[i] # None => Kept[i] = locked[i]
BY DEF TypeOK, Kept, Locked

\* A lease is not None.
LEMMA LeaseIsSome == \A l \in Leases : l # None
<1>1. SUFFICES ASSUME NEW l \in Leases PROVE l \in [age: Nat, priority: Nat]
  BY DistributedQueueAssumption
<1>2. l.age \in 0..LeaseTimeout /\ l.priority \in Priorities
  BY DEF Leases
<1>3. l = [age |-> l.age, priority |-> l.priority]
  BY DEF Leases
<1>4. Priorities \subseteq Nat /\ LeaseTimeout \in Nat
  BY DistributedQueueAssumption
<1>5. \A n \in 0..LeaseTimeout : n \in Nat
  BY <1>4
<1>6. l.age \in Nat
  BY <1>2, <1>5
<1>7. l.priority \in Nat
  BY <1>2, <1>4
<1> QED
  BY <1>3, <1>6, <1>7

\* What Push leaves behind: the lines it found with the item at the end of one, unless the
\* item is queued or done already.
LEMMA PushFacts ==
    ASSUME TypeOK, NEW i \in Items, NEW p \in Priorities, Push(i, p)
    PROVE  /\ queue' \in [Priorities -> Seq(Items)]
           /\ \A j \in Items : Queued(j) => Queued(j)'
           /\ i \in done \/ Queued(i)'
<1>1. CASE i \in done \/ Queued(i)
  BY <1>1 DEF Push, TypeOK, Queued
<1>2. CASE ~(i \in done \/ Queued(i))
  <2>1. queue' = [queue EXCEPT ![p] = Append(@, i)]
    BY <1>2 DEF Push
  <2>2. queue[p] \in Seq(Items)
    BY DEF TypeOK
  <2>3. \A q \in Priorities \ {p} : queue'[q] = queue[q]
    BY <2>1 DEF TypeOK
  <2>4. /\ queue'[p] = Append(queue[p], i)
        /\ Append(queue[p], i) \in Seq(Items)
        /\ \A k \in DOMAIN queue[p] : k \in DOMAIN queue'[p] /\ queue'[p][k] = queue[p][k]
        /\ Len(queue[p]) + 1 \in DOMAIN queue'[p]
        /\ queue'[p][Len(queue[p]) + 1] = i
    BY <2>1, <2>2 DEF TypeOK
  <2>5. queue' \in [Priorities -> Seq(Items)]
    BY <2>1, <2>4 DEF TypeOK
  <2>6. ASSUME NEW j \in Items, Queued(j) PROVE Queued(j)'
    BY <2>3, <2>4, <2>6 DEF Queued
  <2>7. Queued(i)'
    BY <2>4 DEF Queued
  <2> QED
    BY <2>5, <2>6, <2>7
<1> QED
  BY <1>1, <1>2

-----------------------------------------------------------------------------
\* A worker whose state is replaced keeps to the types; the others are left alone.
LEMMA WorkerFacts ==
    ASSUME TypeOK, NEW w \in Workers, NEW s \in WorkerStates,
           s.item = None <=> s.pc \in {"polling", "sleeping", "finished"},
           worker' = [worker EXCEPT ![w] = s]
    PROVE  /\ worker' \in [Workers -> WorkerStates]
           /\ \A v \in Workers :
                 worker'[v].item = None <=> worker'[v].pc \in {"polling", "sleeping", "finished"}
           /\ worker'[w] = s
           /\ \A v \in Workers \ {w} : worker'[v] = worker[v]
BY DEF TypeOK

\* Goto and GotoWith replace the state of one worker; only polling needs no item.
LEMMA GotoFacts ==
    ASSUME TypeOK, NEW w \in Workers, NEW pc \in {"visiting", "settling", "dropping"},
           NEW i \in Items,
           Goto(w, "polling") \/ GotoWith(w, pc, i)
    PROVE  /\ worker' \in [Workers -> WorkerStates]
           /\ \A v \in Workers :
                 worker'[v].item = None <=> worker'[v].pc \in {"polling", "sleeping", "finished"}
           /\ worker'[w].emptyStreak = 0
           /\ Goto(w, "polling") => worker'[w].pc = "polling"
           /\ GotoWith(w, pc, i) => worker'[w].pc = pc /\ worker'[w].item = i
           /\ \A v \in Workers \ {w} : worker'[v] = worker[v]
<1>1. 0 \in 0..EmptyRetries /\ None \notin Items
  BY DistributedQueueAssumption
<1>2. CASE Goto(w, "polling")
  <2> DEFINE s == [pc |-> "polling", item |-> None, emptyStreak |-> 0]
  <2>1. s \in WorkerStates
    BY <1>1 DEF WorkerStates, Places
  <2>2. worker' = [worker EXCEPT ![w] = s]
    BY <1>2 DEF Goto
  <2>3. s.item = None /\ s.pc = "polling" /\ s.emptyStreak = 0
    OBVIOUS
  <2> HIDE DEF s
  <2>4. ~GotoWith(w, pc, i)
    <3>1. worker'[w] = s
      BY <2>2 DEF TypeOK
    <3> QED
      BY <3>1, <2>3 DEF GotoWith, TypeOK
  <2> QED
    BY <2>1, <2>2, <2>3, <2>4, WorkerFacts
<1>3. CASE GotoWith(w, pc, i)
  <2> DEFINE s == [pc |-> pc, item |-> i, emptyStreak |-> 0]
  <2>1. s \in WorkerStates
    BY <1>1 DEF WorkerStates, Places
  <2>2. worker' = [worker EXCEPT ![w] = s]
    BY <1>3 DEF GotoWith
  <2>3. s.item = i /\ s.pc = pc /\ s.emptyStreak = 0
    OBVIOUS
  <2> HIDE DEF s
  <2>4. ~Goto(w, "polling")
    <3>1. worker'[w] = s
      BY <2>2 DEF TypeOK
    <3> QED
      BY <3>1, <2>3 DEF Goto, TypeOK
  <2> QED
    BY <2>1, <2>2, <2>3, <2>4, <1>1, WorkerFacts
<1> QED
  BY <1>2, <1>3

\* A worker that holds or records an item has one.
LEMMA ItemFacts ==
    ASSUME TypeOK, NEW w \in Workers
    PROVE  worker[w].pc \in {"visiting", "hung", "settling", "dropping"} => worker[w].item \in Items
BY DEF TypeOK, WorkerStates

\* The rest of a line after its k-th entry holds the later entries.
LEMMA SuffixFacts ==
    ASSUME NEW s \in Seq(Items), NEW k \in 1..Len(s)
    PROVE  /\ SubSeq(s, k + 1, Len(s)) \in Seq(Items)
           /\ \A l \in DOMAIN s : l > k =>
                 /\ l - k \in DOMAIN SubSeq(s, k + 1, Len(s))
                 /\ SubSeq(s, k + 1, Len(s))[l - k] = s[l]
<1> DEFINE r == SubSeq(s, k + 1, Len(s))
<1>1. r \in Seq(Items) /\ Len(r) = Len(s) - k
  <2>1. \A l \in (k + 1)..Len(s) : s[l] \in Items
    OBVIOUS
  <2> QED
    BY <2>1, SubSeqProperties
<1>2. ASSUME NEW l \in DOMAIN s, l > k
      PROVE  l - k \in DOMAIN r /\ r[l - k] = s[l]
  <2>1. l - k \in 1..(Len(s) - k) /\ k + (l - k) = l
    BY <1>2
  <2> QED
    BY <2>1, <1>1, SubSeqProperties
<1> QED
  BY <1>1, <1>2

\* What a dequeue that finds an item does: the item was neither leased nor done; it is
\* leased now, and whatever else was queued or due back is queued, leased or done.
LEMMA HandOutFacts ==
    ASSUME TypeOK, NEW w \in Workers, HandOut(w)
    PROVE  \E i \in Items, p \in Priorities :
              /\ Kept[i] = None /\ i \notin done
              /\ queue' \in [Priorities -> Seq(Items)]
              /\ locked' = [Kept EXCEPT ![i] = [age |-> 0, priority |-> p]]
              /\ [age |-> 0, priority |-> p] \in Leases
              /\ GotoWith(w, "visiting", i)
              /\ \A j \in Items : Queued(j) \/ (j \in Expired /\ j \notin done)
                                 => j \in done \/ Kept[j] # None \/ j = i \/ Queued(j)'
<1>0. PICK back \in Returned, p \in Priorities : \E k \in Free(Pool(back)[p]) :
         LET line == Pool(back)[p]
         IN  /\ \A l \in Free(line) : k <= l
             /\ \A q \in Priorities : q < p => Free(Pool(back)[q]) = {}
             /\ queue' = [q \in Priorities |->
                             IF q < p THEN <<>>
                             ELSE IF q = p THEN SubSeq(line, k + 1, Len(line))
                             ELSE Pool(back)[q]]
             /\ locked' = [Kept EXCEPT ![line[k]] = [age |-> 0, priority |-> p]]
             /\ GotoWith(w, "visiting", line[k])
  BY DEF HandOut
<1>1. PICK k \in Free(Pool(back)[p]) :
         LET line == Pool(back)[p]
         IN  /\ \A l \in Free(line) : k <= l
             /\ \A q \in Priorities : q < p => Free(Pool(back)[q]) = {}
             /\ queue' = [q \in Priorities |->
                             IF q < p THEN <<>>
                             ELSE IF q = p THEN SubSeq(line, k + 1, Len(line))
                             ELSE Pool(back)[q]]
             /\ locked' = [Kept EXCEPT ![line[k]] = [age |-> 0, priority |-> p]]
             /\ GotoWith(w, "visiting", line[k])
  BY <1>0
<1> DEFINE line == Pool(back)[p]  i == line[k]
<1>2. /\ Pool(back) \in [Priorities -> Seq(Items)]
      /\ \A j \in Items : Queued(j) \/ (j \in Expired /\ j \notin done) => InPool(back, j)
  BY PoolFacts
<1>3. line \in Seq(Items) /\ k \in 1..Len(line) /\ i \in Items /\ Kept[i] = None /\ i \notin done
  BY <1>2 DEF Free
<1>4. [age |-> 0, priority |-> p] \in Leases
  BY DistributedQueueAssumption DEF Leases
<1>5. /\ SubSeq(line, k + 1, Len(line)) \in Seq(Items)
      /\ \A l \in DOMAIN line : l > k =>
            /\ l - k \in DOMAIN SubSeq(line, k + 1, Len(line))
            /\ SubSeq(line, k + 1, Len(line))[l - k] = line[l]
  <2> HIDE DEF line
  <2> QED
    BY <1>3, SuffixFacts
<1>6. queue' \in [Priorities -> Seq(Items)]
  BY <1>1, <1>2, <1>5
<1>7. ASSUME NEW j \in Items, Queued(j) \/ (j \in Expired /\ j \notin done)
      PROVE  j \in done \/ Kept[j] # None \/ j = i \/ Queued(j)'
  <2>1. PICK q \in Priorities : \E l \in DOMAIN Pool(back)[q] : Pool(back)[q][l] = j
    BY <1>2, <1>7 DEF InPool
  <2>1a. PICK l \in DOMAIN Pool(back)[q] : Pool(back)[q][l] = j
    BY <2>1
  <2>2. q \in Nat /\ p \in Nat
    BY DistributedQueueAssumption
  <2>3. CASE q < p
    BY <1>1, <2>1a, <2>3 DEF Free
  <2>4. CASE q > p
    <3>1. queue'[q] = Pool(back)[q]
      BY <1>1, <2>2, <2>4
    <3> QED
      BY <3>1, <2>1a DEF Queued
  <2>5. CASE q = p
    <3>1. CASE l < k
      BY <1>1, <1>3, <2>1a, <2>5, <3>1 DEF Free
    <3>2. CASE l = k
      BY <2>1a, <2>5, <3>2
    <3>3. CASE l > k
      <4>1. queue'[q] = SubSeq(line, k + 1, Len(line))
        BY <1>1, <2>2, <2>5
      <4>2. l - k \in DOMAIN queue'[q] /\ queue'[q][l - k] = j
        BY <4>1, <1>5, <2>1a, <2>5, <3>3
      <4> QED
        BY <4>2 DEF Queued
    <3> QED
      BY <3>1, <3>2, <3>3, <1>3, <2>1a, <2>5
  <2> QED
    BY <2>2, <2>3, <2>4, <2>5
<1> QED
  BY <1>1, <1>3, <1>4, <1>6, <1>7

\* What a dequeue that finds nothing shows: whatever was queued or due back is done, or
\* under a lease that still runs.
LEMMA EmptyFacts ==
    ASSUME TypeOK, NEW w \in Workers, ComeBackEmpty(w)
    PROVE  \A j \in Items : Queued(j) \/ (j \in Expired /\ j \notin done)
                                => j \in done \/ Kept[j] # None
<1>1. PICK back \in Returned : \A p \in Priorities : Free(Pool(back)[p]) = {}
  BY DEF ComeBackEmpty
<1>2. \A j \in Items : Queued(j) \/ (j \in Expired /\ j \notin done) => InPool(back, j)
  BY PoolFacts
<1> QED
  BY <1>1, <1>2 DEF InPool, Free

-----------------------------------------------------------------------------
\* A counter raised by one stays a counter.
LEMMA CounterFacts ==
    ASSUME NEW f \in [Items -> Nat], NEW i \in Items
    PROVE  /\ [f EXCEPT ![i] = @ + 1] \in [Items -> Nat]
           /\ [f EXCEPT ![i] = 0] \in [Items -> Nat]
OBVIOUS

\* Every step of the workers, of the callers of enqueue and of the clock keeps the types,
\* and lets a worker poll only while its streak allows it.
LEMMA TypedStep ==
    ASSUME Typed, [Next]_vars
    PROVE  Typed'
<1> USE DEF Typed
<1>1. ASSUME NEW i \in Items, NEW p \in Priorities, Enqueue(i, p) PROVE Typed'
  <2>1. queue' \in [Priorities -> Seq(Items)]
    BY <1>1, PushFacts DEF Enqueue
  <2>2. enqueues' \in 0..MaxEnqueues
    BY <1>1, DistributedQueueAssumption DEF Enqueue, TypeOK
  <2> QED
    BY <1>1, <2>1, <2>2 DEF Enqueue, TypeOK, Attending, At
<1>2. ASSUME NEW w \in Workers, HandOut(w) PROVE Typed'
  <2>1. PICK i \in Items, p \in Priorities :
           /\ queue' \in [Priorities -> Seq(Items)]
           /\ locked' = [Kept EXCEPT ![i] = [age |-> 0, priority |-> p]]
           /\ [age |-> 0, priority |-> p] \in Leases
           /\ GotoWith(w, "visiting", i)
    BY <1>2, HandOutFacts
  <2>2. locked' \in [Items -> Leases \union {None}]
    BY <2>1, KeptFacts
  <2>3. /\ worker' \in [Workers -> WorkerStates]
        /\ \A v \in Workers :
              worker'[v].item = None <=> worker'[v].pc \in {"polling", "sleeping", "finished"}
        /\ worker'[w].pc = "visiting"
        /\ \A v \in Workers \ {w} : worker'[v] = worker[v]
    BY <2>1, GotoFacts
  <2>4. Attending'
    BY <2>3 DEF Attending, At
  <2>5. expired' \in SUBSET Items
    BY <1>2 DEF HandOut, TypeOK, Expired
  <2> QED
    BY <1>2, <2>1, <2>2, <2>3, <2>4, <2>5 DEF HandOut, TypeOK
<1>3. ASSUME NEW w \in Workers, ComeBackEmpty(w) PROVE Typed'
  <2>1. queue' \in [Priorities -> Seq(Items)]
    BY <1>3 DEF ComeBackEmpty
  <2>2. locked' \in [Items -> Leases \union {None}]
    BY <1>3, KeptFacts DEF ComeBackEmpty
  <2> DEFINE s == [pc |-> "sleeping", item |-> None, emptyStreak |-> worker[w].emptyStreak + 1]
  <2>3. worker[w].emptyStreak \in 0..EmptyRetries /\ worker[w].emptyStreak < EmptyRetries
    BY <1>3 DEF ComeBackEmpty, Attending, TypeOK, WorkerStates
  <2>4. worker[w].emptyStreak + 1 \in 0..EmptyRetries
    BY <2>3, DistributedQueueAssumption
  <2>5. s \in WorkerStates /\ s.item = None /\ s.pc = "sleeping"
    BY <2>4 DEF WorkerStates, Places
  <2>6. worker' = [worker EXCEPT ![w] = s]
    BY <1>3 DEF ComeBackEmpty, TypeOK
  <2> HIDE DEF s
  <2>7. /\ worker' \in [Workers -> WorkerStates]
        /\ \A v \in Workers :
              worker'[v].item = None <=> worker'[v].pc \in {"polling", "sleeping", "finished"}
        /\ worker'[w] = s
        /\ \A v \in Workers \ {w} : worker'[v] = worker[v]
    BY <2>5, <2>6, WorkerFacts
  <2>8. Attending'
    BY <2>5, <2>7 DEF Attending, At
  <2>9. expired' \in SUBSET Items
    BY <1>3 DEF ComeBackEmpty, TypeOK, Expired
  <2> QED
    BY <1>3, <2>1, <2>2, <2>7, <2>8, <2>9 DEF ComeBackEmpty, TypeOK
<1>4. ASSUME NEW w \in Workers, Wake(w) PROVE Typed'
  <2> DEFINE s == [worker[w] EXCEPT !.pc =
                      IF worker[w].emptyStreak < EmptyRetries THEN "polling" ELSE "finished"]
  <2>1. worker[w] \in WorkerStates /\ worker[w].item = None
    BY <1>4 DEF Wake, TypeOK, At
  <2>2. /\ s \in WorkerStates
        /\ s.item = None /\ s.emptyStreak = worker[w].emptyStreak
        /\ s.pc \in {"polling", "finished"}
        /\ s.pc = "polling" => s.emptyStreak < EmptyRetries
    BY <2>1 DEF WorkerStates, Places
  <2>3. worker' = [worker EXCEPT ![w] = s]
    BY <1>4 DEF Wake, TypeOK
  <2> HIDE DEF s
  <2>4. /\ worker' \in [Workers -> WorkerStates]
        /\ \A v \in Workers :
              worker'[v].item = None <=> worker'[v].pc \in {"polling", "sleeping", "finished"}
        /\ worker'[w] = s
        /\ \A v \in Workers \ {w} : worker'[v] = worker[v]
    BY <2>2, <2>3, WorkerFacts
  <2>5. Attending'
    BY <2>2, <2>4 DEF Attending, At
  <2> QED
    BY <1>4, <2>4, <2>5 DEF Wake, TypeOK, adapter
<1>5. ASSUME NEW w \in Workers, Settle(w) \/ Drop(w) \/ VisitSucceeds(w) \/ GiveUp(w) \/ Release(w)
      PROVE  Typed'
  <2> DEFINE i == worker[w].item
  <2>1. i \in Items
    BY <1>5, ItemFacts DEF Settle, Drop, VisitSucceeds, GiveUp, Release, At
  <2>2. Goto(w, "polling") \/ GotoWith(w, "settling", i) \/ GotoWith(w, "dropping", i)
    BY <1>5 DEF Settle, Drop, VisitSucceeds, GiveUp, Release
  <2> HIDE DEF i
  <2>3. /\ worker' \in [Workers -> WorkerStates]
        /\ \A v \in Workers :
              worker'[v].item = None <=> worker'[v].pc \in {"polling", "sleeping", "finished"}
        /\ worker'[w].emptyStreak = 0
        /\ \A v \in Workers \ {w} : worker'[v] = worker[v]
    BY <2>1, <2>2, GotoFacts
  <2>4. Attending'
    BY <2>3, DistributedQueueAssumption DEF Attending, At
  <2>5. /\ [failureCounts EXCEPT ![i] = @ + 1] \in [Items -> Nat]
        /\ [failureCounts EXCEPT ![i] = 0] \in [Items -> Nat]
        /\ [deadLetter EXCEPT ![i] = @ + 1] \in [Items -> Nat]
        /\ [succeeded EXCEPT ![i] = @ + 1] \in [Items -> Nat]
    BY <2>1, CounterFacts DEF TypeOK
  <2>6. /\ failureCounts' \in [Items -> Nat]
        /\ deadLetter' \in [Items -> Nat] /\ succeeded' \in [Items -> Nat]
    BY <1>5, <2>5 DEF Settle, Drop, VisitSucceeds, GiveUp, Release, CountFailure, TypeOK, i
  <2>7. /\ queue' \in [Priorities -> Seq(Items)]
        /\ locked' \in [Items -> Leases \union {None}]
        /\ done' \in SUBSET Items
    <3>1. CASE Release(w)
      <4>1. queue' \in [Priorities -> Seq(Items)]
        BY <3>1, <2>1, PushFacts, DistributedQueueAssumption DEF Release, i
      <4> QED
        BY <3>1, <4>1 DEF Release, TypeOK
    <3>2. CASE VisitSucceeds(w) \/ GiveUp(w)
      BY <3>2, <2>1 DEF VisitSucceeds, GiveUp, Complete, TypeOK, i
    <3>3. CASE Settle(w) \/ Drop(w)
      BY <3>3 DEF Settle, Drop, TypeOK, adapter
    <3> QED
      BY <1>5, <3>1, <3>2, <3>3
  <2>8. UNCHANGED <<known, expired, enqueues, hangs>>
    BY <1>5 DEF Settle, Drop, VisitSucceeds, GiveUp, Release
  <2> QED
    BY <2>3, <2>4, <2>6, <2>7, <2>8 DEF TypeOK
<1>6. ASSUME NEW w \in Workers, Hang(w) PROVE Typed'
  <2> DEFINE s == [worker[w] EXCEPT !.pc = "hung"]
  <2>1. worker[w] \in WorkerStates /\ worker[w].item # None
    BY <1>6 DEF Hang, TypeOK, At
  <2>2. s \in WorkerStates /\ s.item # None /\ s.pc = "hung"
    BY <2>1 DEF WorkerStates, Places
  <2>3. worker' = [worker EXCEPT ![w] = s]
    BY <1>6 DEF Hang, TypeOK
  <2> HIDE DEF s
  <2>4. /\ worker' \in [Workers -> WorkerStates]
        /\ \A v \in Workers :
              worker'[v].item = None <=> worker'[v].pc \in {"polling", "sleeping", "finished"}
        /\ worker'[w] = s
        /\ \A v \in Workers \ {w} : worker'[v] = worker[v]
    BY <2>2, <2>3, WorkerFacts
  <2>5. Attending'
    BY <2>2, <2>4 DEF Attending, At
  <2>6. hangs' \in 0..MaxHangs
    BY <1>6, DistributedQueueAssumption DEF Hang, TypeOK
  <2> QED
    BY <1>6, <2>4, <2>5, <2>6 DEF Hang, TypeOK, adapter
<1>7. ASSUME Tick PROVE Typed'
  <2>1. ASSUME NEW i \in Items PROVE locked'[i] \in Leases \union {None}
    <3>1. locked[i] \in Leases \union {None}
      BY DEF TypeOK
    <3>2. CASE Locked(i) /\ locked[i].age < LeaseTimeout
      <4>1. locked'[i] = [locked[i] EXCEPT !.age = @ + 1] /\ locked[i] \in Leases
        BY <1>7, <3>1, <3>2 DEF Tick, Locked
      <4>2. locked[i].age \in 0..LeaseTimeout /\ LeaseTimeout \in Nat
        BY <4>1, DistributedQueueAssumption DEF Leases
      <4>3. locked[i].age + 1 \in 0..LeaseTimeout
        BY <4>2, <3>2
      <4> QED
        BY <4>1, <4>3 DEF Leases
    <3>3. CASE ~(Locked(i) /\ locked[i].age < LeaseTimeout)
      BY <1>7, <3>1, <3>3 DEF Tick
    <3> QED
      BY <3>2, <3>3
  <2>2. locked' \in [Items -> Leases \union {None}]
    BY <1>7, <2>1 DEF Tick
  <2> QED
    BY <1>7, <2>2 DEF Tick, TypeOK, Attending, At
<1>8. CASE UNCHANGED vars
  BY <1>8 DEF vars, adapter, TypeOK, Attending, At
<1> QED
  BY <1>1, <1>2, <1>3, <1>4, <1>5, <1>6, <1>7, <1>8 DEF Next, Proceed

\* The initial state is typed.
LEMMA TypedInit == Init => Typed
<1> SUFFICES ASSUME Init PROVE Typed
  OBVIOUS
<1>1. 0 \in 0..EmptyRetries /\ 0 < EmptyRetries /\ 0 \in 0..MaxEnqueues /\ 0 \in 0..MaxHangs
  BY DistributedQueueAssumption
<1>2. worker \in [Workers -> WorkerStates]
  BY <1>1 DEF Init, WorkerStates, Places
<1>3. queue \in [Priorities -> Seq(Items)]
  BY DEF Init
<1> QED
  BY <1>1, <1>2, <1>3 DEF Init, Typed, TypeOK, Attending, At

\* TypeOK holds throughout every run of the queue.
THEOREM TypesOfQueue == Spec => []TypeOK
<1>1. Typed /\ [Next]_vars => Typed'
  BY TypedStep
<1>2. Typed => TypeOK
  BY DEF Typed
<1> QED
  BY TypedInit, <1>1, <1>2, PTL DEF Spec

-----------------------------------------------------------------------------
(* Who holds and who records an item after each step.                      *)

Unmoved == \A v \in Workers, j \in Items :
              (Holds(v, j)' <=> Holds(v, j)) /\ (Recording(v, j)' <=> Recording(v, j))

\* Waking up, an empty poll, a hang and every step of others leave the holders alone.
LEMMA StayFacts ==
    ASSUME TypeOK,
           \/ \E w \in Workers : ComeBackEmpty(w) \/ Wake(w) \/ Hang(w)
           \/ \E i \in Items, p \in Priorities : Enqueue(i, p)
           \/ Tick
    PROVE  Unmoved
<1>1. ASSUME NEW w \in Workers, ComeBackEmpty(w) \/ Wake(w) \/ Hang(w) PROVE Unmoved
  <2>1. /\ worker[w].pc \in {"visiting", "hung"} <=> worker'[w].pc \in {"visiting", "hung"}
        /\ worker[w].pc \notin {"settling", "dropping"}
        /\ worker'[w].pc \notin {"settling", "dropping"}
        /\ worker[w].pc \in {"visiting", "hung"} => worker'[w].item = worker[w].item
        /\ \A v \in Workers \ {w} : worker'[v] = worker[v]
    <3>1. CASE ComeBackEmpty(w)
      BY <3>1 DEF ComeBackEmpty, At, TypeOK
    <3>2. CASE Wake(w)
      BY <3>2 DEF Wake, At, TypeOK, WorkerStates
    <3>3. CASE Hang(w)
      BY <3>3 DEF Hang, At, TypeOK, WorkerStates
    <3> QED
      BY <1>1, <3>1, <3>2, <3>3
  <2> QED
    BY <2>1 DEF Unmoved, Holds, Recording
<1>2. ASSUME UNCHANGED worker PROVE Unmoved
  BY <1>2 DEF Unmoved, Holds, Recording
<1> QED
  BY <1>1, <1>2 DEF Enqueue, Tick

\* A dequeue gives the worker the item it hands out.
LEMMA HandOutHolds ==
    ASSUME TypeOK, NEW w \in Workers, NEW i \in Items, At(w, "polling"),
           GotoWith(w, "visiting", i)
    PROVE  \A v \in Workers, j \in Items :
              /\ Holds(v, j)' <=> Holds(v, j) \/ (v = w /\ j = i)
              /\ Recording(v, j)' <=> Recording(v, j)
<1>1. worker'[w].pc = "visiting" /\ worker'[w].item = i /\ \A v \in Workers \ {w} : worker'[v] = worker[v]
  BY GotoFacts
<1> QED
  BY <1>1 DEF Holds, Recording, At

\* The end of a visit takes the item from the worker; when the item is completed, the
\* worker has that left to record.
LEMMA EndHolds ==
    ASSUME TypeOK, NEW w \in Workers, At(w, "visiting"),
           NEW pc \in {"settling", "dropping"},
           GotoWith(w, pc, worker[w].item) \/ Goto(w, "polling")
    PROVE  \A v \in Workers, j \in Items :
              /\ Holds(v, j)' <=> Holds(v, j) /\ v # w
              /\ Recording(v, j)' <=>
                    \/ Recording(v, j)
                    \/ v = w /\ j = worker[w].item /\ GotoWith(w, pc, worker[w].item)
<1>1. worker[w].item \in Items
  BY ItemFacts DEF At
<1>2. CASE GotoWith(w, pc, worker[w].item)
  <2>1. worker'[w].pc = pc /\ worker'[w].item = worker[w].item
        /\ \A v \in Workers \ {w} : worker'[v] = worker[v]
    BY <1>1, <1>2, GotoFacts
  <2> QED
    BY <1>2, <2>1 DEF Holds, Recording, At
<1>3. CASE Goto(w, "polling")
  <2>1. worker'[w].pc = "polling" /\ \A v \in Workers \ {w} : worker'[v] = worker[v]
    BY <1>1, <1>3, GotoFacts
  <2>2. ~GotoWith(w, pc, worker[w].item)
    <3>1. GotoWith(w, pc, worker[w].item) => worker'[w].pc = pc
      BY <1>1, GotoFacts
    <3> QED
      BY <2>1, <3>1
  <2> QED
    BY <2>1, <2>2 DEF Holds, Recording, At
<1> QED
  BY <1>2, <1>3

\* A worker that has recorded its item has nothing more to do with it.
LEMMA RecordHolds ==
    ASSUME TypeOK, NEW w \in Workers, At(w, "settling") \/ At(w, "dropping"), Goto(w, "polling")
    PROVE  \A v \in Workers, j \in Items :
              /\ Holds(v, j)' <=> Holds(v, j)
              /\ Recording(v, j)' <=> Recording(v, j) /\ v # w
<1>1. worker[w].item \in Items
  BY ItemFacts DEF At
<1>2. worker'[w].pc = "polling" /\ \A v \in Workers \ {w} : worker'[v] = worker[v]
  BY <1>1, GotoFacts
<1> QED
  BY <1>2 DEF Holds, Recording, At

-----------------------------------------------------------------------------
\* A done item has no lease, an item that is not done may fail once more, and without
\* leases that run out a worker that holds an item has the lease on it.
Leasing ==
    /\ \A i \in Items : Locked(i) => i \notin done
    /\ \A i \in Items \ done : failureCounts[i] < MaxItemRetries
    /\ \A i \in Items \ expired, w \in Workers : Holds(w, i) => Locked(i)

\* The clock takes no lease away and grants none.
LEMMA TickLocks ==
    ASSUME Typed, Tick
    PROVE  \A j \in Items : Locked(j)' <=> Locked(j)
<1> SUFFICES ASSUME NEW j \in Items PROVE Locked(j)' <=> Locked(j)
  OBVIOUS
<1>1. locked' \in [Items -> Leases \union {None}]
  <2>1. [Next]_vars
    BY DEF Next
  <2> QED
    BY <2>1, TypedStep DEF Typed, TypeOK
<1>2. CASE Locked(j) /\ locked[j].age < LeaseTimeout
  <2>1. locked'[j] = [locked[j] EXCEPT !.age = @ + 1] /\ locked[j] \in Leases
    BY <1>2 DEF Tick, Locked, Typed, TypeOK
  <2>2. [locked[j] EXCEPT !.age = @ + 1] \in [age: Nat, priority: Nat]
    <3>1. locked[j].age \in 0..LeaseTimeout /\ locked[j].priority \in Priorities
      BY <2>1 DEF Leases
    <3>2. LeaseTimeout \in Nat /\ Priorities \subseteq Nat
      BY DistributedQueueAssumption
    <3>3. (\A n \in 0..LeaseTimeout : n + 1 \in Nat) /\ \A p \in Priorities : p \in Nat
      BY <3>2
    <3>4. [locked[j] EXCEPT !.age = @ + 1] =
             [age |-> locked[j].age + 1, priority |-> locked[j].priority]
      BY <2>1 DEF Leases
    <3>5. locked[j].age + 1 \in Nat
      BY <3>1, <3>3
    <3>6. locked[j].priority \in Nat
      BY <3>1, <3>3
    <3> QED
      BY <3>4, <3>5, <3>6
  <2>3. locked'[j] # None
    BY <2>1, <2>2, DistributedQueueAssumption
  <2> QED
    BY <1>2, <2>3 DEF Locked
<1>3. CASE ~(Locked(j) /\ locked[j].age < LeaseTimeout)
  BY <1>3 DEF Tick, Locked
<1> QED
  BY <1>2, <1>3

\* Every step keeps an item queued, leased or done, and a worker to every lease.
LEMMA NothingLostStep ==
    ASSUME Typed, NothingLost, Leasing, [Next]_vars
    PROVE  NothingLost'
<1> USE DEF Typed
<1>1. ASSUME NEW i \in Items, NEW p \in Priorities, Enqueue(i, p) PROVE NothingLost'
  <2>1. /\ \A j \in Items : Queued(j) => Queued(j)'
        /\ i \in done \/ Queued(i)'
    BY <1>1, PushFacts DEF Enqueue
  <2>2. known' = known \union {i} /\ UNCHANGED <<locked, done, worker>>
    BY <1>1 DEF Enqueue
  <2>3. known \subseteq Items
    BY DEF TypeOK
  <2> QED
    BY <2>1, <2>2, <2>3 DEF NothingLost, Locked, Holds
<1>2. ASSUME NEW w \in Workers, HandOut(w) PROVE NothingLost'
  <2>1. PICK i \in Items, p \in Priorities :
           /\ locked' = [Kept EXCEPT ![i] = [age |-> 0, priority |-> p]]
           /\ [age |-> 0, priority |-> p] \in Leases
           /\ GotoWith(w, "visiting", i)
           /\ \A j \in Items : Queued(j) \/ (j \in Expired /\ j \notin done)
                              => j \in done \/ Kept[j] # None \/ j = i \/ Queued(j)'
    BY <1>2, HandOutFacts
  <2>2. \A j \in Items : Locked(j)' <=> Kept[j] # None \/ j = i
    BY <2>1, KeptFacts, LeaseIsSome DEF Locked
  <2>3. \A v \in Workers, j \in Items : Holds(v, j)' <=> Holds(v, j) \/ (v = w /\ j = i)
    BY <1>2, <2>1, HandOutHolds DEF HandOut
  <2>4. UNCHANGED <<known, done>> /\ known \subseteq Items
    BY <1>2 DEF HandOut, TypeOK
  <2>5. ASSUME NEW j \in known PROVE j \in done \/ Queued(j)' \/ Locked(j)'
    BY <2>1, <2>2, <2>4, KeptFacts DEF NothingLost
  <2>6. ASSUME NEW j \in Items, Locked(j)' PROVE \E v \in Workers : Holds(v, j)'
    BY <2>2, <2>3, <2>6, KeptFacts DEF NothingLost
  <2> QED
    BY <2>4, <2>5, <2>6 DEF NothingLost
<1>3. ASSUME NEW w \in Workers, ComeBackEmpty(w) PROVE NothingLost'
  <2>1. \A j \in Items : Queued(j) \/ (j \in Expired /\ j \notin done)
                          => j \in done \/ Kept[j] # None
    BY <1>3, EmptyFacts
  <2>2. locked' = Kept /\ UNCHANGED <<known, done>> /\ known \subseteq Items
    BY <1>3 DEF ComeBackEmpty, TypeOK
  <2>3. Unmoved
    BY <1>3, StayFacts
  <2>4. ASSUME NEW j \in known PROVE j \in done \/ Locked(j)'
    BY <2>1, <2>2, KeptFacts DEF NothingLost, Locked
  <2>5. ASSUME NEW j \in Items, Locked(j)' PROVE \E v \in Workers : Holds(v, j)'
    BY <2>2, <2>3, <2>5, KeptFacts DEF NothingLost, Unmoved, Locked
  <2> QED
    BY <2>2, <2>4, <2>5 DEF NothingLost
<1>4. ASSUME NEW w \in Workers, Wake(w) \/ Hang(w) PROVE NothingLost'
  <2>1. Unmoved
    BY <1>4, StayFacts
  <2>2. UNCHANGED <<queue, locked, done, known>>
    BY <1>4 DEF Wake, Hang, adapter
  <2> QED
    BY <2>1, <2>2 DEF NothingLost, Unmoved, Queued, Locked
<1>5. ASSUME NEW w \in Workers, VisitSucceeds(w) \/ GiveUp(w) PROVE NothingLost'
  <2> DEFINE i == worker[w].item
  <2>1. i \in Items /\ At(w, "visiting")
    BY <1>5, ItemFacts DEF VisitSucceeds, GiveUp, At
  <2>2. Complete(i) /\ UNCHANGED known
    BY <1>5 DEF VisitSucceeds, GiveUp
  <2>3. \A v \in Workers, j \in Items : Holds(v, j)' <=> Holds(v, j) /\ v # w
    BY <1>5, <2>1, EndHolds DEF VisitSucceeds, GiveUp
  <2>4. \A j \in Items : Holds(w, j) => j = i
    BY DEF Holds
  <2> HIDE DEF i
  <2>5. /\ \A j \in Items : Locked(j)' <=> Locked(j) /\ j # i
        /\ \A j \in Items : Queued(j)' <=> Queued(j)
        /\ done' = done \union {i} /\ known' = known
    BY <2>1, <2>2 DEF Complete, Locked, Queued, TypeOK
  <2>6. known \subseteq Items
    BY DEF TypeOK
  <2> QED
    BY <2>1, <2>3, <2>4, <2>5, <2>6 DEF NothingLost
<1>6. ASSUME NEW w \in Workers, Release(w) PROVE NothingLost'
  <2>0. worker[w].item \in Items /\ At(w, "visiting")
    BY <1>6, ItemFacts DEF Release, At
  <2>1. PICK i \in Items : i = worker[w].item
    BY <2>0
  <2>2. \A v \in Workers, j \in Items : Holds(v, j)' <=> Holds(v, j) /\ v # w
    BY <1>6, <2>0, EndHolds DEF Release
  <2>3. \A j \in Items : Holds(w, j) => j = i
    BY <2>1 DEF Holds
  <2>4. /\ locked' = [locked EXCEPT ![i] = None] /\ Push(i, 0)
        /\ UNCHANGED <<done, known>>
    BY <1>6, <2>1 DEF Release
  <2>5. \A j \in Items : Locked(j)' <=> Locked(j) /\ j # i
    BY <2>1, <2>4 DEF Locked, TypeOK
  <2>6. /\ \A j \in Items : Queued(j) => Queued(j)'
        /\ i \in done \/ Queued(i)'
    <3>1. 0 \in Priorities /\ TypeOK
      BY DistributedQueueAssumption
    <3> QED
      BY <2>1, <2>4, <3>1, PushFacts
  <2>7. known \subseteq Items
    BY DEF TypeOK
  <2>8. ASSUME NEW j \in known PROVE j \in done \/ Queued(j)' \/ Locked(j)'
    <3>1. j \in Items /\ (j \in done \/ Queued(j) \/ Locked(j))
      BY <2>7 DEF NothingLost
    <3>2. CASE j = i
      BY <2>6, <3>2
    <3>3. CASE j # i /\ Locked(j)
      BY <2>5, <3>1, <3>3
    <3>4. CASE Queued(j)
      BY <2>6, <3>1, <3>4
    <3> QED
      BY <3>1, <3>2, <3>3, <3>4
  <2>9. ASSUME NEW j \in Items, Locked(j)' PROVE \E v \in Workers : Holds(v, j)'
    BY <2>2, <2>3, <2>5, <2>9 DEF NothingLost
  <2> QED
    BY <2>4, <2>8, <2>9 DEF NothingLost
<1>7. ASSUME NEW w \in Workers, Settle(w) \/ Drop(w) PROVE NothingLost'
  <2>1. \A v \in Workers, j \in Items : Holds(v, j)' <=> Holds(v, j)
    BY <1>7, RecordHolds DEF Settle, Drop
  <2>2. UNCHANGED <<queue, locked, done, known>>
    BY <1>7 DEF Settle, Drop, adapter
  <2> QED
    BY <2>1, <2>2 DEF NothingLost, Queued, Locked
<1>8. ASSUME Tick PROVE NothingLost'
  <2>1. Unmoved /\ UNCHANGED <<queue, done, known>>
    BY <1>8, StayFacts DEF Tick
  <2>2. \A j \in Items : Locked(j)' <=> Locked(j)
    BY <1>8, TickLocks
  <2>3. \A j \in Items : Queued(j)' <=> Queued(j)
    BY <2>1 DEF Queued
  <2>4. known \subseteq Items
    BY DEF TypeOK
  <2> QED
    BY <2>1, <2>2, <2>3, <2>4 DEF NothingLost, Unmoved
<1>9. CASE UNCHANGED vars
  BY <1>9 DEF vars, adapter, NothingLost, Queued, Locked, Holds
<1> QED
  BY <1>1, <1>2, <1>3, <1>4, <1>5, <1>6, <1>7, <1>8, <1>9 DEF Next, Proceed

-----------------------------------------------------------------------------
\* Adding and taking one worker changes the size of a set of workers by one.
LEMMA WorkerSets ==
    ASSUME NEW S \in SUBSET Workers, NEW w \in Workers
    PROVE  /\ Cardinality(S) \in Nat
           /\ w \notin S => Cardinality(S \union {w}) = Cardinality(S) + 1
           /\ w \in S => Cardinality(S \ {w}) = Cardinality(S) - 1
<1>1. IsFiniteSet(S)
  BY FS_Subset, DistributedQueueAssumption
<1> QED
  BY <1>1, FS_CardinalityType, FS_AddElement, FS_RemoveElement

Recorders(i) == {v \in Workers : Recording(v, i)}

\* The three parts of OneHolder, for one item.
HeldOnce(i) == \A v, w \in Workers : Holds(v, i) /\ Holds(w, i) => v = w

EndsOnce(i) ==
    deadLetter[i] + succeeded[i] + Cardinality(Recorders(i)) = IF i \in done THEN 1 ELSE 0

FailsBounded(i) == failureCounts[i] <= MaxItemRetries

\* OneHolder is the conjunction of its parts.
LEMMA OneHolderParts ==
    OneHolder <=> \A i \in Items \ expired : HeldOnce(i) /\ EndsOnce(i) /\ FailsBounded(i)
BY DEF OneHolder, HeldOnce, EndsOnce, FailsBounded, Recorders

HeldByOne == \A i \in Items \ expired : HeldOnce(i)
EndedOnce == \A i \in Items \ expired : EndsOnce(i)
Bounded == \A i \in Items \ expired : FailsBounded(i)

\* Every step that completes no item keeps the leases with the holders, and one holder to
\* an item whose leases never ran out; so does the end of a visit.
LEMMA LeasingStep ==
    ASSUME Typed, Leasing, HeldByOne, [Next]_vars
    PROVE  Leasing' /\ HeldByOne'
<1> USE DEF Typed
<1>1. ASSUME Unmoved, UNCHANGED <<done, failureCounts>>, expired \subseteq expired',
             \A i \in Items : Locked(i)' => Locked(i),
             \A i \in Items \ expired' : Locked(i) => Locked(i)'
      PROVE  Leasing' /\ HeldByOne'
  <2>1. Leasing'
    BY <1>1 DEF Leasing, Unmoved
  <2>2. HeldByOne'
    BY <1>1 DEF HeldByOne, HeldOnce, Unmoved
  <2> QED
    BY <2>1, <2>2
<1>2. ASSUME NEW i \in Items, NEW p \in Priorities, Enqueue(i, p) PROVE Leasing' /\ HeldByOne'
  <2>1. Unmoved /\ UNCHANGED <<locked, done, failureCounts, expired>>
    BY <1>2, StayFacts DEF Enqueue
  <2>2. \A j \in Items : Locked(j)' <=> Locked(j)
    BY <2>1 DEF Locked
  <2> QED
    BY <1>1, <2>1, <2>2
<1>3. ASSUME NEW w \in Workers, HandOut(w) PROVE Leasing' /\ HeldByOne'
  <2>1. PICK i \in Items, p \in Priorities :
           /\ Kept[i] = None /\ i \notin done
           /\ locked' = [Kept EXCEPT ![i] = [age |-> 0, priority |-> p]]
           /\ [age |-> 0, priority |-> p] \in Leases
           /\ GotoWith(w, "visiting", i)
    BY <1>3, HandOutFacts
  <2>2. \A j \in Items : Locked(j)' <=> Kept[j] # None \/ j = i
    BY <2>1, KeptFacts, LeaseIsSome DEF Locked
  <2>3. \A v \in Workers, j \in Items : Holds(v, j)' <=> Holds(v, j) \/ (v = w /\ j = i)
    BY <1>3, <2>1, HandOutHolds DEF HandOut
  <2>4. UNCHANGED <<done, failureCounts>> /\ expired' = expired \union Expired
    BY <1>3 DEF HandOut
  <2>5. \A j \in Items \ expired' : j \in Items \ expired /\ (Kept[j] # None <=> Locked(j))
    BY <2>4, KeptFacts
  <2>6. \A j \in Items : Kept[j] # None => Locked(j)
    BY KeptFacts
  <2>7. Leasing'
    <3>1. \A j \in Items : Locked(j)' => j \notin done'
      BY <2>1, <2>2, <2>4, <2>6 DEF Leasing
    <3>2. \A j \in Items \ done' : failureCounts'[j] < MaxItemRetries
      BY <2>4 DEF Leasing
    <3>3. \A j \in Items \ expired', v \in Workers : Holds(v, j)' => Locked(j)'
      BY <2>2, <2>3, <2>5 DEF Leasing
    <3> QED
      BY <3>1, <3>2, <3>3 DEF Leasing
  <2>8. ASSUME NEW j \in Items \ expired', NEW u \in Workers, NEW v \in Workers,
               Holds(u, j)', Holds(v, j)'
        PROVE  u = v
    <3>1. CASE j = i
      <4>1. \A x \in Workers : ~Holds(x, j)
        BY <2>1, <2>5, <3>1 DEF Leasing
      <4> QED
        BY <2>3, <2>8, <4>1
    <3>2. CASE j # i
      BY <2>3, <2>5, <2>8, <3>2 DEF HeldByOne, HeldOnce
    <3> QED
      BY <3>1, <3>2
  <2>9. HeldByOne'
    BY <2>8 DEF HeldByOne, HeldOnce
  <2> QED
    BY <2>7, <2>9
<1>4. ASSUME NEW w \in Workers, ComeBackEmpty(w) PROVE Leasing' /\ HeldByOne'
  <2>1. /\ Unmoved /\ UNCHANGED <<done, failureCounts>>
        /\ expired' = expired \union Expired /\ locked' = Kept
    BY <1>4, StayFacts DEF ComeBackEmpty
  <2>2. \A j \in Items : Locked(j)' <=> Locked(j) /\ j \notin Expired
    BY <2>1, KeptFacts DEF Locked
  <2> QED
    BY <1>1, <2>1, <2>2
<1>5. ASSUME NEW w \in Workers, Wake(w) \/ Hang(w) PROVE Leasing' /\ HeldByOne'
  <2>1. Unmoved /\ UNCHANGED <<locked, done, failureCounts, expired>>
    BY <1>5, StayFacts DEF Wake, Hang, adapter
  <2>2. \A j \in Items : Locked(j)' <=> Locked(j)
    BY <2>1 DEF Locked
  <2> QED
    BY <1>1, <2>1, <2>2
<1>6. ASSUME Tick PROVE Leasing' /\ HeldByOne'
  <2>1. Unmoved /\ UNCHANGED <<done, failureCounts, expired>>
    BY <1>6, StayFacts DEF Tick
  <2>2. \A j \in Items : Locked(j)' <=> Locked(j)
    BY <1>6, TickLocks
  <2> QED
    BY <1>1, <2>1, <2>2
<1>7. ASSUME NEW w \in Workers, Settle(w) \/ Drop(w) PROVE Leasing' /\ HeldByOne'
  <2>1. \A v \in Workers, j \in Items : Holds(v, j)' <=> Holds(v, j)
    BY <1>7, RecordHolds DEF Settle, Drop
  <2>2. UNCHANGED <<locked, done, expired>>
    BY <1>7 DEF Settle, Drop, adapter
  <2>3. \A j \in Items : Locked(j)' <=> Locked(j)
    BY <2>2 DEF Locked
  <2>4. ASSUME NEW j \in Items \ done PROVE failureCounts'[j] < MaxItemRetries
    <3>1. failureCounts[j] < MaxItemRetries /\ 0 < MaxItemRetries
      BY DistributedQueueAssumption DEF Leasing
    <3> QED
      BY <1>7, <3>1 DEF Settle, Drop, TypeOK
  <2>5. Leasing'
    BY <2>1, <2>2, <2>3, <2>4 DEF Leasing
  <2>6. HeldByOne'
    BY <2>1, <2>2 DEF HeldByOne, HeldOnce
  <2> QED
    BY <2>5, <2>6
<1>8. ASSUME NEW w \in Workers, VisitSucceeds(w) \/ GiveUp(w) \/ Release(w) PROVE Leasing' /\ HeldByOne'
  <2>0. worker[w].item \in Items /\ At(w, "visiting")
    BY <1>8, ItemFacts DEF VisitSucceeds, GiveUp, Release, At
  <2>1. PICK i \in Items : i = worker[w].item
    BY <2>0
  <2>2. \A v \in Workers, j \in Items : Holds(v, j)' <=> Holds(v, j) /\ v # w
    BY <1>8, <2>0, EndHolds DEF VisitSucceeds, GiveUp, Release
  <2>3. Holds(w, i)
    BY <2>0, <2>1 DEF Holds, At
  <2>4. /\ locked' = [locked EXCEPT ![i] = None] /\ expired' = expired
        /\ done \subseteq done' /\ done' \subseteq done \union {i}
    BY <1>8, <2>1 DEF VisitSucceeds, GiveUp, Release, Complete
  <2>5. \A j \in Items : Locked(j)' <=> Locked(j) /\ j # i
    BY <2>4 DEF Locked, TypeOK
  <2>6. ASSUME NEW j \in Items \ done' PROVE failureCounts'[j] < MaxItemRetries
    <3>1. failureCounts[j] < MaxItemRetries
      BY <2>4 DEF Leasing
    <3>2. CASE VisitSucceeds(w)
      BY <3>1, <3>2 DEF VisitSucceeds
    <3>3. CASE GiveUp(w)
      <4>1. j # i
        BY <2>1, <3>3 DEF GiveUp, Complete
      <4> QED
        BY <2>1, <3>1, <3>3, <4>1 DEF GiveUp, CountFailure, TypeOK
    <3>4. CASE Release(w)
      BY <2>1, <3>1, <3>4 DEF Release, CountFailure, TypeOK
    <3> QED
      BY <1>8, <3>2, <3>3, <3>4
  <2>7. ASSUME NEW j \in Items \ expired', NEW v \in Workers, Holds(v, j)' PROVE Locked(j)'
    <3>1. Holds(v, j) /\ v # w /\ j \in Items \ expired
      BY <2>2, <2>4, <2>7
    <3>2. j # i
      BY <2>3, <3>1 DEF HeldByOne, HeldOnce
    <3> QED
      BY <2>5, <3>1, <3>2 DEF Leasing
  <2>8. Leasing'
    BY <2>4, <2>5, <2>6, <2>7 DEF Leasing
  <2>9. HeldByOne'
    BY <2>2, <2>4 DEF HeldByOne, HeldOnce
  <2> QED
    BY <2>8, <2>9
<1>9. CASE UNCHANGED vars
  <2>1. Unmoved /\ UNCHANGED <<locked, done, failureCounts, expired>>
    BY <1>9 DEF vars, adapter, Unmoved, Holds, Recording
  <2>2. \A j \in Items : Locked(j)' <=> Locked(j)
    BY <2>1 DEF Locked
  <2> QED
    BY <1>1, <2>1, <2>2
<1> QED
  BY <1>2, <1>3, <1>4, <1>5, <1>6, <1>7, <1>8, <1>9 DEF Next, Proceed

\* An item whose leases never ran out is recorded once when it is done, and not before.
LEMMA EndedStep ==
    ASSUME Typed, Leasing, HeldByOne, EndedOnce, Bounded, [Next]_vars
    PROVE  EndedOnce' /\ Bounded'
<1> USE DEF Typed
<1>1. ASSUME UNCHANGED <<done, failureCounts, deadLetter, succeeded>>, expired \subseteq expired',
             \A v \in Workers, j \in Items : Recording(v, j)' <=> Recording(v, j)
      PROVE  EndedOnce' /\ Bounded'
  <2>1. \A j \in Items : Recorders(j)' = Recorders(j)
    BY <1>1 DEF Recorders
  <2>2. EndedOnce'
    BY <1>1, <2>1 DEF EndedOnce, EndsOnce
  <2>3. Bounded'
    BY <1>1 DEF Bounded, FailsBounded
  <2> QED
    BY <2>2, <2>3
<1>2. ASSUME \/ \E w \in Workers : ComeBackEmpty(w) \/ Wake(w) \/ Hang(w)
             \/ \E i \in Items, p \in Priorities : Enqueue(i, p)
             \/ Tick
      PROVE  EndedOnce' /\ Bounded'
  <2>1. Unmoved
    BY <1>2, StayFacts
  <2>2. UNCHANGED <<done, failureCounts, deadLetter, succeeded>> /\ expired \subseteq expired'
    BY <1>2 DEF ComeBackEmpty, Wake, Hang, Enqueue, Tick, adapter
  <2> QED
    BY <1>1, <2>1, <2>2 DEF Unmoved
<1>3. ASSUME NEW w \in Workers, HandOut(w) PROVE EndedOnce' /\ Bounded'
  <2>1. PICK i \in Items : GotoWith(w, "visiting", i)
    BY <1>3, HandOutFacts
  <2>2. \A v \in Workers, j \in Items : Recording(v, j)' <=> Recording(v, j)
    BY <1>3, <2>1, HandOutHolds DEF HandOut
  <2>3. UNCHANGED <<done, failureCounts, deadLetter, succeeded>> /\ expired \subseteq expired'
    BY <1>3 DEF HandOut
  <2> QED
    BY <1>1, <2>2, <2>3
<1>4. ASSUME NEW w \in Workers, Release(w) PROVE EndedOnce' /\ Bounded'
  <2>0. worker[w].item \in Items /\ At(w, "visiting")
    BY <1>4, ItemFacts DEF Release, At
  <2>1. PICK i \in Items : i = worker[w].item
    BY <2>0
  <2>2. Goto(w, "polling")
    BY <1>4 DEF Release
  <2>3. worker'[w].pc = "polling"
    BY <2>0, <2>2, GotoFacts
  <2>4. \A v \in Workers, j \in Items : Recording(v, j)' <=> Recording(v, j)
    <3>1. \A v \in Workers, j \in Items : v # w => (Recording(v, j)' <=> Recording(v, j))
      BY <2>0, <2>2, EndHolds
    <3>2. \A j \in Items : ~Recording(w, j)' /\ ~Recording(w, j)
      BY <2>0, <2>3 DEF Recording, At
    <3> QED
      BY <3>1, <3>2
  <2>5. \A j \in Items : Recorders(j)' = Recorders(j)
    BY <2>4 DEF Recorders
  <2>6. UNCHANGED <<done, deadLetter, succeeded, expired>>
    BY <1>4 DEF Release
  <2>7. EndedOnce'
    BY <2>5, <2>6 DEF EndedOnce, EndsOnce
  <2>8. ASSUME NEW j \in Items \ expired' PROVE failureCounts'[j] <= MaxItemRetries
    <3>1. failureCounts[j] <= MaxItemRetries /\ failureCounts[i] + 1 < MaxItemRetries
      BY <1>4, <2>1, <2>6 DEF Bounded, FailsBounded, Release
    <3>2. failureCounts' = [failureCounts EXCEPT ![i] = @ + 1]
      BY <1>4, <2>1 DEF Release, CountFailure
    <3>3. failureCounts[i] + 1 \in Nat /\ MaxItemRetries \in Nat
      BY DistributedQueueAssumption DEF TypeOK
    <3> QED
      BY <3>1, <3>2, <3>3 DEF TypeOK
  <2> QED
    BY <2>7, <2>8 DEF Bounded, FailsBounded
<1>5. ASSUME NEW w \in Workers, VisitSucceeds(w) \/ GiveUp(w) PROVE EndedOnce' /\ Bounded'
  <2>0. worker[w].item \in Items /\ At(w, "visiting")
    BY <1>5, ItemFacts DEF VisitSucceeds, GiveUp, At
  <2>1. PICK i \in Items : i = worker[w].item
    BY <2>0
  <2>2. PICK pc \in {"settling", "dropping"} : GotoWith(w, pc, worker[w].item)
    BY <1>5 DEF VisitSucceeds, GiveUp
  <2>3. \A v \in Workers, j \in Items :
           Recording(v, j)' <=> Recording(v, j) \/ (v = w /\ j = i)
    BY <2>0, <2>1, <2>2, EndHolds
  <2>4. \A j \in Items : ~Recording(w, j)
    BY <2>0 DEF Recording, At
  <2>5. /\ \A j \in Items : j # i => Recorders(j)' = Recorders(j)
        /\ Recorders(i)' = Recorders(i) \union {w} /\ w \notin Recorders(i)
    BY <2>3, <2>4 DEF Recorders
  <2>6. done' = done \union {i} /\ UNCHANGED <<deadLetter, succeeded, expired>>
    BY <1>5, <2>1 DEF VisitSucceeds, GiveUp, Complete
  <2>7. i \notin expired => i \notin done
    BY <2>0, <2>1 DEF Leasing, Holds, At
  <2>8. ASSUME NEW j \in Items \ expired' PROVE EndsOnce(j)'
    <3>1. j \in Items \ expired /\ EndsOnce(j)
      BY <2>6 DEF EndedOnce
    <3>2. CASE j # i
      BY <2>5, <2>6, <3>1, <3>2 DEF EndsOnce
    <3>3. CASE j = i
      <4>1. /\ deadLetter[i] + succeeded[i] + Cardinality(Recorders(i)) = 0
            /\ deadLetter[i] \in Nat /\ succeeded[i] \in Nat
        BY <2>7, <3>1, <3>3 DEF EndsOnce, TypeOK
      <4>2. Cardinality(Recorders(i)') = Cardinality(Recorders(i)) + 1
            /\ Cardinality(Recorders(i)) \in Nat
        BY <2>5, WorkerSets DEF Recorders
      <4>3. deadLetter'[i] + succeeded'[i] + Cardinality(Recorders(i)') = 1
        BY <2>6, <4>1, <4>2
      <4> QED
        BY <2>6, <3>3, <4>3 DEF EndsOnce
    <3> QED
      BY <3>2, <3>3
  <2>9. ASSUME NEW j \in Items \ expired' PROVE failureCounts'[j] <= MaxItemRetries
    <3>1. failureCounts[j] <= MaxItemRetries /\ failureCounts[j] \in Nat /\ MaxItemRetries \in Nat
      BY <2>6, DistributedQueueAssumption DEF Bounded, FailsBounded, TypeOK
    <3>2. CASE VisitSucceeds(w)
      BY <3>1, <3>2 DEF VisitSucceeds
    <3>3. CASE GiveUp(w)
      <4>1. failureCounts' = [failureCounts EXCEPT ![i] = @ + 1]
        BY <2>1, <3>3 DEF GiveUp, CountFailure
      <4>2. j = i => failureCounts[j] < MaxItemRetries
        BY <2>6, <2>7 DEF Leasing
      <4> QED
        BY <3>1, <4>1, <4>2 DEF TypeOK
    <3> QED
      BY <1>5, <3>2, <3>3
  <2> QED
    BY <2>8, <2>9 DEF EndedOnce, Bounded, FailsBounded
<1>6. ASSUME NEW w \in Workers, Settle(w) \/ Drop(w) PROVE EndedOnce' /\ Bounded'
  <2>0. /\ worker[w].item \in Items
        /\ At(w, "settling") \/ At(w, "dropping")
        /\ Goto(w, "polling")
    BY <1>6, ItemFacts DEF Settle, Drop, At
  <2>1. PICK i \in Items : i = worker[w].item
    BY <1>6, ItemFacts DEF Settle, Drop, At
  <2>2. \A v \in Workers, j \in Items : Recording(v, j)' <=> Recording(v, j) /\ v # w
    BY <1>6, RecordHolds DEF Settle, Drop
  <2>3. \A j \in Items : Recording(w, j) <=> j = i
    BY <1>6, <2>1 DEF Recording, At, Settle, Drop
  <2>4. /\ \A j \in Items : j # i => Recorders(j)' = Recorders(j)
        /\ Recorders(i)' = Recorders(i) \ {w} /\ w \in Recorders(i)
    BY <2>2, <2>3 DEF Recorders
  <2>5. UNCHANGED <<done, expired>>
    BY <1>6 DEF Settle, Drop, adapter
  <2>6. \/ /\ succeeded' = [succeeded EXCEPT ![i] = @ + 1] /\ UNCHANGED deadLetter
           /\ failureCounts' = [failureCounts EXCEPT ![i] = 0]
        \/ /\ deadLetter' = [deadLetter EXCEPT ![i] = @ + 1] /\ UNCHANGED succeeded
           /\ UNCHANGED failureCounts
    BY <1>6, <2>1 DEF Settle, Drop
  <2>7. ASSUME NEW j \in Items \ expired' PROVE EndsOnce(j)'
    <3>1. j \in Items \ expired /\ EndsOnce(j)
      BY <2>5 DEF EndedOnce
    <3>2. CASE j # i
      <4>1. deadLetter'[j] = deadLetter[j] /\ succeeded'[j] = succeeded[j]
        BY <2>6, <3>2 DEF TypeOK
      <4> QED
        BY <2>4, <2>5, <3>1, <3>2, <4>1 DEF EndsOnce
    <3>3. CASE j = i
      <4>1. deadLetter[i] \in Nat /\ succeeded[i] \in Nat
        BY DEF TypeOK
      <4>2. /\ Cardinality(Recorders(i)') = Cardinality(Recorders(i)) - 1
            /\ Cardinality(Recorders(i)) \in Nat
        BY <2>4, WorkerSets DEF Recorders
      <4>3. deadLetter'[i] + succeeded'[i] = deadLetter[i] + succeeded[i] + 1
        BY <2>6, <4>1 DEF TypeOK
      <4>4. deadLetter'[i] + succeeded'[i] + Cardinality(Recorders(i)')
               = deadLetter[i] + succeeded[i] + Cardinality(Recorders(i))
        BY <4>1, <4>2, <4>3
      <4> QED
        BY <2>5, <3>1, <3>3, <4>4 DEF EndsOnce
    <3> QED
      BY <3>2, <3>3
  <2>8. ASSUME NEW j \in Items \ expired' PROVE failureCounts'[j] <= MaxItemRetries
    <3>1. failureCounts[j] <= MaxItemRetries /\ 0 <= MaxItemRetries
      BY <2>5, DistributedQueueAssumption DEF Bounded, FailsBounded
    <3> QED
      BY <2>6, <3>1 DEF TypeOK
  <2> QED
    BY <2>7, <2>8 DEF EndedOnce, Bounded, FailsBounded
<1>7. CASE UNCHANGED vars
  BY <1>1, <1>7 DEF vars, adapter, Recording
<1> QED
  BY <1>2, <1>3, <1>4, <1>5, <1>6, <1>7 DEF Next, Proceed

\* A step of one worker leaves the others where they are.
LEMMA OneWorkerMoves ==
    ASSUME TypeOK, NEW v \in Workers, NEW w \in Workers, v # w, Proceed(v) \/ Hang(v)
    PROVE  worker'[w] = worker[w]
<1>1. CASE HandOut(v)
  <2>1. PICK i \in Items : GotoWith(v, "visiting", i)
    BY <1>1, HandOutFacts
  <2> QED
    BY <2>1, GotoFacts
<1>2. CASE ComeBackEmpty(v) \/ Wake(v) \/ Hang(v)
  BY <1>2 DEF ComeBackEmpty, Wake, Hang, TypeOK
<1>3. CASE Settle(v) \/ Drop(v) \/ VisitSucceeds(v) \/ GiveUp(v) \/ Release(v)
  BY <1>3 DEF Settle, Drop, VisitSucceeds, GiveUp, Release, Goto, GotoWith, TypeOK
<1> QED
  BY <1>1, <1>2, <1>3 DEF Proceed

-----------------------------------------------------------------------------
\* The inductive invariant: types, nothing lost, the leases with their holders, and one
\* holder and one end to every item whose leases never ran out.
IInv == Typed /\ NothingLost /\ Leasing /\ HeldByOne /\ EndedOnce /\ Bounded

\* The inductive invariant holds at first, when nothing is known, leased or done.
LEMMA IInvInit == Init => IInv
<1> SUFFICES ASSUME Init PROVE IInv
  OBVIOUS
<1>1. Typed
  BY TypedInit
<1>2. \A w \in Workers, i \in Items : ~Holds(w, i) /\ ~Recording(w, i)
  BY DEF Init, Holds, Recording
<1>3. \A i \in Items : ~Locked(i) /\ i \notin done /\ failureCounts[i] = 0
                      /\ deadLetter[i] = 0 /\ succeeded[i] = 0
  BY DEF Init, Locked
<1>4. 0 < MaxItemRetries /\ 0 <= MaxItemRetries
  BY DistributedQueueAssumption
<1>5. NothingLost /\ Leasing /\ HeldByOne /\ Bounded
  BY <1>2, <1>3, <1>4 DEF NothingLost, Leasing, HeldByOne, HeldOnce, Bounded, FailsBounded, Init
<1>6. \A i \in Items : Recorders(i) = {}
  BY <1>2 DEF Recorders
<1>7. Cardinality({}) = 0
  BY FS_EmptySet
<1>8. EndedOnce
  BY <1>3, <1>6, <1>7 DEF EndedOnce, EndsOnce
<1> QED
  BY <1>1, <1>5, <1>8 DEF IInv

\* The inductive invariant holds throughout every run of the queue.
THEOREM Invariance == Spec => []IInv
<1>1. IInv /\ [Next]_vars => IInv'
  BY TypedStep, NothingLostStep, LeasingStep, EndedStep DEF IInv
<1> QED
  BY IInvInit, <1>1, PTL DEF Spec

\* An item given to enqueue stays queued, leased or done, with a worker to every lease.
THEOREM NoItemIsLost == Spec => []NothingLost
<1>1. IInv => NothingLost
  BY DEF IInv
<1> QED
  BY Invariance, <1>1, PTL

\* While no lease of an item runs out, one worker at a time holds it and it ends once.
THEOREM OneHolderAndOneEnd == Spec => []OneHolder
<1>1. IInv => OneHolder
  BY OneHolderParts DEF IInv, HeldByOne, EndedOnce, Bounded
<1> QED
  BY Invariance, <1>1, PTL

\* A poll comes back empty only when every unfinished item is under a lease that runs.
THEOREM EmptyPollsAreHonest == Spec => EmptyMeansBusy
<1> DEFINE Honest == \A w \in Workers :
          At(w, "polling") /\ At(w, "sleeping")' =>
             \A i \in known \ done :
                Locked(i)' /\ (LeaseTimeout = 0 \/ locked'[i].age < LeaseTimeout)
<1>1. ASSUME IInv, [Next]_vars PROVE [Honest]_vars
  <2> SUFFICES ASSUME Next,
                      NEW w \in Workers, At(w, "polling"), At(w, "sleeping")',
                      NEW i \in known, i \notin done
               PROVE  Locked(i)' /\ (LeaseTimeout = 0 \/ locked'[i].age < LeaseTimeout)
    BY <1>1
  <2>1. Typed /\ TypeOK /\ NothingLost /\ i \in Items
    BY <1>1 DEF IInv, Typed, TypeOK
  <2>2. ComeBackEmpty(w)
    <3>1. worker'[w] # worker[w]
      BY DEF At
    <3>2. PICK v \in Workers : Proceed(v) \/ Hang(v)
      BY <3>1 DEF Next, Enqueue, Tick
    <3>3. v = w
      BY <2>1, <3>1, <3>2, OneWorkerMoves
    <3>4. HandOut(w) \/ ComeBackEmpty(w)
      BY <3>2, <3>3 DEF Proceed, Hang, Wake, Settle, Drop, VisitSucceeds, GiveUp, Release, At
    <3>5. ~HandOut(w)
      <4>1. HandOut(w) => \E j \in Items : GotoWith(w, "visiting", j)
        BY <2>1, HandOutFacts
      <4> QED
        BY <2>1, <4>1, GotoFacts DEF At
    <3> QED
      BY <3>4, <3>5
  <2>3. i \in done \/ Kept[i] # None
    BY <2>1, <2>2, EmptyFacts, KeptFacts DEF NothingLost
  <2>4. /\ locked'[i] = locked[i] /\ Locked(i) /\ i \notin Expired /\ Locked(i)'
    BY <2>1, <2>2, <2>3, KeptFacts DEF ComeBackEmpty, Locked
  <2>5. ~(LeaseTimeout > 0 /\ locked[i].age >= LeaseTimeout)
    BY <2>1, <2>4 DEF Expired
  <2>6. LeaseTimeout \in Nat /\ locked[i].age \in Nat
    BY <2>1, <2>4, DistributedQueueAssumption DEF TypeOK, Locked, Leases
  <2> QED
    BY <2>4, <2>5, <2>6
<1>2. Spec => [][Honest]_vars
  BY Invariance, <1>1, PTL DEF Spec
<1> QED
  BY <1>2 DEF EmptyMeansBusy


-----------------------------------------------------------------------------
(* Sessions.                                                               *)

\* The sites of cookies, and the bucket of one.
Sites == {HostSite[h] : h \in Hosts}

InJar(id, site) ==
    LET jar == sessions[id].jar IN IF site \in DOMAIN jar THEN jar[site] ELSE <<>>

LogEntries ==
    [id: Ids, sites: SUBSET Sites, emptied: {TRUE}] \union
    [id: Ids, sites: SUBSET Sites, emptied: {FALSE}, line: CookieLines, on: Nat]

\* The sessions, whatever their jars hold.
SessionsShaped ==
    /\ DOMAIN sessions = Ids /\ sessions = [id \in Ids |-> sessions[id]]
    /\ \A id \in Ids : /\ sessions[id] = [jar |-> sessions[id].jar, useCount |-> sessions[id].useCount]
                       /\ sessions[id].useCount \in Nat

SessionsTyped ==
    /\ SessionsShaped
    /\ cursor \in Nat /\ day \in Nat
    /\ jarLog \in Seq(LogEntries) /\ turns \in [Ids -> Nat]

\* The entries of the log about a session and a site, and the cookies that stand after them.
Here(id, site) == {k \in DOMAIN jarLog : jarLog[k].id = id /\ site \in jarLog[k].sites}

Stands(id, site) ==
    {k \in Here(id, site) :
        /\ ~jarLog[k].emptied
        /\ \A j \in Here(id, site) : j > k => ~jarLog[j].emptied /\ jarLog[j].line.name # jarLog[k].line.name}

ExpiresOn(set) ==
    IF set.line.attributes = <<>> THEN Forever
    ELSE LET attribute == set.line.attributes[Len(set.line.attributes)]
         IN  IF attribute.key = "max-age" THEN set.on + attribute.value
             ELSE IF attribute.value = 0 THEN Forever ELSE attribute.value

\* A bucket holds cookies that stand, and all of those that have not expired.
BucketTold(id, site) ==
    LET bucket == InJar(id, site)
    IN  /\ \A n \in DOMAIN bucket :
              /\ bucket[n].value \in Stands(id, site)
              /\ jarLog[bucket[n].value].line.name = n
              /\ bucket[n].expires = ExpiresOn(jarLog[bucket[n].value])
        /\ \A k \in Stands(id, site) : Alive(jarLog[k]) => jarLog[k].line.name \in DOMAIN bucket

JarsTold == \A id \in Ids, site \in Sites : BucketTold(id, site)

\* The order in which a round robin comes to the sessions next.
Before(i, j) ==
    LET next == cursor % PoolSize
    IN  (i > next /\ j <= next) \/ ((i > next <=> j > next) /\ i <= j)

InTurn ==
    pool.strategy = "round-robin" =>
        \A i, j \in Ids : Before(i, j) => turns[i] <= turns[j] /\ turns[j] <= turns[i] + 1

ByCount ==
    pool.strategy # "round-robin" /\ pool.recycleAfter = 0 =>
        /\ \A id \in Ids : turns[id] = sessions[id].useCount
        /\ \A i, j \in Ids : turns[i] <= turns[j] + 1

SessionsIInv == SessionsTyped /\ JarsTold /\ InTurn /\ ByCount

-----------------------------------------------------------------------------
\* What an entry of the log is.
LEMMA EntryFacts ==
    ASSUME NEW e \in LogEntries
    PROVE  /\ e.id \in Ids /\ e.sites \subseteq Sites /\ e.emptied \in BOOLEAN
           /\ ~e.emptied => e.line \in CookieLines /\ e.on \in Nat
BY DEF LogEntries

\* The last of a sequence is in its set.
LEMMA LastIn ==
    ASSUME NEW S, NEW s \in Seq(S), s # <<>>
    PROVE  s[Len(s)] \in S
<1>1. Len(s) \in Nat /\ Len(s) # 0
  OBVIOUS
<1> QED
  BY <1>1

\* A cookie is sent just as long as it may be.
LEMMA AliveMeans ==
    ASSUME SessionsTyped, NEW e \in LogEntries, ~e.emptied,
           NEW cookie, cookie.expires = ExpiresOn(e)
    PROVE  Alive(e) <=> ~Outlived(cookie)
<1> DEFINE attributes == e.line.attributes
           last == attributes[Len(attributes)]
<1>1. e.line \in CookieLines /\ e.on \in Nat /\ day \in Nat
  BY EntryFacts DEF SessionsTyped
<1>2. attributes \in Seq([key: {"expires", "max-age"}, value: Int])
  BY <1>1, SessionsAssumption
<1>3. CASE attributes = <<>>
  BY <1>3 DEF Alive, Outlived, ExpiresOn
<1>4. CASE attributes # <<>>
  <2>1. last \in [key: {"expires", "max-age"}, value: Int]
    BY <1>2, <1>4, LastIn
  <2>2. last.value \in Int
    BY <2>1
  <2>3. Forever \notin Int
    BY SessionsAssumption
  <2> QED
    BY <1>1, <1>4, <2>2, <2>3 DEF Alive, Outlived, ExpiresOn
<1> QED
  BY <1>3, <1>4

\* The cookies that stand are told apart by their names.
LEMMA OneStands ==
    ASSUME SessionsTyped, NEW id \in Ids, NEW site \in Sites,
           NEW j \in Stands(id, site), NEW k \in Stands(id, site),
           jarLog[j].line.name = jarLog[k].line.name
    PROVE  j = k
<1>1. j \in Nat /\ k \in Nat
  BY DEF Stands, Here, SessionsTyped
<1> QED
  BY <1>1 DEF Stands

\* With the cookies that stand in the buckets, requests bear what they should.
LEMMA JarsSend ==
    ASSUME SessionsTyped, JarsTold, NEW id \in Ids, NEW host \in Hosts
    PROVE  LET newest == {k \in Stands(id, HostSite[host]) : Alive(jarLog[k])}
               sent == Active(id, host)
           IN  /\ {sent[n].value : n \in DOMAIN sent} = newest
               /\ DOMAIN sent = {jarLog[k].line.name : k \in newest}
<1> DEFINE site == HostSite[host]
           bucket == Bucket(id, host)
           sent == Active(id, host)
           newest == {k \in Stands(id, site) : Alive(jarLog[k])}
<1>1. site \in Sites /\ bucket = InJar(id, site)
  BY DEF Sites, Bucket, InJar
<1>2. DOMAIN sent = {n \in DOMAIN bucket : ~Outlived(bucket[n])} /\ \A n \in DOMAIN sent : sent[n] = bucket[n]
  BY DEF Active
<1>3. \A k \in Stands(id, site) : jarLog[k] \in LogEntries /\ ~jarLog[k].emptied
  BY DEF Stands, Here, SessionsTyped
<1>4. /\ \A n \in DOMAIN bucket :
            /\ bucket[n].value \in Stands(id, site)
            /\ jarLog[bucket[n].value].line.name = n
            /\ bucket[n].expires = ExpiresOn(jarLog[bucket[n].value])
      /\ \A k \in Stands(id, site) : Alive(jarLog[k]) => jarLog[k].line.name \in DOMAIN bucket
  BY <1>1 DEF JarsTold, BucketTold
<1>5. \A n \in DOMAIN bucket : Alive(jarLog[bucket[n].value]) <=> ~Outlived(bucket[n])
  BY <1>3, <1>4, AliveMeans
<1> HIDE DEF sent, bucket, site
<1>6. ASSUME NEW n \in DOMAIN sent PROVE sent[n].value \in newest /\ jarLog[sent[n].value].line.name = n
  BY <1>2, <1>4, <1>5, <1>6
<1>7. ASSUME NEW k \in newest
      PROVE  jarLog[k].line.name \in DOMAIN sent /\ sent[jarLog[k].line.name].value = k
  <2> DEFINE n == jarLog[k].line.name
  <2>1. n \in DOMAIN bucket /\ bucket[n].value \in Stands(id, site) /\ jarLog[bucket[n].value].line.name = n
    BY <1>4
  <2>2. bucket[n].value = k
    BY <1>1, <2>1, OneStands
  <2> QED
    BY <1>2, <1>5, <2>1, <2>2
<1> QED
  BY <1>6, <1>7, ZenonT(40) DEF site, sent

-----------------------------------------------------------------------------
\* What an entry that is added changes of what stands.
LEMMA LogGrows ==
    ASSUME jarLog \in Seq(LogEntries), NEW e \in LogEntries, jarLog' = Append(jarLog, e),
           NEW id \in Ids, NEW site \in Sites
    PROVE  LET about == e.id = id /\ site \in e.sites
           IN  /\ jarLog' \in Seq(LogEntries)
               /\ \A k \in DOMAIN jarLog : jarLog'[k] = jarLog[k]
               /\ jarLog'[Len(jarLog) + 1] = e
               /\ ~about => Stands(id, site)' = Stands(id, site)
               /\ about /\ e.emptied => Stands(id, site)' = {}
               /\ about /\ ~e.emptied =>
                     Stands(id, site)' =
                         {Len(jarLog) + 1} \union {k \in Stands(id, site) : jarLog[k].line.name # e.line.name}
<1> DEFINE about == e.id = id /\ site \in e.sites
           new == Len(jarLog) + 1
<1>1. /\ jarLog' \in Seq(LogEntries) /\ Len(jarLog) \in Nat /\ jarLog'[new] = e
      /\ DOMAIN jarLog = 1..Len(jarLog) /\ DOMAIN jarLog' = 1..new
      /\ \A k \in DOMAIN jarLog : jarLog'[k] = jarLog[k]
  OBVIOUS
<1>2. Here(id, site)' = Here(id, site) \union (IF about THEN {new} ELSE {})
  BY <1>1 DEF Here
<1>3. Here(id, site) \subseteq 1..Len(jarLog) /\ \A k \in Here(id, site) : jarLog'[k] = jarLog[k]
  BY <1>1 DEF Here
<1>4. /\ \A k \in Here(id, site) : k < new /\ k \in Nat
      /\ new \in Nat
  BY <1>1, <1>3
<1>5. ~about => Stands(id, site)' = Stands(id, site)
  BY <1>2, <1>3 DEF Stands
<1>6. about /\ e.emptied => Stands(id, site)' = {}
  BY <1>1, <1>2, <1>3, <1>4 DEF Stands
<1>7. ASSUME about, ~e.emptied
      PROVE  Stands(id, site)' =
                 {new} \union {k \in Stands(id, site) : jarLog[k].line.name # e.line.name}
  BY <1>1, <1>2, <1>3, <1>4, <1>7 DEF Stands
<1> QED
  BY <1>1, <1>5, <1>6, <1>7

\* A bucket that is as it was, while nothing is noted about it.
LEMMA BucketKept ==
    ASSUME SessionsTyped, NEW id \in Ids, NEW site \in Sites, BucketTold(id, site),
           day' \in Nat, day' >= day, InJar(id, site)' = InJar(id, site),
           Stands(id, site)' = Stands(id, site),
           \A k \in DOMAIN jarLog : jarLog'[k] = jarLog[k]
    PROVE  BucketTold(id, site)'
<1>1. \A k \in Stands(id, site) : jarLog'[k] = jarLog[k] /\ jarLog[k] \in LogEntries /\ ~jarLog[k].emptied
  BY DEF Stands, Here, SessionsTyped
<1>2. \A k \in Stands(id, site) : Alive(jarLog[k])' => Alive(jarLog[k])
  <2> SUFFICES ASSUME NEW k \in Stands(id, site), Alive(jarLog[k])' PROVE Alive(jarLog[k])
    OBVIOUS
  <2> DEFINE e == jarLog[k]
             attributes == e.line.attributes
             last == attributes[Len(attributes)]
  <2>1. jarLog'[k] = e /\ e.line \in CookieLines /\ e.on \in Nat /\ day \in Nat
    BY <1>1, EntryFacts DEF SessionsTyped
  <2>2. attributes \in Seq([key: {"expires", "max-age"}, value: Int])
    BY <2>1, SessionsAssumption
  <2>3. attributes # <<>> => last.value \in Int
    BY <2>2, LastIn
  <2> QED
    BY <2>1, <2>3 DEF Alive
<1> QED
  BY <1>1, <1>2 DEF BucketTold

\* An empty bucket where nothing stands.
LEMMA EmptyBucket ==
    ASSUME NEW id \in Ids, NEW site \in Sites, InJar(id, site)' = <<>>, Stands(id, site)' = {}
    PROVE  BucketTold(id, site)'
<1>1. DOMAIN <<>> = {}
  OBVIOUS
<1> QED
  BY <1>1 DEF BucketTold

-----------------------------------------------------------------------------

\* A session that is replaced, while the others stay.
LEMMA OneSession ==
    ASSUME SessionsShaped, NEW id \in Ids, NEW jar, NEW count \in Nat,
           sessions' = [sessions EXCEPT ![id] = [jar |-> jar, useCount |-> count]]
    PROVE  /\ SessionsShaped' /\ sessions'[id].jar = jar /\ sessions'[id].useCount = count
           /\ \A i \in Ids \ {id} : sessions'[i] = sessions[i]
BY DEF SessionsShaped

\* A session with another jar.
LEMMA NewJar ==
    ASSUME SessionsShaped, NEW id \in Ids, NEW jar, sessions' = [sessions EXCEPT ![id].jar = jar]
    PROVE  /\ SessionsShaped' /\ sessions'[id].jar = jar
           /\ \A i \in Ids : sessions'[i].useCount = sessions[i].useCount
           /\ \A i \in Ids \ {id} : sessions'[i] = sessions[i]
<1>1. [sessions[id] EXCEPT !.jar = jar] = [jar |-> jar, useCount |-> sessions[id].useCount]
  BY DEF SessionsShaped
<1>2. sessions' = [sessions EXCEPT ![id] = [jar |-> jar, useCount |-> sessions[id].useCount]]
  BY <1>1 DEF SessionsShaped
<1>3. sessions[id].useCount \in Nat
  BY DEF SessionsShaped
<1> DEFINE count == sessions[id].useCount
<1> HIDE DEF count
<1>4. /\ SessionsShaped' /\ sessions'[id].jar = jar /\ sessions'[id].useCount = count
      /\ \A i \in Ids \ {id} : sessions'[i] = sessions[i]
  <2>1. count \in Nat /\ sessions' = [sessions EXCEPT ![id] = [jar |-> jar, useCount |-> count]]
    BY <1>2, <1>3 DEF count
  <2> QED
    BY <2>1, OneSession
<1> QED
  BY <1>4 DEF count

\* A bucket that is filled anew, while the other buckets stay.
LEMMA RefillFacts ==
    ASSUME SessionsShaped, NEW id \in Ids, NEW host \in Hosts, NEW bucket, Refill(id, host, bucket)
    PROVE  /\ SessionsShaped' /\ InJar(id, HostSite[host])' = bucket
           /\ \A i \in Ids : sessions'[i].useCount = sessions[i].useCount
           /\ \A i \in Ids, site \in Sites :
                 i # id \/ site # HostSite[host] => InJar(i, site)' = InJar(i, site)
<1> DEFINE old == sessions[id].jar
           here == HostSite[host]
           jar == [s \in DOMAIN old \union {here} |-> IF s = here THEN bucket ELSE old[s]]
<1>1. sessions' = [sessions EXCEPT ![id].jar = jar]
  BY DEF Refill
<1>2. here \in DOMAIN jar /\ jar[here] = bucket
  OBVIOUS
<1>3. \A s : s # here => (s \in DOMAIN jar <=> s \in DOMAIN old) /\ (s \in DOMAIN old => jar[s] = old[s])
  OBVIOUS
<1> HIDE DEF jar
<1>4. /\ SessionsShaped' /\ sessions'[id].jar = jar
      /\ \A i \in Ids : sessions'[i].useCount = sessions[i].useCount
      /\ \A i \in Ids \ {id} : sessions'[i] = sessions[i]
  BY <1>1, NewJar
<1> QED
  BY <1>2, <1>3, <1>4 DEF InJar

-----------------------------------------------------------------------------
\* A request lets go of what is outlived.
LEMMA RequestKeeps ==
    ASSUME SessionsTyped, JarsTold, NEW id \in Ids, NEW host \in Hosts, Request(id, host)
    PROVE  SessionsTyped' /\ JarsTold' /\ \A i \in Ids : sessions'[i].useCount = sessions[i].useCount
<1> DEFINE here == HostSite[host]
<1>1. Refill(id, host, Active(id, host)) /\ UNCHANGED <<pool, cursor, inHand, day, jarLog, turns>>
  BY DEF Request
<1>2. SessionsShaped
  BY DEF SessionsTyped, SessionsShaped
<1>3. /\ SessionsShaped' /\ InJar(id, here)' = Active(id, host)
      /\ \A i \in Ids : sessions'[i].useCount = sessions[i].useCount
      /\ \A i \in Ids, site \in Sites :
            i # id \/ site # here => InJar(i, site)' = InJar(i, site)
  BY <1>1, <1>2, RefillFacts
<1>4. SessionsTyped'
  BY <1>1, <1>3 DEF SessionsTyped, SessionsShaped
<1>5. \A i \in Ids, site \in Sites : Stands(i, site)' = Stands(i, site)
  BY <1>1 DEF Stands, Here
<1>6. \A e : Alive(e)' <=> Alive(e)
  BY <1>1 DEF Alive
<1>7. ASSUME NEW i \in Ids, NEW site \in Sites PROVE BucketTold(i, site)'
  <2>1. BucketTold(i, site)
    BY DEF JarsTold
  <2>2. CASE i # id \/ site # here
    <3>1. InJar(i, site)' = InJar(i, site)
      BY <1>3, <2>2
    <3>2. day \in Nat
      BY DEF SessionsTyped
    <3> QED
      BY <1>1, <1>5, <2>1, <3>1, <3>2, BucketKept
  <2>3. CASE i = id /\ site = here
    <3> DEFINE bucket == Bucket(id, host)
    <3>1. bucket = InJar(id, here)
      BY DEF Bucket, InJar
    <3>2. /\ DOMAIN Active(id, host) = {n \in DOMAIN bucket : ~Outlived(bucket[n])}
          /\ \A n \in DOMAIN Active(id, host) : Active(id, host)[n] = bucket[n]
      BY DEF Active
    <3> HIDE DEF bucket
    <3>3. \A k \in Stands(id, here) : jarLog[k] \in LogEntries /\ ~jarLog[k].emptied
      BY DEF Stands, Here, SessionsTyped
    <3>4. \A n \in DOMAIN bucket :
              /\ bucket[n].value \in Stands(id, here)
              /\ jarLog[bucket[n].value].line.name = n
              /\ bucket[n].expires = ExpiresOn(jarLog[bucket[n].value])
      BY <2>1, <2>3, <3>1 DEF BucketTold
    <3>5. \A k \in Stands(id, here) : Alive(jarLog[k]) => jarLog[k].line.name \in DOMAIN Active(id, host)
      <4> SUFFICES ASSUME NEW k \in Stands(id, here), Alive(jarLog[k])
                   PROVE  jarLog[k].line.name \in DOMAIN Active(id, host)
        OBVIOUS
      <4> DEFINE n == jarLog[k].line.name
      <4>1. n \in DOMAIN bucket
        BY <2>1, <2>3, <3>1 DEF BucketTold
      <4>2. bucket[n].value = k
        <5>1. here \in Sites
          BY DEF Sites
        <5> QED
          BY <3>4, <4>1, <5>1, OneStands
      <4>3. ~Outlived(bucket[n])
        BY <3>3, <3>4, <4>1, <4>2, AliveMeans
      <4> QED
        BY <3>2, <4>1, <4>3
    <3>6. InJar(id, here)' = Active(id, host) /\ jarLog' = jarLog /\ Stands(id, here)' = Stands(id, here)
      <4>1. here \in Sites
        BY DEF Sites
      <4> QED
        BY <1>1, <1>3, <1>5, <4>1
    <3> QED
      BY <1>6, <2>3, <3>2, <3>4, <3>5, <3>6 DEF BucketTold
  <2> QED
    BY <2>2, <2>3
<1> QED
  BY <1>3, <1>4, <1>7 DEF JarsTold

\* An answer sets a cookie.
LEMMA AnswerKeeps ==
    ASSUME SessionsTyped, JarsTold, NEW id \in Ids, NEW host \in Hosts, NEW line \in CookieLines,
           Answer(id, host, line)
    PROVE  SessionsTyped' /\ JarsTold' /\ \A i \in Ids : sessions'[i].useCount = sessions[i].useCount
<1> DEFINE here == HostSite[host]
           new == Len(jarLog) + 1
           cookie == [value |-> new, expires |-> Expires(line)]
           old == Bucket(id, host)
           bucket == [n \in DOMAIN old \union {line.name} |-> IF n = line.name THEN cookie ELSE old[n]]
           e == [id |-> id, sites |-> {here}, emptied |-> FALSE, line |-> line, on |-> day]
<1>1. Refill(id, host, bucket) /\ jarLog' = Append(jarLog, e) /\ UNCHANGED <<pool, cursor, inHand, day, turns>>
  BY DEF Answer
<1>2. here \in Sites
  BY DEF Sites
<1>3. e \in LogEntries
  BY <1>2 DEF LogEntries, SessionsTyped
<1>4. SessionsShaped
  BY DEF SessionsTyped, SessionsShaped
<1>5. /\ \A n \in DOMAIN bucket : n = line.name \/ n \in DOMAIN old
      /\ line.name \in DOMAIN bucket /\ DOMAIN old \subseteq DOMAIN bucket
      /\ bucket[line.name] = cookie
      /\ \A n \in DOMAIN old : n # line.name => bucket[n] = old[n]
  OBVIOUS
<1>6. cookie.value = new /\ cookie.expires = ExpiresOn(e)
  BY DEF Expires, ExpiresOn
<1>7. old = InJar(id, here)
  BY DEF Bucket, InJar
<1>8. e.id = id /\ e.sites = {here} /\ ~e.emptied /\ e.line = line
  OBVIOUS
<1> HIDE DEF bucket, cookie, old, e, here
<1>9. /\ SessionsShaped' /\ InJar(id, here)' = bucket
      /\ \A i \in Ids : sessions'[i].useCount = sessions[i].useCount
      /\ \A i \in Ids, site \in Sites :
            i # id \/ site # here => InJar(i, site)' = InJar(i, site)
  BY <1>1, <1>4, RefillFacts DEF here
<1>10. jarLog \in Seq(LogEntries) /\ day \in Nat
  BY DEF SessionsTyped
<1>11. /\ jarLog' \in Seq(LogEntries)
       /\ \A k \in DOMAIN jarLog : jarLog'[k] = jarLog[k]
       /\ jarLog'[new] = e
  BY <1>1, <1>2, <1>3, <1>10, LogGrows
<1>12. SessionsTyped'
  BY <1>1, <1>9, <1>11 DEF SessionsTyped, SessionsShaped
<1>13. ASSUME NEW i \in Ids, NEW site \in Sites PROVE BucketTold(i, site)'
  <2>1. BucketTold(i, site)
    BY DEF JarsTold
  <2>2. CASE i # id \/ site # here
    <3>1. InJar(i, site)' = InJar(i, site)
      BY <1>9, <2>2
    <3>2. Stands(i, site)' = Stands(i, site)
      BY <1>1, <1>3, <1>8, <1>10, <2>2, LogGrows
    <3> QED
      BY <1>1, <1>10, <1>11, <2>1, <3>1, <3>2, BucketKept
  <2>3. CASE i = id /\ site = here
    <3>1. Stands(id, here)' =
              {new} \union {k \in Stands(id, here) : jarLog[k].line.name # line.name}
      BY <1>1, <1>2, <1>3, <1>8, <1>10, LogGrows
    <3>2. \A k \in Stands(id, here) : k \in DOMAIN jarLog
      BY DEF Stands, Here
    <3>3. \A x : Alive(x)' <=> Alive(x)
      BY <1>1 DEF Alive
    <3>4. ASSUME NEW n \in DOMAIN bucket
          PROVE  /\ bucket[n].value \in Stands(id, here)'
                 /\ jarLog'[bucket[n].value].line.name = n
                 /\ bucket[n].expires = ExpiresOn(jarLog'[bucket[n].value])
      <4>1. CASE n = line.name
        BY <1>5, <1>6, <1>8, <1>11, <3>1, <4>1
      <4>2. CASE n # line.name
        <5>1. n \in DOMAIN old /\ bucket[n] = old[n]
          BY <1>5, <4>2
        <5>2. /\ old[n].value \in Stands(id, here) /\ jarLog[old[n].value].line.name = n
              /\ old[n].expires = ExpiresOn(jarLog[old[n].value])
          BY <1>7, <2>1, <2>3, <5>1 DEF BucketTold
        <5> QED
          BY <1>11, <3>1, <3>2, <4>2, <5>1, <5>2
      <4> QED
        BY <4>1, <4>2
    <3>5. ASSUME NEW k \in Stands(id, here)', Alive(jarLog'[k])
          PROVE  jarLog'[k].line.name \in DOMAIN bucket
      <4>1. CASE k = new
        BY <1>5, <1>8, <1>11, <4>1
      <4>2. CASE k # new
        <5>1. k \in Stands(id, here) /\ jarLog'[k] = jarLog[k]
          BY <1>11, <3>1, <3>2, <4>2
        <5>2. jarLog[k].line.name \in DOMAIN old
          BY <1>7, <2>1, <2>3, <3>5, <5>1 DEF BucketTold
        <5> QED
          BY <1>5, <5>1, <5>2
      <4> QED
        BY <4>1, <4>2
    <3> QED
      BY <1>9, <2>3, <3>3, <3>4, <3>5 DEF BucketTold
  <2> QED
    BY <2>2, <2>3
<1> QED
  BY <1>9, <1>12, <1>13 DEF JarsTold

\* A bucket is thrown away.
LEMMA ClearJarKeeps ==
    ASSUME SessionsTyped, JarsTold, NEW id \in Ids, NEW host \in Hosts, ClearJar(id, host)
    PROVE  SessionsTyped' /\ JarsTold' /\ \A i \in Ids : sessions'[i].useCount = sessions[i].useCount
<1> DEFINE here == HostSite[host]
           old == sessions[id].jar
           jar == [s \in DOMAIN old \ {here} |-> old[s]]
           e == Emptied(id, {here})
<1>1. /\ sessions' = [sessions EXCEPT ![id].jar = jar] /\ jarLog' = Append(jarLog, e)
      /\ UNCHANGED <<pool, cursor, inHand, day, turns>>
  BY DEF ClearJar
<1>2. here \in Sites
  BY DEF Sites
<1>3. e \in LogEntries /\ e.id = id /\ e.sites = {here} /\ e.emptied
  BY <1>2 DEF LogEntries, Emptied
<1>4. SessionsShaped
  BY DEF SessionsTyped, SessionsShaped
<1>5. here \notin DOMAIN jar
      /\ \A s : s # here => (s \in DOMAIN jar <=> s \in DOMAIN old) /\ (s \in DOMAIN old => jar[s] = old[s])
  OBVIOUS
<1> HIDE DEF jar, e, here
<1>6. /\ SessionsShaped' /\ sessions'[id].jar = jar
      /\ \A i \in Ids : sessions'[i].useCount = sessions[i].useCount
      /\ \A i \in Ids \ {id} : sessions'[i] = sessions[i]
  BY <1>1, <1>4, NewJar
<1>7. /\ InJar(id, here)' = <<>>
      /\ \A i \in Ids, site \in Sites : i # id \/ site # here => InJar(i, site)' = InJar(i, site)
  BY <1>5, <1>6 DEF InJar
<1>8. jarLog \in Seq(LogEntries) /\ day \in Nat
  BY DEF SessionsTyped
<1>9. jarLog' \in Seq(LogEntries) /\ \A k \in DOMAIN jarLog : jarLog'[k] = jarLog[k]
  BY <1>1, <1>2, <1>3, <1>8, LogGrows
<1>10. SessionsTyped'
  BY <1>1, <1>6, <1>9 DEF SessionsTyped, SessionsShaped
<1>11. ASSUME NEW i \in Ids, NEW site \in Sites PROVE BucketTold(i, site)'
  <2>1. BucketTold(i, site)
    BY DEF JarsTold
  <2>2. CASE i # id \/ site # here
    <3>1. InJar(i, site)' = InJar(i, site)
      BY <1>7, <2>2
    <3>2. Stands(i, site)' = Stands(i, site)
      BY <1>1, <1>3, <1>8, <2>2, LogGrows
    <3> QED
      BY <1>1, <1>8, <1>9, <2>1, <3>1, <3>2, BucketKept
  <2>3. CASE i = id /\ site = here
    <3>1. Stands(id, here)' = {}
      BY <1>1, <1>2, <1>3, <1>8, LogGrows
    <3> QED
      BY <1>2, <1>7, <2>3, <3>1, EmptyBucket
  <2> QED
    BY <2>2, <2>3
<1> QED
  BY <1>6, <1>10, <1>11 DEF JarsTold

\* There is a least used session.
LEMMA LeastUsedFacts ==
    ASSUME SessionsTyped
    PROVE  LeastUsed \in Ids /\ \A i \in Ids : sessions[LeastUsed].useCount <= sessions[i].useCount
<1> DEFINE Counts == {sessions[i].useCount : i \in Ids}
<1>1. Ids \subseteq Nat /\ 1 \in Ids /\ \A i \in Ids : sessions[i].useCount \in Nat
  BY SessionsAssumption DEF Ids, SessionsTyped, SessionsShaped
<1>2. PICK m \in Counts : \A n \in Counts : m <= n
  <2>1. Counts \in SUBSET Nat /\ Counts # {}
    BY <1>1
  <2> HIDE DEF Counts
  <2> QED
    BY <2>1, LeastOf
<1>3. m \in Nat /\ \A i \in Ids : m <= sessions[i].useCount
  BY <1>1, <1>2
<1> DEFINE Of == {i \in Ids : sessions[i].useCount = m}
<1>4. PICK least \in Of : \A i \in Of : least <= i
  <2>1. Of \in SUBSET Nat /\ Of # {}
    BY <1>1, <1>2
  <2> HIDE DEF Of
  <2> QED
    BY <2>1, LeastOf
<1> DEFINE First(id) == id \in Ids /\ \A i \in Ids :
              \/ sessions[id].useCount < sessions[i].useCount
              \/ sessions[id].useCount = sessions[i].useCount /\ id <= i
<1>5. First(least)
  BY <1>1, <1>3, <1>4
<1>6. LeastUsed = CHOOSE id \in Ids : \A i \in Ids :
              \/ sessions[id].useCount < sessions[i].useCount
              \/ sessions[id].useCount = sessions[i].useCount /\ id <= i
  BY DEF LeastUsed
<1>7. First(LeastUsed)
  BY <1>5, <1>6, Zenon
<1>8. LeastUsed \in Ids
  BY <1>7
<1>9. ASSUME NEW i \in Ids PROVE sessions[LeastUsed].useCount <= sessions[i].useCount
  <2>1. sessions[LeastUsed].useCount \in Nat /\ sessions[i].useCount \in Nat
    BY <1>1, <1>8
  <2>2. sessions[LeastUsed].useCount < sessions[i].useCount \/ sessions[LeastUsed].useCount = sessions[i].useCount
    BY <1>7
  <2> QED
    BY <2>1, <2>2
<1> QED
  BY <1>8, <1>9

\* The next session is handed out, and perhaps recycled.
LEMMA NextSessionKeeps ==
    ASSUME SessionsTyped, JarsTold, NEW u \in Users, NextSession(u)
    PROVE  /\ SessionsTyped' /\ JarsTold'
           /\ pool' = pool
           /\ IF pool.strategy = "round-robin"
              THEN /\ cursor' = cursor + 1
                   /\ turns' = [turns EXCEPT ![1 + (cursor % PoolSize)] = @ + 1]
              ELSE /\ cursor' = cursor
                   /\ turns' = [turns EXCEPT ![LeastUsed] = @ + 1]
                   /\ pool.recycleAfter = 0 =>
                         \A i \in Ids : sessions'[i].useCount =
                             sessions[i].useCount + (IF i = LeastUsed THEN 1 ELSE 0)
<1> DEFINE inTurn == pool.strategy = "round-robin"
           id == IF inTurn THEN 1 + (cursor % PoolSize) ELSE LeastUsed
           used == [sessions[id] EXCEPT !.useCount = @ + 1]
           recycle == pool.recycleAfter # 0 /\ used.useCount >= pool.recycleAfter
           new == IF recycle THEN Recycled(used) ELSE used
           e == Emptied(id, Sites)
<1>1. /\ cursor' = IF inTurn THEN cursor + 1 ELSE cursor
      /\ sessions' = [sessions EXCEPT ![id] = new]
      /\ jarLog' = IF recycle THEN Append(jarLog, e) ELSE jarLog
      /\ turns' = [turns EXCEPT ![id] = @ + 1]
      /\ UNCHANGED <<pool, day>>
  BY DEF NextSession, Sites
<1>2. /\ cursor \in Nat /\ PoolSize \in Nat \ {0} /\ day \in Nat
      /\ turns \in [Ids -> Nat] /\ jarLog \in Seq(LogEntries)
  BY SessionsAssumption DEF SessionsTyped
<1>3. cursor % PoolSize \in 0..(PoolSize - 1)
  BY <1>2
<1>4. id \in Ids
  BY <1>2, <1>3, LeastUsedFacts DEF Ids
<1>5. e \in LogEntries /\ e.id = id /\ e.sites = Sites /\ e.emptied
  BY <1>4 DEF LogEntries, Emptied
<1>6. SessionsShaped
  BY DEF SessionsTyped, SessionsShaped
<1> DEFINE count == sessions[id].useCount
<1>7. used = [jar |-> sessions[id].jar, useCount |-> count + 1] /\ count \in Nat
  <2>1. sessions[id] = [jar |-> sessions[id].jar, useCount |-> count] /\ count \in Nat
    BY <1>4, <1>6 DEF SessionsShaped
  <2> HIDE DEF id
  <2> QED
    BY <2>1
<1>8. new = IF recycle THEN [jar |-> <<>>, useCount |-> 0]
             ELSE [jar |-> sessions[id].jar, useCount |-> count + 1]
  BY <1>7 DEF Recycled, Fresh
<1> HIDE DEF id, used, recycle, new, e, count
<1>9. /\ SessionsShaped'
      /\ sessions'[id].jar = IF recycle THEN <<>> ELSE sessions[id].jar
      /\ sessions'[id].useCount = IF recycle THEN 0 ELSE count + 1
      /\ \A i \in Ids \ {id} : sessions'[i] = sessions[i]
  <2>1. CASE recycle
    <3>1. sessions' = [sessions EXCEPT ![id] = [jar |-> <<>>, useCount |-> 0]]
      <4>1. new = [jar |-> <<>>, useCount |-> 0]
        BY <1>8, <2>1
      <4> QED
        BY <1>1, <4>1
    <3> QED
      BY <1>4, <1>6, <2>1, <3>1, OneSession, ZenonT(40)
  <2>2. CASE ~recycle
    <3> DEFINE jar == sessions[id].jar
               n == count + 1
    <3>1. sessions' = [sessions EXCEPT ![id] = [jar |-> jar, useCount |-> n]] /\ n \in Nat
      BY <1>1, <1>7, <1>8, <2>2
    <3> HIDE DEF jar, n
    <3>2. SessionsShaped' /\ sessions'[id].jar = jar /\ sessions'[id].useCount = n
          /\ \A i \in Ids \ {id} : sessions'[i] = sessions[i]
      BY <1>4, <1>6, <3>1, OneSession
    <3> QED
      BY <2>2, <3>2 DEF jar, n
  <2> QED
    BY <2>1, <2>2
<1>10. /\ jarLog' \in Seq(LogEntries)
       /\ \A k \in DOMAIN jarLog : jarLog'[k] = jarLog[k]
       /\ \A i \in Ids, site \in Sites :
             Stands(i, site)' = IF recycle /\ i = id THEN {} ELSE Stands(i, site)
  <2>1. CASE ~recycle
    BY <1>1, <1>2, <2>1 DEF Stands, Here
  <2>2. CASE recycle
    <3>1. jarLog' = Append(jarLog, e)
      BY <1>1, <2>2
    <3>2. ASSUME NEW i \in Ids, NEW site \in Sites
          PROVE  /\ jarLog' \in Seq(LogEntries)
                 /\ \A k \in DOMAIN jarLog : jarLog'[k] = jarLog[k]
                 /\ Stands(i, site)' = IF i = id THEN {} ELSE Stands(i, site)
      BY <1>2, <1>5, <3>1, LogGrows
    <3>3. jarLog' \in Seq(LogEntries) /\ \A k \in DOMAIN jarLog : jarLog'[k] = jarLog[k]
      BY <1>2, <1>5, <3>1
    <3> QED
      BY <2>2, <3>2, <3>3
  <2> QED
    BY <2>1, <2>2
<1>11. cursor' \in Nat /\ turns' \in [Ids -> Nat] /\ day' \in Nat
  BY <1>1, <1>2, <1>4
<1>12. SessionsTyped'
  BY <1>9, <1>10, <1>11 DEF SessionsTyped, SessionsShaped
<1>13. ASSUME NEW i \in Ids, NEW site \in Sites PROVE BucketTold(i, site)'
  <2>1. BucketTold(i, site)
    BY DEF JarsTold
  <2>2. CASE recycle /\ i = id
    <3>1. InJar(i, site)' = <<>> /\ Stands(i, site)' = {}
      <4>1. DOMAIN <<>> = {}
        OBVIOUS
      <4> QED
        BY <1>9, <1>10, <2>2, <4>1 DEF InJar
    <3> QED
      BY <3>1, EmptyBucket
  <2>3. CASE ~(recycle /\ i = id)
    <3>1. InJar(i, site)' = InJar(i, site) /\ Stands(i, site)' = Stands(i, site)
      BY <1>9, <1>10, <2>3 DEF InJar
    <3>2. day' = day
      BY <1>1
    <3> QED
      BY <1>2, <1>10, <2>1, <3>1, <3>2, BucketKept
  <2> QED
    BY <2>2, <2>3
<1>14. pool.recycleAfter = 0 => ~recycle
  BY DEF recycle
<1>15. ~inTurn /\ pool.recycleAfter = 0 =>
          \A i \in Ids : sessions'[i].useCount = sessions[i].useCount + (IF i = LeastUsed THEN 1 ELSE 0)
  <2>1. \A i \in Ids : sessions[i].useCount \in Nat
    BY <1>6 DEF SessionsShaped
  <2> QED
    BY <1>9, <1>14, <2>1 DEF id, count
<1> QED
  BY <1>1, <1>12, <1>13, <1>15 DEF JarsTold, id

\* All the sessions begin anew.
LEMMA ResetAllKeeps ==
    ASSUME SessionsTyped, JarsTold, ResetAll
    PROVE  /\ SessionsTyped' /\ JarsTold'
           /\ \A i \in Ids : turns'[i] = 0 /\ sessions'[i].useCount = 0
<1> DEFINE all == [id \in Ids |-> Emptied(id, Sites)]
<1>1. /\ sessions' = [id \in Ids |-> [jar |-> <<>>, useCount |-> 0]]
      /\ jarLog' = jarLog \o all /\ turns' = [id \in Ids |-> 0]
      /\ UNCHANGED <<pool, cursor, inHand, day>>
  BY DEF ResetAll, Sites, Recycled, Fresh
<1>2. PoolSize \in Nat \ {0} /\ jarLog \in Seq(LogEntries) /\ cursor \in Nat /\ day \in Nat
  BY SessionsAssumption DEF SessionsTyped
<1>3. /\ all \in Seq(LogEntries) /\ Len(all) = PoolSize
      /\ \A i \in Ids : all[i].id = i /\ all[i].sites = Sites /\ all[i].emptied
  <2>1. \A i \in Ids : all[i] \in LogEntries /\ all[i].id = i /\ all[i].sites = Sites /\ all[i].emptied
    BY DEF LogEntries, Emptied
  <2>2. all \in [1..PoolSize -> LogEntries]
    BY <2>1 DEF Ids
  <2> HIDE DEF all
  <2>3. all \in Seq(LogEntries) /\ Len(all) = PoolSize
    BY <1>2, <2>2
  <2> QED
    BY <2>1, <2>3
<1> HIDE DEF all
<1>4. /\ jarLog' \in Seq(LogEntries) /\ Len(jarLog') = Len(jarLog) + PoolSize
      /\ \A k \in DOMAIN jarLog : jarLog'[k] = jarLog[k]
      /\ \A i \in Ids : jarLog'[Len(jarLog) + i] = all[i]
  <2>1. jarLog' \in Seq(LogEntries) /\ Len(jarLog') = Len(jarLog) + Len(all)
    BY <1>1, <1>2, <1>3, ConcatProperties
  <2>2. \A k \in 1..(Len(jarLog) + Len(all)) :
            jarLog'[k] = IF k <= Len(jarLog) THEN jarLog[k] ELSE all[k - Len(jarLog)]
    BY <1>1, <1>2, <1>3, ConcatProperties
  <2>3. ASSUME NEW i \in Ids PROVE jarLog'[Len(jarLog) + i] = all[i]
    <3>1. i \in 1..PoolSize /\ Len(jarLog) \in Nat
      BY <1>2 DEF Ids
    <3>2. Len(jarLog) + i \in 1..(Len(jarLog) + PoolSize) /\ (Len(jarLog) + i) - Len(jarLog) = i
          /\ ~(Len(jarLog) + i <= Len(jarLog))
      BY <1>2, <3>1
    <3> QED
      BY <1>3, <2>2, <3>2
  <2>4. DOMAIN jarLog = 1..Len(jarLog) /\ Len(jarLog) \in Nat
    BY <1>2
  <2> QED
    BY <1>2, <1>3, <2>1, <2>2, <2>3, <2>4
<1>5. \A i \in Ids : sessions'[i] = [jar |-> <<>>, useCount |-> 0]
  BY <1>1
<1>6. SessionsShaped'
  BY <1>1 DEF SessionsShaped
<1>7. SessionsTyped'
  <2>1. turns' \in [Ids -> Nat]
    BY <1>1
  <2> QED
    BY <1>1, <1>2, <1>4, <1>6, <2>1 DEF SessionsTyped, SessionsShaped
<1>8. ASSUME NEW i \in Ids, NEW site \in Sites PROVE BucketTold(i, site)'
  <2>1. InJar(i, site)' = <<>>
    <3>1. DOMAIN <<>> = {}
      OBVIOUS
    <3> QED
      BY <1>5, <3>1 DEF InJar
  <2> DEFINE n == Len(jarLog)
  <2>2. n + i \in Here(i, site)' /\ jarLog'[n + i].emptied
    <3>1. n + i \in DOMAIN jarLog'
      BY <1>2, <1>4 DEF Ids
    <3>2. jarLog'[n + i] = all[i]
      BY <1>4
    <3>3. jarLog'[n + i].id = i /\ site \in jarLog'[n + i].sites /\ jarLog'[n + i].emptied
      BY <1>3, <3>2
    <3> HIDE DEF n
    <3> QED
      BY <3>1, <3>3 DEF Here
  <2>3. \A k \in Here(i, site)' : k <= n + i
    <3> SUFFICES ASSUME NEW k \in Here(i, site)' PROVE k <= n + i
      OBVIOUS
    <3>1. k \in 1..(n + PoolSize) /\ jarLog'[k].id = i
      BY <1>2, <1>4 DEF Here
    <3>0. n \in Nat /\ i \in 1..PoolSize
      BY <1>2 DEF Ids
    <3> SUFFICES ASSUME k > n + i PROVE FALSE
      BY <3>0, <3>1
    <3>2. k - n \in Ids /\ n + (k - n) = k
      BY <1>2, <3>1 DEF Ids
    <3>3. jarLog'[n + (k - n)] = all[k - n]
      BY <1>4, <3>2
    <3>4. k - n = i
      BY <1>3, <3>1, <3>2, <3>3
    <3> QED
      BY <1>2, <3>1, <3>4 DEF Ids
  <2>4. \A k \in Here(i, site)' : k \in Nat /\ (k # n + i => n + i > k)
    <3>1. \A k \in Here(i, site)' : k \in 1..(n + PoolSize)
      BY <1>2, <1>4 DEF Here
    <3>2. n \in Nat /\ i \in Nat
      BY <1>2 DEF Ids
    <3> QED
      BY <1>2, <2>3, <3>1, <3>2
  <2>5. Stands(i, site)' = {}
    BY <2>2, <2>4 DEF Stands
  <2> QED
    BY <2>1, <2>5, EmptyBucket
<1> QED
  BY <1>1, <1>5, <1>7, <1>8 DEF JarsTold

\* As days pass cookies expire, and none comes back.
LEMMA DayPassesKeeps ==
    ASSUME SessionsTyped, JarsTold, DayPasses
    PROVE  SessionsTyped' /\ JarsTold'
<1>1. day' = day + 1 /\ UNCHANGED <<pool, sessions, cursor, inHand, jarLog, turns>> /\ day \in Nat
  BY DEF DayPasses, SessionsTyped
<1>2. SessionsTyped'
  BY <1>1 DEF SessionsTyped, SessionsShaped
<1>3. ASSUME NEW i \in Ids, NEW site \in Sites PROVE BucketTold(i, site)'
  <2>1. InJar(i, site)' = InJar(i, site) /\ Stands(i, site)' = Stands(i, site)
    BY <1>1 DEF InJar, Stands, Here
  <2>2. BucketTold(i, site)
    BY DEF JarsTold
  <2> QED
    BY <1>1, <2>1, <2>2, BucketKept
<1> QED
  BY <1>2, <1>3 DEF JarsTold

-----------------------------------------------------------------------------
\* The remainder of the next number.
LEMMA NextRemainder ==
    ASSUME NEW c \in Nat, NEW P \in Nat \ {0}
    PROVE  c % P \in 0..(P - 1) /\ (c + 1) % P = IF c % P = P - 1 THEN 0 ELSE (c % P) + 1
<1> DEFINE q == c \div P
           r == (c + 1) \div P
           n == c % P
           m == (c + 1) % P
<1>1. n \in 0..(P - 1) /\ m \in 0..(P - 1)
  OBVIOUS
<1>2. q \in Int /\ r \in Int /\ c = P * q + n /\ c + 1 = P * r + m
  OBVIOUS
<1> HIDE DEF q, r, n, m
<1>3. P * (r - q) = n + 1 - m
  BY <1>1, <1>2
<1>4. r - q = 0 \/ r - q = 1
  <2>1. ASSUME r - q >= 2 PROVE FALSE
    BY <2>1, <1>1, <1>2, <1>3
  <2>2. ASSUME r - q <= -1 PROVE FALSE
    BY <2>2, <1>1, <1>2, <1>3
  <2> QED
    BY <2>1, <2>2, <1>2
<1> QED
  BY <1>1, <1>3, <1>4 DEF n, m

\* Where sessions are handed out in turn, the next one had no more turns than any other, and
\* is then the last to come.
LEMMA TurnsInTurn ==
    ASSUME SessionsTyped, InTurn, pool.strategy = "round-robin", pool' = pool, cursor' = cursor + 1,
           turns' = [turns EXCEPT ![1 + (cursor % PoolSize)] = @ + 1]
    PROVE  InTurn'
<1> DEFINE n == cursor % PoolSize
           m == cursor' % PoolSize
           id == 1 + n
<1>1. PoolSize \in Nat \ {0} /\ cursor \in Nat /\ turns \in [Ids -> Nat]
  BY SessionsAssumption DEF SessionsTyped
<1>2. n \in 0..(PoolSize - 1) /\ m = IF n = PoolSize - 1 THEN 0 ELSE n + 1
  BY <1>1, NextRemainder
<1>3. \A i, j \in Ids : (i > n /\ j <= n) \/ ((i > n <=> j > n) /\ i <= j) =>
                           turns[i] <= turns[j] /\ turns[j] <= turns[i] + 1
  BY DEF InTurn, Before
<1> HIDE DEF n, m
<1>4. id \in Ids
  BY <1>1, <1>2 DEF Ids
<1>5. \A i \in Ids : turns'[i] = IF i = id THEN turns[id] + 1 ELSE turns[i]
  BY <1>1, <1>4 DEF n
<1>6. \A i \in Ids : i \in 1..PoolSize /\ turns[i] \in Nat
  BY <1>1 DEF Ids
<1>7. ASSUME NEW i \in Ids, NEW j \in Ids, (i > m /\ j <= m) \/ ((i > m <=> j > m) /\ i <= j)
      PROVE  turns'[i] <= turns'[j] /\ turns'[j] <= turns'[i] + 1
  <2>1. CASE i = j
    BY <1>5, <1>6, <2>1
  <2>2. CASE i # j /\ j = id
    <3>1. turns[id] <= turns[i] /\ turns[i] <= turns[id] + 1
      BY <1>1, <1>2, <1>3, <1>4, <1>6
    <3> QED
      BY <1>4, <1>5, <1>6, <2>2, <3>1
  <2>3. CASE i # j /\ i = id
    BY <1>1, <1>2, <1>6, <1>7, <2>3
  <2>4. CASE i # id /\ j # id
    <3>1. (i > n /\ j <= n) \/ ((i > n <=> j > n) /\ i <= j)
      BY <1>1, <1>2, <1>6, <1>7, <2>4
    <3> QED
      BY <1>3, <1>5, <2>4, <3>1
  <2> QED
    BY <2>1, <2>2, <2>3, <2>4
<1> QED
  BY <1>7 DEF InTurn, Before, m

\* The least used session had no more turns than any other.
LEMMA TurnsByCount ==
    ASSUME SessionsTyped, ByCount, pool.strategy # "round-robin", pool' = pool,
           turns' = [turns EXCEPT ![LeastUsed] = @ + 1],
           pool.recycleAfter = 0 =>
               \A i \in Ids : sessions'[i].useCount = sessions[i].useCount + (IF i = LeastUsed THEN 1 ELSE 0)
    PROVE  ByCount'
<1>1. turns \in [Ids -> Nat] /\ LeastUsed \in Ids
      /\ \A i \in Ids : sessions[LeastUsed].useCount <= sessions[i].useCount
  BY LeastUsedFacts DEF SessionsTyped
<1> DEFINE id == LeastUsed
<1> HIDE DEF id
<1>2. \A i \in Ids : turns'[i] = IF i = id THEN turns[id] + 1 ELSE turns[i]
  BY <1>1 DEF id
<1>3. \A i \in Ids : turns[i] \in Nat
  BY <1>1
<1> QED
  BY <1>1, <1>2, <1>3 DEF ByCount, id

-----------------------------------------------------------------------------
\* The invariant implies the property.
LEMMA SessionsSafety ==
    SessionsIInv => SessionsApart
<1> SUFFICES ASSUME SessionsIInv PROVE SessionsApart
  OBVIOUS
<1>1. SessionsTyped /\ JarsTold /\ InTurn /\ ByCount
  BY DEF SessionsIInv
<1>2. ASSUME NEW id \in Ids, NEW host \in Hosts
      PROVE  LET here == {k \in DOMAIN jarLog : jarLog[k].id = id /\ HostSite[host] \in jarLog[k].sites}
                 newest == {k \in here : /\ ~jarLog[k].emptied /\ Alive(jarLog[k])
                                         /\ \A j \in here : j > k => /\ ~jarLog[j].emptied
                                                                     /\ jarLog[j].line.name # jarLog[k].line.name}
                 sent == Active(id, host)
             IN  /\ {sent[n].value : n \in DOMAIN sent} = newest
                 /\ DOMAIN sent = {jarLog[k].line.name : k \in newest}
  <2> DEFINE here == {k \in DOMAIN jarLog : jarLog[k].id = id /\ HostSite[host] \in jarLog[k].sites}
             newest == {k \in here : /\ ~jarLog[k].emptied /\ Alive(jarLog[k])
                                     /\ \A j \in here : j > k => /\ ~jarLog[j].emptied
                                                                 /\ jarLog[j].line.name # jarLog[k].line.name}
  <2>1. newest = {k \in Stands(id, HostSite[host]) : Alive(jarLog[k])}
    BY DEF Stands, Here
  <2> HIDE DEF newest
  <2>2. LET sent == Active(id, host)
        IN  /\ {sent[n].value : n \in DOMAIN sent} = newest
            /\ DOMAIN sent = {jarLog[k].line.name : k \in newest}
    BY <1>1, <2>1, JarsSend
  <2> QED
    BY <2>2 DEF newest
<1>3. ASSUME pool.strategy = "round-robin" \/ pool.recycleAfter = 0, NEW id \in Ids, NEW i \in Ids
      PROVE  turns[id] <= turns[i] + 1
  <2>1. turns \in [Ids -> Nat]
    BY <1>1 DEF SessionsTyped
  <2>2. CASE pool.strategy = "round-robin"
    <3>1. Before(id, i) \/ Before(i, id)
      <4>1. id \in 1..PoolSize /\ i \in 1..PoolSize /\ PoolSize \in Nat
        BY SessionsAssumption DEF Ids
      <4>2. cursor % PoolSize \in Int
        BY <1>1, SessionsAssumption DEF SessionsTyped
      <4> QED
        BY <4>1, <4>2 DEF Before
    <3> QED
      BY <1>1, <2>1, <2>2, <3>1 DEF InTurn
  <2>3. CASE pool.strategy # "round-robin"
    BY <1>1, <1>3, <2>3 DEF ByCount
  <2> QED
    BY <2>2, <2>3
<1> QED
  BY <1>2, <1>3 DEF SessionsApart

\* At first no jar has a cookie and no session had a turn.
LEMMA SessionsStart ==
    SessionsInit => SessionsIInv
<1> SUFFICES ASSUME SessionsInit PROVE SessionsIInv
  OBVIOUS
<1>1. /\ sessions = [id \in Ids |-> [jar |-> <<>>, useCount |-> 0]] /\ cursor = 0
      /\ day = 1 /\ jarLog = <<>> /\ turns = [id \in Ids |-> 0]
  BY DEF SessionsInit, Fresh
<1>2. \A id \in Ids : sessions[id] = [jar |-> <<>>, useCount |-> 0] /\ turns[id] = 0
  BY <1>1
<1>3. SessionsTyped
  <2>1. turns \in [Ids -> Nat] /\ jarLog \in Seq(LogEntries)
    BY <1>1
  <2> QED
    BY <1>1, <1>2, <2>1 DEF SessionsTyped, SessionsShaped
<1>4. ASSUME NEW i \in Ids, NEW site \in Sites PROVE BucketTold(i, site)
  <2>1. DOMAIN <<>> = {}
    OBVIOUS
  <2>2. InJar(i, site) = <<>>
    BY <1>2, <2>1 DEF InJar
  <2>3. Stands(i, site) = {}
    BY <1>1, <2>1 DEF Stands, Here
  <2> QED
    BY <2>1, <2>2, <2>3 DEF BucketTold
<1> QED
  BY <1>2, <1>3, <1>4 DEF SessionsIInv, JarsTold, InTurn, ByCount

\* The turns stay even when nobody is handed a session.
LEMMA TurnsStay ==
    ASSUME InTurn, ByCount, UNCHANGED <<pool, cursor, turns>>,
           \A i \in Ids : sessions'[i].useCount = sessions[i].useCount
    PROVE  InTurn' /\ ByCount'
BY DEF InTurn, ByCount, Before

\* Every step keeps the invariant.
LEMMA SessionsStep ==
    ASSUME SessionsIInv, [SessionsNext]_sessionVars
    PROVE  SessionsIInv'
<1>1. SessionsTyped /\ JarsTold /\ InTurn /\ ByCount
  BY DEF SessionsIInv
<1>2. ASSUME NEW u \in Users, NextSession(u) PROVE SessionsIInv'
  <2>1. /\ SessionsTyped' /\ JarsTold'
        /\ pool' = pool
        /\ IF pool.strategy = "round-robin"
           THEN /\ cursor' = cursor + 1
                /\ turns' = [turns EXCEPT ![1 + (cursor % PoolSize)] = @ + 1]
           ELSE /\ cursor' = cursor
                /\ turns' = [turns EXCEPT ![LeastUsed] = @ + 1]
                /\ pool.recycleAfter = 0 =>
                      \A i \in Ids : sessions'[i].useCount =
                          sessions[i].useCount + (IF i = LeastUsed THEN 1 ELSE 0)
    BY <1>1, <1>2, NextSessionKeeps
  <2>2. CASE pool.strategy = "round-robin"
    <3>1. InTurn'
      BY <1>1, <2>1, <2>2, TurnsInTurn
    <3>2. ByCount'
      BY <2>1, <2>2 DEF ByCount
    <3> QED
      BY <2>1, <3>1, <3>2 DEF SessionsIInv
  <2>3. CASE pool.strategy # "round-robin"
    <3>1. InTurn'
      BY <2>1, <2>3 DEF InTurn
    <3>2. ByCount'
      BY <1>1, <2>1, <2>3, TurnsByCount
    <3> QED
      BY <2>1, <3>1, <3>2 DEF SessionsIInv
  <2> QED
    BY <2>2, <2>3
<1>3. ASSUME NEW id \in Ids, NEW host \in Hosts, Request(id, host) PROVE SessionsIInv'
  <2>1. UNCHANGED <<pool, cursor, turns>>
    BY <1>3 DEF Request
  <2> QED
    BY <1>1, <1>3, <2>1, RequestKeeps, TurnsStay DEF SessionsIInv
<1>4. ASSUME NEW id \in Ids, NEW host \in Hosts, NEW line \in CookieLines, Answer(id, host, line)
      PROVE  SessionsIInv'
  <2>1. UNCHANGED <<pool, cursor, turns>>
    BY <1>4 DEF Answer
  <2> QED
    BY <1>1, <1>4, <2>1, AnswerKeeps, TurnsStay DEF SessionsIInv
<1>5. ASSUME NEW id \in Ids, NEW host \in Hosts, ClearJar(id, host) PROVE SessionsIInv'
  <2>1. UNCHANGED <<pool, cursor, turns>>
    BY <1>5 DEF ClearJar
  <2> QED
    BY <1>1, <1>5, <2>1, ClearJarKeeps, TurnsStay DEF SessionsIInv
<1>6. ASSUME ResetAll PROVE SessionsIInv'
  <2>1. SessionsTyped' /\ JarsTold' /\ \A i \in Ids : turns'[i] = 0 /\ sessions'[i].useCount = 0
    BY <1>1, <1>6, ResetAllKeeps
  <2>2. InTurn' /\ ByCount'
    BY <2>1 DEF InTurn, ByCount
  <2> QED
    BY <2>1, <2>2 DEF SessionsIInv
<1>7. ASSUME DayPasses PROVE SessionsIInv'
  <2>1. UNCHANGED <<pool, cursor, turns, sessions>>
    BY <1>7 DEF DayPasses
  <2> QED
    BY <1>1, <1>7, <2>1, DayPassesKeeps, TurnsStay DEF SessionsIInv
<1>8. CASE UNCHANGED sessionVars
  <2>1. UNCHANGED <<pool, sessions, cursor, inHand, day, jarLog, turns>>
    BY <1>8 DEF sessionVars
  <2>2. SessionsTyped'
    BY <1>1, <2>1 DEF SessionsTyped, SessionsShaped
  <2>3. \A i \in Ids, site \in Sites : BucketTold(i, site)' <=> BucketTold(i, site)
    BY <2>1 DEF BucketTold, InJar, Stands, Here, Alive
  <2>4. JarsTold'
    BY <1>1, <2>3 DEF JarsTold
  <2> QED
    BY <1>1, <2>1, <2>2, <2>4, TurnsStay DEF SessionsIInv
<1> QED
  BY <1>2, <1>3, <1>4, <1>5, <1>6, <1>7, <1>8 DEF SessionsNext

\* Requests bear the cookies that stand in their session for their site and no others, and
\* sessions take turns evenly, in every state of a pool.
THEOREM SessionsStayApart ==
    SessionsInit /\ [][SessionsNext]_sessionVars => []SessionsApart
<1>1. SessionsInit => SessionsIInv
  BY SessionsStart
<1>2. SessionsIInv /\ [SessionsNext]_sessionVars => SessionsIInv'
  BY SessionsStep
<1>3. SessionsIInv => SessionsApart
  BY SessionsSafety
<1> QED
  BY <1>1, <1>2, <1>3, PTL

-----------------------------------------------------------------------------
(* Snapshots.                                                              *)

SnapTyped ==
    /\ page \in Nat \ {0}
    /\ entry \in [etag: Nat, extracted: Nat \union {NoData}]
    /\ call \in [Calls -> [place: {"idle", "asking", "fetched", "unchanged", "extracting", "blank", "failed", "done"},
                           etag: Nat, got: Nat, data: Nat \union {NoData, Blank}, since: Nat]]

\* What call c knows at its place: an answer is no older than the question; a 304 says that the
\* page is at the version of the validator, which, if nobody recorded meanwhile, is that of
\* the entry.
CallKnows(c) ==
    /\ call[c].place = "idle" => c \notin meddled /\ call[c].since = 0
    /\ call[c].since <= page
    /\ c \notin meddled /\ call[c].place \in {"asking", "unchanged"} => call[c].etag = entry.etag
    /\ call[c].place \in {"fetched", "extracting", "unchanged"} => call[c].got >= call[c].since
    /\ call[c].place \in {"unchanged", "blank"} => call[c].etag = call[c].got
    /\ c \notin meddled /\ call[c].place = "done" =>
          \/ call[c].data = call[c].got /\ call[c].got >= call[c].since
          \/ call[c].data = Blank /\ call[c].etag = call[c].got

SnapIInv ==
    /\ SnapTyped
    /\ entry.extracted \in {NoData, entry.etag}
    /\ \A c \in Calls : CallKnows(c)

\* Recording a version, with its data or without, keeps what the other calls know.
LEMMA RecordedKeeps ==
    ASSUME SnapIInv, NEW c \in Calls, NEW version \in Nat, NEW data \in {NoData, version},
           Records(c, version, data), UNCHANGED page, NEW d \in Calls, d # c, call'[d] = call[d]
    PROVE  CallKnows(d)'
<1>1. CallKnows(d)
  BY DEF SnapIInv
<1>2. call[d].place # "idle" => d \in meddled'
  BY DEF Records
<1>3. call[d].place = "idle" => (d \in meddled' <=> d \in meddled)
  BY DEF Records
<1> QED
  BY <1>1, <1>2, <1>3 DEF CallKnows

\* A step of a call that records nothing leaves the others alone.
LEMMA MovesKeep ==
    ASSUME SnapIInv, NEW c \in Calls, UNCHANGED <<page, entry, meddled>>,
           NEW d \in Calls, d # c, call'[d] = call[d]
    PROVE  CallKnows(d)'
BY DEF SnapIInv, CallKnows

\* Every step of a call keeps the invariant.
LEMMA SnapStepKeeps == ASSUME SnapIInv, NEW c \in Calls, SnapStep(c) PROVE SnapIInv'
<1> USE SnapshotsAssumption
<1> DEFINE Knows == [place: {"idle", "asking", "fetched", "unchanged", "extracting", "blank", "failed", "done"},
                     etag: Nat, got: Nat, data: Nat \union {NoData, Blank}, since: Nat]
<1>1. SnapTyped /\ CallKnows(c) /\ entry.extracted \in {NoData, entry.etag}
  BY DEF SnapIInv
<1>2. call[c] \in Knows /\ entry.etag \in Nat /\ page \in Nat \ {0}
  BY <1>1 DEF SnapTyped
<1>3. ASSUME NEW k \in Knows, Moves(c, k), UNCHANGED <<page, entry, meddled>>, CallKnows(c)'
      PROVE  SnapIInv'
  <2>1. call'[c] = k /\ \A d \in Calls \ {c} : call'[d] = call[d]
    BY <1>1, <1>3 DEF SnapTyped, Moves
  <2>2. \A d \in Calls : CallKnows(d)'
    BY <1>3, <2>1, MovesKeep
  <2>3. SnapTyped'
    BY <1>1, <1>3 DEF SnapTyped, Moves
  <2> QED
    BY <1>1, <1>3, <2>2, <2>3 DEF SnapIInv
<1>4. ASSUME NEW k \in Knows, Moves(c, k), NEW version \in Nat, NEW data \in {NoData, version},
             Records(c, version, data), UNCHANGED page, CallKnows(c)'
      PROVE  SnapIInv'
  <2>1. call'[c] = k /\ \A d \in Calls \ {c} : call'[d] = call[d]
    BY <1>1, <1>4 DEF SnapTyped, Moves
  <2>2. \A d \in Calls : CallKnows(d)'
    BY <1>4, <2>1, RecordedKeeps
  <2>3. SnapTyped' /\ entry'.extracted \in {NoData, entry'.etag}
    BY <1>1, <1>4 DEF SnapTyped, Moves, Records
  <2> QED
    BY <2>2, <2>3 DEF SnapIInv
<1>5. CASE Asks(c)
  <2> DEFINE k == [call[c] EXCEPT !.place = "asking", !.etag = entry.etag, !.since = page]
  <2>1. k \in Knows /\ k.place = "asking" /\ k.etag = entry.etag /\ k.since = page
    BY <1>2
  <2>2. Moves(c, k) /\ UNCHANGED <<page, entry, meddled>>
    BY <1>5 DEF Asks
  <2> HIDE DEF k
  <2>3. call'[c] = k
    BY <1>1, <2>2 DEF SnapTyped, Moves
  <2>4. CallKnows(c)'
    BY <1>2, <2>1, <2>2, <2>3 DEF CallKnows
  <2> QED
    BY <1>3, <2>1, <2>2, <2>4
<1>6. CASE Answered(c)
  <2> DEFINE k == [call[c] EXCEPT !.place = IF page = call[c].etag THEN "unchanged" ELSE "fetched", !.got = page]
  <2>1. /\ k \in Knows /\ k.etag = call[c].etag /\ k.since = call[c].since /\ k.got = page
        /\ k.place = IF page = call[c].etag THEN "unchanged" ELSE "fetched"
    BY <1>2
  <2>2. Moves(c, k) /\ UNCHANGED <<page, entry, meddled>> /\ call[c].place = "asking"
    BY <1>6 DEF Answered
  <2> HIDE DEF k
  <2>3. call'[c] = k
    BY <1>1, <2>2 DEF SnapTyped, Moves
  <2>4. CallKnows(c)'
    BY <1>1, <1>2, <2>1, <2>2, <2>3 DEF CallKnows
  <2> QED
    BY <1>3, <2>1, <2>2, <2>4
<1>7. CASE RecordsFetch(c)
  <2> DEFINE k == [call[c] EXCEPT !.place = "extracting"]
  <2>1. /\ k \in Knows /\ k.etag = call[c].etag /\ k.since = call[c].since /\ k.got = call[c].got
        /\ k.place = "extracting"
    BY <1>2
  <2>2. Moves(c, k) /\ Records(c, call[c].got, NoData) /\ UNCHANGED page /\ call[c].place = "fetched"
    BY <1>7 DEF RecordsFetch
  <2> HIDE DEF k
  <2>3. call'[c] = k
    BY <1>1, <2>2 DEF SnapTyped, Moves
  <2>4. CallKnows(c)'
    BY <1>1, <1>2, <2>1, <2>2, <2>3 DEF CallKnows
  <2> QED
    BY <1>2, <1>4, <2>1, <2>2, <2>4
<1>8. CASE ExtractThrows(c)
  <2> DEFINE k == [call[c] EXCEPT !.place = "failed"]
  <2>1. k \in Knows /\ k.since = call[c].since /\ k.place = "failed"
    BY <1>2
  <2>2. Moves(c, k) /\ UNCHANGED <<page, entry, meddled>>
    BY <1>8 DEF ExtractThrows
  <2> HIDE DEF k
  <2>3. call'[c] = k
    BY <1>1, <2>2 DEF SnapTyped, Moves
  <2>4. CallKnows(c)'
    BY <1>1, <1>2, <2>1, <2>2, <2>3 DEF CallKnows
  <2> QED
    BY <1>3, <2>1, <2>2, <2>4
<1>9. CASE RecordsExtract(c)
  <2> DEFINE k == [call[c] EXCEPT !.place = "done", !.data = call[c].got]
  <2>1. /\ k \in Knows /\ k.since = call[c].since /\ k.got = call[c].got
        /\ k.place = "done" /\ k.data = call[c].got
    BY <1>2
  <2>2. /\ Moves(c, k) /\ Records(c, call[c].got, call[c].got) /\ UNCHANGED page
        /\ call[c].place = "extracting"
    BY <1>9 DEF RecordsExtract
  <2> HIDE DEF k
  <2>3. call'[c] = k
    BY <1>1, <2>2 DEF SnapTyped, Moves
  <2>4. CallKnows(c)'
    BY <1>1, <1>2, <2>1, <2>2, <2>3 DEF CallKnows
  <2> QED
    BY <1>2, <1>4, <2>1, <2>2, <2>4
<1>10. CASE AnswersSnapshot(c) /\ entry.extracted # NoData
  <2> DEFINE k == [call[c] EXCEPT !.place = "done", !.data = entry.extracted]
  <2>1. /\ k \in Knows /\ k.since = call[c].since /\ k.got = call[c].got /\ k.etag = call[c].etag
        /\ k.place = "done" /\ k.data = entry.etag
    BY <1>1, <1>2, <1>10
  <2>2. Moves(c, k) /\ UNCHANGED <<page, entry, meddled>> /\ call[c].place = "unchanged"
    BY <1>10 DEF AnswersSnapshot
  <2> HIDE DEF k
  <2>3. call'[c] = k
    BY <1>1, <2>2 DEF SnapTyped, Moves
  <2>4. CallKnows(c)'
    BY <1>1, <1>2, <2>1, <2>2, <2>3 DEF CallKnows
  <2> QED
    BY <1>3, <2>1, <2>2, <2>4
<1>11. CASE AnswersSnapshot(c) /\ entry.extracted = NoData
  <2> DEFINE k == [call[c] EXCEPT !.place = "blank"]
  <2>1. /\ k \in Knows /\ k.since = call[c].since /\ k.got = call[c].got /\ k.etag = call[c].etag
        /\ k.place = "blank"
    BY <1>2
  <2>2. Moves(c, k) /\ UNCHANGED <<page, entry, meddled>> /\ call[c].place = "unchanged"
    BY <1>11 DEF AnswersSnapshot
  <2> HIDE DEF k
  <2>3. call'[c] = k
    BY <1>1, <2>2 DEF SnapTyped, Moves
  <2>4. CallKnows(c)'
    BY <1>1, <1>2, <2>1, <2>2, <2>3 DEF CallKnows
  <2> QED
    BY <1>3, <2>1, <2>2, <2>4
<1>12. CASE AnswersBlank(c)
  <2> DEFINE k == [call[c] EXCEPT !.place = "done", !.data = Blank]
  <2>1. /\ k \in Knows /\ k.since = call[c].since /\ k.got = call[c].got /\ k.etag = call[c].etag
        /\ k.place = "done" /\ k.data = Blank
    BY <1>2
  <2>2. Moves(c, k) /\ UNCHANGED <<page, entry, meddled>> /\ call[c].place = "blank"
    BY <1>12 DEF AnswersBlank
  <2> HIDE DEF k
  <2>3. call'[c] = k
    BY <1>1, <2>2 DEF SnapTyped, Moves
  <2>4. CallKnows(c)'
    BY <1>1, <1>2, <2>1, <2>2, <2>3 DEF CallKnows
  <2> QED
    BY <1>3, <2>1, <2>2, <2>4
<1> QED
  BY <1>5, <1>6, <1>7, <1>8, <1>9, <1>10, <1>11, <1>12 DEF SnapStep

\* What is recorded, and what a call is answered with, is vouched for, for any number of calls
\* and versions.
THEOREM SnapshotsAlwaysVouch ==
    SnapInit /\ [][SnapNext]_snapVars => []SnapshotsVouch
<1>1. SnapInit => SnapIInv
  BY SnapshotsAssumption DEF SnapInit, SnapIInv, SnapTyped, CallKnows, Idle
<1>2. SnapIInv /\ [SnapNext]_snapVars => SnapIInv'
  <2> SUFFICES ASSUME SnapIInv, [SnapNext]_snapVars PROVE SnapIInv'
    OBVIOUS
  <2>1. CASE PageChanges
    BY <2>1 DEF PageChanges, SnapIInv, SnapTyped, CallKnows
  <2>2. CASE ReadOtherwise
    BY <2>2 DEF ReadOtherwise, SnapIInv, SnapTyped, CallKnows
  <2>3. CASE UNCHANGED snapVars
    BY <2>3 DEF snapVars, SnapIInv, SnapTyped, CallKnows
  <2> QED
    BY <2>1, <2>2, <2>3, SnapStepKeeps DEF SnapNext
<1>3. SnapIInv => SnapshotsVouch
  BY DEF SnapIInv, SnapshotsVouch, CallKnows
<1> QED
  BY <1>1, <1>2, <1>3, PTL

-----------------------------------------------------------------------------
(* Webhook.                                                                *)

DeliveryPlaces == {"unfired", "skipped", "posting", "received", "waiting", "over"}
Verdicts == [event: Events, delivered: BOOLEAN, attempts: Nat]

Outcomes(e) == {k \in DOMAIN results : results[k].event = e}

WebhookTyped ==
    /\ deliveries \in [Events -> [at: DeliveryPlaces, attempt: Nat]]
    /\ results \in Seq(Verdicts)
    /\ arrivals \in [Events -> Nat]

\* A delivery that is over has one result, and which.
OverWith(e, k) ==
    /\ Outcomes(e) = {k}
    /\ results[k].attempts = deliveries[e].attempt + 1
    /\ results[k].delivered => arrivals[e] > 0
    /\ ~results[k].delivered => results[k].attempts = Retries + 1

\* What the place of a delivery says: how often it can have arrived by now, and that it has a
\* result when it is over.
DeliveryTold(e) ==
    LET d == deliveries[e]
    IN  /\ arrivals[e] <= d.attempt + 1 /\ d.attempt <= Retries
        /\ d.at \in {"unfired", "skipped"} => arrivals[e] = 0 /\ d.attempt = 0
        /\ d.at = "posting" => arrivals[e] <= d.attempt
        /\ d.at = "received" => arrivals[e] > 0
        /\ d.at = "waiting" => d.attempt < Retries
        /\ d.at # "over" => Outcomes(e) = {}
        /\ d.at = "over" => \E k \in DOMAIN results : OverWith(e, k)

WebhookIInv == WebhookTyped /\ \A e \in Events : DeliveryTold(e)

\* A delivery that goes from one place to another leaves the others where they are, and what is
\* told of them.
LEMMA GoingKeepsOthers ==
    ASSUME WebhookIInv, NEW e \in Events,
           NEW place \in DeliveryPlaces, NEW n \in Nat, GoesTo(e, place, n),
           NEW d \in Events, d # e, arrivals'[d] = arrivals[d],
           \/ UNCHANGED results
           \/ \E r \in Verdicts : r.event = e /\ results' = Append(results, r)
    PROVE  DeliveryTold(d)'
<1> USE WebhookAssumption
<1>1. DeliveryTold(d) /\ deliveries'[d] = deliveries[d]
  BY DEF WebhookIInv, WebhookTyped, GoesTo
<1>2. /\ Outcomes(d)' = Outcomes(d)
      /\ \A k \in Outcomes(d) : k \in DOMAIN results' /\ results'[k] = results[k]
  <2>1. CASE UNCHANGED results
    BY <2>1 DEF Outcomes
  <2>2. CASE \E r \in Verdicts : r.event = e /\ results' = Append(results, r)
    <3>1. PICK r \in Verdicts : r.event = e /\ results' = Append(results, r)
      BY <2>2
    <3>2. results \in Seq(Verdicts)
      BY DEF WebhookIInv, WebhookTyped
    <3>3. /\ Len(results) \in Nat /\ DOMAIN results = 1..Len(results) /\ DOMAIN results' = 1..Len(results) + 1
          /\ results'[Len(results) + 1] = r /\ \A k \in 1..Len(results) : results'[k] = results[k]
      BY <3>1, <3>2
    <3>4. r.event = e
      BY <3>1
    <3>5. \A k \in DOMAIN results : k \in DOMAIN results' /\ results'[k] = results[k]
      BY <3>3
    <3>6. \A k \in DOMAIN results' : k \in DOMAIN results \/ results'[k].event # d
      BY <3>3, <3>4
    <3> HIDE DEF WebhookIInv
    <3> QED
      BY <3>5, <3>6 DEF Outcomes
  <2> QED
    BY <2>1, <2>2
<1>3. \A k : OverWith(d, k) => OverWith(d, k)'
  <2> SUFFICES ASSUME NEW k, OverWith(d, k) PROVE OverWith(d, k)'
    OBVIOUS
  <2>1. k \in Outcomes(d) /\ results'[k] = results[k]
    BY <1>2 DEF OverWith
  <2> QED
    BY <1>1, <1>2, <2>1 DEF OverWith
<1>4. \A k \in DOMAIN results : OverWith(d, k) => k \in DOMAIN results'
  BY <1>2 DEF OverWith
<1> QED
  BY <1>1, <1>2, <1>3, <1>4 DEF DeliveryTold

\* A result that is the first of a delivery is the only one.
LEMMA OneResult ==
    ASSUME WebhookIInv, NEW e \in Events, Outcomes(e) = {},
           NEW r \in Verdicts, r.event = e, results' = Append(results, r)
    PROVE  /\ results' \in Seq(Verdicts)
           /\ Len(results) + 1 \in DOMAIN results' /\ results'[Len(results) + 1] = r
           /\ Outcomes(e)' = {Len(results) + 1}
<1>1. results \in Seq(Verdicts)
  BY DEF WebhookIInv, WebhookTyped
<1>2. results' \in Seq(Verdicts)
  BY <1>1
<1>3. /\ Len(results) \in Nat /\ DOMAIN results = 1..Len(results) /\ DOMAIN results' = 1..Len(results) + 1
      /\ results'[Len(results) + 1] = r /\ \A k \in 1..Len(results) : results'[k] = results[k]
  BY <1>1
<1> QED
  BY <1>2, <1>3 DEF Outcomes

\* Every step of a delivery keeps the invariant.
LEMMA DeliveryKeeps == ASSUME WebhookIInv, NEW e \in Events, Fires(e) \/ DeliveryStep(e) PROVE WebhookIInv'
<1> USE WebhookAssumption
<1> DEFINE d == deliveries[e]
<1>1. /\ WebhookTyped /\ DeliveryTold(e) /\ arrivals[e] \in Nat
      /\ d.attempt \in Nat /\ d.at \in DeliveryPlaces
  BY DEF WebhookIInv, WebhookTyped
<1>2. ASSUME NEW place \in DeliveryPlaces, NEW n \in Nat, GoesTo(e, place, n), results' \in Seq(Verdicts),
             arrivals' \in [Events -> Nat], \A f \in Events \ {e} : arrivals'[f] = arrivals[f],
             \/ UNCHANGED results
             \/ \E r \in Verdicts : r.event = e /\ results' = Append(results, r),
             DeliveryTold(e)'
      PROVE  WebhookIInv'
  <2>1. \A f \in Events \ {e} : DeliveryTold(f)'
    BY <1>2, GoingKeepsOthers
  <2>2. WebhookTyped'
    BY <1>1, <1>2 DEF WebhookTyped, GoesTo
  <2> QED
    BY <1>2, <2>1, <2>2 DEF WebhookIInv
<1>3. ASSUME NEW place \in DeliveryPlaces, NEW n \in Nat, GoesTo(e, place, n)
      PROVE  deliveries'[e].at = place /\ deliveries'[e].attempt = n
  BY <1>1, <1>3 DEF WebhookTyped, GoesTo
<1>4. results \in Seq(Verdicts) /\ arrivals \in [Events -> Nat]
  BY <1>1 DEF WebhookTyped
<1> USE DEF DeliveryPlaces
<1>5. UNCHANGED results => Outcomes(e)' = Outcomes(e)
  BY DEF Outcomes
<1>6. CASE Fires(e)
  <2> DEFINE place == IF e \in Configured THEN "posting" ELSE "skipped"
  <2>1. place \in {"posting", "skipped"} /\ GoesTo(e, place, 0)
    BY <1>6 DEF Fires
  <2>2. d.at = "unfired" /\ UNCHANGED <<results, arrivals>>
    BY <1>6 DEF Fires
  <2> HIDE DEF place
  <2>3. deliveries'[e].at = place /\ deliveries'[e].attempt = 0
    BY <1>3, <2>1
  <2>4. DeliveryTold(e)'
    BY <1>1, <1>5, <2>1, <2>2, <2>3 DEF DeliveryTold
  <2> QED
    BY <1>2, <1>4, <2>1, <2>2, <2>4
<1>7. CASE Arrives(e)
  <2>1. /\ d.at = "posting" /\ GoesTo(e, "received", d.attempt) /\ UNCHANGED results
        /\ arrivals' = [arrivals EXCEPT ![e] = arrivals[e] + 1]
    BY <1>7 DEF Arrives
  <2>2. deliveries'[e].at = "received" /\ deliveries'[e].attempt = d.attempt
    BY <1>1, <1>3, <2>1
  <2>3. /\ arrivals' \in [Events -> Nat] /\ arrivals'[e] = arrivals[e] + 1
        /\ \A f \in Events \ {e} : arrivals'[f] = arrivals[f]
    BY <1>4, <2>1
  <2>4. DeliveryTold(e)'
    BY <1>1, <1>5, <2>1, <2>2, <2>3 DEF DeliveryTold
  <2> QED
    BY <1>1, <1>2, <1>4, <2>1, <2>3, <2>4
<1>8. ASSUME NEW r \in Verdicts, r.event = e, r.attempts = d.attempt + 1,
             r.delivered => d.at = "received", ~r.delivered => d.attempt = Retries,
             d.at \in {"posting", "received"}, GoesTo(e, "over", d.attempt), UNCHANGED arrivals,
             results' = Append(results, r)
      PROVE  WebhookIInv'
  <2>1. Outcomes(e) = {}
    BY <1>1, <1>8 DEF DeliveryTold
  <2>2. /\ results' \in Seq(Verdicts) /\ Len(results) + 1 \in DOMAIN results'
        /\ results'[Len(results) + 1] = r /\ Outcomes(e)' = {Len(results) + 1}
    BY <1>8, <2>1, OneResult
  <2>3. deliveries'[e].at = "over" /\ deliveries'[e].attempt = d.attempt
    BY <1>1, <1>3, <1>8
  <2>4. d.attempt <= Retries /\ arrivals[e] <= d.attempt + 1 /\ (d.at = "received" => arrivals[e] > 0)
    BY <1>1 DEF DeliveryTold
  <2>5. DeliveryTold(e)'
    <3>1. PICK k \in DOMAIN results' : Outcomes(e)' = {k} /\ results'[k] = r
      BY <2>2
    <3>2. r.delivered => arrivals'[e] > 0
      BY <1>8, <2>4
    <3>3. ~r.delivered => r.attempts = Retries + 1
      BY <1>8
    <3>4. OverWith(e, k)'
      BY <1>8, <2>3, <3>1, <3>2, <3>3 DEF OverWith
    <3>5. arrivals'[e] <= deliveries'[e].attempt + 1 /\ deliveries'[e].attempt <= Retries
      BY <1>8, <2>3, <2>4
    <3> QED
      BY <2>3, <3>4, <3>5 DEF DeliveryTold
  <2> QED
    BY <1>1, <1>2, <1>4, <1>8, <2>2, <2>5
<1>9. CASE Accepted(e)
  <2> DEFINE r == [event |-> e, delivered |-> TRUE, attempts |-> d.attempt + 1]
  <2>1. d.at = "received" /\ GoesTo(e, "over", d.attempt) /\ UNCHANGED arrivals /\ results' = Append(results, r)
    BY <1>9 DEF Accepted
  <2>2. r \in Verdicts /\ r.event = e /\ r.delivered /\ r.attempts = d.attempt + 1
    BY <1>1 DEF Verdicts
  <2> HIDE DEF r
  <2> QED
    BY <1>1, <1>8, <2>1, <2>2
<1>10. CASE Refused(e) /\ d.attempt < Retries
  <2>1. /\ d.at \in {"posting", "received"} /\ GoesTo(e, "waiting", d.attempt)
        /\ UNCHANGED <<results, arrivals>>
    BY <1>10 DEF Refused
  <2>2. deliveries'[e].at = "waiting" /\ deliveries'[e].attempt = d.attempt
    BY <1>1, <1>3, <2>1
  <2>3. DeliveryTold(e)'
    BY <1>1, <1>5, <1>10, <2>1, <2>2 DEF DeliveryTold
  <2> QED
    BY <1>1, <1>2, <1>4, <2>1, <2>3
<1>11. CASE Refused(e) /\ ~(d.attempt < Retries)
  <2> DEFINE r == [event |-> e, delivered |-> FALSE, attempts |-> Retries + 1]
  <2>1. /\ d.at \in {"posting", "received"} /\ GoesTo(e, "over", d.attempt) /\ UNCHANGED arrivals
        /\ results' = Append(results, r)
    BY <1>11 DEF Refused
  <2>2. d.attempt = Retries
    BY <1>1, <1>11 DEF DeliveryTold
  <2>3. r \in Verdicts /\ r.event = e /\ ~r.delivered /\ r.attempts = d.attempt + 1
    BY <2>2 DEF Verdicts
  <2> HIDE DEF r
  <2> QED
    BY <1>1, <1>8, <2>1, <2>2, <2>3
<1>12. CASE PostsAgain(e)
  <2>1. d.at = "waiting" /\ GoesTo(e, "posting", d.attempt + 1) /\ UNCHANGED <<results, arrivals>>
    BY <1>12 DEF PostsAgain
  <2>2. d.attempt + 1 \in Nat /\ d.attempt < Retries
    BY <1>1, <2>1 DEF DeliveryTold
  <2>3. deliveries'[e].at = "posting" /\ deliveries'[e].attempt = d.attempt + 1
    BY <1>3, <2>1, <2>2
  <2>4. DeliveryTold(e)'
    BY <1>1, <1>5, <2>1, <2>2, <2>3 DEF DeliveryTold
  <2> QED
    BY <1>2, <1>4, <2>1, <2>2, <2>4
<1> QED
  BY <1>6, <1>7, <1>9, <1>10, <1>11, <1>12 DEF DeliveryStep

\* What the results tell of deliveries is so, for any number of events and retries.
THEOREM DeliveriesAlwaysTold ==
    WebhookInit /\ [][WebhookNext]_webhookVars => []DeliveriesTold
<1>1. WebhookInit => WebhookIInv
  <2> SUFFICES ASSUME WebhookInit PROVE WebhookIInv
    OBVIOUS
  <2>1. WebhookTyped
    BY WebhookAssumption DEF WebhookInit, WebhookTyped, DeliveryPlaces
  <2>2. \A e \in Events : Outcomes(e) = {}
    BY DEF WebhookInit, Outcomes
  <2>3. \A e \in Events : deliveries[e].at = "unfired" /\ deliveries[e].attempt = 0 /\ arrivals[e] = 0
    BY DEF WebhookInit
  <2>4. ASSUME NEW e \in Events PROVE DeliveryTold(e)
    <3>1. /\ deliveries[e].at = "unfired" /\ deliveries[e].attempt = 0 /\ arrivals[e] = 0
          /\ Outcomes(e) = {}
      BY <2>2, <2>3
    <3>2. 0 <= 0 + 1 /\ 0 <= Retries
      BY WebhookAssumption
    <3> QED
      BY <3>1, <3>2 DEF DeliveryTold
  <2> QED
    BY <2>1, <2>4 DEF WebhookIInv
<1>2. WebhookIInv /\ [WebhookNext]_webhookVars => WebhookIInv'
  <2> SUFFICES ASSUME WebhookIInv, [WebhookNext]_webhookVars PROVE WebhookIInv'
    OBVIOUS
  <2>1. CASE UNCHANGED webhookVars
    BY <2>1 DEF webhookVars, WebhookIInv, WebhookTyped, DeliveryTold, OverWith, Outcomes
  <2> QED
    BY <2>1, DeliveryKeeps DEF WebhookNext
<1>3. WebhookIInv => DeliveriesTold
  <2> SUFFICES ASSUME WebhookIInv, NEW e \in Configured
               PROVE  /\ Cardinality(Outcomes(e)) = (IF deliveries[e].at = "over" THEN 1 ELSE 0)
                      /\ arrivals[e] <= deliveries[e].attempt + 1
                      /\ \A k \in Outcomes(e) :
                            /\ results[k].attempts = deliveries[e].attempt + 1 /\ results[k].attempts <= Retries + 1
                            /\ results[k].delivered => arrivals[e] > 0
                            /\ ~results[k].delivered => results[k].attempts = Retries + 1
    BY DEF DeliveriesTold, Outcomes
  <2>1. e \in Events /\ DeliveryTold(e) /\ deliveries[e].attempt \in Nat /\ Retries \in Nat
    BY WebhookAssumption DEF WebhookIInv, WebhookTyped
  <2>2. CASE deliveries[e].at = "over"
    <3>1. PICK k \in DOMAIN results : OverWith(e, k)
      BY <2>1, <2>2 DEF DeliveryTold
    <3>2. Cardinality(Outcomes(e)) = 1
      BY <3>1, FS_Singleton DEF OverWith
    <3> QED
      BY <2>1, <2>2, <3>1, <3>2 DEF DeliveryTold, OverWith
  <2>3. CASE deliveries[e].at # "over"
    BY <2>1, <2>3, FS_EmptySet DEF DeliveryTold
  <2> QED
    BY <2>2, <2>3
<1> QED
  BY <1>1, <1>2, <1>3, PTL

-----------------------------------------------------------------------------
(* Watch: what is told of the data of a page.                              *)

\* From one structure and what is said to have changed follows the next, and no change is said
\* where there is none; for objects.
LEMMA ObjectChangesTell ==
    ASSUME NEW prev, NEW curr, prev.kind = "object", curr.kind = "object"
    PROVE  /\ After(StructOf(prev), ObjectChanges(prev, curr)) = StructOf(curr)
           /\ ObjectChanges(prev, curr) = {} => StructOf(prev) = StructOf(curr)
           /\ prev = curr => ObjectChanges(prev, curr) = {}
<1> DEFINE pk == DOMAIN prev.of
           ck == DOMAIN curr.of
           pn == {k \in DOMAIN prev.of : prev.of[k] = Null}
           cn == {k \in DOMAIN curr.of : curr.of[k] = Null}
           said(type, fields, severity) ==
               IF fields = {} THEN {} ELSE {[type |-> type, fields |-> fields, severity |-> severity]}
           added == said("keys_added", ck \ pk, "info")
           removed == said("keys_removed", pk \ ck, "critical")
           nulled == said("fields_became_null", cn \ pn, "warn")
           recovered == said("fields_recovered", pn \ cn, "info")
           values == {[type |-> "value_changed", field |-> k, to |-> curr.of[k], severity |-> "info"] :
                         k \in {k \in pk \intersect ck : prev.of[k] # curr.of[k]}}
           all == ObjectChanges(prev, curr)
<1>1. /\ StructOf(prev) = [kind |-> "object", keys |-> pk, nullFields |-> pn]
      /\ StructOf(curr) = [kind |-> "object", keys |-> ck, nullFields |-> cn]
  BY DEF StructOf
<1>2. all = (((added \union removed) \union nulled) \union recovered) \union values
  BY <1>1 DEF ObjectChanges
<1>3. \A type, fields, severity : \A c \in said(type, fields, severity) : c.type = type /\ c.fields = fields
  OBVIOUS
<1>4. \A type, fields, severity : fields # {} => \E c \in said(type, fields, severity) : TRUE
  OBVIOUS
<1>5. \A c \in values : c.type = "value_changed"
  OBVIOUS
<1>6. /\ \A c \in added : c.type = "keys_added" /\ c.fields = ck \ pk
      /\ \A c \in removed : c.type = "keys_removed" /\ c.fields = pk \ ck
      /\ \A c \in nulled : c.type = "fields_became_null" /\ c.fields = cn \ pn
      /\ \A c \in recovered : c.type = "fields_recovered" /\ c.fields = pn \ cn
  BY <1>3
<1>7. /\ ck \ pk # {} => \E c \in added : TRUE
      /\ pk \ ck # {} => \E c \in removed : TRUE
      /\ cn \ pn # {} => \E c \in nulled : TRUE
      /\ pn \ cn # {} => \E c \in recovered : TRUE
  BY <1>4
<1>8. prev = curr => added = {} /\ removed = {} /\ nulled = {} /\ recovered = {} /\ values = {}
  OBVIOUS
<1> HIDE DEF added, removed, nulled, recovered, values, pk, ck, pn, cn, all, said
<1>9. /\ Fields(all, "keys_added") = ck \ pk /\ Fields(all, "keys_removed") = pk \ ck
      /\ Fields(all, "fields_became_null") = cn \ pn /\ Fields(all, "fields_recovered") = pn \ cn
  <2>1. Fields(all, "keys_added") = ck \ pk
    BY <1>2, <1>5, <1>6, <1>7 DEF Fields
  <2>2. Fields(all, "keys_removed") = pk \ ck
    BY <1>2, <1>5, <1>6, <1>7 DEF Fields
  <2>3. Fields(all, "fields_became_null") = cn \ pn
    BY <1>2, <1>5, <1>6, <1>7 DEF Fields
  <2>4. Fields(all, "fields_recovered") = pn \ cn
    BY <1>2, <1>5, <1>6, <1>7 DEF Fields
  <2> QED
    BY <2>1, <2>2, <2>3, <2>4
<1>10. /\ (pk \union (ck \ pk)) \ (pk \ ck) = ck /\ (pn \union (cn \ pn)) \ (pn \ cn) = cn
  OBVIOUS
<1>11. After(StructOf(prev), all) = StructOf(curr)
  <2>1. /\ StructOf(prev).kind = "object"
        /\ StructOf(prev).keys = pk /\ StructOf(prev).nullFields = pn
    BY <1>1
  <2>2. After(StructOf(prev), all) =
          [kind |-> "object", keys |-> (pk \union (ck \ pk)) \ (pk \ ck),
           nullFields |-> (pn \union (cn \ pn)) \ (pn \ cn)]
    BY <1>9, <2>1 DEF After
  <2> QED
    BY <1>1, <1>10, <2>2
<1>12. all = {} => StructOf(prev) = StructOf(curr)
  <2> SUFFICES ASSUME all = {} PROVE StructOf(prev) = StructOf(curr)
    OBVIOUS
  <2>1. pk = ck /\ pn = cn
    BY <1>2, <1>7
  <2> QED
    BY <1>1, <2>1
<1>13. prev = curr => all = {}
  BY <1>2, <1>8
<1> QED
  BY <1>11, <1>12, <1>13 DEF all

\* The same for arrays.
LEMMA ArrayChangesTell ==
    ASSUME NEW prev, NEW curr, prev.kind = "array", curr.kind = "array",
           Len(prev.items) \in Nat, Len(curr.items) \in Nat
    PROVE  LET changes == ArrayChanges(StructOf(prev), StructOf(curr))
           IN  /\ After(StructOf(prev), changes) = StructOf(curr)
               /\ changes = {} => StructOf(prev) = StructOf(curr)
               /\ prev = curr => changes = {}
<1> DEFINE ps == StructOf(prev)
           cs == StructOf(curr)
           keys(data) == IF data.items = <<>> THEN {} ELSE DOMAIN data.items[1]
           delta == cs.length - ps.length
           size == IF delta < 0 THEN -delta ELSE delta
           severity == IF 2 * size >= ps.length THEN "warn" ELSE "info"
           counted == IF delta = 0 THEN {} ELSE {[type |-> "count_changed", delta |-> delta, severity |-> severity]}
           keyed == IF ps.itemKeys = cs.itemKeys THEN {}
                    ELSE {[type |-> "item_schema_changed", fields |-> cs.itemKeys, severity |-> "critical"]}
           all == ArrayChanges(ps, cs)
<1>1. /\ ps = [kind |-> "array", length |-> Len(prev.items), itemKeys |-> keys(prev)]
      /\ cs = [kind |-> "array", length |-> Len(curr.items), itemKeys |-> keys(curr)]
  BY DEF StructOf
<1>2. all = counted \union keyed
  BY DEF ArrayChanges
<1>3. ps.length \in Nat /\ cs.length \in Nat /\ ps.kind = "array" /\ cs.kind = "array"
  BY <1>1
<1>4. /\ delta \in Int /\ (delta = 0 <=> ps.length = cs.length) /\ ps.length + delta = cs.length
  BY <1>3
<1>5. /\ \A c \in counted : c.type = "count_changed" /\ c.delta = delta
      /\ delta # 0 => counted # {}
      /\ \A c \in keyed : c.type = "item_schema_changed" /\ c.fields = cs.itemKeys
      /\ ps.itemKeys # cs.itemKeys => keyed # {}
      /\ delta = 0 => counted = {}
      /\ ps.itemKeys = cs.itemKeys => keyed = {}
  <2> HIDE DEF severity, delta, ps, cs
  <2>1. /\ \A c \in counted : c.type = "count_changed" /\ c.delta = delta
        /\ delta # 0 => counted # {}
        /\ delta = 0 => counted = {}
    <3> DEFINE change == [type |-> "count_changed", delta |-> delta, severity |-> severity]
    <3>1. change.type = "count_changed" /\ change.delta = delta
      OBVIOUS
    <3>2. counted = IF delta = 0 THEN {} ELSE {change}
      OBVIOUS
    <3> HIDE DEF change, counted
    <3> QED
      BY <3>1, <3>2
  <2>2. /\ \A c \in keyed : c.type = "item_schema_changed" /\ c.fields = cs.itemKeys
        /\ ps.itemKeys # cs.itemKeys => keyed # {}
        /\ ps.itemKeys = cs.itemKeys => keyed = {}
    <3> DEFINE change == [type |-> "item_schema_changed", fields |-> cs.itemKeys, severity |-> "critical"]
    <3>1. change.type = "item_schema_changed" /\ change.fields = cs.itemKeys
      OBVIOUS
    <3>2. keyed = IF ps.itemKeys = cs.itemKeys THEN {} ELSE {change}
      OBVIOUS
    <3> HIDE DEF change, keyed
    <3> QED
      BY <3>1, <3>2
  <2> QED
    BY <2>1, <2>2
<1>6. ps = [kind |-> "array", length |-> ps.length, itemKeys |-> ps.itemKeys]
  BY <1>1
<1>7. cs = [kind |-> "array", length |-> cs.length, itemKeys |-> cs.itemKeys]
  BY <1>1
<1> DEFINE deltas == {c.delta : c \in {c \in all : c.type = "count_changed"}}
           kinds == {c.fields : c \in {c \in all : c.type = "item_schema_changed"}}
<1> HIDE DEF counted, keyed, all, delta, ps, cs, severity, size
<1>8. deltas = (IF delta = 0 THEN {} ELSE {delta})
  BY <1>2, <1>5
<1>9. kinds = (IF ps.itemKeys = cs.itemKeys THEN {} ELSE {cs.itemKeys})
  BY <1>2, <1>5
<1>10. After(ps, all) = [kind |-> "array",
                         length |-> IF deltas = {} THEN ps.length ELSE ps.length + CHOOSE d \in deltas : TRUE,
                         itemKeys |-> IF kinds = {} THEN ps.itemKeys ELSE CHOOSE k \in kinds : TRUE]
  BY <1>3 DEF After
<1> HIDE DEF deltas, kinds
<1>11. (IF deltas = {} THEN ps.length ELSE ps.length + CHOOSE d \in deltas : TRUE) = cs.length
  <2>1. CASE delta = 0
    BY <1>4, <1>8, <2>1
  <2>2. CASE delta # 0
    <3>1. deltas = {delta} /\ deltas # {}
      BY <1>8, <2>2
    <3>2. (CHOOSE d \in deltas : TRUE) = delta
      BY <3>1
    <3> QED
      BY <1>4, <3>1, <3>2
  <2> QED
    BY <2>1, <2>2
<1>12. (IF kinds = {} THEN ps.itemKeys ELSE CHOOSE k \in kinds : TRUE) = cs.itemKeys
  <2>1. CASE ps.itemKeys = cs.itemKeys
    BY <1>9, <2>1
  <2>2. CASE ps.itemKeys # cs.itemKeys
    <3>1. kinds = {cs.itemKeys} /\ kinds # {}
      BY <1>9, <2>2
    <3>2. (CHOOSE k \in kinds : TRUE) = cs.itemKeys
      BY <3>1
    <3> QED
      BY <3>1, <3>2
  <2> QED
    BY <2>1, <2>2
<1>13. After(ps, all) = cs
  BY <1>7, <1>10, <1>11, <1>12
<1>14. all = {} => ps = cs
  BY <1>2, <1>4, <1>5, <1>6, <1>7
<1>15. prev = curr => all = {}
  <2> SUFFICES ASSUME prev = curr PROVE all = {}
    OBVIOUS
  <2>1. ps = cs
    BY DEF ps, cs
  <2> QED
    BY <1>2, <1>4, <1>5, <2>1
<1> QED
  BY <1>13, <1>14, <1>15 DEF all, ps, cs

\* What the changes say of one sighting after another.
LEMMA DiffTells ==
    ASSUME NEW prev \in {s.data : s \in Sightings}, NEW curr \in {s.data : s \in Sightings}
    PROVE  LET before == StructOf(prev) now == StructOf(curr) changes == Diff(prev, curr)
           IN  /\ IF before.kind = now.kind THEN After(before, changes) = now ELSE \E c \in changes : c.to = now.kind
               /\ (changes = {}) => (before = now)
               /\ (prev = curr) => (changes = {})
<1>1. /\ prev.kind \in {"object", "array"} /\ curr.kind \in {"object", "array"}
      /\ prev.kind = "array" => Len(prev.items) \in Nat
      /\ curr.kind = "array" => Len(curr.items) \in Nat
  BY WatchAssumption
<1>2. \A data : /\ data.kind \in {"object", "array"} => StructOf(data).kind = data.kind
  BY DEF StructOf
<1>3. CASE prev.kind # curr.kind
  <2> DEFINE change == [type |-> "type_changed", to |-> curr.kind, severity |-> "critical"]
  <2>1. StructOf(prev).kind = prev.kind /\ StructOf(curr).kind = curr.kind
    BY <1>1, <1>2
  <2>2. Diff(prev, curr) = {change}
    BY <1>3, <2>1 DEF Diff
  <2>3. change.to = curr.kind
    OBVIOUS
  <2> HIDE DEF change
  <2>4. change \in Diff(prev, curr)
    BY <2>2
  <2> QED
    BY <1>3, <2>1, <2>3, <2>4
<1>4. CASE prev.kind = "object" /\ curr.kind = "object"
  <2>1. Diff(prev, curr) = ObjectChanges(prev, curr)
    BY <1>2, <1>4 DEF Diff
  <2> QED
    BY <1>2, <1>4, <2>1, ObjectChangesTell
<1>5. CASE prev.kind = "array" /\ curr.kind = "array"
  <2>1. Diff(prev, curr) = ArrayChanges(StructOf(prev), StructOf(curr))
    BY <1>2, <1>5 DEF Diff
  <2> QED
    BY <1>1, <1>2, <1>5, <2>1, ArrayChangesTell
<1> QED
  BY <1>1, <1>3, <1>4, <1>5

-----------------------------------------------------------------------------
(* Watch: its window, its history and its counters.                        *)

Infos == UNION {{s.health[f] : f \in DOMAIN s.health} : s \in Sightings}
AllChanges == {{}} \union {Diff(pair[1].data, pair[2].data) : pair \in Sightings \X Sightings}
Reports == [firstRun: BOOLEAN, changes: AllChanges]

\* The runs in window w of field f are those at p, in order, the last that looked for it.
InWindow(f, w, p) ==
    /\ w \in Seq(Infos) /\ Len(w) <= WindowSize
    /\ p \in [1..Len(w) -> LookedIn(f)]
    /\ \A i, j \in 1..Len(w) : i < j => p[i] < p[j]
    /\ \A i \in 1..Len(w) : w[i] = seenRuns[p[i]].health[f]
    /\ \A j \in LookedIn(f) : \/ \E i \in 1..Len(w) : p[i] = j
                              \/ Len(w) = WindowSize /\ \A i \in 1..Len(w) : j < p[i]

WindowsTold == DOMAIN windows = LookedFor /\ \A f \in LookedFor : \E p : InWindow(f, windows[f], p)

RunsTold ==
    /\ seenRuns \in Seq(Sightings) /\ told \in Seq(Reports) /\ Len(told) = Len(seenRuns)
    /\ snapshot = IF seenRuns = <<>> THEN NoSighting ELSE seenRuns[Len(seenRuns)].data
    /\ \A k \in 2..Len(told) : told[k].changes = Diff(seenRuns[k - 1].data, seenRuns[k].data)

HistoryTold ==
    /\ history \in Seq(Reports) /\ Len(history) <= MaxHistory
    /\ told # <<>> => history # <<>> /\ history[Len(history)] = told[Len(told)]

FailuresOf(categories) ==
    categories["timeout"] + categories["network"] + categories["security"] + categories["circuit"]
        + categories["validation"] + categories["http5xx"] + categories["http4xx"] + categories["other"]

Counted ==
    /\ counts.total \in Nat /\ counts.success \in Nat /\ counts.failed \in Nat
    /\ DOMAIN counts = {"total", "success", "failed", "categories"}
    /\ counts.categories \in [Categories -> Nat]
    /\ counts.total = counts.success + counts.failed
    /\ counts.failed = FailuresOf(counts.categories)

WatchIInv ==
    /\ RunsTold /\ HistoryTold /\ WindowsTold /\ Counted
    /\ seenRuns # <<>> => report = Alerts(windows)

\* What the last of a sequence are.
LEMMA LastOfFacts ==
    ASSUME NEW S, NEW s \in Seq(S), NEW n \in Nat \ {0}
    PROVE  /\ LastOf(n, s) \in Seq(S)
           /\ Len(LastOf(n, s)) = IF Len(s) > n THEN n ELSE Len(s)
           /\ \A k \in 1..Len(LastOf(n, s)) : LastOf(n, s)[k] = s[Len(s) - Len(LastOf(n, s)) + k]
<1> DEFINE from == IF Len(s) > n THEN Len(s) - n + 1 ELSE 1
<1>1. Len(s) \in Nat /\ from \in 1..Len(s) + 1 /\ from \in Nat
  OBVIOUS
<1>2. LastOf(n, s) = SubSeq(s, from, Len(s))
  BY DEF LastOf
<1>3. \A k \in from..Len(s) : s[k] \in S
  OBVIOUS
<1>4. /\ SubSeq(s, from, Len(s)) \in Seq(S)
      /\ Len(SubSeq(s, from, Len(s))) = Len(s) - from + 1
      /\ \A k \in 1..Len(s) - from + 1 : SubSeq(s, from, Len(s))[k] = s[from + k - 1]
  <2> HIDE DEF from
  <2>1. from \in Int /\ Len(s) \in Int
    BY <1>1
  <2> QED
    BY <1>1, <1>3, <2>1, SubSeqProperties
<1> DEFINE last == LastOf(n, s)
<1>5. last \in Seq(S) /\ Len(last) = Len(s) - from + 1 /\ \A k \in 1..Len(last) : last[k] = s[from + k - 1]
  BY <1>2, <1>4
<1> HIDE DEF last
<1>6. Len(s) - Len(last) = from - 1 /\ Len(last) = IF Len(s) > n THEN n ELSE Len(s)
  BY <1>1, <1>5
<1>7. \A k \in 1..Len(last) : from + k - 1 = Len(s) - Len(last) + k
  BY <1>1, <1>6
<1> QED
  BY <1>5, <1>6, <1>7 DEF last

\* A failure adds one to the failures of one category, and to their sum.
LEMMA CountsAdd ==
    ASSUME Counted, RecordSuccess \/ \E err : RecordFailure(err)
    PROVE  Counted'
<1>1. CASE RecordSuccess
  BY <1>1 DEF RecordSuccess, Counted, FailuresOf
<1>2. ASSUME NEW err, RecordFailure(err) PROVE Counted'
  <2>1. PICK c \in Categories : counts' = [counts EXCEPT !.total = @ + 1, !.failed = @ + 1, !.categories[c] = @ + 1]
    <3>1. Categorize(err) \in Categories
      BY DEF Categorize, Categories
    <3> QED
      BY <1>2, <3>1 DEF RecordFailure
  <2>2. /\ counts'.total = counts.total + 1 /\ counts'.success = counts.success
        /\ counts'.failed = counts.failed + 1 /\ DOMAIN counts' = DOMAIN counts
        /\ counts'.categories = [counts.categories EXCEPT ![c] = @ + 1]
    BY <2>1 DEF Counted
  <2>3. FailuresOf(counts'.categories) = FailuresOf(counts.categories) + 1
    <3> DEFINE categories == counts.categories
    <3>1. categories \in [Categories -> Nat]
      BY DEF Counted
    <3>2. counts'.categories = [categories EXCEPT ![c] = @ + 1]
      BY <2>2
    <3> HIDE DEF categories
    <3>3. FailuresOf([categories EXCEPT ![c] = @ + 1]) = FailuresOf(categories) + 1
      BY <3>1 DEF FailuresOf, Categories
    <3> QED
      BY <3>2, <3>3 DEF categories
  <2>4. counts'.categories \in [Categories -> Nat]
    BY <2>2 DEF Counted
  <2> QED
    BY <2>2, <2>3, <2>4 DEF Counted
<1> QED
  BY <1>1, <1>2

\* Of a full window the first run drops out when one is added.
LEMMA WindowGrows ==
    ASSUME NEW w \in Seq(Infos), Len(w) <= WindowSize, NEW h \in Infos
    PROVE  LET off == IF Len(w) < WindowSize THEN 0 ELSE 1
               grown == LastOf(WindowSize, w \o <<h>>)
           IN  /\ grown \in Seq(Infos) /\ Len(grown) = Len(w) + 1 - off
               /\ \A i \in 1..Len(grown) : grown[i] = IF i = Len(grown) THEN h ELSE w[i + off]
<1> WindowSize \in Nat \ {0}
  BY WatchAssumption
<1> DEFINE off == IF Len(w) < WindowSize THEN 0 ELSE 1
           longer == w \o <<h>>
           grown == LastOf(WindowSize, longer)
<1>1. /\ longer \in Seq(Infos) /\ Len(longer) = Len(w) + 1 /\ Len(w) \in Nat
      /\ \A k \in 1..Len(w) : longer[k] = w[k]
      /\ longer[Len(w) + 1] = h
  OBVIOUS
<1> HIDE DEF longer
<1>2. /\ grown \in Seq(Infos) /\ Len(grown) = IF Len(longer) > WindowSize THEN WindowSize ELSE Len(longer)
      /\ \A k \in 1..Len(grown) : grown[k] = longer[Len(longer) - Len(grown) + k]
  BY <1>1, LastOfFacts
<1> HIDE DEF grown
<1>3. Len(grown) = Len(w) + 1 - off
  <2>1. Len(w) \in Nat /\ Len(longer) = Len(w) + 1
    BY <1>1
  <2>2. Len(grown) = IF Len(longer) > WindowSize THEN WindowSize ELSE Len(longer)
    BY <1>2
  <2>3. CASE Len(w) < WindowSize
    <3>1. ~(Len(longer) > WindowSize)
      BY <2>1, <2>3
    <3> QED
      BY <2>1, <2>2, <2>3, <3>1
  <2>4. CASE ~(Len(w) < WindowSize)
    <3>1. Len(w) = WindowSize
      BY <2>1, <2>4
    <3> QED
      BY <2>1, <2>2, <2>4, <3>1
  <2> QED
    BY <2>3, <2>4
<1>4. ASSUME NEW i \in 1..Len(grown) PROVE grown[i] = IF i = Len(grown) THEN h ELSE w[i + off]
  <2> HIDE DEF off
  <2>1. off \in {0, 1}
    BY DEF off
  <2>2. Len(longer) - Len(grown) = off /\ Len(grown) \in Nat
    BY <1>1, <1>3, <2>1
  <2>3. grown[i] = longer[off + i]
    BY <1>2, <2>2
  <2>4. CASE i = Len(grown)
    <3>1. off + i = Len(w) + 1
      BY <1>1, <1>3, <2>1, <2>4
    <3> QED
      BY <1>1, <2>3, <2>4, <3>1
  <2>5. CASE i # Len(grown)
    <3>1. i + off \in 1..Len(w) /\ off + i = i + off
      BY <1>1, <1>3, <2>1, <2>2, <2>5
    <3> QED
      BY <1>1, <2>3, <2>5, <3>1
  <2> QED
    BY <2>4, <2>5
<1> QED
  BY <1>2, <1>3, <1>4 DEF longer, grown

\* The window of a field that a run looked for goes on to hold the last that did.
LEMMA WindowGoesOn ==
    ASSUME NEW f, NEW w, NEW p, InWindow(f, w, p), NEW sighting \in Sightings, f \in DOMAIN sighting.health,
           seenRuns \in Seq(Sightings), seenRuns' = Append(seenRuns, sighting)
    PROVE  LET grown == LastOf(WindowSize, w \o <<sighting.health[f]>>)
           IN  \E q : /\ grown \in Seq(Infos) /\ Len(grown) <= WindowSize
                      /\ q \in [1..Len(grown) -> LookedIn(f)']
                      /\ \A i, j \in 1..Len(grown) : i < j => q[i] < q[j]
                      /\ \A i \in 1..Len(grown) : grown[i] = seenRuns'[q[i]].health[f]
                      /\ \A j \in LookedIn(f)' : \/ \E i \in 1..Len(grown) : q[i] = j
                                                 \/ Len(grown) = WindowSize /\ \A i \in 1..Len(grown) : j < q[i]
<1> WindowSize \in Nat \ {0}
  BY WatchAssumption
<1> DEFINE h == sighting.health[f]
           off == IF Len(w) < WindowSize THEN 0 ELSE 1
           grown == LastOf(WindowSize, w \o <<h>>)
           n == Len(seenRuns)
           m == Len(grown)
           q == [i \in 1..m |-> IF i = m THEN n + 1 ELSE p[i + off]]
<1>1. h \in Infos
  BY DEF Infos
<1>2. /\ w \in Seq(Infos) /\ Len(w) <= WindowSize /\ p \in [1..Len(w) -> LookedIn(f)]
      /\ \A i, j \in 1..Len(w) : i < j => p[i] < p[j]
      /\ \A i \in 1..Len(w) : w[i] = seenRuns[p[i]].health[f]
      /\ \A j \in LookedIn(f) : \/ \E i \in 1..Len(w) : p[i] = j
                                \/ Len(w) = WindowSize /\ \A i \in 1..Len(w) : j < p[i]
  BY DEF InWindow
<1>3. /\ grown \in Seq(Infos) /\ m = Len(w) + 1 - off
      /\ \A i \in 1..m : grown[i] = IF i = m THEN h ELSE w[i + off]
  BY <1>1, <1>2, WindowGrows
<1>4. n \in Nat /\ DOMAIN seenRuns = 1..n
  OBVIOUS
<1>5. /\ DOMAIN seenRuns' = 1..n + 1 /\ seenRuns'[n + 1] = sighting
      /\ \A k \in 1..n : seenRuns'[k] = seenRuns[k]
  BY <1>4
<1>6. LookedIn(f)' = LookedIn(f) \union {n + 1} /\ LookedIn(f) \subseteq 1..n
  BY <1>4, <1>5 DEF LookedIn
<1> HIDE DEF grown, h, n
<1>7. Len(w) \in Nat /\ off \in {0, 1} /\ (off = 1 <=> Len(w) = WindowSize) /\ m \in Nat /\ m <= WindowSize /\ m >= 1
  BY <1>2, <1>3
<1> HIDE DEF off, m
<1>8. \A i \in 1..m : i # m => i + off \in 1..Len(w)
  BY <1>3, <1>7
<1>9. q \in [1..m -> LookedIn(f)']
  <2>1. \A i \in 1..m : i # m => p[i + off] \in LookedIn(f)
    BY <1>2, <1>8
  <2>2. \A i \in 1..m : (IF i = m THEN n + 1 ELSE p[i + off]) \in LookedIn(f)'
    BY <1>6, <2>1
  <2> QED
    BY <2>2
<1>10. /\ q[m] = n + 1 /\ \A i \in 1..m : i # m => q[i] = p[i + off] /\ q[i] \in LookedIn(f)
       /\ \A i \in 1..m : i # m => q[i] \in 1..n
  <2>1. m \in 1..m
    BY <1>7
  <2>2. \A i \in 1..m : q[i] = IF i = m THEN n + 1 ELSE p[i + off]
    OBVIOUS
  <2>3. \A i \in 1..m : i # m => p[i + off] \in LookedIn(f)
    BY <1>2, <1>8
  <2> HIDE DEF q
  <2> QED
    BY <1>6, <2>1, <2>2, <2>3
<1> HIDE DEF q
<1>11. ASSUME NEW i \in 1..m, NEW j \in 1..m, i < j PROVE q[i] < q[j]
  <2>1. i # m /\ q[i] = p[i + off] /\ q[i] \in 1..n
    BY <1>7, <1>10, <1>11
  <2>2. CASE j = m
    BY <1>4, <1>10, <2>1, <2>2
  <2>3. CASE j # m
    <3>1. i + off < j + off
      BY <1>7, <1>11
    <3> QED
      BY <1>2, <1>8, <1>10, <2>1, <2>3, <3>1
  <2> QED
    BY <2>2, <2>3
<1>12. ASSUME NEW i \in 1..m PROVE grown[i] = seenRuns'[q[i]].health[f]
  <2>1. CASE i = m
    BY <1>3, <1>5, <1>10, <2>1 DEF h
  <2>2. CASE i # m
    <3>1. grown[i] = w[i + off] /\ i + off \in 1..Len(w) /\ q[i] = p[i + off] /\ q[i] \in 1..n
      BY <1>3, <1>8, <1>10, <2>2
    <3> QED
      BY <1>2, <1>5, <3>1
  <2> QED
    BY <2>1, <2>2
<1>13. ASSUME NEW j \in LookedIn(f)'
       PROVE  \/ \E i \in 1..m : q[i] = j
              \/ m = WindowSize /\ \A i \in 1..m : j < q[i]
  <2>1. CASE j = n + 1
    BY <1>7, <1>10, <2>1
  <2>2. CASE j \in LookedIn(f) /\ \E k \in 1..Len(w) : p[k] = j
    <3>1. PICK k \in 1..Len(w) : p[k] = j
      BY <2>2
    <3>2. CASE k - off \in 1..m
      <4>1. k - off # m /\ (k - off) + off = k
        BY <1>3, <1>7, <3>1
      <4> QED
        BY <1>10, <3>1, <3>2, <4>1
    <3>3. CASE k - off \notin 1..m
      <4>1. k = 1 /\ off = 1 /\ m = WindowSize /\ Len(w) = WindowSize
        BY <1>3, <1>7, <3>1, <3>3
      <4>2. ASSUME NEW i \in 1..m PROVE j < q[i]
        <5>1. CASE i = m
          BY <1>4, <1>6, <1>10, <2>2, <5>1
        <5>2. CASE i # m
          <6>1. i + off \in 1..Len(w) /\ 1 < i + off /\ 1 \in 1..Len(w)
            BY <1>7, <1>8, <4>1, <5>2
          <6>2. p[1] < p[i + off]
            BY <1>2, <6>1
          <6> QED
            BY <1>10, <3>1, <4>1, <5>2, <6>2
        <5> QED
          BY <5>1, <5>2
      <4> QED
        BY <4>1, <4>2
    <3> QED
      BY <3>2, <3>3
  <2>3. CASE j \in LookedIn(f) /\ Len(w) = WindowSize /\ \A i \in 1..Len(w) : j < p[i]
    <3>1. m = WindowSize
      BY <1>3, <1>7, <2>3
    <3>2. ASSUME NEW i \in 1..m PROVE j < q[i]
      <4>1. CASE i = m
        BY <1>4, <1>6, <1>10, <2>3, <4>1
      <4>2. CASE i # m
        BY <1>8, <1>10, <2>3, <4>2
      <4> QED
        BY <4>1, <4>2
    <3> QED
      BY <3>1, <3>2
  <2> QED
    BY <1>2, <1>6, <2>1, <2>2, <2>3
<1> QED
  BY <1>3, <1>7, <1>9, <1>11, <1>12, <1>13 DEF grown, m, h

\* A run keeps what is told of all of them.
LEMMA NotesTell ==
    ASSUME RunsTold, HistoryTold, NEW sighting \in Sightings, Notes(sighting)
    PROVE  RunsTold' /\ HistoryTold'
<1> DEFINE n == Len(seenRuns)
           data == sighting.data
           first == snapshot = NoSighting
           result == [firstRun |-> first, changes |-> IF first THEN {} ELSE Diff(snapshot, data)]
<1>1. /\ seenRuns \in Seq(Sightings) /\ told \in Seq(Reports) /\ Len(told) = n
      /\ snapshot = IF seenRuns = <<>> THEN NoSighting ELSE seenRuns[n].data
      /\ \A k \in 2..Len(told) : told[k].changes = Diff(seenRuns[k - 1].data, seenRuns[k].data)
      /\ history \in Seq(Reports)
  BY DEF RunsTold, HistoryTold
<1>2. /\ seenRuns' = Append(seenRuns, sighting) /\ snapshot' = data /\ told' = Append(told, result)
      /\ history' = LastOf(MaxHistory, Append(history, result))
  BY DEF Notes, Check
<1>3. /\ seenRuns = <<>> => snapshot = NoSighting
      /\ seenRuns # <<>> => /\ n \in 1..n /\ snapshot = seenRuns[n].data /\ snapshot # NoSighting
                            /\ Diff(snapshot, data) \in AllChanges
  <2>1. CASE seenRuns = <<>>
    BY <1>1, <2>1
  <2>2. CASE seenRuns # <<>>
    <3>1. n \in 1..n /\ seenRuns[n] \in Sightings /\ snapshot = seenRuns[n].data
      BY <1>1, <2>2
    <3>2. seenRuns[n].data # NoSighting
      BY <3>1, WatchAssumption
    <3>3. <<seenRuns[n], sighting>> \in Sightings \X Sightings
      BY <3>1
    <3> DEFINE pair == <<seenRuns[n], sighting>>
    <3>4. Diff(pair[1].data, pair[2].data) \in AllChanges
      BY <3>3 DEF AllChanges
    <3>5. pair[1] = seenRuns[n] /\ pair[2] = sighting
      OBVIOUS
    <3> QED
      BY <2>2, <3>1, <3>2, <3>4, <3>5
  <2> QED
    BY <2>1, <2>2
<1>4. result \in Reports /\ result.changes = IF first THEN {} ELSE Diff(snapshot, data)
  <2>1. (IF first THEN {} ELSE Diff(snapshot, data)) \in AllChanges
    BY <1>1, <1>3 DEF AllChanges
  <2>2. result.changes = IF first THEN {} ELSE Diff(snapshot, data)
    OBVIOUS
  <2>3. result \in Reports
    BY <2>1 DEF Reports
  <2> QED
    BY <2>2, <2>3
<1> HIDE DEF result, data
<1>5. /\ seenRuns' \in Seq(Sightings) /\ told' \in Seq(Reports) /\ Len(seenRuns') = n + 1 /\ Len(told') = n + 1
      /\ n \in Nat /\ seenRuns'[n + 1] = sighting /\ told'[n + 1] = result
      /\ \A k \in 1..n : seenRuns'[k] = seenRuns[k] /\ told'[k] = told[k]
      /\ seenRuns' # <<>> /\ told' # <<>>
  BY <1>1, <1>2, <1>4
<1>6. snapshot' = seenRuns'[Len(seenRuns')].data
  BY <1>2, <1>5 DEF data
<1>7. ASSUME NEW k \in 2..Len(told') PROVE told'[k].changes = Diff(seenRuns'[k - 1].data, seenRuns'[k].data)
  <2>1. CASE k = n + 1
    <3>1. seenRuns # <<>> /\ n \in 1..n /\ k - 1 = n
      BY <1>1, <1>5, <2>1
    <3>2. told'[k].changes = Diff(snapshot, data)
      BY <1>3, <1>4, <1>5, <2>1, <3>1
    <3> QED
      BY <1>3, <1>5, <2>1, <3>1, <3>2 DEF data
  <2>2. CASE k # n + 1
    <3>1. k \in 2..Len(told) /\ k \in 1..n /\ k - 1 \in 1..n
      BY <1>1, <1>5, <2>2
    <3> QED
      BY <1>1, <1>5, <3>1
  <2> QED
    BY <2>1, <2>2
<1>8. RunsTold'
  <2>1. snapshot' = IF seenRuns' = <<>> THEN NoSighting ELSE seenRuns'[Len(seenRuns')].data
    BY <1>5, <1>6
  <2> QED
    BY <1>5, <1>7, <2>1 DEF RunsTold
<1>9. HistoryTold'
  <2> MaxHistory \in Nat \ {0}
    BY WatchAssumption
  <2> DEFINE longer == Append(history, result)
             h == LastOf(MaxHistory, longer)
  <2>1. longer \in Seq(Reports) /\ Len(longer) = Len(history) + 1 /\ Len(history) \in Nat /\ longer[Len(longer)] = result
    BY <1>1, <1>4
  <2> HIDE DEF longer
  <2>2. /\ h \in Seq(Reports) /\ Len(h) = IF Len(longer) > MaxHistory THEN MaxHistory ELSE Len(longer)
        /\ \A k \in 1..Len(h) : h[k] = longer[Len(longer) - Len(h) + k]
    BY <2>1, LastOfFacts
  <2> HIDE DEF h
  <2>3. Len(h) \in 1..MaxHistory /\ Len(h) \in 1..Len(h) /\ Len(longer) - Len(h) + Len(h) = Len(longer)
    <3>1. Len(longer) \in Nat \ {0}
      BY <2>1
    <3> QED
      BY <2>2, <3>1
  <2>4. h # <<>> /\ h[Len(h)] = result
    <3>1. h[Len(h)] = longer[Len(longer) - Len(h) + Len(h)]
      BY <2>2, <2>3
    <3>2. h # <<>>
      BY <2>3
    <3> QED
      BY <2>1, <2>3, <3>1, <3>2
  <2>5. history' = h
    BY <1>2 DEF h, longer
  <2> QED
    BY <1>5, <2>2, <2>3, <2>4, <2>5 DEF HistoryTold
<1> QED
  BY <1>8, <1>9

\* And the windows those of its fields.
LEMMA NotesWatch ==
    ASSUME WindowsTold, seenRuns \in Seq(Sightings), NEW sighting \in Sightings, Notes(sighting)
    PROVE  WindowsTold'
<1> DEFINE n == Len(seenRuns)
           health == sighting.health
<1>1. /\ seenRuns' = Append(seenRuns, sighting) /\ windows' = Windows(health)
      /\ DOMAIN windows = LookedFor
  BY DEF Notes, WindowsTold
<1>2. /\ n \in Nat /\ DOMAIN seenRuns = 1..n /\ DOMAIN seenRuns' = 1..n + 1 /\ seenRuns'[n + 1] = sighting
      /\ \A k \in 1..n : seenRuns'[k] = seenRuns[k]
  BY <1>1
<1>3. LookedFor' = LookedFor \union DOMAIN health
  BY <1>2 DEF LookedFor
<1>4. DOMAIN windows' = LookedFor'
  BY <1>1, <1>3 DEF Windows
<1>5. ASSUME NEW f \in LookedFor' PROVE \E w, p : w = windows'[f] /\ InWindow(f, w, p)'
  <2>1. CASE f \notin DOMAIN health
    <3>1. f \in LookedFor /\ windows'[f] = windows[f]
      BY <1>1, <1>3, <2>1 DEF Windows
    <3>2. PICK p : InWindow(f, windows[f], p)
      BY <3>1 DEF WindowsTold
    <3>3. LookedIn(f)' = LookedIn(f) /\ LookedIn(f) \subseteq 1..n
      BY <1>2, <2>1 DEF LookedIn
    <3>6. PICK w : w = windows[f]
      OBVIOUS
    <3>4. /\ w \in Seq(Infos) /\ Len(w) <= WindowSize
          /\ p \in [1..Len(w) -> LookedIn(f)]
          /\ \A i, j \in 1..Len(w) : i < j => p[i] < p[j]
          /\ \A i \in 1..Len(w) : w[i] = seenRuns[p[i]].health[f]
          /\ \A j \in LookedIn(f) : \/ \E i \in 1..Len(w) : p[i] = j
                                    \/ Len(w) = WindowSize /\ \A i \in 1..Len(w) : j < p[i]
      BY <3>2, <3>6 DEF InWindow
    <3>5. \A i \in 1..Len(w) : w[i] = seenRuns'[p[i]].health[f]
      BY <1>2, <3>3, <3>4
    <3>7. InWindow(f, w, p)'
      BY <3>3, <3>4, <3>5 DEF InWindow
    <3> QED
      BY <3>1, <3>6, <3>7
  <2>2. CASE f \in DOMAIN health
    <3> DEFINE w == IF f \in DOMAIN windows THEN windows[f] ELSE <<>>
               grown == LastOf(WindowSize, w \o <<health[f]>>)
    <3>1. windows'[f] = grown
      BY <1>1, <2>2 DEF Windows
    <3>2. \E p : InWindow(f, w, p)
      <4>1. CASE f \in DOMAIN windows
        BY <1>1, <4>1 DEF WindowsTold
      <4>2. CASE f \notin DOMAIN windows
        <5>1. w = <<>> /\ LookedIn(f) = {}
          BY <1>1, <4>2 DEF LookedIn, LookedFor
        <5>2. <<>> \in Seq(Infos) /\ Len(<<>>) = 0 /\ 0 <= WindowSize
          BY WatchAssumption
        <5> DEFINE p == [i \in {} |-> 0]
        <5>3. 1..Len(w) = {} /\ p \in [{} -> {}]
          BY <5>1, <5>2
        <5>4. InWindow(f, w, p)
          BY <5>1, <5>2, <5>3 DEF InWindow
        <5> QED
          BY <5>4
      <4> QED
        BY <4>1, <4>2
    <3>3. PICK p : InWindow(f, w, p)
      BY <3>2
    <3> HIDE DEF w
    <3>4. \E q : /\ grown \in Seq(Infos) /\ Len(grown) <= WindowSize
                 /\ q \in [1..Len(grown) -> LookedIn(f)']
                 /\ \A i, j \in 1..Len(grown) : i < j => q[i] < q[j]
                 /\ \A i \in 1..Len(grown) : grown[i] = seenRuns'[q[i]].health[f]
                 /\ \A j \in LookedIn(f)' : \/ \E i \in 1..Len(grown) : q[i] = j
                                            \/ Len(grown) = WindowSize /\ \A i \in 1..Len(grown) : j < q[i]
      BY <1>1, <2>2, <3>3, WindowGoesOn
    <3> HIDE DEF grown
    <3>5. PICK v : v = grown
      OBVIOUS
    <3>6. PICK q : /\ v \in Seq(Infos) /\ Len(v) <= WindowSize
                   /\ q \in [1..Len(v) -> LookedIn(f)']
                   /\ \A i, j \in 1..Len(v) : i < j => q[i] < q[j]
                   /\ \A i \in 1..Len(v) : v[i] = seenRuns'[q[i]].health[f]
                   /\ \A j \in LookedIn(f)' : \/ \E i \in 1..Len(v) : q[i] = j
                                              \/ Len(v) = WindowSize /\ \A i \in 1..Len(v) : j < q[i]
      BY <3>4, <3>5
    <3>7. InWindow(f, v, q)'
      BY <3>6 DEF InWindow
    <3> QED
      BY <3>1, <3>5, <3>7
  <2> QED
    BY <2>1, <2>2
<1>6. ASSUME NEW f \in LookedFor' PROVE (\E p : InWindow(f, windows[f], p))'
  BY <1>5
<1> QED
  BY <1>4, <1>6 DEF WindowsTold

-----------------------------------------------------------------------------
(* Watch: what is reported of a field.                                     *)

\* A set of numbers up to a bound has a greatest one.
LEMMA GreatestOf ==
    ASSUME NEW n \in Nat, NEW S \in SUBSET (1..n), S # {}
    PROVE  \E k \in S : \A j \in S : j <= k
<1>1. {n - k : k \in S} \in SUBSET Nat /\ {n - k : k \in S} # {}
  <2>1. \A k \in S : n - k \in Nat
    OBVIOUS
  <2> QED
    BY <2>1
<1>2. PICK d \in {n - k : k \in S} : \A e \in {n - k : k \in S} : d <= e
  BY <1>1, LeastOf
<1>3. PICK k \in S : d = n - k
  BY <1>2
<1>4. \A j \in S : n - k <= n - j
  BY <1>2, <1>3
<1> QED
  BY <1>4

\* Runs that found no more than so many each found no more than as many times that together.
LEMMA TotalBound ==
    ASSUME NEW w \in Seq(Infos), NEW c \in Nat, \A k \in FoundIn(w) : w[k].count <= c
    PROVE  Total(w) \in Nat /\ Total(w) <= Cardinality(FoundIn(w)) * c
<1> DEFINE N == Len(w)
           next == [a \in Nat |-> [k \in Nat |->
                       a + (IF k \in 1..N THEN (IF w[k].empty THEN 0 ELSE w[k].count) ELSE 0)]]
           sum[k \in 0..N] == IF k = 0 THEN 0 ELSE sum[k - 1] + (IF w[k].empty THEN 0 ELSE w[k].count)
           upTo(m) == {k \in 1..m : ~w[k].empty}
<1>1. N \in Nat /\ DOMAIN w = 1..N /\ \A k \in 1..N : w[k] \in Infos
  OBVIOUS
<1>2. \A k \in 1..N : w[k].count \in Nat /\ w[k].empty \in BOOLEAN
  BY <1>1, WatchAssumption DEF Infos
<1>3. next \in [Nat -> [Nat -> Nat]]
  BY <1>1, <1>2
<1>4. PICK g \in [0..N -> Nat] : GoesOn(g, 0, next, N)
  <2> HIDE DEF next, N
  <2> QED
    BY <1>1, <1>3, Recursion
<1>5. \A k \in 1..N : g[k] = g[k - 1] + (IF w[k].empty THEN 0 ELSE w[k].count)
  <2> TAKE k \in 1..N
  <2>1. k - 1 \in 0..N /\ k \in Nat
    BY <1>1
  <2>2. g[k - 1] \in Nat
    BY <2>1
  <2>3. g[k] = next[g[k - 1]][k]
    BY <1>4 DEF GoesOn
  <2> QED
    BY <2>1, <2>2, <2>3
<1>6. /\ sum[0] = 0
      /\ \A k \in 1..N : sum[k] = sum[k - 1] + (IF w[k].empty THEN 0 ELSE w[k].count)
  <2> HIDE DEF next, N
  <2>1. 0 \in 0..N /\ \A k \in 1..N : k \in 0..N /\ k # 0
    BY <1>1
  <2>2. \A k \in 0..N : k # 0 => k \in 1..N
    BY <1>1
  <2>3. g = [k \in 0..N |-> IF k = 0 THEN 0 ELSE g[k - 1] + (IF w[k].empty THEN 0 ELSE w[k].count)]
    BY <1>4, <1>5, <2>2 DEF GoesOn
  <2>4. sum = [k \in 0..N |-> IF k = 0 THEN 0 ELSE sum[k - 1] + (IF w[k].empty THEN 0 ELSE w[k].count)]
    BY <2>3
  <2> HIDE DEF sum
  <2> QED
    BY <2>1, <2>4
<1>7. Total(w) = sum[N]
  BY DEF Total
<1> DEFINE Good == {n \in Nat : n <= N => /\ sum[n] \in Nat /\ sum[n] <= Cardinality(upTo(n)) * c
                                          /\ IsFiniteSet(upTo(n)) /\ Cardinality(upTo(n)) \in Nat}
<1> HIDE DEF sum, next, N
<1>8. 0 \in Good
  <2>1. upTo(0) = {} /\ sum[0] = 0
    BY <1>6
  <2>2. IsFiniteSet(upTo(0)) /\ Cardinality(upTo(0)) = 0
    BY <2>1, FS_EmptySet
  <2>3. 0 <= 0 * c
    OBVIOUS
  <2> QED
    BY <2>1, <2>2, <2>3
<1>9. \A n \in Nat : n \in Good => n + 1 \in Good
  <2> TAKE n \in Nat
  <2> HAVE n \in Good
  <2> SUFFICES ASSUME n + 1 <= N
               PROVE  /\ sum[n + 1] \in Nat /\ sum[n + 1] <= Cardinality(upTo(n + 1)) * c
                      /\ IsFiniteSet(upTo(n + 1)) /\ Cardinality(upTo(n + 1)) \in Nat
    OBVIOUS
  <2>1. n <= N /\ n + 1 \in 1..N /\ (n + 1) - 1 = n
    BY <1>1
  <2>2. /\ sum[n] \in Nat /\ sum[n] <= Cardinality(upTo(n)) * c
        /\ IsFiniteSet(upTo(n)) /\ Cardinality(upTo(n)) \in Nat
    BY <2>1
  <2>3. sum[n + 1] = sum[n] + (IF w[n + 1].empty THEN 0 ELSE w[n + 1].count)
    BY <1>6, <2>1
  <2>4. upTo(n + 1) = upTo(n) \union {k \in {n + 1} : ~w[k].empty}
    OBVIOUS
  <2>5. CASE w[n + 1].empty
    <3>1. upTo(n + 1) = upTo(n)
      BY <2>4, <2>5
    <3> HIDE DEF upTo
    <3> QED
      BY <2>2, <2>3, <2>5, <3>1
  <2>6. CASE ~w[n + 1].empty
    <3>1. upTo(n + 1) = upTo(n) \union {n + 1} /\ n + 1 \notin upTo(n)
      BY <2>4, <2>6
    <3>2. IsFiniteSet(upTo(n + 1)) /\ Cardinality(upTo(n + 1)) = Cardinality(upTo(n)) + 1
      <4> HIDE DEF upTo
      <4> QED
        BY <2>2, <3>1, FS_AddElement
    <3>3. w[n + 1].count \in Nat /\ w[n + 1].count <= c
      BY <1>1, <1>2, <2>1, <2>6 DEF FoundIn, EmptyIn
    <3> DEFINE q == Cardinality(upTo(n))
               x == w[n + 1].count
    <3>4. sum[n + 1] = sum[n] + x
      BY <2>3, <2>6
    <3> HIDE DEF upTo, x, q
    <3>5. q \in Nat /\ sum[n] \in Nat /\ sum[n] <= q * c /\ x \in Nat /\ x <= c
      BY <2>2, <3>3 DEF q, x
    <3>6. (q + 1) * c = q * c + c /\ q * c \in Nat
      BY <3>5
    <3>7. sum[n + 1] \in Nat /\ sum[n + 1] <= (q + 1) * c
      BY <3>4, <3>5, <3>6
    <3> QED
      BY <3>2, <3>5, <3>7 DEF q
  <2> QED
    BY <1>2, <2>1, <2>5, <2>6
<1>10. N \in Good
  <2> HIDE DEF Good
  <2> QED
    BY <1>1, <1>8, <1>9, AllNumbers
<1>11. upTo(N) = FoundIn(w)
  BY <1>1 DEF FoundIn, EmptyIn
<1>12. sum[N] \in Nat /\ sum[N] <= Cardinality(upTo(N)) * c
  BY <1>1, <1>10
<1> QED
  BY <1>7, <1>11, <1>12

\* A count that dropped is one that an earlier run's was higher than.
LEMMA DropsAreDrops ==
    ASSUME NEW w \in Seq(Infos), CountDrops(w)
    PROVE  \E j, k \in FoundIn(w) : j < k /\ w[j].count > w[k].count
<1> DEFINE n == Cardinality(FoundIn(w))
           latest == CHOOSE k \in FoundIn(w) : \A j \in FoundIn(w) : j <= k
           c == w[latest].count
           total == Total(w)
<1>1. /\ Len(w) \in Nat /\ DOMAIN w = 1..Len(w) /\ FoundIn(w) \subseteq 1..Len(w)
      /\ \A k \in 1..Len(w) : w[k].count \in Nat
  <2>1. \A k \in 1..Len(w) : w[k] \in Infos
    OBVIOUS
  <2> QED
    BY <2>1, WatchAssumption DEF FoundIn, Infos
<1>2. n >= 3 /\ total > n /\ 100 * (n * c) < 35 * total
  BY DEF CountDrops
<1>3. IsFiniteSet(FoundIn(w)) /\ n \in Nat
  <2>1. IsFiniteSet(1..Len(w))
    BY <1>1, FS_Interval
  <2>2. IsFiniteSet(FoundIn(w))
    BY <1>1, <2>1, FS_Subset
  <2> QED
    BY <2>2, FS_CardinalityType
<1>4. FoundIn(w) # {}
  BY <1>2, <1>3, FS_EmptySet
<1>5. latest \in FoundIn(w) /\ \A j \in FoundIn(w) : j <= latest
  <2>1. \E k \in FoundIn(w) : \A j \in FoundIn(w) : j <= k
    BY <1>1, <1>4, GreatestOf
  <2> QED
    BY <2>1
<1> HIDE DEF latest
<1>6. c \in Nat
  BY <1>1, <1>5
<1>7. SUFFICES ASSUME \A j \in FoundIn(w) : w[j].count <= c PROVE FALSE
  <2>1. PICK j \in FoundIn(w) : ~(w[j].count <= c)
    BY <1>7
  <2>2. j # latest /\ j < latest
    BY <1>1, <1>5, <1>6, <2>1
  <2>3. w[j].count > c
    BY <1>1, <1>6, <2>1
  <2> QED
    BY <1>5, <2>2, <2>3
<1>8. total \in Nat /\ total <= n * c
  BY <1>6, <1>7, TotalBound
<1> HIDE DEF total, n, c
<1>9. n * c \in Nat
  BY <1>3, <1>6
<1> QED
  BY <1>2, <1>3, <1>8, <1>9

\* As many are the values as the places, where no two places have the same.
LEMMA DistinctValues ==
    ASSUME NEW D, IsFiniteSet(D), NEW p, \A i, j \in D : p[i] = p[j] => i = j
    PROVE  IsFiniteSet({p[i] : i \in D}) /\ Cardinality({p[i] : i \in D}) = Cardinality(D)
<1> DEFINE T == {p[i] : i \in D}
           g == [i \in D |-> p[i]]
<1>1. g \in Bijection(D, T)
  BY DEF Bijection, Injection, Surjection, IsInjective
<1>2. ExistsBijection(D, T)
  BY <1>1 DEF ExistsBijection
<1> QED
  BY <1>2, FS_Bijection

\* The runs in the window of a field are the latest that looked for it.
LEMMA WindowIsLately ==
    ASSUME NEW f, NEW w, NEW p, InWindow(f, w, p), seenRuns \in Seq(Sightings)
    PROVE  /\ Lately(f) = {p[i] : i \in 1..Len(w)}
           /\ Cardinality(Lately(f)) = Len(w)
           /\ Cardinality({k \in Lately(f) : seenRuns[k].health[f].empty}) = Cardinality(EmptyIn(w))
<1> WindowSize \in Nat \ {0}
  BY WatchAssumption
<1> DEFINE n == Len(w)
           R == {p[i] : i \in 1..n}
           after(k) == {j \in LookedIn(f) : j > k}
<1>1. /\ w \in Seq(Infos) /\ n <= WindowSize
      /\ p \in [1..n -> LookedIn(f)]
      /\ \A i, j \in 1..n : i < j => p[i] < p[j]
      /\ \A i \in 1..n : w[i] = seenRuns[p[i]].health[f]
      /\ \A j \in LookedIn(f) : \/ \E i \in 1..n : p[i] = j
                                \/ n = WindowSize /\ \A i \in 1..n : j < p[i]
  BY DEF InWindow
<1>2. n \in Nat /\ DOMAIN w = 1..n /\ IsFiniteSet(1..n) /\ Cardinality(1..n) = n
  <2>1. n \in Nat /\ DOMAIN w = 1..n
    BY <1>1
  <2> HIDE DEF n
  <2>2. Cardinality(1..n) = IF 1 > n THEN 0 ELSE n - 1 + 1
    BY <2>1, FS_Interval
  <2>3. IsFiniteSet(1..n)
    BY <2>1, FS_Interval
  <2> QED
    BY <2>1, <2>2, <2>3
<1>3. LookedIn(f) \subseteq 1..Len(seenRuns) /\ Len(seenRuns) \in Nat /\ IsFiniteSet(LookedIn(f))
  <2>1. LookedIn(f) \subseteq 1..Len(seenRuns) /\ Len(seenRuns) \in Nat
    BY DEF LookedIn
  <2>2. IsFiniteSet(1..Len(seenRuns))
    BY <2>1, FS_Interval
  <2> QED
    BY <2>1, <2>2, FS_Subset
<1> HIDE DEF n
<1>4. \A i \in 1..n : p[i] \in LookedIn(f) /\ p[i] \in Nat
  BY <1>1, <1>3
<1>5. \A i, j \in 1..n : p[i] = p[j] => i = j
  <2> TAKE i, j \in 1..n
  <2>1. i < j \/ j < i \/ i = j
    BY <1>2
  <2> QED
    BY <1>1, <1>4, <2>1
<1>6. IsFiniteSet(R) /\ Cardinality(R) = n
  BY <1>2, <1>5, DistinctValues
<1>7. ASSUME NEW i \in 1..n PROVE Cardinality(after(p[i])) < WindowSize
  <2> DEFINE later == {p[j] : j \in i + 1..n}
  <2>1. i + 1..n \subseteq 1..n /\ i + 1 \in Int /\ n \in Int
    BY <1>2
  <2>2. IsFiniteSet(i + 1..n) /\ Cardinality(i + 1..n) = IF i + 1 > n THEN 0 ELSE n - (i + 1) + 1
    BY <2>1, FS_Interval
  <2>3. Cardinality(later) = Cardinality(i + 1..n)
    <3> DEFINE D == i + 1..n
    <3>1. IsFiniteSet(D) /\ \A j, k \in D : p[j] = p[k] => j = k
      BY <1>5, <2>1, <2>2
    <3> HIDE DEF D
    <3>2. Cardinality({p[j] : j \in D}) = Cardinality(D)
      BY <3>1, DistinctValues
    <3> QED
      BY <3>2 DEF D
  <2>4. after(p[i]) = later
    <3>1. ASSUME NEW j \in i + 1..n PROVE p[j] \in after(p[i])
      <4>1. j \in 1..n /\ i < j
        BY <1>2
      <4>2. p[i] < p[j]
        BY <1>1, <4>1
      <4> QED
        BY <1>4, <4>1, <4>2
    <3>2. ASSUME NEW k \in after(p[i]) PROVE k \in later
      <4>1. k \in LookedIn(f) /\ k > p[i] /\ k \in Nat
        BY <1>3
      <4>2. ~(k < p[i])
        BY <1>4, <4>1
      <4>3. PICK j \in 1..n : p[j] = k
        BY <1>1, <4>1, <4>2
      <4>4. i < j
        <5>1. ~(j < i) /\ j # i
          BY <1>1, <1>4, <4>1, <4>3
        <5> QED
          BY <1>2, <5>1
      <4>5. j \in i + 1..n
        BY <1>2, <4>4
      <4> QED
        BY <4>3, <4>5
    <3> QED
      BY <3>1, <3>2
  <2> QED
    <3>1. Cardinality(after(p[i])) = IF i + 1 > n THEN 0 ELSE n - (i + 1) + 1
      BY <2>2, <2>3, <2>4
    <3> HIDE DEF after
    <3> QED
      BY <1>1, <1>2, <3>1
<1>8. ASSUME NEW j \in LookedIn(f), j \notin R PROVE ~(Cardinality(after(j)) < WindowSize)
  <2>1. n = WindowSize /\ \A i \in 1..n : j < p[i]
    BY <1>1, <1>8
  <2>2. R \subseteq after(j)
    BY <1>3, <1>4, <2>1
  <2>3. IsFiniteSet(after(j)) /\ after(j) \subseteq LookedIn(f)
    BY <1>3, FS_Subset
  <2>4. Cardinality(R) <= Cardinality(after(j)) /\ Cardinality(after(j)) \in Nat
    <3> HIDE DEF R, after
    <3> QED
      BY <2>2, <2>3, FS_Subset, FS_CardinalityType
  <2> QED
    BY <1>2, <1>6, <2>1, <2>4
<1>9. Lately(f) = R
  <2>1. Lately(f) = {k \in LookedIn(f) : Cardinality(after(k)) < WindowSize}
    BY DEF Lately
  <2> HIDE DEF after
  <2> QED
    BY <1>4, <1>7, <1>8, <2>1
<1>10. Cardinality({k \in Lately(f) : seenRuns[k].health[f].empty}) = Cardinality(EmptyIn(w))
  <2>1. {k \in Lately(f) : seenRuns[k].health[f].empty} = {p[i] : i \in EmptyIn(w)}
    BY <1>1, <1>2, <1>9 DEF EmptyIn
  <2>2. EmptyIn(w) \subseteq 1..n
    BY <1>2 DEF EmptyIn
  <2>3. IsFiniteSet(EmptyIn(w))
    BY <1>2, <2>2, FS_Subset
  <2>4. \A i, j \in EmptyIn(w) : p[i] = p[j] => i = j
    BY <1>5, <2>2
  <2> QED
    BY <2>1, <2>3, <2>4, DistinctValues
<1> QED
  BY <1>6, <1>9, <1>10 DEF n

\* What is reported of which fields.
LEMMA AlertsFacts ==
    ASSUME NEW held, NEW f
    PROVE  /\ <<f, "high_empty_rate">> \in Alerts(held) <=>
                  f \in DOMAIN held /\ Len(held[f]) >= 2 /\ Half(held[f], EmptyIn(held[f]))
           /\ <<f, "count_drop">> \in Alerts(held) => f \in DOMAIN held /\ CountDrops(held[f])
<1> DEFINE watched == {g \in DOMAIN held : Len(held[g]) >= 2}
           A == {<<g, "high_empty_rate">> : g \in {g \in watched : Half(held[g], EmptyIn(held[g]))}}
           B == {<<g, "count_drop">> : g \in {g \in watched : CountDrops(held[g])}}
           C == {<<g, "pattern_mismatch">> : g \in {g \in watched : Half(held[g], MismatchedIn(held[g]))}}
<1>1. Alerts(held) = A \union B \union C
  BY DEF Alerts
<1>2. <<f, "high_empty_rate">> \in A <=> f \in watched /\ Half(held[f], EmptyIn(held[f]))
  OBVIOUS
<1>3. <<f, "high_empty_rate">> \notin B \union C
  OBVIOUS
<1>4. <<f, "count_drop">> \in B <=> f \in watched /\ CountDrops(held[f])
  OBVIOUS
<1>5. <<f, "count_drop">> \notin A \union C
  OBVIOUS
<1> HIDE DEF A, B, C
<1> QED
  BY <1>1, <1>2, <1>3, <1>4, <1>5

\* What the runs have left is what the reader is promised.
LEMMA WatchKnows == WatchIInv => WatchTells
<1> SUFFICES ASSUME WatchIInv PROVE WatchTells
  OBVIOUS
<1>1. RunsTold /\ HistoryTold /\ WindowsTold /\ Counted /\ (seenRuns # <<>> => report = Alerts(windows))
  BY DEF WatchIInv
<1>2. seenRuns \in Seq(Sightings) /\ Len(told) = Len(seenRuns) /\ Len(seenRuns) \in Nat
  BY <1>1 DEF RunsTold
<1>3. ASSUME NEW k \in 2..Len(told)
      PROVE  LET before == StructOf(seenRuns[k - 1].data) now == StructOf(seenRuns[k].data)
                 changes == told[k].changes
             IN  /\ IF before.kind = now.kind THEN After(before, changes) = now ELSE \E c \in changes : c.to = now.kind
                 /\ (changes = {}) => (before = now)
                 /\ (seenRuns[k - 1].data = seenRuns[k].data) => (changes = {})
  <2>1. k \in 1..Len(seenRuns) /\ k - 1 \in 1..Len(seenRuns)
    BY <1>2
  <2>2. seenRuns[k - 1] \in Sightings /\ seenRuns[k] \in Sightings
    BY <1>2, <2>1
  <2>3. /\ seenRuns[k - 1].data \in {s.data : s \in Sightings}
        /\ seenRuns[k].data \in {s.data : s \in Sightings}
    BY <2>2
  <2>4. told[k].changes = Diff(seenRuns[k - 1].data, seenRuns[k].data)
    BY <1>1 DEF RunsTold
  <2> QED
    BY <2>3, <2>4, DiffTells
<1>4. told # <<>> => history[Len(history)] = told[Len(told)] /\ Len(history) <= MaxHistory
  BY <1>1 DEF HistoryTold
<1>5. ASSUME seenRuns # <<>>, NEW f \in LookedFor
      PROVE  LET info(k) == seenRuns[k].health[f]
                 empty == {k \in Lately(f) : info(k).empty}
             IN  /\ Cardinality(Lately(f)) >= 2 /\ 2 * Cardinality(empty) >= Cardinality(Lately(f)) =>
                       <<f, "high_empty_rate">> \in report
                 /\ empty = {} => <<f, "high_empty_rate">> \notin report
                 /\ <<f, "count_drop">> \in report =>
                       \E j, k \in Lately(f) \ empty : j < k /\ info(j).count > info(k).count
  <2> DEFINE empty == {k \in Lately(f) : seenRuns[k].health[f].empty}
  <2>1. PICK w : w = windows[f]
    OBVIOUS
  <2>2. PICK p : InWindow(f, w, p)
    BY <1>1, <2>1 DEF WindowsTold
  <2>3. f \in DOMAIN windows /\ report = Alerts(windows)
    BY <1>1, <1>5 DEF WindowsTold
  <2>4. /\ <<f, "high_empty_rate">> \in report <=> Len(w) >= 2 /\ Half(w, EmptyIn(w))
        /\ <<f, "count_drop">> \in report => CountDrops(w)
    BY <2>1, <2>3, AlertsFacts
  <2>5. /\ Lately(f) = {p[i] : i \in 1..Len(w)} /\ Cardinality(Lately(f)) = Len(w)
        /\ Cardinality(empty) = Cardinality(EmptyIn(w))
    BY <1>2, <2>2, WindowIsLately
  <2>6. /\ w \in Seq(Infos) /\ \A i \in 1..Len(w) : w[i] = seenRuns[p[i]].health[f]
        /\ \A i, j \in 1..Len(w) : i < j => p[i] < p[j]
    BY <2>2 DEF InWindow
  <2>7. Half(w, EmptyIn(w)) <=> 2 * Cardinality(empty) >= Cardinality(Lately(f))
    BY <2>5 DEF Half
  <2>8. empty = {} => <<f, "high_empty_rate">> \notin report
    <3> SUFFICES ASSUME empty = {}, Len(w) >= 2, Half(w, EmptyIn(w)) PROVE FALSE
      BY <2>4
    <3>1. Cardinality(empty) = 0
      BY FS_EmptySet
    <3> HIDE DEF empty
    <3>2. 0 >= Len(w) /\ Len(w) \in Nat
      BY <2>5, <2>6, <2>7, <3>1
    <3> QED
      BY <3>2
  <2>9. <<f, "count_drop">> \in report =>
            \E j, k \in Lately(f) \ empty : j < k /\ seenRuns[j].health[f].count > seenRuns[k].health[f].count
    <3> SUFFICES ASSUME CountDrops(w)
                 PROVE  \E j, k \in Lately(f) \ empty :
                           j < k /\ seenRuns[j].health[f].count > seenRuns[k].health[f].count
      BY <2>4
    <3>1. PICK j \in FoundIn(w), k \in FoundIn(w) : j < k /\ w[j].count > w[k].count
      BY <2>6, DropsAreDrops
    <3>2. j \in 1..Len(w) /\ k \in 1..Len(w) /\ ~w[j].empty /\ ~w[k].empty
      BY <2>6, <3>1 DEF FoundIn, EmptyIn
    <3>3. p[j] \in Lately(f) \ empty /\ p[k] \in Lately(f) \ empty
      BY <2>5, <2>6, <3>2
    <3> HIDE DEF empty
    <3> QED
      BY <2>6, <3>1, <3>2, <3>3
  <2> QED
    BY <2>4, <2>5, <2>7, <2>8, <2>9
<1>6. /\ counts.total = counts.success + counts.failed
      /\ counts.failed = FailuresOf(counts.categories)
  BY <1>1 DEF Counted
<1>7. LET failed == [c \in Categories |-> counts.categories[c]]
      IN  counts.failed = failed["timeout"] + failed["network"] + failed["security"] + failed["circuit"]
                            + failed["validation"] + failed["http5xx"] + failed["http4xx"] + failed["other"]
  BY <1>6 DEF FailuresOf, Categories
<1> QED
  BY <1>3, <1>4, <1>5, <1>6, <1>7 DEF WatchTells

\* Windows and runs left alone are told as before.
LEMMA WindowsStay ==
    ASSUME WindowsTold, UNCHANGED <<windows, seenRuns>>
    PROVE  WindowsTold'
<1>1. windows' = windows /\ seenRuns' = seenRuns
  OBVIOUS
<1>2. LookedFor' = LookedFor
  BY <1>1 DEF LookedFor
<1>3. ASSUME NEW f, NEW w, NEW p, InWindow(f, w, p) PROVE InWindow(f, w, p)'
  <2>1. LookedIn(f)' = LookedIn(f)
    BY <1>1 DEF LookedIn
  <2> QED
    BY <1>1, <1>3, <2>1 DEF InWindow
<1>4. ASSUME NEW f \in LookedFor PROVE (\E p : InWindow(f, windows[f], p))'
  <2>1. PICK w : w = windows[f]
    OBVIOUS
  <2>2. PICK p : InWindow(f, w, p)
    BY <2>1 DEF WindowsTold
  <2>3. InWindow(f, w, p)' /\ w = windows'[f]
    BY <1>1, <1>3, <2>1, <2>2
  <2> QED
    BY <2>3
<1> QED
  BY <1>1, <1>2, <1>4 DEF WindowsTold

\* Whatever a page is seen to hold next, what was noted of it goes on to be told.
LEMMA WatchStepKeeps == WatchIInv /\ [WatchNext]_watchVars => WatchIInv'
<1> SUFFICES ASSUME WatchIInv, [WatchNext]_watchVars PROVE WatchIInv'
  OBVIOUS
<1> USE DEF WatchIInv
<1>1. RunsTold /\ HistoryTold /\ WindowsTold /\ Counted /\ (seenRuns # <<>> => report = Alerts(windows))
  OBVIOUS
<1>2. ASSUME NEW sighting \in Sightings, Notes(sighting), Counted'
      PROVE  WatchIInv'
  <2>1. RunsTold' /\ HistoryTold'
    BY <1>1, <1>2, NotesTell
  <2>2. WindowsTold'
    <3>1. seenRuns \in Seq(Sightings)
      BY <1>1 DEF RunsTold
    <3> QED
      BY <1>1, <1>2, <3>1, NotesWatch
  <2>3. report' = Alerts(windows')
    BY <1>2 DEF Notes
  <2> QED
    BY <1>2, <2>1, <2>2, <2>3
<1>3. ASSUME NEW sighting \in Sightings, RunSucceeds(sighting) PROVE WatchIInv'
  <2>1. Counted'
    BY <1>1, <1>3, CountsAdd DEF RunSucceeds
  <2> QED
    BY <1>2, <1>3, <2>1 DEF RunSucceeds
<1>4. ASSUME NEW sighting \in Sightings, RunRefused(sighting) PROVE WatchIInv'
  <2>1. Counted'
    BY <1>1, <1>4, CountsAdd DEF RunRefused
  <2> QED
    BY <1>2, <1>4, <2>1 DEF RunRefused
<1>5. ASSUME NEW err \in ErrorKinds, RequestFailed(err) PROVE WatchIInv'
  <2>1. Counted'
    BY <1>1, <1>5, CountsAdd DEF RequestFailed
  <2>2. UNCHANGED <<windows, snapshot, history, seenRuns, told, report>>
    BY <1>5 DEF RequestFailed
  <2>3. RunsTold' /\ HistoryTold'
    BY <1>1, <2>2 DEF RunsTold, HistoryTold
  <2>4. WindowsTold'
    BY <1>1, <2>2, WindowsStay
  <2> QED
    BY <1>1, <2>1, <2>2, <2>3, <2>4
<1>6. CASE Forgets
  <2>1. /\ snapshot' = NoSighting /\ windows' = <<>> /\ seenRuns' = <<>> /\ told' = <<>>
        /\ UNCHANGED <<history, counts>>
    BY <1>6 DEF Forgets
  <2>2. RunsTold'
    BY <2>1 DEF RunsTold
  <2>3. HistoryTold'
    BY <1>1, <2>1 DEF HistoryTold
  <2>4. WindowsTold'
    BY <2>1 DEF WindowsTold, LookedFor
  <2>5. Counted'
    BY <1>1, <2>1 DEF Counted
  <2> QED
    BY <2>1, <2>2, <2>3, <2>4, <2>5
<1>7. CASE UNCHANGED watchVars
  <2>1. UNCHANGED <<windows, snapshot, history, counts, seenRuns, told, report>>
    BY <1>7 DEF watchVars
  <2>2. RunsTold' /\ HistoryTold'
    BY <1>1, <2>1 DEF RunsTold, HistoryTold
  <2>3. WindowsTold'
    BY <1>1, <2>1, WindowsStay
  <2>4. Counted'
    BY <1>1, <2>1 DEF Counted
  <2> QED
    BY <1>1, <2>1, <2>2, <2>3, <2>4
<1> QED
  BY <1>3, <1>4, <1>5, <1>6, <1>7 DEF WatchNext

\* From what extract() tells of a page that it was run on again and again, a reader who saw the
\* first result knows what the latest looks like, whatever the runs saw and whichever of them
\* were refused; fields that are no longer found are reported, and no run or failure is lost
\* from the counts.
THEOREM WatchAlwaysTells == WatchInit /\ [][WatchNext]_watchVars => []WatchTells
<1>1. WatchInit => WatchIInv
  <2> SUFFICES ASSUME WatchInit PROVE WatchIInv
    OBVIOUS
  <2>1. /\ windows = <<>> /\ snapshot = NoSighting /\ history = <<>> /\ seenRuns = <<>> /\ told = <<>>
        /\ counts = [total |-> 0, success |-> 0, failed |-> 0, categories |-> [c \in Categories |-> 0]]
    BY DEF WatchInit
  <2>2. RunsTold
    BY <2>1 DEF RunsTold
  <2>3. HistoryTold
    BY <2>1, WatchAssumption DEF HistoryTold
  <2>4. WindowsTold
    BY <2>1 DEF WindowsTold, LookedFor
  <2>5. Counted
    BY <2>1 DEF Counted, FailuresOf, Categories
  <2> QED
    BY <2>1, <2>2, <2>3, <2>4, <2>5 DEF WatchIInv
<1>2. WatchIInv /\ [WatchNext]_watchVars => WatchIInv'
  BY WatchStepKeeps
<1>3. WatchIInv => WatchTells
  BY WatchKnows
<1> QED
  BY <1>1, <1>2, <1>3, PTL

-----------------------------------------------------------------------------
(* All parts together, as TLC runs them.                                   *)

\* A step of the whole is, of each part, one of its own steps or none.
LEMMA PartsStep ==
    ASSUME [QueueNext]_queueVars
    PROVE  /\ [Next]_vars /\ [CrawlNext]_crawlVars /\ [FlowNext]_flowVars /\ [FileNext]_fileVars
           /\ [SnapNext]_snapVars /\ [WatchNext]_watchVars /\ [WebhookNext]_webhookVars
           /\ [SessionsNext]_sessionVars
<1>1. CASE UNCHANGED queueVars
  BY <1>1 DEF queueVars, pageVars, noteVars
<1>2. CASE Distributed /\ Next
  BY <1>2 DEF Distributed, pageVars, noteVars
<1>3. CASE Crawling /\ CrawlNext
  BY <1>3 DEF Crawling, noteVars
<1>4. CASE Flowing /\ FlowNext
  BY <1>4 DEF Flowing, noteVars
<1>5. CASE Filing /\ FileNext
  BY <1>5 DEF Filing, noteVars
<1>6. CASE Extracting /\ SnapNext
  BY <1>6 DEF Extracting, Noting
<1>7. CASE Watching /\ WatchNext
  BY <1>7 DEF Watching, Noting
<1>8. CASE Telling /\ WebhookNext
  BY <1>8 DEF Telling, Noting
<1>9. CASE InSession /\ SessionsNext
  BY <1>9 DEF InSession, Noting
<1> QED
  BY <1>1, <1>2, <1>3, <1>4, <1>5, <1>6, <1>7, <1>8, <1>9 DEF QueueNext

\* In whichever order the parts take their steps, what extract() answers, reports and sends
\* is true of the page, in every state of the whole.
THEOREM ExtractsAlwaysTell == QueueSpec => []ExtractsTell
<1>1. QueueInit => SnapInit /\ WatchInit /\ WebhookInit
  BY DEF QueueInit
<1>2. [QueueNext]_queueVars => [SnapNext]_snapVars /\ [WatchNext]_watchVars /\ [WebhookNext]_webhookVars
  BY PartsStep
<1>3. QueueSpec => []SnapshotsVouch /\ []WatchTells /\ []DeliveriesTold
  BY <1>1, <1>2, SnapshotsAlwaysVouch, WatchAlwaysTells, DeliveriesAlwaysTold, PTL DEF QueueSpec
<1>4. SnapshotsVouch /\ WatchTells /\ DeliveriesTold => ExtractsTell
  BY DEF ExtractsTell
<1> QED
  BY <1>3, <1>4, PTL

\* The same of the crawl and the sessions: no link is forgotten, and no cookie strays, in
\* every state of the whole.
THEOREM CrawlsAndSessionsKeep == QueueSpec => [](CrawlKeeps /\ SessionsApart)
<1>1. QueueInit => CrawlInit /\ SessionsInit
  BY DEF QueueInit
<1>2. [QueueNext]_queueVars => [CrawlNext]_crawlVars /\ [SessionsNext]_sessionVars
  BY PartsStep
<1> QED
  BY <1>1, <1>2, CrawlForgetsNothing, SessionsStayApart, PTL DEF QueueSpec

\* The robots.txt and the sitemaps of a state of Discover, in any of the whole.
LEMMA PublishedStays == QueueInit /\ [][QueueNext]_queueVars => []Published
<1>1. QueueInit => Published
  BY PublishedAtFirst DEF QueueInit
<1>2. [QueueNext]_queueVars => UNCHANGED discoverVars
  BY DEF QueueNext, queueVars, pageVars, Distributed, Crawling, Flowing, Filing, Extracting, Watching, Telling,
         InSession, Noting
<1>3. Published /\ UNCHANGED discoverVars => Published'
  BY DEF Published, discoverVars
<1> QED
  BY <1>1, <1>2, <1>3, PTL

\* In every state of the whole, a crawl visits, queues or holds what it has come to, and
\* Discover finds what a site publishes of itself.
THEOREM CrawlsAreComplete == QueueSpec => []CrawlComplete
<1>1. QueueSpec => []CrawlKeeps /\ []Published
  BY CrawlsAndSessionsKeep, PublishedStays, PTL DEF QueueSpec
<1>2. CrawlKeeps /\ Published => CrawlComplete
  BY PublishedIsFound DEF CrawlComplete
<1> QED
  BY <1>1, <1>2, PTL

-----------------------------------------------------------------------------
(* Flows: rows counted.                                                    *)

\* How often a row is in one sequence after another.
LEMMA TimesFacts ==
    ASSUME NEW U, NEW a \in Seq(U), NEW b \in Seq(U), NEW r
    PROVE  /\ Times(a, r) \in Nat
           /\ Times(a \o b, r) = Times(a, r) + Times(b, r)
<1> DEFINE A == {k \in 1..Len(a) : a[k] = r}
           B == {k \in 1..Len(b) : b[k] = r}
           ab == a \o b
           C == {Len(a) + k : k \in B}
<1>1. /\ Len(a) \in Nat /\ DOMAIN a = 1..Len(a) /\ Len(b) \in Nat /\ DOMAIN b = 1..Len(b)
      /\ DOMAIN ab = 1..Len(a) + Len(b)
      /\ \A k \in 1..Len(a) : ab[k] = a[k]
      /\ \A k \in 1..Len(b) : ab[Len(a) + k] = b[k]
  OBVIOUS
<1> HIDE DEF ab
<1>2. IsFiniteSet(A) /\ IsFiniteSet(B)
  <2>1. IsFiniteSet(1..Len(a)) /\ IsFiniteSet(1..Len(b))
    BY <1>1, FS_Interval
  <2>2. A \subseteq 1..Len(a) /\ B \subseteq 1..Len(b)
    OBVIOUS
  <2> HIDE DEF A, B
  <2> QED
    BY <2>1, <2>2, FS_Subset
<1>3. Cardinality(A) \in Nat /\ Cardinality(B) \in Nat
  BY <1>2, FS_CardinalityType
<1>4. IsFiniteSet(C) /\ Cardinality(C) = Cardinality(B)
  <2> DEFINE shift == [k \in B |-> Len(a) + k]
  <2>1. \A j, k \in B : shift[j] = shift[k] => j = k
    BY <1>1
  <2>2. C = {shift[k] : k \in B}
    OBVIOUS
  <2> HIDE DEF shift, C, B
  <2> QED
    BY <1>2, <2>1, <2>2, DistinctValues
<1>5. {k \in DOMAIN ab : ab[k] = r} = A \union C
  <2>1. ASSUME NEW k \in DOMAIN ab, ab[k] = r PROVE k \in A \union C
    <3>1. CASE k <= Len(a)
      BY <1>1, <2>1, <3>1
    <3>2. CASE ~(k <= Len(a))
      <4>1. k - Len(a) \in 1..Len(b) /\ k = Len(a) + (k - Len(a))
        BY <1>1, <3>2
      <4>2. b[k - Len(a)] = r
        BY <1>1, <2>1, <4>1
      <4> QED
        BY <4>1, <4>2
    <3> QED
      BY <3>1, <3>2
  <2>2. ASSUME NEW k \in A PROVE k \in DOMAIN ab /\ ab[k] = r
    BY <1>1
  <2>3. ASSUME NEW k \in B PROVE Len(a) + k \in DOMAIN ab /\ ab[Len(a) + k] = r
    BY <1>1
  <2> QED
    BY <2>1, <2>2, <2>3
<1>6. A \intersect C = {}
  BY <1>1
<1>7. Times(a, r) = Cardinality(A) /\ Times(b, r) = Cardinality(B) /\ Times(ab, r) = Cardinality(A \union C)
  BY <1>1, <1>5 DEF Times
<1>8. Cardinality(A \union C) = Cardinality(A) + Cardinality(C)
  <2> HIDE DEF A, C
  <2>1. Cardinality(A \intersect C) = 0
    BY <1>6, FS_EmptySet
  <2>2. Cardinality(A \union C) = Cardinality(A) + Cardinality(C) - Cardinality(A \intersect C)
    BY <1>2, <1>4, FS_Union
  <2> QED
    BY <1>3, <1>4, <2>1, <2>2
<1> QED
  BY <1>3, <1>4, <1>7, <1>8 DEF ab

\* Of nothing, and of one row.
LEMMA TimesOfFew ==
    \A r : Times(<<>>, r) = 0 /\ \A x : Times(<<x>>, r) = IF x = r THEN 1 ELSE 0
<1> TAKE r
<1> SUFFICES ASSUME NEW x PROVE Times(<<>>, r) = 0 /\ Times(<<x>>, r) = IF x = r THEN 1 ELSE 0
  OBVIOUS
<1>1. DOMAIN <<x>> = {1} /\ <<x>>[1] = x /\ DOMAIN <<>> = {}
  OBVIOUS
<1>2. Times(<<>>, r) = Cardinality({}) /\ Times(<<x>>, r) = Cardinality(IF x = r THEN {1} ELSE {})
  <2>1. {k \in DOMAIN <<x>> : <<x>>[k] = r} = IF x = r THEN {1} ELSE {}
    BY <1>1
  <2>2. {k \in DOMAIN <<>> : <<>>[k] = r} = {}
    BY <1>1
  <2> QED
    BY <2>1, <2>2 DEF Times
<1>3. Cardinality({}) = 0 /\ Cardinality({1}) = 1
  BY FS_EmptySet, FS_Singleton
<1> QED
  BY <1>2, <1>3

\* Taken in order, each of a set of rows is there once.
LEMMA InOrderFacts ==
    ASSUME NEW set \in SUBSET (1..Pages)
    PROVE  /\ InOrder(set) \in Seq(1..Pages)
           /\ \A r \in 1..Pages : Times(InOrder(set), r) = IF r \in set THEN 1 ELSE 0
<1>0. PICK U : U = 1..Pages
  OBVIOUS
<1> DEFINE next == [s \in Seq(U) |-> [k \in Nat |-> IF k \in set THEN Append(s, k) ELSE s]]
           those[k \in 0..Pages] ==
              IF k = 0 THEN <<>> ELSE IF k \in set THEN Append(those[k - 1], k) ELSE those[k - 1]
<1>1. Pages \in Nat /\ set \subseteq U /\ \A k : k \in U <=> k \in Nat /\ 1 <= k /\ k <= Pages
  BY <1>0, FlowsAssumption
<1>2. next \in [Seq(U) -> [Nat -> Seq(U)]]
  <2>1. \A s \in Seq(U), k \in set : Append(s, k) \in Seq(U)
    BY <1>1
  <2> QED
    BY <2>1
<1>3. <<>> \in Seq(U)
  OBVIOUS
<1>4. PICK g \in [0..Pages -> Seq(U)] : GoesOn(g, <<>>, next, Pages)
  <2> HIDE DEF next
  <2> QED
    BY <1>1, <1>2, <1>3, Recursion
<1>5. \A k \in 1..Pages : g[k] = IF k \in set THEN Append(g[k - 1], k) ELSE g[k - 1]
  <2> TAKE k \in 1..Pages
  <2>1. k - 1 \in 0..Pages /\ k \in Nat
    BY <1>1
  <2>2. g[k - 1] \in Seq(U)
    BY <2>1
  <2>3. g[k] = next[g[k - 1]][k]
    BY <1>4 DEF GoesOn
  <2> QED
    BY <2>1, <2>2, <2>3
<1>6. /\ those[0] = <<>>
      /\ \A k \in 1..Pages : those[k] = IF k \in set THEN Append(those[k - 1], k) ELSE those[k - 1]
  <2> HIDE DEF next
  <2>1. 0 \in 0..Pages /\ \A k \in 1..Pages : k \in 0..Pages /\ k # 0
    BY <1>1
  <2>2. \A k \in 0..Pages : k # 0 => k \in 1..Pages
    BY <1>1
  <2>3. g = [k \in 0..Pages |-> IF k = 0 THEN <<>> ELSE IF k \in set THEN Append(g[k - 1], k) ELSE g[k - 1]]
    BY <1>4, <1>5, <2>2 DEF GoesOn
  <2>4. those = [k \in 0..Pages |->
                    IF k = 0 THEN <<>> ELSE IF k \in set THEN Append(those[k - 1], k) ELSE those[k - 1]]
    BY <2>3
  <2> HIDE DEF those
  <2> QED
    BY <2>1, <2>4
<1>7. InOrder(set) = those[Pages]
  BY DEF InOrder
<1> DEFINE Good == {n \in Nat : n <= Pages =>
                       /\ those[n] \in Seq(U)
                       /\ \A r \in U : Times(those[n], r) = IF r \in set /\ r <= n THEN 1 ELSE 0}
<1> HIDE DEF those, next
<1>8. 0 \in Good
  <2>1. \A r \in U : Times(<<>>, r) = 0 /\ ~(r <= 0)
    BY <1>1, TimesOfFew
  <2> QED
    BY <1>3, <1>6, <2>1
<1>9. \A n \in Nat : n \in Good => n + 1 \in Good
  <2> TAKE n \in Nat
  <2> HAVE n \in Good
  <2> SUFFICES ASSUME n + 1 <= Pages
               PROVE  /\ those[n + 1] \in Seq(U)
                      /\ \A r \in U : Times(those[n + 1], r) = IF r \in set /\ r <= n + 1 THEN 1 ELSE 0
    OBVIOUS
  <2>1. n <= Pages /\ n + 1 \in U /\ (n + 1) - 1 = n
    <3>1. n + 1 \in Nat /\ 1 <= n + 1
      OBVIOUS
    <3>2. n + 1 \in U
      BY <1>1, <3>1
    <3> QED
      BY <1>1, <3>2
  <2>2. /\ those[n] \in Seq(U)
        /\ \A r \in U : Times(those[n], r) = IF r \in set /\ r <= n THEN 1 ELSE 0
    BY <2>1
  <2>3. those[n + 1] = IF n + 1 \in set THEN Append(those[n], n + 1) ELSE those[n]
    <3>1. n + 1 \in 1..Pages
      BY <1>0, <2>1
    <3> QED
      BY <1>6, <2>1, <3>1
  <2> PICK m : m = n + 1
    OBVIOUS
  <2>4. those[n + 1] \in Seq(U)
    <3>1. Append(those[n], m) \in Seq(U)
      BY <2>1, <2>2
    <3> QED
      BY <2>2, <2>3, <3>1
  <2>5. ASSUME NEW r \in U PROVE Times(those[n + 1], r) = IF r \in set /\ r <= n + 1 THEN 1 ELSE 0
    <3>1. CASE n + 1 \in set
      <4>1. those[n + 1] = those[n] \o <<n + 1>> /\ <<n + 1>> \in Seq(U)
        <5>1. Append(those[n], m) = those[n] \o <<m>> /\ <<m>> \in Seq(U)
          BY <2>1, <2>2
        <5> QED
          BY <2>3, <3>1, <5>1
      <4>2. Times(those[n + 1], r) = Times(those[n], r) + Times(<<n + 1>>, r)
        <5> PICK s, t : s = those[n] /\ t = <<n + 1>>
          OBVIOUS
        <5>2. s \in Seq(U) /\ t \in Seq(U)
          BY <2>2, <4>1
        <5>3. Times(s \o t, r) = Times(s, r) + Times(t, r)
          BY <5>2, TimesFacts
        <5>1. Times(those[n] \o <<n + 1>>, r) = Times(those[n], r) + Times(<<n + 1>>, r)
          BY <5>3
        <5> QED
          BY <4>1, <5>1
      <4>3. Times(<<n + 1>>, r) = IF n + 1 = r THEN 1 ELSE 0
        BY TimesOfFew
      <4> QED
        <5>1. r = n + 1 \/ (r # n + 1 /\ (r <= n + 1 <=> r <= n))
          BY <1>1
        <5>2. n + 1 = r => r \in set /\ r <= n + 1 /\ ~(r <= n)
          BY <1>1, <3>1
        <5> QED
          BY <2>2, <4>2, <4>3, <5>1, <5>2
    <3>2. CASE n + 1 \notin set
      <4>1. r \in set => (r <= n + 1 <=> r <= n)
        BY <1>1, <3>2
      <4> QED
        BY <2>2, <2>3, <3>2, <4>1
    <3> QED
      BY <3>1, <3>2
  <2> QED
    BY <2>4, <2>5
<1>10. Pages \in Good
  <2> HIDE DEF Good
  <2> QED
    BY <1>1, <1>8, <1>9, AllNumbers
<1>11. /\ those[Pages] \in Seq(U)
       /\ \A r \in U : Times(those[Pages], r) = IF r \in set /\ r <= Pages THEN 1 ELSE 0
  BY <1>1, <1>10
<1> QED
  BY <1>0, <1>1, <1>7, <1>11

-----------------------------------------------------------------------------
(* Flows: what a sink does with the rows it is handed.                     *)

FlowRows == 1..Pages

SinkShaped(sink) ==
    /\ DOMAIN sink = {"buffer", "stored", "givenUp", "closed"}
    /\ sink.buffer \in Seq(FlowRows) /\ sink.stored \in Seq(FlowRows) /\ sink.givenUp \in Seq(FlowRows)
    /\ sink.closed \in BOOLEAN

SinksShaped ==
    /\ DOMAIN sinks = {"inner", "outer"} /\ SinkShaped(sinks["inner"]) /\ SinkShaped(sinks["outer"])

\* How often a sink has a row, and how often the flow has handed it over.
Has(sink, r) == Times(sink.buffer, r) + Times(sink.stored, r) + Times(sink.givenUp, r)
Had(r) == Has(sinks["inner"], r) + Has(sinks["outer"], r)

\* A row in the buffer, stored, or given up is a row a sink has.
LEMMA SinkFacts ==
    ASSUME NEW sink, SinkShaped(sink), NEW list \in Seq(FlowRows)
    PROVE  LET filled == [sink EXCEPT !.buffer = @ \o list]
           IN  /\ SinkShaped(filled) /\ filled.buffer = sink.buffer \o list
               /\ filled.givenUp = sink.givenUp /\ filled.closed = sink.closed
               /\ \A r : Has(filled, r) = Has(sink, r) + Times(list, r)
               /\ \A r : Has(sink, r) \in Nat /\ Times(list, r) \in Nat
<1> DEFINE filled == [sink EXCEPT !.buffer = @ \o list]
<1>1. /\ DOMAIN filled = DOMAIN sink /\ filled.buffer = sink.buffer \o list
      /\ filled.stored = sink.stored /\ filled.givenUp = sink.givenUp /\ filled.closed = sink.closed
  BY DEF SinkShaped
<1> HIDE DEF filled
<1>2. SinkShaped(filled)
  <2>1. sink.buffer \o list \in Seq(FlowRows)
    BY DEF SinkShaped
  <2> QED
    BY <1>1, <2>1 DEF SinkShaped
<1>3. ASSUME NEW r PROVE /\ Has(filled, r) = Has(sink, r) + Times(list, r)
                         /\ Has(sink, r) \in Nat /\ Times(list, r) \in Nat
  <2>1. Times(sink.buffer \o list, r) = Times(sink.buffer, r) + Times(list, r)
    BY TimesFacts DEF SinkShaped
  <2>2. /\ Times(sink.buffer, r) \in Nat /\ Times(sink.stored, r) \in Nat /\ Times(sink.givenUp, r) \in Nat
        /\ Times(list, r) \in Nat
    BY TimesFacts DEF SinkShaped
  <2> QED
    BY <1>1, <2>1, <2>2 DEF Has
<1> QED
  BY <1>1, <1>2, <1>3 DEF filled

\* Flushing moves the rows of the buffer to those stored, or given up.
LEMMA FlushFacts ==
    ASSUME NEW sink, SinkShaped(sink)
    PROVE  /\ SinkShaped(FlushedOut(sink)) /\ FlushedOut(sink).buffer = <<>>
           /\ FlushedOut(sink).givenUp = sink.givenUp /\ FlushedOut(sink).closed = sink.closed
           /\ SinkShaped(FlushGivenUp(sink)) /\ FlushGivenUp(sink).buffer = <<>>
           /\ FlushGivenUp(sink).givenUp = sink.givenUp \o sink.buffer /\ FlushGivenUp(sink).closed = sink.closed
           /\ \A r : Has(FlushedOut(sink), r) = Has(sink, r) /\ Has(FlushGivenUp(sink), r) = Has(sink, r)
<1> DEFINE out == FlushedOut(sink)
           up == FlushGivenUp(sink)
<1>1. /\ DOMAIN out = DOMAIN sink /\ out.buffer = <<>> /\ out.stored = sink.stored \o sink.buffer
      /\ out.givenUp = sink.givenUp /\ out.closed = sink.closed
  BY DEF SinkShaped, FlushedOut
<1>2. /\ DOMAIN up = DOMAIN sink /\ up.buffer = <<>> /\ up.stored = sink.stored
      /\ up.givenUp = sink.givenUp \o sink.buffer /\ up.closed = sink.closed
  BY DEF SinkShaped, FlushGivenUp
<1> HIDE DEF out, up
<1>3. SinkShaped(out) /\ SinkShaped(up)
  <2>1. /\ sink.stored \o sink.buffer \in Seq(FlowRows) /\ sink.givenUp \o sink.buffer \in Seq(FlowRows)
        /\ <<>> \in Seq(FlowRows)
    BY DEF SinkShaped
  <2> QED
    BY <1>1, <1>2, <2>1 DEF SinkShaped
<1>4. ASSUME NEW r PROVE Has(out, r) = Has(sink, r) /\ Has(up, r) = Has(sink, r)
  <2>1. /\ Times(sink.stored \o sink.buffer, r) = Times(sink.stored, r) + Times(sink.buffer, r)
        /\ Times(sink.givenUp \o sink.buffer, r) = Times(sink.givenUp, r) + Times(sink.buffer, r)
    BY TimesFacts DEF SinkShaped
  <2>2. Times(sink.buffer, r) \in Nat /\ Times(sink.stored, r) \in Nat /\ Times(sink.givenUp, r) \in Nat
    BY TimesFacts DEF SinkShaped
  <2>3. Times(<<>>, r) = 0
    BY TimesOfFew
  <2> QED
    BY <1>1, <1>2, <2>1, <2>2, <2>3 DEF Has
<1> QED
  BY <1>1, <1>2, <1>3, <1>4 DEF out, up

\* Closing leaves it the rows.
LEMMA ClosedFacts ==
    ASSUME NEW sink, SinkShaped(sink), flow.owned \in BOOLEAN
    PROVE  /\ SinkShaped(Closed(sink)) /\ Closed(sink).buffer = sink.buffer
           /\ Closed(sink).givenUp = sink.givenUp /\ (Closed(sink).closed <=> flow.owned \/ sink.closed)
           /\ \A r : Has(Closed(sink), r) = Has(sink, r)
<1> DEFINE shut == Closed(sink)
<1>1. /\ DOMAIN shut = DOMAIN sink /\ shut.buffer = sink.buffer /\ shut.stored = sink.stored
      /\ shut.givenUp = sink.givenUp
  BY DEF SinkShaped, Closed
<1>2. shut.closed = (flow.owned \/ sink.closed)
  BY DEF SinkShaped, Closed
<1> HIDE DEF shut
<1> QED
  BY <1>1, <1>2 DEF shut, SinkShaped, Has

\* A write that returns, or that throws, hands over its rows, whatever becomes of the buffer.
LEMMA Written ==
    ASSUME SinksShaped, NEW s \in {"inner", "outer"}, NEW list \in Seq(FlowRows), NEW new,
           LET filled == [sinks[s] EXCEPT !.buffer = @ \o list]
           IN  new = filled \/ new = FlushedOut(filled) \/ new = FlushGivenUp(filled),
           sinks' = [sinks EXCEPT ![s] = new]
    PROVE  /\ SinksShaped' /\ \A r : Had(r)' = Had(r) + Times(list, r)
           /\ sinks'[s].closed = sinks[s].closed /\ \A t \in {"inner", "outer"} : t # s => sinks'[t] = sinks[t]
           /\ \A t \in {"inner", "outer"} : sinks[t].givenUp # <<>> => sinks'[t].givenUp # <<>>
<1> DEFINE sink == sinks[s]
           filled == [sink EXCEPT !.buffer = @ \o list]
<1>1. SinkShaped(sink)
  BY DEF SinksShaped
<1>2. /\ SinkShaped(filled) /\ filled.buffer = sink.buffer \o list
      /\ filled.givenUp = sink.givenUp /\ filled.closed = sink.closed
      /\ \A r : Has(filled, r) = Has(sink, r) + Times(list, r)
  BY <1>1, SinkFacts
<1>3. new = filled \/ new = FlushedOut(filled) \/ new = FlushGivenUp(filled)
  OBVIOUS
<1> HIDE DEF filled
<1>4. /\ SinkShaped(new) /\ new.closed = sink.closed /\ (sink.givenUp # <<>> => new.givenUp # <<>>)
      /\ \A r : Has(new, r) = Has(sink, r) + Times(list, r)
  <2>1. CASE new = filled
    BY <1>2, <2>1
  <2>2. CASE new = FlushedOut(filled)
    BY <1>2, <2>2, FlushFacts
  <2>3. CASE new = FlushGivenUp(filled)
    <3>1. /\ SinkShaped(new) /\ new.closed = sink.closed /\ new.givenUp = filled.givenUp \o filled.buffer
          /\ \A r : Has(new, r) = Has(filled, r)
      BY <1>2, <2>3, FlushFacts
    <3>2. filled.givenUp \in Seq(FlowRows) /\ filled.buffer \in Seq(FlowRows)
      BY <1>2 DEF SinkShaped
    <3>3. filled.givenUp # <<>> => filled.givenUp \o filled.buffer # <<>>
      <4> PICK a, b : a = filled.givenUp /\ b = filled.buffer
        OBVIOUS
      <4>1. a \in Seq(FlowRows) /\ b \in Seq(FlowRows)
        BY <3>2
      <4>2. a # <<>> => a \o b # <<>>
        BY <4>1
      <4> QED
        BY <4>2
    <3> QED
      BY <1>2, <3>1, <3>3
  <2> QED
    BY <1>3, <2>1, <2>2, <2>3
<1>5. /\ DOMAIN sinks' = {"inner", "outer"} /\ sinks'[s] = new
      /\ \A t \in {"inner", "outer"} : t # s => sinks'[t] = sinks[t]
  BY DEF SinksShaped
<1>6. SinksShaped'
  BY <1>4, <1>5 DEF SinksShaped
<1>7. ASSUME NEW r PROVE Had(r)' = Had(r) + Times(list, r)
  <2>1. /\ Has(sinks["inner"], r) \in Nat /\ Has(sinks["outer"], r) \in Nat /\ Times(list, r) \in Nat
    BY SinkFacts DEF SinksShaped
  <2>2. Has(sinks'[s], r) = Has(sinks[s], r) + Times(list, r)
    BY <1>4, <1>5
  <2>3. CASE s = "inner"
    BY <1>5, <2>1, <2>2, <2>3 DEF Had
  <2>4. CASE s = "outer"
    BY <1>5, <2>1, <2>2, <2>4 DEF Had
  <2> QED
    BY <2>3, <2>4
<1> QED
  BY <1>4, <1>5, <1>6, <1>7

\* A sink that is finished has every row of its buffer stored, or given up.
LEMMA Finished ==
    ASSUME SinksShaped, flow.owned \in BOOLEAN, NEW s \in {"inner", "outer"}, NEW new,
           new = Closed(FlushedOut(sinks[s])) \/ new = Closed(FlushGivenUp(sinks[s])),
           sinks' = [sinks EXCEPT ![s] = new]
    PROVE  /\ SinksShaped' /\ \A r : Had(r)' = Had(r)
           /\ sinks'[s].buffer = <<>> /\ (sinks'[s].closed <=> flow.owned \/ sinks[s].closed)
           /\ \A t \in {"inner", "outer"} : t # s => sinks'[t] = sinks[t]
           /\ \A t \in {"inner", "outer"} : sinks[t].givenUp # <<>> => sinks'[t].givenUp # <<>>
<1> DEFINE sink == sinks[s]
<1>1. SinkShaped(sink)
  BY DEF SinksShaped
<1>2. /\ SinkShaped(new) /\ new.buffer = <<>> /\ (new.closed <=> flow.owned \/ sink.closed)
      /\ new.givenUp \in {sink.givenUp, sink.givenUp \o sink.buffer}
      /\ \A r : Has(new, r) = Has(sink, r)
  <2>1. PICK flushed : /\ flushed = FlushedOut(sink) \/ flushed = FlushGivenUp(sink)
                       /\ new = Closed(flushed)
    OBVIOUS
  <2>2. /\ SinkShaped(flushed) /\ flushed.buffer = <<>> /\ flushed.closed = sink.closed
        /\ flushed.givenUp \in {sink.givenUp, sink.givenUp \o sink.buffer}
        /\ \A r : Has(flushed, r) = Has(sink, r)
    <3>1. CASE flushed = FlushedOut(sink)
      BY <1>1, <3>1, FlushFacts
    <3>2. CASE flushed = FlushGivenUp(sink)
      BY <1>1, <3>2, FlushFacts
    <3> QED
      BY <2>1, <3>1, <3>2
  <2>3. /\ SinkShaped(new) /\ new.buffer = flushed.buffer /\ (new.closed <=> flow.owned \/ flushed.closed)
        /\ new.givenUp = flushed.givenUp /\ \A r : Has(new, r) = Has(flushed, r)
    BY <2>1, <2>2, ClosedFacts
  <2> HIDE DEF sink
  <2> QED
    BY <2>2, <2>3
<1>3. sink.givenUp # <<>> => new.givenUp # <<>>
  <2> PICK a, b : a = sink.givenUp /\ b = sink.buffer
    OBVIOUS
  <2>1. a \in Seq(FlowRows) /\ b \in Seq(FlowRows)
    BY <1>1 DEF SinkShaped
  <2>2. a # <<>> => a \o b # <<>>
    BY <2>1
  <2> QED
    BY <1>2, <2>2
<1>4. /\ DOMAIN sinks' = {"inner", "outer"} /\ sinks'[s] = new
      /\ \A t \in {"inner", "outer"} : t # s => sinks'[t] = sinks[t]
  BY DEF SinksShaped
<1>5. SinksShaped'
  BY <1>2, <1>4 DEF SinksShaped
<1>6. ASSUME NEW r PROVE Had(r)' = Had(r)
  BY <1>2, <1>4 DEF Had
<1> QED
  BY <1>2, <1>3, <1>4, <1>5, <1>6

-----------------------------------------------------------------------------
(* Flows: the inductive invariant.                                         *)

FlowPhases ==
    {"extracting", "writing", "yielded", "finishing", "leaving", "rejecting", "exporting", "exported",
     "resolved", "rejected", "left"}

FlowTyped ==
    /\ flow.kind \in Kinds /\ flow.owned \in BOOLEAN /\ phase \in FlowPhases
    /\ begun \in Nat /\ begun <= Pages /\ read \subseteq 1..begun /\ flowPauses \in Nat
    /\ turnedAway \subseteq read /\ passed \subseteq read \ turnedAway
    /\ due \in Seq(FlowRows)
    /\ SinksShaped

\* Which flows come to a phase, where rows are still due, and what a flow that rejects has behind it.
PhasesFit ==
    /\ phase \in {"yielded", "leaving", "rejecting", "left"} => flow.kind = "stream"
    /\ phase \in {"exporting", "exported"} => flow.kind = "export"
    /\ phase \in {"extracting", "finishing", "resolved", "exporting", "exported"} => due = <<>>
    /\ phase = "rejected" /\ flow.kind = "crawl" => due = <<>>
    /\ phase \in {"rejecting", "rejected"} => \E s \in {"inner", "outer"} : sinks[s].givenUp # <<>>

\* A row that was read is due or was handed over, once, and a second time when it is exported.
RowsCounted ==
    /\ flow.kind # "export" \/ phase \notin {"exported", "resolved", "rejected"} =>
          \A r \in FlowRows : Had(r) + Times(due, r) = IF r \in read \ turnedAway THEN 1 ELSE 0
    /\ flow.kind = "export" /\ phase \in {"exported", "resolved"} =>
          \A r \in FlowRows : Had(r) = IF r \in read THEN 2 ELSE 0
    /\ \A r \in passed : Times(due, r) = 0

\* Which sinks are empty, and closed, and which are neither.
Shut(s) == sinks[s].buffer = <<>> /\ (flow.owned => sinks[s].closed)

SinksFit ==
    /\ \A s \in {"inner", "outer"} : sinks[s].closed => flow.owned
    /\ Target # "inner" => sinks["inner"].buffer = <<>>
    /\ flow.kind # "crawl" /\ phase \notin Ended \union {"exporting", "exported"} => ~sinks[Target].closed
    /\ Target = "inner" /\ phase \in {"exporting", "exported", "resolved"} => Shut("inner")
    /\ flow.kind = "export" /\ phase \notin {"resolved", "rejected"} => ~sinks["outer"].closed
    /\ phase = "resolved" => Shut("outer")
    /\ flow.kind = "stream" /\ phase \in Ended => Shut("outer")

\* Only a pause lets a crawl end with URLs left, and only then is a closed sink written to.
PausesFit ==
    /\ flow.kind = "crawl" /\ phase \in {"finishing", "resolved", "rejected"} /\ begun < Pages => flowPauses > 0
    /\ flow.kind = "crawl" /\ phase \in {"extracting", "writing"} /\ sinks["outer"].closed => flowPauses > 0
    /\ turnedAway # {} => flow.kind = "crawl" /\ flow.owned /\ flowPauses > 0

FlowIInv == FlowTyped /\ PhasesFit /\ RowsCounted /\ SinksFit /\ PausesFit

\* How often is a number.
LEMMA HadCounts ==
    ASSUME SinksShaped, NEW r
    PROVE  Had(r) \in Nat
<1>1. ASSUME NEW sink, SinkShaped(sink) PROVE Has(sink, r) \in Nat
  <2>1. /\ Times(sink.buffer, r) \in Nat /\ Times(sink.stored, r) \in Nat /\ Times(sink.givenUp, r) \in Nat
    BY <1>1, TimesFacts DEF SinkShaped
  <2> QED
    BY <2>1 DEF Has
<1>2. Has(sinks["inner"], r) \in Nat /\ Has(sinks["outer"], r) \in Nat
  BY <1>1 DEF SinksShaped
<1> QED
  BY <1>2 DEF Had

\* A flow starts with nothing read and sinks that are empty.
LEMMA FlowStarts == FlowInit => FlowIInv
<1> SUFFICES ASSUME FlowInit PROVE FlowIInv
  OBVIOUS
<1>1. /\ flow.kind \in Kinds /\ flow.owned \in BOOLEAN
      /\ phase = "extracting" /\ begun = 0 /\ due = <<>> /\ read = {} /\ passed = {}
      /\ sinks["inner"] = NewSink /\ sinks["outer"] = NewSink /\ DOMAIN sinks = {"inner", "outer"}
      /\ turnedAway = {} /\ flowPauses = 0
  BY DEF FlowInit
<1>2. /\ DOMAIN NewSink = {"buffer", "stored", "givenUp", "closed"} /\ NewSink.buffer = <<>>
      /\ NewSink.stored = <<>> /\ NewSink.givenUp = <<>> /\ ~NewSink.closed /\ NewSink.closed \in BOOLEAN
  BY DEF NewSink
<1>3. FlowTyped
  <2>1. <<>> \in Seq(FlowRows)
    OBVIOUS
  <2>2. SinksShaped
    BY <1>1, <1>2, <2>1 DEF SinksShaped, SinkShaped
  <2> QED
    BY <1>1, <2>1, <2>2, FlowsAssumption DEF FlowTyped, FlowPhases
<1>4. RowsCounted
  <2>1. ASSUME NEW r PROVE Had(r) = 0 /\ Times(due, r) = 0
    <3>1. Times(<<>>, r) = 0
      BY TimesOfFew
    <3> QED
      BY <1>1, <1>2, <3>1 DEF Had, Has
  <2> QED
    BY <1>1, <2>1 DEF RowsCounted
<1>5. PhasesFit /\ SinksFit /\ PausesFit
  <2>1. Target \in {"inner", "outer"}
    BY DEF Target
  <2> QED
    BY <1>1, <1>2, <2>1 DEF PhasesFit, SinksFit, PausesFit, Ended
<1> QED
  BY <1>3, <1>4, <1>5 DEF FlowIInv

\* What holds of a step that leaves the sinks alone.
LEMMA SinksAlone ==
    ASSUME UNCHANGED <<flow, sinks>>
    PROVE  /\ \A r : Had(r)' = Had(r)
           /\ SinksShaped => SinksShaped'
           /\ Target' = Target /\ \A s : Shut(s)' = Shut(s)
BY DEF Had, SinksShaped, Target, Shut

\* A chunk that settles makes the rows due that were read.
LEMMA ChunkKeeps ==
    ASSUME FlowIInv, ChunkSettles
    PROVE  FlowIInv'
<1> DEFINE last == IF begun + ChunkSize < Pages THEN begun + ChunkSize ELSE Pages
<1>1. /\ FlowTyped /\ PhasesFit /\ RowsCounted /\ SinksFit /\ PausesFit
      /\ begun \in Nat /\ Pages \in Nat /\ read \subseteq 1..begun
  BY FlowsAssumption DEF FlowIInv, FlowTyped
<1>2. /\ phase = "extracting" /\ phase' = "writing" /\ begun < Pages /\ begun' = last
      /\ UNCHANGED <<flow, passed, sinks, turnedAway, flowPauses>>
  BY DEF ChunkSettles
<1>3. PICK ok \in SUBSET (begun + 1..last) : read' = read \union ok /\ due' = InOrder(ok)
  BY DEF ChunkSettles
<1>4. last \in Nat /\ begun <= last /\ last <= Pages
  BY <1>1, <1>2, FlowsAssumption
<1> HIDE DEF last
<1>5. ok \subseteq 1..Pages /\ ok \intersect read = {} /\ read' \subseteq 1..last
  BY <1>1, <1>3, <1>4
<1>6. due' \in Seq(FlowRows) /\ \A r \in FlowRows : Times(due', r) = IF r \in ok THEN 1 ELSE 0
  BY <1>3, <1>5, InOrderFacts DEF FlowRows
<1>7. /\ \A r : Had(r)' = Had(r)
      /\ SinksShaped' /\ Target' = Target /\ \A s : Shut(s)' = Shut(s)
  BY <1>1, <1>2, SinksAlone DEF FlowTyped
<1>8. due = <<>>
  BY <1>1, <1>2 DEF PhasesFit
<1>9. FlowTyped'
  BY <1>1, <1>2, <1>3, <1>4, <1>5, <1>6, <1>7 DEF FlowTyped, FlowPhases
<1>10. RowsCounted'
  <2>1. \A r \in FlowRows : Had(r) + Times(due, r) = IF r \in read \ turnedAway THEN 1 ELSE 0
    BY <1>1, <1>2 DEF RowsCounted
  <2>2. \A r : Times(due, r) = 0
    BY <1>8, TimesOfFew
  <2>3. ASSUME NEW r \in FlowRows PROVE Had(r) \in Nat
    BY <1>1, HadCounts DEF FlowTyped
  <2>4. ASSUME NEW r \in FlowRows
        PROVE  Had(r)' + Times(due', r) = IF r \in read' \ turnedAway' THEN 1 ELSE 0
    <3>1. Had(r) = IF r \in read \ turnedAway THEN 1 ELSE 0
      BY <2>1, <2>2, <2>3
    <3>2. turnedAway' = turnedAway /\ turnedAway \subseteq read
      BY <1>1, <1>2 DEF FlowTyped
    <3>3. Had(r)' = Had(r)
      BY <1>7
    <3>4. Times(due', r) = IF r \in ok THEN 1 ELSE 0
      BY <1>6
    <3>5. r \in read' \ turnedAway' <=> (r \in read \ turnedAway) \/ r \in ok
      BY <1>3, <1>5, <3>2
    <3>6. ~(r \in read \ turnedAway /\ r \in ok)
      BY <1>5
    <3> QED
      BY <3>1, <3>3, <3>4, <3>5, <3>6
  <2>5. ASSUME NEW r \in passed PROVE Times(due', r) = 0
    <3>1. r \in read /\ r \in FlowRows
      BY <1>1 DEF FlowTyped, FlowRows
    <3> QED
      BY <1>5, <1>6, <3>1
  <2> QED
    BY <1>2, <2>4, <2>5 DEF RowsCounted
<1>11. PhasesFit' /\ PausesFit'
  BY <1>1, <1>2 DEF PhasesFit, PausesFit
<1>12. SinksFit'
  <2>1. phase' \notin Ended \union {"exporting", "exported"} /\ phase \notin Ended \union {"exporting", "exported"}
    BY <1>2 DEF Ended
  <2> QED
    BY <1>1, <1>2, <1>7, <2>1 DEF SinksFit
<1> QED
  BY <1>9, <1>10, <1>11, <1>12 DEF FlowIInv

\* Steps that only go from one phase to another, or nowhere.
LEMMA PhaseKeeps ==
    ASSUME FlowIInv, Consumed \/ ChunkDone \/ PauseCrawl \/ ResumeCrawl \/ UNCHANGED flowVars
    PROVE  FlowIInv'
<1>1. /\ FlowTyped /\ PhasesFit /\ RowsCounted /\ SinksFit /\ PausesFit
  BY DEF FlowIInv
<1>2. /\ UNCHANGED <<flow, begun, due, read, passed, sinks, turnedAway>>
      /\ flowPauses' \in {flowPauses, flowPauses + 1}
  BY DEF Consumed, ChunkDone, PauseCrawl, ResumeCrawl, flowVars
<1>3. \/ phase' = phase /\ flowPauses' = flowPauses
      \/ phase \in {"yielded", "writing"} /\ phase' \in {"writing", "leaving"} /\ flow.kind = "stream"
      \/ phase = "writing" /\ due = <<>> /\ begun < Pages /\ phase' = "extracting"
      \/ phase = "writing" /\ due = <<>> /\ ~(begun < Pages) /\ phase' = "finishing"
      \/ phase = "extracting" /\ flow.kind = "crawl" /\ phase' = "finishing" /\ flowPauses' = flowPauses + 1
      \/ /\ phase \in {"resolved", "rejected"} /\ flow.kind = "crawl" /\ begun < Pages
         /\ phase' = "extracting" /\ flowPauses' = flowPauses
  <2>1. CASE Consumed
    BY <1>1, <2>1 DEF Consumed, PhasesFit
  <2>2. CASE ChunkDone
    BY <2>2 DEF ChunkDone
  <2>3. CASE PauseCrawl
    BY <2>3 DEF PauseCrawl
  <2>4. CASE ResumeCrawl
    BY <2>4 DEF ResumeCrawl
  <2>5. CASE UNCHANGED flowVars
    BY <2>5 DEF flowVars
  <2> QED
    BY <2>1, <2>2, <2>3, <2>4, <2>5
<1>4. /\ \A r : Had(r)' = Had(r)
      /\ SinksShaped' /\ Target' = Target /\ \A s : Shut(s)' = Shut(s)
  BY <1>1, <1>2, SinksAlone DEF FlowTyped
<1>5. FlowTyped'
  <2>1. phase' \in FlowPhases
    BY <1>1, <1>3 DEF FlowTyped, FlowPhases
  <2> QED
    BY <1>1, <1>2, <1>4, <2>1 DEF FlowTyped
<1>6. PhasesFit'
  BY <1>1, <1>2, <1>3 DEF PhasesFit
<1>7. RowsCounted'
  BY <1>1, <1>2, <1>3, <1>4 DEF RowsCounted
<1>8. SinksFit'
  BY <1>1, <1>2, <1>3, <1>4 DEF SinksFit, Ended
<1>9. PausesFit'
  <2>1. flowPauses \in Nat
    BY <1>1 DEF FlowTyped
  <2> QED
    BY <1>1, <1>2, <1>3, <2>1 DEF PausesFit
<1> QED
  BY <1>5, <1>6, <1>7, <1>8, <1>9 DEF FlowIInv

\* What a throw leaves behind.
LEMMA GaveUp ==
    ASSUME NEW sink, SinkShaped(sink), sink.buffer # <<>>, flow.owned \in BOOLEAN
    PROVE  FlushGivenUp(sink).givenUp # <<>> /\ Closed(FlushGivenUp(sink)).givenUp # <<>>
<1>1. FlushGivenUp(sink).givenUp = sink.givenUp \o sink.buffer /\ SinkShaped(FlushGivenUp(sink))
  BY FlushFacts
<1>2. sink.givenUp \o sink.buffer # <<>>
  <2> PICK a, b : a = sink.givenUp /\ b = sink.buffer
    OBVIOUS
  <2>1. a \in Seq(FlowRows) /\ b \in Seq(FlowRows) /\ b # <<>>
    BY DEF SinkShaped
  <2>2. a \o b # <<>>
    BY <2>1
  <2> QED
    BY <2>2
<1>3. Closed(FlushGivenUp(sink)).givenUp = FlushGivenUp(sink).givenUp
  BY <1>1, ClosedFacts
<1> QED
  BY <1>1, <1>2, <1>3

\* Of a sink that is open, a write throws only when it gives up a row at least.
LEMMA ThrownWrite ==
    ASSUME NEW sink, SinkShaped(sink), NEW list \in Seq(FlowRows), flow.owned \in BOOLEAN,
           LET filled == [sink EXCEPT !.buffer = @ \o list] IN ~(Len(filled.buffer) < SinkBatch)
    PROVE  FlushGivenUp([sink EXCEPT !.buffer = @ \o list]).givenUp # <<>>
<1> DEFINE filled == [sink EXCEPT !.buffer = @ \o list]
<1>1. SinkShaped(filled) /\ ~(Len(filled.buffer) < SinkBatch)
  BY SinkFacts
<1> HIDE DEF filled
<1>2. filled.buffer # <<>>
  <2>1. Len(<<>>) = 0 /\ 0 < SinkBatch
    BY FlowsAssumption
  <2> QED
    BY <1>1, <2>1
<1>3. FlushGivenUp(filled).givenUp # <<>>
  BY <1>1, <1>2, GaveUp
<1> QED
  BY <1>3 DEF filled

\* A row is written, or turned away.
LEMMA RowKeeps ==
    ASSUME FlowIInv, RowWritten
    PROVE  FlowIInv'
<1> DEFINE t == Target
           sink == sinks[t]
           filled == [sink EXCEPT !.buffer = @ \o <<Head(due)>>]
<1>1. FlowTyped /\ PhasesFit /\ RowsCounted /\ SinksFit /\ PausesFit
  BY DEF FlowIInv
<1>2. /\ phase = "writing" /\ due # <<>> /\ due' = Tail(due)
      /\ UNCHANGED <<flow, begun, read, flowPauses>>
  BY DEF RowWritten
<1>3. PICK h : h = Head(due)
  OBVIOUS
<1>4. PICK rest : rest = Tail(due)
  OBVIOUS
<1>5. /\ h \in FlowRows /\ rest \in Seq(FlowRows) /\ due' = rest
      /\ \A r : Times(due, r) = (IF h = r THEN 1 ELSE 0) + Times(rest, r) /\ Times(rest, r) \in Nat
  <2>1. due \in Seq(FlowRows)
    BY <1>1 DEF FlowTyped
  <2>2. h \in FlowRows /\ rest \in Seq(FlowRows) /\ due = <<h>> \o rest /\ <<h>> \in Seq(FlowRows)
    BY <1>2, <1>3, <1>4, <2>1
  <2>3. ASSUME NEW r PROVE Times(due, r) = (IF h = r THEN 1 ELSE 0) + Times(rest, r) /\ Times(rest, r) \in Nat
    <3>1. Times(<<h>> \o rest, r) = Times(<<h>>, r) + Times(rest, r) /\ Times(rest, r) \in Nat
      BY <2>2, TimesFacts
    <3>2. Times(<<h>>, r) = IF h = r THEN 1 ELSE 0
      BY TimesOfFew
    <3> QED
      BY <2>2, <3>1, <3>2
  <2> QED
    BY <1>2, <1>4, <2>2, <2>3
<1>6. t \in {"inner", "outer"} /\ SinkShaped(sink) /\ <<h>> \in Seq(FlowRows) /\ flow.owned \in BOOLEAN
      /\ flow.kind \in Kinds
  BY <1>1, <1>5 DEF Target, FlowTyped, SinksShaped
<1> DEFINE turned == sink.closed /\ UNCHANGED sinks /\ turnedAway' = turnedAway \union {h}
           wrote(new) == ~sink.closed /\ UNCHANGED turnedAway /\ sinks' = [sinks EXCEPT ![t] = new]
           thrown == /\ passed' = passed
                     /\ phase' = (CASE flow.kind = "stream" -> "rejecting" [] flow.kind = "crawl" -> "writing"
                                    [] OTHER -> "rejected")
           returned == /\ passed' = passed \union {h}
                       /\ phase' = (IF flow.kind = "stream" THEN "yielded" ELSE "writing")
<1>7. \/ turned /\ thrown
      \/ \E new \in {filled, FlushedOut(filled)} : wrote(new) /\ returned
      \/ wrote(FlushGivenUp(filled)) /\ thrown /\ ~(Len(filled.buffer) < SinkBatch)
  <2>1. {<<h>>[k] : k \in DOMAIN <<h>>} = {h}
    OBVIOUS
  <2>2. \/ sink.closed /\ thrown /\ UNCHANGED sinks /\ turnedAway' = turnedAway \union {<<h>>[k] : k \in DOMAIN <<h>>}
        \/ /\ ~sink.closed /\ UNCHANGED turnedAway
           /\ \/ Len(filled.buffer) < SinkBatch /\ returned /\ sinks' = [sinks EXCEPT ![t] = filled]
              \/ /\ ~(Len(filled.buffer) < SinkBatch)
                 /\ \/ returned /\ sinks' = [sinks EXCEPT ![t] = FlushedOut(filled)]
                    \/ thrown /\ sinks' = [sinks EXCEPT ![t] = FlushGivenUp(filled)]
    BY <1>3, Zenon DEF RowWritten, WriteTo
  <2> HIDE DEF filled
  <2> QED
    BY <2>1, <2>2
<1> HIDE DEF filled
<1>8. CASE turned /\ thrown
  <2>1. flow.kind = "crawl" /\ phase' = "writing" /\ t = "outer" /\ flow.owned /\ flowPauses > 0
    <3>1. flow.kind = "crawl"
      BY <1>1, <1>2, <1>8 DEF SinksFit, Ended
    <3>2. t = "outer"
      BY <3>1 DEF Target
    <3> QED
      BY <1>1, <1>2, <1>6, <1>8, <3>1, <3>2 DEF SinksFit, PausesFit
  <2>2. /\ \A r : Had(r)' = Had(r)
        /\ SinksShaped' /\ Target' = Target /\ \A s : Shut(s)' = Shut(s)
    BY <1>1, <1>2, <1>8, SinksAlone DEF FlowTyped
  <2>3. /\ h \in read \ turnedAway /\ Had(h) = 0 /\ Times(rest, h) = 0 /\ h \notin passed
    <3>1. Had(h) + Times(due, h) = IF h \in read \ turnedAway THEN 1 ELSE 0
      BY <1>1, <1>2, <1>5 DEF RowsCounted
    <3>2. Had(h) \in Nat /\ Times(rest, h) \in Nat /\ Times(due, h) = 1 + Times(rest, h)
      BY <1>1, <1>5, HadCounts DEF FlowTyped
    <3>3. h \in passed => Times(due, h) = 0
      BY <1>1 DEF RowsCounted
    <3> QED
      BY <3>1, <3>2, <3>3
  <2>4. FlowTyped'
    BY <1>1, <1>2, <1>5, <1>8, <2>1, <2>2, <2>3 DEF FlowTyped, FlowPhases
  <2>5. PhasesFit'
    BY <1>2, <2>1 DEF PhasesFit
  <2>6. RowsCounted'
    <3>1. ASSUME NEW r \in FlowRows
          PROVE  Had(r)' + Times(due', r) = IF r \in read' \ turnedAway' THEN 1 ELSE 0
      <4>1. Had(r) + Times(due, r) = IF r \in read \ turnedAway THEN 1 ELSE 0
        BY <1>1, <1>2 DEF RowsCounted
      <4>2. CASE r = h
        <5>1. Had(h)' = 0 /\ Times(due', h) = 0
          BY <1>5, <2>2, <2>3
        <5>2. h \in turnedAway'
          BY <1>8
        <5> QED
          BY <4>2, <5>1, <5>2
      <4>3. CASE r # h
        <5>1. Times(due, r) = Times(rest, r)
          BY <1>5, <4>3
        <5> QED
          BY <1>2, <1>5, <1>8, <2>2, <4>1, <4>3, <5>1
      <4> QED
        BY <4>2, <4>3
    <3>2. ASSUME NEW r \in passed PROVE Times(due', r) = 0
      <4>1. Times(due, r) = 0 /\ r # h
        BY <1>1, <2>3 DEF RowsCounted
      <4> QED
        BY <1>5, <4>1
    <3> QED
      BY <1>8, <2>1, <3>1, <3>2 DEF RowsCounted
  <2>7. SinksFit'
    BY <1>1, <1>2, <1>8, <2>1, <2>2 DEF SinksFit, Ended
  <2>8. PausesFit'
    BY <1>1, <1>2, <1>8, <2>1 DEF PausesFit
  <2> QED
    BY <2>4, <2>5, <2>6, <2>7, <2>8 DEF FlowIInv
<1>9. CASE ~turned
  <2>1. PICK new : /\ wrote(new) /\ new \in {filled, FlushedOut(filled), FlushGivenUp(filled)}
                   /\ \/ returned
                      \/ thrown /\ new = FlushGivenUp(filled) /\ ~(Len(filled.buffer) < SinkBatch)
    BY <1>7, <1>9
  <2>2. /\ SinksShaped' /\ \A r : Had(r)' = Had(r) + Times(<<h>>, r)
        /\ ~sinks'[t].closed /\ \A s \in {"inner", "outer"} : s # t => sinks'[s] = sinks[s]
        /\ \A s \in {"inner", "outer"} : sinks[s].givenUp # <<>> => sinks'[s].givenUp # <<>>
    <3>1. SinksShaped /\ t \in {"inner", "outer"}
      BY <1>1, <1>6 DEF FlowTyped
    <3>2. LET fill == [sinks[t] EXCEPT !.buffer = @ \o <<h>>]
          IN  new = fill \/ new = FlushedOut(fill) \/ new = FlushGivenUp(fill)
      BY <1>3, <2>1 DEF filled
    <3>3. ~sinks[t].closed /\ sinks' = [sinks EXCEPT ![t] = new]
      BY <2>1
    <3> HIDE DEF t
    <3> QED
      BY <1>6, <3>1, <3>2, <3>3, Written
  <2>3. Target' = t /\ UNCHANGED turnedAway
    BY <1>2, <2>1 DEF Target
  <2>4. /\ h \in read \ turnedAway /\ Had(h) = 0 /\ Times(rest, h) = 0
    <3>1. Had(h) + Times(due, h) = IF h \in read \ turnedAway THEN 1 ELSE 0
      BY <1>1, <1>2, <1>5 DEF RowsCounted
    <3>2. Had(h) \in Nat /\ Times(rest, h) \in Nat /\ Times(due, h) = 1 + Times(rest, h)
      BY <1>1, <1>5, HadCounts DEF FlowTyped
    <3> QED
      BY <3>1, <3>2
  <2>5. passed' \subseteq passed \union {h} /\ phase' \in {"writing", "yielded", "rejecting", "rejected"}
        /\ (phase' \in {"yielded", "rejecting"} => flow.kind = "stream")
        /\ (phase' = "rejected" => flow.kind \notin {"stream", "crawl"})
    BY <2>1
  <2>6. FlowTyped'
    BY <1>1, <1>2, <1>5, <2>2, <2>3, <2>4, <2>5 DEF FlowTyped, FlowPhases
  <2>7. PhasesFit'
    <3>1. phase' \in {"rejecting", "rejected"} => \E s \in {"inner", "outer"} : sinks'[s].givenUp # <<>>
      <4> SUFFICES ASSUME phase' \in {"rejecting", "rejected"} PROVE sinks'[t].givenUp # <<>>
        BY <1>6
      <4>1. ~returned
        OBVIOUS
      <4>2. new = FlushGivenUp(filled) /\ ~(Len(filled.buffer) < SinkBatch)
        BY <2>1, <4>1
      <4>3. new.givenUp # <<>>
        <5>1. new = FlushGivenUp([sink EXCEPT !.buffer = @ \o <<h>>])
          BY <1>3, <4>2 DEF filled
        <5>2. LET fill == [sink EXCEPT !.buffer = @ \o <<h>>] IN ~(Len(fill.buffer) < SinkBatch)
          BY <1>3, <4>2 DEF filled
        <5> QED
          BY <1>6, <5>1, <5>2, ThrownWrite
      <4>4. sinks'[t] = new
        BY <1>1, <1>6, <2>1 DEF FlowTyped, SinksShaped
      <4> QED
        BY <4>3, <4>4
    <3> QED
      BY <1>2, <2>5, <3>1 DEF PhasesFit
  <2>8. RowsCounted'
    <3>1. ASSUME NEW r \in FlowRows
          PROVE  Had(r)' + Times(due', r) = IF r \in read' \ turnedAway' THEN 1 ELSE 0
      <4>1. Had(r) + Times(due, r) = IF r \in read \ turnedAway THEN 1 ELSE 0
        BY <1>1, <1>2 DEF RowsCounted
      <4>2. Had(r)' = Had(r) + (IF h = r THEN 1 ELSE 0)
        BY <2>2, TimesOfFew
      <4>3. Had(r) \in Nat
        BY <1>1, HadCounts DEF FlowTyped
      <4>4. Had(r)' + Times(due', r) = Had(r) + Times(due, r)
        BY <1>5, <4>2, <4>3
      <4> QED
        BY <1>2, <2>3, <4>1, <4>4
    <3>2. ASSUME NEW r \in passed' PROVE Times(due', r) = 0
      <4>1. CASE r = h
        BY <1>5, <2>4, <4>1
      <4>2. CASE r # h
        <5>1. Times(due, r) = 0
          BY <1>1, <2>5, <4>2 DEF RowsCounted
        <5> QED
          BY <1>5, <4>2, <5>1
      <4> QED
        BY <4>1, <4>2
    <3> QED
      BY <2>5, <3>1, <3>2 DEF RowsCounted
  <2>9. SinksFit'
    <3>1. /\ \A s \in {"inner", "outer"} : sinks'[s].closed => sinks[s].closed
          /\ t # "inner" => sinks'["inner"] = sinks["inner"]
      BY <1>6, <2>2
    <3> HIDE DEF t
    <3> QED
      BY <1>1, <1>2, <2>2, <2>3, <2>5, <3>1 DEF SinksFit, Ended, t
  <2>10. PausesFit'
    <3>1. sinks'["outer"].closed => sinks["outer"].closed
      BY <1>6, <2>2
    <3> QED
      BY <1>1, <1>2, <2>3, <2>5, <3>1 DEF PausesFit
  <2> QED
    BY <2>6, <2>7, <2>8, <2>9, <2>10 DEF FlowIInv
<1> QED
  BY <1>7, <1>8, <1>9

\* The sink is finished behind the last row, or when a stream is left.
LEMMA FinishKeeps ==
    ASSUME FlowIInv, FlowFinishes
    PROVE  FlowIInv'
<1>0. PICK t : t = Target
  OBVIOUS
<1> DEFINE sink == sinks[t]
<1>1. FlowTyped /\ PhasesFit /\ RowsCounted /\ SinksFit /\ PausesFit
  BY DEF FlowIInv
<1>2. /\ phase \in {"finishing", "leaving", "rejecting"}
      /\ UNCHANGED <<flow, begun, due, read, passed, turnedAway, flowPauses>>
  BY DEF FlowFinishes
<1>3. t \in {"inner", "outer"} /\ SinkShaped(sink) /\ flow.owned \in BOOLEAN /\ flow.kind \in Kinds
      /\ (t = "inner" <=> flow.owned /\ flow.kind = "export")
  BY <1>0, <1>1 DEF Target, FlowTyped, SinksShaped
<1> DEFINE returned == phase' = (CASE phase = "leaving" -> "left" [] phase = "rejecting" -> "rejected"
                                   [] flow.kind = "export" -> "exporting" [] OTHER -> "resolved")
<1>4. \/ returned /\ sinks' = [sinks EXCEPT ![t] = Closed(FlushedOut(@))]
      \/ sink.buffer # <<>> /\ phase' = "rejected" /\ sinks' = [sinks EXCEPT ![t] = Closed(FlushGivenUp(@))]
  BY <1>0, Zenon DEF FlowFinishes, Finish
<1>5. PICK new : /\ sinks' = [sinks EXCEPT ![t] = new]
                 /\ \/ returned /\ new = Closed(FlushedOut(sink))
                    \/ sink.buffer # <<>> /\ phase' = "rejected" /\ new = Closed(FlushGivenUp(sink))
  <2>1. CASE returned /\ sinks' = [sinks EXCEPT ![t] = Closed(FlushedOut(@))]
    <3>1. sinks' = [sinks EXCEPT ![t] = Closed(FlushedOut(sink))]
      BY <2>1
    <3> QED
      BY <2>1, <3>1
  <2>2. CASE sink.buffer # <<>> /\ phase' = "rejected" /\ sinks' = [sinks EXCEPT ![t] = Closed(FlushGivenUp(@))]
    <3>1. sinks' = [sinks EXCEPT ![t] = Closed(FlushGivenUp(sink))]
      BY <2>2
    <3> QED
      BY <2>2, <3>1
  <2> QED
    BY <1>4, <2>1, <2>2
<1>6. /\ SinksShaped' /\ \A r : Had(r)' = Had(r)
      /\ sinks'[t].buffer = <<>> /\ (sinks'[t].closed <=> flow.owned \/ sinks[t].closed)
      /\ \A s \in {"inner", "outer"} : s # t => sinks'[s] = sinks[s]
      /\ \A s \in {"inner", "outer"} : sinks[s].givenUp # <<>> => sinks'[s].givenUp # <<>>
  <2>1. SinksShaped
    BY <1>1 DEF FlowTyped
  <2>2. new = Closed(FlushedOut(sinks[t])) \/ new = Closed(FlushGivenUp(sinks[t]))
    BY <1>5
  <2>3. sinks' = [sinks EXCEPT ![t] = new]
    BY <1>5
  <2> QED
    BY <1>3, <2>1, <2>2, <2>3, Finished
<1>7. /\ phase' \in {"left", "rejected", "exporting", "resolved"}
      /\ phase' = "left" => phase = "leaving"
      /\ phase' = "exporting" => phase = "finishing" /\ flow.kind = "export"
      /\ phase' = "resolved" => phase = "finishing" /\ flow.kind # "export"
  <2>1. CASE phase' = "rejected"
    BY <2>1
  <2>2. CASE phase' # "rejected"
    <3>1. returned
      BY <1>5, <2>2
    <3>5. phase \in {"leaving", "rejecting"} => flow.kind = "stream"
      BY <1>1 DEF PhasesFit
    <3>2. CASE phase = "leaving"
      BY <3>1, <3>2, <3>5
    <3>3. CASE phase = "rejecting"
      BY <2>2, <3>1, <3>3, <3>5
    <3>4. CASE phase = "finishing"
      BY <3>1, <3>4
    <3> QED
      BY <1>2, <3>2, <3>3, <3>4
  <2> QED
    BY <2>1, <2>2
<1>8. Target' = t
  BY <1>0, <1>2 DEF Target
<1>9. FlowTyped'
  BY <1>1, <1>2, <1>6, <1>7 DEF FlowTyped, FlowPhases
<1>10. PhasesFit'
  <2>1. phase' = "rejected" => \E s \in {"inner", "outer"} : sinks'[s].givenUp # <<>>
    <3>1. CASE returned /\ phase' = "rejected"
      <4>1. phase = "rejecting"
        BY <1>2, <3>1
      <4> QED
        BY <1>1, <1>6, <4>1 DEF PhasesFit
    <3>2. CASE ~(returned /\ phase' = "rejected") /\ phase' = "rejected"
      <4>1. sink.buffer # <<>> /\ new = Closed(FlushGivenUp(sink))
        BY <1>5, <3>2
      <4>2. new.givenUp # <<>>
        BY <1>3, <4>1, GaveUp
      <4>3. sinks'[t] = new
        BY <1>1, <1>3, <1>5 DEF FlowTyped, SinksShaped
      <4> QED
        BY <1>3, <4>2, <4>3
    <3> QED
      BY <3>1, <3>2
  <2>2. phase' = "rejected" /\ flow.kind = "crawl" => due = <<>>
    BY <1>1, <1>2 DEF PhasesFit
  <2> QED
    BY <1>1, <1>2, <1>7, <2>1, <2>2 DEF PhasesFit
<1>11. RowsCounted'
  <2>1. flow.kind = "export" => phase' \notin {"exported", "resolved"}
    BY <1>7
  <2>2. flow.kind # "export" \/ phase \notin {"exported", "resolved", "rejected"}
    BY <1>2
  <2> QED
    BY <1>1, <1>2, <1>6, <2>1, <2>2 DEF RowsCounted
<1>12. SinksFit'
  <2>1. /\ \A s \in {"inner", "outer"} : sinks'[s].closed => sinks[s].closed \/ flow.owned
        /\ t # "inner" => sinks'["inner"] = sinks["inner"] /\ t = "outer"
        /\ t # "outer" => sinks'["outer"] = sinks["outer"] /\ t = "inner"
    BY <1>3, <1>6
  <2>2. sinks'[t].buffer = <<>> /\ (flow.owned => sinks'[t].closed) /\ (~flow.owned => ~sinks'[t].closed)
    BY <1>1, <1>3, <1>6 DEF SinksFit
  <2>3. Shut(t)'
    BY <1>2, <2>2 DEF Shut
  <2>4. t = "inner" => Shut("inner")'
    BY <2>3
  <2>5. t = "outer" => Shut("outer")'
    BY <2>3
  <2>6. flow.kind = "export" => ~sinks'["outer"].closed
    <3>1. flow.kind = "export" => ~sinks["outer"].closed
      BY <1>1, <1>2 DEF SinksFit
    <3>2. CASE t = "outer" /\ flow.kind = "export"
      BY <1>3, <2>2, <3>2
    <3> QED
      BY <1>3, <2>1, <3>1, <3>2
  <2>7. phase' \in Ended \union {"exporting", "exported"}
    BY <1>7 DEF Ended
  <2>8. /\ \A s \in {"inner", "outer"} : sinks'[s].closed => flow.owned
        /\ t # "inner" => sinks'["inner"].buffer = <<>>
    BY <1>0, <1>1, <2>1 DEF SinksFit
  <2>9. flow.kind # "export" => Shut("outer")'
    BY <1>3, <2>5
  <2> QED
    BY <1>2, <1>7, <1>8, <2>4, <2>6, <2>7, <2>8, <2>9 DEF SinksFit
<1>13. PausesFit'
  <2>1. flow.kind = "crawl" => phase = "finishing"
    BY <1>1, <1>2 DEF PhasesFit
  <2> QED
    BY <1>1, <1>2, <1>7, <2>1 DEF PausesFit
<1> QED
  BY <1>9, <1>10, <1>11, <1>12, <1>13 DEF FlowIInv

\* An export writes what its batch has read once more.
LEMMA ExportedKeeps ==
    ASSUME FlowIInv, Exported
    PROVE  FlowIInv'
<1> DEFINE sink == sinks["outer"]
           list == InOrder(read)
           filled == [sink EXCEPT !.buffer = @ \o list]
<1>1. FlowTyped /\ PhasesFit /\ RowsCounted /\ SinksFit /\ PausesFit
  BY DEF FlowIInv
<1>2. /\ phase = "exporting" /\ flow.kind = "export" /\ due = <<>>
      /\ UNCHANGED <<flow, begun, due, read, passed, flowPauses>>
  BY <1>1 DEF Exported, PhasesFit
<1>3. SinkShaped(sink) /\ SinksShaped /\ flow.owned \in BOOLEAN /\ ~sink.closed /\ turnedAway = {}
  BY <1>1, <1>2 DEF FlowTyped, SinksShaped, SinksFit, PausesFit
<1>4. read \subseteq 1..Pages
  <2>1. begun \in Nat /\ begun <= Pages /\ read \subseteq 1..begun /\ Pages \in Nat
    BY <1>1, FlowsAssumption DEF FlowTyped
  <2> QED
    BY <2>1
<1>5. list \in Seq(FlowRows) /\ \A r \in FlowRows : Times(list, r) = IF r \in read THEN 1 ELSE 0
  BY <1>4, InOrderFacts DEF FlowRows
<1>6. PICK new : /\ sinks' = [sinks EXCEPT !["outer"] = new] /\ turnedAway' = turnedAway
                 /\ \/ phase' = "exported" /\ new \in {filled, FlushedOut(filled)}
                    \/ phase' = "rejected" /\ new = FlushGivenUp(filled) /\ ~(Len(filled.buffer) < SinkBatch)
  <2>1. /\ UNCHANGED turnedAway
        /\ \/ phase' = "exported" /\ sinks' = [sinks EXCEPT !["outer"] = filled]
           \/ /\ ~(Len(filled.buffer) < SinkBatch)
              /\ \/ phase' = "exported" /\ sinks' = [sinks EXCEPT !["outer"] = FlushedOut(filled)]
                 \/ phase' = "rejected" /\ sinks' = [sinks EXCEPT !["outer"] = FlushGivenUp(filled)]
    BY <1>3, Zenon DEF Exported, WriteTo
  <2> HIDE DEF filled
  <2> QED
    BY <2>1
<1> HIDE DEF list
<1>7. /\ SinksShaped' /\ \A r : Had(r)' = Had(r) + Times(list, r)
      /\ sinks'["outer"].closed = sinks["outer"].closed /\ sinks'["inner"] = sinks["inner"]
      /\ \A s \in {"inner", "outer"} : sinks[s].givenUp # <<>> => sinks'[s].givenUp # <<>>
  <2>1. LET fill == [sinks["outer"] EXCEPT !.buffer = @ \o list]
        IN  new = fill \/ new = FlushedOut(fill) \/ new = FlushGivenUp(fill)
    BY <1>6
  <2>2. "outer" \in {"inner", "outer"} /\ sinks' = [sinks EXCEPT !["outer"] = new]
    BY <1>6
  <2>3. /\ SinksShaped' /\ \A r : Had(r)' = Had(r) + Times(list, r)
        /\ sinks'["outer"].closed = sinks["outer"].closed
        /\ \A s \in {"inner", "outer"} : s # "outer" => sinks'[s] = sinks[s]
        /\ \A s \in {"inner", "outer"} : sinks[s].givenUp # <<>> => sinks'[s].givenUp # <<>>
    BY <1>3, <1>5, <2>1, <2>2, Written
  <2> QED
    BY <2>3
<1>8. FlowTyped'
  BY <1>1, <1>2, <1>6, <1>7 DEF FlowTyped, FlowPhases
<1>9. PhasesFit'
  <2>1. phase' = "rejected" => sinks'["outer"].givenUp # <<>>
    <3> SUFFICES ASSUME phase' = "rejected" PROVE sinks'["outer"].givenUp # <<>>
      OBVIOUS
    <3>1. new = FlushGivenUp(filled) /\ ~(Len(filled.buffer) < SinkBatch)
      BY <1>6
    <3>2. new.givenUp # <<>>
      BY <1>3, <1>5, <3>1, ThrownWrite
    <3>3. sinks'["outer"] = new
      BY <1>3, <1>6 DEF SinksShaped
    <3> QED
      BY <3>2, <3>3
  <2> QED
    BY <1>2, <1>6, <2>1 DEF PhasesFit
<1>10. RowsCounted'
  <2>1. ASSUME NEW r \in FlowRows PROVE Had(r)' = IF r \in read' THEN 2 ELSE 0
    <3>1. Had(r) + Times(due, r) = IF r \in read \ turnedAway THEN 1 ELSE 0
      BY <1>1, <1>2 DEF RowsCounted
    <3>2. Times(due, r) = 0 /\ Had(r) \in Nat
      BY <1>2, <1>3, TimesOfFew, HadCounts
    <3>3. Had(r) = IF r \in read THEN 1 ELSE 0
      BY <1>3, <3>1, <3>2
    <3>4. Had(r)' = Had(r) + Times(list, r) /\ Times(list, r) = IF r \in read THEN 1 ELSE 0
      BY <1>5, <1>7
    <3> QED
      BY <1>2, <3>3, <3>4
  <2> QED
    BY <1>1, <1>2, <1>6, <2>1 DEF RowsCounted
<1>11. SinksFit'
  <2>1. Target' = Target
    BY <1>2 DEF Target
  <2>2. Shut("inner") => Shut("inner")'
    BY <1>2, <1>7 DEF Shut
  <2>3. /\ \A s \in {"inner", "outer"} : sinks'[s].closed = sinks[s].closed
        /\ sinks'["inner"] = sinks["inner"]
    BY <1>7
  <2>4. phase' \in {"exported", "rejected"}
    BY <1>6
  <2> QED
    BY <1>1, <1>2, <1>3, <2>1, <2>2, <2>3, <2>4 DEF SinksFit, Ended
<1>12. PausesFit'
  BY <1>2, <1>3, <1>6 DEF PausesFit
<1> QED
  BY <1>8, <1>9, <1>10, <1>11, <1>12 DEF FlowIInv

\* And finishes its own sink.
LEMMA ExportFinishKeeps ==
    ASSUME FlowIInv, ExportFinishes
    PROVE  FlowIInv'
<1> DEFINE sink == sinks["outer"]
<1>1. FlowTyped /\ PhasesFit /\ RowsCounted /\ SinksFit /\ PausesFit
  BY DEF FlowIInv
<1>2. /\ phase = "exported" /\ flow.kind = "export" /\ due = <<>>
      /\ UNCHANGED <<flow, begun, due, read, passed, turnedAway, flowPauses>>
  BY <1>1 DEF ExportFinishes, PhasesFit
<1>3. SinkShaped(sink) /\ SinksShaped /\ flow.owned \in BOOLEAN
  BY <1>1 DEF FlowTyped, SinksShaped
<1>4. \/ phase' = "resolved" /\ sinks' = [sinks EXCEPT !["outer"] = Closed(FlushedOut(@))]
      \/ /\ sink.buffer # <<>> /\ phase' = "rejected"
         /\ sinks' = [sinks EXCEPT !["outer"] = Closed(FlushGivenUp(@))]
  BY Zenon DEF ExportFinishes, Finish
<1>5. PICK new : /\ sinks' = [sinks EXCEPT !["outer"] = new]
                 /\ \/ phase' = "resolved" /\ new = Closed(FlushedOut(sink))
                    \/ sink.buffer # <<>> /\ phase' = "rejected" /\ new = Closed(FlushGivenUp(sink))
  <2>1. CASE phase' = "resolved" /\ sinks' = [sinks EXCEPT !["outer"] = Closed(FlushedOut(@))]
    <3>1. sinks' = [sinks EXCEPT !["outer"] = Closed(FlushedOut(sink))]
      BY <2>1
    <3> QED
      BY <2>1, <3>1
  <2>2. CASE /\ sink.buffer # <<>> /\ phase' = "rejected"
             /\ sinks' = [sinks EXCEPT !["outer"] = Closed(FlushGivenUp(@))]
    <3>1. sinks' = [sinks EXCEPT !["outer"] = Closed(FlushGivenUp(sink))]
      BY <2>2
    <3> QED
      BY <2>2, <3>1
  <2> QED
    BY <1>4, <2>1, <2>2
<1>6. /\ SinksShaped' /\ \A r : Had(r)' = Had(r)
      /\ sinks'["outer"].buffer = <<>> /\ (sinks'["outer"].closed <=> flow.owned \/ sinks["outer"].closed)
      /\ sinks'["inner"] = sinks["inner"]
  <2>1. new = Closed(FlushedOut(sinks["outer"])) \/ new = Closed(FlushGivenUp(sinks["outer"]))
    BY <1>5
  <2>2. "outer" \in {"inner", "outer"} /\ sinks' = [sinks EXCEPT !["outer"] = new]
    BY <1>5
  <2>3. /\ SinksShaped' /\ \A r : Had(r)' = Had(r)
        /\ sinks'["outer"].buffer = <<>> /\ (sinks'["outer"].closed <=> flow.owned \/ sinks["outer"].closed)
        /\ \A s \in {"inner", "outer"} : s # "outer" => sinks'[s] = sinks[s]
    BY <1>3, <2>1, <2>2, Finished
  <2> QED
    BY <2>3
<1>7. FlowTyped'
  BY <1>1, <1>2, <1>5, <1>6 DEF FlowTyped, FlowPhases
<1>8. PhasesFit'
  <2>1. phase' = "rejected" => sinks'["outer"].givenUp # <<>>
    <3> SUFFICES ASSUME phase' = "rejected" PROVE sinks'["outer"].givenUp # <<>>
      OBVIOUS
    <3>1. sink.buffer # <<>> /\ new = Closed(FlushGivenUp(sink))
      BY <1>5
    <3>2. new.givenUp # <<>>
      BY <1>3, <3>1, GaveUp
    <3>3. sinks'["outer"] = new
      BY <1>3, <1>5 DEF SinksShaped
    <3> QED
      BY <3>2, <3>3
  <2> QED
    BY <1>2, <1>5, <2>1 DEF PhasesFit
<1>9. RowsCounted'
  BY <1>1, <1>2, <1>5, <1>6 DEF RowsCounted
<1>10. SinksFit'
  <2>1. Target' = Target
    BY <1>2 DEF Target
  <2>2. (Shut("inner") => Shut("inner")') /\ Shut("outer")'
    BY <1>2, <1>6 DEF Shut
  <2>3. \A s \in {"inner", "outer"} : sinks'[s].closed => flow.owned
    BY <1>1, <1>6 DEF SinksFit
  <2> QED
    BY <1>1, <1>2, <1>5, <1>6, <2>1, <2>2, <2>3 DEF SinksFit, Ended
<1>11. PausesFit'
  BY <1>1, <1>2 DEF PausesFit
<1> QED
  BY <1>7, <1>8, <1>9, <1>10, <1>11 DEF FlowIInv

\* What has been counted is what a flow keeps.
LEMMA FlowSafety == FlowIInv => FlowKeeps
<1> SUFFICES ASSUME FlowIInv PROVE FlowKeeps
  OBVIOUS
<1>1. FlowTyped /\ PhasesFit /\ RowsCounted /\ SinksFit /\ PausesFit
  BY DEF FlowIInv
<1>2. ASSUME NEW s \in {"inner", "outer"}, sinks[s].buffer = <<>>, NEW r
      PROVE  Has(sinks[s], r) = Times(sinks[s].stored, r) + Times(sinks[s].givenUp, r)
  <2>1. Times(sinks[s].stored, r) \in Nat /\ Times(sinks[s].givenUp, r) \in Nat
    BY <1>1, TimesFacts DEF FlowTyped, SinksShaped, SinkShaped
  <2>2. Times(sinks[s].buffer, r) = 0
    BY <1>2, TimesOfFew
  <2> QED
    BY <2>1, <2>2 DEF Has
<1>3. ASSUME sinks["inner"].buffer = <<>>, sinks["outer"].buffer = <<>>, NEW r PROVE Handled(r) = Had(r)
  <2>1. /\ Has(sinks["inner"], r) = Times(sinks["inner"].stored, r) + Times(sinks["inner"].givenUp, r)
        /\ Has(sinks["outer"], r) = Times(sinks["outer"].stored, r) + Times(sinks["outer"].givenUp, r)
    BY <1>2, <1>3
  <2> QED
    BY <2>1 DEF Handled, Had
<1>4. read \subseteq FlowRows
  <2>1. begun \in Nat /\ begun <= Pages /\ read \subseteq 1..begun /\ Pages \in Nat
    BY <1>1, FlowsAssumption DEF FlowTyped
  <2> QED
    BY <2>1 DEF FlowRows
<1>5. Target \in {"inner", "outer"} /\ (Target = "inner" => flow.kind = "export")
  BY DEF Target
<1>6. ASSUME phase = "resolved"
      PROVE  /\ \A r \in read \ turnedAway : Handled(r) = IF flow.kind = "export" THEN 2 ELSE 1
             /\ Shut(Target) /\ Shut("outer")
  <2>1. Shut(Target) /\ Shut("outer") /\ sinks["inner"].buffer = <<>> /\ sinks["outer"].buffer = <<>>
    BY <1>1, <1>5, <1>6 DEF SinksFit, Shut
  <2>2. ASSUME NEW r \in read \ turnedAway PROVE Handled(r) = IF flow.kind = "export" THEN 2 ELSE 1
    <3>1. Handled(r) = Had(r) /\ r \in FlowRows /\ Had(r) \in Nat
      BY <1>1, <1>3, <1>4, <2>1, HadCounts DEF FlowTyped
    <3>2. CASE flow.kind = "export"
      BY <1>1, <1>6, <3>1, <3>2 DEF RowsCounted
    <3>3. CASE flow.kind # "export"
      <4>1. Had(r) + Times(due, r) = 1 /\ due = <<>>
        BY <1>1, <1>6, <3>1, <3>3 DEF RowsCounted, PhasesFit
      <4>2. Times(due, r) = 0
        BY <4>1, TimesOfFew
      <4> QED
        BY <3>1, <3>3, <4>1, <4>2
    <3> QED
      BY <3>2, <3>3
  <2> QED
    BY <2>1, <2>2
<1>7. ASSUME flow.kind = "stream", phase \in Ended
      PROVE  (\A r \in passed : Handled(r) = 1) /\ Shut(Target)
  <2>1. Target = "outer" /\ Shut("outer") /\ sinks["inner"].buffer = <<>> /\ sinks["outer"].buffer = <<>>
    BY <1>1, <1>5, <1>7 DEF SinksFit, Shut
  <2>2. ASSUME NEW r \in passed PROVE Handled(r) = 1
    <3>1. r \in read \ turnedAway /\ r \in FlowRows
      BY <1>1, <1>4 DEF FlowTyped
    <3>2. Handled(r) = Had(r) /\ Had(r) \in Nat
      BY <1>1, <1>3, <2>1, HadCounts DEF FlowTyped
    <3>3. Had(r) + Times(due, r) = 1 /\ Times(due, r) = 0
      BY <1>1, <1>7, <3>1 DEF RowsCounted
    <3> QED
      BY <3>2, <3>3
  <2> QED
    BY <2>1, <2>2
<1>8. phase = "rejected" => \E s \in DOMAIN sinks : sinks[s].givenUp # <<>>
  BY <1>1 DEF PhasesFit, FlowTyped, SinksShaped
<1>9. turnedAway # {} => flow.kind = "crawl" /\ flow.owned /\ flowPauses > 0
  BY <1>1 DEF PausesFit
<1> QED
  BY <1>6, <1>7, <1>8, <1>9 DEF FlowKeeps, Shut

\* Whatever the number of URLs, the size of the chunks and of the batches, and wherever the
\* driver fails: a flow that resolves has had every row it read stored, or given up by the
\* driver, and none twice.
THEOREM FlowsAlwaysKeep == FlowInit /\ [][FlowNext]_flowVars => []FlowKeeps
<1>1. FlowIInv /\ [FlowNext]_flowVars => FlowIInv'
  BY ChunkKeeps, PhaseKeeps, RowKeeps, FinishKeeps, ExportedKeeps, ExportFinishKeeps DEF FlowNext, FlowStep
<1> QED
  BY <1>1, FlowStarts, FlowSafety, PTL

-----------------------------------------------------------------------------
(* FileSink: the inductive invariant.                                      *)

FileLines == [rows: SUBSET FileRows, whole: BOOLEAN]

DistinctKeys(list) == \A j, k \in DOMAIN list : FileKey[list[j]] = FileKey[list[k]] => j = k

\* Row y stands for row x: it is x, or a newer one of its key, or any of it, once batches passed.
StandsFor(y, x) == FileKey[y] = FileKey[x] /\ (y >= x \/ FileKey[x] \in overtaken)

\* A batch on its way: what was handed over behind it and is not of it has passed it.
Given(list) ==
    /\ list \in Seq(FileRows) /\ \A x \in Listed(list) : x <= handed
    /\ config.replace /\ config.keyed => DistinctKeys(list)
    /\ \A x \in Listed(list), y \in FileRows :
          y > x /\ y <= handed /\ y \notin Listed(list) /\ FileKey[y] = FileKey[x] => FileKey[x] \in overtaken

FileTyped ==
    /\ config.replace \in BOOLEAN /\ config.keyed \in BOOLEAN /\ handed \in Nat
    /\ file \in Seq(FileLines) /\ ragged \in BOOLEAN /\ (ragged => file # <<>>)
    /\ \A k \in DOMAIN file : \A x \in file[k].rows : x <= handed
    /\ \A k \in DOMAIN file : file[k].whole => \E x \in FileRows : file[k].rows = {x}
    /\ kept \subseteq FileRows

\* Only a sink that replaces has its rows in memory, of a file it could read, and lacks none of it.
InMemory ==
    rows # Unloaded =>
        /\ config.replace /\ rows \in Seq(FileRows) /\ \A x \in Listed(rows) : x <= handed
        /\ \A k \in DOMAIN file : file[k].whole
        /\ \A x \in FileRows : InFile(x) # {} => \E y \in Listed(rows) : StandsFor(y, x)
        /\ \A x \in FileRows \ again : Times(rows, x) <= 1

Waiting == \A p \in pending : Given(p.list) /\ Listed(p.list) \subseteq again

\* In a line that nothing can be joined to.
Firm(x) == \E k \in InFile(x) : ~(ragged /\ k = Len(file))

RowsStay ==
    /\ \A r \in kept : \/ InFile(r) # {} \/ r \in Glued
                       \/ \E s \in FileRows : StandsFor(s, r) /\ Firm(s)
    /\ \A r \in FileRows \ again : Cardinality(InFile(r)) <= 1

KeyedFile ==
    ~mixed =>
        /\ config.replace /\ config.keyed
        /\ \A k \in DOMAIN file : file[k].whole
        /\ \A j, k \in DOMAIN file : \A x \in file[j].rows, y \in file[k].rows : FileKey[x] = FileKey[y] => j = k
        /\ rows # Unloaded => DistinctKeys(rows)

FileIInv == FileTyped /\ InMemory /\ Waiting /\ RowsStay /\ KeyedFile

\* What is listed of a sequence that a row is appended to.
LEMMA ListedFacts ==
    ASSUME NEW U, NEW s \in Seq(U), NEW e \in U
    PROVE  /\ Append(s, e) \in Seq(U) /\ Listed(Append(s, e)) = Listed(s) \union {e}
           /\ \A r : Times(Append(s, e), r) = Times(s, r) + (IF e = r THEN 1 ELSE 0) /\ Times(s, r) \in Nat
<1>1. Append(s, e) \in Seq(U) /\ Listed(Append(s, e)) = Listed(s) \union {e}
  BY AppendedFacts DEF Listed, InSeq
<1>2. Append(s, e) = s \o <<e>> /\ <<e>> \in Seq(U)
  OBVIOUS
<1>3. ASSUME NEW r PROVE Times(Append(s, e), r) = Times(s, r) + (IF e = r THEN 1 ELSE 0) /\ Times(s, r) \in Nat
  <2>1. Times(s \o <<e>>, r) = Times(s, r) + Times(<<e>>, r) /\ Times(s, r) \in Nat
    BY <1>2, TimesFacts
  <2>2. Times(<<e>>, r) = IF e = r THEN 1 ELSE 0
    BY TimesOfFew
  <2> QED
    BY <1>2, <2>1, <2>2
<1> QED
  BY <1>1, <1>3

\* A row that takes the place of another is there once more, and none else is.
LEMMA ReplacedFacts ==
    ASSUME NEW U, NEW s \in Seq(U), NEW e \in U, NEW k \in DOMAIN s
    PROVE  LET m == [s EXCEPT ![k] = e]
           IN  /\ m \in Seq(U) /\ e \in Listed(m) /\ Listed(m) \subseteq Listed(s) \union {e}
               /\ Listed(s) \subseteq Listed(m) \union {s[k]}
               /\ \A r : Times(m, r) <= Times(s, r) + (IF e = r THEN 1 ELSE 0)
<1> DEFINE m == [s EXCEPT ![k] = e]
<1>1. /\ m \in Seq(U) /\ DOMAIN m = DOMAIN s /\ m[k] = e /\ \A j \in DOMAIN s : j # k => m[j] = s[j]
  OBVIOUS
<1>2. DOMAIN s = 1..Len(s) /\ Len(s) \in Nat /\ IsFiniteSet(DOMAIN s)
  <2>1. DOMAIN s = 1..Len(s) /\ Len(s) \in Nat
    OBVIOUS
  <2> QED
    BY <2>1, FS_Interval
<1> HIDE DEF m
<1>3. e \in Listed(m) /\ Listed(m) \subseteq Listed(s) \union {e} /\ Listed(s) \subseteq Listed(m) \union {s[k]}
  BY <1>1 DEF Listed
<1>4. ASSUME NEW r PROVE Times(m, r) <= Times(s, r) + (IF e = r THEN 1 ELSE 0)
  <2> DEFINE M == {j \in DOMAIN m : m[j] = r}
             S == {j \in DOMAIN s : s[j] = r}
  <2>1. IsFiniteSet(S) /\ IsFiniteSet(M) /\ S \subseteq DOMAIN s /\ M \subseteq DOMAIN s
    <3>1. S \subseteq DOMAIN s /\ M \subseteq DOMAIN s
      BY <1>1
    <3> HIDE DEF S, M
    <3> QED
      BY <1>2, <3>1, FS_Subset
  <2>2. Cardinality(S) \in Nat /\ Cardinality(M) \in Nat
    BY <2>1, FS_CardinalityType
  <2>3. CASE e # r
    <3>1. M \subseteq S
      BY <1>1, <2>3
    <3>2. Cardinality(M) <= Cardinality(S)
      <4> HIDE DEF M, S
      <4> QED
        BY <2>1, <3>1, FS_Subset
    <3> QED
      BY <2>2, <2>3, <3>2 DEF Times
  <2>4. CASE e = r
    <3>1. M \subseteq S \union {k}
      BY <1>1, <2>4
    <3>2. Cardinality(M) <= Cardinality(S) + 1
      <4> HIDE DEF M, S
      <4>1. IsFiniteSet(S \union {k}) /\ Cardinality(S \union {k}) \in {Cardinality(S), Cardinality(S) + 1}
        BY <2>1, FS_AddElement
      <4>2. Cardinality(M) <= Cardinality(S \union {k})
        BY <3>1, <4>1, FS_Subset
      <4> QED
        BY <2>2, <4>1, <4>2
    <3> QED
      BY <2>2, <2>4, <3>2 DEF Times
  <2> QED
    BY <2>3, <2>4
<1> QED
  BY <1>1, <1>3, <1>4 DEF m

\* A merged row is there, in the place of one of its key or at the end.
LEMMA MergeFacts ==
    ASSUME NEW list \in Seq(FileRows), NEW row \in FileRows
    PROVE  LET m == Merge(list, row)
           IN  /\ m \in Seq(FileRows) /\ row \in Listed(m) /\ Listed(m) \subseteq Listed(list) \union {row}
               /\ \A x \in Listed(list) : x \in Listed(m) \/ (config.keyed /\ FileKey[x] = FileKey[row])
               /\ \A r : Times(m, r) <= Times(list, r) + (IF row = r THEN 1 ELSE 0)
               /\ config.keyed /\ DistinctKeys(list) => DistinctKeys(m)
<1> DEFINE same == {k \in DOMAIN list : FileKey[list[k]] = FileKey[row]}
           m == Merge(list, row)
<1>1. DOMAIN list = 1..Len(list) /\ Len(list) \in Nat
  OBVIOUS
<1>2. CASE config.keyed /\ same # {}
  <2> DEFINE last == CHOOSE k \in same : \A j \in same : j <= k
  <2>1. last \in same
    <3>1. same \in SUBSET (1..Len(list))
      BY <1>1
    <3>2. \E k \in same : \A j \in same : j <= k
      <4> HIDE DEF same
      <4> QED
        BY <1>1, <1>2, <3>1, GreatestOf
    <3> QED
      BY <3>2
  <2>2. m = [list EXCEPT ![last] = row]
    BY <1>2 DEF Merge
  <2> HIDE DEF last, m
  <2>3. last \in DOMAIN list /\ FileKey[list[last]] = FileKey[row]
    BY <2>1
  <2>4. /\ m \in Seq(FileRows) /\ row \in Listed(m) /\ Listed(m) \subseteq Listed(list) \union {row}
        /\ Listed(list) \subseteq Listed(m) \union {list[last]}
        /\ \A r : Times(m, r) <= Times(list, r) + (IF row = r THEN 1 ELSE 0)
    BY <2>2, <2>3, ReplacedFacts
  <2>5. DistinctKeys(list) => DistinctKeys(m)
    <3>1. \A k \in DOMAIN list : FileKey[m[k]] = FileKey[list[k]]
      BY <2>2, <2>3
    <3>2. DOMAIN m = DOMAIN list
      BY <2>2
    <3> QED
      BY <3>1, <3>2 DEF DistinctKeys
  <2> QED
    BY <1>2, <2>3, <2>4, <2>5 DEF m
<1>3. CASE ~(config.keyed /\ same # {})
  <2>1. m = Append(list, row)
    BY <1>3 DEF Merge
  <2>2. /\ m \in Seq(FileRows) /\ Listed(m) = Listed(list) \union {row}
        /\ \A r : Times(m, r) = Times(list, r) + (IF row = r THEN 1 ELSE 0) /\ Times(list, r) \in Nat
    BY <2>1, ListedFacts
  <2>3. ASSUME config.keyed, DistinctKeys(list) PROVE DistinctKeys(m)
    <3>1. \A k \in DOMAIN list : FileKey[list[k]] # FileKey[row]
      BY <1>3, <2>3
    <3>2. /\ DOMAIN m = 1..Len(list) + 1 /\ m[Len(list) + 1] = row
          /\ \A k \in DOMAIN list : m[k] = list[k]
      BY <2>1
    <3>3. \A k \in DOMAIN m : k \in DOMAIN list \/ k = Len(list) + 1
      BY <1>1, <3>2
    <3> HIDE DEF m
    <3> QED
      BY <2>3, <3>1, <3>2, <3>3 DEF DistinctKeys
  <2>4. \A r : Times(m, r) <= Times(list, r) + (IF row = r THEN 1 ELSE 0)
    <3> TAKE r
    <3> HIDE DEF m
    <3>1. Times(m, r) = Times(list, r) + (IF row = r THEN 1 ELSE 0) /\ Times(list, r) \in Nat
      BY <2>2
    <3> QED
      BY <3>1
  <2> HIDE DEF m
  <2> QED
    BY <2>2, <2>3, <2>4 DEF m
<1> QED
  BY <1>2, <1>3

\* The first n rows of a batch.
Behind(batch, n) == {batch[k] : k \in 1..n}

Once(batch, x) == \A j, k \in DOMAIN batch : batch[j] = x /\ batch[k] = x => j = k

\* m is the list when the first n rows of the batch were merged: each row is there, or a row of
\* the batch under its key, and once more than before.
MergedUpTo(m, list, batch, n) ==
    /\ m \in Seq(FileRows) /\ Listed(m) \subseteq Listed(list) \union Behind(batch, n)
    /\ \A x \in Listed(list) \union Behind(batch, n) :
          \/ x \in Listed(m)
          \/ config.keyed /\ \E y \in Listed(m) \intersect Behind(batch, n) : FileKey[y] = FileKey[x]
    /\ \A x : Once(batch, x) => Times(m, x) <= Times(list, x) + (IF x \in Behind(batch, n) THEN 1 ELSE 0)
    /\ config.keyed /\ DistinctKeys(list) => DistinctKeys(m)

\* One row more keeps that.
LEMMA MergedOne ==
    ASSUME NEW list \in Seq(FileRows), NEW batch \in Seq(FileRows), NEW n \in Nat, n + 1 \in DOMAIN batch,
           NEW m, MergedUpTo(m, list, batch, n)
    PROVE  MergedUpTo(Merge(m, batch[n + 1]), list, batch, n + 1)
<1> PICK row : row = batch[n + 1]
  OBVIOUS
<1> PICK after : after = Merge(m, row)
  OBVIOUS
<1>1. row \in FileRows /\ DOMAIN batch = 1..Len(batch) /\ Len(batch) \in Nat
  OBVIOUS
<1>2. m \in Seq(FileRows)
  BY DEF MergedUpTo
<1>3. /\ after \in Seq(FileRows) /\ row \in Listed(after) /\ Listed(after) \subseteq Listed(m) \union {row}
      /\ \A x \in Listed(m) : x \in Listed(after) \/ (config.keyed /\ FileKey[x] = FileKey[row])
      /\ \A r : Times(after, r) <= Times(m, r) + (IF row = r THEN 1 ELSE 0)
      /\ config.keyed /\ DistinctKeys(m) => DistinctKeys(after)
  <2>1. LET a == Merge(m, row)
        IN  /\ a \in Seq(FileRows) /\ row \in Listed(a) /\ Listed(a) \subseteq Listed(m) \union {row}
            /\ \A x \in Listed(m) : x \in Listed(a) \/ (config.keyed /\ FileKey[x] = FileKey[row])
            /\ \A r : Times(a, r) <= Times(m, r) + (IF row = r THEN 1 ELSE 0)
            /\ config.keyed /\ DistinctKeys(m) => DistinctKeys(a)
    BY <1>1, <1>2, MergeFacts, ZenonT(40)
  <2> QED
    BY <2>1
<1>4. /\ Behind(batch, n + 1) = Behind(batch, n) \union {row}
      /\ \A x : Once(batch, x) /\ x = row => x \notin Behind(batch, n)
  <2>1. \A k \in 1..n + 1 : k \in 1..n \/ k = n + 1
    OBVIOUS
  <2>2. n + 1 \in 1..n + 1 /\ \A k \in 1..n : k \in 1..n + 1 /\ k # n + 1
    OBVIOUS
  <2>3. \A k \in 1..n : k \in DOMAIN batch
    BY <1>1
  <2> QED
    BY <2>1, <2>2, <2>3 DEF Behind, Once
<1>5. ASSUME NEW x \in Listed(list) \union Behind(batch, n + 1)
      PROVE  \/ x \in Listed(after)
             \/ config.keyed /\ \E y \in Listed(after) \intersect Behind(batch, n + 1) : FileKey[y] = FileKey[x]
  <2>1. row \in Listed(after) \intersect Behind(batch, n + 1)
    BY <1>3, <1>4
  <2>2. CASE x = row
    BY <2>1, <2>2
  <2>3. CASE x # row
    <3>1. \/ x \in Listed(m)
          \/ config.keyed /\ \E y \in Listed(m) \intersect Behind(batch, n) : FileKey[y] = FileKey[x]
      BY <1>4, <2>3 DEF MergedUpTo
    <3>2. CASE x \in Listed(m)
      BY <1>3, <2>1, <3>2
    <3>3. ASSUME config.keyed, NEW y \in Listed(m) \intersect Behind(batch, n), FileKey[y] = FileKey[x]
          PROVE  \E z \in Listed(after) \intersect Behind(batch, n + 1) : FileKey[z] = FileKey[x]
      BY <1>3, <1>4, <2>1, <3>3
    <3> QED
      BY <3>1, <3>2, <3>3
  <2> QED
    BY <2>2, <2>3
<1>6. ASSUME NEW x, Once(batch, x)
      PROVE  Times(after, x) <= Times(list, x) + (IF x \in Behind(batch, n + 1) THEN 1 ELSE 0)
  <2>1. Times(after, x) \in Nat /\ Times(m, x) \in Nat /\ Times(list, x) \in Nat
    BY <1>2, <1>3, TimesFacts
  <2>2. Times(after, x) <= Times(m, x) + (IF row = x THEN 1 ELSE 0)
    BY <1>3
  <2>3. Times(m, x) <= Times(list, x) + (IF x \in Behind(batch, n) THEN 1 ELSE 0)
    BY <1>6 DEF MergedUpTo
  <2>4. x = row => x \notin Behind(batch, n)
    BY <1>4, <1>6
  <2>5. x \in Behind(batch, n + 1) <=> x \in Behind(batch, n) \/ x = row
    BY <1>4
  <2> QED
    BY <2>1, <2>2, <2>3, <2>4, <2>5
<1>7. MergedUpTo(after, list, batch, n + 1)
  <2>1. Listed(after) \subseteq Listed(list) \union Behind(batch, n + 1)
    BY <1>3, <1>4 DEF MergedUpTo
  <2>2. config.keyed /\ DistinctKeys(list) => DistinctKeys(after)
    BY <1>3 DEF MergedUpTo
  <2> QED
    BY <1>3, <1>5, <1>6, <2>1, <2>2 DEF MergedUpTo
<1> QED
  BY <1>7

\* And so all of the batch.
LEMMA MergedFacts ==
    ASSUME NEW list \in Seq(FileRows), NEW batch \in Seq(FileRows)
    PROVE  MergedUpTo(Merged(list, batch), list, batch, Len(batch)) /\ Behind(batch, Len(batch)) = Listed(batch)
<1> DEFINE next == [s \in Seq(FileRows) |-> [k \in Nat |-> IF k \in DOMAIN batch THEN Merge(s, batch[k]) ELSE s]]
           after[k \in 0..Len(batch)] == IF k = 0 THEN list ELSE Merge(after[k - 1], batch[k])
<1>1. Len(batch) \in Nat /\ DOMAIN batch = 1..Len(batch) /\ \A k \in DOMAIN batch : batch[k] \in FileRows
  OBVIOUS
<1>2. next \in [Seq(FileRows) -> [Nat -> Seq(FileRows)]]
  <2>1. \A s \in Seq(FileRows), k \in DOMAIN batch : Merge(s, batch[k]) \in Seq(FileRows)
    BY <1>1, MergeFacts
  <2> QED
    BY <2>1
<1>3. PICK g \in [0..Len(batch) -> Seq(FileRows)] : GoesOn(g, list, next, Len(batch))
  <2> HIDE DEF next
  <2> QED
    BY <1>1, <1>2, Recursion
<1>4. \A k \in 1..Len(batch) : g[k] = Merge(g[k - 1], batch[k])
  <2> TAKE k \in 1..Len(batch)
  <2>1. k - 1 \in 0..Len(batch) /\ k \in Nat /\ k \in DOMAIN batch
    BY <1>1
  <2>2. g[k - 1] \in Seq(FileRows)
    BY <2>1
  <2>3. g[k] = next[g[k - 1]][k]
    BY <1>3 DEF GoesOn
  <2> QED
    BY <2>1, <2>2, <2>3
<1>5. /\ after[0] = list
      /\ \A k \in 1..Len(batch) : after[k] = Merge(after[k - 1], batch[k])
  <2> HIDE DEF next
  <2>1. 0 \in 0..Len(batch) /\ \A k \in 1..Len(batch) : k \in 0..Len(batch) /\ k # 0
    BY <1>1
  <2>2. \A k \in 0..Len(batch) : k # 0 => k \in 1..Len(batch)
    BY <1>1
  <2>3. g = [k \in 0..Len(batch) |-> IF k = 0 THEN list ELSE Merge(g[k - 1], batch[k])]
    BY <1>3, <1>4, <2>2 DEF GoesOn
  <2>4. after = [k \in 0..Len(batch) |-> IF k = 0 THEN list ELSE Merge(after[k - 1], batch[k])]
    BY <2>3
  <2> HIDE DEF after
  <2> QED
    BY <2>1, <2>4
<1>6. Merged(list, batch) = after[Len(batch)]
  BY DEF Merged
<1> DEFINE Good == {n \in Nat : n <= Len(batch) => MergedUpTo(after[n], list, batch, n)}
<1> HIDE DEF after, next
<1>7. 0 \in Good
  <2>1. Behind(batch, 0) = {} /\ Listed(list) \union {} = Listed(list)
    BY DEF Behind
  <2>2. \A x : Times(list, x) <= Times(list, x) + 0
    <3> TAKE x
    <3>1. Times(list, x) \in Nat
      BY TimesFacts
    <3> QED
      BY <3>1
  <2>3. MergedUpTo(list, list, batch, 0)
    BY <2>1, <2>2 DEF MergedUpTo
  <2> QED
    BY <1>5, <2>3
<1>8. \A n \in Nat : n \in Good => n + 1 \in Good
  <2> TAKE n \in Nat
  <2> HAVE n \in Good
  <2> SUFFICES ASSUME n + 1 <= Len(batch) PROVE MergedUpTo(after[n + 1], list, batch, n + 1)
    OBVIOUS
  <2>1. n <= Len(batch) /\ n + 1 \in DOMAIN batch /\ n + 1 \in 1..Len(batch) /\ (n + 1) - 1 = n
    BY <1>1
  <2>2. MergedUpTo(after[n], list, batch, n)
    BY <2>1
  <2>3. after[n + 1] = Merge(after[n], batch[n + 1])
    BY <1>5, <2>1
  <2>4. MergedUpTo(Merge(after[n], batch[n + 1]), list, batch, n + 1)
    BY <2>1, <2>2, MergedOne
  <2> QED
    BY <2>3, <2>4
<1>9. Len(batch) \in Good
  <2> HIDE DEF Good
  <2> QED
    BY <1>1, <1>7, <1>8, AllNumbers
<1>10. Behind(batch, Len(batch)) = Listed(batch)
  BY <1>1 DEF Behind, Listed
<1> QED
  BY <1>1, <1>6, <1>9, <1>10

\* What a sink that replaces works on: its rows, or those of a file that can be read.
LoadedSound(list) ==
    /\ list \in Seq(FileRows) /\ \A x \in Listed(list) : x <= handed
    /\ \A k \in DOMAIN file : file[k].whole
    /\ \A x \in FileRows : InFile(x) # {} => \E y \in Listed(list) : StandsFor(y, x)
    /\ \A x \in FileRows \ again : Times(list, x) <= 1
    /\ ~mixed => DistinctKeys(list)

\* Rows are numbers.
LEMMA RowsAreNumbers ==
    /\ FileRows = 1..Len(FileKey) /\ Len(FileKey) \in Nat /\ \A x \in FileRows : x \in Nat /\ 1 <= x
    /\ \A x \in FileRows : StandsFor(x, x)
<1>1. FileRows = 1..Len(FileKey) /\ Len(FileKey) \in Nat
  BY FileSinkAssumption DEF FileRows
<1> QED
  BY <1>1 DEF StandsFor

\* Loading gives each line its row.
LEMMA LoadedFacts ==
    ASSUME FileIInv, Loads
    PROVE  LoadedSound(Loaded)
<1>0. FileTyped /\ InMemory /\ RowsStay /\ KeyedFile
  BY DEF FileIInv
<1>1. CASE rows # Unloaded
  <2>1. Loaded = rows
    BY <1>1 DEF Loaded
  <2> QED
    BY <1>0, <1>1, <2>1 DEF InMemory, KeyedFile, LoadedSound
<1>2. CASE rows = Unloaded
  <2> DEFINE one(k) == CHOOSE r \in file[k].rows : TRUE
             list == [k \in DOMAIN file |-> one(k)]
  <2>1. Loaded = list
    BY <1>2 DEF Loaded
  <2>2. \A k \in DOMAIN file : file[k].whole
    BY <1>2 DEF Loads
  <2>3. \A k \in DOMAIN file : one(k) \in FileRows /\ file[k].rows = {one(k)} /\ one(k) <= handed
    <3> TAKE k \in DOMAIN file
    <3>1. PICK x \in FileRows : file[k].rows = {x}
      BY <1>0, <2>2 DEF FileTyped
    <3>2. one(k) = x
      BY <3>1
    <3>3. \A y \in file[k].rows : y <= handed
      BY <1>0 DEF FileTyped
    <3> HIDE DEF one
    <3> QED
      BY <3>1, <3>2, <3>3
  <2> HIDE DEF one
  <2>4. DOMAIN file = 1..Len(file) /\ Len(file) \in Nat
    BY <1>0 DEF FileTyped
  <2>5. list \in Seq(FileRows) /\ DOMAIN list = DOMAIN file /\ \A k \in DOMAIN list : list[k] = one(k)
    BY <2>3, <2>4
  <2> HIDE DEF list
  <2>6. \A x \in Listed(list) : x <= handed
    BY <2>3, <2>5 DEF Listed
  <2>7. \A x : InFile(x) = {k \in DOMAIN list : list[k] = x}
    BY <2>2, <2>3, <2>5 DEF InFile
  <2>8. ASSUME NEW x \in FileRows, InFile(x) # {} PROVE \E y \in Listed(list) : StandsFor(y, x)
    <3>1. x \in Listed(list)
      BY <2>7, <2>8 DEF Listed
    <3> QED
      BY <3>1, RowsAreNumbers
  <2>9. \A x \in FileRows \ again : Times(list, x) <= 1
    BY <1>0, <2>7 DEF RowsStay, Times
  <2>10. ASSUME ~mixed PROVE DistinctKeys(list)
    <3>1. \A j, k \in DOMAIN file : FileKey[one(j)] = FileKey[one(k)] => j = k
      <4>1. \A j, k \in DOMAIN file : \A x \in file[j].rows, y \in file[k].rows : FileKey[x] = FileKey[y] => j = k
        BY <1>0, <2>10 DEF KeyedFile
      <4>2. \A k \in DOMAIN file : one(k) \in file[k].rows
        BY <2>3
      <4> QED
        BY <4>1, <4>2
    <3> QED
      BY <2>5, <3>1 DEF DistinctKeys
  <2> QED
    BY <2>1, <2>2, <2>5, <2>6, <2>8, <2>9, <2>10 DEF LoadedSound
<1> QED
  BY <1>1, <1>2

\* What an append makes of the file: the lines it had, but for one without an end, and the new
\* ones, the first of which is joined to that.
AppendedTo(F, list, n, cut, old, new) ==
    /\ F \in Seq(FileLines) /\ Len(F) = old + Len(new)
    /\ old = (IF ragged /\ Len(new) > 0 THEN Len(file) - 1 ELSE Len(file))
    /\ Len(new) = n + (IF cut = "line" THEN 0 ELSE 1)
    /\ \A j \in 1..Len(new) :
          /\ j \in DOMAIN list /\ new[j].rows \subseteq {list[j]}
          /\ new[j].whole => new[j].rows = {list[j]}
          /\ j <= n => new[j] = Line(list[j])
    /\ \A k \in 1..old : F[k] = file[k]
    /\ \A j \in 1..Len(new) :
          F[old + j] = IF j = 1 /\ ragged
                       THEN [rows |-> file[Len(file)].rows \union new[1].rows, whole |-> FALSE] ELSE new[j]

\* Two sequences one behind the other.
LEMMA BehindEachOther ==
    ASSUME NEW U, NEW a \in Seq(U), NEW b \in Seq(U)
    PROVE  /\ a \o b \in Seq(U) /\ Len(a \o b) = Len(a) + Len(b)
           /\ \A k \in 1..Len(a) : (a \o b)[k] = a[k]
           /\ \A j \in 1..Len(b) : (a \o b)[Len(a) + j] = b[j]
OBVIOUS

IsBetween(U, a, c, b, f) ==
    /\ f \in Seq(U) /\ Len(f) = Len(a) + 1 + Len(b) /\ f[Len(a) + 1] = c
    /\ \A k \in 1..Len(a) : f[k] = a[k]
    /\ \A j \in 1..Len(b) : f[Len(a) + 1 + j] = b[j]

\* One element between two sequences.
LEMMA OneBetween ==
    ASSUME NEW U, NEW a \in Seq(U), NEW c \in U, NEW b \in Seq(U), NEW f, f = a \o <<c>> \o b
    PROVE  IsBetween(U, a, c, b, f)
<1>1. PICK ac : ac = a \o <<c>>
  OBVIOUS
<1>2. <<c>> \in Seq(U) /\ Len(<<c>>) = 1 /\ <<c>>[1] = c
  OBVIOUS
<1>3. ac \in Seq(U) /\ Len(ac) = Len(a) + 1 /\ ac[Len(a) + 1] = c /\ \A k \in 1..Len(a) : ac[k] = a[k]
  BY <1>1
<1>4. f = ac \o b
  BY <1>1
<1>5. f \in Seq(U) /\ Len(f) = Len(ac) + Len(b)
  BY <1>3, <1>4
<1>6. (\A k \in 1..Len(ac) : f[k] = ac[k]) /\ \A j \in 1..Len(b) : f[Len(ac) + j] = b[j]
  BY <1>3, <1>4
<1>7. Len(a) + 1 \in 1..Len(ac) /\ \A k \in 1..Len(a) : k \in 1..Len(ac)
  BY <1>3
<1> QED
  BY <1>3, <1>5, <1>6, <1>7 DEF IsBetween

\* The beginning of one.
LEMMA Shortened ==
    ASSUME NEW U, NEW a \in Seq(U), NEW n \in Nat, n <= Len(a)
    PROVE  /\ SubSeq(a, 1, n) \in Seq(U) /\ Len(SubSeq(a, 1, n)) = n
           /\ \A k \in 1..n : SubSeq(a, 1, n)[k] = a[k]
<1>1. \A k \in 1..n : a[k] \in U
  OBVIOUS
<1>2. SubSeq(a, 1, n) = [k \in 1..n |-> a[k]]
  OBVIOUS
<1> PICK short : short = [k \in 1..n |-> a[k]]
  OBVIOUS
<1>3. short \in [1..n -> U]
  BY <1>1
<1> QED
  BY <1>2, <1>3

\* An append makes this of the file.
LEMMA AppendedShape ==
    ASSUME FileTyped, NEW list \in Seq(FileRows), NEW n \in 0..Len(list), NEW cut, cut # "line" => n < Len(list)
    PROVE  \E old \in Nat, new \in Seq(FileLines) : AppendedTo(Appended(list, n, cut), list, n, cut, old, new)
<1> DEFINE m == n + (IF cut = "line" THEN 0 ELSE 1)
           torn == [rows |-> {}, whole |-> FALSE]
           new == [k \in 1..m |-> IF k > n /\ cut = "inside" THEN torn ELSE Line(list[k])]
           joined == [rows |-> file[Len(file)].rows \union new[1].rows, whole |-> FALSE]
           short == SubSeq(file, 1, Len(file) - 1)
<1>1. file \in Seq(FileLines) /\ Len(file) \in Nat /\ ragged \in BOOLEAN /\ (ragged => Len(file) > 0)
  BY DEF FileTyped
<1>2. m \in Nat /\ m <= Len(list) /\ Len(list) \in Nat /\ DOMAIN list = 1..Len(list)
  OBVIOUS
<1>3. torn \in FileLines /\ \A r \in FileRows : Line(r) \in FileLines /\ Line(r).rows = {r} /\ Line(r).whole
  BY DEF FileLines, Line
<1>4. \A j \in 1..m : j \in DOMAIN list /\ list[j] \in FileRows /\ new[j] \in FileLines
  <2> TAKE j \in 1..m
  <2>1. j \in DOMAIN list
    BY <1>2
  <2>2. list[j] \in FileRows
    BY <2>1
  <2>3. Line(list[j]) \in FileLines
    BY <1>3, <2>2
  <2> HIDE DEF torn
  <2> QED
    BY <1>3, <2>1, <2>2, <2>3
<1>5. /\ new \in Seq(FileLines) /\ Len(new) = m
      /\ \A j \in 1..m : new[j] = IF j > n /\ cut = "inside" THEN torn ELSE Line(list[j])
  <2> HIDE DEF m, torn
  <2>1. new \in [1..m -> FileLines]
    BY <1>4
  <2> QED
    BY <1>2, <2>1
<1>6. Appended(list, n, cut) = IF ragged /\ new # <<>> THEN short \o <<joined>> \o Tail(new) ELSE file \o new
  BY Zenon DEF Appended
<1>7. torn.rows = {} /\ ~torn.whole
  OBVIOUS
<1> HIDE DEF torn, m
<1>8. \A j \in 1..m : /\ new[j].rows \subseteq {list[j]} /\ (new[j].whole => new[j].rows = {list[j]})
                      /\ (j <= n => new[j] = Line(list[j]))
  <2> TAKE j \in 1..m
  <2>1. j \in Nat /\ n \in Nat /\ list[j] \in FileRows
    BY <1>2, <1>4
  <2>2. new[j] = IF j > n /\ cut = "inside" THEN torn ELSE Line(list[j])
    BY <1>5
  <2>3. Line(list[j]).rows = {list[j]} /\ Line(list[j]).whole
    BY <1>3, <2>1
  <2> HIDE DEF new
  <2> QED
    BY <1>7, <2>1, <2>2, <2>3
<1> HIDE DEF new
<1>9. new # <<>> <=> m > 0
  BY <1>2, <1>5
<1>10. CASE ragged /\ m > 0
  <2>1. joined \in FileLines
    <3>1. Len(file) \in DOMAIN file /\ 1 \in DOMAIN new
      BY <1>1, <1>2, <1>5, <1>10
    <3>2. file[Len(file)] \in FileLines /\ new[1] \in FileLines
      BY <1>1, <1>5, <3>1
    <3> QED
      BY <3>2 DEF FileLines
  <2>2. short \in Seq(FileLines) /\ Len(short) = Len(file) - 1 /\ \A k \in 1..Len(file) - 1 : short[k] = file[k]
    <3>1. Len(file) - 1 \in Nat /\ Len(file) - 1 <= Len(file)
      BY <1>1, <1>10
    <3> QED
      BY <1>1, <3>1, Shortened
  <2>3. Tail(new) \in Seq(FileLines) /\ Len(Tail(new)) = m - 1 /\ \A j \in 1..m - 1 : Tail(new)[j] = new[j + 1]
    BY <1>2, <1>5, <1>9, <1>10
  <2>4. PICK a, b, old : a = short /\ b = Tail(new) /\ old = Len(file) - 1
    OBVIOUS
  <2>5. PICK c : c = joined
    OBVIOUS
  <2>6. PICK F : F = a \o <<c>> \o b
    OBVIOUS
  <2>7. a \in Seq(FileLines) /\ b \in Seq(FileLines) /\ c \in FileLines /\ Len(a) = old /\ Len(b) = m - 1 /\ old \in Nat
    BY <1>1, <1>10, <2>1, <2>2, <2>3, <2>4, <2>5
  <2>8. /\ F \in Seq(FileLines) /\ Len(F) = old + m /\ F[old + 1] = c
        /\ \A k \in 1..old : F[k] = a[k]
        /\ \A j \in 1..m - 1 : F[old + 1 + j] = b[j]
    <3>1. /\ F \in Seq(FileLines) /\ Len(F) = Len(a) + 1 + Len(b) /\ F[Len(a) + 1] = c
          /\ \A k \in 1..Len(a) : F[k] = a[k]
          /\ \A j \in 1..Len(b) : F[Len(a) + 1 + j] = b[j]
      <4>1. a \in Seq(FileLines) /\ b \in Seq(FileLines) /\ c \in FileLines
        BY <2>7
      <4>2. IsBetween(FileLines, a, c, b, F)
        BY <2>6, <4>1, OneBetween
      <4> QED
        BY <4>2 DEF IsBetween
    <3>2. Len(F) = old + m
      BY <1>2, <2>7, <3>1
    <3> QED
      BY <2>7, <3>1, <3>2
  <2>9. \A j \in 1..m : F[old + j] = IF j = 1 THEN c ELSE new[j]
    <3> TAKE j \in 1..m
    <3>1. CASE j = 1
      BY <2>8, <3>1
    <3>2. CASE j # 1
      <4>1. j - 1 \in 1..m - 1 /\ old + 1 + (j - 1) = old + j /\ (j - 1) + 1 = j
        BY <1>2, <2>7, <3>2
      <4>2. b[j - 1] = new[(j - 1) + 1]
        BY <2>3, <2>4, <4>1
      <4> QED
        BY <2>8, <3>2, <4>1, <4>2
    <3> QED
      BY <3>1, <3>2
  <2>10. \A k \in 1..old : F[k] = file[k]
    BY <2>2, <2>4, <2>8
  <2>11. Appended(list, n, cut) = F
    BY <1>6, <1>9, <1>10, <2>4, <2>5, <2>6
  <2>12. AppendedTo(F, list, n, cut, old, new)
    <3>1. \A j \in 1..Len(new) : F[old + j] = IF j = 1 /\ ragged THEN c ELSE new[j]
      BY <1>5, <1>10, <2>9
    <3>2. old = IF ragged /\ Len(new) > 0 THEN Len(file) - 1 ELSE Len(file)
      BY <1>5, <1>10, <2>4
    <3>3. Len(new) = n + (IF cut = "line" THEN 0 ELSE 1)
      BY <1>5 DEF m
    <3> QED
      BY <1>4, <1>5, <1>8, <2>5, <2>8, <2>10, <3>1, <3>2, <3>3 DEF AppendedTo
  <2> QED
    BY <1>5, <2>7, <2>11, <2>12
<1>11. CASE ~(ragged /\ m > 0)
  <2>1. PICK F, old : F = file \o new /\ old = Len(file)
    OBVIOUS
  <2>2. /\ F \in Seq(FileLines) /\ Len(F) = old + m /\ old \in Nat
        /\ \A k \in 1..old : F[k] = file[k]
        /\ \A j \in 1..m : F[old + j] = new[j]
    BY <1>1, <1>5, <2>1, BehindEachOther
  <2>3. Appended(list, n, cut) = F
    BY <1>6, <1>9, <1>11, <2>1
  <2>4. AppendedTo(F, list, n, cut, old, new)
    <3>1. \A j \in 1..Len(new) : F[old + j] = IF j = 1 /\ ragged THEN joined ELSE new[j]
      <4>1. \A j \in 1..m : m > 0
        BY <1>2
      <4> QED
        BY <1>5, <1>11, <2>2, <4>1
    <3>2. old = IF ragged /\ Len(new) > 0 THEN Len(file) - 1 ELSE Len(file)
      BY <1>5, <1>11, <2>1
    <3>3. Len(new) = n + (IF cut = "line" THEN 0 ELSE 1)
      BY <1>5 DEF m
    <3> QED
      BY <1>4, <1>5, <1>8, <2>2, <3>1, <3>2, <3>3 DEF AppendedTo
  <2> QED
    BY <1>5, <2>2, <2>3, <2>4
<1> QED
  BY <1>10, <1>11

\* What a step that appends rows has to know of them: they are new, or of a batch that failed.
Appending(list, n, cut) ==
    /\ list \in Seq(FileRows) /\ n \in 0..Len(list) /\ (cut # "line" => n < Len(list))
    /\ file' = Appended(list, n, cut)
    /\ ragged' \in BOOLEAN /\ (ragged' => cut # "line" \/ (n = 0 /\ ragged))
    /\ handed' \in Nat /\ handed <= handed' /\ \A x \in Listed(list) : x <= handed'
    /\ overtaken \subseteq overtaken' /\ again \subseteq again'
    /\ \A x \in FileRows \ again' : x \in Listed(list) => x > handed /\ Once(list, x)
    /\ kept \subseteq kept' /\ kept' \subseteq kept \union (IF cut = "line" /\ n = Len(list) THEN Listed(list) ELSE {})

\* A number up to a sum is up to the first number, or by some of the second beyond it.
LEMMA Beyond ==
    ASSUME NEW a \in Nat, NEW b \in Nat, NEW k \in 1..(a + b)
    PROVE  k \in 1..a \/ \E j \in 1..b : k = a + j
<1>1. CASE k > a
  <2>1. k - a \in 1..b /\ k = a + (k - a)
    BY <1>1
  <2> QED
    BY <2>1
<1> QED
  BY <1>1

\* Appending, whole or in part, leaves what was there, but for what it joins to half a line.
LEMMA AppendKeeps ==
    ASSUME FileTyped, RowsStay, NEW list, NEW n, NEW cut, Appending(list, n, cut),
           config'.replace \in BOOLEAN, config'.keyed \in BOOLEAN
    PROVE  FileTyped' /\ RowsStay'
<1>1. /\ list \in Seq(FileRows) /\ n \in 0..Len(list) /\ (cut # "line" => n < Len(list))
      /\ file' = Appended(list, n, cut)
      /\ ragged' \in BOOLEAN /\ (ragged' => cut # "line" \/ (n = 0 /\ ragged))
      /\ handed' \in Nat /\ handed <= handed' /\ \A x \in Listed(list) : x <= handed'
      /\ overtaken \subseteq overtaken' /\ again \subseteq again'
      /\ \A x \in FileRows \ again' : x \in Listed(list) => x > handed /\ Once(list, x)
      /\ kept' \subseteq kept \union (IF cut = "line" /\ n = Len(list) THEN Listed(list) ELSE {})
  BY DEF Appending
<1>2. PICK old \in Nat, new \in Seq(FileLines) : AppendedTo(file', list, n, cut, old, new)
  BY <1>1, AppendedShape
<1>3. file \in Seq(FileLines) /\ Len(file) \in Nat /\ ragged \in BOOLEAN /\ (ragged => Len(file) > 0) /\ handed \in Nat
  BY DEF FileTyped
<1>4. /\ file' \in Seq(FileLines) /\ Len(file') = old + Len(new) /\ DOMAIN file' = 1..Len(file')
      /\ old = (IF ragged /\ Len(new) > 0 THEN Len(file) - 1 ELSE Len(file))
      /\ Len(new) = n + (IF cut = "line" THEN 0 ELSE 1) /\ Len(new) \in Nat
      /\ \A k \in 1..old : file'[k] = file[k] /\ k \in DOMAIN file /\ k \in DOMAIN file'
  BY <1>2, <1>3 DEF AppendedTo
<1>5. PICK joined : joined = [rows |-> file[Len(file)].rows \union new[1].rows, whole |-> FALSE]
  OBVIOUS
<1>6. joined.rows = file[Len(file)].rows \union new[1].rows /\ ~joined.whole
  BY <1>5
<1>7. \A j \in 1..Len(new) : /\ old + j \in DOMAIN file'
                             /\ file'[old + j] = IF j = 1 /\ ragged THEN joined ELSE new[j]
                             /\ j \in DOMAIN list /\ list[j] \in Listed(list) /\ list[j] \in FileRows
                             /\ new[j].rows \subseteq {list[j]} /\ (new[j].whole => new[j].rows = {list[j]})
                             /\ (j <= n => new[j] = Line(list[j]))
  <2> TAKE j \in 1..Len(new)
  <2>1. old + j \in DOMAIN file'
    BY <1>4
  <2>2. file'[old + j] = IF j = 1 /\ ragged THEN joined ELSE new[j]
    BY <1>2, <1>5 DEF AppendedTo
  <2>3. j \in DOMAIN list /\ new[j].rows \subseteq {list[j]} /\ (new[j].whole => new[j].rows = {list[j]})
        /\ (j <= n => new[j] = Line(list[j]))
    BY <1>2 DEF AppendedTo
  <2>4. list[j] \in Listed(list) /\ list[j] \in FileRows
    BY <1>1, <2>3 DEF Listed
  <2> QED
    BY <2>1, <2>2, <2>3, <2>4
<1>8. \A k \in DOMAIN file' : k \in 1..old \/ \E j \in 1..Len(new) : k = old + j
  <2>1. old \in Nat /\ Len(new) \in Nat /\ DOMAIN file' = 1..(old + Len(new))
    BY <1>4
  <2> QED
    BY <2>1, Beyond
\* A line that stayed, and one that was joined to.
<1>9. \A k \in DOMAIN file : k \in 1..old \/ (ragged /\ k = Len(file) /\ Len(new) > 0)
  BY <1>3, <1>4
<1>10. ASSUME ragged, Len(new) > 0
       PROVE  old + 1 \in DOMAIN file' /\ file'[old + 1] = joined /\ old + 1 = Len(file)
  <2>1. 1 \in 1..Len(new)
    BY <1>4, <1>10
  <2> QED
    BY <1>3, <1>4, <1>7, <1>10, <2>1
<1>11. ASSUME NEW x, InFile(x) # {} PROVE InFile(x)' # {} \/ x \in Glued'
  <2>1. PICK k \in DOMAIN file : file[k].whole /\ x \in file[k].rows
    BY <1>11 DEF InFile
  <2>2. CASE k \in 1..old
    BY <1>4, <2>1, <2>2 DEF InFile
  <2>3. CASE ragged /\ k = Len(file) /\ Len(new) > 0
    BY <1>6, <1>10, <2>1, <2>3 DEF Glued
  <2> QED
    BY <1>9, <2>2, <2>3
<1>12. ASSUME NEW x, x \in Glued PROVE x \in Glued'
  <2>1. PICK k \in DOMAIN file : ~file[k].whole /\ x \in file[k].rows
    BY <1>12 DEF Glued
  <2>2. CASE k \in 1..old
    BY <1>4, <2>1, <2>2 DEF Glued
  <2>3. CASE ragged /\ k = Len(file) /\ Len(new) > 0
    BY <1>6, <1>10, <2>1, <2>3 DEF Glued
  <2> QED
    BY <1>9, <2>2, <2>3
<1>13. ASSUME NEW x, Firm(x) PROVE Firm(x)'
  <2>1. PICK k \in DOMAIN file : file[k].whole /\ x \in file[k].rows /\ ~(ragged /\ k = Len(file))
    BY <1>13 DEF Firm, InFile
  <2>2. k \in 1..old
    BY <1>9, <2>1
  <2>3. k \in DOMAIN file' /\ file'[k].whole /\ x \in file'[k].rows
    BY <1>4, <2>1, <2>2
  <2>4. ASSUME ragged', k = Len(file') PROVE FALSE
    <3>1. k <= old /\ Len(new) = 0 /\ old = Len(file)
      BY <1>4, <2>2, <2>4
    <3>2. n \in Nat
      BY <1>1
    <3>3. cut = "line" /\ n = 0
      BY <1>4, <3>1, <3>2
    <3> QED
      BY <1>1, <1>4, <2>1, <2>4, <3>1, <3>3
  <2> QED
    BY <2>3, <2>4 DEF Firm, InFile
<1>14. ASSUME NEW x \in Listed(list), cut = "line", n = Len(list) PROVE InFile(x)' # {} \/ x \in Glued'
  <2>1. PICK j \in DOMAIN list : x = list[j]
    BY DEF Listed
  <2>2. j \in 1..Len(new) /\ j <= n
    BY <1>1, <1>4, <1>14
  <2>3. new[j] = Line(x) /\ new[j].rows = {x} /\ new[j].whole
    BY <1>7, <2>1, <2>2 DEF Line
  <2>4. CASE j = 1 /\ ragged
    <3>1. old + 1 \in DOMAIN file' /\ file'[old + 1] = joined
      BY <1>7, <2>2, <2>4
    <3>2. x \in joined.rows
      BY <1>6, <2>3, <2>4
    <3> QED
      BY <1>6, <3>1, <3>2 DEF Glued
  <2>5. CASE ~(j = 1 /\ ragged)
    <3>1. old + j \in DOMAIN file' /\ file'[old + j] = new[j]
      BY <1>7, <2>2, <2>5
    <3> QED
      BY <2>3, <3>1 DEF InFile
  <2> QED
    BY <2>4, <2>5
<1>15. FileTyped'
  <2>1. ragged' => file' # <<>>
    <3> SUFFICES ASSUME ragged' PROVE Len(file') > 0
      BY <1>4
    <3>1. n \in Nat
      BY <1>1
    <3>2. Len(new) > 0 \/ (Len(new) = 0 /\ ragged)
      BY <1>1, <1>4, <3>1
    <3> QED
      BY <1>3, <1>4, <3>2
  <2>2. ASSUME NEW k \in DOMAIN file', NEW x \in file'[k].rows PROVE x <= handed'
    <3>1. \A i \in DOMAIN file : \A y \in file[i].rows : y <= handed /\ y \in FileRows
      <4>1. \A i \in DOMAIN file : file[i] \in FileLines
        BY <1>3
      <4> QED
        BY <4>1 DEF FileTyped, FileLines
    <3>2. \A i \in DOMAIN file : \A y \in file[i].rows : y <= handed'
      <4> TAKE i \in DOMAIN file
      <4> TAKE y \in file[i].rows
      <4>1. y <= handed /\ y \in Nat
        BY <3>1, RowsAreNumbers
      <4> QED
        BY <1>1, <1>3, <4>1
    <3>3. CASE k \in 1..old
      BY <1>4, <2>2, <3>2, <3>3
    <3>4. ASSUME NEW j \in 1..Len(new), k = old + j PROVE x <= handed'
      <4>1. new[j].rows \subseteq {list[j]} /\ list[j] <= handed'
        BY <1>1, <1>7
      <4>2. CASE j = 1 /\ ragged
        <5>1. x \in file[Len(file)].rows \union new[1].rows
          BY <1>6, <1>7, <2>2, <3>4, <4>2
        <5>2. Len(file) \in DOMAIN file
          BY <1>3, <4>2
        <5> QED
          BY <3>2, <4>1, <4>2, <5>1, <5>2
      <4>3. CASE ~(j = 1 /\ ragged)
        BY <1>7, <2>2, <3>4, <4>1, <4>3
      <4> QED
        BY <4>2, <4>3
    <3> QED
      BY <1>8, <3>3, <3>4
  <2>3. ASSUME NEW k \in DOMAIN file', file'[k].whole PROVE \E x \in FileRows : file'[k].rows = {x}
    <3>1. CASE k \in 1..old
      BY <1>4, <2>3, <3>1 DEF FileTyped
    <3>2. ASSUME NEW j \in 1..Len(new), k = old + j PROVE \E x \in FileRows : file'[k].rows = {x}
      <4>1. ~(j = 1 /\ ragged)
        BY <1>6, <1>7, <2>3, <3>2
      <4> QED
        BY <1>7, <2>3, <3>2, <4>1
    <3> QED
      BY <1>8, <3>1, <3>2
  <2>4. kept' \subseteq FileRows
    <3>1. Listed(list) \subseteq FileRows
      BY <1>1 DEF Listed
    <3> QED
      BY <1>1, <3>1 DEF FileTyped
  <2> QED
    BY <1>1, <1>4, <2>1, <2>2, <2>3, <2>4 DEF FileTyped
<1>16. ASSUME NEW x \in FileRows \ again' PROVE Cardinality(InFile(x)') <= 1
  <2>1. Cardinality(InFile(x)) <= 1
    BY <1>1 DEF RowsStay
  <2>2. IsFiniteSet(InFile(x)) /\ Cardinality(InFile(x)) \in Nat
    <3>1. InFile(x) \subseteq 1..Len(file) /\ IsFiniteSet(1..Len(file))
      <4>1. DOMAIN file = 1..Len(file)
        BY <1>3
      <4>2. IsFiniteSet(1..Len(file))
        BY <1>3, FS_Interval
      <4> QED
        BY <4>1, <4>2 DEF InFile
    <3>2. IsFiniteSet(InFile(x))
      BY <3>1, FS_Subset
    <3> QED
      BY <3>2, FS_CardinalityType
  <2>3. CASE x \notin Listed(list)
    <3>1. InFile(x)' \subseteq InFile(x)
      <4> SUFFICES ASSUME NEW k \in DOMAIN file', file'[k].whole, x \in file'[k].rows PROVE k \in InFile(x)
        BY DEF InFile
      <4>1. CASE k \in 1..old
        BY <1>4, <4>1 DEF InFile
      <4>2. ASSUME NEW j \in 1..Len(new), k = old + j PROVE FALSE
        <5>1. ~(j = 1 /\ ragged)
          BY <1>6, <1>7, <4>2
        <5> QED
          BY <1>7, <2>3, <4>2, <5>1
      <4> QED
        BY <1>8, <4>1, <4>2
    <3>2. PICK A, B : A = InFile(x)' /\ B = InFile(x)
      OBVIOUS
    <3>3. IsFiniteSet(A) /\ Cardinality(A) <= Cardinality(B)
      BY <2>2, <3>1, <3>2, FS_Subset
    <3>4. Cardinality(A) \in Nat
      BY <3>3, FS_CardinalityType
    <3> QED
      BY <2>1, <2>2, <3>2, <3>3, <3>4
  <2>4. CASE x \in Listed(list)
    <3>1. x > handed /\ Once(list, x)
      BY <1>1, <2>4
    <3>2. PICK i \in DOMAIN list : list[i] = x
      BY <2>4 DEF Listed
    <3>3. InFile(x)' \subseteq {old + i}
      <4> SUFFICES ASSUME NEW k \in DOMAIN file', file'[k].whole, x \in file'[k].rows PROVE k = old + i
        BY DEF InFile
      <4>1. CASE k \in 1..old
        <5>1. x <= handed
          BY <1>4, <4>1 DEF FileTyped
        <5> QED
          BY <1>3, <3>1, <5>1, RowsAreNumbers
      <4>2. ASSUME NEW j \in 1..Len(new), k = old + j PROVE j = i
        <5>1. ~(j = 1 /\ ragged)
          BY <1>6, <1>7, <4>2
        <5>2. list[j] = x /\ j \in DOMAIN list
          BY <1>7, <4>2, <5>1
        <5> QED
          BY <3>1, <3>2, <5>2 DEF Once
      <4> QED
        BY <1>8, <4>1, <4>2
    <3>4. PICK A, c : A = InFile(x)' /\ c = old + i
      OBVIOUS
    <3>5. A \subseteq {c}
      BY <3>3, <3>4
    <3>6. Cardinality(A) <= 1
      <4>1. IsFiniteSet({c}) /\ Cardinality({c}) = 1
        BY FS_Singleton
      <4> QED
        BY <3>5, <4>1, FS_Subset
    <3> QED
      BY <3>4, <3>6
  <2> QED
    BY <2>3, <2>4
<1>17. ASSUME NEW r \in kept'
       PROVE  \/ InFile(r)' # {} \/ r \in Glued'
              \/ \E s \in FileRows : StandsFor(s, r)' /\ Firm(s)'
  <2>1. CASE r \in kept
    <3>1. \/ InFile(r) # {} \/ r \in Glued
          \/ \E s \in FileRows : StandsFor(s, r) /\ Firm(s)
      BY <2>1 DEF RowsStay
    <3>2. ASSUME NEW s \in FileRows, StandsFor(s, r), Firm(s) PROVE StandsFor(s, r)' /\ Firm(s)'
      <4>1. StandsFor(s, r)'
        BY <1>1, <3>2 DEF StandsFor
      <4> QED
        BY <1>13, <3>2, <4>1
    <3> QED
      BY <1>11, <1>12, <3>1, <3>2
  <2>2. CASE r \notin kept
    <3>1. cut = "line" /\ n = Len(list) /\ r \in Listed(list)
      BY <1>1, <2>2
    <3> QED
      BY <1>14, <3>1
  <2> QED
    BY <2>1, <2>2
<1> QED
  BY <1>15, <1>16, <1>17 DEF RowsStay

\* What an attempt has to know of its batch.
Trying(list) ==
    /\ config' = config /\ mixed' = mixed
    /\ handed' \in Nat /\ handed <= handed' /\ overtaken \subseteq overtaken'
    /\ Given(list)'
    /\ \A x \in FileRows \ again : x \in Listed(list) => x > handed /\ Once(list, x)

\* A list of rows to replace the file by: it has what is in the file, and the batch.
InPlaceOf(m, list) ==
    /\ m \in Seq(FileRows) /\ \A x \in Listed(m) : x <= handed'
    /\ \A x \in FileRows : InFile(x) # {} \/ x \in Listed(list) => \E y \in Listed(m) : StandsFor(y, x)'
    /\ \A x \in FileRows \ again : Times(m, x) <= 1
    /\ ~mixed => DistinctKeys(m)

\* Merging the batch gives such a list: a row of the batch takes the place of a newer one only
\* if that has passed it.
LEMMA MergedRows ==
    ASSUME FileIInv, Loads, config.replace, NEW list, Trying(list)
    PROVE  InPlaceOf(Merged(Loaded, list), list) /\ \A k \in DOMAIN file : file[k].whole
<1> PICK L : L = Loaded
  OBVIOUS
<1> PICK m : m = Merged(L, list)
  OBVIOUS
<1>0. FileTyped /\ KeyedFile
  BY DEF FileIInv
<1>1. LoadedSound(L)
  BY LoadedFacts
<1>2. /\ L \in Seq(FileRows) /\ \A x \in Listed(L) : x <= handed
      /\ \A k \in DOMAIN file : file[k].whole
      /\ \A x \in FileRows : InFile(x) # {} => \E y \in Listed(L) : StandsFor(y, x)
      /\ \A x \in FileRows \ again : Times(L, x) <= 1
      /\ ~mixed => DistinctKeys(L)
  BY <1>1 DEF LoadedSound
<1>3. /\ list \in Seq(FileRows) /\ \A x \in Listed(list) : x <= handed'
      /\ config.keyed => DistinctKeys(list)
      /\ \A x \in Listed(list), y \in FileRows :
            y > x /\ y <= handed' /\ y \notin Listed(list) /\ FileKey[y] = FileKey[x] => FileKey[x] \in overtaken'
      /\ handed' \in Nat /\ handed <= handed' /\ overtaken \subseteq overtaken' /\ handed \in Nat
      /\ \A x \in FileRows \ again : x \in Listed(list) => x > handed /\ Once(list, x)
  BY <1>0 DEF Trying, Given, FileTyped
<1>4. MergedUpTo(m, L, list, Len(list)) /\ Behind(list, Len(list)) = Listed(list)
  BY <1>2, <1>3, MergedFacts
<1>5. /\ m \in Seq(FileRows) /\ Listed(m) \subseteq Listed(L) \union Listed(list)
      /\ \A x \in Listed(L) \union Listed(list) :
            \/ x \in Listed(m)
            \/ config.keyed /\ \E y \in Listed(m) \intersect Listed(list) : FileKey[y] = FileKey[x]
      /\ \A x : Once(list, x) => Times(m, x) <= Times(L, x) + (IF x \in Listed(list) THEN 1 ELSE 0)
      /\ config.keyed /\ DistinctKeys(L) => DistinctKeys(m)
  BY <1>4 DEF MergedUpTo
<1>6. Listed(L) \subseteq FileRows /\ Listed(list) \subseteq FileRows
  BY <1>2, <1>3 DEF Listed
<1>7. ASSUME config.keyed, NEW x \in Listed(list), NEW y \in Listed(list), FileKey[x] = FileKey[y] PROVE x = y
  BY <1>3, <1>7 DEF DistinctKeys, Listed
<1>8. \A x \in Listed(m) : x <= handed'
  <2> TAKE x \in Listed(m)
  <2>1. x \in Nat
    BY <1>5, <1>6, RowsAreNumbers
  <2>2. x <= handed \/ x <= handed'
    BY <1>2, <1>3, <1>5
  <2> QED
    BY <1>3, <2>1, <2>2
<1>9. Listed(list) \subseteq Listed(m)
  <2> SUFFICES ASSUME NEW x \in Listed(list) PROVE x \in Listed(m)
    OBVIOUS
  <2>1. CASE config.keyed /\ \E y \in Listed(m) \intersect Listed(list) : FileKey[y] = FileKey[x]
    BY <1>7, <2>1
  <2> QED
    BY <1>5, <2>1
<1>10. ASSUME NEW x \in FileRows, InFile(x) # {} PROVE \E y \in Listed(m) : StandsFor(y, x)'
  <2>1. PICK y \in Listed(L) : StandsFor(y, x)
    BY <1>2, <1>10
  <2>2. x \in Nat /\ y \in Nat /\ y \in FileRows
    BY <1>6, RowsAreNumbers
  <2>3. FileKey[y] = FileKey[x] /\ (y >= x \/ FileKey[x] \in overtaken')
    BY <1>3, <2>1 DEF StandsFor
  <2>4. CASE y \in Listed(m)
    BY <2>3, <2>4 DEF StandsFor
  <2>5. ASSUME config.keyed, NEW z \in Listed(m) \intersect Listed(list), FileKey[z] = FileKey[y]
        PROVE  StandsFor(z, x)'
    <3>1. z \in Nat /\ FileKey[z] = FileKey[x]
      BY <1>6, <2>3, <2>5, RowsAreNumbers
    <3>2. ASSUME ~(z >= x) PROVE FileKey[x] \in overtaken'
      <4>1. x > z /\ z # x
        BY <2>2, <3>1, <3>2
      <4>2. x <= handed
        BY <1>0, <1>10 DEF InFile, FileTyped
      <4>3. x <= handed'
        BY <1>3, <2>2, <4>2
      <4>4. x \notin Listed(list)
        BY <1>7, <2>5, <3>1, <4>1
      <4> QED
        BY <1>3, <3>1, <4>1, <4>3, <4>4
    <3> QED
      BY <3>1, <3>2 DEF StandsFor
  <2> QED
    BY <1>5, <2>1, <2>4, <2>5
<1>11. ASSUME NEW x \in Listed(list) PROVE \E y \in Listed(m) : StandsFor(y, x)'
  <2>1. x \in Listed(m) /\ x \in Nat
    BY <1>6, <1>9, RowsAreNumbers
  <2> QED
    BY <2>1 DEF StandsFor
<1>12. ASSUME NEW x \in FileRows \ again PROVE Times(m, x) <= 1
  <2>1. Times(L, x) \in Nat /\ Times(m, x) \in Nat
    BY <1>2, <1>5, TimesFacts
  <2>2. CASE x \notin Listed(list)
    <3>1. Once(list, x)
      BY <2>2 DEF Once, Listed
    <3> QED
      BY <1>2, <1>5, <2>1, <2>2, <3>1
  <2>3. CASE x \in Listed(list)
    <3>1. Once(list, x) /\ x > handed
      BY <1>3, <2>3
    <3>2. x \notin Listed(L)
      BY <1>2, <1>3, <3>1, RowsAreNumbers
    <3>3. Times(L, x) = 0
      <4>1. {k \in DOMAIN L : L[k] = x} = {}
        BY <3>2 DEF Listed
      <4> QED
        BY <4>1, FS_EmptySet DEF Times
    <3> QED
      BY <1>5, <2>1, <2>3, <3>1, <3>3
  <2> QED
    BY <2>2, <2>3
<1>13. ~mixed => DistinctKeys(m)
  BY <1>0, <1>2, <1>5 DEF KeyedFile
<1> QED
  BY <1>2, <1>5, <1>8, <1>10, <1>11, <1>12, <1>13 DEF InPlaceOf

\* What is left to show for an attempt, besides the batches that wait.
FileSound == FileTyped /\ InMemory /\ RowsStay /\ KeyedFile

\* The file is replaced by such a list.
LEMMA StoredKeeps ==
    ASSUME FileIInv, config.replace, NEW list, Trying(list), NEW m, InPlaceOf(m, list),
           \A k \in DOMAIN file : file[k].whole,
           rows' = m, file' = [k \in DOMAIN m |-> Line(m[k])], ragged' = FALSE, again' = again,
           kept' = kept \union Listed(list)
    PROVE  FileSound'
<1>0. FileTyped /\ InMemory /\ RowsStay /\ KeyedFile
  BY DEF FileIInv
<1>1. /\ m \in Seq(FileRows) /\ \A x \in Listed(m) : x <= handed'
      /\ \A x \in FileRows : InFile(x) # {} \/ x \in Listed(list) => \E y \in Listed(m) : StandsFor(y, x)'
      /\ \A x \in FileRows \ again : Times(m, x) <= 1
      /\ ~mixed => DistinctKeys(m)
  BY DEF InPlaceOf
<1>2. /\ config' = config /\ mixed' = mixed
      /\ handed' \in Nat /\ handed <= handed' /\ overtaken \subseteq overtaken' /\ list \in Seq(FileRows)
  BY DEF Trying, Given
<1>3. DOMAIN m = 1..Len(m) /\ Len(m) \in Nat /\ \A k \in DOMAIN m : m[k] \in FileRows /\ m[k] \in Listed(m)
  BY <1>1 DEF Listed
<1>4. /\ file' \in Seq(FileLines) /\ DOMAIN file' = DOMAIN m
      /\ \A k \in DOMAIN m : file'[k].rows = {m[k]} /\ file'[k].whole
  <2>1. \A r \in FileRows : Line(r) \in FileLines /\ Line(r).rows = {r} /\ Line(r).whole
    BY DEF FileLines, Line
  <2>2. file' \in [1..Len(m) -> FileLines]
    BY <1>3, <2>1
  <2> QED
    BY <1>3, <2>1, <2>2
<1>5. \A x : InFile(x)' = {k \in DOMAIN m : m[k] = x}
  BY <1>4 DEF InFile
<1>6. \A x \in Listed(m) : InFile(x)' # {} /\ Firm(x)' /\ x \in FileRows
  <2> TAKE x \in Listed(m)
  <2>1. PICK k \in DOMAIN m : m[k] = x
    BY DEF Listed
  <2>2. k \in InFile(x)'
    BY <1>5, <2>1
  <2>3. ~ragged'
    OBVIOUS
  <2> QED
    BY <1>3, <2>1, <2>2, <2>3 DEF Firm
<1>7. \A x : InFile(x)' # {} => x \in Listed(m)
  BY <1>5 DEF Listed
<1>8. FileTyped'
  <2>1. \A k \in DOMAIN file' : \A x \in file'[k].rows : x <= handed'
    BY <1>1, <1>3, <1>4
  <2>2. \A k \in DOMAIN file' : file'[k].whole => \E x \in FileRows : file'[k].rows = {x}
    BY <1>3, <1>4
  <2>3. kept' \subseteq FileRows
    BY <1>0, <1>2 DEF FileTyped, Listed
  <2> QED
    BY <1>0, <1>2, <1>4, <2>1, <2>2, <2>3 DEF FileTyped
<1>9. ASSUME NEW x \in FileRows, InFile(x)' # {} PROVE \E y \in Listed(m) : StandsFor(y, x)'
  <2>1. x \in Listed(m) /\ x \in Nat
    BY <1>7, <1>9, RowsAreNumbers
  <2> QED
    BY <2>1 DEF StandsFor
<1>10. InMemory'
  BY <1>1, <1>2, <1>4, <1>9 DEF InMemory
<1>11. ASSUME NEW r \in kept' PROVE \E s \in FileRows : StandsFor(s, r)' /\ Firm(s)'
  <2>1. \A x \in FileRows : InFile(x) # {} \/ x \in Listed(list) => \E y \in FileRows : StandsFor(y, x)' /\ Firm(y)'
    BY <1>1, <1>6
  <2>2. CASE r \in Listed(list)
    <3>1. r \in FileRows
      BY <1>2, <2>2 DEF Listed
    <3> QED
      BY <2>1, <2>2, <3>1
  <2>3. CASE r \in kept
    <3>1. r \in FileRows /\ r \notin Glued
      BY <1>0, <2>3 DEF FileTyped, Glued
    <3>2. CASE InFile(r) # {}
      BY <2>1, <3>1, <3>2
    <3>3. ASSUME NEW s \in FileRows, StandsFor(s, r), Firm(s)
          PROVE  \E y \in FileRows : StandsFor(y, r)' /\ Firm(y)'
      <4>1. InFile(s) # {}
        BY <3>3 DEF Firm
      <4>2. PICK y \in FileRows : StandsFor(y, s)' /\ Firm(y)'
        BY <2>1, <4>1
      <4>3. r \in Nat /\ s \in Nat /\ y \in Nat
        BY <3>1, RowsAreNumbers
      <4>4. FileKey[y] = FileKey[s] /\ (y >= s \/ FileKey[s] \in overtaken')
        BY <4>2 DEF StandsFor
      <4>5. FileKey[s] = FileKey[r] /\ (s >= r \/ FileKey[r] \in overtaken')
        BY <1>2, <3>3 DEF StandsFor
      <4>6. y >= r \/ FileKey[r] \in overtaken'
        BY <4>3, <4>4, <4>5
      <4> QED
        BY <4>2, <4>4, <4>5, <4>6 DEF StandsFor
    <3> QED
      BY <1>0, <2>3, <3>1, <3>2, <3>3 DEF RowsStay
  <2> QED
    BY <2>2, <2>3
<1>12. RowsStay'
  <2>1. \A r \in FileRows \ again : Cardinality(InFile(r)') <= 1
    BY <1>1, <1>5 DEF Times
  <2> QED
    BY <1>11, <2>1 DEF RowsStay
<1>13. KeyedFile'
  <2> SUFFICES ASSUME ~mixed
               PROVE  /\ config.replace /\ config.keyed
                      /\ \A k \in DOMAIN file' : file'[k].whole
                      /\ \A j, k \in DOMAIN file' : \A x \in file'[j].rows, y \in file'[k].rows :
                            FileKey[x] = FileKey[y] => j = k
                      /\ DistinctKeys(m)
    BY <1>2 DEF KeyedFile, DistinctKeys
  <2>1. \A j, k \in DOMAIN m : FileKey[m[j]] = FileKey[m[k]] => j = k
    BY <1>1 DEF DistinctKeys
  <2> QED
    BY <1>0, <1>1, <1>4, <2>1 DEF KeyedFile
<1> QED
  BY <1>8, <1>10, <1>12, <1>13 DEF FileSound

\* It cannot be written, and the list stays in memory; or the file could not be read.
LEMMA ThrownKeeps ==
    ASSUME FileIInv, config.replace, NEW list, Trying(list),
           rows' = rows \/ (InPlaceOf(rows', list) /\ \A k \in DOMAIN file : file[k].whole),
           file' = file, ragged' = ragged, again \subseteq again', kept' = kept
    PROVE  FileSound'
<1>0. FileTyped /\ InMemory /\ RowsStay /\ KeyedFile
  BY DEF FileIInv
<1>1. /\ config' = config /\ mixed' = mixed
      /\ handed' \in Nat /\ handed <= handed' /\ overtaken \subseteq overtaken' /\ handed \in Nat
  BY <1>0 DEF Trying, FileTyped
<1>2. /\ \A x : InFile(x)' = InFile(x) /\ (Firm(x) <=> Firm(x)') 
      /\ Glued' = Glued
  BY DEF InFile, Firm, Glued
<1>3. \A x, y : StandsFor(y, x) => StandsFor(y, x)'
  BY <1>1 DEF StandsFor
<1>4. \A x \in FileRows : x <= handed => x <= handed'
  BY <1>1, RowsAreNumbers
<1>5. FileTyped'
  <2>1. \A k \in DOMAIN file : \A x \in file[k].rows : x <= handed'
    <3> TAKE k \in DOMAIN file
    <3> TAKE x \in file[k].rows
    <3>1. x \in FileRows /\ x <= handed
      <4>1. file[k] \in FileLines
        BY <1>0 DEF FileTyped
      <4> QED
        BY <1>0, <4>1 DEF FileTyped, FileLines
    <3> QED
      BY <1>4, <3>1
  <2> QED
    BY <1>0, <1>1, <2>1 DEF FileTyped
<1>6. CASE rows' = rows
  <2>1. InMemory'
    <3> SUFFICES ASSUME rows # Unloaded
                 PROVE  /\ config.replace /\ rows \in Seq(FileRows) /\ \A x \in Listed(rows) : x <= handed'
                        /\ \A k \in DOMAIN file : file[k].whole
                        /\ \A x \in FileRows : InFile(x) # {} => \E y \in Listed(rows) : StandsFor(y, x)'
                        /\ \A x \in FileRows \ again' : Times(rows, x) <= 1
      BY <1>1, <1>2, <1>6 DEF InMemory
    <3>1. \A x \in Listed(rows) : x \in FileRows /\ x <= handed
      BY <1>0 DEF InMemory, Listed
    <3> QED
      BY <1>0, <1>3, <1>4, <3>1 DEF InMemory
  <2>2. KeyedFile'
    BY <1>0, <1>1, <1>6 DEF KeyedFile, DistinctKeys
  <2>3. RowsStay'
    BY <1>0, <1>2, <1>3 DEF RowsStay
  <2> QED
    BY <1>5, <2>1, <2>2, <2>3 DEF FileSound
<1>7. CASE InPlaceOf(rows', list) /\ \A k \in DOMAIN file : file[k].whole
  <2> PICK m : m = rows'
    OBVIOUS
  <2>1. /\ m \in Seq(FileRows) /\ \A x \in Listed(m) : x <= handed'
        /\ \A x \in FileRows : InFile(x) # {} => \E y \in Listed(m) : StandsFor(y, x)'
        /\ \A x \in FileRows \ again : Times(m, x) <= 1
        /\ ~mixed => DistinctKeys(m)
    BY <1>7 DEF InPlaceOf
  <2>2. InMemory'
    BY <1>1, <1>2, <1>7, <2>1 DEF InMemory
  <2>3. KeyedFile'
    BY <1>0, <1>1, <2>1 DEF KeyedFile, DistinctKeys
  <2>4. RowsStay'
    BY <1>0, <1>2, <1>3 DEF RowsStay
  <2> QED
    BY <1>5, <2>2, <2>3, <2>4 DEF FileSound
<1> QED
  BY <1>6, <1>7

\* A sink that appends has no rows in memory, and its file is mixed.
LEMMA AppendSound ==
    ASSUME FileIInv, ~config.replace, config' = config, mixed' = mixed, rows' = rows,
           NEW list, NEW n, NEW cut, Appending(list, n, cut)
    PROVE  FileSound'
<1>1. FileTyped /\ InMemory /\ RowsStay /\ KeyedFile
  BY DEF FileIInv
<1>2. rows = Unloaded /\ mixed
  BY <1>1 DEF InMemory, KeyedFile
<1>3. config'.replace \in BOOLEAN /\ config'.keyed \in BOOLEAN
  BY <1>1 DEF FileTyped
<1>4. FileTyped' /\ RowsStay'
  BY <1>1, <1>3, AppendKeeps
<1>5. InMemory' /\ KeyedFile'
  BY <1>2 DEF InMemory, KeyedFile, Unloaded
<1> QED
  BY <1>4, <1>5 DEF FileSound

\* Between an attempt's beginning and its end nothing but itself happens.
LEMMA AttemptKeeps ==
    ASSUME FileIInv, NEW list, NEW n, NEW others, Trying(list), Attempt(list, n, others),
           \A p \in others : Given(p.list)' /\ Listed(p.list) \subseteq again
    PROVE  FileIInv'
<1>0. FileTyped
  BY DEF FileIInv
<1>1. /\ config' = config /\ mixed' = mixed
      /\ handed' \in Nat /\ handed <= handed' /\ overtaken \subseteq overtaken'
      /\ list \in Seq(FileRows) /\ \A x \in Listed(list) : x <= handed'
      /\ \A x \in FileRows \ again : x \in Listed(list) => x > handed /\ Once(list, x)
  BY DEF Trying, Given
<1>2. Len(list) \in Nat
  BY <1>1
<1>3. ASSUME Stores(list), kept' = kept \union Listed(list), pending' = others, again' = again
      PROVE  FileIInv'
  <2>1. CASE config.replace
    <3>1. /\ Loads /\ rows' = Merged(Loaded, list)
          /\ file' = [k \in DOMAIN rows' |-> Line(rows'[k])] /\ ragged' = FALSE
      BY <1>3, <2>1 DEF Stores
    <3> PICK m : m = Merged(Loaded, list)
      OBVIOUS
    <3>2. InPlaceOf(m, list) /\ \A k \in DOMAIN file : file[k].whole
      BY <2>1, <3>1, MergedRows
    <3>3. rows' = m /\ file' = [k \in DOMAIN m |-> Line(m[k])]
      BY <3>1
    <3>4. FileSound'
      BY <1>3, <2>1, <3>1, <3>2, <3>3, StoredKeeps
    <3>5. Waiting'
      BY <1>3 DEF Waiting
    <3> QED
      BY <3>4, <3>5 DEF FileSound, FileIInv
  <2>2. CASE ~config.replace
    <3>1. file' = Appended(list, Len(list), "line") /\ ragged' = FALSE /\ rows' = rows
      BY <1>3, <2>2 DEF Stores, AppendAll
    <3>2. Len(list) \in 0..Len(list)
      BY <1>2
    <3>3. Appending(list, Len(list), "line")
      BY <1>1, <1>3, <3>1, <3>2 DEF Appending
    <3>4. FileSound'
      BY <1>1, <2>2, <3>1, <3>3, AppendSound
    <3>5. Waiting'
      BY <1>3 DEF Waiting
    <3> QED
      BY <3>4, <3>5 DEF FileSound, FileIInv
  <2> QED
    BY <2>1, <2>2
<1>4. ASSUME Throws(list), again' = again \union Listed(list), kept' = kept,
             \A p \in pending' : p \in others \/ p.list = list
      PROVE  FileIInv'
  <2>1. Waiting'
    <3>1. ASSUME NEW p \in pending' PROVE Given(p.list)' /\ Listed(p.list) \subseteq again'
      <4>1. CASE p \in others
        BY <1>4, <4>1
      <4>2. CASE p.list = list
        <5> PICK l : l = p.list
          OBVIOUS
        <5>1. Given(l)' /\ Listed(l) \subseteq again'
          BY <1>4, <4>2 DEF Trying
        <5> QED
          BY <5>1
      <4> QED
        BY <1>4, <4>1, <4>2
    <3> QED
      BY <3>1 DEF Waiting
  <2>2. CASE config.replace
    <3>1. /\ rows' = (IF Loads THEN Merged(Loaded, list) ELSE rows)
          /\ file' = file /\ ragged' = ragged
      BY <1>4, <2>2 DEF Throws
    <3>2. rows' = rows \/ (InPlaceOf(rows', list) /\ \A k \in DOMAIN file : file[k].whole)
      <4>1. CASE Loads
        <5> PICK m : m = Merged(Loaded, list)
          OBVIOUS
        <5>1. InPlaceOf(m, list) /\ \A k \in DOMAIN file : file[k].whole
          BY <2>2, <4>1, MergedRows
        <5>2. rows' = m
          BY <3>1, <4>1
        <5> QED
          BY <5>1, <5>2
      <4> QED
        BY <3>1, <4>1
    <3>3. FileSound'
      BY <1>4, <2>2, <3>1, <3>2, ThrownKeeps
    <3> QED
      BY <2>1, <3>3 DEF FileSound, FileIInv
  <2>3. CASE ~config.replace
    <3>1. AppendBreaks(list) /\ rows' = rows
      BY <1>4, <2>3 DEF Throws
    <3>2. PICK k \in 0..Len(list) - 1, cut \in {"line", "inside", "end"} :
             file' = Appended(list, k, cut) /\ ragged' = (cut # "line" \/ (k = 0 /\ ragged))
      BY <3>1 DEF AppendBreaks
    <3>3. k \in 0..Len(list) /\ k < Len(list)
      BY <1>2
    <3>4. ragged' \in BOOLEAN /\ (ragged' => cut # "line" \/ (k = 0 /\ ragged))
      BY <1>0, <3>2 DEF FileTyped
    <3>5. \A x \in FileRows \ again' : x \notin Listed(list)
      BY <1>4
    <3>6. again \subseteq again' /\ kept' \subseteq kept \union (IF cut = "line" /\ k = Len(list) THEN Listed(list) ELSE {})
      BY <1>4
    <3>7. Appending(list, k, cut)
      BY <1>1, <1>4, <3>2, <3>3, <3>4, <3>5, <3>6 DEF Appending
    <3>8. FileSound'
      BY <1>1, <2>3, <3>1, <3>7, AppendSound
    <3> QED
      BY <2>1, <3>8 DEF FileSound, FileIInv
  <2> QED
    BY <2>2, <2>3
<1>5. \/ Stores(list) /\ kept' = kept \union Listed(list) /\ pending' = others /\ again' = again
      \/ /\ Throws(list) /\ again' = again \union Listed(list) /\ kept' = kept
         /\ pending' = others \/ pending' = others \union {[list |-> list, attempt |-> n + 1]}
  BY DEF Attempt
<1>6. [list |-> list, attempt |-> n + 1].list = list
  OBVIOUS
<1> QED
  BY <1>3, <1>4, <1>5, <1>6

\* A batch that waited.
LEMMA RetryKeeps == ASSUME FileIInv, NEW p \in pending, RetryFile(p) PROVE FileIInv'
<1> PICK list : list = p.list
  OBVIOUS
<1> PICK others : others = pending \ {p}
  OBVIOUS
<1>1. /\ Attempt(list, p.attempt, others)
      /\ config' = config /\ handed' = handed /\ overtaken' = overtaken /\ mixed' = mixed
  BY DEF RetryFile
<1>2. FileTyped /\ Waiting
  BY DEF FileIInv
<1>3. ASSUME NEW l, Given(l) PROVE Given(l)'
  BY <1>1, <1>3 DEF Given, DistinctKeys
<1>4. Given(list) /\ Listed(list) \subseteq again
  BY <1>2 DEF Waiting
<1>5. Trying(list)
  BY <1>1, <1>2, <1>3, <1>4 DEF Trying, FileTyped
<1>6. \A q \in others : Given(q.list)' /\ Listed(q.list) \subseteq again
  <2> TAKE q \in others
  <2> PICK l : l = q.list
    OBVIOUS
  <2>1. Given(l) /\ Listed(l) \subseteq again
    BY <1>2 DEF Waiting
  <2> QED
    BY <1>3, <2>1
<1> QED
  BY <1>1, <1>5, <1>6, AttemptKeeps

\* There are n numbers from 1 to n.
LEMMA FirstNumbers == \A n \in Nat : IsFiniteSet(1..n) /\ Cardinality(1..n) = n
<1> TAKE n \in Nat
<1>1. Cardinality(1..n) = IF 1 > n THEN 0 ELSE n - 1 + 1
  BY FS_Interval
<1>2. IsFiniteSet(1..n)
  BY FS_Interval
<1> QED
  BY <1>1, <1>2

\* As many keys as rows: no key twice.
LEMMA KeysApart ==
    ASSUME NEW list \in Seq(FileRows), Cardinality(KeysIn2(list)) = Len(list)
    PROVE  DistinctKeys(list)
<1> DEFINE f == [k \in 1..Len(list) |-> FileKey[list[k]]]
<1>1. Len(list) \in Nat /\ DOMAIN list = 1..Len(list)
  OBVIOUS
<1>2. KeysIn2(list) = {f[k] : k \in 1..Len(list)}
  BY <1>1 DEF KeysIn2, Listed
<1> PICK T : T = KeysIn2(list)
  OBVIOUS
<1> PICK S : S = 1..Len(list)
  OBVIOUS
<1>3. f \in [S -> T] /\ \A t \in T : \E s \in S : f[s] = t
  BY <1>2
<1> PICK g : g = f
  OBVIOUS
<1>4. g \in Surjection(S, T)
  BY <1>3 DEF Surjection
<1>5. IsFiniteSet(S) /\ Cardinality(S) = Len(list)
  BY <1>1, FirstNumbers
<1>6. g \in Injection(S, T)
  BY <1>4, <1>5, FS_Surjection
<1>7. \A j, k \in S : g[j] = g[k] => j = k
  BY <1>6 DEF Injection, IsInjective
<1> QED
  BY <1>1, <1>7 DEF DistinctKeys

\* A new batch: its rows are newer than all others, and pass the batches that wait.
LEMMA FlushFileKeeps == ASSUME FileIInv, NEW n \in 1..FileBatch, FlushFile(n) PROVE FileIInv'
<1> PICK list : list = [k \in 1..n |-> handed + k]
  OBVIOUS
<1>1. /\ handed + n \in FileRows
      /\ config.replace /\ config.keyed => Cardinality(KeysIn2(list)) = n
      /\ handed' = handed + n
      /\ overtaken' = overtaken \union (KeysIn2(list) \intersect UNION {KeysIn2(p.list) : p \in pending})
      /\ Attempt(list, 0, pending)
      /\ config' = config /\ mixed' = mixed
  BY DEF FlushFile
<1>2. FileTyped /\ Waiting /\ handed \in Nat /\ n \in Nat /\ 1 <= n
  BY FileSinkAssumption DEF FileIInv, FileTyped
<1>3. \A k \in 1..n : handed + k \in FileRows /\ handed + k > handed /\ handed + k <= handed'
  BY <1>1, <1>2, RowsAreNumbers
<1>4. list \in Seq(FileRows) /\ Len(list) = n /\ DOMAIN list = 1..n /\ \A k \in 1..n : list[k] = handed + k
  <2>1. list \in [1..n -> FileRows]
    BY <1>3
  <2> QED
    BY <1>2, <2>1
<1>5. \A x \in Listed(list) : x > handed /\ x <= handed' /\ x \in Nat /\ Once(list, x)
  <2> TAKE x \in Listed(list)
  <2>1. x > handed /\ x <= handed' /\ x \in Nat
    BY <1>3, <1>4, RowsAreNumbers DEF Listed
  <2>2. Once(list, x)
    BY <1>2, <1>4 DEF Once
  <2> QED
    BY <2>1, <2>2
<1>6. \A y \in FileRows : y > handed /\ y <= handed' => y \in Listed(list)
  <2> TAKE y \in FileRows
  <2> HAVE y > handed /\ y <= handed'
  <2>1. y \in Nat
    BY RowsAreNumbers
  <2>2. y - handed \in 1..n /\ handed + (y - handed) = y
    BY <1>1, <1>2, <2>1
  <2>3. y - handed \in DOMAIN list /\ list[y - handed] = y
    BY <1>4, <2>2
  <2> QED
    BY <2>3 DEF Listed
<1>7. Given(list)'
  <2>1. config.replace /\ config.keyed => DistinctKeys(list)
    BY <1>1, <1>4, KeysApart
  <2>2. ASSUME NEW x \in Listed(list), NEW y \in FileRows, y > x, y <= handed' PROVE y \in Listed(list)
    <3>1. y > handed
      BY <1>2, <1>5, <2>2, RowsAreNumbers
    <3> QED
      BY <1>6, <2>2, <3>1
  <2> QED
    BY <1>1, <1>4, <1>5, <2>1, <2>2 DEF Given, DistinctKeys
<1>8. Trying(list)
  <2>1. handed' \in Nat /\ handed <= handed'
    BY <1>1, <1>2
  <2> QED
    BY <1>1, <1>5, <1>7, <2>1 DEF Trying
<1>9. ASSUME NEW p \in pending PROVE Given(p.list)' /\ Listed(p.list) \subseteq again
  <2> PICK l : l = p.list
    OBVIOUS
  <2>1. Given(l) /\ Listed(l) \subseteq again
    BY <1>2 DEF Waiting
  <2>2. \A x \in Listed(l) : x <= handed' /\ x <= handed /\ x \in Nat
    <3> TAKE x \in Listed(l)
    <3>1. x <= handed /\ x \in FileRows
      BY <2>1 DEF Given, Listed
    <3>2. x \in Nat
      BY <3>1, RowsAreNumbers
    <3> QED
      BY <1>1, <1>2, <3>1, <3>2
  <2>3. ASSUME NEW x \in Listed(l), NEW y \in FileRows,
               y > x, y <= handed', y \notin Listed(l), FileKey[y] = FileKey[x]
        PROVE  FileKey[x] \in overtaken'
    <3>1. CASE y <= handed
      BY <1>1, <2>1, <2>3, <3>1 DEF Given
    <3>2. CASE ~(y <= handed)
      <4>1. y \in Listed(list)
        BY <1>2, <1>6, <2>3, <3>2, RowsAreNumbers
      <4>2. FileKey[x] \in KeysIn2(list) /\ FileKey[x] \in KeysIn2(l)
        BY <2>3, <4>1 DEF KeysIn2
      <4> QED
        BY <1>1, <4>2
    <3> QED
      BY <3>1, <3>2
  <2>4. Given(l)'
    BY <1>1, <2>1, <2>2, <2>3 DEF Given, DistinctKeys
  <2> QED
    BY <2>1, <2>4
<1> QED
  BY <1>1, <1>8, <1>9, AttemptKeeps

\* The next process has nothing in memory but the file, to which the last one may have been
\* appending a row.
LEMMA RestartKeeps == ASSUME FileIInv, RestartFile PROVE FileIInv'
<1>0. FileTyped /\ InMemory /\ Waiting /\ RowsStay /\ KeyedFile
  BY DEF FileIInv
<1>1. /\ config'.replace \in BOOLEAN /\ config'.keyed \in BOOLEAN
      /\ rows' = Unloaded /\ pending' = {} /\ kept' = kept /\ overtaken' = overtaken
      /\ mixed' = (mixed \/ ~(config'.replace /\ config'.keyed))
  <2>1. config' \in [replace: BOOLEAN, keyed: BOOLEAN]
    BY FileSinkAssumption DEF RestartFile
  <2>2. config'.replace \in BOOLEAN /\ config'.keyed \in BOOLEAN
    BY <2>1
  <2> QED
    BY <2>2 DEF RestartFile
<1>2. InMemory' /\ Waiting'
  BY <1>1 DEF InMemory, Waiting, Unloaded
<1>3. CASE file' = file /\ ragged' = ragged /\ handed' = handed /\ again' = again
  <2>1. FileTyped'
    BY <1>0, <1>1, <1>3 DEF FileTyped
  <2>2. RowsStay'
    BY <1>0, <1>1, <1>3 DEF RowsStay, InFile, Glued, Firm, StandsFor
  <2>3. KeyedFile'
    <3> SUFFICES ASSUME ~mixed, config'.replace, config'.keyed PROVE KeyedFile'
      BY <1>1 DEF KeyedFile
    <3>1. /\ \A k \in DOMAIN file : file[k].whole
          /\ \A j, k \in DOMAIN file : \A x \in file[j].rows, y \in file[k].rows : FileKey[x] = FileKey[y] => j = k
      BY <1>0 DEF KeyedFile
    <3> QED
      BY <1>1, <1>3, <3>1 DEF KeyedFile
  <2> QED
    BY <1>2, <2>1, <2>2, <2>3 DEF FileIInv
<1>4. CASE /\ ~config.replace /\ handed + 1 \in FileRows /\ handed' = handed + 1
           /\ again' = again \union {handed + 1} /\ AppendBreaks(<<handed + 1>>)
  <2> PICK row, list : row = handed + 1 /\ list = <<row>>
    OBVIOUS
  <2>1. row \in FileRows /\ handed' = row /\ again' = again \union {row} /\ AppendBreaks(list)
    BY <1>4
  <2>2. list \in Seq(FileRows) /\ Len(list) = 1 /\ Listed(list) = {row}
    BY <2>1 DEF Listed
  <2>3. PICK k \in 0..Len(list) - 1, cut \in {"line", "inside", "end"} :
           file' = Appended(list, k, cut) /\ ragged' = (cut # "line" \/ (k = 0 /\ ragged))
    BY <2>1 DEF AppendBreaks
  <2>4. k \in 0..Len(list) /\ k < Len(list)
    BY <2>2
  <2>5. ragged' \in BOOLEAN /\ (ragged' => cut # "line" \/ (k = 0 /\ ragged))
    BY <1>0, <2>3 DEF FileTyped
  <2>6. handed' \in Nat /\ handed <= handed'
    BY <1>0, <2>1, RowsAreNumbers DEF FileTyped
  <2>7. \A x \in FileRows \ again' : x \notin Listed(list)
    BY <2>1, <2>2
  <2>8. \A x \in Listed(list) : x <= handed'
    BY <2>1, <2>2, <2>6
  <2>9. again \subseteq again' /\ kept' \subseteq kept \union (IF cut = "line" /\ k = Len(list) THEN Listed(list) ELSE {})
    BY <1>1, <2>1
  <2>10. Appending(list, k, cut)
    BY <1>1, <2>2, <2>3, <2>4, <2>5, <2>6, <2>7, <2>8, <2>9 DEF Appending
  <2>11. FileTyped' /\ RowsStay'
    BY <1>0, <1>1, <2>10, AppendKeeps
  <2>12. mixed
    BY <1>0, <1>4 DEF KeyedFile
  <2>13. KeyedFile'
    BY <1>1, <2>12 DEF KeyedFile
  <2> QED
    BY <1>2, <2>11, <2>13 DEF FileIInv
<1>5. \/ file' = file /\ ragged' = ragged /\ handed' = handed /\ again' = again
      \/ /\ ~config.replace /\ handed + 1 \in FileRows /\ handed' = handed + 1
         /\ again' = again \union {handed + 1} /\ AppendBreaks(<<handed + 1>>)
  BY DEF RestartFile
<1> QED
  BY <1>3, <1>4, <1>5

\* An empty file.
LEMMA FileStarts == FileInit => FileIInv
<1> SUFFICES ASSUME FileInit PROVE FileIInv
  OBVIOUS
<1>1. /\ config.replace \in BOOLEAN /\ config.keyed \in BOOLEAN
      /\ file = <<>> /\ ragged = FALSE /\ rows = Unloaded
      /\ pending = {} /\ handed = 0 /\ kept = {} /\ again = {} /\ overtaken = {}
      /\ mixed = ~(config.replace /\ config.keyed)
  <2>1. config \in [replace: BOOLEAN, keyed: BOOLEAN]
    BY FileSinkAssumption DEF FileInit
  <2>2. config.replace \in BOOLEAN /\ config.keyed \in BOOLEAN
    BY <2>1
  <2> QED
    BY <2>2 DEF FileInit
<1>2. DOMAIN file = {} /\ file \in Seq(FileLines)
  BY <1>1
<1>3. \A r : InFile(r) = {} /\ Cardinality(InFile(r)) = 0
  <2>1. \A r : InFile(r) = {}
    BY <1>2 DEF InFile
  <2> QED
    BY <2>1, FS_EmptySet
<1>4. FileTyped
  BY <1>1, <1>2 DEF FileTyped
<1>5. InMemory /\ Waiting /\ KeyedFile
  BY <1>1, <1>2 DEF InMemory, Waiting, KeyedFile
<1>6. RowsStay
  BY <1>1, <1>3 DEF RowsStay
<1> QED
  BY <1>4, <1>5, <1>6 DEF FileIInv

\* What it comes to.
LEMMA FileSafety == FileIInv => FileKeepsRows
<1> SUFFICES ASSUME FileIInv PROVE FileKeepsRows
  OBVIOUS
<1>1. FileTyped /\ RowsStay /\ KeyedFile
  BY DEF FileIInv
<1>2. ASSUME NEW r \in kept
      PROVE  \/ InFile(r) # {} \/ r \in Glued
             \/ \E s \in FileRows : /\ FileKey[s] = FileKey[r] /\ InFile(s) # {}
                                    /\ s > r \/ FileKey[r] \in overtaken
  <2>1. r \in Nat
    BY <1>1, RowsAreNumbers DEF FileTyped
  <2>2. ASSUME NEW s \in FileRows, StandsFor(s, r), Firm(s)
        PROVE  InFile(r) # {} \/ (FileKey[s] = FileKey[r] /\ InFile(s) # {} /\ (s > r \/ FileKey[r] \in overtaken))
    <3>1. s \in Nat /\ InFile(s) # {}
      BY <2>2, RowsAreNumbers DEF Firm
    <3>2. FileKey[s] = FileKey[r] /\ (s >= r \/ FileKey[r] \in overtaken)
      BY <2>2 DEF StandsFor
    <3>3. s >= r => s > r \/ s = r
      BY <2>1, <3>1
    <3> QED
      BY <3>1, <3>2, <3>3
  <2> QED
    BY <1>1, <2>2 DEF RowsStay
<1>3. ASSUME ~mixed, NEW r \in FileRows, NEW s \in FileRows, FileKey[r] = FileKey[s]
      PROVE  Cardinality(InFile(r) \union InFile(s)) <= 1
  <2> PICK A : A = InFile(r) \union InFile(s)
    OBVIOUS
  <2>1. \A j, k \in A : j = k
    <3>1. \A j, k \in DOMAIN file : \A x \in file[j].rows, y \in file[k].rows : FileKey[x] = FileKey[y] => j = k
      BY <1>1, <1>3 DEF KeyedFile
    <3> QED
      BY <1>3, <3>1 DEF InFile
  <2>2. CASE A = {}
    BY <2>2, FS_EmptySet
  <2>3. CASE A # {}
    <3>1. PICK k : A = {k}
      BY <2>1, <2>3
    <3>2. Cardinality(A) = 1
      BY <3>1, FS_Singleton
    <3> QED
      BY <3>2
  <2> QED
    BY <2>2, <2>3
<1>4. ~mixed => Loads
  BY <1>1 DEF KeyedFile, Loads
<1>5. \A r \in FileRows \ again : Cardinality(InFile(r)) <= 1
  BY <1>1 DEF RowsStay
<1> QED
  BY <1>2, <1>3, <1>4, <1>5 DEF FileKeepsRows

\* A step of anything else.
LEMMA FileStays == ASSUME FileIInv, UNCHANGED fileVars PROVE FileIInv'
BY DEF fileVars, FileIInv, FileTyped, InMemory, Waiting, Given, DistinctKeys, RowsStay, KeyedFile,
       InFile, Glued, Firm, StandsFor

\* Whatever rows come under whatever keys, in whatever batches, wherever an append breaks off,
\* a rename fails or the process dies, and whatever configuration the next one has: a row
\* counted as written is in the file, or a newer one of its key, or in a line it was joined to.
THEOREM FilesAlwaysKeep == FileInit /\ [][FileNext]_fileVars => []FileKeepsRows
<1>1. FileIInv /\ [FileNext]_fileVars => FileIInv'
  BY FlushFileKeeps, RetryKeeps, RestartKeeps, FileStays DEF FileNext
<1> QED
  BY <1>1, FileStarts, FileSafety, PTL

-----------------------------------------------------------------------------
(* The rows of all flows and files, as the run checks them.                *)

\* In every state of the whole, each flow and each file has the rows it answers for.
THEOREM RowsAlwaysKept == QueueSpec => []RowsKept
<1>1. QueueInit => FlowInit /\ FileInit
  BY DEF QueueInit
<1>2. [QueueNext]_queueVars => [FlowNext]_flowVars /\ [FileNext]_fileVars
  BY PartsStep
<1>3. QueueSpec => []FlowKeeps /\ []FileKeepsRows
  BY <1>1, <1>2, FlowsAlwaysKeep, FilesAlwaysKeep, PTL DEF QueueSpec
<1>4. FlowKeeps /\ FileKeepsRows => RowsKept
  BY DEF RowsKept
<1> QED
  BY <1>3, <1>4, PTL
=============================================================================
