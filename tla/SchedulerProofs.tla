-------------------------- MODULE SchedulerProofs --------------------------
(***************************************************************************)
(* Theorems about Scheduler, for any jobs, periods, limits and number of   *)
(* calls of runNow and crashes; and about Cron, for any calendar,          *)
(* expressions and fields.                                                 *)
(***************************************************************************)
EXTENDS SchedulerMC, TLAPS, FiniteSetTheorems, WellFoundedInduction

\* The numbers of a job's runs.
Numbers(j) == {r.no : r \in {s \in runs : s.job = j}}

\* Beside the run _running has the entry of, a job has only those that runNow hid: that
\* leaves a number for one more.
NumbersLast ==
    \A j \in Jobs : Cardinality(Numbers(j)) <= manual + (IF j \in DOMAIN running THEN 1 ELSE 0)

\* A process that is down runs nothing.
DownIsEmpty == ~up => ~started /\ runs = {} /\ DOMAIN running = {}

\* Without runNow, the entries of _running are the runs, and there is a place for each.
RunningIsTrue ==
    manual = 0 =>
        /\ \A r \in runs : r.job \in DOMAIN running /\ running[r.job] = r.no
        /\ \A j \in DOMAIN running : \E r \in runs : r.job = j
        /\ Cardinality(DOMAIN running) <= Concurrency

IsInterval(j) == setup.kind[j] = "interval"

\* A run of an interval job is as old as the last launch of it, within the first period.
AgesTell ==
    \A r \in runs : IsInterval(r.job) /\ since[r.job] < Every => r.age = since[r.job]

\* An interval job that does not run is not due before its period is over.
NextWaits ==
    \A j \in Jobs \ DOMAIN running :
        IsInterval(j) /\ Has(store, j) /\ store.record[j].next # None /\ since[j] < Every
            => store.record[j].next >= Every - since[j]

Spacing == manual = 0 => AgesTell /\ NextWaits

IInv ==
    /\ TypeOK /\ StoreSound /\ NeverOversleeps /\ StopSeesEveryRun
    /\ NumbersLast /\ DownIsEmpty /\ RunningIsTrue /\ Spacing

-----------------------------------------------------------------------------
(* Least and greatest of numbers, and what the helpers built on them return. *)

\* A set of integers that is bounded below has a least element.
LEMMA LeastOf ==
    ASSUME NEW S \in SUBSET Int, S # {}, NEW b \in Int, \A x \in S : x >= b
    PROVE  Min(S) \in S /\ \A x \in S : Min(S) <= x
<1> DEFINE T == {x - b : x \in S}
           R == {pair \in Nat \X Nat : pair[1] < pair[2]}
<1>1. T \subseteq Nat /\ T # {}
  <2>1. \A x \in S : x - b \in Nat
    OBVIOUS
  <2> QED
    BY <2>1
<1>2. IsWellFoundedOn(R, Nat)
  BY NatLessThanWellFounded, Zenon DEF OpToRel
<1>3. PICK t \in T : \A u \in T : ~ (<<u, t>> \in R)
  <2> HIDE DEF T, R
  <2> QED
    BY <1>1, <1>2, WFMin
<1>4. \A u \in T : t <= u
  <2>1. \A u \in T : u \in Nat /\ t \in Nat /\ ~(u < t)
    BY <1>1, <1>3
  <2> HIDE DEF T
  <2> QED
    BY <2>1
<1>5. PICK m \in S : t = m - b
  BY <1>3
<1>6. \A x \in S : m <= x
  <2> TAKE x \in S
  <2>1. t <= x - b
    BY <1>4
  <2> QED
    BY <1>5, <2>1
<1> QED
  BY <1>6 DEF Min

\* The greater of two numbers.
LEMMA GreaterOf ==
    ASSUME NEW x \in Int, NEW y \in Int
    PROVE  Max({x, y}) = IF x >= y THEN x ELSE y
<1> DEFINE m == IF x >= y THEN x ELSE y
<1>1. m \in {x, y} /\ \A z \in {x, y} : m >= z
  OBVIOUS
<1>2. \A n \in {x, y} : (\A z \in {x, y} : n >= z) => n = m
  OBVIOUS
<1> QED
  BY <1>1, <1>2 DEF Max

\* An interval's next time is base plus a number of periods, the first in the future; it
\* is one period away at most, and exactly base plus a period when that is still to come.
LEMMA NextTimes ==
    ASSUME TypeOK, NEW j \in Jobs, NEW base \in Int, base <= 0
    PROVE  /\ NextRunTime(j, base) \in Times
           /\ NextRunTime(j, base) # None
           /\ IsInterval(j) => /\ NextRunTime(j, base) \in 1..Every
                               /\ base + Every > 0 => NextRunTime(j, base) = base + Every
<1>1. Every \in Nat \ {0} /\ Times \subseteq Int /\ None \notin Int /\ 1..Every \subseteq Times
  BY SchedulerAssumption DEF Times
<1>2. CASE ~IsInterval(j)
  <2>1. NextRunTime(j, base) = slot[j] /\ slot[j] \in Times
    BY <1>2 DEF NextRunTime, IsInterval, TypeOK
  <2> QED
    BY <1>1, <1>2, <2>1
<1>3. CASE IsInterval(j)
  <2> DEFINE next == base + Every
             periods == (-next) \div Every
  <2>1. NextRunTime(j, base) = IF next > 0 THEN next ELSE next + (periods + 1) * Every
    BY <1>3 DEF NextRunTime, IsInterval
  <2>2. next \in Int /\ next <= Every
    BY <1>1
  <2>3. CASE next > 0
    BY <1>1, <2>1, <2>2, <2>3
  <2>4. CASE ~(next > 0)
    <3>1. -next \in Nat
      BY <2>2, <2>4
    <3>2. periods \in Int /\ periods * Every <= -next /\ -next < (periods + 1) * Every
      BY <1>1, <3>1
    <3>3. (periods + 1) * Every = periods * Every + Every /\ periods * Every \in Int
      BY <1>1, <3>2
    <3> HIDE DEF next, periods
    <3>4. next + (periods + 1) * Every \in 1..Every
      BY <1>1, <2>2, <3>2, <3>3
    <3>5. next = base + Every
      BY DEF next
    <3> QED
      BY <1>1, <2>1, <2>4, <3>4, <3>5
  <2> QED
    BY <2>3, <2>4
<1> QED
  BY <1>2, <1>3

\* _arm: a number of ticks up to the poll interval, and no later than the time of any job
\* that can come due.
LEMMA Arming ==
    ASSUME NEW aStore \in Stores, NEW known
    PROVE  /\ Arm(aStore, known) \in 0..PollInterval
           /\ \A j \in Runnable(aStore, known) :
                 Arm(aStore, known) <= Max({0, aStore.record[j].next})
<1> DEFINE waits == {aStore.record[j].next : j \in Runnable(aStore, known)} \union {PollInterval}
           low == Min(waits)
<1>1. PollInterval \in Nat /\ MaxLate \in Nat
  BY SchedulerAssumption
<1>2. \A j \in Runnable(aStore, known) :
         aStore.record[j].next \in Int /\ aStore.record[j].next >= -MaxLate
  BY SchedulerAssumption DEF Runnable, Listed, Has, Stores, Records, Times
<1>3. waits \in SUBSET Int /\ waits # {} /\ \A x \in waits : x >= -MaxLate
  BY <1>1, <1>2
<1>4. low \in waits /\ \A x \in waits : low <= x
  <2>1. -MaxLate \in Int
    BY <1>1
  <2> HIDE DEF waits
  <2> QED
    BY <1>3, <2>1, LeastOf
<1>5. Arm(aStore, known) = IF low > 0 THEN low ELSE 0
  BY DEF Arm
<1>6. low \in Int /\ low <= PollInterval
  BY <1>3, <1>4
<1>7. \A j \in Runnable(aStore, known) : low <= aStore.record[j].next
  BY <1>4
<1> HIDE DEF low, waits
<1> QED
  BY <1>1, <1>2, <1>5, <1>6, <1>7, GreaterOf

-----------------------------------------------------------------------------
(* What the methods of the JobStore do to the records and to what is listed. *)

\* A list of the store: only jobs with a record.
LEMMA ListedJobs ==
    ASSUME NEW aStore \in Stores
    PROVE  /\ Listed(aStore) \subseteq Jobs
           /\ \A j \in Jobs : Has(aStore, j) => aStore.record[j] \in Records
           /\ \A j \in Listed(aStore) : Has(aStore, j)
           /\ \A j \in Jobs : ~Has(aStore, j) => aStore.record[j] = NoRecord
BY DEF Stores, Listed, Has

\* save: one record is replaced, and its job is listed from now on; the others stay as
\* they were, whatever stale ids the index held.
LEMMA Saving ==
    ASSUME NEW aStore \in Stores, NEW j \in Jobs, NEW record \in Records
    PROVE  LET saved == Save(aStore, j, record) IN
           /\ saved \in Stores
           /\ Listed(saved) = Listed(aStore) \union {j}
           /\ Has(saved, j) /\ saved.record[j] = record
           /\ \A k \in Jobs \ {j} : saved.record[k] = aStore.record[k]
<1> DEFINE written == WriteRecord(aStore, j, record)
           saved == Save(aStore, j, record)
<1>1. record # NoRecord
  BY SchedulerAssumption
<1>2. /\ written \in Stores /\ written.index = aStore.index
      /\ written.record[j] = record
      /\ \A k \in Jobs \ {j} : written.record[k] = aStore.record[k]
  BY DEF WriteRecord, Stores
<1>3. Listed(written) = Listed(aStore) \union ({j} \intersect aStore.index)
  BY <1>1, <1>2 DEF Listed, Has, Stores
<1>4. /\ saved.record = written.record
      /\ saved.index = IF j \in Listed(written) THEN written.index
                       ELSE Listed(written) \union {j}
      /\ saved \in [record: [Jobs -> Records \union {NoRecord}], index: SUBSET Jobs]
  <2>1. Listed(written) \union {j} \subseteq Jobs
    BY <1>2, ListedJobs
  <2> HIDE DEF written
  <2>2. saved = [written EXCEPT !.index =
                   IF j \in Listed(written) THEN @ ELSE Listed(written) \union {j}]
    BY DEF Save, written
  <2> QED
    BY <1>2, <2>1, <2>2 DEF Stores
<1>5. Listed(saved) = Listed(written) \union {j}
  <2> HIDE DEF saved, written
  <2>1. Has(written, j)
    BY <1>1, <1>2 DEF Has
  <2>2. \A k : Has(saved, k) <=> Has(written, k)
    BY <1>4 DEF Has
  <2> QED
    BY <1>4, <2>1, <2>2 DEF Listed
<1> HIDE DEF saved, written
<1>6. Has(saved, j)
  BY <1>1, <1>2, <1>4 DEF Has
<1> QED
  BY <1>2, <1>3, <1>4, <1>5, <1>6 DEF saved, Stores

\* save for several listed jobs: their records are replaced, the list stays.
LEMMA SavingListed ==
    ASSUME NEW aStore \in Stores, NEW jobs \in SUBSET Listed(aStore),
           NEW record, \A j \in jobs : record[j] \in Records
    PROVE  LET saved == SaveListed(aStore, jobs, record) IN
           /\ saved \in Stores
           /\ Listed(saved) = Listed(aStore)
           /\ \A j \in jobs : saved.record[j] = record[j]
           /\ \A j \in Jobs \ jobs : saved.record[j] = aStore.record[j]
           /\ \A j \in Jobs : Has(saved, j) <=> Has(aStore, j)
<1> DEFINE saved == SaveListed(aStore, jobs, record)
<1>1. jobs \subseteq Jobs /\ NoRecord \notin Records
  BY ListedJobs, SchedulerAssumption
<1>2. /\ saved.index = aStore.index
      /\ saved.record = [j \in Jobs |-> IF j \in jobs THEN record[j] ELSE aStore.record[j]]
      /\ saved \in Stores
  BY DEF SaveListed, Stores
<1> HIDE DEF saved
<1>3. \A j \in Jobs : Has(saved, j) <=> Has(aStore, j)
  <2> TAKE j \in Jobs
  <2>1. CASE j \in jobs
    <3>1. Has(aStore, j)
      BY <2>1, ListedJobs
    <3>2. saved.record[j] \in Records
      BY <1>2, <2>1
    <3> QED
      BY <1>1, <3>1, <3>2 DEF Has
  <2>2. CASE j \notin jobs
    BY <1>2, <2>2 DEF Has
  <2> QED
    BY <2>1, <2>2
<1>4. Listed(saved) = Listed(aStore)
  BY <1>2, <1>3 DEF Listed, Stores
<1> QED
  BY <1>1, <1>2, <1>3, <1>4 DEF saved

\* delete, also when the process dies before the index is written: one job is gone.
LEMMA Erasing ==
    ASSUME NEW aStore \in Stores, NEW j \in Jobs,
           NEW erased \in {EraseRecord(aStore, j), Delete(aStore, j)}
    PROVE  /\ erased \in Stores
           /\ Listed(erased) = Listed(aStore) \ {j}
           /\ ~Has(erased, j)
           /\ \A k \in Jobs \ {j} : erased.record[k] = aStore.record[k]
<1> DEFINE only == EraseRecord(aStore, j)
<1>1. /\ only \in Stores /\ only.index = aStore.index
      /\ only.record[j] = NoRecord
      /\ \A k \in Jobs \ {j} : only.record[k] = aStore.record[k]
  BY DEF EraseRecord, WriteRecord, Stores
<1>2. Listed(only) = Listed(aStore) \ {j}
  BY <1>1 DEF Listed, Has, Stores
<1> HIDE DEF only
<1>3. /\ Delete(aStore, j).record = only.record
      /\ Delete(aStore, j).index = Listed(only)
      /\ Delete(aStore, j) \in Stores
  <2>1. Delete(aStore, j) = [only EXCEPT !.index = Listed(only)]
    BY DEF Delete, only
  <2>2. Listed(only) \subseteq Jobs
    BY <1>1, ListedJobs
  <2> QED
    BY <1>1, <2>1, <2>2 DEF Stores
<1>4. Listed(Delete(aStore, j)) = Listed(only)
  BY <1>3 DEF Listed, Has
<1> QED
  BY <1>1, <1>2, <1>3, <1>4 DEF only, Has

\* The first half of a save: the record is there, listed or not.
LEMMA Writing ==
    ASSUME NEW aStore \in Stores, NEW j \in Jobs, NEW record \in Records
    PROVE  LET written == WriteRecord(aStore, j, record) IN
           /\ written \in Stores
           /\ written.record[j] = record
           /\ \A k \in Jobs \ {j} : written.record[k] = aStore.record[k]
BY DEF WriteRecord, Stores

-----------------------------------------------------------------------------
(* What the scheduler writes into the store, and whom it launches. *)

\* A record with a next time of an enabled or disabled job.
LEMMA RecordsMade ==
    ASSUME TypeOK, NEW j \in Jobs, NEW on \in BOOLEAN, NEW next \in Times \union {None}
    PROVE  LET record == [enabled |-> on, next |-> next] IN
           record \in Records /\ record.enabled = on /\ record.next = next
BY DEF Records

\* A new record is enabled and due one period from now.
LEMMA FreshRecords ==
    ASSUME TypeOK, NEW j \in Jobs
    PROVE  /\ FreshRecord(j) \in Records
           /\ FreshRecord(j).next # None
           /\ IsInterval(j) => FreshRecord(j).next = Every
<1>1. Every \in Nat \ {0}
  BY SchedulerAssumption
<1>2. NextRunTime(j, 0) \in Times /\ NextRunTime(j, 0) # None
  BY NextTimes
<1>3. IsInterval(j) => NextRunTime(j, 0) = Every
  BY <1>1, NextTimes
<1> QED
  BY <1>2, <1>3 DEF FreshRecord, Records

\* A skipped slot: the job stays as enabled as it was, and is due at its next slot.
LEMMA SlotsSkipped ==
    ASSUME TypeOK, NEW j \in Jobs, Has(store, j), NEW base \in Int, base <= 0
    PROVE  LET record == SlotSkipped(j, base) IN
           /\ record \in Records
           /\ record.next = NextRunTime(j, base)
           /\ record.enabled = store.record[j].enabled
<1>1. store.record[j] \in Records
  BY ListedJobs DEF TypeOK
<1>2. NextRunTime(j, base) \in Times
  BY NextTimes
<1> QED
  BY <1>1, <1>2 DEF SlotSkipped, Records

\* add: the job is listed; it keeps the record it had.
LEMMA Adding ==
    ASSUME TypeOK, NEW aStore \in Stores, NEW j \in Jobs
    PROVE  LET added == Added(aStore, j) IN
           /\ added \in Stores
           /\ Listed(added) = Listed(aStore) \union {j}
           /\ Has(added, j)
           /\ added.record[j] = IF Has(aStore, j) THEN aStore.record[j] ELSE FreshRecord(j)
           /\ \A k \in Jobs \ {j} : added.record[k] = aStore.record[k]
<1> DEFINE record == IF Has(aStore, j) THEN aStore.record[j] ELSE FreshRecord(j)
<1>1. record \in Records
  BY FreshRecords, ListedJobs
<1>2. Added(aStore, j) = Save(aStore, j, record)
  BY DEF Added
<1> HIDE DEF record
<1>3. LET saved == Save(aStore, j, record) IN
           /\ saved \in Stores
           /\ Listed(saved) = Listed(aStore) \union {j}
           /\ Has(saved, j) /\ saved.record[j] = record
           /\ \A k \in Jobs \ {j} : saved.record[k] = aStore.record[k]
  BY <1>1, Saving
<1> QED
  BY <1>2, <1>3 DEF record

\* The constructor's adds: every job is listed, whatever a crash left in the store; those
\* with a record keep it.
LEMMA AddingAll ==
    ASSUME TypeOK, NEW aStore \in Stores
    PROVE  LET all == AddedAll(aStore) IN
           /\ all \in Stores
           /\ Listed(all) = Jobs
           /\ \A j \in Jobs : all.record[j] = IF Has(aStore, j) THEN aStore.record[j]
                                              ELSE FreshRecord(j)
<1> DEFINE all == AddedAll(aStore)
           record(j) == IF Has(aStore, j) THEN aStore.record[j] ELSE FreshRecord(j)
<1>1. \A j \in Jobs : /\ record(j) \in Records
                      /\ Added(aStore, j).record[j] = record(j)
                      /\ j \in Added(aStore, j).index
                      /\ Added(aStore, j).index \subseteq Jobs
  <2> TAKE j \in Jobs
  <2>1. record(j) \in Records
    BY FreshRecords, ListedJobs
  <2>2. /\ Added(aStore, j) \in Stores
        /\ Added(aStore, j).record[j] = record(j)
        /\ j \in Listed(Added(aStore, j))
    BY Adding
  <2> QED
    BY <2>1, <2>2 DEF Listed, Stores
<1> HIDE DEF record
<1>2. /\ all.index = Jobs
      /\ all.record = [j \in Jobs |-> record(j)]
      /\ all \in Stores
  <2>1. all = [record |-> [j \in Jobs |-> Added(aStore, j).record[j]],
               index |-> UNION {Added(aStore, j).index : j \in Jobs}]
    BY DEF AddedAll
  <2>2. UNION {Added(aStore, j).index : j \in Jobs} = Jobs
    BY <1>1
  <2>3. [j \in Jobs |-> Added(aStore, j).record[j]] = [j \in Jobs |-> record(j)]
    BY <1>1
  <2> HIDE DEF all
  <2> QED
    BY <1>1, <2>1, <2>2, <2>3 DEF Stores
<1> HIDE DEF all
<1>3. \A j \in Jobs : Has(all, j)
  BY <1>1, <1>2, SchedulerAssumption DEF Has
<1>4. Listed(all) = Jobs
  BY <1>2, <1>3 DEF Listed
<1> QED
  BY <1>2, <1>4 DEF all, record

\* Time passes for a record: its next time comes closer by a tick at most.
LEMMA RecordsAge ==
    ASSUME TypeOK, NEW j \in Jobs
    PROVE  /\ ~Has(store, j) => Aged(j) = NoRecord
           /\ Has(store, j) =>
                 /\ Aged(j) \in Records
                 /\ Aged(j).enabled = store.record[j].enabled
                 /\ Aged(j).next = None <=> store.record[j].next = None
                 /\ store.record[j].next # None =>
                       Aged(j).next \in {store.record[j].next, store.record[j].next - 1}
<1>1. CASE ~Has(store, j)
  BY <1>1 DEF Aged, Has
<1>2. CASE Has(store, j) /\ store.record[j].next = None
  BY <1>2, ListedJobs DEF Aged, TypeOK
<1>3. CASE Has(store, j) /\ store.record[j].next # None
  <2> DEFINE old == store.record[j]
             behind == {k \in Jobs : Has(store, k) /\ store.record[k].next # None
                                        /\ store.record[k].next < old.next}
             next == Sooner(old.next, Floor(j))
  <2>1. old \in Records /\ old.next \in Times /\ MaxLate \in Nat /\ Every \in Nat
    BY <1>3, ListedJobs, SchedulerAssumption DEF TypeOK, Records
  <2>2. Cardinality(behind) \in Nat
    BY FS_Subset, FS_CardinalityType, SchedulerAssumption
  <2>3. Floor(j) \in Int /\ Floor(j) >= -MaxLate
    <3> HIDE DEF behind
    <3>1. Floor(j) = -MaxLate + Cardinality(behind)
      BY DEF Floor, behind
    <3> QED
      BY <2>1, <2>2, <3>1
  <2>4. next \in Times /\ next \in {old.next, old.next - 1}
    <3> HIDE DEF behind, old
    <3> QED
      BY <2>1, <2>3 DEF Sooner, Times
  <2>5. Aged(j) = [old EXCEPT !.next = next]
    BY <1>3 DEF Aged
  <2>6. None \notin Times
    BY SchedulerAssumption DEF Times
  <2> HIDE DEF next
  <2> QED
    BY <1>3, <2>1, <2>4, <2>5, <2>6 DEF Records
<1> QED
  BY <1>1, <1>2, <1>3

\* There is a number that no run of the job has, as long as one more run is allowed for.
LEMMA NumberLeft ==
    ASSUME TypeOK, NEW j \in Jobs, Cardinality(Numbers(j)) <= MaxUpsets
    PROVE  UnusedNo(j) \in RunNos /\ UnusedNo(j) \notin Numbers(j)
<1>1. MaxUpsets \in Nat
  BY SchedulerAssumption
<1>2. Numbers(j) \subseteq RunNos
  BY DEF Numbers, TypeOK
<1>3. Cardinality(RunNos) = MaxUpsets + 1
  BY <1>1, FS_Interval DEF RunNos
<1>4. PICK no \in RunNos : no \notin Numbers(j)
  <2>1. Cardinality(Numbers(j)) # Cardinality(RunNos)
    <3>1. IsFiniteSet(RunNos)
      BY <1>1, FS_Interval DEF RunNos
    <3>2. Cardinality(Numbers(j)) \in Nat
      BY <1>2, <3>1, FS_Subset, FS_CardinalityType
    <3> QED
      BY <1>1, <1>3, <3>2
  <2> QED
    BY <1>2, <2>1
<1>5. \A n \in RunNos : n \notin Numbers(j) <=> \A r \in runs : r.job = j => r.no # n
  BY DEF Numbers
<1> QED
  BY <1>4, <1>5 DEF UnusedNo

\* tick takes no more due jobs than there is room for: those before a job in the order are
\* as many as its place in it, and no two jobs have the same place.
LEMMA RoomSuffices ==
    ASSUME TypeOK
    PROVE  /\ IsFiniteSet(Served) /\ Cardinality(Served) <= Room
           /\ Room \in Nat
<1> DEFINE before(j) == {k \in Idle : Ahead(k, j)}
           place == [j \in Served |-> Cardinality(before(j))]
<1>1. /\ IsFiniteSet(Jobs) /\ Jobs \subseteq Nat /\ Concurrency \in Nat
      /\ Idle \subseteq Jobs /\ Served \subseteq Idle
  BY SchedulerAssumption, JobsAssumption, ListedJobs DEF Idle, Due, Runnable, Served, TypeOK
<1>2. \A j \in Idle : store.record[j].next \in Int
  <2>1. \A j \in Idle : Has(store, j) /\ store.record[j].next # None
    BY ListedJobs DEF Idle, Due, Runnable, TypeOK
  <2> QED
    BY <1>1, <2>1, ListedJobs, SchedulerAssumption DEF Records, Times, TypeOK
<1> DEFINE time(j) == store.record[j].next
<1>0. /\ \A j \in Idle : j \in Nat /\ time(j) \in Int
      /\ \A j, k : Ahead(j, k) <=> time(j) < time(k) \/ (time(j) = time(k) /\ j < k)
  BY <1>1, <1>2 DEF Ahead
<1> HIDE DEF time
<1>3. \A j, k \in Idle : j # k => Ahead(j, k) \/ Ahead(k, j)
  <2> TAKE j, k \in Idle
  <2> QED
    BY <1>0
<1>4. \A j, k, l \in Idle : Ahead(j, k) /\ Ahead(k, l) => Ahead(j, l)
  <2> TAKE j, k, l \in Idle
  <2>1. j \in Nat /\ k \in Nat /\ l \in Nat /\ time(j) \in Int /\ time(k) \in Int /\ time(l) \in Int
    BY <1>0
  <2> QED
    BY <1>0, <2>1
<1>5. \A j \in Idle : ~Ahead(j, j)
  <2> TAKE j \in Idle
  <2>1. j \in Nat /\ time(j) \in Int
    BY <1>0
  <2> QED
    BY <1>0, <2>1
<1>6. IsFiniteSet(Idle) /\ IsFiniteSet(Served)
  BY <1>1, FS_Subset
<1>7. \A j \in Idle : IsFiniteSet(before(j)) /\ Cardinality(before(j)) \in Nat
  BY <1>6, FS_Subset, FS_CardinalityType
<1>8. \A j, k \in Idle : Ahead(j, k) => Cardinality(before(j)) # Cardinality(before(k))
  <2> TAKE j, k \in Idle
  <2> HAVE Ahead(j, k)
  <2>1. before(j) \subseteq before(k) /\ j \in before(k) /\ j \notin before(j)
    BY <1>4, <1>5
  <2>2. before(j) # before(k)
    BY <2>1
  <2> HIDE DEF before
  <2> QED
    BY <1>7, <2>1, <2>2, FS_Subset
<1>9. Room \in Nat /\ \A n \in Nat : n < Room => n \in 0..(Room - 1)
  <2>1. Cardinality(DOMAIN running) \in Nat
    BY <1>1, FS_Subset, FS_CardinalityType DEF TypeOK
  <2>2. Room = IF 0 >= Concurrency - Cardinality(DOMAIN running) THEN 0
               ELSE Concurrency - Cardinality(DOMAIN running)
    BY <1>1, <2>1, GreaterOf DEF Room
  <2> QED
    BY <1>1, <2>1, <2>2
<1>10. \A j \in Served : Cardinality(before(j)) < Room
  BY DEF Served
<1> HIDE DEF before
<1>11. place \in [Served -> 0..(Room - 1)]
  BY <1>1, <1>7, <1>9, <1>10
<1>12. \A j, k \in Served : place[j] = place[k] => j = k
  BY <1>1, <1>3, <1>8
<1>13. place \in Injection(Served, 0..(Room - 1))
  <2> HIDE DEF place
  <2> QED
    BY <1>11, <1>12 DEF Injection, IsInjective
<1>14. IsFiniteSet(0..(Room - 1)) /\ Cardinality(0..(Room - 1)) = Room
  <2>1. Room - 1 \in Int /\ 0 \in Int
    BY <1>9
  <2>2. Cardinality(0..(Room - 1)) = IF 0 > Room - 1 THEN 0 ELSE (Room - 1) - 0 + 1
    BY <2>1, FS_Interval
  <2> QED
    BY <1>9, <2>1, <2>2, FS_Interval
<1>15. Cardinality(Served) <= Cardinality(0..(Room - 1))
  <2> HIDE DEF place
  <2> QED
    BY <1>13, <1>14, FS_Injection
<1> QED
  BY <1>6, <1>9, <1>14, <1>15

-----------------------------------------------------------------------------
(* The invariant, step by step. *)

\* A new scheduler, with all jobs added and none started.
LEMMA Initially == Init => IInv
<1> SUFFICES ASSUME Init PROVE IInv
  OBVIOUS
<1>1. /\ MaxUpsets \in Nat /\ Every \in Nat \ {0} /\ MaxLate \in Nat /\ Concurrency \in Nat
      /\ IsFiniteSet(Jobs) /\ None \notin Int /\ Every \in Times
  BY SchedulerAssumption DEF Times
<1>2. EmptyStore \in Stores
  BY DEF EmptyStore, Stores
<1>3. ASSUME NEW j \in Jobs
      PROVE  ~Has(EmptyStore, j) /\ FreshRecord(j) \in Records /\ FreshRecord(j).next = Every
  <2>1. ~Has(EmptyStore, j)
    BY DEF Has, EmptyStore
  <2>2. NextRunTime(j, 0) = Every
    BY <1>1 DEF NextRunTime, Init
  <2> QED
    BY <1>1, <2>1, <2>2 DEF FreshRecord, Records
<1>4. /\ store.record = [j \in Jobs |-> FreshRecord(j)]
      /\ store \in Stores
      /\ Listed(store) = Jobs
  <2>1. \A j \in Jobs : LET saved == Save(EmptyStore, j, FreshRecord(j)) IN
           /\ saved \in Stores /\ Listed(saved) = Listed(EmptyStore) \union {j}
           /\ saved.record[j] = FreshRecord(j)
    BY <1>2, <1>3, Saving, ZenonT(40)
  <2>2. \A j \in Jobs : Added(EmptyStore, j) = Save(EmptyStore, j, FreshRecord(j))
    BY <1>3 DEF Added
  <2>3. \A j \in Jobs : /\ Added(EmptyStore, j).record[j] = FreshRecord(j)
                        /\ j \in Added(EmptyStore, j).index
                        /\ Added(EmptyStore, j).index \subseteq Jobs
    BY <2>1, <2>2 DEF Listed, Stores
  <2>4. /\ store.record = [j \in Jobs |-> FreshRecord(j)]
        /\ store.index = Jobs
        /\ store = [record |-> store.record, index |-> store.index]
    <3>1. UNION {Added(EmptyStore, j).index : j \in Jobs} = Jobs
      BY <2>3
    <3>2. [j \in Jobs |-> Added(EmptyStore, j).record[j]] = [j \in Jobs |-> FreshRecord(j)]
      BY <2>3
    <3>3. store = [record |-> [j \in Jobs |-> Added(EmptyStore, j).record[j]],
                   index |-> UNION {Added(EmptyStore, j).index : j \in Jobs}]
      BY DEF Init, AddedAll
    <3> QED
      BY <3>1, <3>2, <3>3
  <2>5. store.record \in [Jobs -> Records \union {NoRecord}]
    BY <1>3, <2>4
  <2>6. store \in Stores
    BY <2>4, <2>5 DEF Stores
  <2>7. \A j \in Jobs : Has(store, j)
    BY <1>3, <2>4, SchedulerAssumption DEF Has
  <2> QED
    BY <2>4, <2>6, <2>7 DEF Listed
<1>5. DOMAIN running = {} /\ running \in [DOMAIN running -> RunNos]
  BY DEF Init
<1>6. TypeOK
  <2>1. /\ setup \in Setups /\ handlers \subseteq Jobs /\ up \in BOOLEAN /\ started \in BOOLEAN
        /\ timer = None /\ stopping = None /\ runs = {} /\ manual = 0 /\ crashes = 0
    BY DEF Init
  <2>2. slot \in [Jobs -> Times] /\ since \in [Jobs -> 0..Every]
    BY <1>1 DEF Init
  <2> QED
    BY <1>1, <1>4, <1>5, <2>1, <2>2 DEF TypeOK
<1>7. StoreSound
  BY <1>1, <1>3, <1>4 DEF Init, StoreSound
<1>8. NeverOversleeps /\ StopSeesEveryRun /\ DownIsEmpty
  BY DEF Init, NeverOversleeps, StopSeesEveryRun, DownIsEmpty
<1>9. NumbersLast
  <2>1. \A j \in Jobs : Numbers(j) = {}
    BY DEF Init, Numbers
  <2>2. manual = 0 /\ Cardinality({}) = 0
    BY FS_EmptySet DEF Init
  <2>3. \A j \in Jobs : Cardinality(Numbers(j)) = 0
    BY <2>1, <2>2
  <2>4. \A j \in Jobs : (IF j \in DOMAIN running THEN 1 ELSE 0) = 0
    BY <1>5
  <2>5. ASSUME NEW j \in Jobs
        PROVE  Cardinality(Numbers(j)) <= manual + (IF j \in DOMAIN running THEN 1 ELSE 0)
    BY <2>2, <2>3, <2>4
  <2> QED
    BY <2>5 DEF NumbersLast
<1>10. RunningIsTrue
  BY <1>1, <1>5, FS_EmptySet DEF Init, RunningIsTrue
<1>11. Spacing
  BY <1>1, <1>3, <1>4 DEF Init, Spacing, AgesTell, NextWaits
<1> QED
  BY <1>6, <1>7, <1>8, <1>9, <1>10, <1>11 DEF IInv

\* What a step that only writes records does to the invariant about runs.
LEMMA OnlyTheStore ==
    ASSUME IInv, UNCHANGED <<setup, since, runs, running, manual>>, store' \in Stores,
           \A j \in Jobs : Has(store', j) =>
              \/ Has(store, j) /\ store'.record[j].next = store.record[j].next
              \/ IsInterval(j) => store'.record[j].next = Every
    PROVE  NumbersLast' /\ RunningIsTrue' /\ Spacing'
<1>1. NumbersLast'
  BY DEF IInv, NumbersLast, Numbers
<1>2. RunningIsTrue'
  BY DEF IInv, RunningIsTrue
<1>3. Spacing => Spacing'
  <2>1. AgesTell => AgesTell'
    BY DEF AgesTell, IsInterval
  <2>2. NextWaits => NextWaits'
    <3> SUFFICES ASSUME NextWaits, NEW j \in Jobs \ DOMAIN running, IsInterval(j),
                        Has(store', j), store'.record[j].next # None, since[j] < Every
                 PROVE  store'.record[j].next >= Every - since[j]
      BY DEF NextWaits, IsInterval
    <3>1. since[j] \in Nat /\ Every \in Nat
      BY SchedulerAssumption DEF IInv, TypeOK
    <3>2. CASE Has(store, j) /\ store'.record[j].next = store.record[j].next
      BY <3>2 DEF NextWaits
    <3>3. CASE store'.record[j].next = Every
      BY <3>1, <3>3
    <3> QED
      BY <3>2, <3>3
  <2> QED
    BY <2>1, <2>2 DEF Spacing
<1> QED
  BY <1>1, <1>2, <1>3 DEF IInv

\* A step that arms the timer on the state it leaves.
LEMMA TimerArmed ==
    ASSUME store' \in Stores, timer' = Arm(store', handlers')
    PROVE  timer' \in 0..PollInterval /\ NeverOversleeps'
<1>1. timer' \in 0..PollInterval
  BY Arming
<1>2. \A j \in Runnable(store', handlers') : timer' <= Max({0, store'.record[j].next})
  BY Arming
<1>3. timer' # None
  BY <1>1, SchedulerAssumption
<1> QED
  BY <1>1, <1>2, <1>3 DEF NeverOversleeps

\* A step that arms the timer if the scheduler is started.
LEMMA TimerRearmed ==
    ASSUME IInv, store' \in Stores, started' = started, timer' = Rearm(store', handlers')
    PROVE  (timer' # None => timer' \in 0..PollInterval) /\ NeverOversleeps'
<1>1. CASE started
  <2>1. timer' = Arm(store', handlers')
    BY <1>1 DEF Rearm
  <2> QED
    BY <2>1, TimerArmed
<1>2. CASE ~started
  BY <1>2 DEF Rearm, NeverOversleeps, IInv, TypeOK
<1> QED
  BY <1>1, <1>2

\* add keeps the invariant: the job gets its old record or a fresh one, and the timer is armed.
LEMMA AddStep == ASSUME IInv, NEW j \in Jobs, Add(j) PROVE IInv'
<1> USE DEF still
<1>1. /\ store' \in Stores
      /\ Listed(store') = Listed(store) \union {j}
      /\ store'.record[j] = IF Has(store, j) THEN store.record[j] ELSE FreshRecord(j)
      /\ \A k \in Jobs \ {j} : store'.record[k] = store.record[k]
  <2>1. store' = Added(store, j) /\ TypeOK /\ store \in Stores
    BY DEF Add, IInv, TypeOK
  <2> QED
    BY <2>1, Adding
<1>2. (timer' # None => timer' \in 0..PollInterval) /\ NeverOversleeps'
  BY <1>1, TimerRearmed DEF Add
<1>3. TypeOK'
  BY <1>1, <1>2 DEF IInv, TypeOK, Add
<1>4. FreshRecord(j).next # None /\ (IsInterval(j) => FreshRecord(j).next = Every)
  BY FreshRecords DEF IInv
<1>5. StoreSound'
  <2>1. handlers' \subseteq Listed(store')
    BY <1>1 DEF IInv, StoreSound, Add
  <2>2. ASSUME NEW k \in Jobs, Has(store', k), store'.record[k].enabled
        PROVE  store'.record[k].next # None
    <3>1. CASE k = j /\ ~Has(store, j)
      BY <1>1, <1>4, <3>1
    <3>2. CASE store'.record[k] = store.record[k]
      BY <2>2, <3>2 DEF IInv, StoreSound, Has
    <3> QED
      BY <1>1, <3>1, <3>2
  <2> QED
    BY <2>1, <2>2 DEF StoreSound
<1>6. NumbersLast' /\ RunningIsTrue' /\ Spacing'
  <2>1. \A k \in Jobs : Has(store', k) =>
              \/ Has(store, k) /\ store'.record[k].next = store.record[k].next
              \/ IsInterval(k) => store'.record[k].next = Every
    BY <1>1, <1>4 DEF Has
  <2> QED
    BY <1>1, <2>1, OnlyTheStore DEF Add
<1>7. StopSeesEveryRun' /\ DownIsEmpty'
  BY DEF IInv, StopSeesEveryRun, DownIsEmpty, Add
<1> QED
  BY <1>2, <1>3, <1>5, <1>6, <1>7 DEF IInv

\* remove keeps it: handler and record go, and a timer that is too early does no harm.
LEMMA RemoveStep == ASSUME IInv, NEW j \in Jobs, Remove(j) PROVE IInv'
<1> USE DEF still
<1>1. /\ store' \in Stores
      /\ Listed(store') = Listed(store) \ {j}
      /\ ~Has(store', j)
      /\ \A k \in Jobs \ {j} : store'.record[k] = store.record[k]
  <2>1. store' = Delete(store, j) /\ store \in Stores
    BY DEF Remove, IInv, TypeOK
  <2> QED
    BY <2>1, Erasing
<1>2. TypeOK'
  BY <1>1 DEF IInv, TypeOK, Remove
<1>3. StoreSound'
  <2>1. handlers' \subseteq Listed(store')
    BY <1>1 DEF IInv, StoreSound, Remove
  <2> QED
    BY <1>1, <2>1 DEF StoreSound, IInv, Has
<1>4. NeverOversleeps'
  <2>1. Runnable(store', handlers') \subseteq Runnable(store, handlers)
    BY <1>1, ListedJobs DEF Runnable, Remove, Has
  <2>2. \A k \in Runnable(store', handlers') : store'.record[k] = store.record[k]
    BY <1>1, ListedJobs DEF Runnable, Has
  <2> QED
    BY <2>1, <2>2 DEF IInv, NeverOversleeps, Remove
<1>5. NumbersLast' /\ RunningIsTrue' /\ Spacing'
  <2>1. \A k \in Jobs : Has(store', k) =>
              \/ Has(store, k) /\ store'.record[k].next = store.record[k].next
              \/ IsInterval(k) => store'.record[k].next = Every
    BY <1>1 DEF Has
  <2> QED
    BY <1>1, <2>1, OnlyTheStore DEF Remove
<1>6. StopSeesEveryRun' /\ DownIsEmpty'
  BY DEF IInv, StopSeesEveryRun, DownIsEmpty, Remove
<1> QED
  BY <1>2, <1>3, <1>4, <1>5, <1>6 DEF IInv

\* pause keeps it: fewer jobs can come due.
LEMMA PauseStep == ASSUME IInv, NEW j \in Jobs, Pause(j) PROVE IInv'
<1> USE DEF still
<1> DEFINE record == [store.record[j] EXCEPT !.enabled = FALSE]
<1>1. record \in Records /\ ~record.enabled /\ record.next = store.record[j].next
  <2>1. store.record[j] \in Records
    BY ListedJobs DEF Pause, IInv, TypeOK
  <2> QED
    BY <2>1 DEF Records
<1>2. store' = Save(store, j, record) /\ store \in Stores /\ Has(store, j)
  BY DEF Pause, IInv, TypeOK
<1> HIDE DEF record
<1>3. /\ store' \in Stores
      /\ Listed(store') = Listed(store) \union {j}
      /\ store'.record[j] = record
      /\ \A k \in Jobs \ {j} : store'.record[k] = store.record[k]
  BY <1>1, <1>2, Saving
<1>4. TypeOK'
  BY <1>3 DEF IInv, TypeOK, Pause
<1>5. StoreSound'
  <2>1. handlers' \subseteq Listed(store')
    BY <1>3 DEF IInv, StoreSound, Pause
  <2>2. ASSUME NEW k \in Jobs, Has(store', k), store'.record[k].enabled
        PROVE  store'.record[k].next # None
    BY <1>1, <1>3, <2>2 DEF IInv, StoreSound, Has
  <2> QED
    BY <2>1, <2>2 DEF StoreSound
<1>6. NeverOversleeps'
  <2>1. \A k \in Runnable(store', handlers') :
           k \in Runnable(store, handlers) /\ store'.record[k] = store.record[k]
    BY <1>1, <1>3, ListedJobs DEF Runnable, Pause, Has
  <2> QED
    BY <2>1 DEF IInv, NeverOversleeps, Pause
<1>7. NumbersLast' /\ RunningIsTrue' /\ Spacing'
  <2>1. \A k \in Jobs : Has(store', k) =>
              \/ Has(store, k) /\ store'.record[k].next = store.record[k].next
              \/ IsInterval(k) => store'.record[k].next = Every
    BY <1>1, <1>2, <1>3 DEF Has
  <2> QED
    BY <1>3, <2>1, OnlyTheStore DEF Pause
<1>8. StopSeesEveryRun' /\ DownIsEmpty'
  BY DEF IInv, StopSeesEveryRun, DownIsEmpty, Pause
<1> QED
  BY <1>4, <1>5, <1>6, <1>7, <1>8 DEF IInv

\* resume keeps it: the next run is a whole period away, and the timer is armed.
LEMMA ResumeStep == ASSUME IInv, NEW j \in Jobs, Resume(j) PROVE IInv'
<1> USE DEF still
<1> DEFINE record == [enabled |-> TRUE, next |-> NextRunTime(j, 0)]
<1>1. record \in Records /\ record.next # None /\ (IsInterval(j) => record.next = Every)
  BY FreshRecords DEF FreshRecord, IInv
<1>2. store' = Save(store, j, record) /\ store \in Stores
  BY DEF Resume, IInv, TypeOK
<1> HIDE DEF record
<1>3. /\ store' \in Stores
      /\ Listed(store') = Listed(store) \union {j}
      /\ store'.record[j] = record
      /\ \A k \in Jobs \ {j} : store'.record[k] = store.record[k]
  BY <1>1, <1>2, Saving
<1>4. (timer' # None => timer' \in 0..PollInterval) /\ NeverOversleeps'
  BY <1>3, TimerRearmed DEF Resume
<1>5. TypeOK'
  BY <1>3, <1>4 DEF IInv, TypeOK, Resume
<1>6. StoreSound'
  <2>1. handlers' \subseteq Listed(store')
    BY <1>3 DEF IInv, StoreSound, Resume
  <2>2. ASSUME NEW k \in Jobs, Has(store', k), store'.record[k].enabled
        PROVE  store'.record[k].next # None
    BY <1>1, <1>3, <2>2 DEF IInv, StoreSound, Has
  <2> QED
    BY <2>1, <2>2 DEF StoreSound
<1>7. NumbersLast' /\ RunningIsTrue' /\ Spacing'
  <2>1. \A k \in Jobs : Has(store', k) =>
              \/ Has(store, k) /\ store'.record[k].next = store.record[k].next
              \/ IsInterval(k) => store'.record[k].next = Every
    BY <1>1, <1>3 DEF Has
  <2> QED
    BY <1>3, <2>1, OnlyTheStore DEF Resume
<1>8. StopSeesEveryRun' /\ DownIsEmpty'
  BY DEF IInv, StopSeesEveryRun, DownIsEmpty, Resume
<1> QED
  BY <1>4, <1>5, <1>6, <1>7, <1>8 DEF IInv

\* The due jobs: listed, with a handler, and a time that has come.
LEMMA DueJobs ==
    ASSUME IInv
    PROVE  /\ Due \subseteq Listed(store) /\ Due \subseteq Jobs
           /\ \A j \in Due : /\ Has(store, j)
                             /\ store.record[j].next \in Int
                             /\ store.record[j].next <= 0
<1>1. Due \subseteq Listed(store)
  BY DEF Due, Runnable
<1>2. \A j \in Due : Has(store, j) /\ store.record[j] \in Records /\ j \in Jobs
  BY <1>1, ListedJobs DEF IInv, TypeOK
<1>3. \A j \in Due : store.record[j].next \in Times /\ store.record[j].next <= 0
  BY <1>2 DEF Due, Runnable, Records
<1>4. Times \subseteq Int
  BY SchedulerAssumption DEF Times
<1> QED
  BY <1>1, <1>2, <1>3, <1>4

\* start keeps it, with the missed slots given up or not.
LEMMA StartStep == ASSUME IInv, Start PROVE IInv'
<1> USE DEF still
<1> DEFINE skipped == [j \in Due |-> SlotSkipped(j, 0)]
<1>1. \A j \in Due : /\ skipped[j] \in Records /\ skipped[j].next # None
                     /\ IsInterval(j) => skipped[j].next = Every
  <2> TAKE j \in Due
  <2>1. Has(store, j) /\ j \in Jobs
    BY DueJobs
  <2>2. SlotSkipped(j, 0) \in Records /\ SlotSkipped(j, 0).next = NextRunTime(j, 0)
    BY <2>1, SlotsSkipped DEF IInv
  <2>3. NextRunTime(j, 0) # None /\ (IsInterval(j) => NextRunTime(j, 0) = Every)
    BY <2>1, NextTimes, SchedulerAssumption DEF IInv
  <2> QED
    BY <2>2, <2>3
<1>2. /\ store' \in Stores
      /\ Listed(store') = Listed(store)
      /\ \A j \in Jobs : Has(store', j) <=> Has(store, j)
      /\ \A j \in Jobs : \/ store'.record[j] = store.record[j]
                         \/ j \in Due /\ store'.record[j] = skipped[j]
  <2>1. CASE setup.catchUp
    BY <2>1 DEF Start, IInv, TypeOK
  <2>2. CASE ~setup.catchUp
    <3>1. store' = SaveListed(store, Due, skipped) /\ store \in Stores
      BY <2>2 DEF Start, IInv, TypeOK
    <3> HIDE DEF skipped
    <3>2. Due \in SUBSET Listed(store)
      BY DueJobs
    <3>3. LET saved == SaveListed(store, Due, skipped) IN
           /\ saved \in Stores
           /\ Listed(saved) = Listed(store)
           /\ \A j \in Due : saved.record[j] = skipped[j]
           /\ \A j \in Jobs \ Due : saved.record[j] = store.record[j]
           /\ \A j \in Jobs : Has(saved, j) <=> Has(store, j)
      BY <1>1, <3>1, <3>2, SavingListed
    <3> QED
      BY <3>1, <3>3
  <2> QED
    BY <2>1, <2>2
<1> HIDE DEF skipped
<1>3. timer' \in 0..PollInterval /\ NeverOversleeps'
  <2>1. timer' = Arm(store', handlers')
    BY DEF Start
  <2> QED
    BY <1>2, <2>1, TimerArmed
<1>4. TypeOK'
  BY <1>2, <1>3 DEF IInv, TypeOK, Start
<1>5. StoreSound'
  <2>1. handlers' \subseteq Listed(store')
    BY <1>2 DEF IInv, StoreSound, Start
  <2>2. ASSUME NEW k \in Jobs, Has(store', k), store'.record[k].enabled
        PROVE  store'.record[k].next # None
    BY <1>1, <1>2, <2>2 DEF IInv, StoreSound
  <2> QED
    BY <2>1, <2>2 DEF StoreSound
<1>6. NumbersLast' /\ RunningIsTrue' /\ Spacing'
  <2>1. \A k \in Jobs : Has(store', k) =>
              \/ Has(store, k) /\ store'.record[k].next = store.record[k].next
              \/ IsInterval(k) => store'.record[k].next = Every
    BY <1>1, <1>2
  <2> QED
    BY <1>2, <2>1, OnlyTheStore DEF Start
<1>7. StopSeesEveryRun' /\ DownIsEmpty'
  BY DEF IInv, StopSeesEveryRun, DownIsEmpty, Start
<1> QED
  BY <1>3, <1>4, <1>5, <1>6, <1>7 DEF IInv

\* _launch: one more run of each job, with a number none of its runs has, and _running
\* stands for the new ones.
LEMMA Launching ==
    ASSUME IInv, NEW jobs \in SUBSET Jobs, Launch(jobs),
           \A j \in jobs : Has(store, j) /\ Cardinality(Numbers(j)) <= MaxUpsets
    PROVE  /\ runs' \subseteq [job: Jobs, no: RunNos, age: 0..(2 * Every - 1), enabled: BOOLEAN]
           /\ \A r, s \in runs' : r.job = s.job /\ r.no = s.no => r = s
           /\ \A r \in runs' \ runs : r.job \in jobs /\ r.no = UnusedNo(r.job) /\ r.age = 0
           /\ \A j \in jobs : \E r \in runs' : r.job = j
           /\ runs \subseteq runs'
           /\ DOMAIN running' = DOMAIN running \union jobs
           /\ running' \in [DOMAIN running' -> RunNos]
           /\ \A j \in jobs : running'[j] = UnusedNo(j)
           /\ \A j \in DOMAIN running \ jobs : running'[j] = running[j]
           /\ \A j \in jobs : Numbers(j)' = Numbers(j) \union {UnusedNo(j)}
           /\ \A j \in Jobs \ jobs : Numbers(j)' = Numbers(j)
<1> DEFINE Types == [job: Jobs, no: RunNos, age: 0..(2 * Every - 1), enabled: BOOLEAN]
<1>1. /\ TypeOK
      /\ \A j \in jobs : UnusedNo(j) \in RunNos /\ UnusedNo(j) \notin Numbers(j)
  BY NumberLeft DEF IInv
<1>2. 0 \in 0..(2 * Every - 1)
  BY SchedulerAssumption
<1>3. \A j \in jobs : store.record[j].enabled \in BOOLEAN
  <2>1. \A j \in jobs : store.record[j] \in Records
    BY <1>1, ListedJobs DEF TypeOK
  <2> QED
    BY <2>1 DEF Records
<1>4. \A j \in jobs : /\ Launched(j) \in Types /\ Launched(j).job = j
                      /\ Launched(j).no = UnusedNo(j) /\ Launched(j).age = 0
  BY <1>1, <1>2, <1>3 DEF Launched
<1>5. runs' = runs \union {Launched(j) : j \in jobs}
  BY DEF Launch
<1>6. runs' \subseteq Types
  BY <1>1, <1>4, <1>5 DEF TypeOK
<1>7. \A r \in runs : r.job \in jobs => r.no \in Numbers(r.job)
  BY DEF Numbers
<1>8. ASSUME NEW r \in runs', NEW s \in runs', r.job = s.job, r.no = s.no PROVE r = s
  <2>1. CASE r \in runs /\ s \in runs
    BY <1>1, <1>8, <2>1 DEF TypeOK
  <2>2. CASE r \notin runs /\ s \notin runs
    BY <1>4, <1>5, <1>8, <2>2
  <2>3. CASE r \in runs /\ s \notin runs
    BY <1>1, <1>4, <1>5, <1>7, <1>8, <2>3
  <2>4. CASE r \notin runs /\ s \in runs
    BY <1>1, <1>4, <1>5, <1>7, <1>8, <2>4
  <2> QED
    BY <2>1, <2>2, <2>3, <2>4
<1>9. /\ DOMAIN running' = DOMAIN running \union jobs
      /\ running' \in [DOMAIN running' -> RunNos]
      /\ \A j \in jobs : running'[j] = UnusedNo(j)
      /\ \A j \in DOMAIN running \ jobs : running'[j] = running[j]
  BY <1>1 DEF TypeOK, Launch
<1>10. \A j \in jobs : Numbers(j)' = Numbers(j) \union {UnusedNo(j)}
  <2> TAKE j \in jobs
  <2>1. \A n : n \in Numbers(j)' <=> \E r \in runs' : r.job = j /\ r.no = n
    BY DEF Numbers
  <2>2. \A n : n \in Numbers(j) <=> \E r \in runs : r.job = j /\ r.no = n
    BY DEF Numbers
  <2> QED
    BY <1>4, <1>5, <2>1, <2>2
<1>11. \A j \in Jobs \ jobs : Numbers(j)' = Numbers(j)
  <2> TAKE j \in Jobs \ jobs
  <2>1. \A r : r \in runs' /\ r.job = j <=> r \in runs /\ r.job = j
    BY <1>4, <1>5
  <2>2. \A n : n \in Numbers(j)' <=> \E r \in runs' : r.job = j /\ r.no = n
    BY DEF Numbers
  <2>3. \A n : n \in Numbers(j) <=> \E r \in runs : r.job = j /\ r.no = n
    BY DEF Numbers
  <2>4. \A n : n \in Numbers(j)' <=> n \in Numbers(j)
    BY <2>1, <2>2, <2>3
  <2> QED
    BY <2>4 DEF Numbers
<1> QED
  BY <1>4, <1>5, <1>6, <1>8, <1>9, <1>10, <1>11

\* The numbers of a job's runs are a finite set of numbers for runs.
LEMMA FewNumbers ==
    ASSUME IInv, NEW j \in Jobs
    PROVE  /\ Numbers(j) \subseteq RunNos
           /\ IsFiniteSet(Numbers(j)) /\ Cardinality(Numbers(j)) \in Nat
<1>1. Numbers(j) \subseteq RunNos
  BY DEF Numbers, IInv, TypeOK
<1>2. IsFiniteSet(RunNos)
  BY SchedulerAssumption, FS_Interval DEF RunNos
<1> QED
  BY <1>1, <1>2, FS_Subset, FS_CardinalityType

\* The numbers of runs launched keep within their bound.
LEMMA MoreNumbers ==
    ASSUME IInv, NEW jobs \in SUBSET Jobs, manual' \in Nat, manual' >= manual,
           DOMAIN running' = DOMAIN running \union jobs,
           \A j \in jobs : Cardinality(Numbers(j)) <= manual',
           \A j \in jobs : Numbers(j)' = Numbers(j) \union {UnusedNo(j)},
           \A j \in Jobs \ jobs : Numbers(j)' = Numbers(j)
    PROVE  NumbersLast'
<1>1. MaxUpsets \in Nat /\ manual \in Nat
  BY SchedulerAssumption DEF IInv, TypeOK
<1>2. ASSUME NEW j \in Jobs
      PROVE  IsFiniteSet(Numbers(j)) /\ Cardinality(Numbers(j)) \in Nat
  BY FewNumbers
<1> DEFINE one(j) == IF j \in DOMAIN running' THEN 1 ELSE 0
<1>3. ASSUME NEW j \in Jobs PROVE Cardinality(Numbers(j)') <= manual' + one(j)
  <2>1. CASE j \in jobs
    <3>1. Cardinality(Numbers(j) \union {UnusedNo(j)}) <= Cardinality(Numbers(j)) + 1
      <4>1. Cardinality(Numbers(j) \union {UnusedNo(j)}) =
               IF UnusedNo(j) \in Numbers(j) THEN Cardinality(Numbers(j))
               ELSE Cardinality(Numbers(j)) + 1
        BY <1>2, FS_AddElement
      <4> QED
        BY <1>2, <4>1
    <3>2. one(j) = 1
      BY <2>1
    <3>3. Cardinality(Numbers(j) \union {UnusedNo(j)}) \in Nat
      BY <1>2, FS_AddElement, FS_CardinalityType
    <3>4. Cardinality(Numbers(j)) <= manual' /\ Cardinality(Numbers(j)) \in Nat
      BY <1>2, <2>1
    <3>5. Cardinality(Numbers(j)') = Cardinality(Numbers(j) \union {UnusedNo(j)})
      BY <2>1
    <3> HIDE DEF one
    <3> QED
      BY <3>1, <3>2, <3>3, <3>4, <3>5
  <2>2. CASE j \notin jobs
    <3>1. one(j) = IF j \in DOMAIN running THEN 1 ELSE 0
      BY <2>2
    <3>2. Cardinality(Numbers(j)) <= manual + (IF j \in DOMAIN running THEN 1 ELSE 0)
      BY DEF IInv, NumbersLast
    <3> HIDE DEF one
    <3> QED
      BY <1>1, <1>2, <2>2, <3>1, <3>2
  <2> QED
    BY <2>1, <2>2
<1> QED
  BY <1>3 DEF NumbersLast

\* runNow keeps it: it may hide a run, and is counted for that.
LEMMA RunNowStep == ASSUME IInv, NEW j \in Jobs, RunNow(j) PROVE IInv'
<1> USE DEF still
<1>1. /\ manual' = manual + 1 /\ manual \in Nat /\ crashes \in Nat /\ MaxUpsets \in Nat
      /\ manual < MaxUpsets /\ manual' \in 0..MaxUpsets
  BY SchedulerAssumption DEF IInv, TypeOK, RunNow
<1>2. Cardinality(Numbers(j)) <= manual + 1 /\ Cardinality(Numbers(j)) \in Nat
  <2>1. Cardinality(Numbers(j)) \in Nat
    BY FewNumbers
  <2>2. Cardinality(Numbers(j)) <= manual + (IF j \in DOMAIN running THEN 1 ELSE 0)
    BY DEF IInv, NumbersLast
  <2> QED
    BY <1>1, <2>1, <2>2
<1>3. /\ runs' \subseteq [job: Jobs, no: RunNos, age: 0..(2 * Every - 1), enabled: BOOLEAN]
      /\ \A r, s \in runs' : r.job = s.job /\ r.no = s.no => r = s
      /\ DOMAIN running' = DOMAIN running \union {j}
      /\ running' \in [DOMAIN running' -> RunNos]
      /\ Numbers(j)' = Numbers(j) \union {UnusedNo(j)}
      /\ \A k \in Jobs \ {j} : Numbers(k)' = Numbers(k)
  <2>1. Launch({j}) /\ Has(store, j) /\ Cardinality(Numbers(j)) <= MaxUpsets
    BY <1>1, <1>2 DEF RunNow
  <2> QED
    BY <2>1, Launching
<1>4. TypeOK'
  <2>1. UNCHANGED <<setup, slot, since, crashes, up, handlers, store, started, timer, stopping>>
    BY DEF RunNow
  <2>2. DOMAIN running' \subseteq Jobs
    BY <1>3 DEF IInv, TypeOK
  <2> QED
    BY <1>1, <1>3, <2>1, <2>2 DEF IInv, TypeOK
<1>5. NumbersLast'
  <2>1. manual' \in Nat /\ manual' >= manual /\ \A k \in {j} : Cardinality(Numbers(k)) <= manual'
    BY <1>1, <1>2
  <2>2. \A k \in {j} : Numbers(k)' = Numbers(k) \union {UnusedNo(k)}
    BY <1>3
  <2>3. {j} \in SUBSET Jobs
    OBVIOUS
  <2> QED
    BY <1>3, <2>1, <2>2, <2>3, MoreNumbers
<1>6. StoreSound' /\ NeverOversleeps'
  BY DEF IInv, StoreSound, NeverOversleeps, RunNow, Has
<1>7. manual' # 0
  BY <1>1
<1>8. StopSeesEveryRun' /\ RunningIsTrue' /\ Spacing'
  BY <1>7 DEF StopSeesEveryRun, RunningIsTrue, Spacing
<1>9. DownIsEmpty'
  BY DEF DownIsEmpty, RunNow
<1> QED
  BY <1>4, <1>5, <1>6, <1>8, <1>9 DEF IInv

\* tick keeps it: the served jobs were idle and there was room for them.
LEMMA TickOnceStep == ASSUME IInv, TickOnce PROVE IInv'
<1> DEFINE skipped == [j \in Passed |-> SlotSkipped(j, store.record[j].next)]
<1>1. /\ Passed \subseteq Due /\ Passed \subseteq DOMAIN running
      /\ Served \subseteq Due /\ Served \intersect DOMAIN running = {}
      /\ Served \subseteq Jobs /\ Passed \subseteq Jobs
  BY DueJobs DEF Passed, Served, Idle
<1>2. \A j \in Passed : /\ skipped[j] \in Records /\ skipped[j].next # None
                        /\ skipped[j].enabled = store.record[j].enabled
  <2> TAKE j \in Passed
  <2>1. /\ Has(store, j) /\ j \in Jobs /\ TypeOK
        /\ store.record[j].next \in Int /\ store.record[j].next <= 0
    BY <1>1, DueJobs DEF IInv
  <2>2. LET record == SlotSkipped(j, store.record[j].next) IN
           /\ record \in Records
           /\ record.next = NextRunTime(j, store.record[j].next)
           /\ record.enabled = store.record[j].enabled
    BY <2>1, SlotsSkipped
  <2>3. NextRunTime(j, store.record[j].next) # None
    BY <2>1, NextTimes
  <2> QED
    BY <2>2, <2>3
<1>3. /\ store' \in Stores
      /\ Listed(store') = Listed(store)
      /\ \A j \in Passed : store'.record[j] = skipped[j]
      /\ \A j \in Jobs \ Passed : store'.record[j] = store.record[j]
      /\ \A j \in Jobs : Has(store', j) <=> Has(store, j)
  <2>1. store' = SaveListed(store, Passed, skipped) /\ store \in Stores
    BY DEF TickOnce, TickJobs, IInv, TypeOK
  <2> HIDE DEF skipped
  <2>2. Passed \in SUBSET Listed(store)
    BY <1>1, DueJobs
  <2>3. LET saved == SaveListed(store, Passed, skipped) IN
           /\ saved \in Stores
           /\ Listed(saved) = Listed(store)
           /\ \A j \in Passed : saved.record[j] = skipped[j]
           /\ \A j \in Jobs \ Passed : saved.record[j] = store.record[j]
           /\ \A j \in Jobs : Has(saved, j) <=> Has(store, j)
    BY <1>2, <2>1, <2>2, SavingListed
  <2> QED
    BY <2>1, <2>3
<1> HIDE DEF skipped
<1>4. timer' \in 0..PollInterval /\ NeverOversleeps'
  <2>1. timer' = Arm(store', handlers')
    BY DEF TickOnce, TickJobs
  <2> QED
    BY <1>3, <2>1, TimerArmed
<1>5. /\ UNCHANGED <<setup, slot, up, handlers, started, stopping, manual, crashes>>
      /\ up /\ started /\ Launch(Served)
      /\ since' = [j \in Jobs |->
                     IF j \in Served /\ setup.kind[j] = "interval" THEN 0 ELSE since[j]]
  BY DEF TickOnce, TickJobs
<1>6. manual \in Nat /\ manual <= MaxUpsets /\ MaxUpsets \in Nat /\ Every \in Nat \ {0}
  BY SchedulerAssumption DEF IInv, TypeOK
<1>7. \A j \in Served : Cardinality(Numbers(j)) <= manual /\ Cardinality(Numbers(j)) <= MaxUpsets
  <2> TAKE j \in Served
  <2>1. j \in Jobs /\ j \notin DOMAIN running
    BY <1>1
  <2>2. Cardinality(Numbers(j)) \in Nat
    BY <2>1, FewNumbers
  <2>3. Cardinality(Numbers(j)) <= manual + (IF j \in DOMAIN running THEN 1 ELSE 0)
    BY <2>1 DEF IInv, NumbersLast
  <2> QED
    BY <1>6, <2>1, <2>2, <2>3
<1>8. /\ runs' \subseteq [job: Jobs, no: RunNos, age: 0..(2 * Every - 1), enabled: BOOLEAN]
      /\ \A r, s \in runs' : r.job = s.job /\ r.no = s.no => r = s
      /\ \A r \in runs' \ runs : r.job \in Served /\ r.no = UnusedNo(r.job) /\ r.age = 0
      /\ \A j \in Served : \E r \in runs' : r.job = j
      /\ runs \subseteq runs'
      /\ DOMAIN running' = DOMAIN running \union Served
      /\ running' \in [DOMAIN running' -> RunNos]
      /\ \A j \in Served : running'[j] = UnusedNo(j)
      /\ \A j \in DOMAIN running \ Served : running'[j] = running[j]
      /\ \A j \in Served : Numbers(j)' = Numbers(j) \union {UnusedNo(j)}
      /\ \A j \in Jobs \ Served : Numbers(j)' = Numbers(j)
  <2>1. \A j \in Served : Has(store, j) /\ Cardinality(Numbers(j)) <= MaxUpsets
    BY <1>1, <1>7, DueJobs
  <2>2. Served \in SUBSET Jobs
    BY <1>1
  <2> QED
    BY <1>5, <2>1, <2>2, Launching
<1>9. TypeOK'
  <2>1. DOMAIN running' \subseteq Jobs
    BY <1>1, <1>8 DEF IInv, TypeOK
  <2>2. since' \in [Jobs -> 0..Every]
    BY <1>5, <1>6 DEF IInv, TypeOK
  <2> QED
    BY <1>3, <1>4, <1>5, <1>8, <2>1, <2>2 DEF IInv, TypeOK
<1>10. StoreSound'
  <2>1. handlers' \subseteq Listed(store')
    BY <1>3, <1>5 DEF IInv, StoreSound
  <2>2. ASSUME NEW k \in Jobs, Has(store', k), store'.record[k].enabled
        PROVE  store'.record[k].next # None
    BY <1>2, <1>3, <2>2 DEF IInv, StoreSound
  <2> QED
    BY <2>1, <2>2 DEF StoreSound
<1>11. NumbersLast'
  <2>1. manual' \in Nat /\ manual' >= manual
    BY <1>5, <1>6
  <2> QED
    BY <1>1, <1>5, <1>7, <1>8, <2>1, MoreNumbers
<1>12. RunningIsTrue'
  <2> SUFFICES ASSUME manual' = 0 PROVE RunningIsTrue'
    BY DEF RunningIsTrue
  <2>1. /\ \A r \in runs : r.job \in DOMAIN running /\ running[r.job] = r.no
        /\ \A j \in DOMAIN running : \E r \in runs : r.job = j
        /\ Cardinality(DOMAIN running) <= Concurrency
    BY <1>5 DEF IInv, RunningIsTrue
  <2>2. \A r \in runs' : r.job \in DOMAIN running' /\ running'[r.job] = r.no
    BY <1>1, <1>8, <2>1
  <2>3. \A j \in DOMAIN running' : \E r \in runs' : r.job = j
    BY <1>8, <2>1
  <2>4. Cardinality(DOMAIN running') <= Concurrency
    <3>1. IsFiniteSet(DOMAIN running) /\ Cardinality(DOMAIN running) \in Nat /\ Concurrency \in Nat
      BY FS_Subset, FS_CardinalityType, SchedulerAssumption DEF IInv, TypeOK
    <3>2. IsFiniteSet(Served) /\ Cardinality(Served) <= Room /\ Cardinality(Served) \in Nat
      BY RoomSuffices, FS_CardinalityType DEF IInv
    <3>3. Room = IF 0 >= Concurrency - Cardinality(DOMAIN running) THEN 0
                 ELSE Concurrency - Cardinality(DOMAIN running)
      BY <3>1, GreaterOf DEF Room
    <3>4. Cardinality(DOMAIN running \union Served) =
             Cardinality(DOMAIN running) + Cardinality(Served) - Cardinality(DOMAIN running \intersect Served)
      BY <3>1, <3>2, FS_Union
    <3>5. Cardinality(DOMAIN running \intersect Served) = 0
      BY <1>1, FS_EmptySet
    <3> QED
      BY <1>8, <2>1, <3>1, <3>2, <3>3, <3>4, <3>5
  <2> QED
    BY <2>2, <2>3, <2>4 DEF RunningIsTrue
<1>13. Spacing'
  <2> SUFFICES ASSUME manual' = 0 PROVE AgesTell' /\ NextWaits'
    BY DEF Spacing
  <2>1. /\ \A r \in runs : r.job \in DOMAIN running
        /\ AgesTell /\ NextWaits
    BY <1>5 DEF IInv, RunningIsTrue, Spacing
  <2>2. ASSUME NEW r \in runs', IsInterval(r.job), since'[r.job] < Every
        PROVE  r.age = since'[r.job]
    <3>1. r.job \in Jobs
      BY <1>8
    <3>2. CASE r \in runs
      <4>1. r.job \notin Served
        BY <1>1, <2>1, <3>2
      <4>2. since'[r.job] = since[r.job]
        BY <1>5, <3>1, <4>1
      <4> QED
        BY <2>1, <2>2, <3>2, <4>2 DEF AgesTell
    <3>3. CASE r \notin runs
      BY <1>5, <1>8, <2>2, <3>1, <3>3 DEF IsInterval
    <3> QED
      BY <3>2, <3>3
  <2>3. ASSUME NEW j \in Jobs \ DOMAIN running', IsInterval(j), Has(store', j),
               store'.record[j].next # None, since'[j] < Every
        PROVE  store'.record[j].next >= Every - since'[j]
    <3>1. j \notin Passed /\ j \notin Served /\ j \notin DOMAIN running
      BY <1>1, <1>8
    <3>2. since'[j] = since[j]
      BY <1>5, <3>1
    <3>3. store'.record[j] = store.record[j] /\ Has(store, j)
      BY <1>3, <2>3, <3>1
    <3> QED
      BY <2>1, <2>3, <3>1, <3>2, <3>3 DEF NextWaits
  <2> QED
    BY <1>5, <2>2, <2>3 DEF AgesTell, NextWaits, IsInterval
<1>14. StopSeesEveryRun' /\ DownIsEmpty'
  BY <1>5 DEF StopSeesEveryRun, DownIsEmpty
<1> QED
  BY <1>4, <1>9, <1>10, <1>11, <1>12, <1>13, <1>14 DEF IInv

\* The settling of a run keeps it: entry and run go together, and the next slot is computed
\* from the start of the run.
LEMMA FinishStep == ASSUME IInv, NEW run \in runs, Finish(run) PROVE IInv'
<1> USE DEF still
<1> DEFINE j == run.job
           once == setup.kind[j] = "once"
           enabled == IF Has(store, j) THEN store.record[j].enabled ELSE run.enabled
           record == [enabled |-> enabled /\ ~once,
                      next |-> IF once THEN None ELSE NextRunTime(j, -run.age)]
<1>1. /\ j \in Jobs /\ run.no \in RunNos /\ run.age \in Nat /\ run.enabled \in BOOLEAN
      /\ Every \in Nat \ {0}
  BY SchedulerAssumption DEF IInv, TypeOK
<1>2. enabled \in BOOLEAN
  BY <1>1, ListedJobs DEF IInv, TypeOK, Records
<1>3. /\ NextRunTime(j, -run.age) \in Times
      /\ NextRunTime(j, -run.age) # None
      /\ IsInterval(j) /\ run.age < Every => NextRunTime(j, -run.age) = Every - run.age
  BY <1>1, NextTimes DEF IInv
<1>4. /\ record \in Records
      /\ record.enabled => record.next # None
      /\ IsInterval(j) /\ run.age < Every => record.next = Every - run.age
  BY <1>2, <1>3 DEF Records, IsInterval
<1>5. /\ store' = Save(store, j, record)
      /\ runs' = runs \ {run}
      /\ running' = [k \in DOMAIN running \ {j} |-> running[k]]
      /\ timer' = Rearm(store', handlers')
      /\ stopping' = IF stopping = None THEN None ELSE stopping \ {Id(run)}
      /\ UNCHANGED <<setup, slot, since, crashes, up, handlers, started, manual>>
      /\ store \in Stores
  BY DEF Finish, IInv, TypeOK
<1> HIDE DEF record, j
<1>6. /\ store' \in Stores
      /\ Listed(store') = Listed(store) \union {j}
      /\ store'.record[j] = record
      /\ \A k \in Jobs \ {j} : store'.record[k] = store.record[k]
  BY <1>1, <1>4, <1>5, Saving
<1>7. (timer' # None => timer' \in 0..PollInterval) /\ NeverOversleeps'
  BY <1>5, <1>6, TimerRearmed
<1>8. /\ DOMAIN running' = DOMAIN running \ {j} /\ running' \in [DOMAIN running' -> RunNos]
      /\ \A k \in DOMAIN running' : running'[k] = running[k]
  BY <1>5 DEF IInv, TypeOK
<1>9. TypeOK'
  BY <1>5, <1>6, <1>7, <1>8 DEF IInv, TypeOK
<1>10. StoreSound'
  <2>1. handlers' \subseteq Listed(store')
    BY <1>5, <1>6 DEF IInv, StoreSound
  <2>2. ASSUME NEW k \in Jobs, Has(store', k), store'.record[k].enabled
        PROVE  store'.record[k].next # None
    BY <1>4, <1>6, <2>2 DEF IInv, StoreSound, Has
  <2> QED
    BY <2>1, <2>2 DEF StoreSound
<1>11. \A r \in runs : r.job = j /\ r.no = run.no => r = run
  BY DEF IInv, TypeOK, j
<1>12. NumbersLast'
  <2>1. ASSUME NEW k \in Jobs \ {j} PROVE Numbers(k)' = Numbers(k)
    <3>1. \A r : r \in runs' /\ r.job = k <=> r \in runs /\ r.job = k
      BY <1>5, <2>1 DEF j
    <3> QED
      BY <3>1 DEF Numbers
  <2>2. Numbers(j)' = Numbers(j) \ {run.no} /\ run.no \in Numbers(j)
    <3>1. run.no \in Numbers(j)
      BY DEF Numbers, j
    <3>2. \A n : n \in Numbers(j)' <=> \E r \in runs' : r.job = j /\ r.no = n
      BY DEF Numbers, j
    <3>3. \A n : n \in Numbers(j) <=> \E r \in runs : r.job = j /\ r.no = n
      BY DEF Numbers
    <3>4. \A n : n \in Numbers(j)' <=> n \in Numbers(j) /\ n # run.no
      BY <1>5, <1>11, <3>2, <3>3
    <3> QED
      BY <3>1, <3>4 DEF Numbers
  <2>3. ASSUME NEW k \in Jobs
        PROVE  Cardinality(Numbers(k)') <= manual' + (IF k \in DOMAIN running' THEN 1 ELSE 0)
    <3>1. manual' = manual /\ manual \in Nat
      BY <1>5 DEF IInv, TypeOK
    <3>2. Cardinality(Numbers(k)) <= manual + (IF k \in DOMAIN running THEN 1 ELSE 0)
      BY DEF IInv, NumbersLast
    <3>3. IsFiniteSet(Numbers(k)) /\ Cardinality(Numbers(k)) \in Nat
      BY FewNumbers
    <3>4. CASE k = j
      <4>1. Cardinality(Numbers(j) \ {run.no}) = Cardinality(Numbers(j)) - 1
        BY <2>2, <3>3, <3>4, FS_RemoveElement
      <4>2. Cardinality(Numbers(k)') = Cardinality(Numbers(k)) - 1
        BY <2>2, <3>4, <4>1
      <4>3. k \notin DOMAIN running'
        BY <1>8, <3>4
      <4> QED
        BY <3>1, <3>2, <3>3, <4>2, <4>3
    <3>5. CASE k # j
      <4>1. Cardinality(Numbers(k)') = Cardinality(Numbers(k))
        BY <2>1, <3>5
      <4>2. k \in DOMAIN running' <=> k \in DOMAIN running
        BY <1>8, <3>5
      <4> QED
        BY <3>1, <3>2, <4>1, <4>2
    <3> QED
      BY <3>4, <3>5
  <2> QED
    BY <2>3 DEF NumbersLast
<1>13. RunningIsTrue'
  <2> SUFFICES ASSUME manual' = 0 PROVE RunningIsTrue'
    BY DEF RunningIsTrue
  <2>1. /\ \A r \in runs : r.job \in DOMAIN running /\ running[r.job] = r.no
        /\ \A k \in DOMAIN running : \E r \in runs : r.job = k
        /\ Cardinality(DOMAIN running) <= Concurrency
    BY <1>5 DEF IInv, RunningIsTrue
  <2>2. \A r \in runs' : r.job # j
    <3>1. running[j] = run.no
      BY <2>1 DEF j
    <3> QED
      BY <1>5, <1>11, <2>1, <3>1
  <2>3. \A r \in runs' : r.job \in DOMAIN running' /\ running'[r.job] = r.no
    BY <1>5, <1>8, <2>1, <2>2
  <2>4. \A k \in DOMAIN running' : \E r \in runs' : r.job = k
    BY <1>5, <1>8, <2>1 DEF j
  <2>5. Cardinality(DOMAIN running') <= Concurrency
    <3>1. IsFiniteSet(DOMAIN running) /\ Cardinality(DOMAIN running) \in Nat /\ Concurrency \in Nat
      BY FS_Subset, FS_CardinalityType, SchedulerAssumption DEF IInv, TypeOK
    <3>2. DOMAIN running' \in SUBSET DOMAIN running
      BY <1>8
    <3>3. /\ Cardinality(DOMAIN running') <= Cardinality(DOMAIN running)
          /\ Cardinality(DOMAIN running') \in Nat
      BY <3>1, <3>2, FS_Subset, FS_CardinalityType
    <3> QED
      BY <2>1, <3>1, <3>3
  <2> QED
    BY <2>3, <2>4, <2>5 DEF RunningIsTrue
<1>14. Spacing'
  <2> SUFFICES ASSUME manual' = 0 PROVE AgesTell' /\ NextWaits'
    BY DEF Spacing
  <2>1. AgesTell /\ NextWaits
    BY <1>5 DEF IInv, Spacing
  <2>2. AgesTell'
    BY <1>5, <2>1 DEF AgesTell, IsInterval
  <2>3. ASSUME NEW k \in Jobs \ DOMAIN running', IsInterval(k), Has(store', k),
               store'.record[k].next # None, since[k] < Every
        PROVE  store'.record[k].next >= Every - since[k]
    <3>1. CASE k = j
      <4>1. run.age = since[j]
        BY <2>1, <2>3, <3>1 DEF AgesTell, j
      <4>2. store'.record[k].next = Every - since[k]
        BY <1>4, <1>6, <2>3, <3>1, <4>1
      <4>3. Every - since[k] \in Int
        BY <1>1, <3>1, <4>1
      <4> QED
        BY <4>2, <4>3
    <3>2. CASE k # j
      <4>1. k \notin DOMAIN running /\ store'.record[k] = store.record[k] /\ Has(store, k)
        BY <1>6, <1>8, <2>3, <3>2 DEF Has
      <4> QED
        BY <2>1, <2>3, <4>1 DEF NextWaits
    <3> QED
      BY <3>1, <3>2
  <2> QED
    BY <1>5, <2>2, <2>3 DEF NextWaits, IsInterval
<1>15. StopSeesEveryRun'
  <2> SUFFICES ASSUME stopping' # None, ~started', manual' = 0, NEW r \in runs'
               PROVE  Id(r) \in stopping'
    BY DEF StopSeesEveryRun, Id
  <2>1. stopping # None /\ ~started /\ manual = 0 /\ r \in runs /\ r # run
    BY <1>5
  <2>2. Id(r) \in stopping
    BY <2>1 DEF IInv, StopSeesEveryRun
  <2>3. Id(r) # Id(run)
    BY <1>11, <2>1 DEF Id, j
  <2> QED
    BY <1>5, <2>1, <2>2, <2>3
<1>16. DownIsEmpty'
  BY <1>5, <1>8 DEF IInv, DownIsEmpty
<1> QED
  BY <1>7, <1>9, <1>10, <1>12, <1>13, <1>14, <1>15, <1>16 DEF IInv

\* A step that leaves the store, the runs and the clock alone.
LEMMA StoreAndRunsStay ==
    ASSUME IInv, UNCHANGED <<setup, store, runs, running, since, manual, handlers>>
    PROVE  NumbersLast' /\ RunningIsTrue' /\ Spacing' /\ StoreSound'
BY DEF IInv, NumbersLast, Numbers, RunningIsTrue, Spacing, AgesTell, NextWaits, IsInterval,
       StoreSound, Has

\* stop keeps it: it waits for what is in _running.
LEMMA StopStep == ASSUME IInv, NEW wait \in BOOLEAN, Stop(wait) PROVE IInv'
<1> USE DEF still
<1>1. InRunning \subseteq Jobs \X RunNos
  BY DEF InRunning, IInv, TypeOK
<1>2. TypeOK'
  <2>1. stopping' # None => stopping' \subseteq Jobs \X RunNos
    BY <1>1 DEF Stop
  <2> QED
    BY <2>1 DEF IInv, TypeOK, Stop
<1>3. NeverOversleeps' /\ DownIsEmpty'
  BY DEF NeverOversleeps, DownIsEmpty, IInv, Stop
<1>4. StopSeesEveryRun'
  <2> SUFFICES ASSUME stopping' # None, manual' = 0, NEW r \in runs'
               PROVE  Id(r) \in stopping'
    BY DEF StopSeesEveryRun, Id
  <2>1. r \in runs /\ manual = 0 /\ stopping' = InRunning
    BY DEF Stop
  <2>2. r.job \in DOMAIN running /\ running[r.job] = r.no
    BY <2>1 DEF IInv, RunningIsTrue
  <2> QED
    BY <2>1, <2>2 DEF InRunning, Id
<1>5. NumbersLast' /\ RunningIsTrue' /\ Spacing' /\ StoreSound'
  BY StoreAndRunsStay DEF Stop
<1> QED
  BY <1>2, <1>3, <1>4, <1>5 DEF IInv

\* stop returning keeps it.
LEMMA StopReturnsStep == ASSUME IInv, StopReturns PROVE IInv'
<1> USE DEF still
<1>1. TypeOK'
  BY DEF IInv, TypeOK, StopReturns
<1>2. NeverOversleeps' /\ DownIsEmpty' /\ StopSeesEveryRun'
  BY DEF NeverOversleeps, DownIsEmpty, StopSeesEveryRun, IInv, StopReturns
<1>3. NumbersLast' /\ RunningIsTrue' /\ Spacing' /\ StoreSound'
  BY StoreAndRunsStay DEF StopReturns
<1> QED
  BY <1>1, <1>2, <1>3 DEF IInv

\* With the process, its runs are gone and the times between them start anew.
LEMMA CrashStep == ASSUME IInv, Crash PROVE IInv'
<1>1. /\ UNCHANGED <<setup, slot, manual>>
      /\ ~up' /\ up' \in BOOLEAN /\ handlers' = {} /\ ~started' /\ started' \in BOOLEAN
      /\ timer' = None /\ runs' = {} /\ running' = << >> /\ stopping' = None
      /\ since' = [j \in Jobs |-> Every]
      /\ crashes' = crashes + 1 /\ manual + crashes < MaxUpsets
  BY DEF Crash, LoseMemory
<1>2. MaxUpsets \in Nat /\ Every \in Nat /\ manual \in Nat /\ crashes \in Nat
  BY SchedulerAssumption DEF IInv, TypeOK
<1>3. DOMAIN running' = {} /\ running' \in [DOMAIN running' -> RunNos]
  BY <1>1
<1>4. /\ store' \in Stores
      /\ \A j \in Jobs : Has(store', j) /\ store'.record[j].enabled => store'.record[j].next # None
  <2> DEFINE Sound(s) == \A j \in Jobs : Has(s, j) /\ s.record[j].enabled => s.record[j].next # None
  <2>1. store \in Stores /\ Sound(store) /\ TypeOK
    BY DEF IInv, TypeOK, StoreSound
  <2>2. CASE store' = store
    BY <2>1, <2>2
  <2>3. ASSUME NEW j \in Jobs, store' = WriteRecord(store, j, FreshRecord(j))
        PROVE  store' \in Stores /\ Sound(store')
    <3>1. FreshRecord(j) \in Records /\ FreshRecord(j).next # None
      BY <2>1, FreshRecords
    <3>2. /\ store' \in Stores /\ store'.record[j] = FreshRecord(j)
          /\ \A k \in Jobs \ {j} : store'.record[k] = store.record[k]
      BY <2>1, <2>3, <3>1, Writing
    <3> QED
      BY <2>1, <3>1, <3>2 DEF Has
  <2>4. ASSUME NEW j \in Jobs, store' = EraseRecord(store, j)
        PROVE  store' \in Stores /\ Sound(store')
    <3>1. /\ store' \in Stores /\ ~Has(store', j)
          /\ \A k \in Jobs \ {j} : store'.record[k] = store.record[k]
      BY <2>1, <2>4, Erasing
    <3> QED
      BY <2>1, <3>1 DEF Has
  <2>5. \/ store' = store
        \/ \E j \in Jobs : store' = WriteRecord(store, j, FreshRecord(j))
        \/ \E j \in Jobs : store' = EraseRecord(store, j)
    BY DEF Crash
  <2> QED
    BY <2>1, <2>2, <2>3, <2>4, <2>5
<1>5. TypeOK'
  <2>1. since' \in [Jobs -> 0..Every]
    BY <1>1, <1>2
  <2> QED
    BY <1>1, <1>2, <1>3, <1>4, <2>1 DEF IInv, TypeOK
<1>6. StoreSound'
  BY <1>1, <1>4 DEF StoreSound
<1>7. NeverOversleeps' /\ StopSeesEveryRun' /\ DownIsEmpty'
  BY <1>1, <1>3 DEF NeverOversleeps, StopSeesEveryRun, DownIsEmpty
<1>8. NumbersLast'
  <2>1. \A j \in Jobs : Numbers(j)' = {}
    BY <1>1 DEF Numbers
  <2>2. \A j \in Jobs : Cardinality(Numbers(j)') = 0
    BY <2>1, FS_EmptySet
  <2>3. \A j \in Jobs : (IF j \in DOMAIN running' THEN 1 ELSE 0) = 0
    BY <1>3
  <2>4. manual' \in Nat
    BY <1>1, <1>2
  <2>5. ASSUME NEW j \in Jobs
        PROVE  Cardinality(Numbers(j)') <= manual' + (IF j \in DOMAIN running' THEN 1 ELSE 0)
    BY <2>2, <2>3, <2>4
  <2> QED
    BY <2>5 DEF NumbersLast
<1>9. RunningIsTrue'
  BY <1>1, <1>3, FS_EmptySet, SchedulerAssumption DEF RunningIsTrue
<1>10. Spacing'
  BY <1>1, <1>2 DEF Spacing, AgesTell, NextWaits
<1> QED
  BY <1>5, <1>6, <1>7, <1>8, <1>9, <1>10 DEF IInv

\* A new process on the old store keeps it: all jobs are added again.
LEMMA BootStep == ASSUME IInv, Boot PROVE IInv'
<1> USE DEF still
<1>1. /\ UNCHANGED <<setup, slot, since, crashes, started, timer, runs, running, stopping, manual>>
      /\ ~up /\ up' /\ up' \in BOOLEAN /\ handlers' = Jobs /\ store' = AddedAll(store) /\ store \in Stores
  BY DEF Boot, IInv, TypeOK
<1>2. /\ store' \in Stores
      /\ Listed(store') = Jobs
      /\ \A j \in Jobs : store'.record[j] = IF Has(store, j) THEN store.record[j]
                                            ELSE FreshRecord(j)
  BY <1>1, AddingAll DEF IInv
<1>3. \A j \in Jobs : FreshRecord(j).next # None /\ (IsInterval(j) => FreshRecord(j).next = Every)
  BY FreshRecords DEF IInv
<1>4. TypeOK'
  BY <1>1, <1>2 DEF IInv, TypeOK
<1>5. StoreSound'
  <2>1. handlers' \subseteq Listed(store')
    BY <1>1, <1>2
  <2>2. ASSUME NEW j \in Jobs, store'.record[j].enabled
        PROVE  store'.record[j].next # None
    BY <1>2, <1>3, <2>2 DEF IInv, StoreSound
  <2> QED
    BY <2>1, <2>2 DEF StoreSound
<1>6. NumbersLast' /\ RunningIsTrue' /\ Spacing'
  <2>1. \A j \in Jobs : Has(store', j) =>
              \/ Has(store, j) /\ store'.record[j].next = store.record[j].next
              \/ IsInterval(j) => store'.record[j].next = Every
    BY <1>2, <1>3
  <2> QED
    BY <1>1, <1>2, <2>1, OnlyTheStore
<1>7. NeverOversleeps' /\ StopSeesEveryRun' /\ DownIsEmpty'
  BY <1>1 DEF IInv, DownIsEmpty, NeverOversleeps, StopSeesEveryRun
<1> QED
  BY <1>4, <1>5, <1>6, <1>7 DEF IInv

\* A tick of the clock: times come closer, ages grow, nothing else changes.
LEMMA TickStep == ASSUME IInv, Tick PROVE IInv'
<1> DEFINE aged(r) == [r EXCEPT !.age = Older(r.age)]
<1>1. /\ store' = [store EXCEPT !.record = [j \in Jobs |-> Aged(j)]]
      /\ slot' = [j \in Jobs |->
                    IF setup.kind[j] = "interval" \/ (setup.kind[j] = "cron" /\ slot[j] = 1)
                    THEN Every ELSE Sooner(slot[j], -MaxLate)]
      /\ timer' = IF timer = None \/ timer = 0 THEN timer ELSE timer - 1
      /\ runs' = {aged(r) : r \in runs}
      /\ since' = [j \in Jobs |-> IF since[j] < Every THEN since[j] + 1 ELSE Every]
      /\ UNCHANGED <<setup, up, handlers, started, running, stopping, manual, crashes>>
  BY DEF Tick
<1>2. /\ Every \in Nat \ {0} /\ MaxLate \in Nat /\ PollInterval \in Nat
      /\ None \notin Int /\ NoRecord \notin Records
  BY SchedulerAssumption
<1>3. /\ store' \in Stores /\ store'.index = store.index
      /\ \A j \in Jobs : store'.record[j] = Aged(j)
  <2>1. \A j \in Jobs : Aged(j) \in Records \union {NoRecord}
    BY RecordsAge DEF IInv
  <2> QED
    BY <1>1, <2>1 DEF IInv, TypeOK, Stores
<1>4. ASSUME NEW j \in Jobs
      PROVE  /\ Has(store', j) <=> Has(store, j)
             /\ Has(store, j) =>
                   /\ store'.record[j].enabled = store.record[j].enabled
                   /\ store'.record[j].next = None <=> store.record[j].next = None
                   /\ store.record[j].next # None =>
                         store'.record[j].next \in {store.record[j].next, store.record[j].next - 1}
  BY <1>2, <1>3, RecordsAge DEF IInv, Has
<1>5. Listed(store') = Listed(store)
  <2>1. store.index \subseteq Jobs
    BY DEF IInv, TypeOK, Stores
  <2> QED
    BY <1>3, <1>4, <2>1 DEF Listed
<1>6. slot' \in [Jobs -> Times]
  <2>1. \A j \in Jobs : slot[j] \in Times /\ Every \in Times
    BY <1>2 DEF IInv, TypeOK, Times
  <2>2. ASSUME NEW time \in Times PROVE Sooner(time, -MaxLate) \in Times
    BY <1>2 DEF Sooner, Times
  <2> QED
    BY <1>1, <2>1, <2>2
<1>7. /\ timer' = None <=> timer = None
      /\ timer # None => timer \in 0..PollInterval /\ timer' \in 0..PollInterval
  BY <1>1, <1>2 DEF IInv, TypeOK
<1>8. \A r \in runs : /\ aged(r) \in [job: Jobs, no: RunNos, age: 0..(2 * Every - 1), enabled: BOOLEAN]
                      /\ aged(r).job = r.job /\ aged(r).no = r.no /\ aged(r).age = Older(r.age)
                      /\ r.age \in Nat
  <2> TAKE r \in runs
  <2>1. r \in [job: Jobs, no: RunNos, age: 0..(2 * Every - 1), enabled: BOOLEAN]
    BY DEF IInv, TypeOK
  <2>2. Older(r.age) \in 0..(2 * Every - 1)
    <3>1. r.age \in 0..(2 * Every - 1)
      BY <2>1
    <3> QED
      BY <1>2, <3>1 DEF Older
  <2> DEFINE age == Older(r.age)
  <2> HIDE DEF age
  <2>3. /\ [r EXCEPT !.age = age] \in [job: Jobs, no: RunNos, age: 0..(2 * Every - 1), enabled: BOOLEAN]
        /\ [r EXCEPT !.age = age].job = r.job /\ [r EXCEPT !.age = age].no = r.no
        /\ [r EXCEPT !.age = age].age = age
    BY <2>1, <2>2 DEF age
  <2> QED
    BY <2>1, <2>3 DEF age
<1> HIDE DEF aged
<1>9. \A r, s \in runs' : r.job = s.job /\ r.no = s.no => r = s
  BY <1>1, <1>8 DEF IInv, TypeOK
<1>10. since' \in [Jobs -> 0..Every]
  BY <1>1, <1>2 DEF IInv, TypeOK
<1>11. TypeOK'
  <2>1. runs' \subseteq [job: Jobs, no: RunNos, age: 0..(2 * Every - 1), enabled: BOOLEAN]
    BY <1>1, <1>8
  <2>2. timer' # None => timer' \in 0..PollInterval
    BY <1>7
  <2> QED
    BY <1>1, <1>3, <1>6, <1>9, <1>10, <2>1, <2>2 DEF IInv, TypeOK
<1>12. StoreSound'
  BY <1>1, <1>4, <1>5 DEF IInv, StoreSound
<1>13. NeverOversleeps'
  <2> SUFFICES ASSUME started' PROVE NeverOversleeps'
    BY DEF NeverOversleeps
  <2>1. timer # None /\ \A j \in Runnable(store, handlers) : timer <= Max({0, store.record[j].next})
    BY <1>1 DEF IInv, NeverOversleeps
  <2>2. ASSUME NEW j \in Runnable(store', handlers')
        PROVE  timer' <= Max({0, store'.record[j].next})
    <3>1. j \in Jobs /\ j \in Runnable(store, handlers) /\ Has(store, j) /\ store.record[j].next # None
      <4>1. j \in Listed(store) /\ j \in Jobs /\ Has(store, j)
        BY <1>5, ListedJobs DEF Runnable, IInv, TypeOK
      <4> QED
        BY <1>1, <1>4, <4>1 DEF Runnable
    <3>2. store.record[j].next \in Int
      BY <3>1, ListedJobs, SchedulerAssumption DEF IInv, TypeOK, Records, Times
    <3> DEFINE old == store.record[j].next
               new == store'.record[j].next
    <3>3. timer <= Max({0, old}) /\ new \in {old, old - 1} /\ old \in Int
      BY <1>4, <2>1, <3>1, <3>2
    <3> HIDE DEF old, new
    <3>4. timer <= (IF 0 >= old THEN 0 ELSE old) /\ new \in Int
      BY <3>3, GreaterOf
    <3>5. timer' <= IF 0 >= new THEN 0 ELSE new
      BY <1>1, <1>7, <2>1, <3>3, <3>4
    <3>6. timer' <= Max({0, new})
      BY <3>4, <3>5, GreaterOf
    <3> QED
      BY <3>6 DEF new
  <2> QED
    BY <1>7, <2>1, <2>2 DEF NeverOversleeps
<1>14. StopSeesEveryRun'
  <2>1. \A r \in runs : Id(aged(r)) = Id(r)
    BY <1>8 DEF Id
  <2>2. {Id(r) : r \in runs'} \subseteq {Id(r) : r \in runs}
    BY <1>1, <2>1
  <2> QED
    BY <1>1, <2>2 DEF IInv, StopSeesEveryRun
<1>15. NumbersLast'
  <2>1. ASSUME NEW j \in Jobs PROVE Numbers(j)' = Numbers(j)
    <3>1. \A n : n \in Numbers(j)' <=> \E r \in runs' : r.job = j /\ r.no = n
      BY DEF Numbers
    <3>2. \A n : n \in Numbers(j) <=> \E r \in runs : r.job = j /\ r.no = n
      BY DEF Numbers
    <3>3. \A n : n \in Numbers(j)' <=> n \in Numbers(j)
      BY <1>1, <1>8, <3>1, <3>2
    <3> QED
      BY <3>3 DEF Numbers
  <2> QED
    BY <1>1, <2>1 DEF IInv, NumbersLast
<1>16. RunningIsTrue'
  <2> SUFFICES ASSUME manual' = 0 PROVE RunningIsTrue'
    BY DEF RunningIsTrue
  <2>1. /\ \A r \in runs : r.job \in DOMAIN running /\ running[r.job] = r.no
        /\ \A j \in DOMAIN running : \E r \in runs : r.job = j
        /\ Cardinality(DOMAIN running) <= Concurrency
    BY <1>1 DEF IInv, RunningIsTrue
  <2> QED
    BY <1>1, <1>8, <2>1 DEF RunningIsTrue
<1>17. Spacing'
  <2> SUFFICES ASSUME manual' = 0 PROVE AgesTell' /\ NextWaits'
    BY DEF Spacing
  <2>1. AgesTell /\ NextWaits
    BY <1>1 DEF IInv, Spacing
  <2>2. ASSUME NEW j \in Jobs, since'[j] < Every
        PROVE  since[j] \in Nat /\ since[j] < Every /\ since'[j] = since[j] + 1
    <3>1. since[j] \in 0..Every
      BY DEF IInv, TypeOK
    <3> QED
      BY <1>1, <1>2, <2>2, <3>1
  <2>3. ASSUME NEW r \in runs', IsInterval(r.job), since'[r.job] < Every
        PROVE  r.age = since'[r.job]
    <3>1. PICK s \in runs : r = aged(s)
      BY <1>1
    <3>2. r.job = s.job /\ s.job \in Jobs /\ r.age = Older(s.age)
      BY <1>8, <3>1 DEF IInv, TypeOK
    <3>3. s.age = since[s.job]
      BY <2>1, <2>2, <2>3, <3>2 DEF AgesTell
    <3>4. Older(s.age) = s.age + 1
      BY <1>2, <2>2, <2>3, <3>2, <3>3 DEF Older
    <3> QED
      BY <2>2, <2>3, <3>2, <3>3, <3>4
  <2>4. ASSUME NEW j \in Jobs \ DOMAIN running, IsInterval(j), Has(store', j),
               store'.record[j].next # None, since'[j] < Every
        PROVE  store'.record[j].next >= Every - since'[j]
    <3>1. Has(store, j) /\ store.record[j].next # None
      BY <1>4, <2>4
    <3>2. store.record[j].next \in Int
      BY <3>1, ListedJobs, SchedulerAssumption DEF IInv, TypeOK, Records, Times
    <3>3. store.record[j].next >= Every - since[j]
      BY <2>1, <2>2, <2>4, <3>1 DEF NextWaits
    <3>4. store'.record[j].next \in {store.record[j].next, store.record[j].next - 1}
      BY <1>4, <3>1
    <3>5. since[j] \in Nat /\ since'[j] = since[j] + 1
      BY <2>2, <2>4
    <3> QED
      BY <1>2, <3>2, <3>3, <3>4, <3>5
  <2> QED
    BY <1>1, <2>3, <2>4 DEF AgesTell, NextWaits, IsInterval
<1>18. DownIsEmpty'
  BY <1>1 DEF IInv, DownIsEmpty
<1> QED
  BY <1>11, <1>12, <1>13, <1>14, <1>15, <1>16, <1>17, <1>18 DEF IInv

\* Every step keeps the invariant.
LEMMA NextIInv == IInv /\ [Next]_vars => IInv'
<1> SUFFICES ASSUME IInv, [Next]_vars PROVE IInv'
  OBVIOUS
<1>1. ASSUME NEW j \in Managed, Add(j) \/ Remove(j) \/ Pause(j) \/ Resume(j) PROVE IInv'
  BY <1>1, AddStep, RemoveStep, PauseStep, ResumeStep, SchedulerAssumption
<1>2. ASSUME NEW j \in Jobs, RunNow(j) PROVE IInv'
  BY <1>2, RunNowStep
<1>3. CASE Start \/ TickOnce \/ StopReturns
  BY <1>3, StartStep, TickOnceStep, StopReturnsStep
<1>4. ASSUME NEW run \in runs, Finish(run) PROVE IInv'
  BY <1>4, FinishStep
<1>5. ASSUME NEW wait \in BOOLEAN, Stop(wait) PROVE IInv'
  BY <1>5, StopStep
<1>6. CASE Crash \/ Boot \/ Tick
  BY <1>6, CrashStep, BootStep, TickStep
<1>7. CASE UNCHANGED vars
  <2>1. TypeOK'
    BY <1>7 DEF vars, IInv, TypeOK
  <2>2. NumbersLast' /\ RunningIsTrue' /\ Spacing' /\ StoreSound'
    BY <1>7, StoreAndRunsStay DEF vars
  <2>3. NeverOversleeps' /\ StopSeesEveryRun' /\ DownIsEmpty'
    BY <1>7 DEF vars, IInv, NeverOversleeps, StopSeesEveryRun, DownIsEmpty
  <2> QED
    BY <2>1, <2>2, <2>3 DEF IInv
<1> QED
  BY <1>1, <1>2, <1>3, <1>4, <1>5, <1>6, <1>7 DEF Next

\* The invariant holds in every state.
THEOREM Invariance == Spec => []IInv
<1>1. Init => IInv
  BY Initially
<1>2. IInv /\ [Next]_vars => IInv'
  BY NextIInv
<1> QED
  BY <1>1, <1>2, PTL DEF Spec

\* The types, and the store: after any crash and restart every job with a handler is in
\* the store and its index, and an enabled job has a next run.
THEOREM StoreSurvives == Spec => []StateSound
<1>1. IInv => StateSound
  BY DEF IInv, StateSound
<1> QED
  BY <1>1, Invariance, PTL

\* A started scheduler always has a timer, and it never sleeps past a job's time.
THEOREM TimerNeverLate == Spec => []NeverOversleeps
<1>1. IInv => NeverOversleeps
  BY DEF IInv
<1> QED
  BY <1>1, Invariance, PTL

\* stop() waits for every run that is under way, unless runNow() hid one.
THEOREM StopNeverForgets == Spec => []StopSeesEveryRun
<1>1. IInv => StopSeesEveryRun
  BY DEF IInv
<1> QED
  BY <1>1, Invariance, PTL

\* Without runNow(), the timer runs no job twice at once and no more jobs than
\* concurrency, and _running has an entry for each run.
THEOREM OverlapPolicy == Spec => []TimerPolicy
<1>1. IInv => TimerPolicy
  <2> SUFFICES ASSUME IInv, manual = 0
               PROVE  /\ OneInstance
                      /\ Cardinality(runs) <= Concurrency
                      /\ InRunning = {Id(r) : r \in runs}
    BY DEF TimerPolicy
  <2>1. /\ \A r \in runs : r.job \in DOMAIN running /\ running[r.job] = r.no
        /\ \A j \in DOMAIN running : \E r \in runs : r.job = j
        /\ Cardinality(DOMAIN running) <= Concurrency
    BY DEF IInv, RunningIsTrue
  <2>2. OneInstance
    BY <2>1 DEF IInv, TypeOK, OneInstance
  <2>3. Cardinality(runs) <= Concurrency
    <3> DEFINE job == [r \in runs |-> r.job]
    <3>1. job \in [runs -> DOMAIN running] /\ IsInjective(job)
      BY <2>1, <2>2 DEF OneInstance, IsInjective
    <3>2. job \in Injection(runs, DOMAIN running)
      BY <3>1 DEF Injection
    <3>3. IsFiniteSet(DOMAIN running) /\ Cardinality(DOMAIN running) \in Nat /\ Concurrency \in Nat
      BY FS_Subset, FS_CardinalityType, SchedulerAssumption DEF IInv, TypeOK
    <3> HIDE DEF job
    <3>4. Cardinality(runs) <= Cardinality(DOMAIN running) /\ Cardinality(runs) \in Nat
      BY <3>2, <3>3, FS_Injection, FS_CardinalityType
    <3> QED
      BY <2>1, <3>3, <3>4
  <2>4. InRunning = {Id(r) : r \in runs}
    <3>1. \A r \in runs : Id(r) \in InRunning
      BY <2>1 DEF InRunning, Id
    <3>2. ASSUME NEW j \in DOMAIN running PROVE <<j, running[j]>> \in {Id(r) : r \in runs}
      <4>1. PICK r \in runs : r.job = j
        BY <2>1
      <4>2. Id(r) = <<j, running[j]>>
        BY <2>1, <4>1 DEF Id
      <4> QED
        BY <4>2
    <3> QED
      BY <3>1, <3>2 DEF InRunning
  <2> QED
    BY <2>2, <2>3, <2>4
<1> QED
  BY <1>1, Invariance, PTL

\* Without runNow(), the timer never starts an interval job twice within one period,
\* whatever was late, skipped, missed, removed, added or resumed meanwhile.
THEOREM NoBursts == Spec => SpacedApart
<1> DEFINE Apart == \A j \in Jobs : manual' = 0 /\ up' /\ setup.kind[j] = "interval"
                       /\ since'[j] < since[j] => since[j] = Every
<1>1. IInv /\ [Next]_vars => [Apart]_vars
  <2> SUFFICES ASSUME IInv, Next, NEW j \in Jobs, manual' = 0, up',
                      setup.kind[j] = "interval", since'[j] < since[j]
               PROVE  since[j] = Every
    OBVIOUS
  <2>1. since[j] \in 0..Every /\ Every \in Nat
    BY SchedulerAssumption DEF IInv, TypeOK
  <2>2. since' # since
    BY <2>1
  <2>3. CASE TickOnce
    <3>1. /\ since' = [k \in Jobs |->
                         IF k \in Served /\ setup.kind[k] = "interval" THEN 0 ELSE since[k]]
          /\ manual = 0
      BY <2>3 DEF TickOnce, TickJobs
    <3>2. j \in Served
      BY <2>1, <3>1
    <3>3. j \notin DOMAIN running /\ j \in Due
      BY <3>2 DEF Served, Idle
    <3>4. /\ Has(store, j) /\ store.record[j].next # None
          /\ store.record[j].next \in Int /\ store.record[j].next <= 0
      BY <3>3, DueJobs DEF Due, Runnable
    <3>5. since[j] < Every => store.record[j].next >= Every - since[j]
      BY <3>1, <3>3, <3>4 DEF IInv, Spacing, NextWaits, IsInterval
    <3> QED
      BY <2>1, <3>4, <3>5
  <2>4. CASE Tick
    <3>1. since'[j] = IF since[j] < Every THEN since[j] + 1 ELSE Every
      BY <2>4 DEF Tick
    <3> QED
      BY <2>1, <3>1
  <2>5. CASE Crash
    BY <2>5 DEF Crash, LoseMemory
  <2> QED
    BY <2>2, <2>3, <2>4, <2>5 DEF Next, still, Add, Remove, Pause, Resume, RunNow, Start,
       StopReturns, Finish, Stop, Boot
<1> QED
  BY <1>1, Invariance, PTL DEF Spec, SpacedApart

-----------------------------------------------------------------------------
(* Schedules: counting up, and the least of some numbers. *)

\* What holds of zero and of the next number holds of all.
LEMMA AllNumbers ==
    ASSUME NEW S, 0 \in S, \A n \in Nat : n \in S => n + 1 \in S
    PROVE  Nat \subseteq S
<1> DEFINE R == {pair \in Nat \X Nat : pair[1] < pair[2]}
<1>1. IsWellFoundedOn(R, Nat)
  BY NatLessThanWellFounded, Zenon DEF OpToRel
<1> SUFFICES ASSUME Nat \ S # {} PROVE FALSE
  OBVIOUS
<1>2. Nat \ S \subseteq Nat
  OBVIOUS
<1>3. PICK n \in Nat \ S : \A m \in Nat \ S : ~ (<<m, n>> \in R)
  <2> HIDE DEF R
  <2> QED
    BY <1>1, <1>2, WFMin
<1>4. n - 1 \in Nat /\ n - 1 < n
  BY <1>3
<1>5. n - 1 \in S
  BY <1>3, <1>4
<1> QED
  BY <1>4, <1>5

\* A set of numbers has a least one.
LEMMA LeastNumber ==
    ASSUME NEW S \in SUBSET Nat, S # {}
    PROVE  \E n \in S : \A m \in S : n <= m
<1> DEFINE Lower == {n \in Nat : \A m \in 0..n : m \notin S}
<1>1. SUFFICES ASSUME \A n \in S : \E m \in S : m < n PROVE FALSE
  <2>1. PICK n \in S : \A m \in S : ~(m < n)
    BY <1>1
  <2>2. \A m \in S : n <= m
    BY <2>1
  <2> QED
    BY <2>2
<1>2. 0 \in Lower
  BY <1>1
<1>3. \A n \in Nat : n \in Lower => n + 1 \in Lower
  <2> TAKE n \in Nat
  <2> HAVE n \in Lower
  <2>1. n + 1 \notin S
    <3> SUFFICES ASSUME n + 1 \in S PROVE FALSE
      OBVIOUS
    <3>1. PICK m \in S : m < n + 1
      BY <1>1
    <3>2. m \in 0..n
      BY <3>1
    <3> QED
      BY <3>2
  <2>2. \A m \in 0..n + 1 : m = n + 1 \/ m \in 0..n
    OBVIOUS
  <2> QED
    BY <2>1, <2>2
<1>4. Nat \subseteq Lower
  <2> HIDE DEF Lower
  <2> QED
    BY <1>2, <1>3, AllNumbers
<1>5. \A n \in S : n \in 0..n /\ n \notin S
  <2> TAKE n \in S
  <2>1. n \in Nat /\ n \in Lower /\ n \in 0..n
    BY <1>4
  <2> QED
    BY <2>1
<1> QED
  BY <1>5

-----------------------------------------------------------------------------
(* Schedules: what division tells of minutes, hours and days. *)

\* A number is so many times the divisor, and the remainder.
LEMMA Divided ==
    ASSUME NEW t \in Nat, NEW M \in Nat \ {0}
    PROVE  t \div M \in Nat /\ t % M \in 0..M - 1 /\ t = M * (t \div M) + (t % M)
<1>1. t % M \in 0..M - 1
  OBVIOUS
<1>2. t \div M \in Int /\ t = M * (t \div M) + (t % M)
  OBVIOUS
<1>3. t \div M >= 0
  <2> DEFINE q == t \div M
             r == t % M
  <2>1. q \in Int /\ r \in 0..M - 1 /\ t = M * q + r
    BY <1>1, <1>2
  <2> HIDE DEF q, r
  <2>2. ASSUME q <= -1 PROVE FALSE
    BY <2>1, <2>2
  <2> QED
    BY <2>1, <2>2 DEF q
<1> QED
  BY <1>1, <1>2, <1>3

\* There is no other way to divide it.
LEMMA DividedOnce ==
    ASSUME NEW t \in Nat, NEW M \in Nat \ {0}, NEW q \in Nat, NEW r \in 0..M - 1, t = M * q + r
    PROVE  t \div M = q /\ t % M = r
<1>1. PICK p \in Nat, s \in 0..M - 1 : p = t \div M /\ s = t % M /\ t = M * p + s
  BY Divided
<1>2. M * (p - q) = r - s
  BY <1>1
<1>3. p - q = 0
  <2>1. ASSUME p - q >= 1 PROVE FALSE
    BY <1>1, <1>2, <2>1
  <2>2. ASSUME p - q <= -1 PROVE FALSE
    BY <1>1, <1>2, <2>2
  <2> QED
    BY <1>1, <2>1, <2>2
<1> QED
  BY <1>1, <1>2, <1>3

\* The numbers up to where the quotient is one more.
LEMMA SameBlock ==
    ASSUME NEW t \in Nat, NEW M \in Nat \ {0}
    PROVE  /\ (1 + t \div M) * M \in Nat /\ t < (1 + t \div M) * M
           /\ \A u \in Nat : t <= u /\ u < (1 + t \div M) * M => u \div M = t \div M
<1>1. PICK q \in Nat, r \in 0..M - 1 : q = t \div M /\ r = t % M /\ t = M * q + r
  BY Divided
<1>2. (1 + q) * M = M * q + M /\ M * q \in Nat /\ M * q + M \in Nat
  BY <1>1
<1>3. ASSUME NEW u \in Nat, t <= u, u < (1 + q) * M
      PROVE  u \div M = q
  <2>1. PICK s \in 0..M - 1 : u = M * q + s
    <3>1. u - M * q \in 0..M - 1 /\ u = M * q + (u - M * q)
      BY <1>1, <1>2, <1>3
    <3> QED
      BY <3>1
  <2> QED
    BY <1>1, <2>1, DividedOnce
<1> QED
  BY <1>1, <1>2, <1>3

\* The hour of the day from the hours that have passed.
LEMMA HourIs ==
    ASSUME NEW u \in Nat
    PROVE  HourOf(u) = (u \div MinutesOfHour) % HoursOfDay
<1>0. PICK H \in Nat \ {0}, m \in Nat \ {0}, D \in Nat \ {0} : H = HoursOfDay /\ m = MinutesOfHour /\ D = MinutesOfDay /\ D = H * m
  <2>1. HoursOfDay * MinutesOfHour \in Nat \ {0}
    BY CronAssumption
  <2> QED
    BY <2>1, CronAssumption DEF MinutesOfDay
<1>1. PICK q \in Nat, r \in 0..m - 1 : q = u \div m /\ r = u % m /\ u = m * q + r
  BY Divided
<1>2. PICK e \in Nat, h \in 0..H - 1 : e = q \div H /\ h = q % H /\ q = H * e + h
  BY Divided
<1>3. h * m + r \in 0..D - 1 /\ u = D * e + (h * m + r)
  <2>1. h * m >= 0 /\ h * m <= (H - 1) * m /\ (H - 1) * m = D - m /\ h * m \in Int
    <3>1. (H - 1 - h) * m >= 0
      BY <1>2
    <3> QED
      BY <1>0, <1>2, <3>1
  <2>2. m * q = D * e + h * m
    <3>1. m * q = m * (H * e) + m * h
      BY <1>2
    <3>2. m * (H * e) = D * e
      BY <1>0
    <3> QED
      BY <3>1, <3>2
  <2> QED
    BY <1>0, <1>1, <2>1, <2>2
<1>4. PICK left \in 0..D - 1 : left = h * m + r
  BY <1>3
<1>5. u % D = left
  <2>1. u = D * e + left
    BY <1>3, <1>4
  <2>2. \A q2 \in Nat, r2 \in 0..D - 1 : u = D * q2 + r2 => u % D = r2
    BY <1>0, DividedOnce, SMTT(30)
  <2> QED
    BY <1>2, <1>4, <2>1, <2>2, Zenon
<1>6. left \div m = h
  <2>1. left \in Nat /\ left = m * h + r /\ h \in Nat
    BY <1>2, <1>4
  <2> QED
    BY <1>0, <1>1, <2>1, DividedOnce, ZenonT(40)
<1> QED
  BY <1>0, <1>1, <1>2, <1>5, <1>6 DEF HourOf

\* The same, with names for what it comes to.
LEMMA DividedInto ==
    ASSUME NEW t \in Nat, NEW M \in Nat \ {0}
    PROVE  \E q \in Nat, r \in 0..M - 1 : q = t \div M /\ r = t % M /\ t = M * q + r
<1>1. t \div M \in Nat /\ t % M \in 0..M - 1 /\ t = M * (t \div M) + (t % M)
  BY Divided
<1> QED
  BY <1>1, Zenon

\* A day has some minutes.
LEMMA DayHasMinutes == MinutesOfDay \in Nat \ {0}
<1>1. HoursOfDay \in Nat \ {0} /\ MinutesOfHour \in Nat \ {0}
  BY CronAssumption
<1>2. PICK H \in Nat \ {0}, m \in Nat \ {0} : H = HoursOfDay /\ m = MinutesOfHour
  BY <1>1
<1>3. H * m \in Nat \ {0}
  OBVIOUS
<1> QED
  BY <1>2, <1>3 DEF MinutesOfDay

\* The minutes of the calendar are those of its days.
LEMMA MinutesAre ==
    /\ Len(Calendar) \in Nat /\ DOMAIN Calendar = 1..Len(Calendar)
    /\ Len(Calendar) * MinutesOfDay \in Nat
    /\ Minutes = 0..Len(Calendar) * MinutesOfDay - 1
    /\ \A t \in Minutes : 1 + t \div MinutesOfDay \in 1..Len(Calendar)
    /\ \A d \in 1..Len(Calendar) : Calendar[d] \in [month: Nat, dom: Nat, dow: Nat]
<1>1. Len(Calendar) \in Nat /\ DOMAIN Calendar = 1..Len(Calendar)
      /\ \A d \in 1..Len(Calendar) : Calendar[d] \in [month: Nat, dom: Nat, dow: Nat]
  <2>1. Calendar \in Seq([month: Nat, dom: Nat, dow: Nat])
    BY CronAssumption
  <2>2. PICK S : S = [month: Nat, dom: Nat, dow: Nat]
    OBVIOUS
  <2>3. Calendar \in Seq(S)
    BY <2>1, <2>2, Zenon
  <2>4. Len(Calendar) \in Nat /\ DOMAIN Calendar = 1..Len(Calendar) /\ \A d \in 1..Len(Calendar) : Calendar[d] \in S
    BY <2>3
  <2> QED
    BY <2>2, <2>4, Zenon
<1>2. PICK L \in Nat, D \in Nat \ {0} : L = Len(Calendar) /\ D = MinutesOfDay
  BY <1>1, DayHasMinutes
<1>3. L * D \in Nat
  BY <1>2
<1>4. ASSUME NEW t \in 0..L * D - 1
      PROVE  1 + t \div D \in 1..L
  <2>1. PICK q \in Nat, r \in 0..D - 1 : q = t \div D /\ r = t % D /\ t = D * q + r
    <3>1. t \in Nat
      BY <1>3
    <3> QED
      BY <1>2, <3>1, DividedInto, Zenon
  <2>2. ASSUME q >= L PROVE FALSE
    <3>1. D * (q - L) >= 0
      BY <1>2, <2>1, <2>2
    <3>2. D * q = L * D + D * (q - L)
      BY <1>2, <2>1
    <3> QED
      BY <1>3, <2>1, <3>1, <3>2
  <2> QED
    BY <1>2, <2>1, <2>2
<1> QED
  BY <1>1, <1>2, <1>3, <1>4 DEF Minutes

\* The next month begins later, and until then it is the same.
LEMMA MonthStays ==
    ASSUME NEW t \in Minutes
    PROVE  /\ NextMonth(t) \in Nat /\ t < NextMonth(t)
           /\ \A u \in Minutes : t <= u /\ u < NextMonth(t) => DayOf(u).month = DayOf(t).month
<1>0. PICK L \in Nat, D \in Nat \ {0} : L = Len(Calendar) /\ D = MinutesOfDay
  BY MinutesAre, DayHasMinutes
<1>1. /\ DOMAIN Calendar = 1..L /\ L * D \in Nat /\ Minutes = 0..L * D - 1
      /\ \A u \in Minutes : u \in Nat /\ 1 + u \div D \in 1..L
  <2>1. L * D \in Nat /\ Minutes = 0..L * D - 1
    BY <1>0, MinutesAre, Zenon
  <2>2. \A u \in Minutes : 1 + u \div D \in 1..L
    BY <1>0, MinutesAre, Zenon
  <2>3. DOMAIN Calendar = 1..L
    BY <1>0, MinutesAre, Zenon
  <2>4. \A u \in Minutes : u \in Nat
    BY <2>1
  <2> QED
    BY <2>1, <2>2, <2>3, <2>4
<1>2. PICK q \in Nat, r \in 0..D - 1 : q = t \div D /\ r = t % D /\ t = D * q + r
  BY <1>0, <1>1, DividedInto, ZenonT(40)
<1> DEFINE later == {d \in 1..L : d > 1 + q /\ Calendar[d].dom = 1}
<1>3. NextMonth(t) = IF later = {} THEN L * D ELSE ((CHOOSE d \in later : \A e \in later : d <= e) - 1) * D
  <2> DEFINE those == {d \in DOMAIN Calendar : d > 1 + t \div MinutesOfDay /\ Calendar[d].dom = 1}
  <2>1. NextMonth(t) = IF those = {} THEN Len(Calendar) * MinutesOfDay
                       ELSE ((CHOOSE d \in those : \A e \in those : d <= e) - 1) * MinutesOfDay
    BY Zenon DEF NextMonth
  <2>2. later = those
    BY <1>0, <1>1, <1>2, Zenon
  <2> HIDE DEF later, those
  <2> QED
    BY <1>0, <2>1, <2>2, Zenon
<1>4. PICK last \in 1 + q..L : NextMonth(t) = last * D /\ \A d \in 1..L : q + 1 < d /\ d <= last => Calendar[d].dom # 1
  <2>1. q + 1 \in 1..L
    BY <1>1, <1>2, SMTT(30)
  <2>2. CASE later = {}
    <3>1. L \in 1 + q..L /\ \A d \in 1..L : q + 1 < d /\ d <= L => Calendar[d].dom # 1
      BY <2>1, <2>2, <1>0, <1>2
    <3> QED
      BY <1>3, <2>2, <3>1, Zenon
  <2>3. CASE later # {}
    <3>1. later \in SUBSET Nat
      BY <1>0
    <3>2. \E n \in later : \A m \in later : n <= m
      <4> HIDE DEF later
      <4> QED
        BY <2>3, <3>1, LeastNumber
    <3>3. PICK n \in later : n = (CHOOSE d \in later : \A e \in later : d <= e) /\ \A m \in later : n <= m
      <4> HIDE DEF later
      <4> QED
        BY <3>2
    <3>4. n - 1 \in 1 + q..L /\ n \in Nat
      <4>1. n \in 1..L /\ n > 1 + q
        BY <3>3
      <4> QED
        BY <1>0, <1>2, <4>1
    <3>5. \A d \in 1..L : q + 1 < d /\ d <= n - 1 => Calendar[d].dom # 1
      <4> SUFFICES ASSUME NEW d \in 1..L, q + 1 < d, d <= n - 1, Calendar[d].dom = 1 PROVE FALSE
        OBVIOUS
      <4>1. d \in later
        BY <1>2
      <4>2. n <= d
        BY <3>3, <4>1, Zenon
      <4> QED
        BY <3>4, <4>2, <1>0
    <3>6. NextMonth(t) = (n - 1) * D
      BY <1>3, <2>3, <3>3, Zenon
    <3> QED
      BY <3>4, <3>5, <3>6
  <2> QED
    BY <2>2, <2>3
<1> HIDE DEF later
<1>5. last * D \in Nat /\ t < last * D
  <2>1. (last - (1 + q)) * D >= 0 /\ last \in Nat
    BY <1>0, <1>2, <1>4
  <2>2. last * D = (last - (1 + q)) * D + D + D * q
    BY <1>0, <1>2, <2>1
  <2> QED
    BY <1>0, <1>2, <2>1, <2>2
<1>6. ASSUME NEW u \in Minutes, t <= u, u < last * D
      PROVE  u \div D \in q..last - 1
  <2>1. PICK p \in Nat, s \in 0..D - 1 : p = u \div D /\ s = u % D /\ u = D * p + s
    BY <1>0, <1>1, DividedInto, ZenonT(40)
  <2>2. ASSUME p < q PROVE FALSE
    <3>1. (q - 1 - p) * D >= 0
      BY <1>0, <1>2, <2>1, <2>2, SMTT(30)
    <3>2. D * q = (q - 1 - p) * D + D + D * p
      <4>1. q \in Nat /\ p \in Nat
        BY <1>2, <2>1
      <4> QED
        BY <1>0, <4>1
    <3>3. PICK x \in Nat, y \in Int : x = (q - 1 - p) * D /\ y = D * p
      <4>1. (q - 1 - p) * D \in Nat /\ D * p \in Int
        BY <1>0, <1>2, <2>1, <3>1
      <4> QED
        BY <4>1
    <3>4. t = x + D + y + r /\ u = y + s
      BY <1>2, <2>1, <3>2, <3>3
    <3>5. D \in Nat /\ r \in Nat /\ s < D
      BY <1>0, <1>2, <2>1
    <3> QED
      BY <1>6, <3>3, <3>4, <3>5
  <2>3. ASSUME p >= last PROVE FALSE
    <3>1. (p - last) * D >= 0 /\ last \in Nat
      BY <1>0, <1>2, <1>4, <2>1, <2>3
    <3>2. D * p = (p - last) * D + last * D
      BY <1>0, <2>1, <3>1
    <3> QED
      BY <1>0, <1>5, <1>6, <2>1, <3>1, <3>2
  <2> QED
    BY <1>2, <1>4, <2>1, <2>2, <2>3
<1> DEFINE S == {n \in Nat : q + n <= last - 1 => Calendar[1 + (q + n)].month = Calendar[1 + q].month}
<1>7. Nat \subseteq S
  <2>1. 0 \in S
    BY <1>2
  <2>2. \A n \in Nat : n \in S => n + 1 \in S
    <3> TAKE n \in Nat
    <3> HAVE n \in S
    <3> SUFFICES ASSUME q + (n + 1) <= last - 1
                 PROVE  Calendar[1 + (q + (n + 1))].month = Calendar[1 + q].month
      OBVIOUS
    <3>1. PICK d \in 1..L : d = 1 + (q + (n + 1)) /\ d > 1 /\ q + 1 < d /\ d <= last /\ d - 1 = 1 + (q + n) /\ q + n <= last - 1
      <4> DEFINE d == 1 + (q + (n + 1))
      <4>1. last \in 1 + q..L /\ q \in Nat /\ L \in Nat
        BY <1>0, <1>2
      <4>2. d \in 1..L /\ d > 1 /\ q + 1 < d /\ d <= last /\ d - 1 = 1 + (q + n) /\ q + n <= last - 1
        BY <4>1
      <4> QED
        BY <4>2
    <3>2. Calendar[d].dom # 1
      BY <1>4, <3>1
    <3>3. Calendar[d].month = Calendar[d - 1].month
      BY <1>1, <3>1, <3>2, CronAssumption
    <3>4. Calendar[1 + (q + n)].month = Calendar[1 + q].month
      BY <3>1
    <3> QED
      BY <3>1, <3>3, <3>4
  <2> HIDE DEF S
  <2> QED
    BY <2>1, <2>2, AllNumbers
<1>8. ASSUME NEW u \in Minutes, t <= u, u < last * D
      PROVE  DayOf(u).month = DayOf(t).month
  <2>1. PICK n \in Nat : u \div D = q + n /\ q + n <= last - 1
    <3>1. PICK p \in q..last - 1 : p = u \div D
      BY <1>6, <1>8
    <3>2. p - q \in Nat /\ p = q + (p - q) /\ p <= last - 1
      BY <1>2, <1>4, <3>1
    <3> QED
      BY <3>1, <3>2
  <2>2. Calendar[1 + (q + n)].month = Calendar[1 + q].month
    BY <1>7, <2>1
  <2> QED
    BY <1>0, <1>2, <2>1, <2>2 DEF DayOf
<1> QED
  BY <1>4, <1>5, <1>8

-----------------------------------------------------------------------------
(* Schedules: the search for the next time. *)

\* A day that dayMatches allows is one that either or both of the day fields allow.
LEMMA AllowedIs ==
    ASSUME NEW c \in Crons, NEW t \in Minutes
    PROVE  Allowed(c, t) <=> /\ DayOf(t).month \in c.month /\ DayMatches(c, DayOf(t))
                             /\ HourOf(t) \in c.hour /\ t % MinutesOfHour \in c.minute
<1>1. /\ c.domAny \in BOOLEAN /\ c.dowAny \in BOOLEAN
      /\ \A d \in DOMAIN Calendar :
            /\ c.domAny => Calendar[d].dom \in c.dom
            /\ c.dowAny => Calendar[d].dow \in c.dow
  <2>1. \A b \in Crons :
           /\ b.domAny \in BOOLEAN /\ b.dowAny \in BOOLEAN
           /\ \A d \in DOMAIN Calendar :
                 /\ b.domAny => Calendar[d].dom \in b.dom
                 /\ b.dowAny => Calendar[d].dow \in b.dow
    BY CronAssumption, Zenon
  <2> QED
    BY <2>1
<1>2. 1 + t \div MinutesOfDay \in DOMAIN Calendar
  BY MinutesAre
<1>3. (c.domAny => DayOf(t).dom \in c.dom) /\ (c.dowAny => DayOf(t).dow \in c.dow)
  BY <1>1, <1>2, Zenon DEF DayOf
<1>4. PICK day : day = DayOf(t)
  OBVIOUS
<1>5. DayMatches(c, day) <=> \/ ~c.domAny /\ ~c.dowAny /\ (day.dom \in c.dom \/ day.dow \in c.dow)
                             \/ day.dom \in c.dom /\ day.dow \in c.dow
  <2>1. CASE ~c.domAny /\ ~c.dowAny
    BY <2>1 DEF DayMatches
  <2>2. CASE ~c.domAny /\ c.dowAny
    BY <1>3, <1>4, <2>2 DEF DayMatches
  <2>3. CASE c.domAny /\ ~c.dowAny
    BY <1>3, <1>4, <2>3 DEF DayMatches
  <2>4. CASE c.domAny /\ c.dowAny
    BY <1>3, <1>4, <2>4 DEF DayMatches
  <2> QED
    BY <1>1, <2>1, <2>2, <2>3, <2>4
<1> QED
  BY <1>4, <1>5, Zenon DEF Allowed

\* The first of the minutes up to the limit that are allowed.
Open(c, t, limit) == {u \in t..limit : Allowed(c, u)}
First(c, t, limit) ==
    IF Open(c, t, limit) = {} THEN -1
    ELSE CHOOSE u \in Open(c, t, limit) : \A s \in Open(c, t, limit) : u <= s

\* Minutes that are not allowed may be left out.
LEMMA FirstLater ==
    ASSUME NEW c, NEW t \in Nat, NEW n \in Nat, NEW limit \in Nat, t <= n,
           \A u \in t..limit : u < n => ~Allowed(c, u)
    PROVE  First(c, t, limit) = First(c, n, limit)
<1>1. Open(c, t, limit) = Open(c, n, limit)
  <2>1. \A u \in Open(c, t, limit) : u \in Open(c, n, limit)
    BY DEF Open
  <2>2. \A u \in Open(c, n, limit) : u \in Open(c, t, limit)
    BY DEF Open
  <2> QED
    BY <2>1, <2>2
<1> DEFINE FirstOf(open) == IF open = {} THEN -1 ELSE CHOOSE u \in open : \A s \in open : u <= s
<1>2. First(c, t, limit) = FirstOf(Open(c, t, limit)) /\ First(c, n, limit) = FirstOf(Open(c, n, limit))
  BY Zenon DEF First
<1> HIDE DEF FirstOf
<1> QED
  BY <1>1, <1>2

\* One that is allowed is the first itself; behind the limit there is none.
LEMMA FirstIs ==
    ASSUME NEW c, NEW t \in Nat, NEW limit \in Nat
    PROVE  /\ t > limit => First(c, t, limit) = -1
           /\ t <= limit /\ Allowed(c, t) => First(c, t, limit) = t
<1>1. ASSUME t > limit PROVE First(c, t, limit) = -1
  <2>1. Open(c, t, limit) = {}
    BY <1>1 DEF Open
  <2> QED
    BY <2>1, Zenon DEF First
<1>2. ASSUME t <= limit, Allowed(c, t) PROVE First(c, t, limit) = t
  <2> DEFINE open == Open(c, t, limit)
  <2>1. t \in open /\ \A s \in open : s \in Nat /\ t <= s
    BY <1>2 DEF Open
  <2> HIDE DEF open
  <2>2. \E u \in open : \A s \in open : u <= s
    BY <2>1
  <2>3. PICK w \in open : w = (CHOOSE u \in open : \A s \in open : u <= s) /\ \A s \in open : w <= s
    BY <2>2
  <2>4. w = t
    BY <2>1, <2>3
  <2>5. First(c, t, limit) = w
    BY <2>1, <2>3, Zenon DEF First, open
  <2> QED
    BY <2>4, <2>5
<1> QED
  BY <1>1, <1>2

\* One round of the search, where the later ones have found what they should.
Round(f, c, t, limit) ==
    IF t > limit \/ t \notin Minutes THEN -1
    ELSE IF DayOf(t).month \notin c.month THEN f[NextMonth(t)]
    ELSE IF ~DayMatches(c, DayOf(t)) THEN f[NextDay(t)]
    ELSE IF HourOf(t) \notin c.hour THEN f[NextHour(t)]
    ELSE IF t % MinutesOfHour \notin c.minute THEN f[t + 1]
    ELSE t

\* What is leapt over is not allowed.
LEMMA LeapsAreSafe ==
    ASSUME NEW c \in Crons, NEW limit \in Minutes, NEW t \in Minutes, t <= limit,
           NEW f, \A n \in Nat : n > t => f[n] = First(c, n, limit)
    PROVE  Round(f, c, t, limit) = First(c, t, limit)
<1>1. Minutes \subseteq Nat /\ \A u \in Nat : u <= limit => u \in Minutes
  <2>1. PICK E \in Nat : E = Len(Calendar) * MinutesOfDay
    BY MinutesAre
  <2>2. Minutes = 0..E - 1
    BY <2>1, MinutesAre
  <2> QED
    BY <2>1, <2>2
<1>2. \A u \in t..limit : u \in Minutes /\ u \in Nat
  BY <1>1
<1>3. ASSUME NEW n \in Nat, n > t, \A u \in t..limit : u < n => ~Allowed(c, u)
      PROVE  f[n] = First(c, t, limit)
  <2>1. t \in Nat /\ limit \in Nat /\ t <= n
    BY <1>1, <1>3
  <2>2. First(c, t, limit) = First(c, n, limit)
    BY <1>3, <2>1, FirstLater
  <2> QED
    BY <1>3, <2>2, Zenon
<1>4. t <= limit /\ t \in Minutes /\ ~(t > limit)
  BY <1>1
<1>5. CASE DayOf(t).month \notin c.month
  <2>1. PICK n \in Nat : n = NextMonth(t) /\ t < n
                         /\ \A u \in Minutes : t <= u /\ u < n => DayOf(u).month = DayOf(t).month
    BY MonthStays
  <2>2. ASSUME NEW u \in t..limit, u < n PROVE ~Allowed(c, u)
    <3>1. DayOf(u).month = DayOf(t).month
      BY <1>2, <2>1, <2>2
    <3> QED
      BY <1>2, <1>5, <3>1, AllowedIs, Zenon
  <2>3. n > t
    BY <2>1, <1>1
  <2>4. f[n] = First(c, t, limit)
    BY <1>3, <2>2, <2>3
  <2> QED
    BY <1>4, <1>5, <2>1, <2>4, Zenon DEF Round
<1>6. CASE DayOf(t).month \in c.month /\ ~DayMatches(c, DayOf(t))
  <2>0. MinutesOfDay \in Nat \ {0} /\ t \in Nat
    BY <1>1, DayHasMinutes
  <2>1. PICK n \in Nat : n = NextDay(t) /\ t < n
                         /\ \A u \in Nat : t <= u /\ u < n => u \div MinutesOfDay = t \div MinutesOfDay
    BY <2>0, SameBlock, Zenon DEF NextDay
  <2>2. ASSUME NEW u \in t..limit, u < n PROVE ~Allowed(c, u)
    <3>1. DayOf(u) = DayOf(t)
      <4>1. u \in Nat /\ t <= u
        BY <1>1, <2>2
      <4>2. u \div MinutesOfDay = t \div MinutesOfDay
        BY <2>1, <2>2, <4>1
      <4> QED
        BY <4>2, Zenon DEF DayOf
    <3> QED
      BY <1>2, <1>6, <3>1, AllowedIs, Zenon
  <2>3. n > t
    BY <2>0, <2>1
  <2>4. f[n] = First(c, t, limit)
    BY <1>3, <2>2, <2>3
  <2> QED
    BY <1>4, <1>6, <2>1, <2>4, Zenon DEF Round
<1>7. CASE DayOf(t).month \in c.month /\ DayMatches(c, DayOf(t)) /\ HourOf(t) \notin c.hour
  <2>0. MinutesOfHour \in Nat \ {0} /\ t \in Nat
    BY <1>1, CronAssumption
  <2>1. PICK n \in Nat : n = NextHour(t) /\ t < n
                         /\ \A u \in Nat : t <= u /\ u < n => u \div MinutesOfHour = t \div MinutesOfHour
    BY <2>0, SameBlock, Zenon DEF NextHour
  <2>2. ASSUME NEW u \in t..limit, u < n PROVE ~Allowed(c, u)
    <3>1. HourOf(u) = HourOf(t)
      <4>1. u \in Nat /\ t <= u /\ t \in Nat
        BY <1>1, <2>2
      <4>2. u \div MinutesOfHour = t \div MinutesOfHour
        BY <2>1, <2>2, <4>1
      <4> QED
        BY <4>1, <4>2, HourIs, Zenon
    <3> QED
      BY <1>2, <1>7, <3>1, AllowedIs, Zenon
  <2>3. n > t
    BY <2>0, <2>1
  <2>4. f[n] = First(c, t, limit)
    BY <1>3, <2>2, <2>3
  <2> QED
    BY <1>4, <1>7, <2>1, <2>4, Zenon DEF Round
<1>8. CASE /\ DayOf(t).month \in c.month /\ DayMatches(c, DayOf(t)) /\ HourOf(t) \in c.hour
           /\ t % MinutesOfHour \notin c.minute
  <2>1. PICK n \in Nat : n = t + 1 /\ n > t
    BY <1>1
  <2>2. ASSUME NEW u \in t..limit, u < n PROVE ~Allowed(c, u)
    <3>1. u = t
      BY <1>1, <2>1, <2>2
    <3> QED
      BY <1>2, <1>8, <3>1, AllowedIs, Zenon
  <2>4. f[n] = First(c, t, limit)
    BY <1>3, <2>1, <2>2
  <2> QED
    BY <1>4, <1>8, <2>1, <2>4, Zenon DEF Round
<1>9. CASE /\ DayOf(t).month \in c.month /\ DayMatches(c, DayOf(t)) /\ HourOf(t) \in c.hour
           /\ t % MinutesOfHour \in c.minute
  <2>1. Allowed(c, t)
    BY <1>9, AllowedIs, Zenon
  <2>2. First(c, t, limit) = t
    BY <1>1, <1>4, <2>1, FirstIs
  <2> QED
    BY <1>4, <1>9, <2>2, Zenon DEF Round
<1> QED
  BY <1>5, <1>6, <1>7, <1>8, <1>9

\* The search finds the first minute that is allowed.
LEMMA SearchFinds ==
    ASSUME NEW c \in Crons, NEW limit \in Minutes, NEW t \in Nat
    PROVE  Search(c, t, limit) = First(c, t, limit)
<1> DEFINE found[u \in Nat] ==
               IF u > limit \/ u \notin Minutes THEN -1
               ELSE IF DayOf(u).month \notin c.month THEN found[NextMonth(u)]
               ELSE IF ~DayMatches(c, DayOf(u)) THEN found[NextDay(u)]
               ELSE IF HourOf(u) \notin c.hour THEN found[NextHour(u)]
               ELSE IF u % MinutesOfHour \notin c.minute THEN found[u + 1]
               ELSE u
           Body(f) == [u \in Nat |->
               IF u > limit \/ u \notin Minutes THEN -1
               ELSE IF DayOf(u).month \notin c.month THEN f[NextMonth(u)]
               ELSE IF ~DayMatches(c, DayOf(u)) THEN f[NextDay(u)]
               ELSE IF HourOf(u) \notin c.hour THEN f[NextHour(u)]
               ELSE IF u % MinutesOfHour \notin c.minute THEN f[u + 1]
               ELSE u]
           g == [u \in Nat |-> First(c, u, limit)]
<1>1. limit \in Nat /\ \A u \in Nat : u <= limit => u \in Minutes
  <2>1. PICK E \in Nat : E = Len(Calendar) * MinutesOfDay
    BY MinutesAre
  <2>2. Minutes = 0..E - 1
    BY <2>1, MinutesAre
  <2> QED
    BY <2>1, <2>2
<1>2. ASSUME NEW u \in Nat, NEW f, \A n \in Nat : n > u => f[n] = First(c, n, limit)
      PROVE  Round(f, c, u, limit) = First(c, u, limit)
  <2>1. CASE u > limit
    <3>1. First(c, u, limit) = -1
      BY <1>1, <2>1, FirstIs
    <3> QED
      BY <2>1, <3>1, Zenon DEF Round
  <2>2. CASE ~(u > limit)
    <3>1. u <= limit /\ u \in Minutes
      BY <1>1, <2>2
    <3> QED
      BY <1>2, <3>1, LeapsAreSafe
  <2> QED
    BY <2>1, <2>2
<1>3. g = Body(g)
  <2>1. ASSUME NEW u \in Nat PROVE g[u] = Round(g, c, u, limit)
    <3>1. \A n \in Nat : n > u => g[n] = First(c, n, limit)
      BY Zenon
    <3>2. g[u] = First(c, u, limit)
      BY Zenon
    <3> HIDE DEF g
    <3>3. Round(g, c, u, limit) = First(c, u, limit)
      BY <1>2, <3>1
    <3> QED
      BY <3>2, <3>3
  <2>2. g = [u \in Nat |-> g[u]]
    BY Zenon
  <2>3. Body(g) = [u \in Nat |-> Round(g, c, u, limit)]
    <3> HIDE DEF g
    <3> QED
      BY Zenon DEF Round
  <2> HIDE DEF g, Body
  <2>4. [u \in Nat |-> g[u]] = [u \in Nat |-> Round(g, c, u, limit)]
    BY <2>1
  <2> QED
    BY <2>2, <2>3, <2>4, Zenon
<1>4. found = Body(found)
  <2> HIDE DEF g
  <2>1. \E f : f = Body(f)
    BY <1>3
  <2> QED
    BY <2>1
<1>5. Search(c, t, limit) = found[t]
  BY DEF Search
<1>6. \A u \in Nat : found[u] = Round(found, c, u, limit)
  <2> HIDE DEF found
  <2>1. Body(found) = [u \in Nat |-> Round(found, c, u, limit)]
    BY Zenon DEF Round
  <2> HIDE DEF Body
  <2>2. \A u \in Nat : Body(found)[u] = Round(found, c, u, limit)
    BY <2>1, Zenon
  <2> QED
    BY <1>4, <2>2, Zenon
<1> HIDE DEF found, Body, g
<1> DEFINE S == {n \in Nat : \A u \in Nat : limit + 1 - u <= n => found[u] = First(c, u, limit)}
<1>7. 0 \in S
  <2>1. ASSUME NEW u \in Nat, limit + 1 - u <= 0 PROVE found[u] = First(c, u, limit)
    <3>1. u > limit
      BY <1>1, <2>1
    <3>2. Round(found, c, u, limit) = -1
      BY <3>1, Zenon DEF Round
    <3>3. First(c, u, limit) = -1
      BY <1>1, <3>1, FirstIs
    <3> QED
      BY <1>6, <3>2, <3>3
  <2> QED
    BY <2>1
<1>8. \A n \in Nat : n \in S => n + 1 \in S
  <2> TAKE n \in Nat
  <2> HAVE n \in S
  <2>1. ASSUME NEW u \in Nat, limit + 1 - u <= n + 1 PROVE found[u] = First(c, u, limit)
    <3>1. \A m \in Nat : m > u => found[m] = First(c, m, limit)
      BY <1>1, <2>1
    <3>2. Round(found, c, u, limit) = First(c, u, limit)
      BY <1>2, <3>1
    <3> QED
      BY <1>6, <3>2
  <2> QED
    BY <2>1
<1>9. Nat \subseteq S
  <2> HIDE DEF S
  <2> QED
    BY <1>7, <1>8, AllNumbers
<1>10. limit + 1 \in S
  <2> HIDE DEF S
  <2> QED
    BY <1>1, <1>9
<1>11. \A u \in Nat : limit + 1 - u <= limit + 1 => found[u] = First(c, u, limit)
  BY <1>10, Zenon
<1>12. found[t] = First(c, t, limit)
  BY <1>1, <1>11
<1> QED
  BY <1>5, <1>12

-----------------------------------------------------------------------------
(* Schedules: fields, intervals, and what they come to. *)

\* The numbers of an expression's part are as many as its kind, step and field tell.
LEMMA SpecIs ==
    ASSUME NEW spec \in Specs
    PROVE  /\ spec.min \in Nat /\ spec.max \in Nat /\ spec.weekday \in BOOLEAN
           /\ spec.min <= spec.max /\ (spec.weekday => spec.max < 7)
<1>1. \A s \in Specs : /\ s \in [min: Nat, max: Nat, weekday: BOOLEAN]
                       /\ s.min <= s.max /\ (s.weekday => s.max < 7)
  BY CronAssumption
<1>2. spec \in [min: Nat, max: Nat, weekday: BOOLEAN] /\ spec.min <= spec.max /\ (spec.weekday => spec.max < 7)
  BY <1>1
<1> QED
  BY <1>2

\* The numbers from the first on, a step apart, where there is no step and where there is one.
LEMMA StepsAre ==
    ASSUME NEW step \in Nat, NEW d \in Nat
    PROVE  /\ d % 1 = 0 /\ (step # 0 => 0 % step = 0)
<1>1. d % 1 = 0
  <2>1. d = 1 * d + 0 /\ 0 \in 0..1 - 1 /\ 1 \in Nat \ {0}
    OBVIOUS
  <2>2. \A q \in Nat : d = 1 * q + 0 => d % 1 = 0
    BY <2>1, DividedOnce
  <2> QED
    BY <2>1, <2>2
<1>2. ASSUME step # 0 PROVE 0 % step = 0
  <2>1. step * 0 + 0 = 0 /\ 0 \in 0..step - 1 /\ step \in Nat \ {0}
    BY <1>2
  <2>2. \A q \in Nat : 0 = step * q + 0 => 0 % step = 0
    BY <2>1, DividedOnce
  <2> QED
    BY <2>1, <2>2
<1> QED
  BY <1>1, <1>2

PartType == [kind: {"star", "value", "range"}, left: Nat, right: Nat, step: Nat]

\* A part that is not refused gives what it means, in bounds, save where Sunday is written 7.
LEMMA PartIs ==
    ASSUME NEW spec \in Specs, NEW piece \in PartType, PartValues(piece, spec) # Invalid
    PROVE  /\ PartValues(piece, spec) # {} /\ PartValues(piece, spec) \subseteq spec.min..spec.max
           /\ ~(spec.weekday /\ (SundayLast(piece) \/ SundayFirst(piece)))
                => PartValues(piece, spec) = Meant(piece, spec)
<1> DEFINE start == IF piece.kind = "star" THEN spec.min ELSE Resolve(piece.left, spec)
           end == CASE piece.kind = "star" -> spec.max
                    [] piece.kind = "range" -> Resolve(piece.right, spec)
                    [] OTHER -> IF piece.step = 0 THEN start ELSE spec.max
           by == IF piece.step = 0 THEN 1 ELSE piece.step
<1>0. /\ piece.kind \in {"star", "value", "range"} /\ piece.left \in Nat /\ piece.right \in Nat
      /\ piece.step \in Nat
  BY DEF PartType
<1>1. PICK first \in Nat : first = start
  BY <1>0, SpecIs DEF Resolve
<1>2. PICK last \in Nat : last = end
  <2>1. piece.kind = "star" \/ piece.kind = "range" \/ piece.kind = "value"
    BY <1>0
  <2>2. Resolve(piece.right, spec) \in Nat /\ spec.max \in Nat /\ start \in Nat
    BY <1>0, <1>1, SpecIs DEF Resolve
  <2> HIDE DEF start
  <2>3. end \in Nat
    BY <2>1, <2>2
  <2> QED
    BY <2>3
<1>3. PICK step \in Nat \ {0} : step = by
  BY <1>0
<1>4. PartValues(piece, spec) = IF first > last \/ first < spec.min \/ last > spec.max THEN Invalid
                               ELSE {v \in first..last : (v - first) % step = 0}
  BY <1>1, <1>2, <1>3, Zenon DEF PartValues
<1>5. /\ first <= last /\ spec.min <= first /\ last <= spec.max
      /\ PartValues(piece, spec) = {v \in first..last : (v - first) % step = 0}
  BY <1>4, SpecIs
<1>6. first \in PartValues(piece, spec)
  <2>1. 0 % step = 0 /\ first - first = 0
    BY <1>3, StepsAre
  <2> QED
    BY <1>5, <2>1
<1>7. PartValues(piece, spec) \subseteq spec.min..spec.max
  <2>1. PartValues(piece, spec) \subseteq first..last
    BY <1>5
  <2> QED
    BY <2>1, <1>5, SpecIs
<1>8. ASSUME ~(spec.weekday /\ (SundayLast(piece) \/ SundayFirst(piece)))
      PROVE  PartValues(piece, spec) = Meant(piece, spec)
  <2> DEFINE from == IF piece.kind = "star" THEN spec.min ELSE piece.left
             upto == IF piece.kind = "range" THEN piece.right
                     ELSE IF piece.kind = "star" \/ piece.step > 0 THEN spec.max ELSE from
             picked == {v \in from..upto : piece.step = 0 \/ (v - from) % piece.step = 0}
  <2>1. Meant(piece, spec) = {Resolve(v, spec) : v \in picked}
    BY Zenon DEF Meant
  <2>2. CASE piece.kind = "value" /\ piece.step = 0 /\ spec.weekday /\ piece.left = 7
    <3>1. from = 7 /\ upto = 7 /\ first = 0 /\ last = 0 /\ step = 1
      BY <1>0, <1>1, <1>2, <1>3, <2>2 DEF Resolve
    <3> HIDE DEF from, upto
    <3>2. picked = {7}
      BY <3>1, <2>2
    <3>3. Resolve(7, spec) = 0
      BY <2>2 DEF Resolve
    <3>4. Meant(piece, spec) = {0}
      <4> HIDE DEF picked
      <4> QED
        BY <2>1, <3>2, <3>3
    <3>5. PartValues(piece, spec) = {0}
      BY <1>5, <1>6, <3>1
    <3> QED
      BY <3>4, <3>5
  <2>3. CASE ~(piece.kind = "value" /\ piece.step = 0 /\ spec.weekday /\ piece.left = 7)
    <3>1. first = from /\ last = upto
      <4>1. piece.kind # "star" => Resolve(piece.left, spec) = piece.left
        BY <1>0, <1>8, <2>3 DEF Resolve, SundayFirst
      <4>2. piece.kind = "range" => Resolve(piece.right, spec) = piece.right
        BY <1>0, <1>8, <2>3 DEF Resolve, SundayLast
      <4>3. first = from
        BY <1>1, <4>1
      <4>4. CASE piece.kind = "star"
        <5>1. end = spec.max
          BY <4>4
        <5>2. upto = spec.max
          BY <4>4
        <5> QED
          BY <1>2, <4>3, <5>1, <5>2, Zenon
      <4>5. CASE piece.kind = "range"
        <5>1. end = Resolve(piece.right, spec)
          BY <4>5
        <5>2. upto = piece.right
          BY <4>5
        <5> QED
          BY <1>2, <4>2, <4>3, <4>5, <5>1, <5>2, Zenon
      <4>6. CASE piece.kind = "value"
        <5>1. end = IF piece.step = 0 THEN start ELSE spec.max
          BY <4>6
        <5>2. upto = IF piece.step > 0 THEN spec.max ELSE from
          BY <4>6
        <5> QED
          BY <1>0, <1>1, <1>2, <4>3, <5>1, <5>2
      <4> QED
        BY <1>0, <4>3, <4>4, <4>5, <4>6
    <3> HIDE DEF from, upto
    <3>2. picked = PartValues(piece, spec)
      <4>1. ASSUME NEW v \in first..last
            PROVE  (piece.step = 0 \/ (v - first) % piece.step = 0) <=> (v - first) % step = 0
        <5>1. v - first \in Nat
          BY <4>1
        <5>2. (v - first) % 1 = 0
          BY <1>0, <5>1, StepsAre
        <5>3. CASE piece.step = 0
          BY <1>3, <5>2, <5>3
        <5>4. CASE piece.step # 0
          BY <1>3, <5>4
        <5> QED
          BY <5>3, <5>4
      <4> QED
        BY <1>5, <3>1, <4>1
    <3>3. ASSUME NEW v \in PartValues(piece, spec) PROVE Resolve(v, spec) = v
      <4>1. v \in Nat /\ v <= spec.max
        BY <1>5, <1>7, <3>3, SpecIs
      <4> QED
        BY <4>1, SpecIs DEF Resolve
    <3> HIDE DEF picked
    <3>4. {Resolve(v, spec) : v \in picked} = PartValues(piece, spec)
      BY <3>2, <3>3
    <3> QED
      BY <2>1, <3>4
  <2> QED
    BY <2>2, <2>3
<1> QED
  BY <1>6, <1>7, <1>8

\* What parseField promises of a field.
FieldRight(parts, spec) ==
    LET values == ParseField(parts, spec)
        sundays == \E k \in DOMAIN parts : SundayLast(parts[k]) \/ SundayFirst(parts[k])
    IN  values # Invalid =>
           /\ values # {} /\ values \subseteq spec.min..spec.max
           /\ ~(spec.weekday /\ sundays) => values = UNION {Meant(parts[k], spec) : k \in DOMAIN parts}

\* A field gives the values its parts mean, or is refused.
LEMMA FieldIs ==
    ASSUME NEW spec \in Specs, NEW parts \in Fields, parts # <<>>
    PROVE  FieldRight(parts, spec)
<1> DEFINE values == ParseField(parts, spec)
           given(k) == PartValues(parts[k], spec)
           meant(k) == Meant(parts[k], spec)
           sunday(k) == SundayLast(parts[k]) \/ SundayFirst(parts[k])
<1>1. parts \in Seq(PartType)
  BY CronAssumption DEF PartType
<1>2. 1 \in DOMAIN parts /\ \A k \in DOMAIN parts : parts[k] \in PartType
  <2> HIDE DEF PartType
  <2>1. PICK T : T = PartType
    OBVIOUS
  <2>2. parts \in Seq(T)
    BY <1>1, <2>1
  <2>3. Len(parts) \in Nat /\ DOMAIN parts = 1..Len(parts) /\ Len(parts) # 0
    BY <2>2
  <2>4. \A k \in DOMAIN parts : parts[k] \in T
    BY <2>2
  <2> QED
    BY <2>1, <2>3, <2>4
<1>3. SUFFICES ASSUME values # Invalid
               PROVE  /\ values # {} /\ values \subseteq spec.min..spec.max
                      /\ ~(spec.weekday /\ \E k \in DOMAIN parts : sunday(k))
                            => values = UNION {meant(k) : k \in DOMAIN parts}
  BY Zenon DEF FieldRight
<1>4. (\A k \in DOMAIN parts : given(k) # Invalid) /\ values = UNION {given(k) : k \in DOMAIN parts}
  BY <1>3, Zenon DEF ParseField
<1>5. ASSUME NEW k \in DOMAIN parts
      PROVE  /\ given(k) # {} /\ given(k) \subseteq spec.min..spec.max
             /\ ~(spec.weekday /\ sunday(k)) => given(k) = meant(k)
  <2>1. parts[k] \in PartType /\ PartValues(parts[k], spec) # Invalid
    BY <1>2, <1>4
  <2> QED
    BY <2>1, PartIs, Zenon
<1> HIDE DEF values, given, meant, sunday
<1>6. values # {} /\ values \subseteq spec.min..spec.max
  <2>1. \E v : v \in given(1)
    BY <1>2, <1>5
  <2>2. values # {}
    BY <1>2, <1>4, <2>1
  <2>3. ASSUME NEW v \in values PROVE v \in spec.min..spec.max
    <3>1. PICK k \in DOMAIN parts : v \in given(k)
      BY <1>4, <2>3
    <3> QED
      BY <1>5, <3>1, Zenon
  <2> QED
    BY <2>2, <2>3
<1>7. ASSUME ~(spec.weekday /\ \E k \in DOMAIN parts : sunday(k))
      PROVE  values = UNION {meant(k) : k \in DOMAIN parts}
  <2>1. \A k \in DOMAIN parts : given(k) = meant(k)
    BY <1>5, <1>7
  <2>2. {given(k) : k \in DOMAIN parts} = {meant(k) : k \in DOMAIN parts}
    BY <2>1
  <2> QED
    BY <1>4, <2>2
<1> QED
  BY <1>6, <1>7

\* The next slot of an interval is the first after now, however many have passed.
LEMMA SlotIs ==
    ASSUME NEW base \in Nat, NEW every \in Nat \ {0}, NEW now \in Nat, now >= base
    PROVE  LET next == NextInterval(base, now, every)
           IN  next > now /\ next - every <= now /\ (next - base) % every = 0
<1>1. \A q \in Nat : \A n \in Nat : n = base + (every * q) => (n - base) % every = 0
  <2>1. ASSUME NEW q \in Nat, NEW n \in Nat, n = base + (every * q) PROVE (n - base) % every = 0
    <3>1. PICK d \in Nat : d = n - base /\ d = every * q + 0
      <4>1. PICK p \in Nat : p = every * q
        OBVIOUS
      <4>2. n - base = p
        BY <2>1, <4>1
      <4> QED
        BY <4>1, <4>2
    <3>2. 0 \in 0..every - 1
      OBVIOUS
    <3>3. \A r \in 0..every - 1 : d = every * q + r => d % every = r
      BY DividedOnce
    <3>4. d % every = 0
      BY <3>1, <3>2, <3>3, Zenon
    <3> QED
      BY <3>1, <3>4
  <2> QED
    BY <2>1
<1>2. CASE base + every > now
  <2>1. NextInterval(base, now, every) = base + every
    BY <1>2 DEF NextInterval
  <2>2. base + every = base + (every * 1) /\ base + every \in Nat
    OBVIOUS
  <2>3. (base + every - base) % every = 0
    BY <1>1, <2>2
  <2> QED
    BY <1>2, <2>1, <2>3
<1>3. CASE ~(base + every > now)
  <2>1. PICK d \in Nat : d = now - (base + every)
    BY <1>3
  <2>2. PICK q \in Nat, r \in 0..every - 1 : q = d \div every /\ r = d % every /\ d = every * q + r
    BY DividedInto
  <2>3. NextInterval(base, now, every) = base + every + (q + 1) * every
    BY <1>3, <2>1, <2>2 DEF NextInterval
  <2>4. PICK p \in Nat : p = every * q /\ (q + 1) * every = p + every /\ every * (q + 2) = p + every + every
    OBVIOUS
  <2>5. PICK n \in Nat : n = base + every + p + every /\ n = base + (every * (q + 2))
    BY <2>4
  <2>6. NextInterval(base, now, every) = n
    BY <2>3, <2>4, <2>5
  <2>7. n > now /\ n - every <= now
    BY <2>1, <2>2, <2>4, <2>5
  <2>8. (n - base) % every = 0
    <3>1. q + 2 \in Nat
      OBVIOUS
    <3>2. \A i \in Nat : i = base + (every * (q + 2)) => (i - base) % every = 0
      BY <1>1, <3>1, Zenon
    <3> QED
      BY <2>5, <3>2, Zenon
  <2> QED
    BY <2>6, <2>7, <2>8
<1> QED
  BY <1>2, <1>3

\* Slots are right, whatever the base, the period and the time.
LEMMA SlotsAreRight == SlotsRight
<1>1. ASSUME NEW base \in 0..3, NEW every \in 1..3, NEW now \in 0..12, now >= base
      PROVE  LET next == NextInterval(base, now, every)
             IN  next > now /\ next - every <= now /\ (next - base) % every = 0
  <2>1. base \in Nat /\ every \in Nat \ {0} /\ now \in Nat
    OBVIOUS
  <2> QED
    BY <1>1, <2>1, SlotIs, Zenon
<1> QED
  BY <1>1, Zenon DEF SlotsRight

\* What is parsed is an expression or a field.
CronIInv == cron \in Crons \union {NoCron} /\ field \in Fields \union {<<>>}

\* It follows that they give the times and the values they should.
LEMMA CronGives == CronIInv => NextTimesRight
<1> SUFFICES ASSUME CronIInv PROVE NextTimesRight
  OBVIOUS
<1>1. ASSUME cron # NoCron, NEW from \in {t \in Minutes : t + 1 + Span \in Minutes}
      PROVE  LET allowed == {t \in from + 1..from + 1 + Span : Allowed(cron, t)}
             IN  NextCronTime(cron, from) =
                    IF allowed = {} THEN -1 ELSE CHOOSE t \in allowed : \A s \in allowed : t <= s
  <2>1. PICK c \in Crons : c = cron
    BY <1>1 DEF CronIInv
  <2>2. from \in Nat
    <3>1. PICK E \in Nat : E = Len(Calendar) * MinutesOfDay
      BY MinutesAre
    <3>2. Minutes = 0..E - 1
      BY <3>1, MinutesAre
    <3> QED
      BY <1>1, <3>2
  <2>3. PICK t \in Nat, limit \in Minutes : t = from + 1 /\ limit = from + 1 + Span
    <3>1. from + 1 \in Nat
      BY <2>2
    <3>2. from + 1 + Span \in Minutes
      BY <1>1, Zenon
    <3> QED
      BY <3>1, <3>2, Zenon
  <2>4. Search(c, t, limit) = First(c, t, limit)
    BY SearchFinds
  <2>5. NextCronTime(c, from) = First(c, from + 1, from + 1 + Span)
    BY <2>3, <2>4, Zenon DEF NextCronTime
  <2>6. NextCronTime(cron, from) = First(cron, from + 1, from + 1 + Span)
    BY <2>1, <2>5, Zenon
  <2> QED
    BY <2>6, Zenon DEF First, Open
<1>2. ASSUME field # <<>>, NEW spec \in Specs
      PROVE  FieldRight(field, spec)
  <2>1. field \in Fields
    BY <1>2 DEF CronIInv
  <2> QED
    BY <1>2, <2>1, FieldIs, Zenon
<1> QED
  BY <1>1, <1>2, SlotsAreRight, Zenon DEF NextTimesRight, FieldRight

\* The expressions and the fields do not change.
LEMMA CronInvariance == SchedulerSpec => []CronIInv
<1>1. SchedulerInit => CronIInv
  BY DEF SchedulerInit, CronInit, CronIInv
<1>2. CronIInv /\ [SchedulerNext]_schedulerVars => CronIInv'
  <2> SUFFICES ASSUME CronIInv, [SchedulerNext]_schedulerVars PROVE CronIInv'
    OBVIOUS
  <2>1. cron' = cron /\ field' = field
    BY DEF SchedulerNext, Scheduling, schedulerVars, cronVars
  <2> QED
    BY <2>1 DEF CronIInv
<1> QED
  BY <1>1, <1>2, PTL DEF SchedulerSpec

\* Schedules (nextCronTime, parseField, nextRunTime): the time found is the first minute
\* after now that the expression allows, a field gives the values its parts mean or is
\* refused, and an interval's slot is the first after now, whatever the calendar, the
\* expressions, the fields and the span of the search.
THEOREM TimesAreRight == SchedulerSpec => []NextTimesRight
  BY CronInvariance, CronGives, PTL
=============================================================================
