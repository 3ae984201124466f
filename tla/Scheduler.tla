----------------------------- MODULE Scheduler -----------------------------
(***************************************************************************)
(* The job scheduler, src/src/modules/Scheduler.js, on a JobStore that     *)
(* survives the process.  Every method of the class up to its first await  *)
(* is one action; handlers run on meanwhile, each its own asynchronous     *)
(* run, and the process may die at any moment.                             *)
(*                                                                         *)
(* Times are relative to now, in clock ticks: a record's next is           *)
(* nextRunAt - now, at most MaxLate in the past.  Of the record only       *)
(* enabled and nextRunAt steer anything; the rest is statistics.           *)
(***************************************************************************)
EXTENDS JobStore, FiniteSets, FiniteSetsExt

CONSTANTS
    Setups,        \* configurations: each job's kind of schedule, and catchUp
    Managed,       \* bound: the jobs the program adds again, removes, pauses and resumes
    Every,         \* the period of interval and cron schedules
    PollInterval, Concurrency,
    MaxLate,       \* bound: how far in the past times are told apart
    MaxUpsets,     \* bound: calls of runNow and crashes
    None           \* no time, no timer, nobody stopping

Kinds == {"interval", "cron", "once"}
Times == -MaxLate..(IF Every > MaxLate THEN Every ELSE MaxLate)
Records == [enabled: BOOLEAN, next: Times \union {None}]
Stores == [record: [Jobs -> Records \union {NoRecord}], index: SUBSET Jobs]
RunNos == 0..MaxUpsets

ASSUME SchedulerAssumption ==
    /\ Setups \subseteq [kind: [Jobs -> Kinds], catchUp: BOOLEAN]
    /\ Managed \subseteq Jobs
    /\ Every \in Nat \ {0} /\ PollInterval \in Nat \ {0} /\ Concurrency \in Nat \ {0}
    /\ MaxLate \in Nat \ {0} /\ MaxUpsets \in Nat /\ None \notin Int
    /\ NoRecord \notin Records /\ IsFiniteSet(Jobs)

VARIABLES
    setup,
    store,      \* the JobStore
    slot,       \* of each job: ticks to its next cron time, or to its at
    up,         \* the process runs
    handlers,   \* ids with a handler (_handlers)
    started,    \* _started
    timer,      \* ticks until the armed timer fires (_timer), or None
    runs,       \* the handler invocations under way, each a job and a number; of age only
                \* its distance to the last whole period counts, and whether there was one
    running,    \* job |-> the number of the run its entry in _running stands for
    stopping,   \* the runs stop() waits for, or None
    since,      \* history: ticks since the timer last launched the interval job, up to Every
    manual, crashes   \* how often runNow was called, the process crashed

vars == <<setup, store, slot, up, handlers, started, timer, runs, running, stopping, since,
          manual, crashes>>

\* Types; an index entry without a record is all that a crash may leave behind.
TypeOK ==
    /\ setup \in Setups
    /\ store \in Stores /\ handlers \subseteq Jobs
    /\ slot \in [Jobs -> Times]
    /\ up \in BOOLEAN /\ started \in BOOLEAN
    /\ timer # None => timer \in 0..PollInterval
    /\ runs \subseteq [job: Jobs, no: RunNos, age: 0..(2 * Every - 1), enabled: BOOLEAN]
    /\ \A r, s \in runs : r.job = s.job /\ r.no = s.no => r = s
    /\ DOMAIN running \subseteq Jobs /\ running \in [DOMAIN running -> RunNos]
    /\ stopping # None => stopping \subseteq Jobs \X RunNos
    /\ since \in [Jobs -> 0..Every]
    /\ manual \in 0..MaxUpsets /\ crashes \in 0..MaxUpsets

-----------------------------------------------------------------------------
\* nextRunTime: cron and once look at the calendar; an interval keeps its distance to
\* base, in whole periods, and skips the slots that are over.
NextRunTime(j, base) ==
    IF setup.kind[j] # "interval" THEN slot[j]
    ELSE LET next == base + Every
         IN  IF next > 0 THEN next ELSE next + ((-next) \div Every + 1) * Every

\* The records that can come due.
Runnable(aStore, known) ==
    {j \in Listed(aStore) \intersect known :
        aStore.record[j].enabled /\ aStore.record[j].next # None}

\* _arm, on the store and the handlers the caller leaves behind.
Arm(aStore, known) ==
    LET waits == {aStore.record[j].next : j \in Runnable(aStore, known)} \union {PollInterval}
    IN  IF Min(waits) > 0 THEN Min(waits) ELSE 0

\* The slip of leaving the timer as it was.
RearmNot(aStore, known) == timer

Rearm(aStore, known) == IF started THEN Arm(aStore, known) ELSE timer

Due == {j \in Runnable(store, handlers) : store.record[j].next <= 0}

\* The slip of serving the most recent slot first.
AheadBackwards(j, k) ==
    \/ store.record[j].next > store.record[k].next
    \/ store.record[j].next = store.record[k].next /\ j < k

\* The order tick serves the due jobs in.
Ahead(j, k) ==
    \/ store.record[j].next < store.record[k].next
    \/ store.record[j].next = store.record[k].next /\ j < k

UnusedNo(j) == CHOOSE no \in RunNos : \A r \in runs : r.job = j => r.no # no

\* _launch: the run holds on to the record as it was read.
Launched(j) ==
    [job |-> j, no |-> UnusedNo(j), age |-> 0, enabled |-> store.record[j].enabled]

Launch(jobs) ==
    /\ runs' = runs \union {Launched(j) : j \in jobs}
    /\ running' = [j \in DOMAIN running \union jobs |->
                     IF j \in jobs THEN UnusedNo(j) ELSE running[j]]

Id(run) == <<run.job, run.no>>
InRunning == {<<j, running[j]>> : j \in DOMAIN running}

FreshRecord(j) == [enabled |-> TRUE, next |-> NextRunTime(j, 0)]

\* add, for a job whose schedule did not change since it was stored.
Added(aStore, j) == Save(aStore, j, IF Has(aStore, j) THEN aStore.record[j] ELSE FreshRecord(j))

\* The constructor adds the configured jobs, all of them here: each add leaves the others'
\* records and index entries alone, save those of ids whose record is gone, added themselves.
AddedAll(aStore) ==
    [record |-> [j \in Jobs |-> Added(aStore, j).record[j]],
     index |-> UNION {Added(aStore, j).index : j \in Jobs}]

Init ==
    /\ setup \in Setups
    /\ slot = [j \in Jobs |-> Every]
    /\ store = AddedAll(EmptyStore)
    /\ up = TRUE /\ handlers = Jobs /\ started = FALSE /\ timer = None
    /\ runs = {} /\ running = << >> /\ stopping = None
    /\ since = [j \in Jobs |-> Every]
    /\ manual = 0 /\ crashes = 0

still == <<setup, slot, since, crashes>>

Add(j) ==
    /\ up
    /\ store' = Added(store, j)
    /\ handlers' = handlers \union {j}
    /\ timer' = Rearm(store', handlers')
    /\ UNCHANGED <<still, up, started, runs, running, stopping, manual>>

\* The slip of forgetting the run as well.
RemoveForgetful(j) ==
    /\ up
    /\ handlers' = handlers \ {j}
    /\ store' = Delete(store, j)
    /\ running' = [k \in DOMAIN running \ {j} |-> running[k]]
    /\ UNCHANGED <<still, up, started, timer, runs, stopping, manual>>

Remove(j) ==
    /\ up
    /\ handlers' = handlers \ {j}
    /\ store' = Delete(store, j)
    /\ UNCHANGED <<still, up, started, timer, runs, running, stopping, manual>>

Pause(j) ==
    /\ up /\ Has(store, j)
    /\ store' = Save(store, j, [store.record[j] EXCEPT !.enabled = FALSE])
    /\ UNCHANGED <<still, up, handlers, started, timer, runs, running, stopping, manual>>

\* The slip of making a resumed job due at once.
ResumeAtOnce(j) ==
    /\ up /\ Has(store, j)
    /\ store' = Save(store, j, [enabled |-> TRUE, next |-> 0])
    /\ timer' = Rearm(store', handlers)
    /\ UNCHANGED <<still, up, handlers, started, runs, running, stopping, manual>>

Resume(j) ==
    /\ up /\ Has(store, j)
    /\ store' = Save(store, j, [enabled |-> TRUE, next |-> NextRunTime(j, 0)])
    /\ timer' = Rearm(store', handlers)
    /\ UNCHANGED <<still, up, handlers, started, runs, running, stopping, manual>>

SlotSkipped(j, base) == [store.record[j] EXCEPT !.next = NextRunTime(j, base)]

\* start: without catchUp a slot that passed while nobody looked is given up.
Start ==
    /\ up /\ ~started
    /\ started' = TRUE
    /\ store' = IF setup.catchUp THEN store
                ELSE SaveListed(store, Due, [j \in Due |-> SlotSkipped(j, 0)])
    /\ timer' = Arm(store', handlers)
    /\ UNCHANGED <<still, up, handlers, runs, running, stopping, manual>>

Idle == Due \ DOMAIN running
Room == Max({0, Concurrency - Cardinality(DOMAIN running)})

\* tick: the due jobs in order, as many of the idle ones as there is room for; and the
\* ones the loop comes by before it finds all places taken.
Served == {j \in Idle : Cardinality({k \in Idle : Ahead(k, j)}) < Room}
Passed == {j \in Due \intersect DOMAIN running : \A k \in Idle \ Served : Ahead(j, k)}

\* A due job that runs already has its slot skipped.
TickJobs ==
    /\ store' = SaveListed(store, Passed,
                           [j \in Passed |-> SlotSkipped(j, store.record[j].next)])
    /\ Launch(Served)
    /\ since' = [j \in Jobs |-> IF j \in Served /\ setup.kind[j] = "interval" THEN 0 ELSE since[j]]
    /\ timer' = Arm(store', handlers)

\* The timer or a caller of tick(); before start() it does nothing.
TickOnce ==
    /\ up /\ started
    /\ TickJobs
    /\ UNCHANGED <<setup, slot, up, handlers, started, stopping, manual, crashes>>

TimerFires == timer = 0 /\ TickOnce

RunNow(j) ==
    /\ up /\ Has(store, j) /\ j \in handlers
    /\ manual + crashes < MaxUpsets /\ manual' = manual + 1
    /\ Launch({j})
    /\ UNCHANGED <<still, up, handlers, store, started, timer, stopping>>

\* A handler's promise settles: its entry in _running goes, whosever it is, and the
\* record is written back, from the store or from memory.
Finish(run) ==
    LET j == run.job
        once == setup.kind[j] = "once"
        enabled == IF Has(store, j) THEN store.record[j].enabled ELSE run.enabled
    IN  /\ runs' = runs \ {run}
        /\ running' = [k \in DOMAIN running \ {j} |-> running[k]]
        /\ store' = Save(store, j, [enabled |-> enabled /\ ~once,
                                    next |-> IF once THEN None ELSE NextRunTime(j, -run.age)])
        /\ timer' = Rearm(store', handlers)
        /\ stopping' = IF stopping = None THEN None ELSE stopping \ {Id(run)}
        /\ UNCHANGED <<still, up, handlers, started, manual>>

\* The slip of awaiting nothing.
StopUnawaited(wait) ==
    /\ up /\ stopping = None
    /\ started' = FALSE /\ timer' = None
    /\ stopping' = IF wait /\ running # << >> THEN {} ELSE None
    /\ UNCHANGED <<still, up, handlers, store, runs, running, manual>>

Stop(wait) ==
    /\ up /\ stopping = None
    /\ started' = FALSE /\ timer' = None
    /\ stopping' = IF wait /\ running # << >> THEN InRunning ELSE None
    /\ UNCHANGED <<still, up, handlers, store, runs, running, manual>>

StopReturns ==
    /\ stopping = {}
    /\ stopping' = None
    /\ UNCHANGED <<still, up, handlers, store, started, timer, runs, running, manual>>

-----------------------------------------------------------------------------
\* What dies with the process.
LoseMemory ==
    /\ manual + crashes < MaxUpsets /\ crashes' = crashes + 1
    /\ up' = FALSE /\ handlers' = {} /\ started' = FALSE /\ timer' = None
    /\ runs' = {} /\ running' = << >> /\ stopping' = None
    /\ since' = [j \in Jobs |-> Every]
    /\ UNCHANGED <<setup, slot, manual>>

\* The process dies between two calls, or between the two writes of one.
Crash ==
    /\ up
    /\ LoseMemory
    /\ \/ UNCHANGED store
       \/ \E j \in Jobs : ~Has(store, j) /\ store' = WriteRecord(store, j, FreshRecord(j))
       \/ \E j \in Jobs : Has(store, j) /\ store' = EraseRecord(store, j)

Boot ==
    /\ ~up
    /\ up' = TRUE
    /\ handlers' = Jobs
    /\ store' = AddedAll(store)
    /\ UNCHANGED <<still, started, timer, runs, running, stopping, manual>>

Sooner(time, floor) == IF time = None \/ time <= floor THEN time ELSE time - 1

\* Of times MaxLate in the past only the order is kept.
Floor(j) ==
    -MaxLate + Cardinality({k \in Jobs : Has(store, k) /\ store.record[k].next # None
                                            /\ store.record[k].next < store.record[j].next})

Aged(j) ==
    IF ~Has(store, j) \/ store.record[j].next = None THEN store.record[j]
    ELSE [store.record[j] EXCEPT !.next = Sooner(@, Floor(j))]

Older(age) == IF age + 1 < 2 * Every THEN age + 1 ELSE Every

Tick ==
    /\ store' = [store EXCEPT !.record = [j \in Jobs |-> Aged(j)]]
    /\ slot' = [j \in Jobs |->
                  IF setup.kind[j] = "interval" \/ (setup.kind[j] = "cron" /\ slot[j] = 1)
                  THEN Every ELSE Sooner(slot[j], -MaxLate)]
    /\ timer' = IF timer = None \/ timer = 0 THEN timer ELSE timer - 1
    /\ runs' = {[r EXCEPT !.age = Older(@)] : r \in runs}
    /\ since' = [j \in Jobs |-> IF since[j] < Every THEN since[j] + 1 ELSE Every]
    /\ UNCHANGED <<setup, up, handlers, started, running, stopping, manual, crashes>>

Next ==
    \/ \E j \in Managed : Add(j) \/ Remove(j) \/ Pause(j) \/ Resume(j)
    \/ \E j \in Jobs : RunNow(j)
    \/ Start \/ TickOnce \/ StopReturns
    \/ \E run \in runs : Finish(run)
    \/ \E wait \in BOOLEAN : Stop(wait)
    \/ Crash \/ Boot \/ Tick

\* Timers fire, handlers settle and time passes.  Nobody has to call anything.
Fairness ==
    /\ WF_vars(TimerFires) /\ WF_vars(StopReturns) /\ WF_vars(Tick)
    /\ \A id \in Jobs \X RunNos : WF_vars(\E run \in runs : Id(run) = id /\ Finish(run))

Spec == Init /\ [][Next]_vars /\ Fairness

-----------------------------------------------------------------------------
\* The README: "one instance of a job at a time".
OneInstance == \A r, s \in runs : r.job = s.job => r = s

\* The overlap policy and the limit, as far as the timer decides: no job runs twice at
\* once and no more than concurrency jobs run, whatever is added, removed, paused or
\* restarted meanwhile; and _running has an entry for each run.
TimerPolicy ==
    manual = 0 =>
        /\ OneInstance
        /\ Cardinality(runs) <= Concurrency
        /\ InRunning = {Id(r) : r \in runs}

\* A started scheduler always has a timer, and it never sleeps past a job's time.
NeverOversleeps ==
    started => /\ timer # None
               /\ \A j \in Runnable(store, handlers) : timer <= Max({0, store.record[j].next})

\* Every job with a handler is in the store and in its index, where a restart looks for
\* it, after a crash between the two writes too; and an enabled job has a next run.
StoreSound ==
    /\ handlers \subseteq Listed(store)
    /\ \A j \in Jobs : Has(store, j) /\ store.record[j].enabled => store.record[j].next # None

\* The state is of its types, and the store is sound.
StateSound == TypeOK /\ StoreSound

\* stop() waits for every run that was under way when it was called.
StopSeesEveryRun ==
    stopping # None /\ ~started /\ manual = 0 => {Id(r) : r \in runs} \subseteq stopping

\* An interval job is never started twice within one period, however late it was, and
\* whatever was skipped, missed or resumed: late runs do not turn into a burst.
SpacedApart ==
    [][\A j \in Jobs : manual' = 0 /\ up' /\ setup.kind[j] = "interval"
            /\ since'[j] < since[j] => since[j] = Every]_vars

Pending(j) == started /\ j \in Due \ DOMAIN running

\* A due job is not passed over forever in favour of others, as long as all of them
\* have a cadence (a one shot that is resumed over and over always comes first).
NothingStarves ==
    (\A j \in Jobs : setup.kind[j] # "once") => \A j \in Jobs : Pending(j) ~> ~Pending(j)

\* stop() returns, even when the scheduler is started again meanwhile.
StopEnds == stopping # None ~> stopping = None

\* The README: "Drop the record and its handler".  A record that was dropped comes back
\* with a handler only, that is by being added again.
RemovedStaysRemoved ==
    [][\A j \in Jobs : up' /\ ~Has(store, j) /\ Has(store', j) => j \in handlers']_vars
=============================================================================
