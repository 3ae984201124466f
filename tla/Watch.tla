------------------------------- MODULE Watch -------------------------------
(***************************************************************************)
(* What extract() notes about a page it is run on again and again, in      *)
(* src/src/modules: HealthMonitor (how often each field was found in the   *)
(* last runs), DiffDetector (what changed since the last run) and          *)
(* Observability (how many went well).  All of a run is one step, as it is *)
(* in the code from the answer on, save for plugins that wait.             *)
(*                                                                         *)
(* A run sees the fields it looked for and the data it made of them: an    *)
(* object or an array of objects, functions from keys to values.           *)
(***************************************************************************)
EXTENDS Integers, Sequences, FiniteSets

CONSTANTS
    WindowSize, MaxHistory,
    Sightings,      \* what a run may see: [health, data]
    ErrorKinds,     \* errors: [code, name, status]
    NoSighting, Null,
    MaxRuns         \* bound

ASSUME WatchAssumption ==
    /\ WindowSize \in Nat \ {0} /\ MaxHistory \in Nat \ {0}
    /\ \A s \in Sightings :
          /\ s.data # NoSighting /\ s.data.kind \in {"object", "array"}
          /\ s.data.kind = "array" => Len(s.data.items) \in Nat
          /\ \A f \in DOMAIN s.health : s.health[f].empty \in BOOLEAN /\ s.health[f].count \in Nat

VARIABLES
    windows,        \* HealthMonitor: field -> its last runs
    snapshot,       \* DiffDetector: the data of the last run, in the storage
    history,        \* ... the last reports
    counts,         \* Observability
    seenRuns,       \* history: what the runs have seen
    told,           \* history: the report of each
    report          \* history: the last report of the health

watchVars == <<windows, snapshot, history, counts, seenRuns, told, report>>

Categories == {"timeout", "network", "security", "circuit", "validation", "http5xx", "http4xx", "other"}

WatchInit ==
    /\ windows = <<>> /\ snapshot = NoSighting /\ history = <<>>
    /\ counts = [total |-> 0, success |-> 0, failed |-> 0, categories |-> [c \in Categories |-> 0]]
    /\ seenRuns = <<>> /\ told = <<>> /\ report = {}

LastOf(n, seq) == SubSeq(seq, IF Len(seq) > n THEN Len(seq) - n + 1 ELSE 1, Len(seq))

-----------------------------------------------------------------------------
(* HealthMonitor *)

\* record: of the fields that were looked for; the others keep the runs they have.
Windows(health) ==
    [f \in DOMAIN windows \union DOMAIN health |->
        IF f \notin DOMAIN health THEN windows[f]
        ELSE LastOf(WindowSize, (IF f \in DOMAIN windows THEN windows[f] ELSE <<>>) \o <<health[f]>>)]

EmptyIn(runs) == {k \in DOMAIN runs : runs[k].empty}
FoundIn(runs) == (DOMAIN runs) \ EmptyIn(runs)
MismatchedIn(runs) == {k \in DOMAIN runs : runs[k].mismatch}

\* The counts of the runs that found something.
Total(runs) ==
    LET sum[k \in 0..Len(runs)] ==
            IF k = 0 THEN 0 ELSE sum[k - 1] + (IF runs[k].empty THEN 0 ELSE runs[k].count)
    IN  sum[Len(runs)]

CountDrops(runs) ==
    LET n == Cardinality(FoundIn(runs))
        latest == CHOOSE k \in FoundIn(runs) : \A j \in FoundIn(runs) : j <= k
    IN  n >= 3 /\ Total(runs) > n /\ 100 * (n * runs[latest].count) < 35 * Total(runs)

\* _analyze, with the default threshold of a half.
Half(runs, some) == 2 * Cardinality(some) >= Len(runs)
Alerts(kept) ==
    LET watched == {f \in DOMAIN kept : Len(kept[f]) >= 2}
    IN  {<<f, "high_empty_rate">> : f \in {f \in watched : Half(kept[f], EmptyIn(kept[f]))}}
          \union {<<f, "count_drop">> : f \in {f \in watched : CountDrops(kept[f])}}
          \union {<<f, "pattern_mismatch">> : f \in {f \in watched : Half(kept[f], MismatchedIn(kept[f]))}}

-----------------------------------------------------------------------------
(* DiffDetector *)

\* _structOf.  What an array's items are is taken from the first.
StructOf(data) ==
    IF data.kind = "array"
    THEN [kind |-> "array", length |-> Len(data.items),
          itemKeys |-> IF data.items = <<>> THEN {} ELSE DOMAIN data.items[1]]
    ELSE [kind |-> "object", keys |-> DOMAIN data.of,
          nullFields |-> {k \in DOMAIN data.of : data.of[k] = Null}]

\* Of keys, of fields that are null now, and of those no longer among the null ones.
ObjectChanges(prev, curr) ==
    LET ps == StructOf(prev) cs == StructOf(curr)
        change(type, fields, severity) ==
            IF fields = {} THEN {} ELSE {[type |-> type, fields |-> fields, severity |-> severity]}
    IN  change("keys_added", cs.keys \ ps.keys, "info")
          \union change("keys_removed", ps.keys \ cs.keys, "critical")
          \union change("fields_became_null", cs.nullFields \ ps.nullFields, "warn")
          \union change("fields_recovered", ps.nullFields \ cs.nullFields, "info")
          \union {[type |-> "value_changed", field |-> k, to |-> curr.of[k], severity |-> "info"] :
                    k \in {k \in ps.keys \intersect cs.keys : prev.of[k] # curr.of[k]}}

ArrayChanges(ps, cs) ==
    LET delta == cs.length - ps.length
        size == IF delta < 0 THEN -delta ELSE delta
    IN  (IF delta = 0 THEN {}
         ELSE {[type |-> "count_changed", delta |-> delta,
                severity |-> IF 2 * size >= ps.length THEN "warn" ELSE "info"]})
          \union (IF ps.itemKeys = cs.itemKeys THEN {}
                  ELSE {[type |-> "item_schema_changed", fields |-> cs.itemKeys, severity |-> "critical"]})

\* _diff, with sensitivity "value".
Diff(prev, curr) ==
    LET ps == StructOf(prev) cs == StructOf(curr)
    IN  IF ps.kind # cs.kind THEN {[type |-> "type_changed", to |-> cs.kind, severity |-> "critical"]}
        ELSE IF ps.kind = "object" THEN ObjectChanges(prev, curr)
        ELSE ArrayChanges(ps, cs)

\* check
Check(data) ==
    LET first == snapshot = NoSighting
        result == [firstRun |-> first, changes |-> IF first THEN {} ELSE Diff(snapshot, data)]
    IN  /\ snapshot' = data
        /\ told' = Append(told, result)
        /\ history' = LastOf(MaxHistory, Append(history, result))

-----------------------------------------------------------------------------
(* Observability *)

Categorize(err) ==
    CASE err.code = "TIMEOUT" -> "timeout"
      [] err.code = "NETWORK_ERROR" -> "network"
      [] err.code = "SECURITY_BLOCKED" -> "security"
      [] err.code = "CIRCUIT_OPEN" -> "circuit"
      [] OTHER -> IF err.name = "ValidationError" THEN "validation"
                  ELSE IF err.status >= 500 THEN "http5xx" ELSE IF err.status >= 400 THEN "http4xx" ELSE "other"

RecordSuccess == counts' = [counts EXCEPT !.total = @ + 1, !.success = @ + 1]
RecordFailure(err) ==
    counts' = [counts EXCEPT !.total = @ + 1, !.failed = @ + 1, !.categories[Categorize(err)] = @ + 1]

-----------------------------------------------------------------------------
\* extract, from the answer on: what it saw is noted before a strict validation may refuse it.
Notes(sighting) ==
    /\ windows' = Windows(sighting.health) /\ report' = Alerts(windows')
    /\ Check(sighting.data)
    /\ seenRuns' = Append(seenRuns, sighting)

RunSucceeds(sighting) == counts.total < MaxRuns /\ Notes(sighting) /\ RecordSuccess

RunRefused(sighting) ==
    /\ counts.total < MaxRuns /\ Notes(sighting)
    /\ RecordFailure([code |-> "NONE", name |-> "ValidationError", status |-> 0])

\* A request that fails, of a run or of a refresh of the cache in the background.
RequestFailed(err) ==
    /\ counts.total < MaxRuns /\ RecordFailure(err)
    /\ UNCHANGED <<windows, snapshot, history, seenRuns, told, report>>

\* clearSnapshot and HealthMonitor.reset.
Forgets ==
    /\ seenRuns # <<>> /\ snapshot # NoSighting
    /\ snapshot' = NoSighting /\ windows' = <<>> /\ seenRuns' = <<>> /\ told' = <<>>
    /\ UNCHANGED <<history, counts, report>>

WatchNext ==
    \/ \E sighting \in Sightings : RunSucceeds(sighting) \/ RunRefused(sighting)
    \/ \E err \in ErrorKinds : RequestFailed(err)
    \/ Forgets

-----------------------------------------------------------------------------
\* What the changes say became of a structure.
Fields(changes, type) == UNION {c.fields : c \in {c \in changes : c.type = type}}
After(struct, changes) ==
    IF struct.kind = "object"
    THEN [kind |-> "object",
          keys |-> (struct.keys \union Fields(changes, "keys_added")) \ Fields(changes, "keys_removed"),
          nullFields |-> (struct.nullFields \union Fields(changes, "fields_became_null"))
                            \ Fields(changes, "fields_recovered")]
    ELSE LET counted == {c.delta : c \in {c \in changes : c.type = "count_changed"}}
             keyed == {c.fields : c \in {c \in changes : c.type = "item_schema_changed"}}
         IN  [kind |-> "array",
              length |-> IF counted = {} THEN struct.length ELSE struct.length + CHOOSE d \in counted : TRUE,
              itemKeys |-> IF keyed = {} THEN struct.itemKeys ELSE CHOOSE k \in keyed : TRUE]

\* The runs in which field f was looked for, and as many of the last of them as the window holds.
LookedIn(f) == {k \in DOMAIN seenRuns : f \in DOMAIN seenRuns[k].health}
Lately(f) == {k \in LookedIn(f) : Cardinality({j \in LookedIn(f) : j > k}) < WindowSize}
LookedFor == UNION {DOMAIN seenRuns[k].health : k \in DOMAIN seenRuns}

\* From the reports alone a reader who saw the first result knows what the latest looks like,
\* since each tells what changed from one to the next, of refused ones, too, and nothing is
\* told where nothing changed.  A field not found in half of the last runs that looked for it
\* is reported, one found each time is not; a count is reported to drop only when an earlier
\* one of these runs was higher.  The runs and failures counted are as many as there were.
WatchTells ==
    /\ \A k \in 2..Len(told) :
          LET before == StructOf(seenRuns[k - 1].data) now == StructOf(seenRuns[k].data)
              changes == told[k].changes
          IN  /\ IF before.kind = now.kind THEN After(before, changes) = now ELSE \E c \in changes : c.to = now.kind
              /\ (changes = {}) => (before = now)
              /\ (seenRuns[k - 1].data = seenRuns[k].data) => (changes = {})
    /\ told # <<>> => history[Len(history)] = told[Len(told)] /\ Len(history) <= MaxHistory
    /\ seenRuns # <<>> => \A f \in LookedFor :
          LET info(k) == seenRuns[k].health[f]
              empty == {k \in Lately(f) : info(k).empty}
          IN  /\ Cardinality(Lately(f)) >= 2 /\ 2 * Cardinality(empty) >= Cardinality(Lately(f)) =>
                    <<f, "high_empty_rate">> \in report
              /\ empty = {} => <<f, "high_empty_rate">> \notin report
              /\ <<f, "count_drop">> \in report =>
                    \E j, k \in Lately(f) \ empty : j < k /\ info(j).count > info(k).count
    /\ counts.total = counts.success + counts.failed
    /\ LET failed == [c \in Categories |-> counts.categories[c]]
       IN  counts.failed = failed["timeout"] + failed["network"] + failed["security"] + failed["circuit"]
                             + failed["validation"] + failed["http5xx"] + failed["http4xx"] + failed["other"]
=============================================================================
