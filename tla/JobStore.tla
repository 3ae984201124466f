------------------------------ MODULE JobStore ------------------------------
(***************************************************************************)
(* The persistent job records, src/src/modules/JobStore.js, as functions   *)
(* of a store: record[id] is what lies under key(id), NoRecord for         *)
(* nothing, and index what lies under jobs:index.  A method is two writes, *)
(* and the process can die between them.                                   *)
(***************************************************************************)
EXTENDS Integers

CONSTANTS
    Jobs,       \* the ids, numbers in their alphabetical order
    NoRecord

ASSUME JobsAssumption == Jobs \subseteq Nat /\ NoRecord \notin Jobs

EmptyStore == [record |-> [j \in Jobs |-> NoRecord], index |-> {}]

Has(store, j) == store.record[j] # NoRecord

\* list and all: the index, without the ids whose record is gone.
Listed(store) == {j \in store.index : Has(store, j)}

WriteRecord(store, j, record) == [store EXCEPT !.record[j] = record]

\* The slip of adding to the index only ids that had no record before.
SaveTrusting(store, j, record) ==
    [store EXCEPT !.record[j] = record, !.index = IF Has(store, j) THEN @ ELSE @ \union {j}]

\* save: the record, then the index if the id is missing from it, which also drops the
\* ids whose record is gone.
Save(store, j, record) ==
    LET written == WriteRecord(store, j, record)
    IN  [written EXCEPT !.index = IF j \in Listed(written) THEN @ ELSE Listed(written) \union {j}]

\* save for each of several listed jobs: the index has them already.
SaveListed(store, jobs, record) ==
    [store EXCEPT !.record = [j \in Jobs |-> IF j \in jobs THEN record[j] ELSE @[j]]]

\* delete: the record, then the index.
EraseRecord(store, j) == WriteRecord(store, j, NoRecord)

Delete(store, j) ==
    LET erased == EraseRecord(store, j)
    IN  [erased EXCEPT !.index = Listed(erased)]
=============================================================================
