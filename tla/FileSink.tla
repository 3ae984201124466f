------------------------------ MODULE FileSink ------------------------------
(***************************************************************************)
(* What a FileSink does with its batches, src/src/sinks/FileSink.js: it    *)
(* appends them, or it keeps all rows in memory and rewrites the file by   *)
(* a rename.  The format is JSON Lines.  A batch is with the disk no time, *)
(* but one that failed waits, src/src/sinks/Sink.js:69, while newer ones   *)
(* pass it.                                                                *)
(*                                                                         *)
(* An append can break off: behind some of its lines, or inside one.  The  *)
(* process can die, and the next one may be given another configuration.   *)
(* Rows are numbered in the order they are accepted.                       *)
(***************************************************************************)
EXTENDS Naturals, Sequences, FiniteSets

CONSTANTS
    FileSetups,     \* configurations: replace and keyed
    FileKey,        \* FileKey[row]
    FileBatch,      \* bound: rows of a batch
    FileRetries,
    MaxRestarts     \* bound

ASSUME FileSinkAssumption ==
    /\ Len(FileKey) \in Nat /\ DOMAIN FileKey = 1..Len(FileKey) /\ FileBatch \in Nat
    /\ FileSetups \subseteq [replace: BOOLEAN, keyed: BOOLEAN]

VARIABLES
    config,
    file,       \* its lines, a line the rows it has and whether they can be read
    ragged,     \* the last line has no end
    rows,       \* this.rows, or Unloaded
    pending,    \* the batches that wait for an attempt
    handed,     \* how many rows came in batches
    kept, dropped,     \* the rows counted as written, as failed
    again, overtaken,  \* history: rows of batches that failed once; keys passed by a newer batch
    mixed,             \* history: not all sessions replaced by key
    restarts

fileVars == <<config, file, ragged, rows, pending, handed, kept, dropped, again, overtaken,
              mixed, restarts>>

FileRows == DOMAIN FileKey
Line(row) == [rows |-> {row}, whole |-> TRUE]
Unloaded == <<0>>
Listed(s) == {s[k] : k \in DOMAIN s}

FileInit ==
    /\ config \in FileSetups
    /\ file = <<>> /\ ragged = FALSE /\ rows = Unloaded
    /\ pending = {} /\ handed = 0 /\ kept = {} /\ dropped = {} /\ again = {} /\ overtaken = {}
    /\ mixed = ~(config.replace /\ config.keyed) /\ restarts = 0

-----------------------------------------------------------------------------
\* The first n rows of a list as lines, and of the next one nothing ("line"), a part
\* ("inside"), or all but the end of its line ("end"); a line that has no end goes on.
Appended(list, n, cut) ==
    LET new == [k \in 1..n + (IF cut = "line" THEN 0 ELSE 1) |->
                   IF k > n /\ cut = "inside" THEN [rows |-> {}, whole |-> FALSE] ELSE Line(list[k])]
        joined == [rows |-> file[Len(file)].rows \union new[1].rows, whole |-> FALSE]
    IN  IF ragged /\ new # <<>> THEN SubSeq(file, 1, Len(file) - 1) \o <<joined>> \o Tail(new)
        ELSE file \o new

\* _append: all of the batch is written, or some of it.
AppendAll(list) == file' = Appended(list, Len(list), "line") /\ ragged' = FALSE
AppendBreaks(list) ==
    \E n \in 0..Len(list) - 1, cut \in {"line", "inside", "end"} :
        /\ file' = Appended(list, n, cut)
        /\ ragged' = (cut # "line" \/ (n = 0 /\ ragged))

\* _load: a line that cannot be parsed throws.
Loads == rows # Unloaded \/ \A k \in DOMAIN file : file[k].whole

Loaded ==
    IF rows # Unloaded THEN rows
    ELSE [k \in DOMAIN file |-> CHOOSE r \in file[k].rows : TRUE]

\* The slip of adding what is already there.
MergeTwice(list, row) == Append(list, row)

\* With a key a row takes the place of the last one under it.
Merge(list, row) ==
    LET same == {k \in DOMAIN list : FileKey[list[k]] = FileKey[row]}
    IN  IF config.keyed /\ same # {}
        THEN [list EXCEPT ![CHOOSE k \in same : \A j \in same : j <= k] = row]
        ELSE Append(list, row)

Merged(list, batch) ==
    LET after[k \in 0..Len(batch)] == IF k = 0 THEN list ELSE Merge(after[k - 1], batch[k])
    IN  after[Len(batch)]

\* _onBatch; the rows stay in memory when the file cannot be written.
Stores(list) ==
    IF config.replace
    THEN /\ Loads /\ rows' = Merged(Loaded, list)
         /\ file' = [k \in DOMAIN rows' |-> Line(rows'[k])] /\ ragged' = FALSE
    ELSE AppendAll(list) /\ UNCHANGED rows

Throws(list) ==
    IF config.replace
    THEN rows' = (IF Loads THEN Merged(Loaded, list) ELSE rows) /\ UNCHANGED <<file, ragged>>
    ELSE AppendBreaks(list) /\ UNCHANGED rows

\* An attempt at a batch; the batches in others wait.
Attempt(list, n, others) ==
    \/ /\ Stores(list)
       /\ kept' = kept \union Listed(list) /\ pending' = others
       /\ UNCHANGED <<dropped, again>>
    \/ /\ Throws(list)
       /\ again' = again \union Listed(list) /\ UNCHANGED kept
       /\ IF n < FileRetries
          THEN pending' = others \union {[list |-> list, attempt |-> n + 1]} /\ UNCHANGED dropped
          ELSE pending' = others /\ dropped' = dropped \union Listed(list)

KeysIn2(list) == {FileKey[r] : r \in Listed(list)}

\* flush with a new batch: rows as they came, one of a key if the buffer has a key.
FlushFile(n) ==
    LET list == [k \in 1..n |-> handed + k]
    IN  /\ handed + n \in FileRows
        /\ config.replace /\ config.keyed => Cardinality(KeysIn2(list)) = n
        /\ handed' = handed + n
        /\ overtaken' = overtaken \union (KeysIn2(list) \intersect UNION {KeysIn2(p.list) : p \in pending})
        /\ Attempt(list, 0, pending)
        /\ UNCHANGED <<config, mixed, restarts>>

RetryFile(p) ==
    /\ Attempt(p.list, p.attempt, pending \ {p})
    /\ UNCHANGED <<config, handed, overtaken, mixed, restarts>>

\* The process dies, maybe in the middle of an append, and the file is opened by another.
RestartFile ==
    /\ restarts < MaxRestarts /\ restarts' = restarts + 1
    /\ config' \in FileSetups
    /\ \/ UNCHANGED <<file, ragged, handed, again>>
       \/ /\ ~config.replace /\ handed + 1 \in FileRows /\ handed' = handed + 1
          /\ again' = again \union {handed + 1} /\ AppendBreaks(<<handed + 1>>)
    /\ rows' = Unloaded /\ pending' = {}
    /\ mixed' = (mixed \/ ~(config'.replace /\ config'.keyed))
    /\ UNCHANGED <<kept, dropped, overtaken>>

FileNext ==
    \/ \E n \in 1..FileBatch : FlushFile(n)
    \/ \E p \in pending : RetryFile(p)
    \/ RestartFile

-----------------------------------------------------------------------------
InFile(row) == {k \in DOMAIN file : file[k].whole /\ row \in file[k].rows}
Glued == UNION {file[k].rows : k \in {k \in DOMAIN file : ~file[k].whole}}

\* Rows counted as written are in the file through retries, batches given up and restarts,
\* and, where no batch of theirs failed, once; or a newer row of the key is there (unless
\* batches with the key passed each other); or they were appended to a line an append had
\* broken off in, where nobody can read them.  As long as rows are only ever replaced by key,
\* the file can be loaded, and has one row of a key.
FileKeepsRows ==
    /\ \A r \in kept :
          \/ InFile(r) # {} \/ r \in Glued
          \/ \E s \in FileRows : /\ FileKey[s] = FileKey[r] /\ InFile(s) # {}
                                 /\ s > r \/ FileKey[r] \in overtaken
    /\ \A r \in FileRows \ again : Cardinality(InFile(r)) <= 1
    /\ ~mixed =>
          /\ Loads
          /\ \A r, s \in FileRows : FileKey[r] = FileKey[s] => Cardinality(InFile(r) \union InFile(s)) <= 1
=============================================================================
