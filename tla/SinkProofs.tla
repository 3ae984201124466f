----------------------------- MODULE SinkProofs -----------------------------
(***************************************************************************)
(* Theorems about Sink, for any configurations, keys, batch sizes, retries *)
(* and number of rows.                                                     *)
(***************************************************************************)
EXTENDS Sink, TLAPS, SequenceTheorems, WellFoundedInduction

\* The rows of a batch have the keys they were accepted with; each is there once, and with a
\* key, each key is there once.
BatchSound(aBatch, keysOf) ==
    /\ \A p \in DOMAIN aBatch :
          /\ aBatch[p].key = keysOf[aBatch[p].id]
          /\ setup.keyed <=> aBatch[p].key # NoKey
    /\ \A p, q \in DOMAIN aBatch :
          p # q => /\ aBatch[p].id # aBatch[q].id
                   /\ setup.keyed => aBatch[p].key # aBatch[q].key

\* The index tells of every key where it is.
IndexSound(aBatch, anIndex) ==
    \A k \in Keys :
        IF anIndex[k] = 0 THEN \A p \in DOMAIN aBatch : aBatch[p].key # k
        ELSE anIndex[k] \in DOMAIN aBatch /\ aBatch[anIndex[k]].key = k

\* A buffer, its index and the replaced rows, once the first rows with the keys keysOf were
\* pushed.
BufferSound(acc, keysOf, count) ==
    /\ acc \in [buffer: Seq(Rows), index: [Keys -> 0..MaxRows], replaced: SUBSET RowIds]
    /\ Len(acc.buffer) <= count
    /\ IdsOf(acc.buffer) \union acc.replaced \subseteq 1..count
    /\ BatchSound(acc.buffer, keysOf) /\ IndexSound(acc.buffer, acc.index)
    /\ IdsOf(acc.buffer) \intersect acc.replaced = {}

Waiting == [buffer |-> buffer, index |-> index, replaced |-> replaced]

\* A batch under way is one that the buffer was, and of the rows that no failed call had, it
\* has stored the first ones, once.
FlightSound(f) ==
    /\ f.batch # <<>> /\ BatchSound(f.batch, keyOf)
    /\ f.stored <= Len(f.batch)
    /\ f.delayed => f.attempt < Retries /\ IdsOf(f.batch) \subseteq retried
    /\ \A p \in DOMAIN f.batch :
          /\ p <= f.stored => copies[f.batch[p].id] >= 1
          /\ f.batch[p].id \notin retried => copies[f.batch[p].id] = IF p <= f.stored THEN 1 ELSE 0

\* A row that waits, was replaced or is yet to come was not stored.
NotYetStored ==
    \A r \in RowIds : r > accepted \/ r \in Buffered \union replaced => copies[r] = 0

\* What waits was accepted after all that was taken.
WaitingIsNewest == \A b \in Buffered, r \in UnderWay \union written \union failed : r < b

\* A key that was never in two batches at once is in one; its row there is newer than the
\* written ones, and once stored the destination has no older one.
InOneFlight ==
    \A k \in Keys \ overlapped, f \in flights : k \in KeysOf(f.batch) =>
        /\ \A g \in flights : k \in KeysOf(g.batch) => f = g
        /\ \A p \in DOMAIN f.batch : f.batch[p].key = k =>
              /\ p <= f.stored => table[k] >= f.batch[p].id
              /\ \A r \in written : keyOf[r] = k => r < f.batch[p].id

IInv ==
    /\ TypeOK /\ BufferSound(Waiting, keyOf, accepted) /\ \A f \in flights : FlightSound(f)
    /\ RowsAccounted /\ NotYetStored /\ WaitingIsNewest /\ InOneFlight /\ NewestWins

-----------------------------------------------------------------------------
(* Induction, the least of a set, and what the pushes of a call make of the buffer. *)

\* A set that holds 0 and with every number the next one holds every number.
LEMMA AllNumbers ==
    ASSUME NEW S, 0 \in S, \A n \in Nat : n \in S => n + 1 \in S
    PROVE  Nat \subseteq S
<1> DEFINE R == {pair \in Nat \X Nat : pair[1] < pair[2]}
<1>1. IsWellFoundedOn(R, Nat)
  BY NatLessThanWellFounded, Zenon DEF OpToRel
<1> SUFFICES ASSUME Nat \ S # {} PROVE FALSE
  OBVIOUS
<1>2. Nat \ S \subseteq Nat
  OBVIOUS
<1>3. PICK n \in Nat \ S : \A m \in Nat \ S : ~ (<<m, n>> \in R)
  <2> HIDE DEF R
  <2> QED
    BY <1>1, <1>2, WFMin
<1>4. n - 1 \in Nat /\ n - 1 < n
  BY <1>3
<1>5. n - 1 \in S
  BY <1>3, <1>4
<1> QED
  BY <1>4, <1>5

\* A set of numbers has a least one.
LEMMA LeastOf ==
    ASSUME NEW S \in SUBSET Nat, S # {}
    PROVE  Min(S) \in S /\ \A x \in S : Min(S) <= x
<1> DEFINE Lower == {n \in Nat : \A m \in 0..n : m \notin S}
<1>1. SUFFICES ASSUME \A n \in S : \E m \in S : m < n PROVE FALSE
  <2>1. PICK n \in S : \A m \in S : ~(m < n)
    BY <1>1
  <2>2. \A m \in S : n <= m
    BY <2>1
  <2> QED
    BY <2>2 DEF Min
<1>2. 0 \in Lower
  BY <1>1
<1>3. \A n \in Nat : n \in Lower => n + 1 \in Lower
  <2> TAKE n \in Nat
  <2> HAVE n \in Lower
  <2>1. n + 1 \notin S
    <3> SUFFICES ASSUME n + 1 \in S PROVE FALSE
      OBVIOUS
    <3>1. PICK m \in S : m < n + 1
      BY <1>1
    <3>2. m \in 0..n
      BY <3>1
    <3> QED
      BY <3>2
  <2>2. \A m \in 0..n + 1 : m = n + 1 \/ m \in 0..n
    OBVIOUS
  <2> QED
    BY <2>1, <2>2
<1>4. Nat \subseteq Lower
  <2> HIDE DEF Lower
  <2> QED
    BY <1>2, <1>3, AllNumbers
<1>5. \A n \in S : n \in 0..n /\ n \notin S
  <2> TAKE n \in S
  <2>1. n \in Nat /\ n \in Lower /\ n \in 0..n
    BY <1>4
  <2> QED
    BY <2>1
<1> QED
  BY <1>5

\* PushedAll pushes one row after the other.
LEMMA PushedInTurn ==
    ASSUME NEW rows, Len(rows) \in Nat
    PROVE  \E after : /\ after[0] = Waiting
                      /\ \A n \in 1..Len(rows) : after[n] = Push(after[n - 1], rows[n])
                      /\ PushedAll(rows) = after[Len(rows)]
<1> DEFINE N == Len(rows)
           Works(g, m) == /\ DOMAIN g = 0..m
                          /\ g = [n \in 0..m |-> IF n = 0 THEN Waiting
                                                 ELSE Push(g[n - 1], rows[n])]
           Far == {m \in Nat : \E g : Works(g, m)}
<1>1. 0 \in Far
  <2> DEFINE g == [n \in 0..0 |-> Waiting]
  <2>1. Works(g, 0)
    OBVIOUS
  <2> QED
    BY <2>1
<1>2. \A m \in Nat : m \in Far => m + 1 \in Far
  <2> TAKE m \in Nat
  <2> HAVE m \in Far
  <2>1. PICK g : Works(g, m)
    OBVIOUS
  <2> DEFINE h == [n \in 0..m + 1 |-> IF n = m + 1 THEN Push(g[m], rows[m + 1]) ELSE g[n]]
             step == [n \in 0..m + 1 |-> IF n = 0 THEN Waiting ELSE Push(h[n - 1], rows[n])]
  <2>2. ASSUME NEW n \in 0..m + 1 PROVE h[n] = step[n]
    <3>1. CASE n = m + 1
      <4>1. m \in 0..m + 1 /\ m # m + 1 /\ n # 0 /\ n - 1 = m
        BY <3>1
      <4> QED
        BY <3>1, <4>1
    <3>2. CASE n = 0
      BY <2>1, <3>2
    <3>3. CASE n # 0 /\ n # m + 1
      <4>1. n \in 0..m /\ n - 1 \in 0..m /\ n - 1 # m + 1
        BY <3>3
      <4>2. g[n] = Push(g[n - 1], rows[n])
        BY <2>1, <3>3, <4>1
      <4> QED
        BY <3>3, <4>1, <4>2
    <3> QED
      BY <3>1, <3>2, <3>3
  <2>3. h = step /\ DOMAIN h = 0..m + 1
    BY <2>2
  <2>4. Works(h, m + 1)
    BY <2>3
  <2> HIDE DEF h, Works
  <2>5. \E f : Works(f, m + 1)
    BY <2>4
  <2> QED
    BY <2>5
<1>3. N \in Far
  <2> HIDE DEF Far, N
  <2>1. Nat \subseteq Far
    BY <1>1, <1>2, AllNumbers
  <2> QED
    BY <2>1 DEF N
<1> DEFINE after[n \in 0..N] ==
             IF n = 0 THEN Waiting ELSE Push(after[n - 1], rows[n])
<1>4. after = [n \in 0..N |-> IF n = 0 THEN Waiting ELSE Push(after[n - 1], rows[n])]
  <2>1. PICK g : Works(g, N)
    BY <1>3
  <2> QED
    BY <2>1
<1>5. PushedAll(rows) = after[N]
  BY DEF PushedAll, Waiting
<1> HIDE DEF after
<1>6. after[0] = Waiting /\ \A n \in 1..N : after[n] = Push(after[n - 1], rows[n])
  BY <1>4
<1> QED
  BY <1>5, <1>6

\* One push keeps the buffer sound: the new row is in it, with all the others but the one of
\* its key, which it replaced.
LEMMA PushSound ==
    ASSUME TypeOK, NEW acc, NEW keysOf, NEW count \in Nat, NEW row \in Rows,
           BufferSound(acc, keysOf, count), count + 1 <= MaxRows,
           row.id = count + 1, row.key = keysOf[row.id], setup.keyed <=> row.key # NoKey
    PROVE  LET new == Push(acc, row)
           IN  /\ BufferSound(new, keysOf, count + 1)
               /\ IdsOf(new.buffer) \union new.replaced =
                     IdsOf(acc.buffer) \union acc.replaced \union {row.id}
               /\ acc.replaced \subseteq new.replaced
<1> DEFINE b == acc.buffer
           at == acc.index[row.key]
<1>1. /\ b \in Seq(Rows) /\ acc.index \in [Keys -> 0..MaxRows] /\ acc.replaced \subseteq RowIds
      /\ Len(b) \in Nat /\ Len(b) <= count /\ DOMAIN b = 1..Len(b)
      /\ acc = [buffer |-> b, index |-> acc.index, replaced |-> acc.replaced]
  BY DEF BufferSound
<1>2. /\ \A p \in DOMAIN b : /\ b[p] \in Rows /\ b[p].id \in 1..count /\ b[p].id # row.id
                             /\ b[p].key = keysOf[b[p].id] /\ b[p].id \notin acc.replaced
                             /\ setup.keyed <=> b[p].key # NoKey
      /\ row.id \notin acc.replaced
  <2>1. \A p \in DOMAIN b : b[p].id \in IdsOf(b)
    BY DEF IdsOf
  <2> QED
    BY <1>1, <2>1 DEF BufferSound, BatchSound
<1>3. \A p, q \in DOMAIN b : p # q => /\ b[p].id # b[q].id
                                      /\ setup.keyed => b[p].key # b[q].key
  BY DEF BufferSound, BatchSound
<1>4. \A k \in Keys : IF acc.index[k] = 0 THEN \A p \in DOMAIN b : b[p].key # k
                      ELSE acc.index[k] \in DOMAIN b /\ b[acc.index[k]].key = k
  BY DEF BufferSound, IndexSound
<1>5. row.key \in Keys \union {NoKey} /\ row.id \in RowIds /\ MaxRows \in Nat /\ NoKey \notin Keys
  BY SinkAssumption DEF Rows, RowIds
<1>6. CASE setup.keyed /\ at # 0
  <2> DEFINE c == [b EXCEPT ![at] = row]
  <2>1. row.key \in Keys /\ at \in DOMAIN b /\ b[at].key = row.key
    BY <1>4, <1>5, <1>6
  <2>2. Push(acc, row) = [buffer |-> c, index |-> acc.index,
                          replaced |-> acc.replaced \union {b[at].id}]
    BY <1>1, <1>6 DEF Push
  <2>3. /\ c \in Seq(Rows) /\ Len(c) = Len(b) /\ DOMAIN c = DOMAIN b
        /\ \A p \in DOMAIN b : c[p] = IF p = at THEN row ELSE b[p]
    BY <1>1, <2>1
  <2> HIDE DEF c, at, b
  <2>4. IdsOf(c) = (IdsOf(b) \ {b[at].id}) \union {row.id}
    <3>1. \A p \in DOMAIN b : p # at => b[p].id # b[at].id
      BY <1>3, <2>1
    <3> QED
      BY <2>1, <2>3, <3>1 DEF IdsOf
  <2>5. BatchSound(c, keysOf)
    <3>1. \A p \in DOMAIN c : /\ c[p].key = keysOf[c[p].id]
                              /\ setup.keyed <=> c[p].key # NoKey
      BY <1>2, <2>3
    <3>2. \A p, q \in DOMAIN c : p # q => /\ c[p].id # c[q].id
                                          /\ setup.keyed => c[p].key # c[q].key
      BY <1>2, <1>3, <2>1, <2>3
    <3> QED
      BY <3>1, <3>2 DEF BatchSound
  <2>6. IndexSound(c, acc.index)
    <3> SUFFICES ASSUME NEW k \in Keys
                 PROVE  IF acc.index[k] = 0 THEN \A p \in DOMAIN c : c[p].key # k
                        ELSE acc.index[k] \in DOMAIN c /\ c[acc.index[k]].key = k
      BY DEF IndexSound
    <3> QED
      BY <1>4, <2>1, <2>3, SMTT(30)
  <2>7. b[at].id \in 1..count /\ b[at].id \notin acc.replaced /\ b[at].id \in IdsOf(b)
    BY <1>2, <2>1 DEF IdsOf
  <2>8. IdsOf(b) \union acc.replaced \subseteq 1..count /\ IdsOf(b) \intersect acc.replaced = {}
    BY DEF BufferSound, b
  <2>9. 1..count + 1 \subseteq RowIds /\ 1..count \subseteq 1..count + 1 /\ row.id \in 1..count + 1
        /\ row.id \notin 1..count
    BY <1>5 DEF RowIds
  <2>10. BufferSound(Push(acc, row), keysOf, count + 1)
    <3>1. IdsOf(c) \union (acc.replaced \union {b[at].id}) \subseteq 1..count + 1
      BY <2>4, <2>7, <2>8, <2>9
    <3>2. IdsOf(c) \intersect (acc.replaced \union {b[at].id}) = {}
      BY <2>4, <2>7, <2>8, <2>9
    <3>3. acc.replaced \union {b[at].id} \in SUBSET RowIds
      BY <1>1, <2>7, <2>9
    <3>4. Len(c) <= count + 1
      BY <1>1, <2>3
    <3> QED
      BY <1>1, <2>2, <2>3, <2>5, <2>6, <3>1, <3>2, <3>3, <3>4 DEF BufferSound
  <2> QED
    BY <2>2, <2>4, <2>7, <2>10 DEF b
<1>7. CASE ~(setup.keyed /\ at # 0)
  <2> DEFINE c == Append(b, row)
             x == IF setup.keyed THEN [acc.index EXCEPT ![row.key] = Len(b) + 1] ELSE acc.index
  <2>1. Push(acc, row) = [buffer |-> c, index |-> x, replaced |-> acc.replaced]
    BY <1>1, <1>7 DEF Push
  <2>2. /\ c \in Seq(Rows) /\ Len(c) = Len(b) + 1 /\ DOMAIN c = 1..Len(b) + 1
        /\ \A p \in DOMAIN b : c[p] = b[p] /\ p \in DOMAIN c
        /\ c[Len(b) + 1] = row /\ Len(b) + 1 \in DOMAIN c
        /\ \A p \in DOMAIN c : p = Len(b) + 1 \/ p \in DOMAIN b
    BY <1>1
  <2>3. /\ x \in [Keys -> 0..MaxRows]
        /\ setup.keyed => \A k \in Keys : x[k] = IF k = row.key THEN Len(b) + 1 ELSE acc.index[k]
        /\ ~setup.keyed => x = acc.index
    <3>1. Len(b) + 1 \in 0..MaxRows
      BY <1>1, <1>5
    <3> QED
      BY <1>1, <3>1
  <2>4. setup.keyed => row.key \in Keys /\ \A p \in DOMAIN b : b[p].key # row.key
    BY <1>4, <1>5, <1>7
  <2> HIDE DEF c, x, at, b
  <2>5. IdsOf(c) = IdsOf(b) \union {row.id}
    BY <2>2 DEF IdsOf
  <2>6. BatchSound(c, keysOf)
    <3>1. \A p \in DOMAIN c : /\ c[p].key = keysOf[c[p].id]
                              /\ setup.keyed <=> c[p].key # NoKey
      BY <1>2, <2>2
    <3>2. \A p, q \in DOMAIN c : p # q => /\ c[p].id # c[q].id
                                          /\ setup.keyed => c[p].key # c[q].key
      BY <1>2, <1>3, <2>2, <2>4
    <3> QED
      BY <3>1, <3>2 DEF BatchSound
  <2>7. IndexSound(c, x)
    <3> SUFFICES ASSUME NEW k \in Keys
                 PROVE  IF x[k] = 0 THEN \A p \in DOMAIN c : c[p].key # k
                        ELSE x[k] \in DOMAIN c /\ c[x[k]].key = k
      BY DEF IndexSound
    <3>1. CASE ~setup.keyed
      BY <1>2, <1>4, <1>5, <2>2, <2>3, <3>1
    <3>2. CASE setup.keyed /\ k = row.key
      BY <1>1, <2>2, <2>3, <3>2
    <3>3. CASE setup.keyed /\ k # row.key
      BY <1>4, <2>2, <2>3, <3>3
    <3> QED
      BY <3>1, <3>2, <3>3
  <2>8. IdsOf(b) \union acc.replaced \subseteq 1..count /\ IdsOf(b) \intersect acc.replaced = {}
    BY DEF BufferSound, b
  <2>9. 1..count \subseteq 1..count + 1 /\ row.id \in 1..count + 1
    OBVIOUS
  <2>10. BufferSound(Push(acc, row), keysOf, count + 1)
    <3>1. IdsOf(c) \union acc.replaced \subseteq 1..count + 1
      BY <2>5, <2>8, <2>9
    <3>2. IdsOf(c) \intersect acc.replaced = {}
      BY <1>2, <2>5, <2>8
    <3>3. Len(c) <= count + 1
      BY <1>1, <2>2
    <3> QED
      BY <1>1, <2>1, <2>2, <2>3, <2>6, <2>7, <3>1, <3>2, <3>3 DEF BufferSound
  <2> QED
    BY <2>1, <2>5, <2>10 DEF b
<1> QED
  BY <1>6, <1>7

\* The rows that a call pushes are numbered from the accepted ones on and have their keys.
LEMMA RowsPushed ==
    ASSUME TypeOK, NEW n \in Nat, NEW keys \in [1..n -> Keys \union {NoKey}],
           setup.keyed \/ KeysIn(keys) = {NoKey}
    PROVE  LET rows == Pushed(keys)
           IN  /\ keys \in Seq(Keys \union {NoKey}) /\ Len(keys) = n
               /\ rows = [m \in 1..Len(rows) |-> [id |-> accepted + m, key |-> keys[m]]]
               /\ Len(rows) \in 0..n
               /\ \A m \in 1..Len(rows) : setup.keyed <=> keys[m] # NoKey
<1> DEFINE missing == {m \in DOMAIN keys : setup.keyed /\ keys[m] = NoKey}
           count == IF missing = {} THEN Len(keys) ELSE Min(missing) - 1
           row(m) == [id |-> accepted + m, key |-> keys[m]]
<1>1. keys \in Seq(Keys \union {NoKey}) /\ Len(keys) = n /\ DOMAIN keys = 1..n
  OBVIOUS
<1>2. missing # {} => Min(missing) \in missing /\ \A m \in missing : Min(missing) <= m
  <2>1. missing \in SUBSET Nat
    BY <1>1
  <2> HIDE DEF missing
  <2> QED
    BY <2>1, LeastOf
<1>3. count \in 0..n /\ \A m \in 1..count : m \in 1..n /\ m \notin missing
  <2>1. missing \subseteq 1..n
    BY <1>1
  <2> HIDE DEF missing
  <2>2. CASE missing = {}
    BY <1>1, <2>2
  <2>3. CASE missing # {}
    <3> DEFINE least == Min(missing)
    <3>1. least \in 1..n /\ \A m \in missing : least <= m
      BY <1>2, <2>1, <2>3
    <3> HIDE DEF least
    <3>2. \A m \in 1..least - 1 : m \in 1..n /\ ~(least <= m)
      BY <3>1
    <3> QED
      BY <2>3, <3>1, <3>2 DEF least
  <2> QED
    BY <2>2, <2>3
<1>4. Pushed(keys) = [m \in 1..count |-> row(m)]
  BY DEF Pushed
<1>5. \A m \in 1..count : setup.keyed <=> keys[m] # NoKey
  <2>1. ~setup.keyed => \A m \in 1..n : keys[m] = NoKey
    BY <1>1 DEF KeysIn
  <2> QED
    BY <1>1, <1>3, <2>1
<1> HIDE DEF count, missing
<1>6. Len(Pushed(keys)) = count
  <2>1. [m \in 1..count |-> row(m)] \in Seq({row(m) : m \in 1..count})
    BY <1>3
  <2> QED
    BY <1>3, <1>4, <2>1
<1> QED
  BY <1>1, <1>3, <1>4, <1>5, <1>6

\* What Write makes of the buffer: it is sound, holds or replaced what it did and the new
\* rows, and forgets none of the replaced.
LEMMA PushedSound ==
    ASSUME TypeOK, BufferSound(Waiting, keyOf, accepted), NEW n \in Nat,
           NEW keys \in [1..n -> Keys \union {NoKey}],
           setup.keyed \/ KeysIn(keys) = {NoKey}, accepted + n <= MaxRows
    PROVE  LET rows == Pushed(keys)
               new == PushedAll(rows)
               more == keyOf \o [m \in DOMAIN rows |-> rows[m].key]
           IN  /\ Len(rows) \in 0..n
               /\ more \in Seq(Keys \union {NoKey}) /\ Len(more) = accepted + Len(rows)
               /\ \A r \in 1..accepted : more[r] = keyOf[r]
               /\ BufferSound(new, more, accepted + Len(rows))
               /\ IdsOf(new.buffer) \union new.replaced =
                     Buffered \union replaced \union (accepted + 1)..(accepted + Len(rows))
               /\ replaced \subseteq new.replaced
<1> DEFINE rows == Pushed(keys)
           N == Len(rows)
           keysHere == [m \in DOMAIN rows |-> rows[m].key]
           more == keyOf \o keysHere
<1>1. /\ keys \in Seq(Keys \union {NoKey}) /\ Len(keys) = n
      /\ rows = [m \in 1..N |-> [id |-> accepted + m, key |-> keys[m]]]
      /\ N \in 0..n
      /\ \A m \in 1..N : setup.keyed <=> keys[m] # NoKey
  BY RowsPushed
<1> HIDE DEF rows, N
<1>2. N \in Nat /\ accepted \in Nat /\ keyOf \in Seq(Keys \union {NoKey}) /\ Len(keyOf) = accepted
      /\ accepted + N <= MaxRows /\ MaxRows \in Nat
  BY <1>1, SinkAssumption DEF TypeOK
<1>3. \A m \in 1..N : /\ rows[m] = [id |-> accepted + m, key |-> keys[m]]
                      /\ keys[m] \in Keys \union {NoKey}
                      /\ accepted + m \in RowIds /\ rows[m] \in Rows
  BY <1>1, <1>2 DEF Rows, RowIds
<1>4. keysHere = [m \in 1..N |-> keys[m]] /\ DOMAIN rows = 1..N
  BY <1>1, <1>3
<1>5. keysHere \in Seq(Keys \union {NoKey}) /\ Len(keysHere) = N
      /\ \A m \in 1..N : keysHere[m] = keys[m]
  BY <1>2, <1>3, <1>4
<1> HIDE DEF keysHere
<1>6. /\ more \in Seq(Keys \union {NoKey}) /\ Len(more) = accepted + N
      /\ \A r \in 1..accepted : more[r] = keyOf[r]
      /\ \A m \in 1..N : more[accepted + m] = keys[m]
  <2>1. /\ more \in Seq(Keys \union {NoKey}) /\ Len(more) = accepted + N
        /\ \A r \in 1..accepted + N : more[r] = IF r <= accepted THEN keyOf[r]
                                                ELSE keysHere[r - accepted]
    BY <1>2, <1>5, ConcatProperties
  <2>2. \A m \in 1..N : /\ accepted + m \in 1..accepted + N /\ ~(accepted + m <= accepted)
                        /\ (accepted + m) - accepted = m
    BY <1>2
  <2>3. \A r \in 1..accepted : r \in 1..accepted + N /\ r <= accepted
    BY <1>2
  <2> HIDE DEF more
  <2> QED
    BY <1>5, <2>1, <2>2, <2>3
<1> HIDE DEF more
<1>7. PICK after : /\ after[0] = Waiting
                   /\ \A m \in 1..N : after[m] = Push(after[m - 1], rows[m])
                   /\ PushedAll(rows) = after[N]
  BY <1>2, PushedInTurn DEF N
<1> DEFINE Good(m) == /\ BufferSound(after[m], more, accepted + m)
                      /\ IdsOf(after[m].buffer) \union after[m].replaced =
                            Buffered \union replaced \union (accepted + 1)..(accepted + m)
                      /\ replaced \subseteq after[m].replaced
           Reached == {m \in Nat : m <= N => Good(m)}
<1>8. 0 \in Reached
  <2>1. BufferSound(Waiting, more, accepted)
    <3>1. \A p \in DOMAIN buffer : /\ buffer[p].id \in 1..accepted
                                   /\ buffer[p].key = keyOf[buffer[p].id]
      BY DEF BufferSound, BatchSound, IdsOf, Waiting
    <3>2. \A p \in DOMAIN buffer : buffer[p].key = more[buffer[p].id]
      BY <1>6, <3>1
    <3> QED
      BY <3>2 DEF BufferSound, BatchSound, Waiting
  <2>2. (accepted + 1)..(accepted + 0) = {} /\ accepted + 0 = accepted
    BY <1>2
  <2>3. Good(0)
    BY <1>7, <2>1, <2>2 DEF Waiting, Buffered
  <2> QED
    BY <2>3
<1>9. \A m \in Nat : m \in Reached => m + 1 \in Reached
  <2> SUFFICES ASSUME NEW m \in Nat, m \in Reached, m + 1 <= N
               PROVE  Good(m + 1)
    OBVIOUS
  <2> DEFINE count == accepted + m
             row == rows[m + 1]
             acc == after[m]
  <2>1. Good(m) /\ m + 1 \in 1..N /\ (m + 1) - 1 = m
    BY <1>2
  <2>2. after[m + 1] = Push(acc, row)
    BY <1>7, <2>1
  <2>3. /\ count \in Nat /\ count + 1 <= MaxRows /\ accepted + (m + 1) = count + 1
        /\ row \in Rows /\ row.id = count + 1 /\ row.key = keys[m + 1]
        /\ more[row.id] = keys[m + 1]
    <3>1. /\ row = [id |-> accepted + (m + 1), key |-> keys[m + 1]] /\ row \in Rows
          /\ more[accepted + (m + 1)] = keys[m + 1]
      BY <1>3, <1>6, <2>1
    <3>2. count \in Nat /\ accepted + (m + 1) = count + 1 /\ count + 1 <= MaxRows
      BY <1>2
    <3> HIDE DEF row, count
    <3> QED
      BY <3>1, <3>2
  <2>4. setup.keyed <=> row.key # NoKey
    BY <1>1, <2>1, <2>3
  <2>5. BufferSound(acc, more, count)
    BY <2>1
  <2>6. (accepted + 1)..(count + 1) = ((accepted + 1)..count) \union {count + 1}
    <3>1. count \in Nat /\ accepted <= count
      BY <1>2
    <3> HIDE DEF count
    <3> QED
      BY <1>2, <3>1
  <2> HIDE DEF count, row, acc
  <2>7. /\ BufferSound(Push(acc, row), more, count + 1)
        /\ IdsOf(Push(acc, row).buffer) \union Push(acc, row).replaced =
              IdsOf(acc.buffer) \union acc.replaced \union {row.id}
        /\ acc.replaced \subseteq Push(acc, row).replaced
    BY <2>3, <2>4, <2>5, PushSound
  <2>8. /\ IdsOf(acc.buffer) \union acc.replaced =
              Buffered \union replaced \union (accepted + 1)..count
        /\ replaced \subseteq acc.replaced
    BY <2>1 DEF acc, count
  <2> QED
    BY <2>2, <2>3, <2>6, <2>7, <2>8
<1>10. Good(N)
  <2>1. Nat \subseteq Reached
    <3> HIDE DEF Reached
    <3> QED
      BY <1>8, <1>9, AllNumbers
  <2> HIDE DEF Good
  <2> QED
    BY <1>2, <2>1
<1>11. BufferSound(PushedAll(rows), more, accepted + N)
       /\ IdsOf(PushedAll(rows).buffer) \union PushedAll(rows).replaced =
             Buffered \union replaced \union (accepted + 1)..(accepted + N)
       /\ replaced \subseteq PushedAll(rows).replaced
  BY <1>7, <1>10
<1> QED
  BY <1>1, <1>6, <1>11 DEF rows, N, more, keysHere

-----------------------------------------------------------------------------
(* What a call that fills or takes the buffer keeps. *)

\* Five sets are pairwise disjoint.
LEMMA PlacesApart ==
    ASSUME NEW a, NEW b, NEW c, NEW d, NEW e
    PROVE  Apart(<<a, b, c, d, e>>)
           <=> /\ a \intersect b = {} /\ a \intersect c = {} /\ a \intersect d = {}
               /\ a \intersect e = {} /\ b \intersect c = {} /\ b \intersect d = {}
               /\ b \intersect e = {} /\ c \intersect d = {} /\ c \intersect e = {}
               /\ d \intersect e = {}
<1> DEFINE places == <<a, b, c, d, e>>
<1>1. places[1] = a /\ places[2] = b /\ places[3] = c /\ places[4] = d /\ places[5] = e
  OBVIOUS
<1>2. \A n \in 1..5 : n = 1 \/ n = 2 \/ n = 3 \/ n = 4 \/ n = 5
  OBVIOUS
<1>3. 1 \in 1..5 /\ 2 \in 1..5 /\ 3 \in 1..5 /\ 4 \in 1..5 /\ 5 \in 1..5
  OBVIOUS
<1> HIDE DEF places
<1>4. (\A m, n \in 1..5 : m # n => places[m] \intersect places[n] = {})
      <=> /\ a \intersect b = {} /\ a \intersect c = {} /\ a \intersect d = {}
          /\ a \intersect e = {} /\ b \intersect c = {} /\ b \intersect d = {}
          /\ b \intersect e = {} /\ c \intersect d = {} /\ c \intersect e = {}
          /\ d \intersect e = {}
  BY <1>1, <1>2, <1>3
<1> QED
  BY <1>4 DEF places, Apart

\* Rows are in one place each.
LEMMA OnePlaceEach ==
    ASSUME RowsAccounted
    PROVE  /\ Buffered \intersect UnderWay = {} /\ Buffered \intersect written = {}
           /\ Buffered \intersect failed = {} /\ Buffered \intersect replaced = {}
           /\ UnderWay \intersect written = {} /\ UnderWay \intersect failed = {}
           /\ UnderWay \intersect replaced = {} /\ written \intersect failed = {}
           /\ written \intersect replaced = {} /\ failed \intersect replaced = {}
<1>1. Apart(<<Buffered, UnderWay, written, failed, replaced>>)
  BY DEF RowsAccounted
<1> QED
  BY <1>1, PlacesApart

\* The buffer is acc, of which the last count rows are new.
Filled(acc, keysOf, count) ==
    /\ count \in Nat /\ accepted + count <= MaxRows
    /\ keysOf \in Seq(Keys \union {NoKey}) /\ Len(keysOf) = accepted + count
    /\ \A r \in 1..accepted : keysOf[r] = keyOf[r]
    /\ BufferSound(acc, keysOf, accepted + count)
    /\ IdsOf(acc.buffer) \union acc.replaced =
          Buffered \union replaced \union (accepted + 1)..(accepted + count)
    /\ replaced \subseteq acc.replaced

\* The rows of a buffer that was filled are newer than what was taken, and in no other place;
\* none of them was stored, nor a replaced one.
LEMMA FilledApart ==
    ASSUME IInv, NEW acc, NEW keysOf, NEW count, Filled(acc, keysOf, count)
    PROVE  LET rows == IdsOf(acc.buffer)
           IN  /\ rows \intersect UnderWay = {} /\ rows \intersect written = {}
               /\ rows \intersect failed = {} /\ rows \intersect acc.replaced = {}
               /\ UnderWay \intersect acc.replaced = {} /\ written \intersect acc.replaced = {}
               /\ failed \intersect acc.replaced = {}
               /\ 1..accepted + count =
                     rows \union UnderWay \union written \union failed \union acc.replaced
               /\ \A b \in rows, r \in UnderWay \union written \union failed : r < b
               /\ \A r \in RowIds : r > accepted + count \/ r \in rows \union acc.replaced
                                       => copies[r] = 0
<1> DEFINE rows == IdsOf(acc.buffer)
           new == (accepted + 1)..(accepted + count)
           taken == UnderWay \union written \union failed
<1>1. /\ 1..accepted = Buffered \union taken \union replaced
      /\ rows \union acc.replaced = Buffered \union replaced \union new
      /\ replaced \subseteq acc.replaced /\ rows \intersect acc.replaced = {}
      /\ accepted \in Nat /\ count \in Nat
  BY SinkAssumption DEF IInv, TypeOK, RowsAccounted, Filled, BufferSound
<1>2. taken \intersect Buffered = {} /\ taken \intersect replaced = {}
  BY OnePlaceEach DEF IInv
<1>3. \A b \in Buffered, r \in taken : r < b
  BY DEF IInv, WaitingIsNewest
<1>4. \A r \in RowIds : r > accepted \/ r \in Buffered \union replaced => copies[r] = 0
  BY DEF IInv, NotYetStored
<1>5. 1..accepted + count = (1..accepted) \union new /\ (1..accepted) \intersect new = {}
  BY <1>1
<1>6. \A b \in new, r \in 1..accepted : r < b
  BY <1>1
<1>7. \A r \in RowIds : (r \in new \/ r > accepted + count) => r > accepted
  BY <1>1 DEF RowIds
<1> HIDE DEF rows, new, taken
<1>8. rows \subseteq Buffered \union new
  BY <1>1
<1>9. taken \intersect rows = {} /\ taken \intersect acc.replaced = {}
  BY <1>1, <1>2, <1>5
<1>10. 1..accepted + count = rows \union taken \union acc.replaced
  BY <1>1, <1>5
<1>11. \A b \in rows, r \in taken : r < b
  BY <1>1, <1>3, <1>6, <1>8
<1>12. \A r \in RowIds : r > accepted + count \/ r \in rows \union acc.replaced => copies[r] = 0
  BY <1>1, <1>4, <1>7
<1> QED
  BY <1>1, <1>9, <1>10, <1>11, <1>12 DEF rows, taken

\* The rows under way have their keys when more rows come.
LEMMA FilledFlights ==
    ASSUME IInv, NEW acc, NEW keysOf, NEW count, Filled(acc, keysOf, count)
    PROVE  /\ \A f \in flights : BatchSound(f.batch, keysOf)
           /\ \A r \in written : keysOf[r] = keyOf[r]
<1>1. 1..accepted = Buffered \union UnderWay \union written \union failed \union replaced
  BY DEF IInv, RowsAccounted
<1>2. \A r \in 1..accepted : keysOf[r] = keyOf[r]
  BY DEF Filled
<1>3. ASSUME NEW f \in flights PROVE BatchSound(f.batch, keysOf)
  <2>1. BatchSound(f.batch, keyOf)
    BY DEF IInv, FlightSound
  <2>2. \A p \in DOMAIN f.batch : f.batch[p].id \in 1..accepted
    BY <1>1 DEF UnderWay, IdsOf
  <2>3. \A p \in DOMAIN f.batch : keysOf[f.batch[p].id] = keyOf[f.batch[p].id]
    BY <1>2, <2>2
  <2> QED
    BY <2>1, <2>3 DEF BatchSound
<1> QED
  BY <1>1, <1>2, <1>3

\* A buffer that was filled and stays keeps the invariant.
LEMMA FilledStays ==
    ASSUME IInv, NEW acc, NEW keysOf, NEW count, Filled(acc, keysOf, count),
           buffer' = acc.buffer, index' = acc.index, replaced' = acc.replaced,
           accepted' = accepted + count, keyOf' = keysOf, closing' \in BOOLEAN,
           closed' \in BOOLEAN,
           UNCHANGED <<setup, flights, overlapped, written, failed, destination, retried>>
    PROVE  IInv'
<1> DEFINE rows == IdsOf(acc.buffer)
<1>1. /\ rows \intersect UnderWay = {} /\ rows \intersect written = {}
      /\ rows \intersect failed = {} /\ rows \intersect acc.replaced = {}
      /\ UnderWay \intersect acc.replaced = {} /\ written \intersect acc.replaced = {}
      /\ failed \intersect acc.replaced = {}
      /\ 1..accepted + count = rows \union UnderWay \union written \union failed \union acc.replaced
      /\ \A b \in rows, r \in UnderWay \union written \union failed : r < b
      /\ \A r \in RowIds : r > accepted + count \/ r \in rows \union acc.replaced => copies[r] = 0
  BY FilledApart
<1>2. (\A f \in flights : BatchSound(f.batch, keysOf)) /\ \A r \in written : keysOf[r] = keyOf[r]
  BY FilledFlights
<1>3. /\ Buffered' = rows /\ UnderWay' = UnderWay /\ Waiting' = acc
      /\ setup' = setup /\ flights' = flights /\ overlapped' = overlapped /\ written' = written
      /\ failed' = failed /\ table' = table /\ copies' = copies /\ retried' = retried
  BY DEF Buffered, UnderWay, destination, IdsOf, Waiting, Filled, BufferSound
<1>4. BufferSound(acc, keysOf, accepted + count)
  BY DEF Filled
<1>5. BufferSound(Waiting, keyOf, accepted)'
  BY <1>3, <1>4 DEF BufferSound, BatchSound, IndexSound
<1>6. TypeOK'
  <2>1. /\ accepted + count \in 0..MaxRows /\ keysOf \in Seq(Keys \union {NoKey})
        /\ Len(keysOf) = accepted + count
    BY SinkAssumption DEF Filled, IInv, TypeOK
  <2>2. /\ acc.buffer \in Seq(Rows) /\ acc.index \in [Keys -> 0..MaxRows]
        /\ acc.replaced \subseteq RowIds
        /\ \A k \in Keys : acc.index[k] # 0 => /\ acc.index[k] \in DOMAIN acc.buffer
                                               /\ acc.buffer[acc.index[k]].key = k
    BY <1>4 DEF BufferSound, IndexSound
  <2> QED
    BY <1>3, <2>1, <2>2 DEF IInv, TypeOK
<1>7. \A f \in flights' : FlightSound(f)'
  <2> SUFFICES ASSUME NEW f \in flights PROVE FlightSound(f)'
    BY <1>3
  <2>1. FlightSound(f)
    BY DEF IInv
  <2>2. BatchSound(f.batch, keyOf)'
    BY <1>2, <1>3 DEF BatchSound
  <2> QED
    BY <1>3, <2>1, <2>2 DEF FlightSound
<1>8. RowsAccounted'
  <2>1. Apart(<<rows, UnderWay, written, failed, acc.replaced>>)
    BY <1>1, OnePlaceEach, PlacesApart DEF IInv
  <2>2. /\ 1..accepted' = Buffered' \union UnderWay' \union written' \union failed' \union replaced'
        /\ \A r \in replaced' : copies'[r] = 0
    BY <1>1, <1>3, <1>4 DEF BufferSound
  <2>3. /\ \A f, g \in flights' : f = g \/ IdsOf(f.batch)' \intersect IdsOf(g.batch)' = {}
        /\ \A r \in written' : copies'[r] >= 1
        /\ \A r \in RowIds \ retried' : copies'[r] <= 1
    BY <1>3 DEF IInv, RowsAccounted, IdsOf
  <2>4. Apart(<<Buffered, UnderWay, written, failed, replaced>>)'
    BY <1>3, <2>1 DEF Apart
  <2> QED
    BY <2>2, <2>3, <2>4 DEF RowsAccounted
<1>9. NotYetStored' /\ WaitingIsNewest'
  BY <1>1, <1>3 DEF NotYetStored, WaitingIsNewest
<1>10. InOneFlight'
  BY <1>2, <1>3 DEF IInv, InOneFlight, KeysOf
<1>11. NewestWins'
  BY <1>2, <1>3 DEF IInv, NewestWins
<1> QED
  BY <1>5, <1>6, <1>7, <1>8, <1>9, <1>10, <1>11 DEF IInv

\* A buffer that was filled and is taken by a flush keeps the invariant.
LEMMA FilledGoes ==
    ASSUME IInv, NEW acc, NEW keysOf, NEW count, Filled(acc, keysOf, count),
           acc.buffer # <<>>, NEW forClose \in BOOLEAN, Take, Launch(acc.buffer, forClose),
           replaced' = acc.replaced, accepted' = accepted + count, keyOf' = keysOf,
           closing' \in BOOLEAN, closed' \in BOOLEAN,
           UNCHANGED <<setup, written, failed, destination, retried>>
    PROVE  IInv'
<1> DEFINE b == acc.buffer
           rows == IdsOf(b)
           new == [batch |-> b, attempt |-> 0, stored |-> 0, delayed |-> FALSE,
                   forClose |-> forClose]
<1>1. /\ rows \intersect UnderWay = {} /\ rows \intersect written = {}
      /\ rows \intersect failed = {} /\ rows \intersect acc.replaced = {}
      /\ UnderWay \intersect acc.replaced = {} /\ written \intersect acc.replaced = {}
      /\ failed \intersect acc.replaced = {}
      /\ 1..accepted + count = rows \union UnderWay \union written \union failed \union acc.replaced
      /\ \A i \in rows, r \in UnderWay \union written \union failed : r < i
      /\ \A r \in RowIds : r > accepted + count \/ r \in rows \union acc.replaced => copies[r] = 0
  BY FilledApart
<1>2. (\A f \in flights : BatchSound(f.batch, keysOf)) /\ \A r \in written : keysOf[r] = keyOf[r]
  BY FilledFlights
<1>3. /\ buffer' = <<>> /\ index' = NoIndex /\ flights' = flights \union {new}
      /\ overlapped' = overlapped \union
            {k \in KeysOf(b) \intersect Keys : \E f \in flights : k \in KeysOf(f.batch)}
      /\ setup' = setup /\ written' = written /\ failed' = failed /\ table' = table
      /\ copies' = copies /\ retried' = retried
  BY DEF Take, Launch, destination
<1>4. /\ BufferSound(acc, keysOf, accepted + count) /\ b \in Seq(Rows)
      /\ BatchSound(b, keysOf) /\ acc.replaced \in SUBSET RowIds
      /\ accepted + count \in 0..MaxRows /\ MaxRows \in Nat
      /\ keysOf \in Seq(Keys \union {NoKey}) /\ Len(keysOf) = accepted + count
  BY SinkAssumption DEF Filled, BufferSound, IInv, TypeOK
<1>5. new \in Flights
  BY <1>4, SinkAssumption DEF Flights
<1>6. /\ Buffered' = {} /\ UnderWay' = UnderWay \union rows
      /\ Waiting' = [buffer |-> <<>>, index |-> NoIndex, replaced |-> acc.replaced]
  <2>1. Buffered' = {} /\ Waiting' = [buffer |-> <<>>, index |-> NoIndex, replaced |-> acc.replaced]
    BY <1>3 DEF Buffered, IdsOf, Waiting
  <2>2. IdsOf(new.batch) = rows
    OBVIOUS
  <2> HIDE DEF new, rows
  <2>3. UnderWay' = UnderWay \union IdsOf(new.batch)
    BY <1>3 DEF UnderWay, IdsOf
  <2> QED
    BY <2>1, <2>2, <2>3
<1>7. BufferSound(Waiting, keyOf, accepted)'
  <2>1. NoIndex \in [Keys -> 0..MaxRows] /\ \A k \in Keys : NoIndex[k] = 0
    BY <1>4 DEF NoIndex
  <2>2. <<>> \in Seq(Rows) /\ Len(<<>>) = 0 /\ DOMAIN <<>> = {}
    OBVIOUS
  <2>3. acc.replaced \subseteq 1..accepted + count /\ 0 <= accepted + count
    BY <1>4 DEF BufferSound
  <2> QED
    BY <1>4, <1>6, <2>1, <2>2, <2>3 DEF BufferSound, BatchSound, IndexSound, IdsOf
<1>8. TypeOK'
  <2>1. index' \in [Keys -> 0..MaxRows] /\ \A k \in Keys : index'[k] = 0
    BY <1>3, <1>4 DEF NoIndex
  <2>2. overlapped' \subseteq Keys
    BY <1>3 DEF IInv, TypeOK
  <2> HIDE DEF new, b
  <2>3. flights' \subseteq Flights /\ buffer' \in Seq(Rows)
    BY <1>3, <1>5 DEF IInv, TypeOK
  <2>4. replaced' \subseteq RowIds /\ accepted' \in 0..MaxRows
        /\ keyOf' \in Seq(Keys \union {NoKey}) /\ Len(keyOf') = accepted'
    BY <1>4
  <2>5. /\ setup' \in Setups /\ written' \subseteq RowIds /\ failed' \subseteq RowIds
        /\ table' \in [Keys -> 0..MaxRows] /\ copies' \in [RowIds -> Nat] /\ retried' \subseteq RowIds
    BY <1>3 DEF IInv, TypeOK
  <2> QED
    BY <2>1, <2>2, <2>3, <2>4, <2>5 DEF TypeOK
<1>9. \A f \in flights' : FlightSound(f)'
  <2>1. ASSUME NEW f \in flights PROVE FlightSound(f)'
    <3>1. FlightSound(f)
      BY DEF IInv
    <3>2. BatchSound(f.batch, keyOf)'
      BY <1>2, <1>3 DEF BatchSound
    <3> QED
      BY <1>3, <3>1, <3>2 DEF FlightSound
  <2>2. FlightSound(new)'
    <3>1. BatchSound(b, keyOf)'
      BY <1>3, <1>4 DEF BatchSound
    <3>2. \A p \in DOMAIN b : /\ b[p].id \in RowIds /\ copies[b[p].id] = 0 /\ ~(p <= 0)
      <4> HIDE DEF b
      <4>1. \A p \in DOMAIN b : b[p].id \in rows /\ b[p] \in Rows /\ p \in 1..Len(b)
        BY <1>4 DEF IdsOf
      <4>2. \A p \in DOMAIN b : b[p].id \in rows /\ b[p].id \in RowIds /\ ~(p <= 0)
        BY <4>1 DEF Rows
      <4> HIDE DEF rows
      <4> QED
        BY <1>1, <4>2
    <3>3. Len(b) \in Nat
      BY <1>4
    <3> QED
      BY <1>3, <3>1, <3>2, <3>3 DEF FlightSound
  <2> QED
    BY <1>3, <2>1, <2>2
<1>10. RowsAccounted'
  <2>1. Apart(<<{}, UnderWay \union rows, written, failed, acc.replaced>>)
    <3>1. /\ (UnderWay \union rows) \intersect written = {}
          /\ (UnderWay \union rows) \intersect failed = {}
          /\ (UnderWay \union rows) \intersect acc.replaced = {}
          /\ written \intersect failed = {}
      BY <1>1, OnePlaceEach DEF IInv
    <3> QED
      BY <1>1, <3>1, PlacesApart
  <2>2. /\ 1..accepted' = Buffered' \union UnderWay' \union written' \union failed' \union replaced'
        /\ \A r \in replaced' : copies'[r] = 0
    BY <1>1, <1>3, <1>4, <1>6
  <2>3. /\ \A r \in written' : copies'[r] >= 1
        /\ \A r \in RowIds \ retried' : copies'[r] <= 1
    BY <1>3 DEF IInv, RowsAccounted
  <2>4. \A f, g \in flights' : f = g \/ IdsOf(f.batch)' \intersect IdsOf(g.batch)' = {}
    <3>1. \A f \in flights : IdsOf(f.batch) \intersect rows = {}
      BY <1>1 DEF UnderWay
    <3>2. \A f, g \in flights : f = g \/ IdsOf(f.batch) \intersect IdsOf(g.batch) = {}
      BY DEF IInv, RowsAccounted
    <3>3. rows = IdsOf(new.batch)
      OBVIOUS
    <3> HIDE DEF rows, new
    <3>4. \A f, g \in flights \union {new} :
             f = g \/ IdsOf(f.batch) \intersect IdsOf(g.batch) = {}
      BY <3>1, <3>2, <3>3
    <3> QED
      BY <1>3, <3>4 DEF IdsOf
  <2>5. Apart(<<Buffered, UnderWay, written, failed, replaced>>)'
    BY <1>3, <1>6, <2>1 DEF Apart
  <2> QED
    BY <2>2, <2>3, <2>4, <2>5 DEF RowsAccounted
<1>11. NotYetStored' /\ WaitingIsNewest'
  BY <1>1, <1>3, <1>6 DEF NotYetStored, WaitingIsNewest
<1>12. InOneFlight'
  <2> SUFFICES ASSUME NEW k \in Keys \ overlapped', NEW f \in flights \union {new},
                      k \in KeysOf(f.batch)
               PROVE  /\ \A g \in flights \union {new} : k \in KeysOf(g.batch) => f = g
                      /\ \A p \in DOMAIN f.batch : f.batch[p].key = k =>
                            /\ p <= f.stored => table[k] >= f.batch[p].id
                            /\ \A r \in written : keysOf[r] = k => r < f.batch[p].id
    BY <1>3 DEF InOneFlight, KeysOf
  <2>1. k \notin overlapped /\ ~(k \in KeysOf(b) /\ \E g \in flights : k \in KeysOf(g.batch))
    BY <1>3
  <2>2. new.batch = b /\ new.stored = 0
    OBVIOUS
  <2> HIDE DEF new
  <2>3. CASE f \in flights
    BY <1>2, <2>1, <2>2, <2>3 DEF IInv, InOneFlight
  <2>4. CASE f = new
    <3>1. \A p \in DOMAIN b : b[p].id \in rows /\ p \in Nat /\ p >= 1
      BY <1>4 DEF IdsOf
    <3> QED
      BY <1>1, <2>1, <2>2, <2>4, <3>1
  <2> QED
    BY <2>3, <2>4
<1>13. NewestWins'
  BY <1>2, <1>3 DEF IInv, NewestWins
<1> QED
  BY <1>7, <1>8, <1>9, <1>10, <1>11, <1>12, <1>13 DEF IInv

-----------------------------------------------------------------------------
(* What an answer of the driver keeps. *)

\* A flush that goes on, with the same batch, keeps the invariant when what it stored is right
\* for it and touches no other batch.
LEMMA GoesOn ==
    ASSUME IInv, NEW f \in flights, NEW g \in Flights, g.batch = f.batch,
           flights' = (flights \ {f}) \union {g}, FlightSound(g)',
           table' \in [Keys -> 0..MaxRows], copies' \in [RowIds -> Nat],
           retried \subseteq retried', retried' \subseteq RowIds,
           \A r \in RowIds \ IdsOf(f.batch) : copies'[r] = copies[r],
           \A k \in Keys : \/ table'[k] = table[k]
                           \/ \E p \in DOMAIN f.batch : /\ f.batch[p].key = k
                                                        /\ table'[k] = f.batch[p].id,
           \A p \in DOMAIN f.batch : f.batch[p].key \in Keys \ overlapped /\ p <= g.stored =>
               table'[f.batch[p].key] >= f.batch[p].id,
           UNCHANGED <<setup, buffer, index, closing, closed, accepted, keyOf, stats, overlapped>>
    PROVE  IInv'
<1> DEFINE ids == IdsOf(f.batch)
<1>1. /\ setup' = setup /\ buffer' = buffer /\ index' = index /\ closing' = closing
      /\ closed' = closed /\ accepted' = accepted /\ keyOf' = keyOf /\ written' = written
      /\ failed' = failed /\ replaced' = replaced /\ overlapped' = overlapped
  BY DEF stats
<1>2. IdsOf(g.batch) = ids /\ KeysOf(g.batch) = KeysOf(f.batch)
  OBVIOUS
<1>3. /\ UnderWay' = UnderWay /\ Buffered' = Buffered /\ Waiting' = Waiting
  <2>1. Buffered' = Buffered /\ Waiting' = Waiting
    BY <1>1 DEF Buffered, Waiting, IdsOf
  <2>2. UnderWay' = UNION {IdsOf(h.batch) : h \in flights'}
    BY DEF UnderWay, IdsOf
  <2> QED
    BY <1>2, <2>1, <2>2 DEF UnderWay
<1>4. ids \subseteq UnderWay /\ ids \subseteq RowIds
  <2>1. f.batch \in Seq(Rows)
    BY DEF IInv, TypeOK, Flights
  <2>2. \A p \in DOMAIN f.batch : f.batch[p] \in Rows
    BY <2>1
  <2> QED
    BY <2>2 DEF UnderWay, IdsOf, Rows
<1>5. \A h \in flights : h = f \/ IdsOf(h.batch) \intersect ids = {}
  BY DEF IInv, RowsAccounted
<1>6. TypeOK'
  BY <1>1 DEF IInv, TypeOK
<1>7. BufferSound(Waiting, keyOf, accepted)'
  BY <1>1, <1>3 DEF IInv, BufferSound, BatchSound, IndexSound, IdsOf
<1>8. ASSUME NEW h \in flights \ {f} PROVE FlightSound(h)'
  <2>1. FlightSound(h) /\ h.batch \in Seq(Rows)
    BY DEF IInv, TypeOK, Flights
  <2>2. \A p \in DOMAIN h.batch : h.batch[p].id \in RowIds /\ h.batch[p].id \notin ids
    <3>1. \A p \in DOMAIN h.batch : h.batch[p] \in Rows /\ h.batch[p].id \in IdsOf(h.batch)
      BY <2>1 DEF IdsOf
    <3> QED
      BY <1>5, <3>1 DEF Rows
  <2>3. \A p \in DOMAIN h.batch : copies'[h.batch[p].id] = copies[h.batch[p].id]
    BY <2>2
  <2> QED
    BY <1>1, <2>1, <2>3 DEF FlightSound, BatchSound, IdsOf
<1>9. RowsAccounted'
  <2>1. Apart(<<Buffered, UnderWay, written, failed, replaced>>)'
    BY <1>1, <1>3 DEF IInv, RowsAccounted, Apart
  <2>2. 1..accepted' = Buffered' \union UnderWay' \union written' \union failed' \union replaced'
    BY <1>1, <1>3 DEF IInv, RowsAccounted
  <2>3. \A h, i \in flights' : h = i \/ IdsOf(h.batch)' \intersect IdsOf(i.batch)' = {}
    <3>1. \A h, i \in flights : h = i \/ IdsOf(h.batch) \intersect IdsOf(i.batch) = {}
      BY DEF IInv, RowsAccounted
    <3> HIDE DEF ids
    <3>2. \A h, i \in (flights \ {f}) \union {g} : h = i \/ IdsOf(h.batch) \intersect IdsOf(i.batch) = {}
      BY <1>2, <1>5, <3>1
    <3> QED
      BY <3>2 DEF IdsOf
  <2>4. \A r \in written' \union replaced' : r \in RowIds /\ copies'[r] = copies[r]
    BY <1>1, <1>4, OnePlaceEach DEF IInv, TypeOK
  <2>5. \A r \in RowIds \ retried' : copies'[r] <= 1
    <3>1. \A r \in RowIds \ retried' : r \notin ids => copies'[r] <= 1
      BY DEF IInv, RowsAccounted
    <3>2. \A p \in DOMAIN g.batch : g.batch[p].id \notin retried' => copies'[g.batch[p].id] <= 1
      BY DEF FlightSound
    <3> QED
      BY <1>2, <3>1, <3>2 DEF IdsOf
  <2> QED
    BY <1>1, <2>1, <2>2, <2>3, <2>4, <2>5 DEF IInv, RowsAccounted
<1>10. NotYetStored'
  <2>1. \A r \in RowIds : r > accepted \/ r \in Buffered \union replaced => r \notin ids
    <3>1. UnderWay \subseteq 1..accepted /\ accepted \in Nat
      BY SinkAssumption DEF IInv, RowsAccounted, TypeOK
    <3>2. \A r \in UnderWay : ~(r > accepted)
      BY <3>1
    <3> QED
      BY <1>4, <3>2, OnePlaceEach DEF IInv
  <2> QED
    BY <1>1, <1>3, <2>1 DEF IInv, NotYetStored
<1>11. WaitingIsNewest'
  BY <1>1, <1>3 DEF IInv, WaitingIsNewest
<1>12. InOneFlight'
  <2> SUFFICES ASSUME NEW k \in Keys \ overlapped, NEW h \in flights', k \in KeysOf(h.batch)
               PROVE  /\ \A i \in flights' : k \in KeysOf(i.batch) => h = i
                      /\ \A p \in DOMAIN h.batch : h.batch[p].key = k =>
                            /\ p <= h.stored => table'[k] >= h.batch[p].id
                            /\ \A r \in written : keyOf[r] = k => r < h.batch[p].id
    BY <1>1 DEF InOneFlight, KeysOf
  <2>1. \A h1, h2 \in flights : k \in KeysOf(h1.batch) /\ k \in KeysOf(h2.batch) => h1 = h2
    BY DEF IInv, InOneFlight
  <2>2. \A i \in flights' : k \in KeysOf(i.batch) => h = i
    BY <1>2, <2>1
  <2>3. CASE h = g
    BY <1>2, <2>2, <2>3 DEF IInv, InOneFlight
  <2>4. CASE h # g
    <3>1. h \in flights /\ k \notin KeysOf(f.batch)
      BY <1>2, <2>1, <2>4
    <3>2. table'[k] = table[k]
      BY <3>1 DEF KeysOf
    <3> QED
      BY <2>2, <3>1, <3>2 DEF IInv, InOneFlight
  <2> QED
    BY <2>3, <2>4
<1>13. NewestWins'
  <2> SUFFICES ASSUME setup.keyed, NEW k \in Keys \ overlapped, NEW r \in written, keyOf[r] = k
               PROVE  table'[k] >= r
    BY <1>1 DEF NewestWins
  <2>1. table[k] >= r
    BY DEF IInv, NewestWins
  <2>2. ASSUME NEW p \in DOMAIN f.batch, f.batch[p].key = k, table'[k] = f.batch[p].id
        PROVE  table'[k] >= r
    <3>1. k \in KeysOf(f.batch)
      BY <2>2 DEF KeysOf
    <3>2. r < f.batch[p].id /\ r \in Nat /\ f.batch[p].id \in Nat
      <4>1. f.batch[p].id \in ids
        BY DEF IdsOf
      <4> QED
        BY <1>4, <2>2, <3>1, <4>1 DEF IInv, InOneFlight, TypeOK, RowIds
    <3> QED
      BY <2>2, <3>2
  <2> QED
    BY <2>1, <2>2
<1>14. \A h \in flights' : FlightSound(h)'
  BY <1>8
<1> QED
  BY <1>6, <1>7, <1>9, <1>10, <1>11, <1>12, <1>13, <1>14 DEF IInv

\* A flush that ends leaves its rows with those it is counted with.
LEMMA Ends ==
    ASSUME IInv, NEW f \in flights, flights' = flights \ {f},
           \/ /\ written' = written \union IdsOf(f.batch) /\ failed' = failed
              /\ retried' = retried /\ f.stored = Len(f.batch)
           \/ /\ written' = written /\ failed' = failed \union IdsOf(f.batch)
              /\ retried' = retried \union IdsOf(f.batch),
           UNCHANGED <<setup, buffer, index, closing, closed, accepted, keyOf, replaced,
                       destination, overlapped>>
    PROVE  IInv'
<1> DEFINE ids == IdsOf(f.batch)
<1>1. /\ setup' = setup /\ buffer' = buffer /\ index' = index /\ closing' = closing
      /\ closed' = closed /\ accepted' = accepted /\ keyOf' = keyOf
      /\ replaced' = replaced /\ overlapped' = overlapped /\ table' = table /\ copies' = copies
  BY DEF destination
<1>2. f \in Flights /\ f.batch \in Seq(Rows) /\ f.stored \in Nat /\ Len(f.batch) \in Nat
      /\ DOMAIN f.batch = 1..Len(f.batch)
  BY DEF IInv, TypeOK, Flights
<1>3. ids \subseteq UnderWay /\ ids \subseteq RowIds
  <2>1. \A p \in DOMAIN f.batch : f.batch[p] \in Rows
    BY <1>2
  <2> QED
    BY <2>1 DEF UnderWay, IdsOf, Rows
<1>4. \A h \in flights : h = f \/ IdsOf(h.batch) \intersect ids = {}
  BY DEF IInv, RowsAccounted
<1>5. UnderWay' = UnderWay \ ids /\ Buffered' = Buffered /\ Waiting' = Waiting
  <2>1. Buffered' = Buffered /\ Waiting' = Waiting
    BY <1>1 DEF Buffered, Waiting, IdsOf
  <2>2. UnderWay' = UNION {IdsOf(h.batch) : h \in flights \ {f}}
    BY DEF UnderWay, IdsOf
  <2> HIDE DEF ids
  <2>3. UNION {IdsOf(h.batch) : h \in flights \ {f}} = UnderWay \ ids
    BY <1>4 DEF UnderWay, ids
  <2> QED
    BY <2>1, <2>2, <2>3
<1>6. written' \union failed' = written \union failed \union ids /\ written \subseteq written'
      /\ failed \subseteq failed' /\ retried \subseteq retried' /\ retried' \subseteq RowIds
      /\ written' \subseteq RowIds /\ failed' \subseteq RowIds
      /\ written' \intersect failed' = {}
  BY <1>3, OnePlaceEach DEF IInv, TypeOK
<1>7. TypeOK'
  BY <1>1, <1>6 DEF IInv, TypeOK
<1>8. BufferSound(Waiting, keyOf, accepted)'
  BY <1>1, <1>5 DEF IInv, BufferSound, BatchSound, IndexSound, IdsOf
<1>9. ASSUME NEW h \in flights' PROVE FlightSound(h)'
  BY <1>1, <1>6 DEF IInv, FlightSound, BatchSound, IdsOf
<1>10. \A p \in DOMAIN f.batch : written' # written =>
           /\ copies[f.batch[p].id] >= 1
           /\ f.batch[p].key \in Keys \ overlapped => table[f.batch[p].key] >= f.batch[p].id
  <2> SUFFICES ASSUME NEW p \in DOMAIN f.batch, written' # written
               PROVE  /\ copies[f.batch[p].id] >= 1
                      /\ f.batch[p].key \in Keys \ overlapped =>
                            table[f.batch[p].key] >= f.batch[p].id
    OBVIOUS
  <2>1. p <= f.stored
    BY <1>2
  <2>2. f.batch[p].key \in KeysOf(f.batch)
    BY DEF KeysOf
  <2> QED
    BY <2>1, <2>2 DEF IInv, FlightSound, InOneFlight
<1>11. RowsAccounted'
  <2>1. Apart(<<Buffered, UnderWay, written, failed, replaced>>)'
    <3>1. /\ Buffered' \intersect UnderWay' = {} /\ Buffered' \intersect written' = {}
          /\ Buffered' \intersect failed' = {} /\ Buffered' \intersect replaced' = {}
          /\ UnderWay' \intersect written' = {} /\ UnderWay' \intersect failed' = {}
          /\ UnderWay' \intersect replaced' = {} /\ written' \intersect failed' = {}
          /\ written' \intersect replaced' = {} /\ failed' \intersect replaced' = {}
      <4> HIDE DEF ids
      <4> QED
        BY <1>1, <1>3, <1>5, <1>6, OnePlaceEach DEF IInv
    <3>2. Apart(<<Buffered', UnderWay', written', failed', replaced'>>)
      BY <3>1, PlacesApart
    <3> QED
      BY <3>2 DEF Apart
  <2>2. 1..accepted' = Buffered' \union UnderWay' \union written' \union failed' \union replaced'
    <3> HIDE DEF ids
    <3> QED
      BY <1>1, <1>3, <1>5, <1>6 DEF IInv, RowsAccounted
  <2>3. \A h, i \in flights' : h = i \/ IdsOf(h.batch)' \intersect IdsOf(i.batch)' = {}
    BY DEF IInv, RowsAccounted, IdsOf
  <2>4. \A r \in written' : copies'[r] >= 1
    <3>1. \A r \in written : copies[r] >= 1
      BY DEF IInv, RowsAccounted
    <3>2. written' = written \/ (written' = written \union ids /\ \A r \in ids : copies[r] >= 1)
      BY <1>10 DEF IdsOf
    <3> QED
      BY <1>1, <3>1, <3>2
  <2>5. /\ \A r \in RowIds \ retried' : copies'[r] <= 1
        /\ \A r \in replaced' : copies'[r] = 0
    BY <1>1, <1>6 DEF IInv, RowsAccounted
  <2> QED
    BY <2>1, <2>2, <2>3, <2>4, <2>5 DEF RowsAccounted
<1>12. NotYetStored'
  BY <1>1, <1>5 DEF IInv, NotYetStored
<1>13. WaitingIsNewest'
  <2>1. UnderWay' \union written' \union failed' = UnderWay \union written \union failed
    BY <1>3, <1>5, <1>6
  <2> QED
    BY <1>5, <2>1 DEF IInv, WaitingIsNewest
<1>14. InOneFlight'
  <2> SUFFICES ASSUME NEW k \in Keys \ overlapped, NEW h \in flights \ {f}, k \in KeysOf(h.batch)
               PROVE  /\ \A i \in flights \ {f} : k \in KeysOf(i.batch) => h = i
                      /\ \A p \in DOMAIN h.batch : h.batch[p].key = k =>
                            /\ p <= h.stored => table[k] >= h.batch[p].id
                            /\ \A r \in written' : keyOf[r] = k => r < h.batch[p].id
    BY <1>1 DEF InOneFlight, KeysOf
  <2>1. k \notin KeysOf(f.batch)
    BY DEF IInv, InOneFlight
  <2>2. \A r \in ids : keyOf[r] # k
    BY <2>1 DEF IInv, FlightSound, BatchSound, IdsOf, KeysOf
  <2>3. \A r \in written' : keyOf[r] = k => r \in written
    BY <2>2
  <2> QED
    BY <2>3 DEF IInv, InOneFlight
<1>15. NewestWins'
  <2> SUFFICES ASSUME setup.keyed, NEW k \in Keys \ overlapped, NEW r \in written', keyOf[r] = k
               PROVE  table[k] >= r
    BY <1>1 DEF NewestWins
  <2>1. CASE r \in written
    BY <2>1 DEF IInv, NewestWins
  <2>2. CASE r \notin written
    <3>1. r \in ids /\ written' # written
      BY <2>2
    <3>2. PICK p \in DOMAIN f.batch : f.batch[p].id = r
      BY <3>1 DEF IdsOf
    <3>3. f.batch[p].key = k
      BY <3>2 DEF IInv, FlightSound, BatchSound
    <3> QED
      BY <1>10, <3>1, <3>2, <3>3
  <2> QED
    BY <2>1, <2>2
<1> QED
  BY <1>7, <1>8, <1>9, <1>11, <1>12, <1>13, <1>14, <1>15 DEF IInv

-----------------------------------------------------------------------------
(* The invariant, action by action. *)

\* An empty sink has the invariant.
LEMMA Initially == Init => IInv
<1> SUFFICES ASSUME Init PROVE IInv
  OBVIOUS
<1>1. MaxRows \in Nat
  BY SinkAssumption
<1>2. /\ setup \in Setups /\ buffer = <<>> /\ index = NoIndex /\ flights = {} /\ closing = FALSE
      /\ closed = FALSE /\ accepted = 0 /\ keyOf = <<>> /\ written = {} /\ failed = {}
      /\ replaced = {} /\ retried = {} /\ overlapped = {}
      /\ table = [k \in Keys |-> 0] /\ copies = [r \in RowIds |-> 0]
  BY DEF Init
<1>3. NoIndex \in [Keys -> 0..MaxRows] /\ \A k \in Keys : NoIndex[k] = 0
  BY <1>1 DEF NoIndex
<1>4. buffer \in Seq(Rows) /\ Len(buffer) = 0 /\ DOMAIN buffer = {} /\ IdsOf(buffer) = {}
  BY <1>2 DEF IdsOf
<1>5. TypeOK
  <2>1. keyOf \in Seq(Keys \union {NoKey}) /\ Len(keyOf) = accepted /\ accepted \in 0..MaxRows
    BY <1>1, <1>2
  <2>2. table \in [Keys -> 0..MaxRows] /\ copies \in [RowIds -> Nat]
    BY <1>1, <1>2
  <2> QED
    BY <1>2, <1>3, <1>4, <2>1, <2>2 DEF TypeOK
<1>6. BufferSound(Waiting, keyOf, accepted)
  BY <1>1, <1>2, <1>3, <1>4 DEF BufferSound, BatchSound, IndexSound, Waiting
<1>7. RowsAccounted
  <2>1. Buffered = {} /\ UnderWay = {}
    BY <1>2, <1>4 DEF Buffered, UnderWay
  <2>2. Apart(<<Buffered, UnderWay, written, failed, replaced>>)
    BY <1>2, <2>1, PlacesApart
  <2>3. 1..accepted = {}
    BY <1>2
  <2>4. \A r \in RowIds : copies[r] = 0
    BY <1>2
  <2> QED
    BY <1>2, <2>1, <2>2, <2>3, <2>4 DEF RowsAccounted
<1>8. NotYetStored /\ WaitingIsNewest /\ InOneFlight /\ NewestWins /\ \A f \in flights : FlightSound(f)
  BY <1>2, <1>4 DEF NotYetStored, WaitingIsNewest, InOneFlight, NewestWins, Buffered
<1> QED
  BY <1>5, <1>6, <1>7, <1>8 DEF IInv

\* What waits is a buffer that was filled with no row more.
LEMMA WaitingFilled == IInv => Filled(Waiting, keyOf, 0)
<1> SUFFICES ASSUME IInv PROVE Filled(Waiting, keyOf, 0)
  OBVIOUS
<1>1. accepted \in Nat /\ accepted <= MaxRows /\ accepted + 0 = accepted
      /\ (accepted + 1)..(accepted + 0) = {} /\ MaxRows \in Nat
  BY SinkAssumption DEF IInv, TypeOK
<1>2. IdsOf(Waiting.buffer) = Buffered /\ Waiting.replaced = replaced
  BY DEF Waiting, Buffered
<1> QED
  BY <1>1, <1>2 DEF Filled, IInv, TypeOK

\* A call of write keeps it: its rows are pushed one by one, and what the buffer has become is
\* left there or taken for a flush.
LEMMA Writes ==
    ASSUME IInv, NEW n \in 1..MaxPerCall, NEW keys \in [1..n -> Keys \union {NoKey}], Write(keys)
    PROVE  IInv'
<1> DEFINE rows == Pushed(keys)
           acc == PushedAll(rows)
           more == keyOf \o [m \in DOMAIN rows |-> rows[m].key]
<1>1. n \in Nat /\ Len(keys) = n
  BY SinkAssumption
<1>2. /\ Len(rows) \in 0..n
      /\ more \in Seq(Keys \union {NoKey}) /\ Len(more) = accepted + Len(rows)
      /\ \A r \in 1..accepted : more[r] = keyOf[r]
      /\ BufferSound(acc, more, accepted + Len(rows))
      /\ IdsOf(acc.buffer) \union acc.replaced =
            Buffered \union replaced \union (accepted + 1)..(accepted + Len(rows))
      /\ replaced \subseteq acc.replaced
  <2>1. /\ TypeOK /\ BufferSound(Waiting, keyOf, accepted)
        /\ setup.keyed \/ KeysIn(keys) = {NoKey}
        /\ accepted + n <= MaxRows
    BY <1>1 DEF IInv, Write
  <2> QED
    BY <1>1, <2>1, PushedSound
<1>3. accepted + n <= MaxRows /\ accepted \in Nat /\ MaxRows \in Nat
  BY <1>1, SinkAssumption DEF Write, IInv, TypeOK
<1>4. /\ replaced' = acc.replaced /\ accepted' = accepted + Len(rows) /\ keyOf' = more
      /\ closing' \in BOOLEAN /\ closed' \in BOOLEAN
      /\ setup' = setup /\ written' = written /\ failed' = failed /\ retried' = retried
      /\ UNCHANGED destination
      /\ \/ /\ Len(rows) = Len(keys) /\ Len(acc.buffer) >= BatchSize
            /\ Take /\ Launch(acc.buffer, FALSE)
         \/ buffer' = acc.buffer /\ index' = acc.index /\ UNCHANGED <<flights, overlapped>>
  BY DEF Write, IInv, TypeOK
<1> HIDE DEF rows, acc, more
<1>5. Filled(acc, more, Len(rows))
  BY <1>2, <1>3 DEF Filled
<1>6. CASE /\ Len(rows) = Len(keys) /\ Len(acc.buffer) >= BatchSize
           /\ Take /\ Launch(acc.buffer, FALSE)
  <2>1. acc.buffer # <<>>
    BY <1>6, SinkAssumption
  <2>2. UNCHANGED <<setup, written, failed, destination, retried>> /\ FALSE \in BOOLEAN
    BY <1>4
  <2> QED
    BY <1>4, <1>5, <1>6, <2>1, <2>2, FilledGoes
<1>7. CASE buffer' = acc.buffer /\ index' = acc.index /\ UNCHANGED <<flights, overlapped>>
  <2>1. UNCHANGED <<setup, flights, overlapped, written, failed, destination, retried>>
    BY <1>4, <1>7
  <2> QED
    BY <1>4, <1>5, <1>7, <2>1, FilledStays
<1> QED
  BY <1>4, <1>6, <1>7

\* A flush takes what waits, whoever calls it.
LEMMA Flushes ==
    ASSUME IInv, buffer # <<>>, NEW forClose \in BOOLEAN, Take, Launch(buffer, forClose),
           closing' \in BOOLEAN, closed' \in BOOLEAN,
           UNCHANGED <<setup, accepted, keyOf, stats, destination, retried>>
    PROVE  IInv'
<1>1. Waiting.buffer = buffer /\ Waiting.replaced = replaced
  BY DEF Waiting
<1>2. Filled(Waiting, keyOf, 0)
  BY WaitingFilled
<1>3. /\ replaced' = Waiting.replaced /\ accepted' = accepted + 0 /\ keyOf' = keyOf
      /\ UNCHANGED <<setup, written, failed, destination, retried>>
  BY <1>1, SinkAssumption DEF stats, IInv, TypeOK
<1> HIDE DEF Waiting
<1> QED
  BY <1>1, <1>2, <1>3, FilledGoes

\* A step that only closes keeps the invariant.
LEMMA OnlyCloses ==
    ASSUME IInv, closing' \in BOOLEAN, closed' \in BOOLEAN,
           UNCHANGED <<setup, buffer, index, flights, overlapped, accepted, keyOf, stats,
                       destination, retried>>
    PROVE  IInv'
<1>1. Waiting.buffer = buffer /\ Waiting.index = index /\ Waiting.replaced = replaced
  BY DEF Waiting
<1>2. Filled(Waiting, keyOf, 0)
  BY WaitingFilled
<1>3. /\ replaced' = Waiting.replaced /\ accepted' = accepted + 0 /\ keyOf' = keyOf
      /\ buffer' = Waiting.buffer /\ index' = Waiting.index
      /\ UNCHANGED <<setup, flights, overlapped, written, failed, destination, retried>>
  BY <1>1, SinkAssumption DEF stats, IInv, TypeOK
<1> HIDE DEF Waiting
<1> QED
  BY <1>2, <1>3, FilledStays

\* Taking the buffer for a flush, by whomever, keeps it, and so does the end of close().
LEMMA Closes == IInv /\ (Flush \/ TimerFires \/ Close \/ CloseReturns) => IInv'
<1> SUFFICES ASSUME IInv, Flush \/ TimerFires \/ Close \/ CloseReturns PROVE IInv'
  OBVIOUS
<1>1. CASE Flush \/ TimerFires
  BY <1>1, Flushes DEF Flush, TimerFires, IInv, TypeOK
<1>2. CASE Close
  <2>1. closing' \in BOOLEAN /\ closed' \in BOOLEAN
        /\ UNCHANGED <<setup, accepted, keyOf, stats, destination, retried>>
    BY <1>2 DEF Close, IInv, TypeOK
  <2>2. CASE buffer = <<>>
    BY <1>2, <2>1, <2>2, OnlyCloses DEF Close
  <2>3. CASE buffer # <<>>
    BY <1>2, <2>1, <2>3, Flushes DEF Close
  <2> QED
    BY <2>2, <2>3
<1>3. CASE CloseReturns
  BY <1>3, OnlyCloses DEF CloseReturns, IInv, TypeOK
<1> QED
  BY <1>1, <1>2, <1>3

\* A flight is of its type, and its rows are of theirs.
LEMMA FlightTypes ==
    ASSUME IInv, NEW f \in flights
    PROVE  /\ f = [batch |-> f.batch, attempt |-> f.attempt, stored |-> f.stored,
                   delayed |-> f.delayed, forClose |-> f.forClose]
           /\ f.batch \in Seq(Rows) /\ f.attempt \in 0..Retries /\ f.stored \in Nat
           /\ f.delayed \in BOOLEAN /\ f.forClose \in BOOLEAN
           /\ Len(f.batch) \in Nat /\ DOMAIN f.batch = 1..Len(f.batch)
           /\ \A p \in DOMAIN f.batch : f.batch[p].id \in RowIds
           /\ \A p \in DOMAIN f.batch : f.batch[p].key \in Keys \union {NoKey}
<1>1. f \in Flights
  BY DEF IInv, TypeOK
<1>2. f.batch \in Seq(Rows) /\ Len(f.batch) \in Nat /\ DOMAIN f.batch = 1..Len(f.batch)
  BY <1>1 DEF Flights
<1>3. \A p \in DOMAIN f.batch : f.batch[p] \in Rows
  BY <1>2
<1> QED
  BY <1>1, <1>2, <1>3 DEF Flights, Rows

\* The driver stores the next row of a batch.
LEMMA StoresNext == ASSUME IInv, NEW f \in flights, StoreNext(f) PROVE IInv'
<1> DEFINE at == f.stored + 1
           row == f.batch[at]
           g == [batch |-> f.batch, attempt |-> f.attempt, stored |-> at, delayed |-> f.delayed,
                 forClose |-> f.forClose]
<1>1. /\ f = [batch |-> f.batch, attempt |-> f.attempt, stored |-> f.stored,
              delayed |-> f.delayed, forClose |-> f.forClose]
      /\ f.batch \in Seq(Rows) /\ f.attempt \in 0..Retries /\ f.stored \in Nat
      /\ f.delayed \in BOOLEAN /\ f.forClose \in BOOLEAN
      /\ Len(f.batch) \in Nat /\ DOMAIN f.batch = 1..Len(f.batch)
      /\ \A p \in DOMAIN f.batch : f.batch[p].id \in RowIds
      /\ \A p \in DOMAIN f.batch : f.batch[p].key \in Keys \union {NoKey}
  BY FlightTypes
<1>2. at \in DOMAIN f.batch /\ at \in Nat /\ at <= Len(f.batch) /\ f.delayed = FALSE
  BY <1>1 DEF StoreNext
<1>3. [f EXCEPT !.stored = f.stored + 1] = g
  BY <1>1
<1>4. /\ StoreRow(row) /\ flights' = (flights \ {f}) \union {g}
      /\ UNCHANGED <<setup, buffer, index, closing, closed, accepted, keyOf, stats, retried,
                     overlapped>>
  BY <1>3 DEF StoreNext
<1>5. g \in Flights /\ g.batch = f.batch /\ g.stored = at /\ g.delayed = FALSE
  BY <1>1, <1>2 DEF Flights
<1>6. FlightSound(f) /\ table \in [Keys -> 0..MaxRows] /\ copies \in [RowIds -> Nat]
      /\ retried \subseteq RowIds
  BY DEF IInv, TypeOK
<1>7. row.id \in RowIds /\ row.id \in 0..MaxRows /\ row.key \in Keys \union {NoKey}
  BY <1>1, <1>2, SinkAssumption DEF RowIds
<1>8. /\ copies' \in [RowIds -> Nat]
      /\ \A r \in RowIds : copies'[r] = IF r = row.id THEN copies[r] + 1 ELSE copies[r]
  <2> DEFINE more == copies[row.id] + 1
  <2>1. more \in Nat
    BY <1>6, <1>7
  <2>2. copies' = [copies EXCEPT ![row.id] = more]
    BY <1>4 DEF StoreRow
  <2>3. more = copies[row.id] + 1
    OBVIOUS
  <2> HIDE DEF more, row
  <2> QED
    BY <1>6, <1>7, <2>1, <2>2, <2>3
<1>9. /\ table' \in [Keys -> 0..MaxRows]
      /\ \A k \in Keys : table'[k] = IF k = row.key THEN row.id ELSE table[k]
  BY <1>4, <1>6, <1>7, SinkAssumption DEF StoreRow
<1> HIDE DEF g
<1>10. FlightSound(g)'
  <2>1. BatchSound(f.batch, keyOf)' /\ retried' = retried /\ f.batch # <<>>
    BY <1>4, <1>6 DEF FlightSound, BatchSound
  <2>2. ASSUME NEW p \in DOMAIN f.batch
        PROVE  /\ p <= at => copies'[f.batch[p].id] >= 1
               /\ f.batch[p].id \notin retried =>
                     copies'[f.batch[p].id] = IF p <= at THEN 1 ELSE 0
    <3>1. /\ p <= f.stored => copies[f.batch[p].id] >= 1
          /\ f.batch[p].id \notin retried =>
                copies[f.batch[p].id] = IF p <= f.stored THEN 1 ELSE 0
          /\ p # at => f.batch[p].id # row.id
          /\ f.batch[p].id \in RowIds /\ p \in Nat
      BY <1>1, <1>2, <1>6 DEF FlightSound, BatchSound
    <3>2. copies[f.batch[p].id] \in Nat
      BY <1>6, <3>1
    <3>3. CASE p = at
      <4>1. copies'[f.batch[p].id] = copies[f.batch[p].id] + 1 /\ ~(p <= f.stored)
        BY <1>1, <1>8, <3>1, <3>3
      <4> QED
        BY <3>1, <3>2, <3>3, <4>1
    <3>4. CASE p # at
      <4>1. copies'[f.batch[p].id] = copies[f.batch[p].id] /\ (p <= f.stored <=> p <= at)
        BY <1>1, <1>8, <3>1, <3>4
      <4> QED
        BY <3>1, <4>1
    <3> QED
      BY <3>3, <3>4
  <2> QED
    BY <1>2, <1>5, <2>1, <2>2 DEF FlightSound
<1>11. \A r \in RowIds \ IdsOf(f.batch) : copies'[r] = copies[r]
  BY <1>2, <1>8 DEF IdsOf
<1>12. \A k \in Keys : \/ table'[k] = table[k]
                       \/ \E p \in DOMAIN f.batch : /\ f.batch[p].key = k
                                                    /\ table'[k] = f.batch[p].id
  BY <1>2, <1>9
<1>13. \A p \in DOMAIN f.batch : f.batch[p].key \in Keys \ overlapped /\ p <= g.stored =>
           table'[f.batch[p].key] >= f.batch[p].id
  <2> SUFFICES ASSUME NEW p \in DOMAIN f.batch, f.batch[p].key \in Keys \ overlapped, p <= at
               PROVE  table'[f.batch[p].key] >= f.batch[p].id
    BY <1>5
  <2>1. f.batch[p].id \in Nat /\ p \in Nat /\ f.batch[p].key \in KeysOf(f.batch)
    BY <1>1 DEF RowIds, KeysOf
  <2>2. CASE p = at
    BY <1>9, <2>1, <2>2
  <2>3. CASE p # at
    <3>1. setup.keyed /\ p <= f.stored
      BY <1>1, <1>6, <2>1, <2>3, SinkAssumption DEF FlightSound, BatchSound
    <3>2. f.batch[p].key # row.key
      BY <1>2, <1>6, <2>3, <3>1 DEF FlightSound, BatchSound
    <3>3. table[f.batch[p].key] >= f.batch[p].id
      BY <2>1, <3>1 DEF IInv, InOneFlight
    <3> QED
      BY <1>9, <3>2, <3>3
  <2> QED
    BY <2>2, <2>3
<1> QED
  BY <1>4, <1>5, <1>6, <1>8, <1>9, <1>10, <1>11, <1>12, <1>13, GoesOn

\* The greatest of a set with one element is that element.
LEMMA OnlyOne == ASSUME NEW x \in Nat PROVE Max({x}) = x
<1>1. x \in {x} /\ \A y \in {x} : x >= y
  OBVIOUS
<1> QED
  BY <1>1 DEF Max

\* The driver stores a whole batch.
LEMMA StoresAll == ASSUME IInv, NEW f \in flights, StoreAll(f) PROVE IInv'
<1> DEFINE n == Len(f.batch)
           g == [batch |-> f.batch, attempt |-> f.attempt, stored |-> n, delayed |-> f.delayed,
                 forClose |-> f.forClose]
           newest(k) == Max({r.id : r \in {s \in ToSet(f.batch) : s.key = k}})
<1>1. /\ f = [batch |-> f.batch, attempt |-> f.attempt, stored |-> f.stored,
              delayed |-> f.delayed, forClose |-> f.forClose]
      /\ f.batch \in Seq(Rows) /\ f.attempt \in 0..Retries /\ f.stored \in Nat
      /\ f.delayed \in BOOLEAN /\ f.forClose \in BOOLEAN
      /\ Len(f.batch) \in Nat /\ DOMAIN f.batch = 1..Len(f.batch)
      /\ \A p \in DOMAIN f.batch : f.batch[p].id \in RowIds
      /\ \A p \in DOMAIN f.batch : f.batch[p].key \in Keys \union {NoKey}
  BY FlightTypes
<1>2. [f EXCEPT !.stored = Len(f.batch)] = g
  BY <1>1
<1>3. /\ flights' = (flights \ {f}) \union {g} /\ f.stored = 0 /\ f.delayed = FALSE
      /\ table' = [k \in Keys |-> IF k \in KeysOf(f.batch) THEN newest(k) ELSE table[k]]
      /\ copies' = [r \in RowIds |-> IF r \in IdsOf(f.batch) THEN copies[r] + 1 ELSE copies[r]]
      /\ UNCHANGED <<setup, buffer, index, closing, closed, accepted, keyOf, stats, retried,
                     overlapped>>
  BY <1>1, <1>2 DEF StoreAll
<1>4. g \in Flights /\ g.batch = f.batch /\ g.stored = n /\ g.delayed = FALSE
  BY <1>1, <1>3 DEF Flights
<1>5. FlightSound(f) /\ table \in [Keys -> 0..MaxRows] /\ copies \in [RowIds -> Nat]
      /\ retried \subseteq RowIds
  BY DEF IInv, TypeOK
<1> HIDE DEF g
<1>6. ASSUME NEW p \in DOMAIN f.batch, f.batch[p].key \in Keys
      PROVE  newest(f.batch[p].key) = f.batch[p].id
  <2> DEFINE k == f.batch[p].key
             ids == {r.id : r \in {s \in ToSet(f.batch) : s.key = k}}
  <2>1. setup.keyed
    BY <1>5, <1>6, SinkAssumption DEF FlightSound, BatchSound
  <2>2. \A q \in DOMAIN f.batch : f.batch[q].key = k => q = p
    BY <1>5, <2>1 DEF FlightSound, BatchSound
  <2>3. \A s : s \in ToSet(f.batch) <=> \E q \in DOMAIN f.batch : s = f.batch[q]
    BY DEF ToSet
  <2>4. {s \in ToSet(f.batch) : s.key = k} = {f.batch[p]}
    BY <2>2, <2>3
  <2>5. ids = {f.batch[p].id}
    BY <2>4
  <2>6. f.batch[p].id \in Nat
    BY <1>1 DEF RowIds
  <2> QED
    BY <2>5, <2>6, OnlyOne
<1> HIDE DEF newest
<1>7. \A k \in Keys : k \in KeysOf(f.batch) =>
          \E p \in DOMAIN f.batch : f.batch[p].key = k /\ newest(k) = f.batch[p].id
  BY <1>6 DEF KeysOf
<1>8. table' \in [Keys -> 0..MaxRows]
  <2>1. \A k \in Keys : k \in KeysOf(f.batch) => newest(k) \in 0..MaxRows
    BY <1>1, <1>7, SinkAssumption DEF RowIds
  <2> QED
    BY <1>3, <1>5, <2>1
<1>9. /\ copies' \in [RowIds -> Nat]
      /\ \A r \in RowIds : copies'[r] = IF r \in IdsOf(f.batch) THEN copies[r] + 1 ELSE copies[r]
  BY <1>3, <1>5
<1>10. FlightSound(g)'
  <2>1. BatchSound(f.batch, keyOf)' /\ retried' = retried /\ f.batch # <<>>
    BY <1>3, <1>5 DEF FlightSound, BatchSound
  <2>2. ASSUME NEW p \in DOMAIN f.batch
        PROVE  /\ p <= n /\ copies'[f.batch[p].id] >= 1
               /\ f.batch[p].id \notin retried => copies'[f.batch[p].id] = 1
    <3>1. /\ f.batch[p].id \notin retried => copies[f.batch[p].id] = 0
          /\ f.batch[p].id \in RowIds /\ f.batch[p].id \in IdsOf(f.batch) /\ p <= n
      BY <1>1, <1>3, <1>5 DEF FlightSound, IdsOf
    <3>2. copies[f.batch[p].id] \in Nat /\ copies'[f.batch[p].id] = copies[f.batch[p].id] + 1
      BY <1>5, <1>9, <3>1
    <3> QED
      BY <3>1, <3>2
  <2> QED
    BY <1>1, <1>4, <2>1, <2>2 DEF FlightSound
<1>11. \A r \in RowIds \ IdsOf(f.batch) : copies'[r] = copies[r]
  BY <1>9
<1>12. \A k \in Keys : \/ table'[k] = table[k]
                       \/ \E p \in DOMAIN f.batch : /\ f.batch[p].key = k
                                                    /\ table'[k] = f.batch[p].id
  BY <1>3, <1>7
<1>13. \A p \in DOMAIN f.batch : f.batch[p].key \in Keys \ overlapped /\ p <= g.stored =>
           table'[f.batch[p].key] >= f.batch[p].id
  <2> SUFFICES ASSUME NEW p \in DOMAIN f.batch, f.batch[p].key \in Keys
               PROVE  table'[f.batch[p].key] >= f.batch[p].id
    OBVIOUS
  <2>1. f.batch[p].key \in KeysOf(f.batch) /\ f.batch[p].id \in Nat
    BY <1>1 DEF KeysOf, RowIds
  <2> QED
    BY <1>3, <1>6, <2>1
<1> QED
  BY <1>3, <1>4, <1>5, <1>8, <1>9, <1>10, <1>11, <1>12, <1>13, GoesOn

\* What a flight becomes when its call failed, and when its delay is over.
LEMMA FlightDelayed ==
    ASSUME NEW f,
           f = [batch |-> f.batch, attempt |-> f.attempt, stored |-> f.stored,
                delayed |-> f.delayed, forClose |-> f.forClose]
    PROVE  /\ [f EXCEPT !.delayed = TRUE] =
                 [batch |-> f.batch, attempt |-> f.attempt, stored |-> f.stored,
                  delayed |-> TRUE, forClose |-> f.forClose]
           /\ [f EXCEPT !.delayed = FALSE, !.stored = 0, !.attempt = f.attempt + 1] =
                 [batch |-> f.batch, attempt |-> f.attempt + 1, stored |-> 0,
                  delayed |-> FALSE, forClose |-> f.forClose]
<1> DEFINE yes == TRUE
           no == FALSE
           more == f.attempt + 1
<1> HIDE DEF yes, no, more
<1>1. [f EXCEPT !.delayed = yes] =
         [batch |-> f.batch, attempt |-> f.attempt, stored |-> f.stored,
          delayed |-> yes, forClose |-> f.forClose]
  OBVIOUS
<1>2. [f EXCEPT !.delayed = no, !.stored = 0, !.attempt = more] =
         [batch |-> f.batch, attempt |-> more, stored |-> 0,
          delayed |-> no, forClose |-> f.forClose]
  <2> DEFINE r1 == [batch |-> f.batch, attempt |-> f.attempt, stored |-> f.stored,
                    delayed |-> no, forClose |-> f.forClose]
             r2 == [batch |-> f.batch, attempt |-> f.attempt, stored |-> 0,
                    delayed |-> no, forClose |-> f.forClose]
             r3 == [batch |-> f.batch, attempt |-> more, stored |-> 0,
                    delayed |-> no, forClose |-> f.forClose]
  <2>1. [f EXCEPT !.delayed = no] = r1
    OBVIOUS
  <2>2. [r1 EXCEPT !.stored = 0] = r2
    OBVIOUS
  <2>3. [r2 EXCEPT !.attempt = more] = r3
    OBVIOUS
  <2>4. [f EXCEPT !.delayed = no, !.stored = 0, !.attempt = more] =
           [[[f EXCEPT !.delayed = no] EXCEPT !.stored = 0] EXCEPT !.attempt = more]
    BY Zenon
  <2> HIDE DEF r1, r2
  <2> QED
    BY <2>1, <2>2, <2>3, <2>4
<1> QED
  BY <1>1, <1>2 DEF yes, no, more

\* A call that failed, and the delay before the next one.
LEMMA TriesAgain == ASSUME IInv, NEW f \in flights, Reject(f) \/ Retry(f) PROVE IInv'
<1>1. /\ f = [batch |-> f.batch, attempt |-> f.attempt, stored |-> f.stored,
              delayed |-> f.delayed, forClose |-> f.forClose]
      /\ f.batch \in Seq(Rows) /\ f.attempt \in 0..Retries /\ f.stored \in Nat
      /\ f.delayed \in BOOLEAN /\ f.forClose \in BOOLEAN
      /\ Len(f.batch) \in Nat /\ DOMAIN f.batch = 1..Len(f.batch)
      /\ \A p \in DOMAIN f.batch : f.batch[p].id \in RowIds
      /\ \A p \in DOMAIN f.batch : f.batch[p].key \in Keys \union {NoKey}
  BY FlightTypes
<1>2. FlightSound(f) /\ table \in [Keys -> 0..MaxRows] /\ copies \in [RowIds -> Nat]
      /\ retried \subseteq RowIds /\ IdsOf(f.batch) \subseteq RowIds
  BY <1>1 DEF IInv, TypeOK, IdsOf
<1>3. ASSUME NEW p \in DOMAIN f.batch, f.batch[p].key \in Keys \ overlapped, p <= f.stored
      PROVE  table[f.batch[p].key] >= f.batch[p].id
  BY <1>3 DEF IInv, InOneFlight, KeysOf
<1>4. CASE Reject(f)
  <2> DEFINE g == [batch |-> f.batch, attempt |-> f.attempt, stored |-> f.stored,
                   delayed |-> TRUE, forClose |-> f.forClose]
  <2>1. [f EXCEPT !.delayed = TRUE] = g
    BY <1>1, FlightDelayed
  <2>2. /\ flights' = (flights \ {f}) \union {g} /\ f.attempt < Retries
        /\ retried' = retried \union IdsOf(f.batch) /\ table' = table /\ copies' = copies
        /\ UNCHANGED <<setup, buffer, index, closing, closed, accepted, keyOf, stats, overlapped>>
    BY <1>4, <2>1 DEF Reject, destination
  <2>3. g \in Flights /\ g.batch = f.batch /\ g.stored = f.stored /\ g.attempt = f.attempt
    BY <1>1 DEF Flights
  <2> HIDE DEF g
  <2>4. FlightSound(g)'
    BY <1>2, <2>2, <2>3 DEF FlightSound, BatchSound, IdsOf
  <2> QED
    BY <1>2, <1>3, <2>2, <2>3, <2>4, GoesOn
<1>5. CASE Retry(f)
  <2> DEFINE g == [batch |-> f.batch, attempt |-> f.attempt + 1, stored |-> 0,
                   delayed |-> FALSE, forClose |-> f.forClose]
  <2>1. [f EXCEPT !.delayed = FALSE, !.stored = 0, !.attempt = f.attempt + 1] = g
    BY <1>1, FlightDelayed
  <2>2. /\ flights' = (flights \ {f}) \union {g} /\ f.delayed
        /\ retried' = retried /\ table' = table /\ copies' = copies
        /\ UNCHANGED <<setup, buffer, index, closing, closed, accepted, keyOf, stats, overlapped>>
    BY <1>5, <2>1 DEF Retry, destination
  <2>3. f.attempt < Retries /\ IdsOf(f.batch) \subseteq retried
    BY <1>2, <2>2 DEF FlightSound
  <2>4. g \in Flights /\ g.batch = f.batch /\ g.stored = 0 /\ g.delayed = FALSE
    BY <1>1, <2>3, SinkAssumption DEF Flights
  <2> HIDE DEF g
  <2>5. \A p \in DOMAIN f.batch : f.batch[p].id \in retried /\ ~(p <= 0)
    BY <1>1, <2>3 DEF IdsOf
  <2>6. FlightSound(g)'
    <3>1. /\ BatchSound(f.batch, keyOf)' /\ f.batch # <<>> /\ retried' = retried
          /\ 0 <= Len(f.batch)
      BY <1>1, <1>2, <2>2 DEF FlightSound, BatchSound
    <3>2. \A p \in DOMAIN f.batch : f.batch[p].id \in retried' /\ ~(p <= g.stored)
      BY <2>4, <2>5, <3>1
    <3> QED
      BY <2>4, <3>1, <3>2 DEF FlightSound
  <2>7. \A p \in DOMAIN f.batch : f.batch[p].key \in Keys \ overlapped /\ p <= g.stored =>
            table'[f.batch[p].key] >= f.batch[p].id
    BY <2>4, <2>5
  <2> QED
    BY <1>2, <2>2, <2>4, <2>6, <2>7, GoesOn
<1> QED
  BY <1>4, <1>5

\* A batch that is counted, as written or as failed, leaves the flights.
LEMMA Settles == ASSUME IInv, NEW f \in flights, Succeed(f) \/ Abandon(f) PROVE IInv'
<1>1. CASE Succeed(f)
  <2>1. /\ flights' = flights \ {f} /\ f.stored = Len(f.batch)
        /\ written' = written \union IdsOf(f.batch) /\ failed' = failed /\ retried' = retried
        /\ UNCHANGED <<setup, buffer, index, closing, closed, accepted, keyOf, replaced,
                       destination, overlapped>>
    BY <1>1 DEF Succeed
  <2> QED
    BY <2>1, Ends
<1>2. CASE Abandon(f)
  <2>1. /\ flights' = flights \ {f}
        /\ written' = written /\ failed' = failed \union IdsOf(f.batch)
        /\ retried' = retried \union IdsOf(f.batch)
        /\ UNCHANGED <<setup, buffer, index, closing, closed, accepted, keyOf, replaced,
                       destination, overlapped>>
    BY <1>2 DEF Abandon
  <2> QED
    BY <2>1, Ends
<1> QED
  BY <1>1, <1>2

\* Every step keeps the invariant.
LEMMA NextIInv == IInv /\ [Next]_vars => IInv'
<1> SUFFICES ASSUME IInv, [Next]_vars PROVE IInv'
  OBVIOUS
<1>1. CASE UNCHANGED vars
  <2>1. /\ UNCHANGED <<setup, buffer, index, flights, overlapped, accepted, keyOf, stats,
                       destination, retried>>
        /\ closing' = closing /\ closed' = closed
    BY <1>1 DEF vars
  <2>2. closing \in BOOLEAN /\ closed \in BOOLEAN
    BY DEF IInv, TypeOK
  <2> QED
    BY <2>1, <2>2, OnlyCloses
<1>2. ASSUME NEW n \in 1..MaxPerCall, NEW keys \in [1..n -> Keys \union {NoKey}], Write(keys)
      PROVE  IInv'
  BY <1>2, Writes
<1>3. CASE Flush \/ TimerFires \/ Close \/ CloseReturns
  BY <1>3, Closes
<1>4. ASSUME NEW f \in flights, Answer(f) PROVE IInv'
  BY <1>4, StoresNext, StoresAll, TriesAgain, Settles DEF Answer
<1> QED
  BY <1>1, <1>2, <1>3, <1>4 DEF Next

-----------------------------------------------------------------------------
\* The strengthened invariant holds in every reachable state.
THEOREM Invariance == Spec => []IInv
<1> QED
  BY Initially, NextIInv, PTL DEF Spec

\* Every row that write() accepted is in one place, a written row was stored, a replaced one
\* never, and none more often than once unless a driver call with it failed.
THEOREM RowsAreAccountedFor == Spec => []RowsSound
<1>1. IInv => RowsSound
  BY DEF IInv, RowsSound
<1> QED
  BY <1>1, Invariance, PTL

\* Under a key that was never in two batches at once, the destination holds no row older than
\* one counted as written: neither retries, nor rows stored in part, nor batches that were
\* given up put an older one back.
THEOREM NewestRowWins == Spec => []NewestWins
<1>1. IInv => NewestWins
  BY DEF IInv
<1> QED
  BY <1>1, Invariance, PTL
=============================================================================
