--------------------------- MODULE RequestsProofs ---------------------------
(***************************************************************************)
(* Theorems about the parts of a request as RequestsMC puts them together. *)
(*                                                                         *)
(* RequestPipeline, for every number of calls and every setting of the     *)
(* breaker, the limiter, the throttle and the retries.                     *)
(*                                                                         *)
(* What the attempts of a call share, its way over the network with        *)
(* redirects, pins, fallback, timers and aborts, and the types of them     *)
(* all; for any requests, policies, hosts, addresses, identities, proxies  *)
(* and limits.                                                             *)
(***************************************************************************)
EXTENDS RequestsMC, TLAPS, FiniteSetTheorems, SequenceTheorems

-----------------------------------------------------------------------------
(* The pipeline. *)

LimiterType == [active: Nat, slots: Seq(Calls), chain: Seq(Calls), spacing: 0..Interval]

ThrottleType ==
    [concurrency: MinConcurrency..MaxConcurrency, active: Nat,
     successes: 0..IncreaseEvery, delay: 0..MaxDelay, waiters: Seq(Calls)]

-----------------------------------------------------------------------------
(* Updating one field of a record of each type: the updates with several fields *)
(* are compositions of these.                                                   *)

\* Assigning one field of a breaker entry keeps its type and its other fields.
LEMMA EntryUpdates ==
    ASSUME NEW e \in Entry
    PROVE  /\ \A value \in BreakerStates : LET f == [e EXCEPT !.state = value] IN
                /\ f \in Entry /\ f.state = value /\ f.failures = e.failures
                /\ f.cooling = e.cooling
           /\ \A value \in 0..Threshold : LET f == [e EXCEPT !.failures = value] IN
                /\ f \in Entry /\ f.state = e.state /\ f.failures = value
                /\ f.cooling = e.cooling
           /\ \A value \in 0..Cooldown : LET f == [e EXCEPT !.cooling = value] IN
                /\ f \in Entry /\ f.state = e.state /\ f.failures = e.failures
                /\ f.cooling = value
           /\ \A value \in 0..1 : LET f == [e EXCEPT !.halfOpenAttempts = value] IN
                /\ f \in Entry /\ f.state = e.state /\ f.failures = e.failures
                /\ f.cooling = e.cooling
BY DEF Entry

\* Assigning one field of the limiter's state keeps its type and its other fields.
LEMMA LimiterUpdates ==
    ASSUME NEW l \in LimiterType
    PROVE  /\ \A value \in Nat : LET m == [l EXCEPT !.active = value] IN
                /\ m \in LimiterType /\ m.active = value /\ m.slots = l.slots
                /\ m.chain = l.chain
           /\ \A value \in Seq(Calls) : LET m == [l EXCEPT !.slots = value] IN
                /\ m \in LimiterType /\ m.active = l.active /\ m.slots = value
                /\ m.chain = l.chain
           /\ \A value \in Seq(Calls) : LET m == [l EXCEPT !.chain = value] IN
                /\ m \in LimiterType /\ m.active = l.active /\ m.slots = l.slots
                /\ m.chain = value
           /\ \A value \in 0..Interval : LET m == [l EXCEPT !.spacing = value] IN
                /\ m \in LimiterType /\ m.active = l.active /\ m.slots = l.slots
                /\ m.chain = l.chain
BY DEF LimiterType

\* Assigning one field of the throttle's state keeps its type and its other fields.
LEMMA ThrottleUpdates ==
    ASSUME NEW t \in ThrottleType
    PROVE  /\ \A value \in MinConcurrency..MaxConcurrency : LET u == [t EXCEPT !.concurrency = value] IN
                /\ u \in ThrottleType /\ u.active = t.active /\ u.waiters = t.waiters
                /\ u.delay = t.delay /\ u.successes = t.successes /\ u.concurrency = value
           /\ \A value \in Nat : LET u == [t EXCEPT !.active = value] IN
                /\ u \in ThrottleType /\ u.active = value /\ u.waiters = t.waiters
                /\ u.delay = t.delay /\ u.successes = t.successes
                /\ u.concurrency = t.concurrency
           /\ \A value \in 0..IncreaseEvery : LET u == [t EXCEPT !.successes = value] IN
                /\ u \in ThrottleType /\ u.active = t.active /\ u.waiters = t.waiters
                /\ u.delay = t.delay /\ u.successes = value /\ u.concurrency = t.concurrency
           /\ \A value \in 0..MaxDelay : LET u == [t EXCEPT !.delay = value] IN
                /\ u \in ThrottleType /\ u.active = t.active /\ u.waiters = t.waiters
                /\ u.delay = value /\ u.successes = t.successes /\ u.concurrency = t.concurrency
           /\ \A value \in Seq(Calls) : LET u == [t EXCEPT !.waiters = value] IN
                /\ u \in ThrottleType /\ u.active = t.active /\ u.waiters = value
                /\ u.delay = t.delay /\ u.successes = t.successes
                /\ u.concurrency = t.concurrency
BY DEF ThrottleType

-----------------------------------------------------------------------------
(* What the methods of the three components do to their records. *)

Consistent(e) ==
    /\ e.state = "closed" <=> e.failures < Threshold
    /\ e.cooling > 0 => e.state = "open"

\* What the breaker's methods return, and that they keep its entry consistent: a cooldown
\* is counted down, an entry half opens, a success closes it, a failure counts or trips.
LEMMA BreakerMethods ==
    ASSUME NEW e \in Entry, Consistent(e)
    PROVE  /\ Elapse(e) \in Entry /\ Consistent(Elapse(e))
           /\ TransitionIfDue(e) \in Entry /\ Consistent(TransitionIfDue(e))
           /\ RecordSuccess(e) \in Entry /\ Consistent(RecordSuccess(e))
           /\ RecordFailure(e) \in Entry /\ Consistent(RecordFailure(e))
<1>0. /\ e.state \in BreakerStates /\ e.failures \in 0..Threshold
      /\ e.cooling \in 0..Cooldown
      /\ Threshold \in Nat \ {0} /\ Cooldown \in Nat \ {0}
  BY BreakerAssumption DEF Entry
<1>1. Elapse(e) \in Entry /\ Consistent(Elapse(e))
  <2> DEFINE left == IF e.cooling > 0 THEN e.cooling - 1 ELSE 0
  <2>1. left \in 0..Cooldown /\ (left > 0 => e.cooling > 0)
    BY <1>0
  <2> DEFINE later == [e EXCEPT !.cooling = left]
  <2>2. Elapse(e) = later
    BY DEF Elapse
  <2> HIDE DEF left
  <2>3. /\ later \in Entry /\ later.state = e.state
        /\ later.failures = e.failures /\ later.cooling = left
    BY <2>1, EntryUpdates
  <2> HIDE DEF later
  <2> QED
    BY <1>0, <2>1, <2>2, <2>3 DEF Consistent
<1>2. TransitionIfDue(e) \in Entry /\ Consistent(TransitionIfDue(e))
  <2>1. "half_open" \in BreakerStates /\ 0 \in 0..1
    BY DEF BreakerStates
  <2> DEFINE half == [e EXCEPT !.state = "half_open"]
  <2>2. /\ half \in Entry /\ half.state = "half_open" /\ half.failures = e.failures
        /\ half.cooling = e.cooling
    BY <2>1, EntryUpdates
  <2> DEFINE due == [half EXCEPT !.halfOpenAttempts = 0]
  <2>3. /\ due \in Entry /\ due.state = "half_open" /\ due.failures = e.failures
        /\ due.cooling = e.cooling
    <3> HIDE DEF half
    <3> QED BY <2>1, <2>2, EntryUpdates
  <2>4. TransitionIfDue(e) = IF e.state = "open" /\ e.cooling = 0 THEN due ELSE e
    BY DEF TransitionIfDue
  <2> HIDE DEF due
  <2> QED
    BY <1>0, <2>3, <2>4 DEF Consistent
<1>3. RecordSuccess(e) \in Entry /\ Consistent(RecordSuccess(e))
  BY <1>0 DEF RecordSuccess, FreshEntry, Entry, BreakerStates, Consistent
<1>4. ASSUME NEW f \in Entry, f.failures >= Threshold
      PROVE  Trip(f) \in Entry /\ Consistent(Trip(f))
  <2>1. "open" \in BreakerStates /\ Cooldown \in 0..Cooldown
    BY <1>0 DEF BreakerStates
  <2> DEFINE g == [f EXCEPT !.state = "open"]
  <2>2. g \in Entry /\ g.state = "open" /\ g.failures = f.failures
    BY <2>1, EntryUpdates
  <2> DEFINE h == [g EXCEPT !.cooling = Cooldown]
  <2>3. Trip(f) = h
    BY DEF Trip
  <2>4. /\ Trip(f) \in Entry /\ Trip(f).state = "open" /\ Trip(f).failures = f.failures
    <3> HIDE DEF g
    <3>1. h \in Entry /\ h.state = g.state /\ h.failures = g.failures
      BY <2>1, <2>2, EntryUpdates
    <3> QED BY <2>2, <2>3, <3>1
  <2>5. f.failures \in Nat
    BY <1>0 DEF Entry
  <2> QED
    BY <1>0, <1>4, <2>4, <2>5 DEF Consistent
<1>5. RecordFailure(e) \in Entry /\ Consistent(RecordFailure(e))
  <2> DEFINE due == TransitionIfDue(e)
             more == IF due.failures < Threshold THEN due.failures + 1 ELSE due.failures
             counted == [due EXCEPT !.failures = more]
             probed == [due EXCEPT !.halfOpenAttempts = 1]
  <2>1. /\ due \in Entry /\ Consistent(due) /\ due.failures \in 0..Threshold
        /\ due.state \in BreakerStates /\ due.cooling \in 0..Cooldown
    BY <1>2 DEF Entry
  <2>2. RecordFailure(e) = IF due.state = "half_open" THEN Trip(probed)
                           ELSE IF counted.failures >= Threshold THEN Trip(counted)
                                ELSE counted
    BY DEF RecordFailure
  <2> HIDE DEF due
  <2>3. more \in 0..Threshold /\ 1 \in 0..1
    BY <1>0, <2>1
  <2>4. /\ counted \in Entry /\ counted.failures = more /\ counted.state = due.state
        /\ counted.cooling = due.cooling
    <3> HIDE DEF more
    <3> QED BY <2>1, <2>3, EntryUpdates
  <2>5. probed \in Entry /\ probed.failures = due.failures
    BY <2>1, <2>3, EntryUpdates
  <2> HIDE DEF counted, probed
  <2>6. CASE due.state = "half_open"
    BY <1>0, <1>4, <2>1, <2>2, <2>5, <2>6 DEF Consistent
  <2>7. CASE due.state # "half_open" /\ more >= Threshold
    BY <1>4, <2>2, <2>4, <2>7
  <2>8. CASE due.state # "half_open" /\ ~(more >= Threshold)
    BY <1>0, <2>1, <2>2, <2>4, <2>8 DEF Consistent
  <2> QED
    BY <2>6, <2>7, <2>8
<1> QED
  BY <1>1, <1>2, <1>3, <1>5

\* What the limiter's methods do to the counter, the parked callers and the gate.
LEMMA LimiterMethods ==
    ASSUME NEW l \in LimiterType, NEW c \in Calls
    PROVE  /\ LET m == TakeSlot(l, c) IN
                m \in LimiterType /\ m.active = l.active + 1 /\ m.slots = l.slots
           /\ LET m == Park(l, c) IN
                m \in LimiterType /\ m.active = l.active /\ m.slots = Append(l.slots, c)
           /\ l.chain # <<>> => LET m == PassGate(l) IN
                m \in LimiterType /\ m.active = l.active /\ m.slots = l.slots
           /\ LET m == ReleaseSlot(l) IN
                /\ m \in LimiterType
                /\ m.active = IF l.active > 0 THEN l.active - 1 ELSE 0
                /\ m.slots = IF l.slots = <<>> THEN l.slots ELSE Tail(l.slots)
           /\ LET m == GateElapse(l) IN
                m \in LimiterType /\ m.active = l.active /\ m.slots = l.slots
<1>0. /\ l.active \in Nat /\ l.slots \in Seq(Calls) /\ l.chain \in Seq(Calls)
      /\ l.spacing \in 0..Interval /\ Interval \in Nat
  BY LimiterAssumption DEF LimiterType
<1>1. LET m == TakeSlot(l, c) IN
        m \in LimiterType /\ m.active = l.active + 1 /\ m.slots = l.slots
  <2> DEFINE more == l.active + 1
             k == [l EXCEPT !.active = more]
             m == [k EXCEPT !.chain = Append(k.chain, c)]
  <2>0. more \in Nat
    BY <1>0
  <2>1. k \in LimiterType /\ k.active = more /\ k.slots = l.slots /\ k.chain = l.chain
    <3> HIDE DEF more
    <3> QED BY <2>0, LimiterUpdates
  <2>2. TakeSlot(l, c) = m
    BY <1>0, <2>1 DEF TakeSlot
  <2> HIDE DEF k
  <2>3. Append(k.chain, c) \in Seq(Calls)
    BY <1>0, <2>1
  <2>4. m \in LimiterType /\ m.active = k.active /\ m.slots = k.slots
    BY <2>1, <2>3, LimiterUpdates
  <2> QED
    BY <2>1, <2>2, <2>4
<1>2. LET m == Park(l, c) IN
        m \in LimiterType /\ m.active = l.active /\ m.slots = Append(l.slots, c)
  <2> DEFINE longer == Append(l.slots, c)
             m == [l EXCEPT !.slots = longer]
  <2>1. longer \in Seq(Calls)
    BY <1>0
  <2>2. Park(l, c) = m
    BY DEF Park
  <2>3. m \in LimiterType /\ m.active = l.active /\ m.slots = longer
    <3> HIDE DEF longer
    <3> QED BY <2>1, LimiterUpdates
  <2> QED
    BY <2>2, <2>3
<1>3. ASSUME l.chain # <<>>
      PROVE  LET m == PassGate(l) IN
                m \in LimiterType /\ m.active = l.active /\ m.slots = l.slots
  <2> DEFINE k == [l EXCEPT !.chain = Tail(l.chain)]
             m == [k EXCEPT !.spacing = Interval]
  <2>1. Tail(l.chain) \in Seq(Calls) /\ Interval \in 0..Interval
    BY <1>0, <1>3
  <2>2. k \in LimiterType /\ k.active = l.active /\ k.slots = l.slots
    BY <2>1, LimiterUpdates
  <2>3. PassGate(l) = m
    BY DEF PassGate
  <2> HIDE DEF k
  <2>4. m \in LimiterType /\ m.active = k.active /\ m.slots = k.slots
    BY <2>1, <2>2, LimiterUpdates
  <2> QED
    BY <2>2, <2>3, <2>4
<1>4. LET m == ReleaseSlot(l) IN
        /\ m \in LimiterType
        /\ m.active = IF l.active > 0 THEN l.active - 1 ELSE 0
        /\ m.slots = IF l.slots = <<>> THEN l.slots ELSE Tail(l.slots)
  <2> DEFINE left == IF l.active > 0 THEN l.active - 1 ELSE 0
             k == [l EXCEPT !.active = left]
             rest == IF k.slots = <<>> THEN k.slots ELSE Tail(k.slots)
             m == [k EXCEPT !.slots = rest]
  <2>1. left \in Nat
    BY <1>0
  <2>2. ReleaseSlot(l) = m
    <3> DEFINE r == IF l.slots = <<>> THEN l.slots ELSE Tail(l.slots)
    <3>1. ReleaseSlot(l) = [k EXCEPT !.slots = r]
      BY DEF ReleaseSlot
    <3>2. k.slots = l.slots
      <4> HIDE DEF left
      <4> QED BY <2>1, LimiterUpdates
    <3> HIDE DEF k
    <3> QED BY <3>1, <3>2
  <2>3. k \in LimiterType /\ k.active = left /\ k.slots = l.slots
    <3> HIDE DEF left
    <3> QED BY <2>1, LimiterUpdates
  <2> HIDE DEF k
  <2>4. rest \in Seq(Calls)
    BY <1>0, <2>3
  <2>5. m \in LimiterType /\ m.active = k.active /\ m.slots = rest
    <3> HIDE DEF rest
    <3> QED BY <2>3, <2>4, LimiterUpdates
  <2> HIDE DEF m
  <2> QED
    BY <2>2, <2>3, <2>5
<1>5. LET m == GateElapse(l) IN
        m \in LimiterType /\ m.active = l.active /\ m.slots = l.slots
  <2> DEFINE left == IF l.spacing > 0 THEN l.spacing - 1 ELSE 0
             m == [l EXCEPT !.spacing = left]
  <2>1. left \in 0..Interval
    BY <1>0
  <2>2. GateElapse(l) = m
    BY DEF GateElapse
  <2>3. m \in LimiterType /\ m.active = l.active /\ m.slots = l.slots
    <3> HIDE DEF left
    <3> QED BY <2>1, LimiterUpdates
  <2> QED
    BY <2>2, <2>3
<1> QED
  BY <1>1, <1>2, <1>3, <1>4, <1>5

\* What the throttle's methods do to its counter, its limit and its waiters; the limit
\* and the delay stay within the configured bounds.
LEMMA ThrottleMethods ==
    ASSUME NEW t \in ThrottleType, NEW c \in Calls, NEW retryAfter \in Nat
    PROVE  /\ LET u == TakePermit(t) IN
                u \in ThrottleType /\ u.active = t.active + 1 /\ u.waiters = t.waiters
           /\ LET u == Wait(t, c) IN
                u \in ThrottleType /\ u.active = t.active /\ u.waiters = Append(t.waiters, c)
           /\ LET u == OnSuccess(t) IN
                u \in ThrottleType /\ u.active = t.active /\ u.waiters = t.waiters
           /\ LET u == OnFailure(t, retryAfter) IN
                u \in ThrottleType /\ u.active = t.active /\ u.waiters = t.waiters
           /\ LET u == ReleasePermit(t) IN
                /\ u \in ThrottleType
                /\ u.active = IF t.active > 0 THEN t.active - 1 ELSE 0
                /\ u.waiters = IF t.waiters = <<>> THEN t.waiters ELSE Tail(t.waiters)
<1>0. /\ t.active \in Nat /\ t.waiters \in Seq(Calls)
      /\ t.concurrency \in MinConcurrency..MaxConcurrency
      /\ t.successes \in 0..IncreaseEvery /\ t.delay \in 0..MaxDelay
      /\ MinConcurrency \in Nat \ {0} /\ MaxConcurrency \in Nat /\ MinConcurrency <= MaxConcurrency
      /\ IncreaseEvery \in Nat \ {0} /\ BaseDelay \in Nat /\ MaxDelay \in Nat
  BY ThrottleAssumption DEF ThrottleType
<1>1. LET u == TakePermit(t) IN
        u \in ThrottleType /\ u.active = t.active + 1 /\ u.waiters = t.waiters
  <2> DEFINE more == t.active + 1
             u == [t EXCEPT !.active = more]
  <2>1. more \in Nat /\ TakePermit(t) = u
    BY <1>0 DEF TakePermit
  <2>2. u \in ThrottleType /\ u.active = more /\ u.waiters = t.waiters
    <3> HIDE DEF more
    <3> QED BY <2>1, ThrottleUpdates
  <2> QED
    BY <2>1, <2>2
<1>2. LET u == Wait(t, c) IN
        u \in ThrottleType /\ u.active = t.active /\ u.waiters = Append(t.waiters, c)
  <2> DEFINE longer == Append(t.waiters, c)
             u == [t EXCEPT !.waiters = longer]
  <2>1. longer \in Seq(Calls)
    BY <1>0
  <2>2. Wait(t, c) = u
    BY DEF Wait
  <2>3. u \in ThrottleType /\ u.active = t.active /\ u.waiters = longer
    <3> HIDE DEF longer
    <3> QED BY <2>1, ThrottleUpdates
  <2> QED
    BY <2>2, <2>3
\* onSuccess and onFailure set the same three fields.
<1>3. ASSUME NEW value \in 0..MaxDelay, NEW y \in 0..IncreaseEvery,
             NEW z \in MinConcurrency..MaxConcurrency
      PROVE  /\ LET u == [t EXCEPT !.delay = value, !.successes = y, !.concurrency = z] IN
                  u \in ThrottleType /\ u.active = t.active /\ u.waiters = t.waiters
             /\ LET u == [t EXCEPT !.successes = y, !.concurrency = z, !.delay = value] IN
                  u \in ThrottleType /\ u.active = t.active /\ u.waiters = t.waiters
  <2>1. ASSUME NEW v \in ThrottleType
        PROVE  /\ LET u == [v EXCEPT !.delay = value] IN
                    u \in ThrottleType /\ u.active = v.active /\ u.waiters = v.waiters
               /\ LET u == [v EXCEPT !.successes = y] IN
                    u \in ThrottleType /\ u.active = v.active /\ u.waiters = v.waiters
               /\ LET u == [v EXCEPT !.concurrency = z] IN
                    u \in ThrottleType /\ u.active = v.active /\ u.waiters = v.waiters
    BY ThrottleUpdates
  <2> DEFINE d1 == [t EXCEPT !.delay = value]
             d2 == [d1 EXCEPT !.successes = y]
             d3 == [d2 EXCEPT !.concurrency = z]
             e1 == [t EXCEPT !.successes = y]
             e2 == [e1 EXCEPT !.concurrency = z]
             b3 == [e2 EXCEPT !.delay = value]
  <2>2. /\ [t EXCEPT !.delay = value, !.successes = y, !.concurrency = z] = d3
        /\ [t EXCEPT !.successes = y, !.concurrency = z, !.delay = value] = b3
    OBVIOUS
  <2>3. d1 \in ThrottleType /\ d1.active = t.active /\ d1.waiters = t.waiters
    BY <2>1
  <2>4. d2 \in ThrottleType /\ d2.active = t.active /\ d2.waiters = t.waiters
    <3> HIDE DEF d1
    <3> QED BY <2>1, <2>3
  <2>5. d3 \in ThrottleType /\ d3.active = t.active /\ d3.waiters = t.waiters
    <3> HIDE DEF d2
    <3> QED BY <2>1, <2>4
  <2>6. e1 \in ThrottleType /\ e1.active = t.active /\ e1.waiters = t.waiters
    BY <2>1
  <2>7. e2 \in ThrottleType /\ e2.active = t.active /\ e2.waiters = t.waiters
    <3> HIDE DEF e1
    <3> QED BY <2>1, <2>6
  <2>8. b3 \in ThrottleType /\ b3.active = t.active /\ b3.waiters = t.waiters
    <3> HIDE DEF e2
    <3> QED BY <2>1, <2>7
  <2> HIDE DEF d3, b3
  <2> QED
    BY <2>2, <2>5, <2>8
<1>4. LET u == OnSuccess(t) IN
        u \in ThrottleType /\ u.active = t.active /\ u.waiters = t.waiters
  <2> DEFINE run == Least(IncreaseEvery, t.successes + 1)
             raise == run >= IncreaseEvery /\ t.concurrency < MaxConcurrency
             value == t.delay \div 2
             y == IF raise THEN 0 ELSE run
             z == IF raise THEN t.concurrency + 1 ELSE t.concurrency
  <2>1. value \in 0..MaxDelay
    BY <1>0
  <2>2. y \in 0..IncreaseEvery
    BY <1>0 DEF Least
  <2>3. z \in MinConcurrency..MaxConcurrency
    BY <1>0
  <2> DEFINE u == [t EXCEPT !.delay = value, !.successes = y, !.concurrency = z]
  <2>4. OnSuccess(t) = u
    BY DEF OnSuccess
  <2>5. u \in ThrottleType /\ u.active = t.active /\ u.waiters = t.waiters
    <3> HIDE DEF value, y, z
    <3> QED BY <1>3, <2>1, <2>2, <2>3
  <2> HIDE DEF u
  <2> QED
    BY <2>4, <2>5
<1>5. LET u == OnFailure(t, retryAfter) IN
        u \in ThrottleType /\ u.active = t.active /\ u.waiters = t.waiters
  <2> DEFINE doubled == IF t.delay > 0 THEN t.delay * 2 ELSE BaseDelay
             value == Least(MaxDelay, Greatest(retryAfter, doubled))
             z == Greatest(MinConcurrency, t.concurrency \div 2)
  <2>1. value \in 0..MaxDelay
    BY <1>0 DEF Least, Greatest
  <2>2. 0 \in 0..IncreaseEvery
    BY <1>0
  <2>3. z \in MinConcurrency..MaxConcurrency
    <3>1. t.concurrency \div 2 \in Nat /\ t.concurrency \div 2 <= MaxConcurrency
      BY <1>0
    <3> QED BY <1>0, <3>1 DEF Greatest
  <2> DEFINE u == [t EXCEPT !.successes = 0, !.concurrency = z, !.delay = value]
  <2>4. OnFailure(t, retryAfter) = u
    BY DEF OnFailure
  <2>5. u \in ThrottleType /\ u.active = t.active /\ u.waiters = t.waiters
    <3> HIDE DEF value, z
    <3> QED BY <1>3, <2>1, <2>2, <2>3
  <2> HIDE DEF u
  <2> QED
    BY <2>4, <2>5
<1>6. LET u == ReleasePermit(t) IN
        /\ u \in ThrottleType
        /\ u.active = IF t.active > 0 THEN t.active - 1 ELSE 0
        /\ u.waiters = IF t.waiters = <<>> THEN t.waiters ELSE Tail(t.waiters)
  <2> DEFINE left == IF t.active > 0 THEN t.active - 1 ELSE 0
             k == [t EXCEPT !.active = left]
             rest == IF t.waiters = <<>> THEN t.waiters ELSE Tail(t.waiters)
             u == [k EXCEPT !.waiters = rest]
  <2>1. left \in Nat /\ rest \in Seq(Calls)
    BY <1>0
  <2>2. k \in ThrottleType /\ k.active = left /\ k.waiters = t.waiters
    <3> HIDE DEF left
    <3> QED BY <2>1, ThrottleUpdates
  <2>3. ReleasePermit(t) = u
    BY <2>2 DEF ReleasePermit
  <2> HIDE DEF k
  <2>4. u \in ThrottleType /\ u.active = k.active /\ u.waiters = rest
    <3> HIDE DEF rest
    <3> QED BY <2>1, <2>2, ThrottleUpdates
  <2> HIDE DEF u
  <2> QED
    BY <2>2, <2>3, <2>4
<1> QED
  BY <1>1, <1>2, <1>4, <1>5, <1>6

-----------------------------------------------------------------------------
(* Queues that list a set, and the sizes of sets of calls. *)

Enumerates(q, S) ==
    /\ {q[i] : i \in DOMAIN q} = S
    /\ \A i, j \in DOMAIN q : q[i] = q[j] => i = j

\* A queue without repetitions that a newcomer joins: its elements, none twice.
LEMMA Enqueue ==
    ASSUME NEW q \in Seq(Calls), NEW S, Enumerates(q, S), NEW c \in Calls, c \notin S
    PROVE  Enumerates(Append(q, c), S \union {c})
<1> DEFINE r == Append(q, c)
<1>1. /\ Len(r) = Len(q) + 1 /\ Len(q) \in Nat /\ DOMAIN r = 1..Len(r) /\ DOMAIN q = 1..Len(q)
      /\ \A i \in DOMAIN q : r[i] = q[i]
      /\ r[Len(r)] = c
  OBVIOUS
<1>2. DOMAIN r = DOMAIN q \union {Len(r)} /\ Len(r) \notin DOMAIN q
  BY <1>1
<1> HIDE DEF r
<1>3. {r[i] : i \in DOMAIN r} = S \union {c}
  BY <1>1, <1>2 DEF Enumerates
<1>4. ASSUME NEW i \in DOMAIN r, NEW j \in DOMAIN r, r[i] = r[j] PROVE i = j
  BY <1>1, <1>2, <1>4 DEF Enumerates
<1> QED
  BY <1>3, <1>4 DEF Enumerates, r

\* A queue without repetitions that loses its head: its elements, none twice.
LEMMA Dequeue ==
    ASSUME NEW q \in Seq(Calls), NEW S, Enumerates(q, S), q # <<>>
    PROVE  Head(q) \in S /\ Enumerates(Tail(q), S \ {Head(q)})
<1> DEFINE r == Tail(q)
<1>1. /\ Len(q) \in Nat \ {0} /\ DOMAIN q = 1..Len(q) /\ DOMAIN r = 1..(Len(q) - 1)
      /\ \A i \in DOMAIN r : r[i] = q[i + 1]
      /\ Head(q) = q[1]
  OBVIOUS
<1>2. /\ \A i \in DOMAIN r : i + 1 \in DOMAIN q /\ i + 1 # 1
      /\ \A i \in DOMAIN q : i # 1 => \E j \in DOMAIN r : i = j + 1
      /\ 1 \in DOMAIN q
  <2>1. \A i \in DOMAIN q : i # 1 => i - 1 \in DOMAIN r /\ i = (i - 1) + 1
    BY <1>1
  <2> QED
    BY <1>1, <2>1
<1> HIDE DEF r
<1>3. {r[i] : i \in DOMAIN r} = S \ {q[1]}
  <2>1. ASSUME NEW i \in DOMAIN r PROVE r[i] \in S \ {q[1]}
    BY <1>1, <1>2 DEF Enumerates
  <2>2. ASSUME NEW d \in S \ {q[1]} PROVE \E i \in DOMAIN r : r[i] = d
    <3>1. PICK i \in DOMAIN q : q[i] = d
      BY DEF Enumerates
    <3>2. i # 1
      BY <3>1
    <3> QED
      BY <1>1, <1>2, <3>1, <3>2
  <2> QED
    BY <2>1, <2>2
<1>4. ASSUME NEW i \in DOMAIN r, NEW j \in DOMAIN r, r[i] = r[j] PROVE i = j
  <2>1. q[i + 1] = q[j + 1] /\ i + 1 \in DOMAIN q /\ j + 1 \in DOMAIN q
    BY <1>1, <1>2, <1>4
  <2>2. i + 1 = j + 1 /\ i \in Nat /\ j \in Nat
    BY <1>1, <2>1 DEF Enumerates
  <2> QED
    BY <2>2
<1>5. q[1] \in S
  BY <1>2 DEF Enumerates
<1> QED
  BY <1>1, <1>3, <1>4, <1>5 DEF Enumerates, r

\* Any set of calls is finite, and one call more or less changes its size by one.
LEMMA Counting ==
    ASSUME NEW S \in SUBSET Calls, NEW c \in Calls
    PROVE  /\ Cardinality(S) \in Nat
           /\ c \notin S => Cardinality(S \union {c}) = Cardinality(S) + 1
           /\ c \in S => Cardinality(S \ {c}) = Cardinality(S) - 1 /\ Cardinality(S) > 0
           /\ c \notin S => S \ {c} = S
           /\ c \in S => S \union {c} = S
<1>1. IsFiniteSet(S)
  BY PipelineAssumption, FS_Subset
<1>2. Cardinality(S) \in Nat /\ (S # {} => Cardinality(S) > 0)
  BY <1>1, FS_CardinalityType, FS_EmptySet
<1>3. c \notin S => Cardinality(S \union {c}) = Cardinality(S) + 1
  BY <1>1, FS_AddElement
<1>4. c \in S => Cardinality(S \ {c}) = Cardinality(S) - 1
  BY <1>1, FS_RemoveElement
<1> QED
  BY <1>2, <1>3, <1>4

-----------------------------------------------------------------------------
(* The invariants together are inductive: SlotsAccounted needs to know that the   *)
(* callers a release wakes hold nothing (NobodyStranded), and both need TypeOK.   *)
IInv ==
    /\ TypeOK
    /\ BreakerConsistent
    /\ SlotsAccounted
    /\ NobodyStranded

Holding == {"gated", "waiting", "admitted", "sent"}

\* What a step that moves one call does to the sets of calls.
LEMMA OneMoves ==
    ASSUME pc \in [Calls -> Places], NEW c \in Calls, NEW place \in Places,
           pc' = [pc EXCEPT ![c] = place]
    PROVE  /\ pc' \in [Calls -> Places]
           /\ \A where : At(where)' = IF where = place THEN At(where) \union {c} ELSE At(where) \ {c}
           /\ Holders' = IF place \in Holding THEN Holders \union {c} ELSE Holders \ {c}
           /\ PermitHolders' = IF place = "sent" THEN PermitHolders \union {c}
                               ELSE PermitHolders \ {c}
<1>1. pc' \in [Calls -> Places] /\ \A d \in Calls : pc'[d] = IF d = c THEN place ELSE pc[d]
  OBVIOUS
<1>2. \A where : At(where)' = IF where = place THEN At(where) \union {c} ELSE At(where) \ {c}
  BY <1>1 DEF At
<1>3. Holders' = IF place \in Holding THEN Holders \union {c} ELSE Holders \ {c}
  BY <1>1 DEF Holders, HoldsSlot, Holding
<1>4. PermitHolders' = IF place = "sent" THEN PermitHolders \union {c} ELSE PermitHolders \ {c}
  BY <1>1 DEF PermitHolders, HoldsPermit
<1> QED
  BY <1>1, <1>2, <1>3, <1>4

\* The sets the invariant counts are sets of calls.
LEMMA Sets ==
    /\ Holders \in SUBSET Calls /\ PermitHolders \in SUBSET Calls
    /\ \A where : At(where) \in SUBSET Calls
    /\ \A c \in Calls, where \in Places : c \in At(where) <=> pc[c] = where
    /\ \A c \in Calls : c \in Holders <=> pc[c] \in Holding
    /\ \A c \in Calls : c \in PermitHolders <=> pc[c] = "sent"
BY DEF Holders, PermitHolders, HoldsSlot, HoldsPermit, At, Holding

\* A turn of the loop of _waitForSlot, by a call that has no slot yet.
LEMMA SlotTurn ==
    ASSUME IInv, NEW c \in Calls,
           pc[c] \in {"idle", "refused", "woken", "backoff"},
           TryForSlot(c), throttle' = throttle
    PROVE  /\ limiter' \in LimiterType /\ pc' \in [Calls -> Places]
           /\ SlotsAccounted' /\ NobodyStranded'
<1> USE DEF Places
<1>0. /\ limiter \in LimiterType /\ throttle \in ThrottleType /\ pc \in [Calls -> Places]
      /\ limiter.active \in Nat /\ limiter.slots \in Seq(Calls)
      /\ throttle.active \in Nat /\ Concurrency \in Nat \ {0}
  BY LimiterAssumption DEF IInv, TypeOK, LimiterType, ThrottleType
<1>1. /\ limiter.active = Cardinality(Holders) /\ limiter.active <= Concurrency
      /\ throttle.active = Cardinality(PermitHolders)
      /\ Enumerates(limiter.slots, At("parked"))
      /\ Enumerates(throttle.waiters, At("waiting"))
      /\ limiter.slots # <<>> => limiter.active + Cardinality(At("woken")) >= Concurrency
      /\ throttle.waiters # <<>> => throttle.active + Cardinality(At("admitted")) > 0
  BY DEF IInv, SlotsAccounted, NobodyStranded, Lists, Enumerates
<1>2. /\ c \notin Holders /\ c \notin PermitHolders /\ c \notin At("parked")
      /\ c \notin At("waiting") /\ c \notin At("admitted")
  BY Sets DEF Holding
<1>3. /\ Cardinality(At("woken")) \in Nat /\ Cardinality(At("woken") \ {c}) \in Nat
      /\ Cardinality(At("woken") \ {c}) >= Cardinality(At("woken")) - 1
  <2> DEFINE S == At("woken")
  <2>1. S \in SUBSET Calls /\ S \ {c} \in SUBSET Calls
    BY Sets
  <2> HIDE DEF S
  <2>2. Cardinality(S) \in Nat /\ Cardinality(S \ {c}) \in Nat
    BY <2>1, Counting
  <2>3. Cardinality(S \ {c}) \in {Cardinality(S), Cardinality(S) - 1}
    BY <2>1, Counting
  <2>4. Cardinality(S \ {c}) >= Cardinality(S) - 1
    BY <2>2, <2>3
  <2> QED
    BY <2>2, <2>4 DEF S
<1>4. CASE SlotFree(limiter) /\ limiter' = TakeSlot(limiter, c)
           /\ pc' = [pc EXCEPT ![c] = "gated"]
  <2>1. /\ limiter' \in LimiterType /\ limiter'.active = limiter.active + 1
        /\ limiter'.slots = limiter.slots /\ limiter.active < Concurrency
    BY <1>0, <1>4, LimiterMethods DEF SlotFree
  <2>2. /\ pc' \in [Calls -> Places] /\ Holders' = Holders \union {c}
        /\ PermitHolders' = PermitHolders
        /\ At("parked")' = At("parked") /\ At("waiting")' = At("waiting")
        /\ At("admitted")' = At("admitted") /\ At("woken")' = At("woken") \ {c}
    <3>1. /\ pc' \in [Calls -> Places]
          /\ \A where : At(where)' = IF where = "gated" THEN At(where) \union {c} ELSE At(where) \ {c}
          /\ Holders' = IF "gated" \in Holding THEN Holders \union {c} ELSE Holders \ {c}
          /\ PermitHolders' = IF "gated" = "sent" THEN PermitHolders \union {c}
                               ELSE PermitHolders \ {c}
      BY <1>0, <1>4, OneMoves
    <3> QED
      BY <1>2, <3>1, Counting, Sets DEF Holding
  <2>3. Cardinality(Holders') = limiter'.active
    BY <1>1, <1>2, <2>1, <2>2, Counting, Sets
  <2>4. SlotsAccounted'
    BY <1>0, <1>1, <2>1, <2>2, <2>3 DEF SlotsAccounted
  <2>5. NobodyStranded'
    <3> DEFINE woken == Cardinality(At("woken") \ {c})
    <3>0. Cardinality(At("woken")') = woken
      BY <2>2
    <3>1. limiter'.slots # <<>> =>
            limiter'.active + Cardinality(At("woken")') >= Concurrency
      <4>1. limiter.slots # <<>> => limiter.active + 1 + woken >= Concurrency
        BY <1>0, <1>1, <1>3
      <4> QED BY <2>1, <3>0, <4>1
    <3> QED
      BY <1>1, <2>1, <2>2, <3>1 DEF NobodyStranded, Lists, Enumerates
  <2> QED
    BY <2>1, <2>2, <2>4, <2>5
<1>5. CASE ~SlotFree(limiter) /\ limiter' = Park(limiter, c)
           /\ pc' = [pc EXCEPT ![c] = "parked"]
  <2>1. /\ limiter' \in LimiterType /\ limiter'.active = limiter.active
        /\ limiter'.slots = Append(limiter.slots, c) /\ limiter.active >= Concurrency
    <3>1. LET m == Park(limiter, c) IN
            /\ m \in LimiterType /\ m.active = limiter.active
            /\ m.slots = Append(limiter.slots, c)
      BY <1>0, LimiterMethods
    <3>2. limiter.active >= Concurrency
      BY <1>0, <1>5 DEF SlotFree
    <3> QED
      BY <1>5, <3>1, <3>2
  <2>2. /\ pc' \in [Calls -> Places] /\ Holders' = Holders /\ PermitHolders' = PermitHolders
        /\ At("parked")' = At("parked") \union {c} /\ At("waiting")' = At("waiting")
        /\ At("admitted")' = At("admitted") /\ At("woken")' = At("woken") \ {c}
    <3>1. /\ pc' \in [Calls -> Places]
          /\ \A where : At(where)' = IF where = "parked" THEN At(where) \union {c} ELSE At(where) \ {c}
          /\ Holders' = IF "parked" \in Holding THEN Holders \union {c} ELSE Holders \ {c}
          /\ PermitHolders' = IF "parked" = "sent" THEN PermitHolders \union {c}
                               ELSE PermitHolders \ {c}
      BY <1>0, <1>5, OneMoves
    <3> QED
      BY <1>2, <3>1, Counting, Sets DEF Holding
  <2>3. SlotsAccounted'
    BY <1>0, <1>1, <2>1, <2>2 DEF SlotsAccounted
  <2>4. NobodyStranded'
    <3>1. Enumerates(limiter'.slots, At("parked")')
      BY <1>0, <1>1, <1>2, <2>1, <2>2, Enqueue
    <3>2. limiter'.active + Cardinality(At("woken")') >= Concurrency
      <4>1. Cardinality(At("woken")') = Cardinality(At("woken") \ {c})
        BY <2>2
      <4>2. Cardinality(At("woken")') \in Nat
        BY <1>3, <4>1
      <4> QED BY <1>0, <2>1, <4>2
    <3> QED
      BY <1>1, <2>2, <3>1, <3>2 DEF NobodyStranded, Lists, Enumerates
  <2> QED
    BY <2>1, <2>2, <2>3, <2>4
<1> QED
  BY <1>4, <1>5 DEF TryForSlot

\* A turn of the loop of AdaptiveThrottle.acquire, by a call that has its slot.
LEMMA PermitTurn ==
    ASSUME IInv, NEW c \in Calls, pc[c] \in {"gated", "admitted"}, TryForPermit(c),
           limiter' \in LimiterType, limiter'.active = limiter.active,
           limiter'.slots = limiter.slots
    PROVE  /\ throttle' \in ThrottleType /\ pc' \in [Calls -> Places]
           /\ SlotsAccounted' /\ NobodyStranded'
<1> USE DEF Places
<1>0. /\ limiter \in LimiterType /\ throttle \in ThrottleType /\ pc \in [Calls -> Places]
      /\ throttle.active \in Nat /\ throttle.waiters \in Seq(Calls)
      /\ throttle.concurrency \in Nat \ {0}
  BY ThrottleAssumption DEF IInv, TypeOK, LimiterType, ThrottleType
<1>1. /\ limiter.active = Cardinality(Holders) /\ limiter.active <= Concurrency
      /\ throttle.active = Cardinality(PermitHolders)
      /\ Enumerates(limiter.slots, At("parked"))
      /\ Enumerates(throttle.waiters, At("waiting"))
      /\ limiter.slots # <<>> => limiter.active + Cardinality(At("woken")) >= Concurrency
  BY DEF IInv, SlotsAccounted, NobodyStranded, Lists, Enumerates
<1>2. /\ c \in Holders /\ c \notin PermitHolders /\ c \notin At("parked")
      /\ c \notin At("waiting") /\ c \notin At("woken")
  BY Sets DEF Holding
<1>3. ASSUME NEW place \in {"sent", "waiting"}, pc' = [pc EXCEPT ![c] = place]
      PROVE  /\ pc' \in [Calls -> Places] /\ Holders' = Holders
             /\ At("parked")' = At("parked") /\ At("woken")' = At("woken")
             /\ place = "sent" => /\ PermitHolders' = PermitHolders \union {c}
                                  /\ At("waiting")' = At("waiting")
             /\ place = "waiting" => /\ PermitHolders' = PermitHolders
                                     /\ At("waiting")' = At("waiting") \union {c}
  <2>0. place \in Places
    OBVIOUS
  <2> HIDE DEF Places
  <2>1. /\ pc' \in [Calls -> Places]
        /\ \A where : At(where)' = IF where = place THEN At(where) \union {c} ELSE At(where) \ {c}
        /\ Holders' = IF place \in Holding THEN Holders \union {c} ELSE Holders \ {c}
        /\ PermitHolders' = IF place = "sent" THEN PermitHolders \union {c}
                             ELSE PermitHolders \ {c}
    BY <1>0, <1>3, <2>0, OneMoves
  <2>2. /\ Holders \union {c} = Holders /\ PermitHolders \ {c} = PermitHolders
        /\ At("parked") \ {c} = At("parked") /\ At("woken") \ {c} = At("woken")
        /\ At("waiting") \ {c} = At("waiting")
    BY <1>2
  <2>3. /\ Holders' = Holders /\ At("parked")' = At("parked") /\ At("woken")' = At("woken")
    BY <2>1, <2>2 DEF Holding
  <2>4. CASE place = "sent"
    BY <2>1, <2>2, <2>3, <2>4
  <2>5. CASE place = "waiting"
    BY <2>1, <2>2, <2>3, <2>5
  <2> QED
    BY <2>4, <2>5
<1>4. Cardinality(At("admitted")') \in Nat
  <2>1. At("admitted")' \in SUBSET Calls
    BY DEF At
  <2> QED
    BY <2>1, Counting
<1>5. CASE PermitFree(throttle) /\ throttle' = TakePermit(throttle)
           /\ pc' = [pc EXCEPT ![c] = "sent"]
  <2>1. /\ throttle' \in ThrottleType /\ throttle'.active = throttle.active + 1
        /\ throttle'.waiters = throttle.waiters
    <3>1. LET u == TakePermit(throttle) IN
            /\ u \in ThrottleType /\ u.active = throttle.active + 1
            /\ u.waiters = throttle.waiters
      BY <1>0, ThrottleMethods
    <3> QED BY <1>5, <3>1
  <2>2. /\ pc' \in [Calls -> Places] /\ Holders' = Holders
        /\ At("parked")' = At("parked") /\ At("woken")' = At("woken")
        /\ PermitHolders' = PermitHolders \union {c} /\ At("waiting")' = At("waiting")
    BY <1>3, <1>5
  <2>3. Cardinality(PermitHolders') = throttle'.active
    BY <1>1, <1>2, <2>1, <2>2, Counting, Sets
  <2>4. SlotsAccounted'
    BY <1>1, <2>2, <2>3 DEF SlotsAccounted
  <2>5. throttle'.active + Cardinality(At("admitted")') > 0
    BY <1>0, <1>4, <2>1
  <2> QED
    BY <1>1, <2>1, <2>2, <2>4, <2>5 DEF NobodyStranded, Lists, Enumerates
<1>6. CASE ~PermitFree(throttle) /\ throttle' = Wait(throttle, c)
           /\ pc' = [pc EXCEPT ![c] = "waiting"]
  <2>1. /\ throttle' \in ThrottleType /\ throttle'.active = throttle.active
        /\ throttle'.waiters = Append(throttle.waiters, c) /\ throttle.active > 0
    <3>1. LET u == Wait(throttle, c) IN
            /\ u \in ThrottleType /\ u.active = throttle.active
            /\ u.waiters = Append(throttle.waiters, c)
      BY <1>0, ThrottleMethods
    <3>2. throttle.active > 0
      BY <1>0, <1>6 DEF PermitFree
    <3> QED BY <1>6, <3>1, <3>2
  <2>2. /\ pc' \in [Calls -> Places] /\ Holders' = Holders
        /\ At("parked")' = At("parked") /\ At("woken")' = At("woken")
        /\ PermitHolders' = PermitHolders /\ At("waiting")' = At("waiting") \union {c}
    BY <1>3, <1>6
  <2>3. SlotsAccounted'
    BY <1>1, <2>1, <2>2 DEF SlotsAccounted
  <2>4. Enumerates(throttle'.waiters, At("waiting")')
    BY <1>0, <1>1, <1>2, <2>1, <2>2, Enqueue
  <2>5. throttle'.active + Cardinality(At("admitted")') > 0
    BY <1>0, <1>4, <2>1
  <2> QED
    BY <1>1, <2>1, <2>2, <2>3, <2>4, <2>5 DEF NobodyStranded, Lists, Enumerates
<1> QED
  BY <1>5, <1>6 DEF TryForPermit

\* The end of an attempt: what the call held is given back, one caller of each queue
\* is woken, and none of that is lost; nobody else moves and no permit is taken.
LEMMA AttemptEnds ==
    ASSUME IInv, NEW c \in Calls, NEW outcome \in Outcomes, NEW retryAfter \in Nat,
           NEW overBudget \in BOOLEAN, Settle(c, outcome, retryAfter, overBudget)
    PROVE  /\ IInv'
           /\ throttle'.active < throttle.active
           /\ \A d \in Calls : pc'[d] \in Settled \union {"backoff", "woken", "admitted", pc[d]}
<1> USE DEF Places
<1> DEFINE judged == Judge(outcome, retryAfter)
           place == Verdict(outcome, attempt[c] + 1, overBudget)
           heirs == SlotWoken(limiter)
           next == PermitWoken(throttle)
<1>0. /\ limiter \in LimiterType /\ throttle \in ThrottleType /\ pc \in [Calls -> Places]
      /\ limiter.active \in Nat /\ limiter.slots \in Seq(Calls)
      /\ throttle.active \in Nat /\ throttle.waiters \in Seq(Calls)
      /\ Concurrency \in Nat \ {0} /\ RetryMax \in Nat
      /\ breaker \in Entry /\ Consistent(breaker)
      /\ attempt \in [Calls -> 0..RetryMax] /\ retryIn \in [Calls -> 0..Cooldown]
  BY LimiterAssumption, RetryAssumption
  DEF IInv, TypeOK, LimiterType, ThrottleType, BreakerConsistent, Consistent
<1>1. /\ limiter.active = Cardinality(Holders) /\ limiter.active <= Concurrency
      /\ throttle.active = Cardinality(PermitHolders)
      /\ Enumerates(limiter.slots, At("parked"))
      /\ Enumerates(throttle.waiters, At("waiting"))
      /\ limiter.slots # <<>> => limiter.active + Cardinality(At("woken")) >= Concurrency
  BY DEF IInv, SlotsAccounted, NobodyStranded, Lists, Enumerates
<1>2. /\ pc[c] = "sent" /\ c \in Holders /\ c \in PermitHolders /\ c \notin At("parked")
      /\ c \notin At("waiting") /\ c \notin At("woken") /\ c \notin At("admitted")
  BY Sets DEF Settle, Holding
<1>3. /\ breaker' = IF outcome = "ok" THEN RecordSuccess(breaker) ELSE RecordFailure(breaker)
      /\ throttle' = ReleasePermit(judged) /\ limiter' = ReleaseSlot(limiter)
      /\ pc' = Moved(c, place, heirs, next)
      /\ attempt' = IF place = "backoff" THEN [attempt EXCEPT ![c] = @ + 1] ELSE attempt
      /\ retryIn' = retryIn
  BY DEF Settle
<1>4. place \in {"done", "failed", "backoff"}
      /\ (place = "backoff" => attempt[c] + 1 <= RetryMax)
  BY DEF Verdict, ShouldRetry
<1>5. /\ judged \in ThrottleType /\ judged.active = throttle.active
      /\ judged.waiters = throttle.waiters
  <2>1. /\ OnSuccess(throttle) \in ThrottleType
        /\ OnSuccess(throttle).active = throttle.active
        /\ OnSuccess(throttle).waiters = throttle.waiters
        /\ OnFailure(throttle, retryAfter) \in ThrottleType
        /\ OnFailure(throttle, retryAfter).active = throttle.active
        /\ OnFailure(throttle, retryAfter).waiters = throttle.waiters
    BY <1>0, ThrottleMethods
  <2> QED
    BY <1>0, <2>1 DEF Judge
<1>6. /\ limiter' \in LimiterType
      /\ limiter'.active = limiter.active - 1 /\ limiter.active > 0
      /\ limiter'.slots = IF limiter.slots = <<>> THEN limiter.slots ELSE Tail(limiter.slots)
  <2>1. limiter.active > 0
    <3>1. \A S \in SUBSET Calls : c \in S => Cardinality(S) > 0
      BY Counting
    <3> QED BY <1>1, <1>2, <3>1, Sets
  <2>2. LET m == ReleaseSlot(limiter) IN
        /\ m \in LimiterType
        /\ m.active = IF limiter.active > 0 THEN limiter.active - 1 ELSE 0
        /\ m.slots = IF limiter.slots = <<>> THEN limiter.slots ELSE Tail(limiter.slots)
    BY <1>0, LimiterMethods
  <2> QED
    BY <1>3, <2>1, <2>2
<1>7. /\ throttle' \in ThrottleType
      /\ throttle'.active = throttle.active - 1 /\ throttle.active > 0
      /\ throttle'.waiters = IF throttle.waiters = <<>> THEN throttle.waiters
                             ELSE Tail(throttle.waiters)
  <2>1. throttle.active > 0
    <3>1. \A S \in SUBSET Calls : c \in S => Cardinality(S) > 0
      BY Counting
    <3> QED BY <1>1, <1>2, <3>1, Sets
  <2> HIDE DEF judged
  <2>2. LET u == ReleasePermit(judged) IN
        /\ u \in ThrottleType
        /\ u.active = IF judged.active > 0 THEN judged.active - 1 ELSE 0
        /\ u.waiters = IF judged.waiters = <<>> THEN judged.waiters ELSE Tail(judged.waiters)
    BY <1>5, ThrottleMethods
  <2> QED
    BY <1>3, <1>5, <2>1, <2>2
\* The woken calls were parked, so they hold nothing yet, or no more than before.
<1>8. /\ heirs = IF limiter.slots = <<>> THEN {} ELSE {Head(limiter.slots)}
      /\ heirs \in SUBSET At("parked")
      /\ limiter.slots # <<>> => /\ Head(limiter.slots) \in At("parked")
                                 /\ Enumerates(Tail(limiter.slots),
                                               At("parked") \ {Head(limiter.slots)})
  BY <1>0, <1>1, Dequeue DEF SlotWoken
<1>9. /\ next = IF throttle.waiters = <<>> THEN {} ELSE {Head(throttle.waiters)}
      /\ next \in SUBSET At("waiting")
      /\ throttle.waiters # <<>> => /\ Head(throttle.waiters) \in At("waiting")
                                    /\ Enumerates(Tail(throttle.waiters),
                                                  At("waiting") \ {Head(throttle.waiters)})
  BY <1>0, <1>1, Dequeue DEF PermitWoken
<1> HIDE DEF judged, place, heirs, next
<1>10. /\ pc' \in [Calls -> Places]
       /\ \A d \in Calls : pc'[d] = IF d = c THEN place
                                    ELSE IF d \in heirs THEN "woken"
                                    ELSE IF d \in next THEN "admitted" ELSE pc[d]
  <2>1. pc' = [d \in Calls |-> CASE d = c -> place
                                 [] d \in heirs -> "woken"
                                 [] d \in next -> "admitted"
                                 [] OTHER -> pc[d]]
    BY <1>3 DEF Moved
  <2>2. ASSUME NEW d \in Calls
        PROVE  pc'[d] = IF d = c THEN place
                        ELSE IF d \in heirs THEN "woken"
                        ELSE IF d \in next THEN "admitted" ELSE pc[d]
    <3>1. d \in heirs => d # c /\ d \notin next
      BY <1>2, <1>8, <1>9, Sets
    <3>2. d \in next => d # c /\ d \notin heirs
      BY <1>2, <1>8, <1>9, Sets
    <3> QED
      BY <2>1, <3>1, <3>2
  <2> QED
    BY <1>0, <1>4, <2>1, <2>2
<1>11. \A d \in Calls : /\ d \in heirs => pc[d] = "parked" /\ d # c
                        /\ d \in next => pc[d] = "waiting" /\ d # c
  BY <1>2, <1>8, <1>9, Sets
<1>12. /\ Holders' = Holders \ {c} /\ PermitHolders' = PermitHolders \ {c}
  BY <1>4, <1>10, <1>11 DEF Holders, HoldsSlot, PermitHolders, HoldsPermit
<1>13. /\ At("parked")' = At("parked") \ heirs /\ At("woken")' = At("woken") \union heirs
       /\ At("waiting")' = At("waiting") \ next /\ At("admitted")' = At("admitted") \union next
  BY <1>2, <1>4, <1>10, <1>11, <1>8, <1>9 DEF At
<1>14. SlotsAccounted'
  <2>1. Cardinality(Holders') = limiter'.active /\ Cardinality(PermitHolders') = throttle'.active
    BY <1>1, <1>2, <1>6, <1>7, <1>12, Counting, Sets
  <2>2. limiter'.active <= Concurrency
    BY <1>0, <1>1, <1>6
  <2> QED
    BY <2>1, <2>2 DEF SlotsAccounted
<1>15. Enumerates(limiter'.slots, At("parked")')
  BY <1>1, <1>6, <1>8, <1>13
<1>16. Enumerates(throttle'.waiters, At("waiting")')
  BY <1>1, <1>7, <1>9, <1>13
<1>17. ASSUME limiter.slots # <<>>
       PROVE  limiter'.active + Cardinality(At("woken")') >= Concurrency
  <2> DEFINE h == Head(limiter.slots)
             W == At("woken")
  <2>1. h \in Calls /\ h \notin W /\ W \in SUBSET Calls /\ At("woken")' = W \union {h}
    BY <1>8, <1>13, <1>17, Sets
  <2> HIDE DEF h
  <2>2. Cardinality(W) \in Nat /\ Cardinality(At("woken")') = Cardinality(W) + 1
    <3> HIDE DEF W
    <3>1. Cardinality(W \union {h}) = Cardinality(W) + 1 /\ Cardinality(W) \in Nat
      BY <2>1, Counting
    <3> QED BY <2>1, <3>1
  <2> QED
    BY <1>0, <1>1, <1>6, <1>17, <2>2
<1>18. ASSUME throttle.waiters # <<>>
       PROVE  throttle'.active + Cardinality(At("admitted")') > 0
  <2> DEFINE h == Head(throttle.waiters)
             A == At("admitted")'
  <2>1. h \in A /\ A \in SUBSET Calls /\ h \in Calls
    BY <1>9, <1>13, <1>18, Sets
  <2>2. Cardinality(A) \in Nat /\ Cardinality(A) > 0
    <3> HIDE DEF A, h
    <3> QED BY <2>1, Counting
  <2>3. throttle'.active \in Nat
    BY <1>7, <1>0
  <2> QED
    BY <2>2, <2>3
<1>19. NobodyStranded'
  BY <1>6, <1>7, <1>15, <1>16, <1>17, <1>18 DEF NobodyStranded, Lists, Enumerates
<1>20. breaker' \in Entry /\ BreakerConsistent'
  <2>1. breaker' \in Entry /\ Consistent(breaker')
    BY <1>0, <1>3, BreakerMethods
  <2> QED
    BY <2>1 DEF Consistent, BreakerConsistent
<1>21. attempt' \in [Calls -> 0..RetryMax]
  BY <1>0, <1>3, <1>4
<1>22. TypeOK'
  BY <1>0, <1>3, <1>6, <1>7, <1>10, <1>20, <1>21 DEF TypeOK, LimiterType, ThrottleType
<1>23. throttle'.active < throttle.active
  BY <1>0, <1>7
<1> QED
  BY <1>4, <1>10, <1>14, <1>19, <1>20, <1>22, <1>23 DEF IInv, Settled

-----------------------------------------------------------------------------
\* The inductive invariant holds before the first call.
LEMMA InitIInv == Init => IInv
<1> SUFFICES ASSUME Init PROVE IInv
  OBVIOUS
<1> USE DEF Init
<1>1. /\ BreakerAssumption /\ LimiterAssumption /\ ThrottleAssumption /\ RetryAssumption
  BY BreakerAssumption, LimiterAssumption, ThrottleAssumption, RetryAssumption
<1>2. breaker \in Entry /\ BreakerConsistent
  BY <1>1 DEF BreakerAssumption, FreshEntry, Entry, BreakerStates, BreakerConsistent
<1>3. limiter \in LimiterType
  BY <1>1 DEF LimiterAssumption, FreshLimiter, LimiterType
<1>4. throttle \in ThrottleType
  <2> DEFINE n == Greatest(MinConcurrency, Least(MaxConcurrency, InitialConcurrency))
  <2>1. n \in MinConcurrency..MaxConcurrency
    BY <1>1 DEF ThrottleAssumption, Greatest, Least
  <2>2. throttle = [concurrency |-> n, active |-> 0, successes |-> 0, delay |-> 0,
                    waiters |-> <<>>]
    BY DEF FreshThrottle
  <2> HIDE DEF n
  <2> QED
    BY <1>1, <2>1, <2>2 DEF ThrottleType, ThrottleAssumption
<1>5. TypeOK
  BY <1>1, <1>2, <1>3, <1>4
  DEF TypeOK, LimiterType, ThrottleType, Places, BreakerAssumption, RetryAssumption
<1>6. Holders = {} /\ PermitHolders = {} /\ At("parked") = {} /\ At("waiting") = {}
  BY DEF Holders, HoldsSlot, PermitHolders, HoldsPermit, At
<1>7. limiter.active = 0 /\ limiter.slots = <<>> /\ throttle.active = 0
      /\ throttle.waiters = <<>>
  BY DEF FreshLimiter, FreshThrottle
<1>8. SlotsAccounted
  BY <1>1, <1>6, <1>7, FS_EmptySet DEF SlotsAccounted, LimiterAssumption
<1>9. NobodyStranded
  BY <1>6, <1>7 DEF NobodyStranded, Lists
<1> QED
  BY <1>2, <1>5, <1>8, <1>9 DEF IInv

\* Every action preserves the inductive invariant: a call asking the breaker, a turn of
\* either waiting loop, the gate, the end of an attempt, and the clock.
LEMMA NextIInv == IInv /\ [Next]_vars => IInv'
<1> SUFFICES ASSUME IInv, [Next]_vars PROVE IInv'
  OBVIOUS
<1>0. /\ TypeOK /\ limiter \in LimiterType /\ throttle \in ThrottleType
      /\ breaker \in Entry /\ Consistent(breaker) /\ pc \in [Calls -> Places]
  BY DEF IInv, TypeOK, LimiterType, ThrottleType, BreakerConsistent, Consistent
<1>1. ASSUME NEW c \in Calls, Fetch(c) PROVE IInv'
  <2>1. breaker' \in Entry /\ BreakerConsistent'
    BY <1>0, <1>1, BreakerMethods DEF Fetch, BreakerConsistent, Consistent
  <2>2. pc[c] \in {"idle", "refused"} /\ throttle' = throttle /\ attempt' = attempt
    BY <1>1 DEF Fetch
  <2>3. CASE TryForSlot(c) /\ retryIn' = retryIn
    <3>1. /\ limiter' \in LimiterType /\ pc' \in [Calls -> Places]
          /\ SlotsAccounted' /\ NobodyStranded'
      BY <2>2, <2>3, SlotTurn
    <3> QED
      BY <1>0, <2>1, <2>2, <2>3, <3>1 DEF IInv, TypeOK, LimiterType
  <2>4. CASE /\ pc' = [pc EXCEPT ![c] = "refused"] /\ limiter' = limiter
             /\ retryIn' = [retryIn EXCEPT ![c] = breaker'.cooling]
    <3>1. "refused" \in Places /\ breaker'.cooling \in 0..Cooldown
      BY <2>1 DEF Places, Entry
    <3>2. /\ pc' \in [Calls -> Places]
          /\ \A where : At(where)' = IF where = "refused" THEN At(where) \union {c} ELSE At(where) \ {c}
          /\ Holders' = IF "refused" \in Holding THEN Holders \union {c} ELSE Holders \ {c}
          /\ PermitHolders' = IF "refused" = "sent" THEN PermitHolders \union {c}
                               ELSE PermitHolders \ {c}
      BY <1>0, <2>4, <3>1, OneMoves
    <3>3. /\ Holders' = Holders /\ PermitHolders' = PermitHolders
          /\ At("parked")' = At("parked") /\ At("waiting")' = At("waiting")
          /\ At("woken")' = At("woken") /\ At("admitted")' = At("admitted")
      <4>1. /\ c \notin Holders /\ c \notin PermitHolders /\ c \notin At("parked")
            /\ c \notin At("waiting") /\ c \notin At("woken") /\ c \notin At("admitted")
        BY <2>2, Sets DEF Holding, Places
      <4> QED
        BY <3>2, <4>1 DEF Holding
    <3>4. SlotsAccounted' /\ NobodyStranded'
      BY <2>2, <2>4, <3>3 DEF IInv, SlotsAccounted, NobodyStranded, Lists
    <3>5. retryIn' \in [Calls -> 0..Cooldown]
      BY <1>0, <2>4, <3>1 DEF TypeOK
    <3> QED
      BY <1>0, <2>1, <2>2, <2>4, <3>2, <3>4, <3>5 DEF IInv, TypeOK
  <2> QED
    BY <1>1, <2>3, <2>4 DEF Fetch
<1>2. ASSUME NEW c \in Calls, ResumeForSlot(c) \/ Retried(c) PROVE IInv'
  <2>1. /\ pc[c] \in {"woken", "backoff"} /\ TryForSlot(c)
        /\ UNCHANGED <<breaker, throttle, attempt, retryIn>>
    BY <1>2 DEF ResumeForSlot, Retried
  <2>2. /\ limiter' \in LimiterType /\ pc' \in [Calls -> Places]
        /\ SlotsAccounted' /\ NobodyStranded'
    BY <2>1, SlotTurn
  <2> QED
    BY <1>0, <2>1, <2>2 DEF IInv, TypeOK, LimiterType, BreakerConsistent
<1>3. ASSUME NEW c \in Calls, LeaveGate(c) PROVE IInv'
  <2>1. /\ limiter' \in LimiterType /\ limiter'.active = limiter.active
        /\ limiter'.slots = limiter.slots
    BY <1>0, <1>3, LimiterMethods DEF LeaveGate, GateOpen
  <2>2. /\ throttle' \in ThrottleType /\ pc' \in [Calls -> Places]
        /\ SlotsAccounted' /\ NobodyStranded'
    BY <1>3, <2>1, PermitTurn DEF LeaveGate
  <2> QED
    BY <1>0, <1>3, <2>1, <2>2
    DEF LeaveGate, IInv, TypeOK, LimiterType, ThrottleType, BreakerConsistent
<1>4. ASSUME NEW c \in Calls, ResumeForPermit(c) PROVE IInv'
  <2>1. /\ throttle' \in ThrottleType /\ pc' \in [Calls -> Places]
        /\ SlotsAccounted' /\ NobodyStranded'
    BY <1>0, <1>4, PermitTurn DEF ResumeForPermit
  <2> QED
    BY <1>0, <1>4, <2>1
    DEF ResumeForPermit, IInv, TypeOK, ThrottleType, BreakerConsistent
<1>5. ASSUME NEW c \in Calls, Respond(c) PROVE IInv'
  <2>1. PICK outcome \in Outcomes, overBudget \in BOOLEAN :
             \E retryAfter \in IF outcome = "throttled" THEN RetryAfters ELSE {0} :
                 Settle(c, outcome, retryAfter, overBudget)
    BY <1>5 DEF Respond
  <2>2. PICK retryAfter \in IF outcome = "throttled" THEN RetryAfters ELSE {0} :
                 Settle(c, outcome, retryAfter, overBudget)
    BY <2>1
  <2>3. retryAfter \in Nat
    BY <2>2, PipelineAssumption
  <2> QED
    BY <2>2, <2>3, AttemptEnds
<1>6. CASE Tick
  <2>1. breaker' \in Entry /\ BreakerConsistent'
    BY <1>0, <1>6, BreakerMethods DEF Tick, BreakerConsistent, Consistent
  <2>2. /\ limiter' \in LimiterType /\ limiter'.active = limiter.active
        /\ limiter'.slots = limiter.slots
    <3>1. CASE Calls = {}
      BY <1>0, <1>6, <3>1, LimiterAssumption DEF Tick, GateElapse, LimiterType
    <3>2. CASE Calls # {}
      BY <1>0, <1>6, <3>2, LimiterMethods DEF Tick
    <3> QED
      BY <3>1, <3>2
  <2>3. retryIn' \in [Calls -> 0..Cooldown]
    BY <1>0, <1>6, BreakerAssumption DEF Tick, TypeOK
  <2>4. UNCHANGED <<throttle, pc, attempt>>
    BY <1>6 DEF Tick
  <2>5. SlotsAccounted' /\ NobodyStranded'
    BY <2>2, <2>4
    DEF IInv, SlotsAccounted, NobodyStranded, Lists, Holders, HoldsSlot, PermitHolders,
        HoldsPermit, At
  <2> QED
    BY <1>0, <2>1, <2>2, <2>3, <2>4, <2>5 DEF IInv, TypeOK, LimiterType
<1>7. CASE UNCHANGED vars
  <2>1. UNCHANGED <<breaker, limiter, throttle, pc, attempt, retryIn>>
    BY <1>7 DEF vars
  <2>2. TypeOK' /\ BreakerConsistent'
    BY <2>1 DEF IInv, TypeOK, BreakerConsistent
  <2>3. SlotsAccounted'
    BY <2>1 DEF IInv, SlotsAccounted, Holders, HoldsSlot, PermitHolders, HoldsPermit
  <2>4. NobodyStranded'
    BY <2>1 DEF IInv, NobodyStranded, Lists, At
  <2> QED
    BY <2>2, <2>3, <2>4 DEF IInv
<1> QED
  BY <1>1, <1>2, <1>3, <1>4, <1>5, <1>6, <1>7 DEF Next

\* The state keeps its shape, and everything the pipeline counts, lists and remembers
\* agrees with where its calls are: in every behaviour, for every set of calls.
THEOREM Invariance == Spec => []IInv
<1>1. Init => IInv
  BY InitIInv
<1>2. IInv /\ [Next]_vars => IInv'
  BY NextIInv
<1> QED
  BY <1>1, <1>2, PTL DEF Spec

\* Every variable keeps its type: the limit of the throttle and its delay within their
\* configured bounds, attempt numbers within RetryMax.
THEOREM TypeCorrect == Spec => []TypeOK
<1>1. IInv => TypeOK
  BY DEF IInv
<1> QED
  BY <1>1, Invariance, PTL

\* No attempt leaks a slot or a permit, and never more than options.concurrency of
\* them are between acquire and release.
THEOREM SlotsAlwaysAccounted == Spec => []SlotsAccounted
<1>1. IInv => SlotsAccounted
  BY DEF IInv
<1> QED
  BY <1>1, Invariance, PTL

\* No wake-up is lost in either queue.
THEOREM NobodyEverStranded == Spec => []NobodyStranded
<1>1. IInv => NobodyStranded
  BY DEF IInv
<1> QED
  BY <1>1, Invariance, PTL

\* The breaker's state, its failure count and its cooldown always fit together.
THEOREM BreakerAlwaysConsistent == Spec => []BreakerConsistent
<1>1. IInv => BreakerConsistent
  BY DEF IInv
<1> QED
  BY <1>1, Invariance, PTL

-----------------------------------------------------------------------------
(* Two properties of the steps, which need the invariant in the state they leave. *)

\* A call gets past _fetch's assertCanRequest only with a breaker that is closed, or
\* open for its whole cooldown, or half open already.
LEMMA AdmissionStep ==
    ASSUME IInv, [Next]_vars, NEW c \in Calls, Admits(c)
    PROVE  breaker.state = "closed" \/ breaker.cooling = 0
<1>0. /\ pc \in [Calls -> Places] /\ pc[c] \in {"idle", "refused"}
      /\ pc'[c] \in {"gated", "parked"}
      /\ breaker.state \in BreakerStates /\ breaker.cooling \in 0..Cooldown
      /\ breaker.cooling > 0 => breaker.state = "open"
  BY DEF IInv, TypeOK, Entry, BreakerConsistent, Admits
<1>1. ASSUME NEW d \in Calls, NEW place, pc' = [pc EXCEPT ![d] = place], pc[d] # "idle",
             pc[d] # "refused"
      PROVE  FALSE
  BY <1>0, <1>1
<1>2. ASSUME NEW d \in Calls, Fetch(d)
      PROVE  breaker.state = "closed" \/ breaker.cooling = 0
  <2>1. d = c
    BY <1>0, <1>2 DEF Fetch, TryForSlot
  <2>2. CanRequest(TransitionIfDue(breaker))
    BY <1>0, <1>2, <2>1 DEF Fetch
  <2>3. breaker.state = "open" => breaker.cooling = 0
    BY <2>2 DEF CanRequest, TransitionIfDue
  <2> QED
    BY <1>0, BreakerAssumption, <2>3
<1>3. ASSUME NEW d \in Calls, ResumeForSlot(d) \/ Retried(d) PROVE FALSE
  BY <1>1, <1>3 DEF ResumeForSlot, Retried, TryForSlot
<1>4. ASSUME NEW d \in Calls, LeaveGate(d) \/ ResumeForPermit(d) PROVE FALSE
  BY <1>1, <1>4 DEF LeaveGate, ResumeForPermit, TryForPermit
<1>5. ASSUME NEW d \in Calls, Respond(d) PROVE FALSE
  <2>1. PICK outcome \in Outcomes, overBudget \in BOOLEAN :
             \E retryAfter \in IF outcome = "throttled" THEN RetryAfters ELSE {0} :
                 Settle(d, outcome, retryAfter, overBudget)
    BY <1>5 DEF Respond
  <2>2. PICK retryAfter \in IF outcome = "throttled" THEN RetryAfters ELSE {0} :
                 Settle(d, outcome, retryAfter, overBudget)
    BY <2>1
  <2>3. retryAfter \in Nat
    BY <2>2, PipelineAssumption
  <2>4. pc'[c] \in Settled \union {"backoff", "woken", "admitted", pc[c]}
    BY <2>2, <2>3, AttemptEnds
  <2> QED
    BY <1>0, <2>4 DEF Settled
<1>6. CASE Tick \/ UNCHANGED vars
  BY <1>0, <1>6 DEF Tick, vars
<1> QED
  BY <1>2, <1>3, <1>4, <1>5, <1>6 DEF Next

\* Only a turn of acquire's loop that finds a permit free takes one.
LEMMA PermitStep ==
    ASSUME IInv, [Next]_vars, throttle'.active > throttle.active
    PROVE  throttle'.active <= throttle'.concurrency
<1>0. /\ throttle \in ThrottleType /\ throttle.active \in Nat
      /\ throttle.concurrency \in Nat
  BY ThrottleAssumption DEF IInv, TypeOK, ThrottleType
<1>1. ASSUME NEW c \in Calls, TryForPermit(c)
      PROVE  throttle'.active <= throttle'.concurrency
  <2>1. CASE PermitFree(throttle) /\ throttle' = TakePermit(throttle)
    BY <1>0, <2>1 DEF PermitFree, TakePermit, ThrottleType
  <2>2. CASE throttle' = Wait(throttle, c)
    BY <1>0, <2>2 DEF Wait, ThrottleType
  <2> QED
    BY <1>1, <2>1, <2>2 DEF TryForPermit
<1>2. ASSUME NEW c \in Calls, LeaveGate(c) \/ ResumeForPermit(c)
      PROVE  throttle'.active <= throttle'.concurrency
  BY <1>1, <1>2 DEF LeaveGate, ResumeForPermit
<1>3. ASSUME NEW c \in Calls, Respond(c) PROVE FALSE
  <2>1. PICK outcome \in Outcomes, overBudget \in BOOLEAN :
             \E retryAfter \in IF outcome = "throttled" THEN RetryAfters ELSE {0} :
                 Settle(c, outcome, retryAfter, overBudget)
    BY <1>3 DEF Respond
  <2>2. PICK retryAfter \in IF outcome = "throttled" THEN RetryAfters ELSE {0} :
                 Settle(c, outcome, retryAfter, overBudget)
    BY <2>1
  <2>3. retryAfter \in Nat
    BY <2>2, PipelineAssumption
  <2>4. throttle'.active < throttle.active /\ throttle'.active \in Nat
    BY <2>2, <2>3, AttemptEnds DEF IInv, TypeOK, ThrottleType
  <2> QED
    BY <1>0, <2>4
<1>4. CASE UNCHANGED throttle
  BY <1>0, <1>4
<1> QED
  BY <1>2, <1>3, <1>4
  DEF Next, Fetch, ResumeForSlot, Retried, Tick, vars

\* However late the answers of earlier calls come and whatever they do to the breaker,
\* _fetch lets nobody in during a cooldown.
THEOREM CooldownIsRespected == Spec => AdmissionRespectsCooldown
<1>1. IInv /\ [Next]_vars =>
        [\A c \in Calls : Admits(c) => breaker.state = "closed" \/ breaker.cooling = 0]_vars
  BY AdmissionStep
<1> QED
  BY <1>1, Invariance, PTL DEF Spec, AdmissionRespectsCooldown

\* A throttle whose limit fell below its permits hands none out until it is back under it.
THEOREM CutBackHolds == Spec => ThrottleCutBackHolds
<1>1. IInv /\ [Next]_vars =>
        [throttle.active' > throttle.active => throttle.active' <= throttle.concurrency']_vars
  BY PermitStep
<1> QED
  BY <1>1, Invariance, PTL DEF Spec, ThrottleCutBackHolds

-----------------------------------------------------------------------------
(* The attempts. *)

\* An attempt has blamed no proxy yet, an older one of the same call may have.
BlameIsPast ==
    \A m \in Elements(Proxies) :
        /\ IsFiniteSet(blame[m])
        /\ \A c \in Clients, t \in 0..MaxTries : <<c, t>> \in blame[m] =>
              \/ t < client[c].try
              \/ t = client[c].try /\ Here(c, "rejected")

\* A call that has begun has a proxy, and its site an identity.
BegunHasBoth ==
    \A c \in Clients : ~Here(c, "idle") =>
        /\ client[c].proxy \in Elements(Proxies)
        /\ pool.assigned[Site[c]] \in Elements(Identities)

AttemptsIInv ==
    /\ AttemptsTypeOK
    /\ pool = [assigned |-> pool.assigned, index |-> pool.index]
    /\ rotator = [failures |-> rotator.failures, sticky |-> rotator.sticky, index |-> rotator.index]
    /\ DOMAIN blame = Elements(Proxies) /\ BlameIsPast /\ BegunHasBoth /\ AttemptsAccounted

-----------------------------------------------------------------------------
(* The network. *)

\* Where an URL differs from the one before, and how often it does so when one more comes.
Changes(trail) == {i \in 2..Len(trail) : trail[i].url # trail[i - 1].url}
Crossings(trail, url) ==
    Cardinality(Changes(trail)) + (IF trail # <<>> /\ trail[Len(trail)].url # url THEN 1 ELSE 0)

\* The way has not left the origin of the call up to its k-th hop.
Home(trail, k) == \A j \in 1..k : trail[j].url = request.url

\* Sensitive headers are there only where nothing but the first origin was visited, and the
\* body with its method.
MayCarry(config, home) ==
    /\ config.secret => request.policy.forwardSensitiveHeaders \/ home
    /\ config.body => config.method = request.config.method

Guarded ==
    request.policy.guard = "addresses" /\ request.policy.validateEachHop /\ ~request.proxy

\* A guarded hop has the pin of an address that was checked for its host.
Pinned(config, url) ==
    Guarded => /\ config.lookup # None
               /\ config.lookup.host = url.host /\ config.lookup.address \notin Private

\* The hop under way of a call over HTTP/1.1, and what was sent before it.
HopSound ==
    /\ IF call = "http1" THEN hop.place # "none" ELSE hop.place = "none" /\ sent = <<>>
    /\ Len(sent) \in {hop.hops, hop.hops + 1}
    /\ hop.place = "waiting" => hop.hops <= MaxRedirects
    /\ hop.place \in {"body", "writing", "preparing"} => Len(sent) = hop.hops + 1
    /\ Len(sent) = hop.hops + 1 => sent[Len(sent)].url = hop.url
    /\ hop.cross <= MaxCrossHostHops
    /\ Crossings(sent, hop.url) <= hop.cross
    /\ hop.place = "preparing" =>
          /\ hop.target \in [url: Urls, status: {"moved", "kept"}]
          /\ Crossings(sent, hop.target.url) <= hop.cross
    /\ MayCarry(hop.config, hop.url = request.url /\ Home(sent, Len(sent)))
    /\ hop.place # "none" => Pinned(hop.config, hop.url)

\* The types that FetcherTypeOK leaves open.
HopTyped ==
    /\ hop = [place |-> hop.place, url |-> hop.url, config |-> hop.config, hops |-> hop.hops,
              cross |-> hop.cross, target |-> hop.target]
    /\ sent \in Seq([url: Urls, config: Configs,
                     address: UNION {Addresses[h] : h \in Hosts \union {ProxyHost}}])

\* What was sent left as its hop was, to an address that was checked for it.
SentSound ==
    \A k \in DOMAIN sent :
       /\ MayCarry(sent[k].config, Home(sent, k))
       /\ Pinned(sent[k].config, sent[k].url)
       /\ Guarded => sent[k].address = sent[k].config.lookup.address

\* What was received is handed over as the call asked for it, and files are known.
BodySound ==
    /\ hop.place \in {"writing", "ok"} /\ request.verifyLength => body.complete
    /\ file.stream # "none" \/ file.onDisk => file.tracked \/ closed

\* An aborted call listens no more.
AbortSound ==
    /\ abortedAt = "pending" => aborted /\ CallOutcome # "ok"
    /\ aborted => hop.place \notin Listening /\ \A k \in DOMAIN frames : ~IsPending(k)

Target == [url: Urls, status: {"moved", "kept"}]
FrameType ==
    [url: Urls, config: Configs, promise: Promises,
     listener: {"streaming", "preparing", "awaiting", "over"}, target: Target \union {None}]

\* The hops over HTTP/2, and those that were sent.
StackSound ==
    /\ frames \in Seq(FrameType) /\ Len(frames) <= MaxRedirects + 1
    /\ sent2 \in Seq([url: Urls, config: Configs]) /\ Len(sent2) \in {Top - 1, Top}
    /\ \A k \in DOMAIN sent2 : sent2[k].url = frames[k].url /\ sent2[k].config = frames[k].config
    /\ \A k \in DOMAIN frames : MayCarry(frames[k].config, Home(frames, k))
    /\ Cardinality(Changes(frames)) <= MaxCrossHostHops
    /\ Cardinality(Changes(frames)) <= cross2
    /\ Top > 0 /\ (IsPending(Top) \/ frames[Top].listener = "preparing") =>
          cross2 <= MaxCrossHostHops
    /\ Top > 0 /\ frames[Top].listener = "preparing" =>
          /\ Len(sent2) = Top /\ frames[Top].target \in Target
          /\ Crossings(frames, frames[Top].target.url) <= cross2

\* A call that began over HTTP/2 falls back with the URL and the pin it began with.
FallBackSound ==
    /\ call = "http2" => frames # <<>>
    /\ frames = <<>> => cross2 = 0
    /\ frames # <<>> =>
          /\ call = "http2" \/ (call = "http1" /\ frames[1].promise = "other")
          /\ ~request.proxy
          /\ frames[1].url = request.url /\ Pinned(frames[1].config, request.url)
          /\ frames[1].config = [request.config EXCEPT !.lookup = frames[1].config.lookup]

TransportIInv ==
    /\ TransportTypeOK /\ HopTyped /\ HopSound /\ SentSound /\ BodySound /\ AbortSound /\ StackSound
    /\ FallBackSound

-----------------------------------------------------------------------------
(* The attempts keep their invariant. *)

\* The next in turn is one of the sequence.
LEMMA InTurn ==
    ASSUME NEW s \in {Identities, Proxies}, NEW i \in Nat
    PROVE  Turn(s, i) \in Elements(s)
<1>1. Len(s) \in Nat \ {0} /\ DOMAIN s = 1..Len(s)
  BY AttemptsAssumption
<1> DEFINE n == Len(s)
<1> HIDE DEF n
<1>2. (i % n) + 1 \in 1..n
  BY <1>1 DEF n
<1> QED
  BY <1>1, <1>2 DEF Turn, Elements, n

\* What the updates of a client's record make of it.
LEMMA ClientUpdates ==
    ASSUME AttemptsTypeOK, NEW c \in Clients, NEW place
    PROVE  LET r == client[c]
           IN  /\ [client EXCEPT ![c].place = place] =
                     [client EXCEPT ![c] = [place |-> place, try |-> r.try, identity |-> r.identity,
                                            proxy |-> r.proxy, token |-> r.token]]
               /\ [r EXCEPT !.place = place] =
                     [place |-> place, try |-> r.try, identity |-> r.identity,
                      proxy |-> r.proxy, token |-> r.token]
               /\ r.try \in 0..MaxTries /\ r.identity \in Elements(Identities) \union {Nothing}
               /\ r.proxy \in Elements(Proxies) \union {Nothing} /\ r.token \in 0..1
               /\ r.place \in Places2
<1>1. client[c] \in [place: Places2, try: 0..MaxTries,
                     identity: Elements(Identities) \union {Nothing},
                     proxy: Elements(Proxies) \union {Nothing}, token: 0..1]
      /\ DOMAIN client = Clients
  BY DEF AttemptsTypeOK
<1>2. [client[c] EXCEPT !.place = place] =
         [place |-> place, try |-> client[c].try, identity |-> client[c].identity,
          proxy |-> client[c].proxy, token |-> client[c].token]
  BY <1>1
<1>3. [client EXCEPT ![c].place = place] = [client EXCEPT ![c] = [client[c] EXCEPT !.place = place]]
  BY <1>1
<1> QED
  BY <1>1, <1>2, <1>3

\* Before any call has begun.
LEMMA AttemptsInitially == AttemptsInit => AttemptsIInv
<1> SUFFICES ASSUME AttemptsInit PROVE AttemptsIInv
  OBVIOUS
<1> USE DEF AttemptsInit
<1>1. AttemptsTypeOK
  BY AttemptsAssumption DEF AttemptsTypeOK, Places2
<1>2. \A c \in Clients : Here(c, "idle")
  BY DEF Here
<1>3. BegunHasBoth
  BY <1>2 DEF BegunHasBoth
<1>4. \A m \in Elements(Proxies) : blame[m] = {} /\ rotator.failures[m] = 0
  OBVIOUS
<1>5. IsFiniteSet({}) /\ Cardinality({}) = 0
  BY FS_EmptySet
<1>6. BlameIsPast
  BY <1>4, <1>5 DEF BlameIsPast
<1>7. AttemptsAccounted
  <2>1. Refreshing = {}
    BY <1>2 DEF Refreshing, Here
  <2> QED
    BY <1>4, <1>5, <2>1 DEF AttemptsAccounted
<1> QED
  BY <1>1, <1>3, <1>6, <1>7 DEF AttemptsIInv

\* A proxy gets one failure more, of this attempt, or is forgiven them all.
LEMMA Blaming ==
    ASSUME AttemptsIInv, NEW c \in Clients, ~Here(c, "idle"), ~Here(c, "rejected"),
           \/ rotator' = ReportFailure(client[c].proxy) /\ Blames(c)
           \/ /\ rotator' = ReportSuccess(client[c].proxy)
              /\ blame' = [blame EXCEPT ![client[c].proxy] = {}]
    PROVE  /\ rotator' = [failures |-> rotator'.failures, sticky |-> rotator'.sticky,
                          index |-> rotator'.index]
           /\ rotator'.failures \in [Elements(Proxies) -> Nat]
           /\ DOMAIN blame' = Elements(Proxies)
           /\ \A m \in Elements(Proxies) :
                 /\ IsFiniteSet(blame'[m]) /\ rotator'.failures[m] = Cardinality(blame'[m])
                 /\ \A d \in Clients, t \in 0..MaxTries : <<d, t>> \in blame'[m] =>
                       <<d, t>> \in blame[m] \/ (d = c /\ t = client[c].try)
<1> DEFINE m0 == client[c].proxy
           entry == <<c, client[c].try>>
<1>1. /\ m0 \in Elements(Proxies) /\ rotator.failures \in [Elements(Proxies) -> Nat]
      /\ rotator = [failures |-> rotator.failures, sticky |-> rotator.sticky, index |-> rotator.index]
      /\ DOMAIN blame = Elements(Proxies)
      /\ client[c].try \in 0..MaxTries
      /\ \A m \in Elements(Proxies) : /\ IsFiniteSet(blame[m])
                                      /\ rotator.failures[m] = Cardinality(blame[m])
  BY DEF AttemptsIInv, AttemptsTypeOK, BegunHasBoth, BlameIsPast, AttemptsAccounted
<1>2. entry \notin blame[m0]
  <2>1. ~(client[c].try < client[c].try)
    BY <1>1, AttemptsAssumption
  <2> QED
    BY <1>1, <2>1 DEF AttemptsIInv, BlameIsPast
<1>3. CASE rotator' = ReportFailure(m0) /\ Blames(c)
  <2> DEFINE more == rotator.failures[m0] + 1
             failures == [rotator.failures EXCEPT ![m0] = more]
  <2>1. more \in Nat
    BY <1>1
  <2>2. rotator' = [failures |-> failures, sticky |-> rotator.sticky, index |-> rotator.index]
    <3>1. [rotator EXCEPT !.failures[m0] = more] =
             [failures |-> failures, sticky |-> rotator.sticky, index |-> rotator.index]
      <4> HIDE DEF more
      <4> QED
        BY <1>1
    <3> QED
      BY <1>3, <3>1 DEF ReportFailure
  <2>3. blame' = [blame EXCEPT ![m0] = blame[m0] \union {entry}]
    BY <1>3 DEF Blames
  <2>4. IsFiniteSet(blame[m0] \union {entry})
        /\ Cardinality(blame[m0] \union {entry}) = Cardinality(blame[m0]) + 1
    BY <1>1, <1>2, FS_AddElement
  <2>5. more = Cardinality(blame[m0]) + 1
    BY <1>1
  <2> HIDE DEF more, m0
  <2>6. failures \in [Elements(Proxies) -> Nat] /\ failures[m0] = more
        /\ \A m \in Elements(Proxies) \ {m0} : failures[m] = rotator.failures[m]
    BY <1>1, <2>1
  <2> HIDE DEF failures, entry
  <2>7. rotator'.failures = failures
    BY <2>2
  <2>8. \A m \in Elements(Proxies) :
           /\ IsFiniteSet(blame'[m]) /\ failures[m] = Cardinality(blame'[m])
           /\ \A e \in blame'[m] : e \in blame[m] \/ e = entry
    BY <1>1, <2>3, <2>4, <2>5, <2>6
  <2> QED
    BY <1>1, <2>2, <2>3, <2>6, <2>7, <2>8 DEF entry
<1>4. CASE rotator' = ReportSuccess(m0) /\ blame' = [blame EXCEPT ![m0] = {}]
  <2> DEFINE failures == [rotator.failures EXCEPT ![m0] = 0]
  <2>1. rotator' = [failures |-> failures, sticky |-> rotator.sticky, index |-> rotator.index]
    BY <1>1, <1>4 DEF ReportSuccess
  <2>2. IsFiniteSet({}) /\ Cardinality({}) = 0
    BY FS_EmptySet
  <2> HIDE DEF m0
  <2>3. failures \in [Elements(Proxies) -> Nat] /\ failures[m0] = 0
        /\ \A m \in Elements(Proxies) \ {m0} : failures[m] = rotator.failures[m]
    BY <1>1
  <2> HIDE DEF failures
  <2>4. rotator'.failures = failures
    BY <2>1
  <2> QED
    BY <1>1, <1>4, <2>1, <2>2, <2>3, <2>4
<1> QED
  BY <1>3, <1>4

ClientType ==
    [place: Places2, try: 0..MaxTries, identity: Elements(Identities) \union {Nothing},
     proxy: Elements(Proxies) \union {Nothing}, token: 0..1]

\* A call that goes on, or ends, keeps the invariant when pool, proxies and token do.
LEMMA CallMoves ==
    ASSUME AttemptsIInv, NEW c \in Clients, ~Here(c, "rejected"), NEW r \in ClientType,
           client' = [client EXCEPT ![c] = r], r.place # "idle", r.proxy \in Elements(Proxies),
           r.try >= client[c].try,
           pool' = [assigned |-> pool'.assigned, index |-> pool'.index],
           pool'.assigned \in [Sites -> Elements(Identities) \union {Nothing}],
           pool'.assigned[Site[c]] \in Elements(Identities),
           \A s \in Sites : pool.assigned[s] \in Elements(Identities) =>
                                pool'.assigned[s] \in Elements(Identities),
           rotator' = [failures |-> rotator'.failures, sticky |-> rotator'.sticky,
                       index |-> rotator'.index],
           rotator'.failures \in [Elements(Proxies) -> Nat],
           DOMAIN blame' = Elements(Proxies),
           \A m \in Elements(Proxies) :
              /\ IsFiniteSet(blame'[m]) /\ rotator'.failures[m] = Cardinality(blame'[m])
              /\ \A d \in Clients, t \in 0..MaxTries : <<d, t>> \in blame'[m] =>
                    \/ <<d, t>> \in blame[m]
                    \/ d = c /\ t = client[c].try /\ (client[c].try < r.try \/ r.place = "rejected"),
           options' = options, valid' = valid, auth' \in [token: 0..1, refreshing: BOOLEAN],
           \/ auth'.refreshing /\ r.place = "refreshing"
           \/ auth'.refreshing = auth.refreshing /\ r.place # "refreshing" /\ ~Here(c, "refreshing")
    PROVE  AttemptsIInv'
<1>1. client \in [Clients -> ClientType]
  BY DEF AttemptsIInv, AttemptsTypeOK, ClientType
<1>2. /\ client' \in [Clients -> ClientType] /\ client'[c] = r
      /\ \A d \in Clients : d # c => client'[d] = client[d]
  BY <1>1
<1>3. AttemptsTypeOK'
  BY <1>2 DEF AttemptsIInv, AttemptsTypeOK, ClientType
<1>4. BegunHasBoth'
  <2> SUFFICES ASSUME NEW d \in Clients, client'[d].place # "idle"
               PROVE  /\ client'[d].proxy \in Elements(Proxies)
                      /\ pool'.assigned[Site[d]] \in Elements(Identities)
    BY DEF BegunHasBoth, Here
  <2>1. Site[d] \in Sites
    BY DEF Sites
  <2> QED
    BY <1>2, <2>1 DEF AttemptsIInv, BegunHasBoth, Here
<1>5. BlameIsPast'
  <2> SUFFICES ASSUME NEW m \in Elements(Proxies), NEW d \in Clients, NEW t \in 0..MaxTries,
                      <<d, t>> \in blame'[m]
               PROVE  \/ t < client'[d].try
                      \/ t = client'[d].try /\ client'[d].place = "rejected"
    BY DEF BlameIsPast, Here
  <2>1. CASE <<d, t>> \in blame[m]
    <3>1. t < client[d].try \/ (t = client[d].try /\ client[d].place = "rejected")
      BY <2>1 DEF AttemptsIInv, BlameIsPast, Here
    <3>2. client[d].try \in Nat /\ r.try \in Nat /\ t \in Nat
      BY <1>1, AttemptsAssumption DEF ClientType
    <3>3. CASE d = c
      BY <1>2, <3>1, <3>2, <3>3 DEF Here
    <3>4. CASE d # c
      BY <1>2, <3>1, <3>4
    <3> QED
      BY <3>3, <3>4
  <2>2. CASE <<d, t>> \notin blame[m]
    <3>1. d = c /\ t = client[c].try /\ (client[c].try < r.try \/ r.place = "rejected")
      BY <2>2
    <3>2. client[c].try \in Nat /\ r.try \in Nat
      BY <1>1, AttemptsAssumption DEF ClientType
    <3>3. CASE client[c].try < r.try
      BY <1>2, <3>1, <3>3
    <3>4. CASE ~(client[c].try < r.try)
      <4>1. (r.place = "rejected" /\ client[c].try = r.try) \/ client[c].try > r.try
        BY <3>1, <3>2, <3>4
      <4>2. client[c].try = r.try /\ r.place = "rejected"
        BY <3>2, <4>1
      <4> QED
        BY <1>2, <3>1, <4>2
    <3> QED
      BY <3>3, <3>4
  <2> QED
    BY <2>1, <2>2
<1>6. AttemptsAccounted'
  <2>1. auth'.refreshing <=> Refreshing' # {}
    <3>1. auth.refreshing <=> Refreshing # {}
      BY DEF AttemptsIInv, AttemptsAccounted
    <3>2. CASE r.place = "refreshing"
      <4>1. c \in Refreshing'
        BY <1>2, <3>2 DEF Refreshing, Here
      <4> QED
        BY <3>2, <4>1
    <3>3. CASE r.place # "refreshing"
      <4>1. \A d \in Clients : d \in Refreshing' <=> d \in Refreshing
        BY <1>2, <3>3 DEF Refreshing, Here
      <4>2. Refreshing' = Refreshing
        BY <4>1 DEF Refreshing
      <4> QED
        BY <3>1, <3>3, <4>2
    <3> QED
      BY <3>2, <3>3
  <2> QED
    BY <2>1 DEF AttemptsAccounted
<1> QED
  BY <1>3, <1>4, <1>5, <1>6 DEF AttemptsIInv

\* Pool, proxies and blame of a step that leaves them.
LEMMA LeftAlone ==
    ASSUME AttemptsIInv, NEW c \in Clients, ~Here(c, "idle")
    PROVE  /\ UNCHANGED pool =>
                 /\ pool' = [assigned |-> pool'.assigned, index |-> pool'.index]
                 /\ pool'.assigned \in [Sites -> Elements(Identities) \union {Nothing}]
                 /\ pool'.assigned[Site[c]] \in Elements(Identities)
                 /\ \A s \in Sites : pool.assigned[s] \in Elements(Identities) =>
                                         pool'.assigned[s] \in Elements(Identities)
           /\ UNCHANGED <<rotator, blame>> =>
                 /\ rotator' = [failures |-> rotator'.failures, sticky |-> rotator'.sticky,
                                index |-> rotator'.index]
                 /\ rotator'.failures \in [Elements(Proxies) -> Nat]
                 /\ DOMAIN blame' = Elements(Proxies)
                 /\ \A m \in Elements(Proxies) :
                       /\ IsFiniteSet(blame'[m]) /\ rotator'.failures[m] = Cardinality(blame'[m])
                       /\ blame'[m] = blame[m]
           /\ auth \in [token: 0..1, refreshing: BOOLEAN]
BY DEF AttemptsIInv, AttemptsTypeOK, BegunHasBoth, BlameIsPast, AttemptsAccounted

\* IdentityPool.rotate gives the site another identity, or the same.
LEMMA Rotating ==
    ASSUME AttemptsIInv, NEW c \in Clients, ~Here(c, "idle"),
           pool' = IF options.rotateOnBlock THEN Rotated(Site[c]) ELSE pool
    PROVE  /\ pool' = [assigned |-> pool'.assigned, index |-> pool'.index]
           /\ pool'.assigned \in [Sites -> Elements(Identities) \union {Nothing}]
           /\ pool'.assigned[Site[c]] \in Elements(Identities)
           /\ \A s \in Sites : pool.assigned[s] \in Elements(Identities) =>
                                   pool'.assigned[s] \in Elements(Identities)
<1> DEFINE site == Site[c]
           present == CHOOSE k \in DOMAIN Identities : Identities[k] = pool.assigned[site]
           next == Turn(Identities, present)
           after == [pool.assigned EXCEPT ![site] = next]
<1>1. /\ pool = [assigned |-> pool.assigned, index |-> pool.index] /\ site \in Sites
      /\ pool.assigned \in [Sites -> Elements(Identities) \union {Nothing}]
      /\ pool.assigned[site] \in Elements(Identities)
  BY DEF AttemptsIInv, AttemptsTypeOK, BegunHasBoth, Sites
<1>2. next \in Elements(Identities)
  <2>1. present \in DOMAIN Identities
    BY <1>1 DEF Elements
  <2>2. present \in Nat
    BY <2>1, AttemptsAssumption
  <2> HIDE DEF present
  <2> QED
    BY <2>2, InTurn
<1>3. CASE ~options.rotateOnBlock
  BY <1>1, <1>3
<1>4. CASE options.rotateOnBlock
  <2> HIDE DEF next
  <2>1. [pool EXCEPT !.assigned[site] = next] = [assigned |-> after, index |-> pool.index]
    BY <1>1
  <2>2. pool' = [assigned |-> after, index |-> pool.index]
    BY <1>4, <2>1 DEF Rotated, next
  <2>3. after \in [Sites -> Elements(Identities) \union {Nothing}] /\ after[site] = next
        /\ \A s \in Sites \ {site} : after[s] = pool.assigned[s]
    BY <1>1, <1>2
  <2> HIDE DEF after
  <2>4. pool'.assigned = after
    BY <2>2
  <2> QED
    BY <1>2, <2>2, <2>3, <2>4
<1> QED
  BY <1>3, <1>4

\* Where a failed attempt goes.
LEMMA Falling ==
    ASSUME AttemptsIInv, NEW c \in Clients, ~Here(c, "idle"), NEW retryable,
           client' = Fallen(c, retryable)
    PROVE  \E r \in ClientType :
              /\ client' = [client EXCEPT ![c] = r]
              /\ r.proxy = client[c].proxy /\ r.place \in {"backoff", "rejected"}
              /\ r.try >= client[c].try /\ (client[c].try < r.try \/ r.place = "rejected")
<1> DEFINE old == client[c]
           try == old.try
<1>1. /\ DOMAIN client = Clients /\ old \in ClientType /\ try \in 0..MaxTries /\ try \in Nat
      /\ old = [place |-> old.place, try |-> try, identity |-> old.identity,
                proxy |-> old.proxy, token |-> old.token]
  BY AttemptsAssumption DEF AttemptsIInv, AttemptsTypeOK, ClientType
<1>2. CASE retryable /\ try < MaxTries
  <2> DEFINE more == try + 1
             r == [place |-> "backoff", try |-> more, identity |-> old.identity,
                   proxy |-> old.proxy, token |-> old.token]
  <2>1. more \in 0..MaxTries /\ try < more /\ more >= try
    BY <1>1, <1>2, AttemptsAssumption
  <2>2. client' = [client EXCEPT ![c].place = "backoff", ![c].try = more]
    BY <1>2 DEF Fallen
  <2> HIDE DEF more
  <2>3. [client EXCEPT ![c].place = "backoff", ![c].try = more] = [client EXCEPT ![c] = r]
    <3> DEFINE s == [place |-> "backoff", try |-> try, identity |-> old.identity,
                     proxy |-> old.proxy, token |-> old.token]
               mid == [client EXCEPT ![c] = s]
    <3>0. [client EXCEPT ![c].place = "backoff"] = mid
      BY ClientUpdates DEF AttemptsIInv
    <3>3. DOMAIN mid = Clients /\ mid[c] = s /\ [s EXCEPT !.try = more] = r
          /\ [mid EXCEPT ![c] = r] = [client EXCEPT ![c] = r]
      <4> HIDE DEF s
      <4>1. DOMAIN mid = Clients /\ mid[c] = s /\ [mid EXCEPT ![c] = r] = [client EXCEPT ![c] = r]
        BY <1>1
      <4>2. [s EXCEPT !.try = more] = r
        BY DEF s
      <4> QED
        BY <4>1, <4>2
    <3>4. [mid EXCEPT ![c].try = more] = [mid EXCEPT ![c] = [mid[c] EXCEPT !.try = more]]
      <4> HIDE DEF mid
      <4> QED
        BY <3>3
    <3>1. [[client EXCEPT ![c].place = "backoff"] EXCEPT ![c].try = more] = [client EXCEPT ![c] = r]
      BY <3>0, <3>3, <3>4
    <3>2. [client EXCEPT ![c].place = "backoff", ![c].try = more] =
             [[client EXCEPT ![c].place = "backoff"] EXCEPT ![c].try = more]
      BY Zenon
    <3> QED
      BY <3>1, <3>2
  <2>4. r \in ClientType
    BY <1>1, <2>1 DEF ClientType, Places2
  <2> QED
    BY <2>1, <2>2, <2>3, <2>4
<1>3. CASE ~(retryable /\ try < MaxTries)
  <2> DEFINE r == [place |-> "rejected", try |-> try, identity |-> old.identity,
                   proxy |-> old.proxy, token |-> old.token]
  <2>1. client' = [client EXCEPT ![c].place = "rejected"]
    BY <1>3 DEF Fallen
  <2>2. client' = [client EXCEPT ![c] = r]
    BY <2>1, ClientUpdates DEF AttemptsIInv
  <2>3. r \in ClientType
    BY <1>1 DEF ClientType, Places2
  <2>4. r.proxy = old.proxy /\ r.place = "rejected" /\ r.try = try /\ r.try >= try
    BY <1>1
  <2> HIDE DEF r
  <2> QED
    BY <2>2, <2>3, <2>4
<1> QED
  BY <1>2, <1>3

\* IdentityPool.get, as an attempt calls it, leaves the site with an identity.
LEMMA IdentityTaken ==
    ASSUME AttemptsIInv, NEW c \in Clients, NEW identity \in Elements(Identities),
           GetIdentity(Site[c], identity)
    PROVE  /\ pool' = [assigned |-> pool'.assigned, index |-> pool'.index]
           /\ pool'.assigned \in [Sites -> Elements(Identities) \union {Nothing}]
           /\ pool'.assigned[Site[c]] \in Elements(Identities)
           /\ \A s \in Sites : pool.assigned[s] \in Elements(Identities) =>
                                   pool'.assigned[s] \in Elements(Identities)
<1> DEFINE site == Site[c]
           index == IF options.rotation = "round-robin" THEN NextIndex(Identities, pool.index)
                    ELSE pool.index
           after == [pool.assigned EXCEPT ![site] = identity]
<1>1. /\ pool = [assigned |-> pool.assigned, index |-> pool.index] /\ site \in Sites
      /\ pool.assigned \in [Sites -> Elements(Identities) \union {Nothing}]
  BY DEF AttemptsIInv, AttemptsTypeOK, Sites
<1>2. CASE pool.assigned[site] # Nothing
  BY <1>1, <1>2 DEF GetIdentity
<1>3. CASE pool.assigned[site] = Nothing
  <2>1. pool' = Assigned(site, identity)
    BY <1>3 DEF GetIdentity
  <2>2. Assigned(site, identity) = [assigned |-> after, index |-> index]
    <3>1. Assigned(site, identity) = [pool EXCEPT !.assigned[site] = identity, !.index = index]
      BY DEF Assigned
    <3>2. [pool EXCEPT !.assigned[site] = identity] = [assigned |-> after, index |-> pool.index]
      BY <1>1
    <3> HIDE DEF index, after
    <3>3. [pool EXCEPT !.assigned[site] = identity, !.index = index] =
             [[pool EXCEPT !.assigned[site] = identity] EXCEPT !.index = index]
      BY Zenon
    <3> QED
      BY <3>1, <3>2, <3>3
  <2>3. after \in [Sites -> Elements(Identities) \union {Nothing}] /\ after[site] = identity
        /\ \A s \in Sites \ {site} : after[s] = pool.assigned[s]
    BY <1>1
  <2> HIDE DEF after, index
  <2>4. pool'.assigned = after
    BY <2>1, <2>2
  <2> QED
    BY <2>1, <2>2, <2>3, <2>4
<1> QED
  BY <1>2, <1>3

\* The first lines of an attempt: an identity and a proxy are taken.
LEMMA AttemptsBegin == ASSUME AttemptsIInv, NEW c \in Clients, Attempt(c) PROVE AttemptsIInv'
<1>1. PICK identity \in Elements(Identities), proxy \in Elements(Proxies) :
          /\ GetIdentity(Site[c], identity)
          /\ NextProxy(Site[c], identity, proxy)
          /\ client' = [client EXCEPT ![c].place = "delaying", ![c].identity = identity,
                                      ![c].proxy = proxy]
  BY DEF Attempt
<1> DEFINE old == client[c]
           r == [place |-> "delaying", try |-> old.try, identity |-> identity, proxy |-> proxy,
                 token |-> old.token]
<1>2. /\ DOMAIN client = Clients
      /\ old \in ClientType /\ old.try \in Nat
      /\ old = [place |-> old.place, try |-> old.try, identity |-> old.identity,
                proxy |-> old.proxy, token |-> old.token]
      /\ old.place # "rejected" /\ old.place # "refreshing"
  BY AttemptsAssumption DEF AttemptsIInv, AttemptsTypeOK, ClientType, Attempt, Here
<1>3. client' = [client EXCEPT ![c] = r]
  <2> DEFINE r1 == [place |-> "delaying", try |-> old.try, identity |-> old.identity,
                    proxy |-> old.proxy, token |-> old.token]
             r2 == [place |-> "delaying", try |-> old.try, identity |-> identity,
                    proxy |-> old.proxy, token |-> old.token]
  <2>1. client' = [[[client EXCEPT ![c].place = "delaying"] EXCEPT ![c].identity = identity]
                      EXCEPT ![c].proxy = proxy]
    BY <1>1, Zenon
  <2>2. [client EXCEPT ![c].place = "delaying"] = [client EXCEPT ![c] = r1]
    BY ClientUpdates DEF AttemptsIInv
  <2>3. [r1 EXCEPT !.identity = identity] = r2 /\ [r2 EXCEPT !.proxy = proxy] = r
    OBVIOUS
  <2> HIDE DEF r1, r2, r
  <2>4. [[client EXCEPT ![c] = r1] EXCEPT ![c].identity = identity] = [client EXCEPT ![c] = r2]
    BY <1>2, <2>3
  <2>5. [[client EXCEPT ![c] = r2] EXCEPT ![c].proxy = proxy] = [client EXCEPT ![c] = r]
    BY <1>2, <2>3
  <2> QED
    BY <2>1, <2>2, <2>4, <2>5
<1>4. r \in ClientType /\ r.proxy \in Elements(Proxies) /\ r.try = old.try /\ r.try >= old.try
      /\ r.place = "delaying"
  BY <1>2 DEF ClientType, Places2
<1>5. /\ pool' = [assigned |-> pool'.assigned, index |-> pool'.index]
      /\ pool'.assigned \in [Sites -> Elements(Identities) \union {Nothing}]
      /\ pool'.assigned[Site[c]] \in Elements(Identities)
      /\ \A s \in Sites : pool.assigned[s] \in Elements(Identities) =>
                              pool'.assigned[s] \in Elements(Identities)
  BY <1>1, IdentityTaken
<1>6. /\ rotator = [failures |-> rotator.failures, sticky |-> rotator.sticky, index |-> rotator.index]
      /\ rotator.failures \in [Elements(Proxies) -> Nat]
      /\ DOMAIN blame = Elements(Proxies) /\ blame' = blame
      /\ \A m \in Elements(Proxies) :
            IsFiniteSet(blame[m]) /\ rotator.failures[m] = Cardinality(blame[m])
  BY DEF AttemptsIInv, AttemptsTypeOK, BlameIsPast, AttemptsAccounted, Attempt
<1>7. /\ rotator' = [failures |-> rotator'.failures, sticky |-> rotator'.sticky,
                     index |-> rotator'.index]
      /\ rotator'.failures = rotator.failures
  <2>1. ASSUME NEW i, NEW m,
               rotator' = [rotator EXCEPT !.index = i] \/ rotator' = [rotator EXCEPT !.sticky = m]
        PROVE  /\ rotator' = [failures |-> rotator'.failures, sticky |-> rotator'.sticky,
                              index |-> rotator'.index]
               /\ rotator'.failures = rotator.failures
    BY <1>6, <2>1
  <2> DEFINE site == Site[c]
             turned == (rotator.index + 1) % Turns
             held == [rotator.sticky EXCEPT ![site] = [@ EXCEPT ![identity] = proxy]]
  <2>2. \/ rotator' = rotator
        \/ rotator' = [rotator EXCEPT !.index = turned]
        \/ rotator' = [rotator EXCEPT !.sticky[site][identity] = proxy]
    BY <1>1 DEF NextProxy
  <2>3. [rotator EXCEPT !.sticky[site][identity] = proxy] = [rotator EXCEPT !.sticky = held]
    BY <1>6
  <2> HIDE DEF turned, held
  <2> QED
    BY <1>6, <2>1, <2>2, <2>3
<1>8. options' = options /\ valid' = valid /\ auth' = auth
      /\ auth \in [token: 0..1, refreshing: BOOLEAN]
  BY DEF Attempt, AttemptsIInv, AttemptsTypeOK
<1> HIDE DEF r
<1> QED
  BY <1>2, <1>3, <1>4, <1>5, <1>6, <1>7, <1>8, CallMoves DEF Here

\* An attempt goes to another place, and only a refresh begins with it.
LEMMA OnlyPlace ==
    ASSUME AttemptsIInv, NEW c \in Clients, ~Here(c, "idle"), ~Here(c, "rejected"),
           NEW r \in ClientType, client' = [client EXCEPT ![c] = r],
           r.place \notin {"idle"}, r.proxy = client[c].proxy, r.try = client[c].try,
           UNCHANGED <<options, pool, rotator, blame, valid>>,
           auth' \in [token: 0..1, refreshing: BOOLEAN],
           \/ auth'.refreshing /\ r.place = "refreshing"
           \/ auth'.refreshing = auth.refreshing /\ r.place # "refreshing" /\ ~Here(c, "refreshing")
    PROVE  AttemptsIInv'
<1>1. client[c].proxy \in Elements(Proxies) /\ client[c].try \in Nat
  BY AttemptsAssumption DEF AttemptsIInv, BegunHasBoth, AttemptsTypeOK
<1>2. /\ pool' = [assigned |-> pool'.assigned, index |-> pool'.index]
      /\ pool'.assigned \in [Sites -> Elements(Identities) \union {Nothing}]
      /\ pool'.assigned[Site[c]] \in Elements(Identities)
      /\ \A s \in Sites : pool.assigned[s] \in Elements(Identities) =>
                              pool'.assigned[s] \in Elements(Identities)
      /\ rotator' = [failures |-> rotator'.failures, sticky |-> rotator'.sticky,
                     index |-> rotator'.index]
      /\ rotator'.failures \in [Elements(Proxies) -> Nat]
      /\ DOMAIN blame' = Elements(Proxies)
      /\ \A m \in Elements(Proxies) :
            /\ IsFiniteSet(blame'[m]) /\ rotator'.failures[m] = Cardinality(blame'[m])
            /\ blame'[m] = blame[m]
  BY LeftAlone
<1>3. r.place # "idle" /\ r.try >= client[c].try /\ r.proxy \in Elements(Proxies)
      /\ options' = options /\ valid' = valid
  BY <1>1
<1> QED
  BY <1>2, <1>3, CallMoves

\* The request of an attempt leaves, with the token there is.
LEMMA Requesting == ASSUME AttemptsIInv, NEW c \in Clients, Request(c) PROVE AttemptsIInv'
<1> DEFINE old == client[c]
           r == [place |-> "requested", try |-> old.try, identity |-> old.identity,
                 proxy |-> old.proxy, token |-> auth.token]
<1>1. /\ DOMAIN client = Clients /\ old.place = "delaying"
      /\ old \in ClientType /\ auth \in [token: 0..1, refreshing: BOOLEAN]
      /\ old = [place |-> old.place, try |-> old.try, identity |-> old.identity,
                proxy |-> old.proxy, token |-> old.token]
  BY DEF AttemptsIInv, AttemptsTypeOK, ClientType, Request, Here
<1>2. client' = [client EXCEPT ![c] = r]
  <2> DEFINE r1 == [place |-> "requested", try |-> old.try, identity |-> old.identity,
                    proxy |-> old.proxy, token |-> old.token]
  <2>1. client' = [[client EXCEPT ![c].place = "requested"] EXCEPT ![c].token = auth.token]
    BY Zenon DEF Request
  <2>2. [client EXCEPT ![c].place = "requested"] = [client EXCEPT ![c] = r1]
    BY ClientUpdates DEF AttemptsIInv
  <2>3. [r1 EXCEPT !.token = auth.token] = r
    OBVIOUS
  <2> HIDE DEF r1, r
  <2>4. [[client EXCEPT ![c] = r1] EXCEPT ![c].token = auth.token] = [client EXCEPT ![c] = r]
    BY <1>1, <2>3
  <2> QED
    BY <2>1, <2>2, <2>4
<1>3. r \in ClientType /\ r.place = "requested" /\ r.proxy = old.proxy /\ r.try = old.try
  BY <1>1 DEF ClientType, Places2
<1>4. UNCHANGED <<options, pool, rotator, blame, valid>> /\ auth' = auth
  BY DEF Request
<1> HIDE DEF r
<1> QED
  BY <1>1, <1>2, <1>3, <1>4, OnlyPlace DEF Here

\* The record of a client that only goes elsewhere.
LEMMA Going ==
    ASSUME AttemptsIInv, NEW c \in Clients, NEW place \in Places2, Goes(c, place)
    PROVE  \E r \in ClientType : /\ client' = [client EXCEPT ![c] = r] /\ r.place = place
                                 /\ r.proxy = client[c].proxy /\ r.try = client[c].try
<1> DEFINE old == client[c]
           r == [place |-> place, try |-> old.try, identity |-> old.identity,
                 proxy |-> old.proxy, token |-> old.token]
<1>1. /\ client' = [client EXCEPT ![c] = r]
      /\ old.try \in 0..MaxTries /\ old.identity \in Elements(Identities) \union {Nothing}
      /\ old.proxy \in Elements(Proxies) \union {Nothing} /\ old.token \in 0..1
  BY ClientUpdates DEF Goes, AttemptsIInv
<1>2. r \in ClientType
  BY <1>1 DEF ClientType
<1>3. r.place = place /\ r.proxy = old.proxy /\ r.try = old.try
  OBVIOUS
<1> HIDE DEF r
<1> QED
  BY <1>1, <1>2, <1>3

\* An attempt that got a 401 fetches a token, or waits for the one that is being fetched.
LEMMA Refreshes == ASSUME AttemptsIInv, NEW c \in Clients, Refresh(c) PROVE AttemptsIInv'
<1>1. "refreshing" \in Places2
  BY DEF Places2
<1>2. PICK r \in ClientType :
          /\ client' = [client EXCEPT ![c] = r] /\ r.place = "refreshing"
          /\ r.proxy = client[c].proxy /\ r.try = client[c].try
  BY <1>1, Going DEF Refresh
<1>3. auth' \in [token: 0..1, refreshing: BOOLEAN] /\ auth'.refreshing
  <2>1. auth = [token |-> auth.token, refreshing |-> auth.refreshing] /\ auth.token \in 0..1
    BY DEF AttemptsIInv, AttemptsTypeOK
  <2> DEFINE yes == TRUE
  <2>2. auth' = [auth EXCEPT !.refreshing = yes] /\ yes \in BOOLEAN /\ yes
    BY DEF Refresh
  <2> HIDE DEF yes
  <2> QED
    BY <2>1, <2>2
<1>4. UNCHANGED <<options, pool, rotator, blame, valid>> /\ client[c].place = "requested"
  BY DEF Refresh, Here
<1> QED
  BY <1>2, <1>3, <1>4, OnlyPlace DEF Here

\* What a blocked, a failed and an answered attempt have in common: they end with the proxy
\* blamed, forgiven or left alone, and with an identity for their site.
LEMMA Ending ==
    ASSUME AttemptsIInv, NEW c \in Clients, ~Here(c, "idle"), ~Here(c, "rejected"),
           ~Here(c, "refreshing"),
           pool' = (IF options.rotateOnBlock THEN Rotated(Site[c]) ELSE pool) \/ UNCHANGED pool,
           \/ rotator' = ReportFailure(client[c].proxy) /\ Blames(c)
              /\ \E retryable : client' = Fallen(c, retryable)
           \/ UNCHANGED <<rotator, blame>> /\ \E retryable : client' = Fallen(c, retryable)
           \/ /\ rotator' = ReportSuccess(client[c].proxy)
              /\ blame' = [blame EXCEPT ![client[c].proxy] = {}]
              /\ Goes(c, "answered"),
           UNCHANGED <<options, auth, valid>>
    PROVE  AttemptsIInv'
<1>1. /\ pool' = [assigned |-> pool'.assigned, index |-> pool'.index]
      /\ pool'.assigned \in [Sites -> Elements(Identities) \union {Nothing}]
      /\ pool'.assigned[Site[c]] \in Elements(Identities)
      /\ \A s \in Sites : pool.assigned[s] \in Elements(Identities) =>
                              pool'.assigned[s] \in Elements(Identities)
  BY Rotating, LeftAlone
<1>2. auth' \in [token: 0..1, refreshing: BOOLEAN] /\ auth' = auth
      /\ options' = options /\ valid' = valid
  BY LeftAlone
<1>3. client[c].proxy \in Elements(Proxies) /\ client[c].try \in Nat
  BY AttemptsAssumption DEF AttemptsIInv, BegunHasBoth, AttemptsTypeOK
<1>4. CASE UNCHANGED <<rotator, blame>> /\ \E retryable : client' = Fallen(c, retryable)
  <2>1. PICK r \in ClientType :
           /\ client' = [client EXCEPT ![c] = r]
           /\ r.proxy = client[c].proxy /\ r.place \in {"backoff", "rejected"}
           /\ r.try >= client[c].try
    BY <1>4, Falling
  <2>2. /\ rotator' = [failures |-> rotator'.failures, sticky |-> rotator'.sticky,
                       index |-> rotator'.index]
        /\ rotator'.failures \in [Elements(Proxies) -> Nat]
        /\ DOMAIN blame' = Elements(Proxies)
        /\ \A m \in Elements(Proxies) :
              /\ IsFiniteSet(blame'[m]) /\ rotator'.failures[m] = Cardinality(blame'[m])
              /\ blame'[m] = blame[m]
    BY <1>4, LeftAlone
  <2>3. r.place # "idle" /\ r.place # "refreshing" /\ r.proxy \in Elements(Proxies)
    BY <1>3, <2>1
  <2> QED
    BY <1>1, <1>2, <2>1, <2>2, <2>3, CallMoves
<1>5. ASSUME rotator' = ReportFailure(client[c].proxy) /\ Blames(c),
             \E retryable : client' = Fallen(c, retryable)
      PROVE  AttemptsIInv'
  <2>1. PICK r \in ClientType :
           /\ client' = [client EXCEPT ![c] = r]
           /\ r.proxy = client[c].proxy /\ r.place \in {"backoff", "rejected"}
           /\ r.try >= client[c].try /\ (client[c].try < r.try \/ r.place = "rejected")
    BY <1>5, Falling
  <2>2. /\ rotator' = [failures |-> rotator'.failures, sticky |-> rotator'.sticky,
                       index |-> rotator'.index]
        /\ rotator'.failures \in [Elements(Proxies) -> Nat]
        /\ DOMAIN blame' = Elements(Proxies)
        /\ \A m \in Elements(Proxies) :
              /\ IsFiniteSet(blame'[m]) /\ rotator'.failures[m] = Cardinality(blame'[m])
              /\ \A d \in Clients, t \in 0..MaxTries : <<d, t>> \in blame'[m] =>
                    <<d, t>> \in blame[m] \/ (d = c /\ t = client[c].try)
    BY <1>5, Blaming
  <2>3. r.place # "idle" /\ r.place # "refreshing" /\ r.proxy \in Elements(Proxies)
    BY <1>3, <2>1
  <2>4. \A m \in Elements(Proxies) :
           /\ IsFiniteSet(blame'[m]) /\ rotator'.failures[m] = Cardinality(blame'[m])
           /\ \A d \in Clients, t \in 0..MaxTries : <<d, t>> \in blame'[m] =>
                 \/ <<d, t>> \in blame[m]
                 \/ d = c /\ t = client[c].try /\ (client[c].try < r.try \/ r.place = "rejected")
    BY <2>1, <2>2
  <2> QED
    BY <1>1, <1>2, <2>1, <2>2, <2>3, <2>4, CallMoves
<1>6. ASSUME rotator' = ReportSuccess(client[c].proxy), Goes(c, "answered"),
             blame' = [blame EXCEPT ![client[c].proxy] = {}]
      PROVE  AttemptsIInv'
  <2>1. "answered" \in Places2
    BY DEF Places2
  <2>2. PICK r \in ClientType :
           /\ client' = [client EXCEPT ![c] = r] /\ r.place = "answered"
           /\ r.proxy = client[c].proxy /\ r.try = client[c].try
    BY <1>6, <2>1, Going
  <2>3. /\ rotator' = [failures |-> rotator'.failures, sticky |-> rotator'.sticky,
                       index |-> rotator'.index]
        /\ rotator'.failures \in [Elements(Proxies) -> Nat]
        /\ DOMAIN blame' = Elements(Proxies)
        /\ \A m \in Elements(Proxies) :
              /\ IsFiniteSet(blame'[m]) /\ rotator'.failures[m] = Cardinality(blame'[m])
              /\ \A d \in Clients, t \in 0..MaxTries : <<d, t>> \in blame'[m] => <<d, t>> \in blame[m]
    <3>1. /\ rotator.failures \in [Elements(Proxies) -> Nat] /\ DOMAIN blame = Elements(Proxies)
      BY DEF AttemptsIInv, AttemptsTypeOK
    <3>2. /\ rotator' = [failures |-> rotator'.failures, sticky |-> rotator'.sticky,
                         index |-> rotator'.index]
          /\ rotator'.failures \in [Elements(Proxies) -> Nat]
          /\ DOMAIN blame' = Elements(Proxies)
          /\ \A m \in Elements(Proxies) :
                IsFiniteSet(blame'[m]) /\ rotator'.failures[m] = Cardinality(blame'[m])
      BY <1>6, Blaming
    <3>3. \A m \in Elements(Proxies) : \A e \in blame'[m] : e \in blame[m]
      BY <1>6, <3>1
    <3> QED
      BY <3>2, <3>3
  <2>4. r.place # "idle" /\ r.place # "refreshing" /\ r.proxy \in Elements(Proxies)
        /\ r.try >= client[c].try
    BY <1>3, <2>2
  <2>5. \A m \in Elements(Proxies) :
           /\ IsFiniteSet(blame'[m]) /\ rotator'.failures[m] = Cardinality(blame'[m])
           /\ \A d \in Clients, t \in 0..MaxTries : <<d, t>> \in blame'[m] =>
                 \/ <<d, t>> \in blame[m]
                 \/ d = c /\ t = client[c].try /\ (client[c].try < r.try \/ r.place = "rejected")
    BY <2>3
  <2> QED
    BY <1>1, <1>2, <2>2, <2>3, <2>4, <2>5, CallMoves
<1> QED
  BY <1>4, <1>5, <1>6

\* Every call of a place takes the same step from it: those that wait for the new token.
LEMMA AllResume ==
    ASSUME AttemptsIInv, NEW place \in {"resent", "rejected"},
           auth' \in [token: 0..1, refreshing: BOOLEAN], ~auth'.refreshing,
           client' = [c \in Clients |->
                         [client[c] EXCEPT !.place = IF c \in Refreshing THEN place ELSE @]],
           UNCHANGED <<options, pool, rotator, blame, valid>>
    PROVE  AttemptsIInv'
<1> DEFINE after(c) == IF c \in Refreshing THEN place ELSE client[c].place
<1>1. /\ client \in [Clients -> ClientType]
      /\ \A c \in Clients : client[c] \in ClientType /\ after(c) \in Places2
  BY DEF AttemptsIInv, AttemptsTypeOK, ClientType, Places2
<1>2. \A c \in Clients : /\ client'[c] \in ClientType /\ client'[c].place = after(c)
                         /\ client'[c].try = client[c].try /\ client'[c].proxy = client[c].proxy
  <2> SUFFICES ASSUME NEW c \in Clients
               PROVE  /\ client'[c] \in ClientType /\ client'[c].place = after(c)
                      /\ client'[c].try = client[c].try /\ client'[c].proxy = client[c].proxy
    OBVIOUS
  <2>1. client'[c] = [client[c] EXCEPT !.place = after(c)]
    OBVIOUS
  <2>2. client[c] \in ClientType /\ after(c) \in Places2
    BY <1>1
  <2> HIDE DEF after
  <2> QED
    BY <2>1, <2>2 DEF ClientType
<1>3. AttemptsTypeOK'
  <2>1. client' \in [Clients -> ClientType]
    BY <1>2
  <2> QED
    BY <2>1 DEF AttemptsIInv, AttemptsTypeOK, ClientType
<1>4. \A c \in Clients : /\ after(c) # "refreshing"
                         /\ client[c].place = "idle" => after(c) = "idle"
                         /\ client[c].place = "rejected" => after(c) = "rejected"
  BY DEF Refreshing, Here
<1> HIDE DEF after
<1>5. BegunHasBoth'
  <2> SUFFICES ASSUME NEW c \in Clients, client'[c].place # "idle"
               PROVE  /\ client'[c].proxy \in Elements(Proxies)
                      /\ pool'.assigned[Site[c]] \in Elements(Identities)
    BY DEF BegunHasBoth, Here
  <2>1. client[c].place # "idle" /\ pool' = pool
    BY <1>2, <1>4
  <2> QED
    BY <1>2, <2>1 DEF AttemptsIInv, BegunHasBoth, Here
<1>6. BlameIsPast'
  BY <1>2, <1>4 DEF AttemptsIInv, BlameIsPast, Here
<1>7. AttemptsAccounted'
  <2>1. Refreshing' = {}
    BY <1>2, <1>4 DEF Refreshing, Here
  <2> QED
    BY <2>1 DEF AttemptsIInv, AttemptsAccounted
<1> QED
  BY <1>3, <1>5, <1>6, <1>7 DEF AttemptsIInv

\* Every step of the attempts keeps their invariant.
LEMMA AttemptsKept == AttemptsIInv /\ (AttemptsNext \/ UNCHANGED attemptVars) => AttemptsIInv'
<1> SUFFICES ASSUME AttemptsIInv, AttemptsNext \/ UNCHANGED attemptVars PROVE AttemptsIInv'
  OBVIOUS
<1>1. CASE ExpireToken
  BY <1>1 DEF ExpireToken, AttemptsIInv, AttemptsTypeOK, BegunHasBoth, BlameIsPast,
              AttemptsAccounted, Refreshing, Here
<1>2. CASE Refreshed
  <2>1. valid \in 0..1
    BY DEF AttemptsIInv, AttemptsTypeOK
  <2> DEFINE no == FALSE
  <2>2. auth' = [token |-> valid, refreshing |-> no] /\ no \in BOOLEAN /\ ~no
    BY <1>2 DEF Refreshed
  <2> HIDE DEF no
  <2>3. auth' \in [token: 0..1, refreshing: BOOLEAN] /\ ~auth'.refreshing
    BY <2>1, <2>2
  <2> QED
    BY <1>2, <2>3, AllResume DEF Refreshed
<1>3. CASE RefreshFails
  <2>1. auth \in [token: 0..1, refreshing: BOOLEAN]
    BY DEF AttemptsIInv, AttemptsTypeOK
  <2> DEFINE no == FALSE
  <2>2. auth' = [auth EXCEPT !.refreshing = no] /\ no \in BOOLEAN /\ ~no
    BY <1>3 DEF RefreshFails
  <2> HIDE DEF no
  <2>3. auth' \in [token: 0..1, refreshing: BOOLEAN] /\ ~auth'.refreshing
    BY <2>1, <2>2
  <2> QED
    BY <1>3, <2>3, AllResume DEF RefreshFails
<1>4. ASSUME NEW c \in Clients, (Here(c, "idle") /\ Attempt(c)) \/ AttemptStep(c)
      PROVE  AttemptsIInv'
  <2>1. CASE Attempt(c)
    BY <2>1, AttemptsBegin
  <2>2. CASE Request(c)
    BY <2>2, Requesting
  <2>3. CASE Refresh(c)
    BY <2>3, Refreshes
  <2>4. CASE Succeeds(c)
    BY <2>4, Ending DEF Succeeds, Asked, Here
  <2>5. CASE BlockedAttempt(c)
    <3>1. \E retryable : client' = Fallen(c, retryable)
      BY <2>5 DEF BlockedAttempt
    <3> QED
      BY <2>5, <3>1, Ending DEF BlockedAttempt, Here
  <2>6. CASE BlockReported(c)
    BY <2>6, Ending DEF BlockReported, Here
  <2>7. ASSUME NEW proxyError \in BOOLEAN, Fails(c, proxyError)
        PROVE  AttemptsIInv'
    <3>1. \/ rotator' = ReportFailure(client[c].proxy) /\ Blames(c)
          \/ UNCHANGED <<rotator, blame>>
      BY <2>7 DEF Fails
    <3>2. UNCHANGED <<options, auth, valid>> /\ UNCHANGED pool
          /\ \E retryable : client' = Fallen(c, retryable)
      BY <2>7 DEF Fails
    <3>3. ~Here(c, "idle") /\ ~Here(c, "rejected") /\ ~Here(c, "refreshing")
      BY <2>7 DEF Fails, Asked, Here
    <3> QED
      BY <3>1, <3>2, <3>3, Ending
  <2> QED
    BY <1>4, <2>1, <2>2, <2>3, <2>4, <2>5, <2>6, <2>7 DEF AttemptStep
<1>5. CASE UNCHANGED attemptVars
  BY <1>5 DEF attemptVars, AttemptsIInv, AttemptsTypeOK, BegunHasBoth, BlameIsPast,
              AttemptsAccounted, Refreshing, Here
<1> QED
  BY <1>1, <1>2, <1>3, <1>4, <1>5 DEF AttemptsNext

-----------------------------------------------------------------------------
(* Redirects. *)

\* A config with another pin.
LEMMA PinIsSet ==
    ASSUME NEW config \in Configs, NEW lookup
    PROVE  /\ [config EXCEPT !.lookup = lookup] =
                 [method |-> config.method, body |-> config.body, secret |-> config.secret,
                  lookup |-> lookup]
           /\ lookup \in Pins \union {None} => [config EXCEPT !.lookup = lookup] \in Configs
BY DEF Configs

\* A verdict that does not refuse is a pin or none, and the pin of a checked address where
\* addresses are guarded.
LEMMA VerdictPins ==
    ASSUME NEW guard, NEW url \in Urls, NEW verdict \in Verdicts(guard, url), verdict # Blocked
    PROVE  /\ verdict \in Pins \union {None}
           /\ guard = "addresses" => /\ verdict # None /\ verdict.host = url.host
                                     /\ verdict.address \notin Private
<1>1. CASE guard \in {"off", "names"}
  BY <1>1 DEF Verdicts
<1>2. CASE guard \notin {"off", "names"}
  <2>1. PICK at \in Addresses[url.host] \ Private : verdict = [host |-> url.host, address |-> at]
    BY <1>2 DEF Verdicts
  <2>2. url.host \in Hosts
    BY DEF Urls
  <2>3. verdict \in [host: {url.host}, address: Addresses[url.host]]
    BY <2>1
  <2>4. verdict \in Pins
    BY <2>2, <2>3 DEF Pins
  <2> QED
    BY <2>1, <2>4, RedirectAssumption
<1> QED
  BY <1>1, <1>2

\* What prepareRedirectHop makes of a config: the pin is the verdict's, sensitive headers
\* stay with the origin unless they are forwarded, a body stays with its method.
LEMMA Carried ==
    ASSUME NEW config \in Configs, NEW home \in BOOLEAN, MayCarry(config, home),
           NEW url \in Urls, NEW next \in Urls, NEW status, home => url = request.url,
           NEW verdict \in HopVerdicts(request.policy, next), verdict # Blocked
    PROVE  LET result == PrepareRedirectHop(config, request.policy, url, next, status, verdict)
           IN  /\ result \in Configs
               /\ MayCarry(result, next = request.url /\ home)
               /\ Pinned(result, next)
<1> DEFINE no == FALSE
           get == "GET"
           carried == IF url = next THEN config ELSE CrossingOrigins(config, request.policy)
           hopConfig == BodyDropped(carried, status)
           result == PrepareRedirectHop(config, request.policy, url, next, status, verdict)
<1>1. /\ config = [method |-> config.method, body |-> config.body, secret |-> config.secret,
                   lookup |-> config.lookup]
      /\ config.method \in {"GET", "POST"} /\ config.body \in BOOLEAN /\ config.secret \in BOOLEAN
      /\ config.lookup \in Pins \union {None}
  BY DEF Configs
<1>2. StripSensitiveHeaders(config) = [method |-> config.method, body |-> config.body,
                                       secret |-> no, lookup |-> None]
  <2> HIDE DEF no
  <2>1. [config EXCEPT !.secret = no] = [method |-> config.method, body |-> config.body,
                                         secret |-> no, lookup |-> config.lookup]
    BY <1>1
  <2>2. StripSensitiveHeaders(config) = [[config EXCEPT !.secret = no] EXCEPT !.lookup = None]
    BY Zenon DEF StripSensitiveHeaders, no
  <2> QED
    BY <2>1, <2>2
<1>3. /\ carried \in Configs /\ carried.method = config.method /\ carried.body = config.body
      /\ MayCarry(carried, next = request.url /\ home)
  <2>1. CASE url = next
    BY <2>1 DEF MayCarry
  <2>2. CASE url # next /\ request.policy.forwardSensitiveHeaders
    BY <2>2, <1>1, PinIsSet DEF CrossingOrigins, MayCarry
  <2>3. CASE url # next /\ ~request.policy.forwardSensitiveHeaders
    <3>1. no \in BOOLEAN /\ ~no
      OBVIOUS
    <3>2. carried = [method |-> config.method, body |-> config.body, secret |-> no, lookup |-> None]
      BY <1>2, <2>3 DEF CrossingOrigins
    <3> HIDE DEF no, carried
    <3> QED
      BY <1>1, <3>1, <3>2 DEF Configs, MayCarry
  <2> QED
    BY <2>1, <2>2, <2>3
<1>4. hopConfig \in Configs /\ MayCarry(hopConfig, next = request.url /\ home)
  <2> HIDE DEF carried
  <2>1. CASE status = "moved" /\ carried.method # "GET"
    <3>1. [carried EXCEPT !.method = get] = [method |-> get, body |-> carried.body,
                                             secret |-> carried.secret, lookup |-> carried.lookup]
      BY <1>3 DEF Configs
    <3>2. hopConfig = [[carried EXCEPT !.method = get] EXCEPT !.body = no]
      BY <2>1, Zenon DEF BodyDropped
    <3>3. no \in BOOLEAN /\ ~no /\ get \in {"GET", "POST"}
      OBVIOUS
    <3> HIDE DEF no, get, hopConfig
    <3>4. hopConfig = [method |-> get, body |-> no, secret |-> carried.secret,
                       lookup |-> carried.lookup]
      BY <3>1, <3>2
    <3>5. hopConfig \in Configs /\ hopConfig.secret = carried.secret /\ ~hopConfig.body
      BY <1>3, <3>3, <3>4 DEF Configs
    <3> QED
      BY <1>3, <3>5 DEF MayCarry
  <2>2. CASE ~(status = "moved" /\ carried.method # "GET")
    BY <1>3, <2>2 DEF BodyDropped
  <2> QED
    BY <2>1, <2>2
<1>5. result = IF verdict = Unasked THEN hopConfig ELSE [hopConfig EXCEPT !.lookup = verdict]
  BY DEF PrepareRedirectHop
<1> HIDE DEF hopConfig, result
<1>6. CASE verdict = Unasked
  <2>1. ~Guarded
    <3>1. ASSUME request.policy.guard = "addresses", request.policy.validateEachHop PROVE FALSE
      <4>1. verdict \in Verdicts("addresses", next)
        BY <3>1 DEF HopVerdicts
      <4> QED
        BY <1>6, <4>1, VerdictPins, RedirectAssumption
    <3> QED
      BY <3>1 DEF Guarded
  <2> QED
    BY <1>4, <1>5, <1>6, <2>1 DEF Pinned, result
<1>7. CASE verdict # Unasked
  <2>1. verdict \in Verdicts(request.policy.guard, next)
    BY <1>7 DEF HopVerdicts
  <2>2. verdict \in Pins \union {None}
        /\ (request.policy.guard = "addresses" => /\ verdict # None /\ verdict.host = next.host
                                                  /\ verdict.address \notin Private)
    BY <2>1, VerdictPins
  <2>3. /\ result \in Configs
        /\ result = [method |-> hopConfig.method, body |-> hopConfig.body,
                     secret |-> hopConfig.secret, lookup |-> verdict]
    BY <1>4, <1>5, <1>7, <2>2, PinIsSet
  <2>4. result.lookup = verdict /\ result.method = hopConfig.method /\ result.body = hopConfig.body
        /\ result.secret = hopConfig.secret
    BY <2>3
  <2>5. Pinned(result, next)
    BY <2>2, <2>4 DEF Pinned, Guarded
  <2>6. MayCarry(result, next = request.url /\ home)
    BY <1>4, <2>4 DEF MayCarry
  <2> QED
    BY <2>3, <2>5, <2>6 DEF result
<1> QED
  BY <1>6, <1>7

\* The crossings of a trail are finite in number; one hop more adds one or none.
LEMMA ChangesCounted ==
    ASSUME NEW S, NEW trail \in Seq(S)
    PROVE  /\ IsFiniteSet(Changes(trail)) /\ Cardinality(Changes(trail)) \in Nat
           /\ \A e : Cardinality(Changes(Append(trail, e))) = Crossings(trail, e.url)
<1> DEFINE n == Len(trail)
           old == Changes(trail)
<1>1. n \in Nat
  OBVIOUS
<1>2. IsFiniteSet(old) /\ Cardinality(old) \in Nat
  <2>1. IsFiniteSet(2..n)
    BY <1>1, FS_Interval
  <2>2. old \subseteq 2..n
    BY DEF Changes
  <2> QED
    BY <2>1, <2>2, FS_Subset, FS_CardinalityType
<1>3. ASSUME NEW e PROVE Cardinality(Changes(Append(trail, e))) = Crossings(trail, e.url)
  <2> DEFINE new == Append(trail, e)
  <2>1. /\ Len(new) = n + 1 /\ new[n + 1] = e
        /\ \A i \in 1..n : new[i] = trail[i]
    OBVIOUS
  <2>2. \A i \in 2..n : new[i] = trail[i] /\ new[i - 1] = trail[i - 1]
    BY <1>1, <2>1
  <2>3. \A i : i \in 2..n + 1 <=> i \in 2..n \/ (i = n + 1 /\ n > 0)
    BY <1>1
  <2>4. n > 0 => new[n + 1 - 1] = trail[n]
    BY <1>1, <2>1
  <2> HIDE DEF new
  <2>5. \A i : i \in Changes(new) <=>
                  i \in old \/ (i = n + 1 /\ n > 0 /\ trail[n].url # e.url)
    <3> HIDE DEF n
    <3>1. Len(trail) = n
      BY DEF n
    <3> QED
      BY <1>1, <2>1, <2>2, <2>3, <2>4, <3>1 DEF Changes
  <2>6. n > 0 <=> trail # <<>>
    OBVIOUS
  <2>7. CASE n > 0 /\ trail[n].url # e.url
    <3>1. Changes(new) = old \union {n + 1} /\ n + 1 \notin old
      BY <1>1, <2>5, <2>7 DEF Changes
    <3>2. Cardinality(Changes(new)) = Cardinality(old) + 1
      BY <1>2, <3>1, FS_AddElement
    <3> QED
      BY <2>6, <2>7, <3>2 DEF Crossings, new
  <2>8. CASE ~(n > 0 /\ trail[n].url # e.url)
    <3>1. Changes(new) = old
      BY <2>5, <2>8 DEF Changes
    <3> QED
      BY <1>2, <2>6, <2>8, <3>1 DEF Crossings, new
  <2> QED
    BY <2>7, <2>8
<1> QED
  BY <1>2, <1>3

\* Of two trails with the same URLs the shorter has no more changes; as long, it has the same.
LEMMA ChangesOfUrls ==
    ASSUME NEW S, NEW T, NEW trail \in Seq(S), NEW other \in Seq(T), Len(other) <= Len(trail),
           \A k \in 1..Len(other) : other[k].url = trail[k].url
    PROVE  /\ Cardinality(Changes(other)) <= Cardinality(Changes(trail))
           /\ Len(other) = Len(trail) => /\ Changes(other) = Changes(trail)
                                         /\ \A url : Crossings(other, url) = Crossings(trail, url)
<1>1. Len(other) \in Nat /\ Len(trail) \in Nat
  OBVIOUS
<1>2. \A k \in 2..Len(other) : k \in 1..Len(other) /\ k - 1 \in 1..Len(other) /\ k \in 2..Len(trail)
  BY <1>1
<1>3. \A k \in 2..Len(other) : k \in Changes(other) <=> k \in Changes(trail)
  BY <1>2 DEF Changes
<1>4. Changes(other) \subseteq Changes(trail)
  BY <1>3 DEF Changes
<1>5. Cardinality(Changes(other)) <= Cardinality(Changes(trail))
  <2>1. IsFiniteSet(Changes(trail))
    BY ChangesCounted
  <2> QED
    BY <1>4, <2>1, FS_Subset
<1>6. ASSUME Len(other) = Len(trail)
      PROVE  /\ Changes(other) = Changes(trail)
             /\ \A url : Crossings(other, url) = Crossings(trail, url)
  <2>1. Changes(other) = Changes(trail)
    BY <1>3, <1>6 DEF Changes
  <2>2. (other # <<>> <=> Len(other) > 0) /\ (trail # <<>> <=> Len(trail) > 0)
    OBVIOUS
  <2>3. Len(other) > 0 => other[Len(other)].url = trail[Len(trail)].url
    BY <1>1, <1>6
  <2> QED
    BY <1>6, <2>1, <2>2, <2>3 DEF Crossings
<1> QED
  BY <1>5, <1>6

-----------------------------------------------------------------------------
(* HTTP/1.1. *)

\* A trail of no hops.
LEMMA NoHops ==
    ASSUME NEW trail, trail = <<>>
    PROVE  /\ Len(trail) = 0 /\ DOMAIN trail = {} /\ Cardinality(Changes(trail)) = 0
           /\ \A url : Crossings(trail, url) = 0
<1>1. Cardinality({}) = 0 /\ 2..0 = {}
  BY FS_EmptySet
<1>2. Len(trail) = 0 /\ DOMAIN trail = {}
  OBVIOUS
<1>3. Changes(trail) = {}
  BY <1>1, <1>2 DEF Changes
<1>4. ASSUME NEW url PROVE Crossings(trail, url) = 0
  BY <1>1, <1>3 DEF Crossings
<1>5. Cardinality(Changes(trail)) = 0
  BY <1>1, <1>3
<1> QED
  BY <1>2, <1>4, <1>5

\* Nothing has happened yet.
LEMMA NetworkInitially == TransportInit => TransportIInv
<1> SUFFICES ASSUME TransportInit PROVE TransportIInv
  OBVIOUS
<1>1. /\ MaxRedirects \in Nat /\ MaxCrossHostHops \in Nat /\ MaxMemoryBuffer \in Nat
      /\ MaxChunks \in Nat
  BY FetcherAssumption
<1>2. request \in Requests /\ request.url \in Urls /\ request.config \in Configs
  BY FetcherAssumption DEF TransportInit, FetcherInit
<1>3. sent = <<>> /\ frames = <<>> /\ sent2 = <<>> /\ cross2 = 0 /\ unhandled = FALSE
      /\ call = "idle" /\ abortedAt = None /\ aborted = FALSE /\ closed = FALSE
  BY DEF TransportInit, FetcherInit, Http2Init
<1>4. /\ Len(sent) = 0 /\ DOMAIN sent = {} /\ \A url : Crossings(sent, url) = 0
      /\ Len(frames) = 0 /\ DOMAIN frames = {} /\ Cardinality(Changes(frames)) = 0
      /\ Len(sent2) = 0 /\ DOMAIN sent2 = {}
  BY <1>3, NoHops
<1>5. /\ hop = [place |-> "none", url |-> request.url, config |-> request.config, hops |-> 0,
                cross |-> 0, target |-> None]
      /\ body = [got |-> 0, complete |-> FALSE]
      /\ file = [stream |-> "none", tracked |-> FALSE, onDisk |-> FALSE]
      /\ dns = [h \in Hosts \union {ProxyHost} |-> [held |-> FALSE, cursor |-> 0]]
  BY DEF TransportInit, FetcherInit, NoBody
<1>6. FetcherTypeOK
  <2> DEFINE no == FALSE
             fresh == [held |-> no, cursor |-> 0]
  <2>1. no \in BOOLEAN
    OBVIOUS
  <2>2. /\ body = [got |-> 0, complete |-> no]
        /\ file = [stream |-> "none", tracked |-> no, onDisk |-> no]
        /\ dns = [h \in Hosts \union {ProxyHost} |-> fresh]
    BY <1>5
  <2> HIDE DEF no
  <2>3. fresh \in [held: BOOLEAN, cursor: Nat]
    BY <2>1
  <2>4. /\ body \in [got: 0..MaxChunks, complete: BOOLEAN]
        /\ file \in [stream: {"none", "opening", "open"}, tracked: BOOLEAN, onDisk: BOOLEAN]
    BY <1>1, <2>1, <2>2
  <2> HIDE DEF fresh
  <2>5. dns \in [Hosts \union {ProxyHost} -> [held: BOOLEAN, cursor: Nat]]
    BY <2>2, <2>3
  <2>6. /\ hop.place = "none" /\ hop.url = request.url /\ hop.config = request.config
        /\ hop.hops = 0 /\ hop.cross = 0 /\ hop.target = None
    BY <1>5
  <2>7. aborted \in BOOLEAN /\ closed \in BOOLEAN
    BY <1>3
  <2> QED
    BY <1>1, <1>2, <1>4, <2>4, <2>5, <2>6, <2>7 DEF FetcherTypeOK, Pending
<1>7. TransportTypeOK
  <2>1. unhandled \in BOOLEAN
    BY <1>3
  <2>2. Len(frames) <= MaxRedirects + 2 /\ Len(sent2) <= MaxRedirects + 1
        /\ cross2 \in 0..MaxCrossHostHops + 1
    BY <1>1, <1>3, <1>4
  <2>3. call = "idle" /\ abortedAt = None
    BY <1>3
  <2> QED
    BY <1>4, <1>6, <2>1, <2>2, <2>3 DEF TransportTypeOK, Http2TypeOK
<1>8. HopTyped
  BY <1>3, <1>5 DEF HopTyped
<1>9. SentSound /\ BodySound
  BY <1>4, <1>5 DEF SentSound, BodySound
<1>10. HopSound
  BY <1>1, <1>2, <1>3, <1>4, <1>5 DEF HopSound, MayCarry, Home
<1>11. AbortSound
  BY <1>3, TransportAssumption DEF AbortSound
<1>12. StackSound
  <2>1. frames \in Seq(FrameType) /\ sent2 \in Seq([url: Urls, config: Configs])
    BY <1>3
  <2> QED
    BY <1>1, <1>3, <1>4, <2>1 DEF StackSound, Top
<1>13. FallBackSound
  BY <1>3 DEF FallBackSound
<1> QED
  BY <1>7, <1>8, <1>9, <1>10, <1>11, <1>12, <1>13 DEF TransportIInv

\* A step over HTTP/1.1, or before the call is sent, leaves what HTTP/2 left.
LEMMA StackLeft ==
    ASSUME TransportIInv, UNCHANGED <<request, h2Vars>>
    PROVE  Http2TypeOK' /\ StackSound'
BY DEF TransportIInv, TransportTypeOK, Http2TypeOK, StackSound, h2Vars, Top, IsPending, MayCarry, Home,
       Changes, Crossings, Target, FrameType

\* What was sent is not touched.
LEMMA SentLeft ==
    ASSUME TransportIInv, UNCHANGED <<request, sent>>
    PROVE  SentSound' /\ Len(sent') <= MaxRedirects + 1
BY DEF TransportIInv, TransportTypeOK, FetcherTypeOK, SentSound, MayCarry, Home, Pinned, Guarded

\* A hop that is settled, or goes on to its body or its file.
LEMMA HopPlaced ==
    ASSUME TransportIInv, call = "http1", hop.place \in Listening \union {"preparing"},
           NEW place \in {"body", "writing", "ok", "failed"}, hop' = [hop EXCEPT !.place = place],
           hop.place = "preparing" => place = "failed",
           place \in {"body", "writing"} => Len(sent) = hop.hops + 1,
           UNCHANGED <<request, dns, file, aborted, closed, sent, h2Vars, call, abortedAt>>,
           body' \in [got: 0..MaxChunks, complete: BOOLEAN],
           place \in {"writing", "ok"} /\ request.verifyLength => body'.complete
    PROVE  TransportIInv'
<1>1. hop' = [place |-> place, url |-> hop.url, config |-> hop.config, hops |-> hop.hops,
              cross |-> hop.cross, target |-> hop.target]
  BY DEF TransportIInv, HopTyped
<1>2. hop'.place = place /\ hop'.url = hop.url /\ hop'.config = hop.config /\ hop'.hops = hop.hops
      /\ hop'.cross = hop.cross /\ hop'.target = hop.target
  BY <1>1
<1>3. UNCHANGED <<request, h2Vars>> /\ UNCHANGED <<request, sent>>
  OBVIOUS
<1>4. FetcherTypeOK'
  BY <1>2 DEF TransportIInv, TransportTypeOK, FetcherTypeOK, Pending
<1>5. TransportTypeOK' /\ StackSound' /\ SentSound'
  BY <1>3, <1>4, StackLeft, SentLeft DEF TransportIInv, TransportTypeOK
<1>6. HopTyped'
  BY <1>1, <1>2 DEF TransportIInv, HopTyped
<1>7. HopSound'
  BY <1>2 DEF TransportIInv, HopSound, MayCarry, Home, Pinned, Guarded, Changes, Crossings
<1>8. BodySound'
  BY <1>2 DEF TransportIInv, BodySound
<1>9. AbortSound'
  <2>1. aborted => hop'.place \notin Listening
    BY <1>2 DEF TransportIInv, AbortSound, Listening
  <2>2. abortedAt = "pending" => aborted /\ CallOutcome' # "ok"
    BY <1>2, <2>1 DEF TransportIInv, AbortSound, Listening, CallOutcome
  <2> QED
    BY <2>1, <2>2 DEF TransportIInv, AbortSound, h2Vars, IsPending
<1>10. FallBackSound'
  BY DEF TransportIInv, FallBackSound, h2Vars, Pinned, Guarded
<1> QED
  BY <1>5, <1>6, <1>7, <1>8, <1>9, <1>10 DEF TransportIInv

\* What a hop received and its file may change under it.
LEMMA HopStays ==
    ASSUME TransportIInv, UNCHANGED <<request, hop, dns, aborted, sent, h2Vars, call, abortedAt>>,
           body' \in [got: 0..MaxChunks, complete: BOOLEAN],
           hop.place \in {"writing", "ok"} /\ request.verifyLength => body'.complete,
           file' \in [stream: {"none", "opening", "open"}, tracked: BOOLEAN, onDisk: BOOLEAN],
           closed' \in BOOLEAN,
           file'.stream # "none" \/ file'.onDisk => file'.tracked \/ closed'
    PROVE  TransportIInv'
<1>1. UNCHANGED <<request, h2Vars>> /\ UNCHANGED <<request, sent>>
  OBVIOUS
<1>2. TransportTypeOK' /\ StackSound' /\ SentSound'
  BY <1>1, StackLeft, SentLeft DEF TransportIInv, TransportTypeOK, FetcherTypeOK
<1>3. HopTyped'
  BY DEF TransportIInv, HopTyped
<1>4. HopSound'
  BY DEF TransportIInv, HopSound, MayCarry, Home, Pinned, Guarded, Changes, Crossings
<1>5. BodySound'
  BY DEF TransportIInv, BodySound
<1>6. AbortSound'
  BY DEF TransportIInv, AbortSound, Listening, h2Vars, IsPending, CallOutcome, FallsBack
<1>7. FallBackSound'
  BY DEF TransportIInv, FallBackSound, h2Vars, Pinned, Guarded
<1> QED
  BY <1>2, <1>3, <1>4, <1>5, <1>6, <1>7 DEF TransportIInv

\* The hop that _rawFetch begins with.
LEMMA HopBegins ==
    ASSUME NEW url, NEW config, NEW hops, NEW cross, hop' = RawFetch(url, config, hops, cross)
    PROVE  /\ hop' = [place |-> hop'.place, url |-> url, config |-> config, hops |-> hops,
                      cross |-> cross, target |-> None]
           /\ hop'.url = url /\ hop'.config = config /\ hop'.hops = hops /\ hop'.cross = cross
           /\ hop'.target = None
           /\ hop'.place \in {"waiting", "failed"}
           /\ hop'.place = "waiting" => ~(hops > MaxRedirects) /\ ~aborted
<1> DEFINE place == IF hops > MaxRedirects \/ aborted THEN "failed" ELSE "waiting"
<1>1. hop' = [place |-> place, url |-> url, config |-> config, hops |-> hops, cross |-> cross,
              target |-> None]
  BY DEF RawFetch
<1>2. place \in {"waiting", "failed"} /\ (place = "waiting" => ~(hops > MaxRedirects) /\ ~aborted)
  OBVIOUS
<1> HIDE DEF place
<1> QED
  BY <1>1, <1>2

\* A hop that begins, of the call that is under way over HTTP/1.1 or goes over to it.
LEMMA HopFetched ==
    ASSUME TransportIInv, NEW url \in Urls, NEW config \in Configs, NEW hops \in 0..MaxRedirects + 1,
           NEW cross \in 0..MaxCrossHostHops, hop' = RawFetch(url, config, hops, cross),
           Len(sent) = hops, Crossings(sent, url) <= cross,
           MayCarry(config, url = request.url /\ Home(sent, Len(sent))), Pinned(config, url),
           UNCHANGED <<request, body, file, dns, aborted, closed, sent, h2Vars, abortedAt>>,
           call' = "http1", frames # <<>> => call = "http1" \/ frames[1].promise = "other"
    PROVE  TransportIInv'
<1>1. /\ hop' = [place |-> hop'.place, url |-> url, config |-> config, hops |-> hops,
                 cross |-> cross, target |-> None]
      /\ hop'.url = url /\ hop'.config = config /\ hop'.hops = hops /\ hop'.cross = cross
      /\ hop'.target = None
      /\ hop'.place \in {"waiting", "failed"}
      /\ hop'.place = "waiting" => ~(hops > MaxRedirects) /\ ~aborted
  BY HopBegins
<1>2. UNCHANGED <<request, h2Vars>> /\ UNCHANGED <<request, sent>>
  OBVIOUS
<1>3. MaxRedirects \in Nat /\ MaxCrossHostHops \in Nat
  BY FetcherAssumption
<1>4. FetcherTypeOK'
  BY <1>1, <1>3 DEF TransportIInv, TransportTypeOK, FetcherTypeOK, Pending
<1>5. TransportTypeOK' /\ StackSound' /\ SentSound'
  BY <1>2, <1>4, StackLeft, SentLeft DEF TransportIInv, TransportTypeOK
<1>6. HopTyped'
  BY <1>1 DEF TransportIInv, HopTyped
<1>7. HopSound'
  <2>1. /\ MayCarry(config, url = request.url /\ Home(sent, Len(sent)))'
        /\ Pinned(config, url)' /\ Crossings(sent, url)' <= cross
    BY DEF MayCarry, Home, Pinned, Guarded, Crossings, Changes
  <2>2. Len(sent') = hops /\ hops # hops + 1
    BY <1>3
  <2>3. hop'.place = "waiting" => hop'.hops <= MaxRedirects
    BY <1>1, <1>3
  <2>4. hop'.place \notin {"none", "body", "writing", "preparing"}
    BY <1>1
  <2>5. /\ MayCarry(hop.config, hop.url = request.url /\ Home(sent, Len(sent)))'
        /\ Pinned(hop.config, hop.url)' /\ Crossings(sent, hop.url)' <= hop'.cross
    BY <1>1, <2>1 DEF MayCarry, Home, Pinned, Guarded, Crossings, Changes
  <2> QED
    BY <1>1, <1>3, <2>2, <2>3, <2>4, <2>5 DEF HopSound, MayCarry, Home, Pinned, Guarded, Crossings, Changes
<1>8. BodySound'
  BY <1>1 DEF TransportIInv, BodySound
<1>9. AbortSound'
  <2>1. aborted => hop'.place = "failed"
    BY <1>1
  <2>2. abortedAt = "pending" => aborted
    BY DEF TransportIInv, AbortSound
  <2>3. aborted => CallOutcome' = "failed"
    BY <2>1 DEF CallOutcome
  <2> QED
    BY <2>1, <2>2, <2>3 DEF TransportIInv, AbortSound, h2Vars, IsPending, Listening
<1>10. FallBackSound'
  BY DEF TransportIInv, FallBackSound, h2Vars, Pinned, Guarded
<1> QED
  BY <1>5, <1>6, <1>7, <1>8, <1>9, <1>10 DEF TransportIInv

\* A request that leaves: its hop stays, what was sent grows.
LEMMA Sends == ASSUME TransportIInv, call = "http1", Connects, UNCHANGED <<h2Vars, call, abortedAt>>
               PROVE  TransportIInv'
<1>0. PICK n \in Nat : n = Len(sent)
  BY DEF TransportIInv, HopTyped
<1> DEFINE AddressesOfAll == UNION {Addresses[h] : h \in Hosts \union {ProxyHost}}
           SentType == [url: Urls, config: Configs, address: AddressesOfAll]
<1>1. PICK address \in AddressesOfAll :
          /\ Reaches(address)
          /\ sent' = Append(sent, [url |-> hop.url, config |-> hop.config, address |-> address])
  BY DEF Connects
<1> DEFINE left == [url |-> hop.url, config |-> hop.config, address |-> address]
<1>2. /\ sent \in Seq(SentType) /\ n \in Nat /\ DOMAIN sent = 1..n
      /\ hop.url \in Urls /\ hop.config \in Configs /\ hop.hops = n /\ hop.place = "waiting"
      /\ MaxRedirects \in Nat /\ n <= MaxRedirects
      /\ UNCHANGED <<request, hop, body, file, aborted, closed>> /\ UNCHANGED <<request, h2Vars>>
  BY <1>0, FetcherAssumption
     DEF TransportIInv, TransportTypeOK, FetcherTypeOK, HopTyped, HopSound, Connects
<1>3. left \in SentType
  BY <1>2
<1>4. left.url = hop.url /\ left.config = hop.config /\ left.address = address
  OBVIOUS
<1> HIDE DEF left, SentType
<1>5. /\ sent' \in Seq(SentType) /\ Len(sent') = n + 1 /\ DOMAIN sent' = 1..n + 1
      /\ sent'[n + 1] = left /\ \A k \in 1..n : sent'[k] = sent[k]
  BY <1>0, <1>1, <1>2, <1>3 DEF left
<1>6. dns' \in [Hosts \union {ProxyHost} -> [held: BOOLEAN, cursor: Nat]]
  <2>1. dns \in [Hosts \union {ProxyHost} -> [held: BOOLEAN, cursor: Nat]]
    BY DEF TransportIInv, TransportTypeOK, FetcherTypeOK
  <2>2. CASE dns' = Turned(Peer)
    <3> DEFINE many == Len(Records[Peer])
               yes == TRUE
               cursor == IF many = 1 THEN dns[Peer].cursor ELSE (dns[Peer].cursor % many) + 1
    <3>1. Peer \in Hosts \union {ProxyHost}
      BY <1>2 DEF Peer, Urls
    <3>2. many \in Nat \ {0}
      BY <3>1, FetcherAssumption
    <3>3. dns[Peer].cursor \in Nat
      BY <2>1, <3>1
    <3>4. cursor \in Nat
      <4> HIDE DEF many
      <4> QED
        BY <3>2, <3>3
    <3>5. dns' = [dns EXCEPT ![Peer] = [held |-> yes, cursor |-> cursor]] /\ yes \in BOOLEAN
      BY <2>2 DEF Turned
    <3> HIDE DEF yes, cursor
    <3> QED
      BY <2>1, <3>1, <3>4, <3>5
  <2> QED
    BY <1>1, <2>1, <2>2 DEF Reaches
<1>7. FetcherTypeOK'
  BY <1>2, <1>5, <1>6 DEF TransportIInv, TransportTypeOK, FetcherTypeOK
<1>8. TransportTypeOK' /\ StackSound'
  BY <1>2, <1>7, StackLeft DEF TransportIInv, TransportTypeOK
<1>9. HopTyped'
  BY <1>2, <1>5 DEF TransportIInv, HopTyped, SentType
<1>10. \A k \in 1..n + 1 : k \in 1..n \/ k = n + 1
  BY <1>2
<1>11. /\ \A k \in 1..n : Home(sent, k)' <=> Home(sent, k)
       /\ Home(sent, n + 1)' <=> Home(sent, n) /\ hop.url = request.url
  <2>1. \A k \in 1..n : \A j \in 1..k : j \in 1..n
    BY <1>2
  <2>2. \A j : j \in 1..n + 1 <=> j \in 1..n \/ j = n + 1
    BY <1>2
  <2>3. \A k \in 1..n : Home(sent, k)' <=> Home(sent, k)
    BY <1>2, <1>5, <2>1 DEF Home
  <2>4. Home(sent, n + 1)' <=> Home(sent, n) /\ hop.url = request.url
    <3>1. sent'[n + 1].url = hop.url /\ request' = request /\ n + 1 \in 1..n + 1
      BY <1>2, <1>4, <1>5
    <3>2. ASSUME Home(sent, n + 1)' PROVE Home(sent, n) /\ hop.url = request.url
      BY <1>5, <2>2, <3>1, <3>2 DEF Home
    <3>3. ASSUME Home(sent, n), hop.url = request.url PROVE Home(sent, n + 1)'
      BY <1>5, <2>2, <3>1, <3>3 DEF Home
    <3> QED
      BY <3>2, <3>3
  <2> QED
    BY <2>3, <2>4
<1>12. SentSound'
  <2> SUFFICES ASSUME NEW k \in 1..n + 1
               PROVE  /\ MayCarry(sent[k].config, Home(sent, k))'
                      /\ Pinned(sent[k].config, sent[k].url)'
                      /\ Guarded' => sent'[k].address = sent'[k].config.lookup.address
    BY <1>5 DEF SentSound, MayCarry, Home, Pinned, Guarded
  <2>1. CASE k \in 1..n
    <3>1. /\ MayCarry(sent[k].config, Home(sent, k)) /\ Pinned(sent[k].config, sent[k].url)
          /\ Guarded => sent[k].address = sent[k].config.lookup.address
      BY <1>2, <2>1 DEF TransportIInv, SentSound
    <3>2. sent'[k] = sent[k] /\ (Home(sent, k)' <=> Home(sent, k)) /\ request' = request
      BY <1>2, <1>5, <1>11, <2>1
    <3> QED
      BY <3>1, <3>2 DEF MayCarry, Pinned, Guarded
  <2>2. CASE k = n + 1
    <3>1. MayCarry(hop.config, hop.url = request.url /\ Home(sent, n)) /\ Pinned(hop.config, hop.url)
      BY <1>0, <1>2 DEF TransportIInv, HopSound
    <3>2. Guarded => address = hop.config.lookup.address
      BY <1>1, <3>1 DEF Guarded, Reaches, Tunnelled, Pinned
    <3> QED
      BY <1>2, <1>4, <1>5, <1>11, <2>2, <3>1, <3>2 DEF MayCarry, Pinned, Guarded
  <2> QED
    BY <1>10, <2>1, <2>2
<1>13. HopSound'
  <2>1. Crossings(sent, hop.url)' <= hop.cross
    <3>1. Cardinality(Changes(Append(sent, left))) = Crossings(sent, left.url)
          /\ Cardinality(Changes(Append(sent, left))) \in Nat
      <4>1. Append(sent, left) \in Seq(SentType)
        BY <1>2, <1>3
      <4> QED
        BY <1>2, <4>1, ChangesCounted
    <3>2. sent' = Append(sent, left)
      BY <1>1 DEF left
    <3>3. Crossings(sent, left.url) <= hop.cross
      BY <1>4 DEF TransportIInv, HopSound
    <3>4. Crossings(sent', hop.url) = Cardinality(Changes(sent'))
      <4>1. sent'[Len(sent')].url = hop.url
        BY <1>4, <1>5
      <4>2. Cardinality(Changes(sent')) \in Nat
        BY <3>1, <3>2
      <4> QED
        BY <4>1, <4>2 DEF Crossings
    <3>5. Crossings(sent, hop.url)' = Crossings(sent', hop.url)
      BY <1>2 DEF Crossings, Changes
    <3> QED
      BY <3>1, <3>2, <3>3, <3>4, <3>5
  <2>2. MayCarry(hop.config, hop.url = request.url /\ Home(sent, Len(sent)))'
    BY <1>0, <1>2, <1>5, <1>11 DEF TransportIInv, HopSound, MayCarry
  <2>3. Pinned(hop.config, hop.url)'
    BY <1>2 DEF TransportIInv, HopSound, Pinned, Guarded
  <2> QED
    BY <1>2, <1>4, <1>5, <2>1, <2>2, <2>3 DEF TransportIInv, HopSound
<1>14. BodySound' /\ AbortSound'
  BY <1>2 DEF TransportIInv, BodySound, AbortSound, Listening, h2Vars, IsPending, CallOutcome, FallsBack
<1>15. FallBackSound'
  BY <1>2 DEF TransportIInv, FallBackSound, h2Vars, Pinned, Guarded
<1> QED
  BY <1>8, <1>9, <1>12, <1>13, <1>14, <1>15 DEF TransportIInv

\* A redirect settles the hop where its crossings are used up, and otherwise asks the guard.
LEMMA Redirected ==
    ASSUME TransportIInv, call = "http1", NEW status \in {"moved", "kept"}, NEW next \in Urls,
           Redirects(status, next), UNCHANGED <<h2Vars, call, abortedAt>>
    PROVE  TransportIInv'
<1>1. /\ hop.place = "waiting" /\ Len(sent) = hop.hops + 1
      /\ UNCHANGED <<request, body, file, dns, aborted, closed, sent>>
  BY DEF Redirects, Responding
<1>2. /\ hop = [place |-> hop.place, url |-> hop.url, config |-> hop.config, hops |-> hop.hops,
                cross |-> hop.cross, target |-> hop.target]
      /\ hop.hops \in 0..MaxRedirects + 1 /\ hop.cross \in Nat /\ hop.cross <= MaxCrossHostHops
      /\ MaxRedirects \in Nat /\ MaxCrossHostHops \in Nat
      /\ body \in [got: 0..MaxChunks, complete: BOOLEAN]
  BY FetcherAssumption DEF TransportIInv, TransportTypeOK, FetcherTypeOK, HopTyped, HopSound
<1>3. CASE Finish("failed")
  BY <1>1, <1>2, <1>3, HopPlaced DEF Finish
<1>4. CASE ~(Crosses(next) > MaxCrossHostHops)
  <2> DEFINE target == [url |-> next, status |-> status]
             cross == Crosses(next)
  <2>1. cross \in Nat /\ cross <= MaxCrossHostHops /\ cross >= hop.cross
        /\ cross = hop.cross + (IF next = hop.url THEN 0 ELSE 1)
    BY <1>2, <1>4 DEF Crosses
  <2>2. target \in Target /\ target.url = next
    BY DEF Target
  <2> HIDE DEF cross, target
  <2>3. hop' = [place |-> "preparing", url |-> hop.url, config |-> hop.config, hops |-> hop.hops,
                cross |-> cross, target |-> target]
    <3>1. hop' = [[[hop EXCEPT !.place = "preparing"] EXCEPT !.cross = cross] EXCEPT !.target = target]
      BY <1>4, Zenon DEF Redirects, cross, target
    <3> QED
      BY <1>2, <3>1
  <2>4. /\ hop'.place = "preparing" /\ hop'.url = hop.url /\ hop'.config = hop.config
        /\ hop'.hops = hop.hops /\ hop'.cross = cross /\ hop'.target = target
    BY <2>3
  <2>5. UNCHANGED <<request, h2Vars>> /\ UNCHANGED <<request, sent>>
    BY <1>1
  <2>6. FetcherTypeOK'
    BY <1>1, <1>2, <2>1, <2>2, <2>4 DEF TransportIInv, TransportTypeOK, FetcherTypeOK, Pending, Target
  <2>7. TransportTypeOK' /\ StackSound' /\ SentSound'
    BY <2>5, <2>6, StackLeft, SentLeft DEF TransportIInv, TransportTypeOK
  <2>8. HopTyped'
    BY <1>1, <2>3, <2>4 DEF TransportIInv, HopTyped
  <2>9. HopSound'
    <3>1. /\ Crossings(sent, hop.url) <= hop.cross /\ sent[Len(sent)].url = hop.url
          /\ MayCarry(hop.config, hop.url = request.url /\ Home(sent, Len(sent)))
          /\ Pinned(hop.config, hop.url)
      BY <1>1 DEF TransportIInv, HopSound
    <3>2. Crossings(sent, hop.url) \in Nat
          /\ Crossings(sent, next) <= Crossings(sent, hop.url) + (IF next = hop.url THEN 0 ELSE 1)
      <4>1. Cardinality(Changes(sent)) \in Nat
        BY ChangesCounted DEF TransportIInv, HopTyped
      <4> QED
        BY <3>1, <4>1 DEF Crossings
    <3>3. Crossings(sent, hop.url) <= cross /\ Crossings(sent, next) <= cross
      <4>1. Crossings(sent, next) \in Nat
        <5>1. Cardinality(Changes(sent)) \in Nat
          BY ChangesCounted DEF TransportIInv, HopTyped
        <5> QED
          BY <5>1 DEF Crossings
      <4> QED
        BY <1>2, <2>1, <3>1, <3>2, <4>1
    <3>4. /\ (Crossings(sent, hop.url) <= hop.cross)'
          /\ (Crossings(sent, hop.target.url) <= hop.cross)'
          /\ (sent[Len(sent)].url = hop.url)'
          /\ MayCarry(hop.config, hop.url = request.url /\ Home(sent, Len(sent)))'
          /\ Pinned(hop.config, hop.url)'
      BY <1>1, <2>2, <2>4, <3>1, <3>3 DEF Crossings, Changes, MayCarry, Home, Pinned, Guarded
    <3>5. hop'.target \in [url: Urls, status: {"moved", "kept"}] /\ hop'.cross <= MaxCrossHostHops
          /\ Len(sent') = hop'.hops + 1 /\ call' = "http1"
      BY <1>1, <2>1, <2>2, <2>4 DEF Target
    <3> QED
      BY <2>4, <3>4, <3>5 DEF HopSound
  <2>10. BodySound'
    BY <1>1, <2>4 DEF TransportIInv, BodySound
  <2>11. AbortSound'
    BY <1>1, <2>4 DEF TransportIInv, AbortSound, Listening, h2Vars, IsPending, CallOutcome
  <2>12. FallBackSound'
    BY <1>1 DEF TransportIInv, FallBackSound, h2Vars, Pinned, Guarded
  <2> QED
    BY <2>7, <2>8, <2>9, <2>10, <2>11, <2>12 DEF TransportIInv
<1> QED
  BY <1>3, <1>4 DEF Redirects

\* The guard lets the next hop begin, with what the redirect makes of the config, or not.
LEMMA Prepares ==
    ASSUME TransportIInv, call = "http1", HopPrepared, UNCHANGED <<h2Vars, call, abortedAt>>
    PROVE  TransportIInv'
<1>1. PICK verdict \in HopVerdicts(request.policy, hop.target.url) :
         hop' = IF verdict = Blocked THEN [hop EXCEPT !.place = "failed"]
                ELSE RawFetch(hop.target.url,
                              PrepareRedirectHop(hop.config, request.policy, hop.url, hop.target.url,
                                                 hop.target.status, verdict),
                              hop.hops + 1, hop.cross)
  BY DEF HopPrepared
<1>2. /\ hop.place = "preparing" /\ Len(sent) = hop.hops + 1
      /\ UNCHANGED <<request, body, file, dns, aborted, closed, sent>>
      /\ hop.hops \in 0..MaxRedirects + 1 /\ hop.cross \in Nat /\ hop.cross <= MaxCrossHostHops
      /\ Len(sent) <= MaxRedirects + 1 /\ MaxRedirects \in Nat /\ MaxCrossHostHops \in Nat
      /\ body \in [got: 0..MaxChunks, complete: BOOLEAN]
      /\ hop.config \in Configs /\ hop.url \in Urls /\ hop.target.url \in Urls
      /\ Crossings(sent, hop.target.url) <= hop.cross
      /\ MayCarry(hop.config, hop.url = request.url /\ Home(sent, Len(sent)))
  BY FetcherAssumption DEF TransportIInv, TransportTypeOK, FetcherTypeOK, HopSound, HopPrepared
<1>3. CASE verdict = Blocked
  BY <1>1, <1>2, <1>3, HopPlaced
<1>4. CASE verdict # Blocked
  <2> DEFINE home == hop.url = request.url /\ Home(sent, Len(sent))
             next == hop.target.url
             config == PrepareRedirectHop(hop.config, request.policy, hop.url, next,
                                          hop.target.status, verdict)
  <2>1. home \in BOOLEAN /\ (home => hop.url = request.url) /\ MayCarry(hop.config, home)
    BY <1>2
  <2> HIDE DEF home
  <2>2. config \in Configs /\ MayCarry(config, next = request.url /\ home) /\ Pinned(config, next)
    BY <1>2, <1>4, <2>1, Carried
  <2>3. MayCarry(config, next = request.url /\ Home(sent, Len(sent)))
    <3> HIDE DEF config
    <3> QED
      BY <2>2 DEF MayCarry, home
  <2>4. hop' = RawFetch(next, config, hop.hops + 1, hop.cross)
    BY <1>1, <1>4
  <2>5. hop.hops + 1 \in 0..MaxRedirects + 1 /\ hop.cross \in 0..MaxCrossHostHops
    BY <1>2
  <2> HIDE DEF config, next
  <2>6. next \in Urls /\ Crossings(sent, next) <= hop.cross
    BY <1>2 DEF next
  <2> QED
    BY <1>2, <2>2, <2>3, <2>4, <2>5, <2>6, HopFetched
<1> QED
  BY <1>3, <1>4

\* Every step over HTTP/1.1 keeps the invariant.
LEMMA FetcherKept ==
    ASSUME TransportIInv, call = "http1", FetcherNext, UNCHANGED <<h2Vars, call, abortedAt>>
    PROVE  TransportIInv'
<1>1. /\ body \in [got: 0..MaxChunks, complete: BOOLEAN] /\ MaxChunks \in Nat
      /\ body = [got |-> body.got, complete |-> body.complete]
      /\ file \in [stream: {"none", "opening", "open"}, tracked: BOOLEAN, onDisk: BOOLEAN]
      /\ file = [stream |-> file.stream, tracked |-> file.tracked, onDisk |-> file.onDisk]
      /\ closed \in BOOLEAN
      /\ hop.place \in {"body", "writing"} => Len(sent) = hop.hops + 1
      /\ hop.place \in {"writing", "ok"} /\ request.verifyLength => body.complete
      /\ file.stream # "none" \/ file.onDisk => file.tracked \/ closed
  BY FetcherAssumption DEF TransportIInv, TransportTypeOK, FetcherTypeOK, HopSound, BodySound
<1>2. CASE Connects
  BY <1>2, Sends
<1>3. CASE HopPrepared
  BY <1>3, Prepares
<1>4. CASE Responds
  <2>1. hop.place = "waiting" /\ Len(sent) = hop.hops + 1
        /\ UNCHANGED <<request, file, dns, aborted, closed, sent>>
    BY <1>4 DEF Responds, Responding
  <2>2. CASE Finish("ok") /\ body' = [got |-> 0, complete |-> TRUE]
    <3> DEFINE yes == TRUE
    <3>1. body' = [got |-> 0, complete |-> yes] /\ yes \in BOOLEAN /\ yes
      BY <2>2
    <3> HIDE DEF yes
    <3>2. body' \in [got: 0..MaxChunks, complete: BOOLEAN] /\ body'.complete
      BY <1>1, <3>1
    <3> QED
      BY <2>1, <2>2, <3>2, HopPlaced DEF Finish, Listening
  <2>3. CASE Finish("failed") /\ UNCHANGED body
    BY <1>1, <2>1, <2>3, HopPlaced DEF Finish, Listening
  <2>4. CASE Finish("body") /\ body' = NoBody
    <3> DEFINE no == FALSE
    <3>1. body' = [got |-> 0, complete |-> no] /\ no \in BOOLEAN
      BY <2>4 DEF NoBody
    <3> HIDE DEF no
    <3>2. body' \in [got: 0..MaxChunks, complete: BOOLEAN]
      BY <1>1, <3>1
    <3> QED
      BY <2>1, <2>4, <3>2, HopPlaced DEF Finish, Listening
  <2> QED
    BY <1>4, <2>2, <2>3, <2>4 DEF Responds
<1>5. CASE Chunk
  <2> DEFINE more == body.got + 1
             yes == TRUE
             no == FALSE
  <2>1. more \in 0..MaxChunks
    BY <1>1, <1>5 DEF Chunk
  <2>2. body' = [body EXCEPT !.got = more] /\ yes \in BOOLEAN /\ no \in BOOLEAN /\ yes
        /\ (file' = [stream |-> "opening", tracked |-> yes, onDisk |-> no] \/ file' = file)
        /\ UNCHANGED <<request, hop, dns, aborted, closed, sent>>
        /\ hop.place = "body"
    BY <1>5 DEF Chunk
  <2> HIDE DEF more, yes, no
  <2>3. body' \in [got: 0..MaxChunks, complete: BOOLEAN]
    BY <1>1, <2>1, <2>2
  <2>4. file' \in [stream: {"none", "opening", "open"}, tracked: BOOLEAN, onDisk: BOOLEAN]
        /\ (file'.stream # "none" \/ file'.onDisk => file'.tracked \/ closed)
    <3>1. CASE file' = file
      BY <1>1, <3>1
    <3>2. CASE file' = [stream |-> "opening", tracked |-> yes, onDisk |-> no]
      <4>1. file'.tracked = yes
        BY <3>2
      <4>2. file' \in [stream: {"none", "opening", "open"}, tracked: BOOLEAN, onDisk: BOOLEAN]
        BY <2>2, <3>2
      <4> QED
        BY <2>2, <4>1, <4>2
    <3> QED
      BY <2>2, <3>1, <3>2
  <2>5. closed' \in BOOLEAN /\ closed' = closed
    BY <1>1, <2>2
  <2> QED
    BY <2>2, <2>3, <2>4, <2>5, HopStays
<1>6. CASE FileOpens
  <2> DEFINE yes == TRUE
  <2>1. file.stream = "opening" /\ yes \in BOOLEAN
        /\ file' = [[file EXCEPT !.stream = "open"] EXCEPT !.onDisk = yes]
    BY <1>6, Zenon DEF FileOpens
  <2>2. UNCHANGED <<request, hop, body, dns, aborted, closed, sent>>
    BY <1>6 DEF FileOpens
  <2> HIDE DEF yes
  <2>3. file' = [stream |-> "open", tracked |-> file.tracked, onDisk |-> yes]
    BY <1>1, <2>1
  <2>4. file' \in [stream: {"none", "opening", "open"}, tracked: BOOLEAN, onDisk: BOOLEAN]
        /\ file'.tracked = file.tracked
    BY <1>1, <2>1, <2>3
  <2> QED
    BY <1>1, <2>1, <2>2, <2>4, HopStays
<1>7. CASE CloseFetcher
  <2> DEFINE no == FALSE
  <2>1. no \in BOOLEAN
        /\ file' = [[file EXCEPT !.tracked = no] EXCEPT !.onDisk = no]
    BY <1>7, Zenon DEF CloseFetcher
  <2>2. UNCHANGED <<request, hop, body, dns, aborted, sent>> /\ closed' \in BOOLEAN /\ closed'
    BY <1>7 DEF CloseFetcher
  <2> HIDE DEF no
  <2>3. file' = [stream |-> file.stream, tracked |-> no, onDisk |-> no]
    BY <1>1, <2>1
  <2>4. file' \in [stream: {"none", "opening", "open"}, tracked: BOOLEAN, onDisk: BOOLEAN]
    BY <1>1, <2>1, <2>3
  <2> QED
    BY <1>1, <2>2, <2>4, HopStays
<1>8. CASE BodyEnds
  <2> DEFINE yes == TRUE
  <2>1. body' = [body EXCEPT !.complete = yes] /\ yes \in BOOLEAN /\ yes
        /\ hop.place = "body" /\ UNCHANGED <<request, file, dns, aborted, closed, sent>>
        /\ (Finish("ok") \/ Finish("writing"))
    BY <1>8 DEF BodyEnds, Consumed
  <2> HIDE DEF yes
  <2>2. body' \in [got: 0..MaxChunks, complete: BOOLEAN] /\ body'.complete
    BY <1>1, <2>1
  <2> QED
    BY <1>1, <2>1, <2>2, HopPlaced DEF Finish, Listening
<1>9. CASE BodyCut
  <2>1. /\ hop.place = "body" /\ UNCHANGED <<request, body, file, dns, aborted, closed, sent>>
        /\ \/ Finish("failed")
           \/ ~request.verifyLength /\ (Finish("ok") \/ Finish("writing"))
    BY <1>9 DEF BodyCut, Consumed
  <2> QED
    BY <1>1, <2>1, HopPlaced DEF Finish, Listening
<1>10. CASE Written
  BY <1>1, <1>10, HopPlaced DEF Written, Finish, Listening
<1>11. CASE StreamFails \/ TimerFires \/ NetworkFails
  <2>1. Finish("failed") /\ UNCHANGED <<request, body, file, dns, aborted, closed, sent>>
    BY <1>11 DEF StreamFails, TimerFires, NetworkFails
  <2> QED
    BY <1>1, <2>1, HopPlaced DEF Finish
<1>12. ASSUME NEW status \in {"moved", "kept"}, NEW next \in Urls, Redirects(status, next)
       PROVE  TransportIInv'
  BY <1>12, Redirected
<1> QED
  BY <1>2, <1>3, <1>4, <1>5, <1>6, <1>7, <1>8, <1>9, <1>10, <1>11, <1>12 DEF FetcherNext

-----------------------------------------------------------------------------
(* HTTP/2. *)

\* What settling the promise of hop k does to the stack: promises are settled once, and
\* nothing else changes than listeners that are over.
LEMMA SettledStack ==
    ASSUME NEW stack \in Seq(FrameType), NEW k \in DOMAIN stack, stack[k].promise = "pending",
           NEW promise \in Promises \ {"pending"}, NEW after, after = Settle2(stack, k, promise)
    PROVE  /\ after \in Seq(FrameType) /\ Len(after) = Len(stack)
           /\ after[k].promise = promise
           /\ \A j \in DOMAIN stack :
                 /\ after[j].url = stack[j].url /\ after[j].config = stack[j].config
                 /\ after[j].target = stack[j].target
                 /\ after[j].listener \in {stack[j].listener, "over"}
                 /\ after[j].promise \in {stack[j].promise, promise}
                 /\ stack[j].promise # "pending" => after[j].promise = stack[j].promise
<1> DEFINE settled == IF promise = "ok" THEN Awaiting(stack, k) ELSE {k}
           resumed == {j \in 1..k - 1 : stack[j].listener = "awaiting" /\ j + 1 \in settled}
           P(j) == IF j \in settled THEN promise ELSE stack[j].promise
           L(j) == IF j \in resumed THEN "over" ELSE stack[j].listener
<1>1. Len(stack) \in Nat /\ DOMAIN stack = 1..Len(stack) /\ k \in Nat
  OBVIOUS
<1>2. after = [j \in DOMAIN stack |-> [stack[j] EXCEPT !.promise = P(j), !.listener = L(j)]]
  BY Zenon DEF Settle2
<1>3. k \in settled /\ \A j \in settled : j = k \/ stack[j].promise = "pending"
  <2>1. k \in Awaiting(stack, k)
    BY <1>1 DEF Awaiting
  <2>2. \A j \in Awaiting(stack, k) : j = k \/ stack[j].promise = "pending"
    <3> SUFFICES ASSUME NEW j \in Awaiting(stack, k), j # k PROVE stack[j].promise = "pending"
      OBVIOUS
    <3>1. j \in 1..k /\ j \in j..k - 1
      BY <1>1 DEF Awaiting
    <3> QED
      BY <3>1 DEF Awaiting
  <2> QED
    BY <2>1, <2>2
<1> HIDE DEF settled, resumed
<1>4. ASSUME NEW j \in DOMAIN stack
      PROVE  /\ after[j] \in FrameType
             /\ after[j].url = stack[j].url /\ after[j].config = stack[j].config
             /\ after[j].target = stack[j].target
             /\ after[j].listener = L(j) /\ after[j].promise = P(j)
  <2>1. /\ stack[j] \in FrameType /\ P(j) \in Promises
        /\ L(j) \in {"streaming", "preparing", "awaiting", "over"}
    <3>1. stack[j] \in FrameType
      OBVIOUS
    <3>2. stack[j].promise \in Promises
          /\ stack[j].listener \in {"streaming", "preparing", "awaiting", "over"}
      BY <3>1 DEF FrameType
    <3> QED
      BY <3>1, <3>2
  <2>2. after[j] = [stack[j] EXCEPT !.promise = P(j), !.listener = L(j)]
    BY <1>2
  <2> HIDE DEF P, L
  <2>3. after[j] = [url |-> stack[j].url, config |-> stack[j].config, promise |-> P(j),
                    listener |-> L(j), target |-> stack[j].target]
    <3>1. PICK frame \in FrameType : frame = stack[j]
      BY <2>1
    <3>2. PICK q : q = P(j)
      OBVIOUS
    <3>3. PICK m : m = L(j)
      OBVIOUS
    <3> DEFINE mid == [url |-> frame.url, config |-> frame.config, promise |-> q,
                       listener |-> frame.listener, target |-> frame.target]
    <3>4. after[j] = [[frame EXCEPT !.promise = q] EXCEPT !.listener = m]
      BY <2>2, <3>1, <3>2, <3>3, Zenon
    <3>5. [frame EXCEPT !.promise = q] = mid
      <4>1. frame = [url |-> frame.url, config |-> frame.config, promise |-> frame.promise,
                     listener |-> frame.listener, target |-> frame.target]
        BY DEF FrameType
      <4> QED
        BY <4>1
    <3>6. [mid EXCEPT !.listener = m] =
             [url |-> frame.url, config |-> frame.config, promise |-> q, listener |-> m,
              target |-> frame.target]
      OBVIOUS
    <3> HIDE DEF mid
    <3>7. after[j] = [url |-> frame.url, config |-> frame.config, promise |-> q, listener |-> m,
                      target |-> frame.target]
      BY <3>4, <3>5, <3>6, Zenon
    <3> QED
      BY <3>1, <3>2, <3>3, <3>7
  <2> QED
    BY <2>1, <2>3 DEF FrameType
<1>5. after \in Seq(FrameType) /\ Len(after) = Len(stack)
  <2>1. after \in [1..Len(stack) -> FrameType]
    <3> HIDE DEF P, L
    <3> QED
      BY <1>1, <1>2, <1>4
  <2> QED
    BY <1>1, <2>1
<1>6. P(k) = promise /\ \A j \in DOMAIN stack :
         /\ L(j) \in {stack[j].listener, "over"} /\ P(j) \in {stack[j].promise, promise}
         /\ stack[j].promise # "pending" => P(j) = stack[j].promise
  BY <1>3
<1> HIDE DEF P, L
<1> QED
  BY <1>4, <1>5, <1>6

\* A stack of the same hops is as sound as it was, when its top is.
LEMMA StackMoved ==
    ASSUME TransportIInv, request' = request, frames' \in Seq(FrameType), Len(frames') = Len(frames),
           \A k \in DOMAIN frames : /\ frames'[k].url = frames[k].url
                                    /\ frames'[k].config = frames[k].config,
           sent2' \in Seq([url: Urls, config: Configs]), Len(sent2') \in {Top - 1, Top},
           \A k \in DOMAIN sent2' : /\ sent2'[k].url = frames[k].url
                                    /\ sent2'[k].config = frames[k].config,
           cross2' \in 0..MaxCrossHostHops + 1, cross2' >= cross2, unhandled' \in BOOLEAN,
           Top > 0 /\ (frames'[Top].promise = "pending" \/ frames'[Top].listener = "preparing") =>
              cross2' <= MaxCrossHostHops,
           Top > 0 /\ frames'[Top].listener = "preparing" =>
              /\ Len(sent2') = Top /\ frames'[Top].target \in Target
              /\ Crossings(frames, frames'[Top].target.url) <= cross2'
    PROVE  StackSound' /\ Http2TypeOK'
<1>0. PICK n \in Nat : n = Len(frames)
  BY DEF TransportIInv, StackSound
<1>1. /\ frames \in Seq(FrameType) /\ DOMAIN frames = 1..n /\ n <= MaxRedirects + 1
      /\ DOMAIN frames' = 1..n /\ Len(frames') = n /\ Top = n /\ Top' = n
      /\ MaxRedirects \in Nat /\ MaxCrossHostHops \in Nat
      /\ cross2 \in 0..MaxCrossHostHops + 1
  BY <1>0, FetcherAssumption DEF TransportIInv, StackSound, Top, TransportTypeOK, Http2TypeOK
<1>2. /\ Changes(frames') = Changes(frames)
      /\ \A url : Crossings(frames', url) = Crossings(frames, url)
  BY <1>1, ChangesOfUrls
<1>3. /\ Cardinality(Changes(frames)) <= MaxCrossHostHops /\ Cardinality(Changes(frames)) <= cross2
      /\ Cardinality(Changes(frames)) \in Nat
      /\ \A k \in 1..n : MayCarry(frames[k].config, Home(frames, k))
  BY <1>1, ChangesCounted DEF TransportIInv, StackSound
<1>4. ASSUME NEW k \in 1..n PROVE MayCarry(frames[k].config, Home(frames, k))'
  <2>1. \A j \in 1..k : j \in 1..n
    BY <1>1
  <2>2. Home(frames, k)' <=> Home(frames, k)
    BY <1>1, <2>1 DEF Home
  <2>3. MayCarry(frames[k].config, Home(frames, k))
    BY <1>3
  <2> QED
    BY <1>1, <2>2, <2>3 DEF MayCarry
<1>5. Changes(frames)' = Changes(frames)
      /\ \A url : Crossings(frames, url)' = Crossings(frames, url)
  <2>1. Changes(frames)' = Changes(frames')
    BY DEF Changes
  <2>2. \A url : Crossings(frames, url)' = Crossings(frames', url)
    BY DEF Crossings, Changes
  <2> QED
    BY <1>2, <2>1, <2>2
<1>6. Cardinality(Changes(frames)')  <= MaxCrossHostHops /\ Cardinality(Changes(frames)') <= cross2'
  BY <1>1, <1>3, <1>5
<1>7. \A k \in DOMAIN sent2' : k \in 1..n
  <2>1. PICK m \in Nat : m = Len(sent2') /\ DOMAIN sent2' = 1..m
    OBVIOUS
  <2>2. m <= n
    BY <1>1, <2>1
  <2> QED
    BY <2>1, <2>2
<1>8. ASSUME Top' > 0, frames'[n].listener = "preparing"
      PROVE  /\ Len(sent2') = n /\ frames'[n].target \in Target
             /\ Crossings(frames, frames[Top].target.url)' <= cross2'
  BY <1>1, <1>5, <1>8
<1>9. StackSound'
  BY <1>1, <1>4, <1>6, <1>7, <1>8 DEF StackSound, IsPending
<1>10. Http2TypeOK'
  <2>1. \A k \in DOMAIN frames' : frames'[k] \in FrameType
    BY <1>1
  <2>2. Len(sent2') <= MaxRedirects + 1 /\ Len(frames') <= MaxRedirects + 2
    BY <1>1
  <2> QED
    BY <2>1, <2>2 DEF Http2TypeOK, FrameType
<1> QED
  BY <1>9, <1>10

\* The promise of the first hop, which is the caller's, is settled for good.
FirstKept == frames[1].promise # "pending" => frames'[1].promise = frames[1].promise

\* A step over HTTP/2 leaves HTTP/1.1 as it is, and the first hop what it is and was.
LEMMA OverHttp2 ==
    ASSUME TransportIInv, call = "http2", UNCHANGED <<fetcherVars, call, abortedAt>>,
           StackSound', Http2TypeOK', Len(frames') >= Len(frames),
           frames'[1].url = frames[1].url, frames'[1].config = frames[1].config,
           frames[1].promise # "pending" => frames'[1].promise = frames[1].promise,
           aborted => \A k \in DOMAIN frames' : frames'[k].promise # "pending"
    PROVE  TransportIInv' /\ FirstKept
<1>1. /\ UNCHANGED <<request, hop, body, file, dns, sent, aborted, closed, call, abortedAt>>
  BY DEF fetcherVars, hopVars
<1>2. frames # <<>> /\ frames \in Seq(FrameType) /\ frames' \in Seq(FrameType)
  BY DEF TransportIInv, FallBackSound, StackSound
<1>3. Len(frames) > 0 /\ frames' # <<>> /\ 1 \in DOMAIN frames
  BY <1>2
<1>4. TransportTypeOK'
  BY <1>1 DEF TransportIInv, TransportTypeOK, FetcherTypeOK
<1>5. HopTyped' /\ SentSound' /\ BodySound'
  BY <1>1 DEF TransportIInv, HopTyped, SentSound, BodySound, MayCarry, Home, Pinned, Guarded
<1>6. HopSound'
  BY <1>1 DEF TransportIInv, HopSound, MayCarry, Home, Pinned, Guarded, Changes, Crossings
<1>7. AbortSound'
  <2>1. abortedAt = "pending" => aborted /\ CallOutcome # "ok" /\ frames[1].promise # "pending"
    BY <1>3 DEF TransportIInv, AbortSound, IsPending
  <2>2. abortedAt = "pending" => CallOutcome' # "ok"
    BY <1>1, <2>1 DEF CallOutcome, FallsBack
  <2> QED
    BY <1>1, <2>1, <2>2 DEF TransportIInv, AbortSound, IsPending
<1>8. FallBackSound'
  BY <1>1, <1>2, <1>3 DEF TransportIInv, FallBackSound, Pinned, Guarded
<1> QED
  BY <1>4, <1>5, <1>6, <1>7, <1>8 DEF TransportIInv, FirstKept

\* A hop that fails or is answered keeps the invariant, whatever it crossed.
LEMMA Settling ==
    ASSUME TransportIInv, call = "http2", UNCHANGED <<fetcherVars, call, abortedAt, sent2>>,
           NEW k \in DOMAIN frames, IsPending(k), NEW promise \in Promises \ {"pending"},
           \/ frames' = Settle2(frames, k, promise)
           \/ k = Top /\ frames' = [Settle2(frames, k, promise) EXCEPT ![Top].listener = "over"],
           cross2' \in 0..MaxCrossHostHops + 1, cross2' >= cross2, unhandled' \in BOOLEAN,
           cross2' = cross2 \/ (k = Top /\ frames[Top].listener = "streaming")
    PROVE  TransportIInv' /\ FirstKept
<1>0. PICK n \in Nat : n = Len(frames) /\ n = Top
  BY DEF TransportIInv, StackSound, Top
<1>1. /\ frames \in Seq(FrameType) /\ DOMAIN frames = 1..n /\ n > 0
      /\ frames[k].promise = "pending" /\ request' = request /\ aborted' = aborted
      /\ sent2' = sent2
      /\ sent2 \in Seq([url: Urls, config: Configs]) /\ Len(sent2) \in {Top - 1, Top}
      /\ \A j \in DOMAIN sent2 : sent2[j].url = frames[j].url /\ sent2[j].config = frames[j].config
      /\ frames[n].promise = "pending" \/ frames[n].listener = "preparing" =>
            cross2 <= MaxCrossHostHops
      /\ frames[n].listener = "preparing" =>
            /\ Len(sent2) = n /\ frames[n].target \in Target
            /\ Crossings(frames, frames[n].target.url) <= cross2
  BY <1>0 DEF TransportIInv, StackSound, IsPending, fetcherVars, hopVars, Top
<1>2. PICK after : after = Settle2(frames, k, promise)
  OBVIOUS
<1>3. /\ after \in Seq(FrameType) /\ Len(after) = n /\ DOMAIN after = 1..n
      /\ after[k].promise = promise
      /\ \A j \in 1..n : /\ after[j].url = frames[j].url /\ after[j].config = frames[j].config
                         /\ after[j].target = frames[j].target
                         /\ after[j].listener \in {frames[j].listener, "over"}
                         /\ after[j].promise \in {frames[j].promise, promise}
                         /\ frames[j].promise # "pending" => after[j].promise = frames[j].promise
  BY <1>0, <1>1, <1>2, SettledStack
<1>4. /\ frames' \in Seq(FrameType) /\ Len(frames') = n /\ DOMAIN frames' = 1..n
      /\ \A j \in 1..n : /\ frames'[j].url = frames[j].url /\ frames'[j].config = frames[j].config
                         /\ frames'[j].target = frames[j].target
                         /\ frames'[j].listener \in {frames[j].listener, "over"}
                         /\ frames'[j].promise = after[j].promise
  <2>1. CASE frames' = after
    BY <1>3, <2>1
  <2>2. CASE k = n /\ frames' = [after EXCEPT ![n].listener = "over"]
    <3>1. n \in 1..n /\ after[n] \in FrameType
      BY <1>1, <1>3
    <3>2. PICK over : over = [after[n] EXCEPT !.listener = "over"]
      OBVIOUS
    <3>3. over \in FrameType /\ over.url = after[n].url /\ over.config = after[n].config
          /\ over.target = after[n].target /\ over.listener = "over"
          /\ over.promise = after[n].promise
      BY <3>1, <3>2 DEF FrameType
    <3>4. frames' = [after EXCEPT ![n] = over]
      BY <1>3, <2>2, <3>1, <3>2
    <3>5. /\ frames' \in Seq(FrameType) /\ Len(frames') = n /\ frames'[n] = over
          /\ \A j \in 1..n : j # n => frames'[j] = after[j]
      BY <1>3, <3>1, <3>3, <3>4
    <3> QED
      BY <1>3, <3>3, <3>5
  <2> QED
    BY <1>0, <1>2, <2>1, <2>2
<1>5. /\ k = n => frames'[n].promise # "pending"
      /\ frames'[n].promise = "pending" => frames[n].promise = "pending"
      /\ frames'[n].listener = "preparing" =>
            /\ frames[n].listener = "preparing" /\ frames'[n].target = frames[n].target
  BY <1>1, <1>3, <1>4
<1>6. frames'[n].promise = "pending" \/ frames'[n].listener = "preparing" => cross2' = cross2
  BY <1>0, <1>5
<1>7. StackSound' /\ Http2TypeOK'
  BY <1>0, <1>1, <1>4, <1>5, <1>6, StackMoved
<1>8. ~aborted
  BY <1>1 DEF TransportIInv, AbortSound, IsPending
<1>9. 1 \in 1..n
  BY <1>1
<1> QED
  BY <1>0, <1>1, <1>3, <1>4, <1>7, <1>8, <1>9, OverHttp2

\* A hop that fails.
LEMMA FrameFails ==
    ASSUME TransportIInv, call = "http2", UNCHANGED <<fetcherVars, call, abortedAt, sent2>>,
           NEW k \in DOMAIN frames, NEW why \in Failures, FailFrame(k, why),
           cross2' \in 0..MaxCrossHostHops + 1, cross2' >= cross2,
           cross2' = cross2 \/ (k = Top /\ frames[Top].listener = "streaming")
    PROVE  TransportIInv' /\ FirstKept
<1>1. why \in Promises \ {"pending"} /\ IsPending(k) /\ frames' = Settle2(frames, k, why)
  BY DEF FailFrame, Promises, Failures
<1>2. unhandled' \in BOOLEAN
  BY Zenon DEF FailFrame
<1> QED
  BY <1>1, <1>2, Settling

\* The top of the stack changes its listener, or goes to where it redirects.
LEMMA TopListens ==
    ASSUME TransportIInv, call = "http2", UNCHANGED <<fetcherVars, call, abortedAt, sent2>>, Top > 0,
           NEW r \in FrameType, frames' = [frames EXCEPT ![Top] = r],
           r.url = frames[Top].url, r.config = frames[Top].config, r.promise = frames[Top].promise,
           cross2' \in 0..MaxCrossHostHops + 1, cross2' >= cross2, unhandled' \in BOOLEAN,
           r.promise = "pending" \/ r.listener = "preparing" => cross2' <= MaxCrossHostHops,
           r.listener = "preparing" =>
              Len(sent2) = Top /\ r.target \in Target /\ Crossings(frames, r.target.url) <= cross2'
    PROVE  TransportIInv' /\ FirstKept
<1>0. PICK n \in Nat : n = Len(frames) /\ n = Top
  BY DEF TransportIInv, StackSound, Top
<1>1. /\ frames \in Seq(FrameType) /\ DOMAIN frames = 1..n /\ n > 0 /\ n \in 1..n
      /\ request' = request /\ aborted' = aborted /\ sent2' = sent2
      /\ sent2 \in Seq([url: Urls, config: Configs]) /\ Len(sent2) \in {Top - 1, Top}
      /\ \A j \in DOMAIN sent2 : sent2[j].url = frames[j].url /\ sent2[j].config = frames[j].config
  BY <1>0 DEF TransportIInv, StackSound, fetcherVars, hopVars, Top
<1>2. /\ frames' \in Seq(FrameType) /\ Len(frames') = n /\ DOMAIN frames' = 1..n
      /\ frames'[n] = r /\ \A j \in 1..n : j # n => frames'[j] = frames[j]
  BY <1>0, <1>1
<1>3. \A j \in 1..n : /\ frames'[j].url = frames[j].url /\ frames'[j].config = frames[j].config
                      /\ frames'[j].promise = frames[j].promise
  BY <1>0, <1>2
<1>4. StackSound' /\ Http2TypeOK'
  BY <1>0, <1>1, <1>2, <1>3, StackMoved
<1>5. aborted => \A j \in 1..n : frames'[j].promise # "pending"
  BY <1>1, <1>3 DEF TransportIInv, AbortSound, IsPending
<1>6. 1 \in 1..n
  BY <1>1
<1> QED
  BY <1>0, <1>1, <1>2, <1>3, <1>4, <1>5, <1>6, OverHttp2

\* A request leaves over HTTP/2.
LEMMA StreamsKept ==
    ASSUME TransportIInv, call = "http2", Streams, UNCHANGED <<fetcherVars, call, abortedAt>>
    PROVE  TransportIInv' /\ FirstKept
<1>0. PICK n \in Nat : n = Len(frames) /\ n = Top
  BY DEF TransportIInv, StackSound, Top
<1> DEFINE left == [url |-> frames[n].url, config |-> frames[n].config]
<1>1. /\ frames \in Seq(FrameType) /\ DOMAIN frames = 1..n /\ n > 0 /\ n \in 1..n /\ 1 \in 1..n
      /\ request' = request /\ aborted' = aborted /\ frames' = frames /\ cross2' = cross2
      /\ unhandled' = unhandled /\ unhandled \in BOOLEAN /\ cross2 \in 0..MaxCrossHostHops + 1
      /\ cross2 <= MaxCrossHostHops /\ frames[n].listener = "streaming"
      /\ sent2 \in Seq([url: Urls, config: Configs]) /\ Len(sent2) = n - 1
      /\ \A j \in DOMAIN sent2 : sent2[j].url = frames[j].url /\ sent2[j].config = frames[j].config
      /\ sent2' = Append(sent2, left)
  BY <1>0 DEF TransportIInv, StackSound, TransportTypeOK, Http2TypeOK, fetcherVars, hopVars, Streams, Top, IsPending
<1>2. left \in [url: Urls, config: Configs] /\ left.url = frames[n].url /\ left.config = frames[n].config
  <2>1. frames[n] \in FrameType
    BY <1>1
  <2> QED
    BY <2>1 DEF FrameType
<1> HIDE DEF left
<1>3. /\ sent2' \in Seq([url: Urls, config: Configs]) /\ Len(sent2') = n
      /\ DOMAIN sent2' = 1..n /\ sent2'[n] = left /\ DOMAIN sent2 = 1..n - 1
      /\ \A j \in 1..n - 1 : sent2'[j] = sent2[j]
  BY <1>1, <1>2
<1>4. \A j \in 1..n : j \in 1..n - 1 \/ j = n
  BY <1>1
<1>5. \A j \in DOMAIN sent2' : /\ sent2'[j].url = frames[j].url
                               /\ sent2'[j].config = frames[j].config
  BY <1>1, <1>2, <1>3, <1>4
<1>6. StackSound' /\ Http2TypeOK'
  <2>1. cross2 >= cross2
    BY <1>1, FetcherAssumption
  <2> QED
    BY <1>0, <1>1, <1>3, <1>5, <2>1, StackMoved
<1>7. aborted => \A j \in DOMAIN frames' : frames'[j].promise # "pending"
  BY <1>1 DEF TransportIInv, AbortSound, IsPending
<1>8. Len(frames') >= Len(frames)
  BY <1>0, <1>1
<1> QED
  BY <1>1, <1>6, <1>7, <1>8, OverHttp2

\* A redirect over HTTP/2 fails the hop where its crossings are used up, and otherwise asks.
LEMMA Redirected2 ==
    ASSUME TransportIInv, call = "http2", NEW status \in {"moved", "kept"}, NEW next \in Urls,
           Redirects2(status, next), UNCHANGED <<fetcherVars, call, abortedAt>>
    PROVE  TransportIInv' /\ FirstKept
<1>0. PICK n \in Nat : n = Len(frames) /\ n = Top
  BY DEF TransportIInv, StackSound, Top
<1>1. /\ frames \in Seq(FrameType) /\ DOMAIN frames = 1..n /\ n > 0 /\ n \in 1..n
      /\ frames[n].promise = "pending" /\ frames[n].listener = "streaming" /\ Len(sent2) = n
      /\ sent2' = sent2 /\ cross2' = Crossed(next) /\ frames[n] \in FrameType
      /\ MaxCrossHostHops \in Nat
      /\ cross2 \in 0..MaxCrossHostHops + 1 /\ cross2 <= MaxCrossHostHops
      /\ Cardinality(Changes(frames)) <= cross2 /\ Cardinality(Changes(frames)) \in Nat
  BY <1>0, ChangesCounted, FetcherAssumption
     DEF TransportIInv, StackSound, TransportTypeOK, Http2TypeOK, Redirects2, Ended, IsPending, Top
<1>2. /\ cross2' \in 0..MaxCrossHostHops + 1 /\ cross2' >= cross2
      /\ cross2' = cross2 + (IF next = frames[n].url THEN 0 ELSE 1)
  BY <1>0, <1>1 DEF Crossed
<1>3. CASE FailFrame(Top, "status")
  <2>1. "status" \in Failures
    BY DEF Failures
  <2> QED
    BY <1>0, <1>1, <1>2, <1>3, <2>1, FrameFails
<1>4. CASE ~(Crossed(next) > MaxCrossHostHops)
  <2> DEFINE target == [url |-> next, status |-> status]
             r == [url |-> frames[n].url, config |-> frames[n].config, promise |-> frames[n].promise,
                   listener |-> "preparing", target |-> target]
  <2>1. target \in Target /\ target.url = next
    BY DEF Target
  <2> HIDE DEF target
  <2>2. /\ frames' = [[frames EXCEPT ![n].listener = "preparing"] EXCEPT ![n].target = target]
        /\ unhandled' = unhandled
    BY <1>0, <1>4, Zenon DEF Redirects2, target
  <2>3. r \in FrameType /\ r.url = frames[n].url /\ r.config = frames[n].config
        /\ r.promise = frames[n].promise /\ r.target = target
    BY <1>1, <2>1 DEF FrameType
  <2>4. frames' = [frames EXCEPT ![n] = r]
    <3> DEFINE mid == [url |-> frames[n].url, config |-> frames[n].config,
                       promise |-> frames[n].promise, listener |-> "preparing",
                       target |-> frames[n].target]
    <3>1. [frames EXCEPT ![n].listener = "preparing"] = [frames EXCEPT ![n] = mid]
      <4>1. [frames[n] EXCEPT !.listener = "preparing"] = mid
        BY <1>1 DEF FrameType
      <4>2. [frames EXCEPT ![n].listener = "preparing"] =
               [frames EXCEPT ![n] = [frames[n] EXCEPT !.listener = "preparing"]]
        BY <1>1
      <4> QED
        BY <4>1, <4>2
    <3>2. [mid EXCEPT !.target = target] = r
      OBVIOUS
    <3> HIDE DEF mid, r
    <3>3. [[frames EXCEPT ![n] = mid] EXCEPT ![n].target = target] = [frames EXCEPT ![n] = r]
      BY <1>1, <3>2
    <3> QED
      BY <2>2, <3>1, <3>3
  <2> HIDE DEF r
  <2>5. Crossings(frames, next) <= cross2' /\ cross2' <= MaxCrossHostHops
    BY <1>0, <1>1, <1>2, <1>4 DEF Crossings
  <2>6. unhandled' \in BOOLEAN
    BY <2>2 DEF TransportIInv, TransportTypeOK, Http2TypeOK
  <2> QED
    BY <1>0, <1>1, <1>2, <2>1, <2>3, <2>4, <2>5, <2>6, TopListens
<1> QED
  BY <1>3, <1>4 DEF Redirects2

\* The guard has answered over HTTP/2: the next hop is on top, or the listener is over.
LEMMA Prepares2 ==
    ASSUME TransportIInv, call = "http2", Prepared2, UNCHANGED <<fetcherVars, call, abortedAt>>
    PROVE  TransportIInv' /\ FirstKept
<1>0. PICK n \in Nat : n = Len(frames) /\ n = Top
  BY DEF TransportIInv, StackSound, Top
<1> DEFINE from == frames[n]
           url == from.target.url
           Config2(verdict) == PrepareRedirectHop(from.config, request.policy, from.url, url,
                                                  from.target.status, verdict)
<1>1. /\ frames \in Seq(FrameType) /\ DOMAIN frames = 1..n /\ n > 0 /\ n \in 1..n
      /\ from.listener = "preparing" /\ Len(sent2) = n /\ from.target \in Target
      /\ sent2 \in Seq([url: Urls, config: Configs])
      /\ sent2' = sent2 /\ cross2' = cross2 /\ from \in FrameType
      /\ MaxCrossHostHops \in Nat /\ MaxRedirects \in Nat
      /\ cross2 \in 0..MaxCrossHostHops + 1 /\ cross2 <= MaxCrossHostHops
      /\ Crossings(frames, url) <= cross2
      /\ request' = request /\ aborted' = aborted
  BY <1>0, FetcherAssumption
     DEF TransportIInv, StackSound, TransportTypeOK, Http2TypeOK, Prepared2, Top, fetcherVars, hopVars
<1>2. url \in Urls /\ from.url \in Urls /\ from.config \in Configs
  BY <1>1 DEF FrameType, Target
<1>3. PICK verdict \in HopVerdicts(request.policy, url) :
         LET next == Pushed(frames, n, Config2(verdict))
             refused == verdict = Blocked \/ next.promise # "pending"
         IN  /\ frames' = IF refused THEN [frames EXCEPT ![n].listener = "over"]
                          ELSE Append([frames EXCEPT ![n].listener = "awaiting"], next)
             /\ unhandled' = (unhandled \/ refused)
  BY <1>0, Zenon DEF Prepared2
<1> DEFINE config == Config2(verdict)
           next == Pushed(frames, n, config)
           refused == verdict = Blocked \/ next.promise # "pending"
<1>4. unhandled' \in BOOLEAN
  BY <1>3, Zenon
<1>5. ASSUME NEW listener \in {"over", "awaiting"}
      PROVE  LET r == [url |-> from.url, config |-> from.config, promise |-> from.promise,
                       listener |-> listener, target |-> from.target]
             IN  /\ r \in FrameType
                 /\ [frames EXCEPT ![n].listener = listener] = [frames EXCEPT ![n] = r]
  <2> DEFINE r == [url |-> from.url, config |-> from.config, promise |-> from.promise,
                   listener |-> listener, target |-> from.target]
  <2>1. [from EXCEPT !.listener = listener] = r /\ r \in FrameType
    BY <1>1 DEF FrameType
  <2>2. [frames EXCEPT ![n].listener = listener] =
           [frames EXCEPT ![n] = [from EXCEPT !.listener = listener]]
    BY <1>1
  <2> QED
    BY <2>1, <2>2
<1>6. CASE refused
  <2> DEFINE r == [url |-> from.url, config |-> from.config, promise |-> from.promise,
                   listener |-> "over", target |-> from.target]
  <2>1. frames' = [frames EXCEPT ![n] = r] /\ r \in FrameType
    BY <1>3, <1>5, <1>6
  <2>2. r.url = from.url /\ r.config = from.config /\ r.promise = from.promise
        /\ r.listener = "over"
    OBVIOUS
  <2>3. cross2' >= cross2 /\ cross2' \in 0..MaxCrossHostHops + 1 /\ cross2' <= MaxCrossHostHops
    BY <1>1
  <2> HIDE DEF r, from
  <2>4. from.url = frames[Top].url /\ from.config = frames[Top].config
        /\ from.promise = frames[Top].promise
    BY <1>0 DEF from
  <2> QED
    BY <1>0, <1>1, <1>4, <2>1, <2>2, <2>3, <2>4, TopListens
<1>7. CASE ~refused
  <2> DEFINE home == Home(frames, n)
  <2>1. home \in BOOLEAN /\ (home => from.url = request.url) /\ MayCarry(from.config, home)
    <3>1. MayCarry(from.config, home)
      BY <1>1 DEF TransportIInv, StackSound
    <3>2. home => from.url = request.url
      BY <1>1 DEF Home
    <3>3. home \in BOOLEAN
      BY DEF Home
    <3> QED
      BY <3>1, <3>2, <3>3
  <2> HIDE DEF home
  <2>2. config \in Configs /\ MayCarry(config, url = request.url /\ home)
    BY <1>2, <1>7, <2>1, Carried
  <2>3. frames' = Append([frames EXCEPT ![n].listener = "awaiting"], next)
    BY <1>3, <1>7
  <2> HIDE DEF config
  <2>4. /\ next = [url |-> url, config |-> config, promise |-> "pending", listener |-> "streaming",
                   target |-> None]
        /\ ~aborted /\ n <= MaxRedirects
    <3> DEFINE promise == IF aborted THEN "CANCELED" ELSE "pending"
               frame == [url |-> url, config |-> config, promise |-> promise,
                         listener |-> "streaming", target |-> None]
    <3>1. next = IF n > MaxRedirects THEN [frame EXCEPT !.promise = "other"] ELSE frame
      BY DEF Pushed, Frame
    <3>2. next.promise = "pending"
      BY <1>7
    <3>3. ~(n > MaxRedirects)
      <4>1. n > MaxRedirects => next.promise = "other"
        <5>1. [frame EXCEPT !.promise = "other"].promise = "other"
          <6> HIDE DEF promise
          <6> QED
            OBVIOUS
        <5> QED
          BY <3>1, <5>1
      <4> QED
        BY <3>2, <4>1
    <3>4. frame.promise = promise
      OBVIOUS
    <3>5. ~aborted
      BY <3>1, <3>2, <3>3, <3>4
    <3> QED
      BY <1>0, <1>1, <3>1, <3>3, <3>5
  <2> HIDE DEF next
  <2>5. next \in FrameType /\ next.url = url /\ next.config = config /\ next.promise = "pending"
        /\ next.listener = "streaming"
    BY <1>2, <2>2, <2>4 DEF FrameType, Promises
  <2> DEFINE r == [url |-> from.url, config |-> from.config, promise |-> from.promise,
                   listener |-> "awaiting", target |-> from.target]
             stack == [frames EXCEPT ![n] = r]
  <2>6. frames' = Append(stack, next) /\ r \in FrameType
    BY <1>5, <2>3
  <2>7. r.url = from.url /\ r.config = from.config /\ r.promise = from.promise
    OBVIOUS
  <2> HIDE DEF r, from, url, refused
  <2>8. /\ stack \in Seq(FrameType) /\ Len(stack) = n /\ stack[n] = r
        /\ \A j \in 1..n : j # n => stack[j] = frames[j]
    BY <1>0, <1>1, <2>6
  <2>9. \A j \in 1..n : stack[j].url = frames[j].url /\ stack[j].config = frames[j].config
                        /\ stack[j].promise = frames[j].promise
    BY <2>7, <2>8 DEF from
  <2> HIDE DEF stack
  <2>10. /\ frames' \in Seq(FrameType) /\ Len(frames') = n + 1 /\ DOMAIN frames' = 1..n + 1
        /\ frames'[n + 1] = next /\ \A j \in 1..n : frames'[j] = stack[j]
    BY <2>5, <2>6, <2>8
  <2>11. Cardinality(Changes(frames)') <= cross2
    <3>1. Cardinality(Changes(frames')) = Crossings(stack, url)
      BY <2>5, <2>6, <2>8, ChangesCounted
    <3>2. Crossings(stack, url) = Crossings(frames, url)
      BY <1>0, <1>1, <2>8, <2>9, ChangesOfUrls
    <3>3. Changes(frames)' = Changes(frames')
      BY DEF Changes
    <3> QED
      BY <1>1, <3>1, <3>2, <3>3
  <2>12. \A k \in 1..n + 1 : MayCarry(frames[k].config, Home(frames, k))'
    <3> SUFFICES ASSUME NEW k \in 1..n + 1 PROVE MayCarry(frames[k].config, Home(frames, k))'
      OBVIOUS
    <3>1. CASE k \in 1..n
      <4>1. \A j \in 1..k : j \in 1..n
        BY <3>1
      <4>2. Home(frames, k)' <=> Home(frames, k)
        BY <1>1, <2>9, <2>10, <4>1 DEF Home
      <4>3. MayCarry(frames[k].config, Home(frames, k))
        BY <1>1, <3>1 DEF TransportIInv, StackSound
      <4>4. frames'[k].config = frames[k].config
        BY <2>9, <2>10, <3>1
      <4> QED
        BY <1>1, <4>2, <4>3, <4>4 DEF MayCarry
    <3>2. CASE k = n + 1
      <4>1. \A j \in 1..n : j \in 1..n + 1
        BY <1>1
      <4>2. url = request.url /\ home => Home(frames, n + 1)'
        <5>1. \A j \in 1..n + 1 : j \in 1..n \/ j = n + 1
          BY <1>1
        <5> QED
          BY <1>1, <2>5, <2>9, <2>10, <5>1, ZenonT(40) DEF Home, home
      <4>3. frames'[k].config = config
        BY <2>5, <2>10, <3>2
      <4> QED
        BY <1>1, <2>2, <3>2, <4>2, <4>3 DEF MayCarry
    <3> QED
      BY <3>1, <3>2
  <2>13. \A j \in DOMAIN sent2 : /\ sent2'[j].url = frames'[j].url
                                 /\ sent2'[j].config = frames'[j].config
    <3>1. \A j \in DOMAIN sent2 : j \in 1..n
      BY <1>1
    <3>2. \A j \in DOMAIN sent2 : sent2[j].url = frames[j].url /\ sent2[j].config = frames[j].config
      BY DEF TransportIInv, StackSound
    <3> QED
      BY <1>1, <2>9, <2>10, <3>1, <3>2
  <2>14. StackSound'
    <3>1. Top' = n + 1 /\ n + 1 > 0
      BY <1>1, <2>10 DEF Top
    <3>2. n + 1 <= MaxRedirects + 1
      BY <1>1, <2>4
    <3>3. Cardinality(Changes(frames)') <= MaxCrossHostHops /\ cross2' = cross2
          /\ Cardinality(Changes(frames)') <= cross2'
      <4>1. Cardinality(Changes(frames)') \in Nat
        <5>1. Cardinality(Changes(frames')) \in Nat
          BY <2>10, ChangesCounted
        <5> QED
          BY <5>1 DEF Changes
      <4> QED
        BY <1>1, <2>11, <4>1
    <3>4. Len(sent2') \in {Top' - 1, Top'} /\ sent2' \in Seq([url: Urls, config: Configs])
      BY <1>1, <3>1
    <3>5. frames'[Top'].listener = "streaming"
      BY <2>5, <2>10, <3>1
    <3> QED
      BY <1>1, <2>10, <2>12, <2>13, <3>1, <3>2, <3>3, <3>4, <3>5 DEF StackSound
  <2>15. Http2TypeOK'
    <3>1. \A k \in DOMAIN frames' : frames'[k] \in FrameType
      BY <2>10
    <3>2. Len(sent2') <= MaxRedirects + 1 /\ Len(frames') <= MaxRedirects + 2
      BY <1>1, <2>4, <2>10
    <3> QED
      BY <1>1, <1>4, <3>1, <3>2 DEF Http2TypeOK, FrameType
  <2>16. Len(frames') >= Len(frames) /\ 1 \in 1..n
    BY <1>0, <1>1, <2>10
  <2> QED
    BY <1>1, <2>4, <2>9, <2>10, <2>14, <2>15, <2>16, OverHttp2
<1> QED
  BY <1>6, <1>7

\* Every step over HTTP/2 keeps the invariant.
LEMMA Http2Kept ==
    ASSUME TransportIInv, call = "http2", Http2Next, UNCHANGED <<fetcherVars, call, abortedAt>>
    PROVE  TransportIInv' /\ FirstKept
<1>1. cross2 \in 0..MaxCrossHostHops + 1 /\ MaxCrossHostHops \in Nat /\ cross2 >= cross2
  BY FetcherAssumption DEF TransportIInv, TransportTypeOK, Http2TypeOK
<1>2. Top > 0 => Top \in DOMAIN frames
  BY DEF TransportIInv, StackSound, Top
<1>3. CASE Streams
  BY <1>3, StreamsKept
<1>4. CASE Answers
  <2>1. PICK promise \in {"ok", "status", "other"} :
           /\ frames' = [Settle2(frames, Top, promise) EXCEPT ![Top].listener = "over"]
           /\ unhandled' = (unhandled \/ (promise # "ok" /\ IsAwaited(Top)))
    BY <1>4 DEF Answers
  <2>2. promise \in Promises \ {"pending"}
    BY DEF Promises, Failures
  <2>3. unhandled' \in BOOLEAN
    BY <2>1, Zenon
  <2>4. Top > 0 /\ IsPending(Top) /\ cross2' = cross2 /\ sent2' = sent2
    BY <1>4 DEF Answers, Ended
  <2> QED
    BY <1>1, <1>2, <2>1, <2>2, <2>3, <2>4, Settling
<1>5. CASE Prepared2
  BY <1>5, Prepares2
<1>6. CASE StreamFails2
  <2>1. Top > 0 /\ FailFrame(Top, "other") /\ cross2' = cross2 /\ sent2' = sent2
        /\ "other" \in Failures
    BY <1>6 DEF StreamFails2, Failures
  <2> QED
    BY <1>1, <1>2, <2>1, FrameFails
<1>7. ASSUME NEW status \in {"moved", "kept"}, NEW next \in Urls, Redirects2(status, next)
      PROVE  TransportIInv' /\ FirstKept
  BY <1>7, Redirected2
<1>8. ASSUME NEW k \in 1..MaxRedirects + 1, Timeout2(k)
      PROVE  TransportIInv' /\ FirstKept
  <2>1. k \in DOMAIN frames /\ FailFrame(k, "TIMEOUT") /\ cross2' = cross2 /\ sent2' = sent2
        /\ "TIMEOUT" \in Failures
    BY <1>8 DEF Timeout2, Failures
  <2> QED
    BY <1>1, <2>1, FrameFails
<1> QED
  BY <1>3, <1>4, <1>5, <1>6, <1>7, <1>8 DEF Http2Next

-----------------------------------------------------------------------------
(* The call. *)

\* The config a call begins with, whose pin is the guard's verdict on its URL.
LEMMA FirstConfig ==
    ASSUME TransportIInv, NEW pin \in Pins \union {None},
           Guarded => /\ pin # None /\ pin.host = request.url.host /\ pin.address \notin Private,
           NEW config, config = [request.config EXCEPT !.lookup = pin]
    PROVE  /\ config \in Configs /\ config.lookup = pin /\ request.url \in Urls
           /\ MayCarry(config, TRUE) /\ Pinned(config, request.url)
<1>1. request.config \in Configs /\ request.url \in Urls
  BY FetcherAssumption DEF TransportIInv, TransportTypeOK, FetcherTypeOK
<1>2. /\ config = [method |-> request.config.method, body |-> request.config.body,
                   secret |-> request.config.secret, lookup |-> pin]
      /\ config \in Configs
  BY <1>1, PinIsSet
<1>3. config.lookup = pin /\ config.method = request.config.method
  BY <1>2
<1> QED
  BY <1>1, <1>2, <1>3 DEF MayCarry, Pinned

\* fetch() over HTTP/1.1, at first or when HTTP/2 has failed.
LEMMA Fetches ==
    ASSUME TransportIInv, call # "http1", call' = "http1", UNCHANGED <<h2Vars, abortedAt>>,
           NEW pin \in Pins \union {None}, StartFetch(pin),
           Guarded => /\ pin # None /\ pin.host = request.url.host /\ pin.address \notin Private,
           frames # <<>> => frames[1].promise = "other"
    PROVE  TransportIInv'
<1>1. PICK config : config = [request.config EXCEPT !.lookup = pin]
  OBVIOUS
<1>2. /\ config \in Configs /\ request.url \in Urls
      /\ MayCarry(config, TRUE) /\ Pinned(config, request.url)
  BY <1>1, FirstConfig
<1>3. hop' = RawFetch(request.url, config, 0, 0)
      /\ UNCHANGED <<request, body, file, dns, aborted, closed, sent>>
  BY <1>1 DEF StartFetch
<1>4. sent = <<>>
  BY DEF TransportIInv, HopSound
<1>5. Len(sent) = 0 /\ Crossings(sent, request.url) = 0
  BY <1>4, NoHops
<1>6. Home(sent, Len(sent))
  BY <1>5 DEF Home
<1>7. MayCarry(config, request.url = request.url /\ Home(sent, Len(sent)))
  BY <1>2, <1>6 DEF MayCarry
<1>8. 0 \in 0..MaxRedirects + 1 /\ 0 \in 0..MaxCrossHostHops /\ 0 <= 0
  BY FetcherAssumption
<1> QED
  BY <1>2, <1>3, <1>5, <1>7, <1>8, HopFetched

\* fetch() over HTTP/2.
LEMMA Fetches2 ==
    ASSUME TransportIInv, call # "http2", call' = "http2", UNCHANGED <<fetcherVars, abortedAt>>,
           ~request.proxy, call # "http1",
           NEW pin \in Pins \union {None}, StartHttp2(pin),
           Guarded => /\ pin # None /\ pin.host = request.url.host /\ pin.address \notin Private
    PROVE  TransportIInv'
<1>1. PICK config : config = [request.config EXCEPT !.lookup = pin]
  OBVIOUS
<1>2. /\ config \in Configs /\ config.lookup = pin /\ request.url \in Urls
      /\ MayCarry(config, TRUE) /\ Pinned(config, request.url)
  BY <1>1, FirstConfig
<1>3. PICK promise \in {"CANCELED", "pending"} : promise = IF aborted THEN "CANCELED" ELSE "pending"
  OBVIOUS
<1> DEFINE first == [url |-> request.url, config |-> config, promise |-> promise,
                     listener |-> "streaming", target |-> None]
<1>4. frames = <<>> /\ frames' = <<first>> /\ cross2' = cross2 /\ unhandled' = unhandled
      /\ sent2' = sent2
  BY <1>1, <1>3 DEF StartHttp2, Frame
<1>5. first \in FrameType /\ first.url = request.url /\ first.config = config
      /\ first.promise = promise /\ first.listener = "streaming"
  BY <1>2 DEF FrameType, Promises, Failures
<1> HIDE DEF first
<1>6. /\ frames' \in Seq(FrameType) /\ Len(frames') = 1 /\ DOMAIN frames' = {1} /\ frames'[1] = first
      /\ frames' # <<>>
  BY <1>4, <1>5
<1>7. /\ UNCHANGED <<request, hop, body, file, dns, sent, aborted, closed, abortedAt>>
      /\ call' = "http2"
  BY DEF fetcherVars, hopVars
<1>8. /\ Len(frames) = 0 /\ cross2 = 0 /\ Len(sent2) = 0 /\ DOMAIN sent2 = {}
      /\ sent2 \in Seq([url: Urls, config: Configs])
      /\ MaxRedirects \in Nat /\ MaxCrossHostHops \in Nat
  <2>1. Len(frames) = 0
    BY <1>4, NoHops
  <2>2. Len(sent2) = 0 /\ sent2 \in Seq([url: Urls, config: Configs])
    BY <2>1 DEF TransportIInv, StackSound, Top
  <2> QED
    BY <1>4, <2>1, <2>2, FetcherAssumption DEF TransportIInv, FallBackSound
<1>9. Cardinality(Changes(frames)') = 0
  <2>1. Changes(frames') = {}
    BY <1>6 DEF Changes
  <2>2. Changes(frames)' = Changes(frames')
    BY DEF Changes
  <2> QED
    BY <2>1, <2>2, FS_EmptySet
<1>10. \A k \in {1} : MayCarry(frames[k].config, Home(frames, k))'
  <2>1. Home(frames, 1)'
    BY <1>5, <1>6, <1>7 DEF Home
  <2> QED
    BY <1>2, <1>5, <1>6, <1>7, <2>1 DEF MayCarry
<1>11. StackSound'
  <2>1. Top' = 1
    BY <1>6 DEF Top
  <2>2. frames'[1].listener = "streaming" /\ cross2' = 0 /\ 1 <= MaxRedirects + 1
    BY <1>4, <1>5, <1>6, <1>8
  <2> QED
    BY <1>4, <1>6, <1>8, <1>9, <1>10, <2>1, <2>2 DEF StackSound
<1>12. TransportTypeOK'
  <2>1. FetcherTypeOK' /\ unhandled' \in BOOLEAN /\ cross2' \in 0..MaxCrossHostHops + 1
    BY <1>4, <1>7 DEF TransportIInv, TransportTypeOK, FetcherTypeOK, Http2TypeOK
  <2>2. \A k \in DOMAIN frames' : frames'[k] \in FrameType
    BY <1>5, <1>6
  <2>3. Len(frames') <= MaxRedirects + 2 /\ Len(sent2') <= MaxRedirects + 1
    BY <1>4, <1>6, <1>8
  <2>4. abortedAt' \in {None, "pending", "ok", "failed"}
    BY <1>7 DEF TransportIInv, TransportTypeOK
  <2> QED
    BY <1>7, <2>1, <2>2, <2>3, <2>4 DEF TransportTypeOK, Http2TypeOK, FrameType
<1>13. HopTyped' /\ SentSound' /\ BodySound'
  BY <1>7 DEF TransportIInv, HopTyped, SentSound, BodySound, MayCarry, Home, Pinned, Guarded
<1>14. HopSound'
  BY <1>7 DEF TransportIInv, HopSound, MayCarry, Home, Pinned, Guarded, Changes, Crossings
<1>15. AbortSound'
  <2>1. abortedAt' = "pending" => aborted'
    BY <1>7 DEF TransportIInv, AbortSound
  <2>2. aborted' => frames'[1].promise = "CANCELED"
    BY <1>3, <1>5, <1>6, <1>7
  <2>3. aborted' => CallOutcome' # "ok"
    BY <1>7, <2>2 DEF CallOutcome, FallsBack
  <2>4. hop'.place \notin Listening
    BY <1>7 DEF TransportIInv, HopSound, Listening
  <2> QED
    BY <1>6, <2>1, <2>2, <2>3, <2>4 DEF AbortSound, IsPending
<1>16. FallBackSound'
  <2>1. request' = request /\ frames'[1].url = request.url /\ frames'[1].config = config
    BY <1>5, <1>6, <1>7
  <2>2. config = [request.config EXCEPT !.lookup = config.lookup]
    BY <1>1, <1>2
  <2> QED
    BY <1>2, <1>6, <1>7, <2>1, <2>2 DEF FallBackSound, Pinned, Guarded
<1> QED
  BY <1>11, <1>12, <1>13, <1>14, <1>15, <1>16 DEF TransportIInv

\* The call goes on while neither protocol does.
LEMMA CallGoes ==
    ASSUME TransportIInv, call \in {"idle", "checking"}, call' \in {"checking", "blocked"},
           UNCHANGED <<fetcherVars, h2Vars, abortedAt>>
    PROVE  TransportIInv'
<1>1. UNCHANGED <<request, hop, body, file, dns, sent, aborted, closed, abortedAt>>
      /\ UNCHANGED <<request, h2Vars>> /\ UNCHANGED <<frames, cross2, unhandled, sent2>>
  BY DEF fetcherVars, hopVars, h2Vars
<1>2. StackSound' /\ Http2TypeOK'
  BY <1>1, StackLeft
<1>3. TransportTypeOK'
  BY <1>1, <1>2 DEF TransportIInv, TransportTypeOK, FetcherTypeOK
<1>4. HopTyped' /\ SentSound' /\ BodySound'
  BY <1>1 DEF TransportIInv, HopTyped, SentSound, BodySound, MayCarry, Home, Pinned, Guarded
<1>5. HopSound'
  BY <1>1 DEF TransportIInv, HopSound, MayCarry, Home, Pinned, Guarded, Changes, Crossings
<1>6. AbortSound'
  BY <1>1 DEF TransportIInv, AbortSound, IsPending, CallOutcome
<1>7. FallBackSound'
  BY <1>1 DEF TransportIInv, FallBackSound
<1> QED
  BY <1>2, <1>3, <1>4, <1>5, <1>6, <1>7 DEF TransportIInv

\* The signal of the call is aborted, over whichever protocol it is.
LEMMA Aborts == ASSUME TransportIInv, AbortCall
                PROVE  /\ TransportIInv'
                       /\ frames[1].promise # "pending" => frames'[1].promise = frames[1].promise
                       /\ frames[1].promise = "pending" /\ call = "http2" =>
                             frames'[1].promise = "CANCELED"
<1>0. PICK n \in Nat : n = Len(frames) /\ n = Top
  BY DEF TransportIInv, StackSound, Top
<1> DEFINE P(k) == IF IsPending(k) THEN "CANCELED" ELSE frames[k].promise
           L(k) == IF frames[k].listener = "awaiting" THEN "over" ELSE frames[k].listener
<1>1. /\ call # "idle" /\ ~aborted /\ aborted' = TRUE /\ abortedAt' = CallOutcome
      /\ UNCHANGED <<request, body, file, dns, closed, sent, call>>
      /\ UNCHANGED <<request, sent>>
      /\ cross2' = cross2 /\ sent2' = sent2
      /\ frames' = [k \in DOMAIN frames |-> [frames[k] EXCEPT !.promise = P(k), !.listener = L(k)]]
  BY Zenon DEF AbortCall, Aborted2
<1>2. unhandled' \in BOOLEAN
  BY Zenon DEF AbortCall, Aborted2
<1>3. /\ frames \in Seq(FrameType) /\ DOMAIN frames = 1..n
      /\ sent2 \in Seq([url: Urls, config: Configs]) /\ Len(sent2) \in {Top - 1, Top}
      /\ \A j \in DOMAIN sent2 : sent2[j].url = frames[j].url /\ sent2[j].config = frames[j].config
      /\ n > 0 /\ frames[n].listener = "preparing" =>
            /\ Len(sent2) = n /\ frames[n].target \in Target /\ cross2 <= MaxCrossHostHops
            /\ Crossings(frames, frames[n].target.url) <= cross2
      /\ cross2 \in 0..MaxCrossHostHops + 1 /\ MaxCrossHostHops \in Nat
  BY <1>0, FetcherAssumption DEF TransportIInv, StackSound, TransportTypeOK, Http2TypeOK, Top
<1>4. ASSUME NEW j \in 1..n
      PROVE  /\ frames'[j] \in FrameType
             /\ frames'[j].url = frames[j].url /\ frames'[j].config = frames[j].config
             /\ frames'[j].target = frames[j].target
             /\ frames'[j].listener = L(j) /\ frames'[j].promise = P(j)
  <2>1. PICK frame \in FrameType : frame = frames[j]
    BY <1>3
  <2>2. PICK q : q = P(j)
    OBVIOUS
  <2>3. PICK m : m = L(j)
    OBVIOUS
  <2>4. q \in Promises /\ m \in {"streaming", "preparing", "awaiting", "over"}
    BY <2>1, <2>2, <2>3 DEF FrameType, Promises, Failures
  <2>5. frames'[j] = [frames[j] EXCEPT !.promise = P(j), !.listener = L(j)]
    BY <1>1, <1>3
  <2> HIDE DEF P, L
  <2> DEFINE mid == [url |-> frame.url, config |-> frame.config, promise |-> q,
                     listener |-> frame.listener, target |-> frame.target]
  <2>6. frames'[j] = [[frame EXCEPT !.promise = q] EXCEPT !.listener = m]
    BY <2>1, <2>2, <2>3, <2>5, Zenon
  <2>7. [frame EXCEPT !.promise = q] = mid
    <3>1. frame = [url |-> frame.url, config |-> frame.config, promise |-> frame.promise,
                   listener |-> frame.listener, target |-> frame.target]
      BY DEF FrameType
    <3> QED
      BY <3>1
  <2>8. [mid EXCEPT !.listener = m] =
           [url |-> frame.url, config |-> frame.config, promise |-> q, listener |-> m,
            target |-> frame.target]
    OBVIOUS
  <2> HIDE DEF mid
  <2>9. frames'[j] = [url |-> frame.url, config |-> frame.config, promise |-> q, listener |-> m,
                      target |-> frame.target]
    BY <2>6, <2>7, <2>8, Zenon
  <2> QED
    BY <2>1, <2>2, <2>3, <2>4, <2>9 DEF FrameType
<1>5. frames' \in Seq(FrameType) /\ Len(frames') = n /\ DOMAIN frames' = 1..n
  <2> HIDE DEF P, L
  <2>1. frames' \in [1..n -> FrameType]
    BY <1>1, <1>3, <1>4
  <2> QED
    BY <2>1
<1>6. \A j \in 1..n : /\ frames'[j].promise # "pending"
                      /\ frames[j].promise # "pending" => frames'[j].promise = frames[j].promise
                      /\ frames[j].promise = "pending" => frames'[j].promise = "CANCELED"
                      /\ frames'[j].listener = "preparing" => frames[j].listener = "preparing"
  <2> SUFFICES ASSUME NEW j \in 1..n
               PROVE  /\ P(j) # "pending"
                      /\ frames[j].promise # "pending" => P(j) = frames[j].promise
                      /\ frames[j].promise = "pending" => P(j) = "CANCELED"
                      /\ L(j) = "preparing" => frames[j].listener = "preparing"
    <3> HIDE DEF P, L
    <3> QED
      BY <1>4
  <2> QED
    BY DEF IsPending
<1> HIDE DEF P, L
<1>7. StackSound' /\ Http2TypeOK'
  <2>1. /\ \A k \in DOMAIN frames : /\ frames'[k].url = frames[k].url
                                    /\ frames'[k].config = frames[k].config
        /\ request' = request /\ Len(frames') = Len(frames)
    BY <1>0, <1>1, <1>3, <1>4, <1>5
  <2>2. \A k \in DOMAIN sent2' : /\ sent2'[k].url = frames[k].url
                                 /\ sent2'[k].config = frames[k].config
    BY <1>1, <1>3
  <2>3. n > 0 => n \in 1..n
    OBVIOUS
  <2>4. n > 0 => frames'[n].promise # "pending"
    BY <1>6, <2>3
  <2>5. n > 0 /\ frames'[n].listener = "preparing" =>
           /\ Len(sent2') = n /\ frames'[n].target \in Target /\ cross2' <= MaxCrossHostHops
           /\ Crossings(frames, frames'[n].target.url) <= cross2'
    BY <1>1, <1>3, <1>4, <1>6, <2>3
  <2>6. PICK m \in Nat : m = cross2 /\ m \in 0..MaxCrossHostHops + 1
    BY <1>3
  <2>7. cross2' = m /\ m >= m
    <3>1. cross2' = m
      BY <1>1, <2>6, Zenon
    <3>2. m >= m
      OBVIOUS
    <3> QED
      BY <3>1, <3>2
  <2>8. cross2' \in 0..MaxCrossHostHops + 1 /\ cross2' >= cross2
    BY <2>6, <2>7
  <2>9. sent2' \in Seq([url: Urls, config: Configs]) /\ Len(sent2') \in {Top - 1, Top}
    BY <1>1, <1>3
  <2> QED
    BY <1>0, <1>2, <1>5, <2>1, <2>2, <2>4, <2>5, <2>8, <2>9, StackMoved
<1>8. n > 0 => 1 \in 1..n
  OBVIOUS
<1>9. PICK place \in Pending \union {"none", "ok", "failed"} :
         /\ place = IF hop.place \in Listening THEN "failed" ELSE hop.place
         /\ hop' = [place |-> place, url |-> hop.url, config |-> hop.config, hops |-> hop.hops,
                    cross |-> hop.cross, target |-> hop.target]
         /\ hop'.place = place /\ hop'.url = hop.url /\ hop'.config = hop.config
         /\ hop'.hops = hop.hops /\ hop'.cross = hop.cross /\ hop'.target = hop.target
  <2>1. hop = [place |-> hop.place, url |-> hop.url, config |-> hop.config, hops |-> hop.hops,
               cross |-> hop.cross, target |-> hop.target]
        /\ hop.place \in Pending \union {"none", "ok", "failed"}
    BY DEF TransportIInv, HopTyped, TransportTypeOK, FetcherTypeOK
  <2>2. CASE hop.place \in Listening
    <3>1. hop' = [hop EXCEPT !.place = "failed"]
      BY <2>2 DEF AbortCall, HopAborted, Finish
    <3> QED
      BY <2>1, <2>2, <3>1
  <2>3. CASE hop.place \notin Listening
    <3>1. hop' = hop
      BY <2>3 DEF AbortCall, HopAborted
    <3> QED
      BY <2>1, <2>3, <3>1
  <2> QED
    BY <2>2, <2>3
<1>10. TransportTypeOK'
  <2>1. abortedAt' \in {None, "pending", "ok", "failed"}
    <3>1. call \in {"checking", "blocked", "http2", "http1"}
      BY <1>1 DEF TransportIInv, TransportTypeOK
    <3>2. CASE call = "http1"
      BY <1>1, <3>2 DEF CallOutcome
    <3>3. CASE call = "http2"
      BY <1>1, <3>3 DEF CallOutcome
    <3>4. CASE call \in {"checking", "blocked"}
      BY <1>1, <3>4 DEF CallOutcome
    <3> QED
      BY <3>1, <3>2, <3>3, <3>4
  <2>2. aborted' \in BOOLEAN
    BY <1>1
  <2>3. FetcherTypeOK'
    BY <1>1, <1>9, <2>2 DEF TransportIInv, TransportTypeOK, FetcherTypeOK
  <2> QED
    BY <1>1, <1>7, <2>1, <2>3 DEF TransportIInv, TransportTypeOK
<1>11. HopTyped' /\ SentSound'
  BY <1>1, <1>9, SentLeft DEF TransportIInv, HopTyped
<1>12. HopSound'
  BY <1>1, <1>9
     DEF TransportIInv, HopSound, Listening, MayCarry, Home, Pinned, Guarded, Changes, Crossings
<1>13. BodySound'
  BY <1>1, <1>9 DEF TransportIInv, BodySound, Listening
<1>14. call = "http2" => n > 0 /\ frames \in Seq(FrameType)
  <2>1. call = "http2" => frames # <<>>
    BY DEF TransportIInv, FallBackSound
  <2>2. frames # <<>> => n > 0
    BY <1>0, <1>3
  <2> QED
    BY <1>3, <2>1, <2>2
<1>15. AbortSound'
  <2>1. hop'.place \notin Listening
    BY <1>9 DEF Listening
  <2>2. abortedAt' = "pending" => CallOutcome' # "ok"
    <3>1. CASE call = "http1"
      BY <1>1, <1>9, <3>1 DEF CallOutcome, Listening
    <3>2. CASE call = "http2"
      BY <1>1, <1>6, <1>8, <1>14, <3>2 DEF CallOutcome, FallsBack
    <3>3. CASE call \notin {"http1", "http2"}
      BY <1>1, <3>3 DEF CallOutcome
    <3> QED
      BY <3>1, <3>2, <3>3
  <2> QED
    BY <1>1, <1>5, <1>6, <2>1, <2>2 DEF AbortSound, IsPending
<1>16. FallBackSound'
  <2>1. frames' = <<>> <=> n = 0
    BY <1>5
  <2>2. frames = <<>> <=> n = 0
    BY <1>0, <1>3
  <2>3. n > 0 => /\ frames'[1].url = frames[1].url /\ frames'[1].config = frames[1].config
                 /\ frames[1].promise = "other" => frames'[1].promise = "other"
    BY <1>4, <1>6, <1>8
  <2>4. CASE frames = <<>>
    <3>1. n = 0 /\ frames' = <<>>
      BY <2>1, <2>2, <2>4
    <3> QED
      BY <1>1, <2>4, <3>1 DEF TransportIInv, FallBackSound
  <2>5. CASE frames # <<>>
    <3>1. n > 0 /\ frames' # <<>>
      BY <2>1, <2>2, <2>5
    <3>2. PICK url, config : /\ url = frames[1].url /\ url = frames'[1].url
                             /\ config = frames[1].config /\ config = frames'[1].config
      BY <2>3, <3>1
    <3>3. /\ call = "http2" \/ (call = "http1" /\ frames[1].promise = "other")
          /\ ~request.proxy
          /\ url = request.url /\ Pinned(config, request.url)
          /\ config = [request.config EXCEPT !.lookup = config.lookup]
      BY <2>5, <3>2, Zenon DEF TransportIInv, FallBackSound
    <3>4. /\ call' = "http2" \/ (call' = "http1" /\ frames'[1].promise = "other")
          /\ request' = request
      BY <1>1, <2>3, <3>1, <3>3
    <3>5. Pinned(config, request.url)'
      BY <3>3, <3>4 DEF Pinned, Guarded
    <3> QED
      BY <3>1, <3>2, <3>3, <3>4, <3>5, Zenon DEF FallBackSound
  <2> QED
    BY <2>4, <2>5
<1>17. /\ frames[1].promise # "pending" => frames'[1].promise = frames[1].promise
       /\ frames[1].promise = "pending" /\ call = "http2" => frames'[1].promise = "CANCELED"
  <2>1. CASE n > 0
    BY <1>6, <1>8, <2>1
  <2>2. CASE ~(n > 0)
    <3>1. frames' = frames
      BY <1>0, <1>3, <1>5, <2>2
    <3> QED
      BY <1>14, <2>2, <3>1
  <2> QED
    BY <2>1, <2>2
<1> QED
  BY <1>7, <1>10, <1>11, <1>12, <1>13, <1>15, <1>16, <1>17 DEF TransportIInv

\* Every step of a call keeps the invariant.
LEMMA TransportKept == TransportIInv /\ (TransportNext \/ UNCHANGED transportVars) => TransportIInv'
<1> SUFFICES ASSUME TransportIInv, TransportNext \/ UNCHANGED transportVars PROVE TransportIInv'
  OBVIOUS
<1>1. request.url \in Urls
  BY FetcherAssumption DEF TransportIInv, TransportTypeOK, FetcherTypeOK
<1>2. CASE Ask
  <2>1. call = "idle" /\ call' = "checking" /\ UNCHANGED <<fetcherVars, h2Vars, abortedAt>>
    BY <1>2 DEF Ask
  <2> QED
    BY <2>1, CallGoes
<1>3. CASE Checked
  <2>1. PICK verdict \in Verdicts(request.policy.guard, request.url) :
          \/ /\ verdict = Blocked /\ call' = "blocked"
             /\ UNCHANGED <<fetcherVars, h2Vars>>
          \/ /\ verdict # Blocked /\ UsesHttp2 /\ call' = "http2"
             /\ StartHttp2(verdict) /\ UNCHANGED fetcherVars
          \/ /\ verdict # Blocked /\ ~UsesHttp2 /\ call' = "http1"
             /\ StartFetch(verdict) /\ UNCHANGED h2Vars
    BY <1>3 DEF Checked
  <2>2. call = "checking" /\ UNCHANGED abortedAt
    BY <1>3 DEF Checked
  <2>3. frames = <<>>
    BY <2>2 DEF TransportIInv, FallBackSound
  <2>4. verdict # Blocked =>
           /\ verdict \in Pins \union {None}
           /\ Guarded => /\ verdict # None /\ verdict.host = request.url.host
                         /\ verdict.address \notin Private
    BY <1>1, VerdictPins DEF Guarded
  <2>5. CASE verdict = Blocked /\ call' = "blocked" /\ UNCHANGED <<fetcherVars, h2Vars>>
    BY <2>2, <2>5, CallGoes
  <2>6. CASE /\ verdict # Blocked /\ UsesHttp2 /\ call' = "http2"
             /\ StartHttp2(verdict) /\ UNCHANGED fetcherVars
    <3>1. ~request.proxy
      BY <2>6 DEF UsesHttp2
    <3> QED
      BY <2>2, <2>4, <2>6, <3>1, Fetches2
  <2>7. CASE /\ verdict # Blocked /\ ~UsesHttp2 /\ call' = "http1"
             /\ StartFetch(verdict) /\ UNCHANGED h2Vars
    BY <2>2, <2>3, <2>4, <2>7, Fetches
  <2> QED
    BY <2>1, <2>5, <2>6, <2>7
<1>4. CASE FallBack
  <2> DEFINE pin == frames[1].config.lookup
  <2>1. /\ call = "http2" /\ frames[1].promise = "other" /\ call' = "http1" /\ StartFetch(pin)
        /\ UNCHANGED <<h2Vars, abortedAt>>
    BY <1>4 DEF FallBack, FallsBack
  <2>2. frames # <<>> /\ frames \in Seq(FrameType) /\ Pinned(frames[1].config, request.url)
    BY <2>1 DEF TransportIInv, FallBackSound, StackSound
  <2>3. frames[1] \in FrameType
    BY <2>2
  <2>4. pin \in Pins \union {None}
    BY <2>3 DEF FrameType, Configs
  <2>5. Guarded => /\ pin # None /\ pin.host = request.url.host /\ pin.address \notin Private
    BY <2>2 DEF Pinned
  <2> HIDE DEF pin
  <2> QED
    BY <2>1, <2>4, <2>5, Fetches
<1>5. CASE AbortCall
  BY <1>5, Aborts
<1>6. CASE call = "http2" /\ Http2Next /\ UNCHANGED <<fetcherVars, call, abortedAt>>
  BY <1>6, Http2Kept
<1>7. CASE call = "http1" /\ FetcherNext /\ UNCHANGED <<h2Vars, call, abortedAt>>
  BY <1>7, FetcherKept
<1>8. CASE UNCHANGED transportVars
  <2>1. /\ UNCHANGED <<request, hop, body, file, dns, sent, aborted, closed, call, abortedAt>>
        /\ UNCHANGED <<request, h2Vars>> /\ UNCHANGED <<frames, cross2, unhandled, sent2>>
    BY <1>8 DEF transportVars, fetcherVars, hopVars, h2Vars
  <2>2. StackSound' /\ Http2TypeOK'
    BY <2>1, StackLeft
  <2>3. TransportTypeOK'
    BY <2>1, <2>2 DEF TransportIInv, TransportTypeOK, FetcherTypeOK
  <2>4. HopTyped' /\ SentSound' /\ BodySound'
    BY <2>1 DEF TransportIInv, HopTyped, SentSound, BodySound, MayCarry, Home, Pinned, Guarded
  <2>5. HopSound'
    BY <2>1 DEF TransportIInv, HopSound, MayCarry, Home, Pinned, Guarded, Changes, Crossings
  <2>6. AbortSound' /\ FallBackSound'
    BY <2>1 DEF TransportIInv, AbortSound, FallBackSound, CallOutcome, FallsBack, IsPending, Pinned,
                Guarded
  <2> QED
    BY <2>2, <2>3, <2>4, <2>5, <2>6 DEF TransportIInv
<1> QED
  BY <1>2, <1>3, <1>4, <1>5, <1>6, <1>7, <1>8 DEF TransportNext

\* What the invariant says of the hops, the bodies and the answers of a call.
LEMMA HonestThen == TransportIInv => TransportHonest
<1> SUFFICES ASSUME TransportIInv PROVE TransportHonest
  OBVIOUS
<1>1. Along(sent)
  <2>1. PICK S : sent \in Seq(S)
    BY DEF TransportIInv, HopTyped
  <2>2. PICK changes \in Nat : changes = Cardinality(Changes(sent))
    BY <2>1, ChangesCounted
  <2>3. changes <= MaxCrossHostHops
    <3>1. Crossings(sent, hop.url) <= hop.cross /\ hop.cross <= MaxCrossHostHops
          /\ hop.cross \in 0..MaxCrossHostHops + 1 /\ MaxCrossHostHops \in Nat
      BY FetcherAssumption DEF TransportIInv, HopSound, TransportTypeOK, FetcherTypeOK
    <3>2. Crossings(sent, hop.url) \in {changes, changes + 1}
      BY <2>2 DEF Crossings
    <3> QED
      BY <3>1, <3>2
  <2>4. Len(sent) <= MaxRedirects + 1
    BY DEF TransportIInv, TransportTypeOK, FetcherTypeOK
  <2>5. \A k \in DOMAIN sent : MayCarry(sent[k].config, Home(sent, k))
    BY DEF TransportIInv, SentSound
  <2> QED
    BY <2>2, <2>3, <2>4, <2>5 DEF Along, MayCarry, Home, Changes
<1>2. Guarded => \A k \in DOMAIN sent : /\ sent[k].address \notin Private
                                        /\ sent[k].config.lookup.host = sent[k].url.host
  BY DEF TransportIInv, SentSound, Pinned
<1>3. Along(sent2)
  <2>0. PICK n \in Nat : n = Len(frames) /\ n = Top
    BY DEF TransportIInv, StackSound, Top
  <2>1. /\ frames \in Seq(FrameType) /\ DOMAIN frames = 1..n
        /\ sent2 \in Seq([url: Urls, config: Configs]) /\ Len(sent2) \in {n - 1, n}
        /\ \A k \in DOMAIN sent2 : sent2[k].url = frames[k].url /\ sent2[k].config = frames[k].config
        /\ \A k \in 1..n : MayCarry(frames[k].config, Home(frames, k))
        /\ Cardinality(Changes(frames)) <= MaxCrossHostHops
    <3>1. /\ frames \in Seq(FrameType)
          /\ sent2 \in Seq([url: Urls, config: Configs]) /\ Len(sent2) \in {Top - 1, Top}
          /\ \A k \in DOMAIN sent2 : sent2[k].url = frames[k].url /\ sent2[k].config = frames[k].config
          /\ \A k \in DOMAIN frames : MayCarry(frames[k].config, Home(frames, k))
          /\ Cardinality(Changes(frames)) <= MaxCrossHostHops
      BY Zenon DEF TransportIInv, StackSound
    <3>2. DOMAIN frames = 1..n
      <4>1. frames \in Seq(FrameType) /\ n = Len(frames)
        BY <2>0, <3>1, Zenon
      <4> QED
        BY <4>1
    <3> QED
      BY <2>0, <3>1, <3>2
  <2>2. PICK m \in Nat : m = Len(sent2) /\ DOMAIN sent2 = 1..m /\ m <= n
    BY <2>1
  <2>3. \A k \in 1..m : k \in 1..n /\ \A j \in 1..k : j \in 1..m
    BY <2>2
  <2>4. Cardinality(Changes(sent2)) <= MaxCrossHostHops
    <3>1. Cardinality(Changes(sent2)) <= Cardinality(Changes(frames))
      BY <2>0, <2>1, <2>2, ChangesOfUrls
    <3>2. Cardinality(Changes(sent2)) \in Nat /\ Cardinality(Changes(frames)) \in Nat
      BY <2>1, ChangesCounted
    <3> QED
      BY <2>1, <3>1, <3>2, FetcherAssumption
  <2>5. Len(sent2) <= MaxRedirects + 1
    BY DEF TransportIInv, TransportTypeOK, Http2TypeOK
  <2>6. \A k \in DOMAIN sent2 : MayCarry(sent2[k].config, Home(sent2, k))
    BY <2>1, <2>2, <2>3 DEF MayCarry, Home
  <2> QED
    BY <2>4, <2>5, <2>6 DEF Along, MayCarry, Home, Changes
<1>4. AnswersWhole1
  BY DEF TransportIInv, BodySound, AnswersWhole1
<1>5. sent # <<>> /\ sent2 # <<>> => frames[1].promise = "other"
  <2>1. sent # <<>> => call = "http1"
    BY DEF TransportIInv, HopSound
  <2>2. sent2 # <<>> => frames # <<>>
    <3> SUFFICES ASSUME frames = <<>> PROVE sent2 = <<>>
      OBVIOUS
    <3>1. PICK m \in Nat : m = Len(sent2) /\ m \in {0 - 1, 0}
      BY DEF TransportIInv, StackSound, Top
    <3> QED
      BY <3>1 DEF TransportIInv, StackSound
  <2> QED
    BY <2>1, <2>2 DEF TransportIInv, FallBackSound
<1>6. abortedAt = "pending" => CallOutcome # "ok"
  BY DEF TransportIInv, AbortSound
<1> QED
  BY <1>1, <1>2, <1>3, <1>4, <1>5, <1>6
     DEF TransportHonest, HopsWithinPolicy, HopsWithinPolicy1, Guarded, AnswersHonest

-----------------------------------------------------------------------------
(* What the caller is promised. *)

\* A hop over HTTP/1.1 is settled for good.
LEMMA HopKept ==
    ASSUME FetcherNext, hop.place \in {"ok", "failed"}
    PROVE  hop'.place = hop.place
BY DEF FetcherNext, Connects, HopPrepared, Responds, Chunk, FileOpens, BodyEnds, BodyCut, Written,
       StreamFails, TimerFires, NetworkFails, CloseFetcher, Redirects, Responding, Finish, Consumed,
       Listening

\* A call that is asked is awaited until it is settled, and then it is settled for good: by
\* no hop, fallback, timer or abort is its outcome taken back or changed.
LEMMA OutcomeMoves ==
    ASSUME TransportIInv, TransportNext
    PROVE  \/ /\ call = "idle" /\ call' # "idle"
              /\ CallOutcome = "none" /\ CallOutcome' = "pending"
           \/ /\ call # "idle" /\ call' # "idle"
              /\ CallOutcome \in {"pending", "ok", "failed"}
              /\ CallOutcome' \in {"pending", "ok", "failed"}
              /\ CallOutcome # "pending" => CallOutcome' = CallOutcome
<1>1. call \in {"idle", "checking", "blocked", "http2", "http1"}
  BY DEF TransportIInv, TransportTypeOK
<1>2. call # "idle" => CallOutcome \in {"pending", "ok", "failed"}
  BY <1>1 DEF CallOutcome
<1>3. call' \in {"checking", "blocked", "http2", "http1"} =>
         CallOutcome' \in {"pending", "ok", "failed"}
  BY DEF CallOutcome
<1>4. CASE Ask
  BY <1>4 DEF Ask, CallOutcome
<1>5. CASE Checked
  <2>1. call = "checking" /\ call' \in {"blocked", "http2", "http1"}
    BY <1>5 DEF Checked
  <2>2. CallOutcome = "pending"
    BY <2>1 DEF CallOutcome
  <2> QED
    BY <1>3, <2>1, <2>2
<1>6. CASE FallBack
  <2>1. call = "http2" /\ call' = "http1" /\ FallsBack /\ frames[1].promise = "other"
    BY <1>6 DEF FallBack, FallsBack
  <2>2. CallOutcome = "pending"
    BY <2>1 DEF CallOutcome
  <2> QED
    BY <1>3, <2>1, <2>2
<1>7. CASE AbortCall
  <2>1. call # "idle" /\ call' = call /\ request' = request
    BY <1>7 DEF AbortCall
  <2>2. frames[1].promise # "pending" => frames'[1].promise = frames[1].promise
    BY <1>7, Aborts
  <2>3. hop.place \in {"ok", "failed"} => hop' = hop
    BY <1>7 DEF AbortCall, HopAborted, Listening
  <2>4. CallOutcome # "pending" => CallOutcome' = CallOutcome
    <3>1. CASE call = "http1"
      BY <2>1, <2>3, <3>1 DEF CallOutcome
    <3>2. CASE call = "http2"
      BY <2>1, <2>2, <3>2 DEF CallOutcome, FallsBack
    <3>3. CASE call \notin {"http1", "http2"}
      BY <2>1, <3>3 DEF CallOutcome
    <3> QED
      BY <3>1, <3>2, <3>3
  <2> QED
    BY <1>1, <1>2, <1>3, <2>1, <2>4
<1>8. CASE call = "http2" /\ Http2Next /\ UNCHANGED <<fetcherVars, call, abortedAt>>
  <2>1. call' = call /\ request' = request
    BY <1>8 DEF fetcherVars
  <2>2. frames[1].promise # "pending" => frames'[1].promise = frames[1].promise
    BY <1>8, Http2Kept DEF FirstKept
  <2>3. CallOutcome # "pending" => CallOutcome' = CallOutcome
    BY <1>8, <2>1, <2>2 DEF CallOutcome, FallsBack
  <2> QED
    BY <1>2, <1>3, <1>8, <2>1, <2>3
<1>9. CASE call = "http1" /\ FetcherNext /\ UNCHANGED <<h2Vars, call, abortedAt>>
  <2>1. call' = call
    BY <1>9
  <2>2. CallOutcome # "pending" => CallOutcome' = CallOutcome
    BY <1>9, <2>1, HopKept DEF CallOutcome
  <2> QED
    BY <1>2, <1>3, <1>9, <2>1, <2>2
<1> QED
  BY <1>4, <1>5, <1>6, <1>7, <1>8, <1>9 DEF TransportNext

\* So a step of a call is one of Outcome, or none.
LEMMA OutcomeStep ==
    ASSUME TransportIInv, TransportNext \/ UNCHANGED transportVars
    PROVE  [Calling!Next]_(Calling!vars)
<1> DEFINE asked == [c \in {Caller} |-> IF call = "idle" THEN None ELSE Network]
           outcome == [c \in {Caller} |-> CallOutcome]
<1>1. /\ asked = [c \in {Caller} |-> asked[Caller]]
      /\ asked' = [c \in {Caller} |-> asked'[Caller]]
      /\ outcome = [c \in {Caller} |-> CallOutcome]
      /\ outcome' = [c \in {Caller} |-> CallOutcome']
      /\ asked[Caller] = (IF call = "idle" THEN None ELSE Network)
      /\ asked'[Caller] = (IF call' = "idle" THEN None ELSE Network)
  OBVIOUS
<1>2. CASE UNCHANGED transportVars
  <2>1. call' = call /\ CallOutcome' = CallOutcome
    BY <1>2 DEF transportVars, fetcherVars, hopVars, h2Vars, CallOutcome, FallsBack
  <2> QED
    BY <2>1 DEF Calling!vars
<1>3. CASE TransportNext
  <2>1. CASE /\ call = "idle" /\ call' # "idle"
             /\ CallOutcome = "none" /\ CallOutcome' = "pending"
    <3>1. Calling!Ask(Caller)
      BY <2>1 DEF Calling!Ask
    <3> QED
      BY <3>1 DEF Calling!Next
  <2>2. CASE /\ call # "idle" /\ call' # "idle"
             /\ CallOutcome \in {"pending", "ok", "failed"}
             /\ CallOutcome' \in {"pending", "ok", "failed"}
             /\ CallOutcome # "pending" => CallOutcome' = CallOutcome
    <3>1. CASE CallOutcome' = CallOutcome
      BY <2>2, <3>1 DEF Calling!vars
    <3>2. CASE CallOutcome' # CallOutcome
      <4>1. Calling!Settle(Caller)
        BY <2>2, <3>2 DEF Calling!Settle
      <4> QED
        BY <4>1 DEF Calling!Next
    <3> QED
      BY <3>1, <3>2
  <2> QED
    BY <1>3, <2>1, <2>2, OutcomeMoves
<1> QED
  BY <1>2, <1>3

-----------------------------------------------------------------------------
(* The parts together. *)

RequestsIInv == IInv /\ TransportIInv /\ AttemptsIInv

\* A step is one of each part, or leaves it alone.
LEMMA PartsMove ==
    ASSUME [RequestsNext]_requestVars
    PROVE  /\ [Next]_vars
           /\ TransportNext \/ UNCHANGED transportVars
           /\ AttemptsNext \/ UNCHANGED attemptVars
BY DEF RequestsNext, requestVars, InPipeline, OnTheWire, InAttempts

\* The invariants of the three parts hold together.
LEMMA RequestsInvariance == RequestsSpec => []RequestsIInv
<1>1. RequestsInit => RequestsIInv
  BY InitIInv, NetworkInitially, AttemptsInitially DEF RequestsInit, RequestsIInv
<1>2. RequestsIInv /\ [RequestsNext]_requestVars => RequestsIInv'
  BY PartsMove, NextIInv, TransportKept, AttemptsKept DEF RequestsIInv
<1> QED
  BY <1>1, <1>2, PTL DEF RequestsSpec

\* Every variable of every part keeps its type.
THEOREM TypesAlwaysOK == RequestsSpec => []TypesOK
<1>1. RequestsIInv => TypesOK
  BY DEF RequestsIInv, IInv, TransportIInv, AttemptsIInv, TypesOK
<1> QED
  BY <1>1, RequestsInvariance, PTL

\* Over both protocols a call is sent to no more hops, and to no more origins, than its limits
\* allow, counted over all hops; sensitive headers and bodies stay where they may go, guarded
\* hops connect to an address that was checked for their own host; what is answered is whole,
\* comes to no call that was aborted, and is not asked for again after HTTP/2 had settled it.
THEOREM TransportAlwaysHonest == RequestsSpec => []TransportHonest
<1>1. RequestsIInv => TransportHonest
  BY HonestThen DEF RequestsIInv
<1> QED
  BY <1>1, RequestsInvariance, PTL

\* Calls wait for a token exactly while one is fetched, and each failed attempt is blamed on
\* its proxy once.
THEOREM AttemptsAlwaysAccounted == RequestsSpec => []AttemptsAccounted
<1>1. RequestsIInv => AttemptsAccounted
  BY DEF RequestsIInv, AttemptsIInv
<1> QED
  BY <1>1, RequestsInvariance, PTL

\* A call over the network is a call as Outcome has it: asked once, awaited, and settled by
\* one of its hops, its fallback, its timers or its abort; the safety part of CallSettlesOnce.
THEOREM CallsFollowOutcome == RequestsSpec => Calling!Init /\ [][Calling!Next]_(Calling!vars)
<1>1. RequestsInit => Calling!Init
  BY DEF RequestsInit, TransportInit, CallOutcome, Calling!Init
<1>2. RequestsIInv /\ [RequestsNext]_requestVars => [Calling!Next]_(Calling!vars)
  BY PartsMove, OutcomeStep DEF RequestsIInv
<1> QED
  BY <1>1, <1>2, RequestsInvariance, PTL DEF RequestsSpec

\* What the caller's promise was settled with stays.
StaysSettled == CallOutcome \in {"ok", "failed"} => CallOutcome' = CallOutcome

\* More than Outcome asks: a settled call is never asked again, and what it was settled with
\* stays.
THEOREM SettledForGood == RequestsSpec => [][StaysSettled]_transportVars
<1>1. RequestsIInv /\ [RequestsNext]_requestVars => [StaysSettled]_transportVars
  <2> SUFFICES ASSUME RequestsIInv, [RequestsNext]_requestVars
               PROVE  [StaysSettled]_transportVars
    OBVIOUS
  <2>1. TransportIInv /\ (TransportNext \/ UNCHANGED transportVars)
    BY PartsMove DEF RequestsIInv
  <2>2. TransportNext => StaysSettled
    BY <2>1, OutcomeMoves DEF StaysSettled
  <2> QED
    BY <2>1, <2>2
<1> QED
  BY <1>1, RequestsInvariance, PTL DEF RequestsSpec
=============================================================================
