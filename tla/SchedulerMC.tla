---------------------------- MODULE SchedulerMC ----------------------------
(***************************************************************************)
(* Constants for the model checking of Scheduler; and of Cron, the first   *)
(* states of which are all there is to it.                                 *)
(***************************************************************************)
EXTENDS Scheduler, Cron

VARIABLE part

schedulerVars == <<part, vars, cronVars>>

\* An interval job beside one of another kind.
MixedSetups == {[kind |-> <<"cron", "interval">>, catchUp |-> TRUE],
                [kind |-> <<"interval", "once">>, catchUp |-> FALSE]}

\* Two years of two months of two and three days, the second a leap year, weeks of three.
MCCalendar ==
    LET days == <<<<1, 1>>, <<1, 2>>, <<2, 1>>, <<2, 2>>, <<1, 1>>, <<1, 2>>, <<2, 1>>, <<2, 2>>, <<2, 3>>,
                  <<1, 1>>, <<1, 2>>, <<2, 1>>>>
    IN  [d \in DOMAIN days |-> [month |-> days[d][1], dom |-> days[d][2], dow |-> d % 3]]
Some(set) == SUBSET set \ {{}}
MCCrons ==
    {[minute |-> mi, hour |-> ho, month |-> mo, dom |-> do, dow |-> dw, domAny |-> da, dowAny |-> wa] :
        mi \in Some({0, 1}), ho \in Some({0, 1}), mo \in Some({1, 2}), do \in {{1}, {2}, {3}, {1, 3}, 1..3},
        dw \in {{0}, {1, 2}, 0..2}, da \in BOOLEAN, wa \in BOOLEAN}
MCParsed == {c \in MCCrons : (c.domAny => c.dom = 1..3) /\ (c.dowAny => c.dow = 0..2)}
MCSpecs == {[min |-> 0, max |-> 6, weekday |-> TRUE], [min |-> 1, max |-> 4, weekday |-> FALSE]}
MCParts ==
    [kind: {"star"}, left: {0}, right: {0}, step: {0, 2}]
        \union [kind: {"value"}, left: {0, 1, 5, 7}, right: {0}, step: {0, 2, 3}]
        \union [kind: {"range"}, left: {0, 1, 2, 7}, right: {1, 4, 6, 7}, step: {0, 2}]
MCFields == {<<p>> : p \in MCParts} \union {<<p, q>> : p \in MCParts, q \in {p \in MCParts : p.step = 0}}

Scheduling == part = "scheduler" /\ UNCHANGED <<part, cronVars>>

SchedulerInit ==
    /\ part \in {"scheduler", "cron"} /\ Init
    /\ IF part = "cron" THEN CronInit /\ setup = (CHOOSE s \in Setups : TRUE)
       ELSE cron = NoCron /\ field = <<>>

SchedulerNext == (Scheduling /\ Next) \/ (part = "cron" /\ UNCHANGED schedulerVars)

SchedulerSpec ==
    /\ SchedulerInit /\ [][SchedulerNext]_schedulerVars
    /\ WF_schedulerVars(Scheduling /\ TimerFires) /\ WF_schedulerVars(Scheduling /\ StopReturns)
    /\ WF_schedulerVars(Scheduling /\ Tick)
    /\ \A id \in Jobs \X RunNos :
          WF_schedulerVars(Scheduling /\ \E run \in runs : Id(run) = id /\ Finish(run))

\* No job is passed over for ever, and stop() returns.
JobsGoOn == NothingStarves /\ StopEnds
=============================================================================
