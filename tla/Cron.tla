-------------------------------- MODULE Cron --------------------------------
(***************************************************************************)
(* When a job is due next, src/src/modules/cron.js: what a field of a cron *)
(* expression allows, the search for the next minute that all five allow,  *)
(* and the next slot of an interval.                                       *)
(*                                                                         *)
(* The calendar is a small one, Calendar[d] the month, the day of the      *)
(* month and the weekday of day d; hours and minutes are as few.  A part   *)
(* of a field is a star, a value or a range, with a step or without one,   *)
(* which is 0.                                                             *)
(***************************************************************************)
EXTENDS Integers, Sequences, FiniteSets

CONSTANTS
    Calendar,
    HoursOfDay, MinutesOfHour,
    Span,          \* minutes that are searched, eight years in the code
    Crons,         \* parsed expressions
    Specs,         \* fields: their least and greatest value, and whether of the weekday
    Fields,        \* sequences of parts
    Invalid, NoCron

\* A month begins with its first day; a star stands for every value of its field.
ASSUME CronAssumption ==
    /\ HoursOfDay \in Nat \ {0} /\ MinutesOfHour \in Nat \ {0} /\ Span \in Nat
    /\ Calendar \in Seq([month: Nat, dom: Nat, dow: Nat])
    /\ \A d \in DOMAIN Calendar :
          d > 1 /\ Calendar[d].dom # 1 => Calendar[d].month = Calendar[d - 1].month
    /\ \A c \in Crons :
          /\ c.domAny \in BOOLEAN /\ c.dowAny \in BOOLEAN
          /\ \A d \in DOMAIN Calendar :
                /\ c.domAny => Calendar[d].dom \in c.dom
                /\ c.dowAny => Calendar[d].dow \in c.dow
    /\ \A spec \in Specs :
          /\ spec \in [min: Nat, max: Nat, weekday: BOOLEAN]
          /\ spec.min <= spec.max /\ (spec.weekday => spec.max < 7)
    /\ \A parts \in Fields :
          parts \in Seq([kind: {"star", "value", "range"}, left: Nat, right: Nat, step: Nat])

VARIABLES cron, field

cronVars == <<cron, field>>

CronInit ==
    \/ cron \in Crons /\ field = <<>>
    \/ cron = NoCron /\ field \in Fields

-----------------------------------------------------------------------------
\* resolveValue: Sunday may be written 7.
Resolve(value, spec) == IF spec.weekday /\ value = 7 THEN 0 ELSE value

\* A part of a field, or Invalid where parseField throws.
PartValues(part, spec) ==
    LET first == IF part.kind = "star" THEN spec.min ELSE Resolve(part.left, spec)
        last == CASE part.kind = "star" -> spec.max
                  [] part.kind = "range" -> Resolve(part.right, spec)
                  [] OTHER -> IF part.step = 0 THEN first ELSE spec.max
        step == IF part.step = 0 THEN 1 ELSE part.step
    IN  IF first > last \/ first < spec.min \/ last > spec.max THEN Invalid
        ELSE {v \in first..last : (v - first) % step = 0}

ParseField(parts, spec) ==
    IF \E k \in DOMAIN parts : PartValues(parts[k], spec) = Invalid THEN Invalid
    ELSE UNION {PartValues(parts[k], spec) : k \in DOMAIN parts}

-----------------------------------------------------------------------------
MinutesOfDay == HoursOfDay * MinutesOfHour
DayOf(t) == Calendar[1 + t \div MinutesOfDay]
HourOf(t) == (t % MinutesOfDay) \div MinutesOfHour
Minutes == 0..Len(Calendar) * MinutesOfDay - 1

\* The slip of letting a star in one of them allow every day.
DayMatchesAny(c, day) == day.dom \in c.dom \/ day.dow \in c.dow

\* dayMatches: either of the day fields, where neither is a star.
DayMatches(c, day) ==
    CASE ~c.domAny /\ ~c.dowAny -> day.dom \in c.dom \/ day.dow \in c.dow
      [] ~c.domAny /\ c.dowAny -> day.dom \in c.dom
      [] c.domAny /\ ~c.dowAny -> day.dow \in c.dow
      [] OTHER -> TRUE

\* The first minute of the next month, of the next day, of the next hour.
NextMonth(t) ==
    LET later == {d \in DOMAIN Calendar : d > 1 + t \div MinutesOfDay /\ Calendar[d].dom = 1}
    IN  IF later = {} THEN Len(Calendar) * MinutesOfDay
        ELSE ((CHOOSE d \in later : \A e \in later : d <= e) - 1) * MinutesOfDay
NextDay(t) == (1 + t \div MinutesOfDay) * MinutesOfDay
NextHour(t) == (1 + t \div MinutesOfHour) * MinutesOfHour

\* nextCronTime from minute t on, or -1 where it is null.
Search(c, t, limit) ==
    LET found[u \in Nat] ==
            IF u > limit \/ u \notin Minutes THEN -1
            ELSE IF DayOf(u).month \notin c.month THEN found[NextMonth(u)]
            ELSE IF ~DayMatches(c, DayOf(u)) THEN found[NextDay(u)]
            ELSE IF HourOf(u) \notin c.hour THEN found[NextHour(u)]
            ELSE IF u % MinutesOfHour \notin c.minute THEN found[u + 1]
            ELSE u
    IN  found[t]

NextCronTime(c, from) == Search(c, from + 1, from + 1 + Span)

\* The next slot of an interval, as many periods behind the last run as have passed.
NextInterval(base, now, every) ==
    LET next == base + every
    IN  IF next > now THEN next ELSE next + ((now - next) \div every + 1) * every

-----------------------------------------------------------------------------
\* The days of a field as crontab reads them: 7 is Sunday in a range, too.
Meant(part, spec) ==
    LET first == IF part.kind = "star" THEN spec.min ELSE part.left
        last == IF part.kind = "range" THEN part.right
                ELSE IF part.kind = "star" \/ part.step > 0 THEN spec.max ELSE first
    IN  {Resolve(v, spec) : v \in {v \in first..last : part.step = 0 \/ (v - first) % part.step = 0}}

SundayLast(part) == part.kind = "range" /\ part.right = 7
SundayFirst(part) == part.left = 7 /\ (part.kind = "range" \/ part.step > 0)

SlotsRight ==
    \A base \in 0..3, every \in 1..3, now \in 0..12 :
       LET next == NextInterval(base, now, every)
       IN  now >= base => next > now /\ next - every <= now /\ (next - base) % every = 0

Allowed(c, t) ==
    LET day == DayOf(t)
        eitherDay == ~c.domAny /\ ~c.dowAny /\ (day.dom \in c.dom \/ day.dow \in c.dow)
        bothDays == day.dom \in c.dom /\ day.dow \in c.dow
    IN  /\ day.month \in c.month /\ (eitherDay \/ bothDays)
        /\ HourOf(t) \in c.hour /\ t % MinutesOfHour \in c.minute

\* The time found is the first minute after now that month, day, hour and minute allow, where
\* a day is allowed by either day field if both are restricted, and none is found only if
\* there is none within the span.  A field gives the values its parts mean, all in bounds, or
\* is refused; save that a range up to Sunday as 7 is refused or, 0-7, is of Sunday alone, and
\* that a range or steps from 7 start over on Sunday.  An interval's slot is the first after now.
NextTimesRight ==
    /\ cron # NoCron =>
          \A from \in {t \in Minutes : t + 1 + Span \in Minutes} :
             LET allowed == {t \in from + 1..from + 1 + Span : Allowed(cron, t)}
             IN  NextCronTime(cron, from) =
                    IF allowed = {} THEN -1 ELSE CHOOSE t \in allowed : \A s \in allowed : t <= s
    /\ field # <<>> =>
          \A spec \in Specs :
             LET values == ParseField(field, spec)
                 sundays == \E k \in DOMAIN field : SundayLast(field[k]) \/ SundayFirst(field[k])
             IN  values # Invalid =>
                    /\ values # {} /\ values \subseteq spec.min..spec.max
                    /\ ~(spec.weekday /\ sundays) => values = UNION {Meant(field[k], spec) : k \in DOMAIN field}
    /\ SlotsRight
=============================================================================
