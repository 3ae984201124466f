SPECIFICATION SchedulerSpec
CONSTANTS
    Jobs = {1, 2}
    NoRecord = NoRecord
    None = None
    Setups <- MixedSetups
    Managed = {2}
    Every = 2
    PollInterval = 2
    Concurrency = 1
    MaxLate = 2
    MaxUpsets = 1
    Calendar <- MCCalendar
    HoursOfDay = 2
    MinutesOfHour = 2
    Span = 24
    Crons <- MCParsed
    Specs <- MCSpecs
    Fields <- MCFields
    Invalid = Invalid
    NoCron = NoCron
INVARIANTS  TimerPolicy NeverOversleeps  StopSeesEveryRun
PROPERTIES SpacedApart JobsGoOn
