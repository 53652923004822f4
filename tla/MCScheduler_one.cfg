\* One ticker, a schedule of each kind, two that fail each time and one
\* that is refused.
SPECIFICATION FairSpec
CONSTANTS
    once = once  everySecond = everySecond  never = never
    february = february  leapDay = leapDay  refused = refused
    Ticker = {"k1"}
    Schedule = {once, everySecond, never, february, leapDay, refused}
    Mode <- Modes_
    RunAt <- RunAts
    Interval <- Intervals
    Expression <- Expressions
    Calendar <- CalendarTable
    Lag <- NoLag
    Horizon = 366
    Never = Never
    Start = 57
    MaxTime = 3
    MaxFaults = 1
    LastDay = 1600
INVARIANTS NeverTwice KeepsInterval YearlyIsFound
PROPERTIES DueIsFired RunsWhenMeant
CHECK_DEADLOCK FALSE
