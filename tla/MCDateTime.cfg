CONSTANTS
    LastDay = 26305
    Seconds <- MCSeconds
SPECIFICATION SpecClock
INVARIANTS
    StampIsCalendarDate
    TimeSurvivesArchive
CHECK_DEADLOCK FALSE
