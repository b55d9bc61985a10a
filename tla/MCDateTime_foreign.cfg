CONSTANTS
    LastDay = 26305
    Seconds <- MCSeconds
SPECIFICATION ForeignSpec
INVARIANT ConversionAlwaysSucceeds
