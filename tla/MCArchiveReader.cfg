CONSTANTS
    MaxEntries = 3
    MaxSize = 1
    MaxFaults = 1
    MaxHiccups = 1
SPECIFICATION Spec
INVARIANTS
    DeliveredInOrder
    OnlySound
    NothingLeftOut
    RecoversTheRest
PROPERTY EventuallyEnds
