SPECIFICATION Spec
CONSTANTS
    Runs = {a, b}
    Uploaders = {a}
    MaxKills = 1
    CondDestroyWaits = FALSE
INVARIANTS TypeOK UuidAgrees SignalsAreRead FreedUnused
PROPERTIES CompletedEnds SignalEnds
