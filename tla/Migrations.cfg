\* Every sequence of operator commands, two of them at a time at most, against
\* a container that starts, migrates and is killed once.
SPECIFICATION FairSpec
CONSTANTS
    Operators = {o1, o2}
    Api = api
    Nothing = nothing
    MaxCommands = 3
    MaxCrashes = 1
INVARIANTS
    NoDeadEnd
    SameByAnyPath
    ModelsServed
PROPERTIES
    Settles
CHECK_DEADLOCK FALSE
