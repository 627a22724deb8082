\* Nothing fails: a signal during the start of the second run is enough.
CONSTANTS
    Block = {b1}
    MaxRuns = 2
    MaxFaults = 0
    MaxKills = 0
SPECIFICATION Spec
INVARIANTS ShutdownKeepsProgress
CHECK_DEADLOCK FALSE
