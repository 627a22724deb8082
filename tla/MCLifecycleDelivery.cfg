\* Nothing fails: one run, shut down while messages wait in the output.
CONSTANTS
    Block = {b1}
    MaxRuns = 1
    MaxFaults = 0
    MaxKills = 0
SPECIFICATION Spec
INVARIANTS ShutdownDelivers
CHECK_DEADLOCK FALSE
