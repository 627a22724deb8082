\* Two runs of the process with one failure and one kill between them.
CONSTANTS
    Block = {b1, b2}
    MaxRuns = 2
    MaxFaults = 1
    MaxKills = 1
SPECIFICATION Spec
INVARIANTS TypeOK CleanExitSaves ProgressKept SavedWereAccepted 
PROPERTIES SignalEndsProcess
CHECK_DEADLOCK FALSE
