SPECIFICATION FairSpec
CONSTANTS
    mm = mm
    slack = slack
    Needed <- MCNeeded
    Mattermosts = {mm}
    MinBackoff = 1
    MaxBackoff = 3
    MaxShortRuns = 2
    MaxFaults = 2
INVARIANTS LeftOpen UsedWhileOpen
PROPERTIES JobsComeBack StopEnds
CHECK_DEADLOCK FALSE
