SPECIFICATION FairSpec
CONSTANTS
    Platform = "slack"
    FirstRun = FALSE
    QuietHandover = FALSE
    Edits = TRUE
    Replies = FALSE
    MaxLog = 3
    MaxFaults = 1
    MaxResends = 1
INVARIANTS CursorStored
PROPERTIES MissedIsSwept
