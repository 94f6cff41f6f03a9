SPECIFICATION FairSpec
CONSTANTS
    Platform = "mattermost"
    FirstRun = FALSE
    QuietHandover = TRUE
    Edits = FALSE
    Replies = TRUE
    MaxLog = 3
    MaxFaults = 2
    MaxResends = 0
INVARIANTS TypeOK NoLoss AcceptedInOrder
PROPERTIES EveryPostArrives SweepsRunDry
