SPECIFICATION Spec
CONSTANTS
    mm = mm
    slack = slack
    Targets <- MCTargets
    PreUpload = {mm}
    Files <- MCFiles
    Cap = 2
    MaxAttempts = 2
    MaxFaults = 3
    MaxEdits = 2
INVARIANTS TypeOK NothingVanishes NoticeTruthful BodyCrosses
CHECK_DEADLOCK FALSE
