SPECIFICATION FairSpec
CONSTANTS
    ch1 = ch1
    ch2 = ch2
    ch3 = ch3
    ch4 = ch4
    ch4b = ch4b
    br1 = br1
    br2 = br2
    Channels <- MCChannels
    Names <- MCNames
    Configs <- MCConfigs
    Files = 2
    MaxEdits = 2
    MaxFaults = 1
INVARIANTS OneBridgePerChannel StartRepeatable MigrationsOnce
PROPERTIES CursorsKept ComesUp
CHECK_DEADLOCK FALSE
