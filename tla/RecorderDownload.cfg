SPECIFICATION DownloadSpec
CONSTANTS
    Tasks = {u}
    Triggers = {"session"}
    Buttons = {"freeze", "arm"}
    Capacity = 3
    WRAP = 2
    EPOCHS = 3
    FREEZE_DELAY = 2
    TIME_EVERY = 1
    SEC = 1
    LateBy = 0
    MaxSeq = 6
    MaxTime = 3
    Sinces = {2}
    Maxes = {10}
    Windows = {1}
    RECS_PER_READ = 2
    MaxDownloads = 1
INVARIANTS RawWhole TimesDecoded TextTrue SearchExact RingHoldsNewest TimesRise NothingAfterFreeze FreezeRecordTells
PROPERTIES FrozenUntilArmed
CHECK_DEADLOCK FALSE
