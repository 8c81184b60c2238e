SPECIFICATION DownloadSpec
CONSTANTS
    Tasks = {u}
    Triggers = {}
    Buttons = {"freeze"}
    Capacity = 4
    WRAP = 3
    EPOCHS = 3
    FREEZE_DELAY = 2
    TIME_EVERY = 2
    SEC = 100
    LateBy = 0
    MaxSeq = 9
    MaxTime = 4
    Sinces = {}
    Maxes = {}
    Windows = {1, 2}
    RECS_PER_READ = 2
    MaxDownloads = 1
INVARIANTS SearchNewest
CHECK_DEADLOCK FALSE
