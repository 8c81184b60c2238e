SPECIFICATION TaskSpec
CONSTANTS
    UPLINK_TOKEN_MS = 2
    UPLINK_BURST = 2
    Wrap = 8
    MaxNow = 9
    MaxGap = 3
    HEARTBEAT_MS = 1
    HEARTBEAT_STOP_MS = 2
    SNAPSHOT_MS = 1
INVARIANTS PacingBound WaitBound ResetShown
PROPERTIES StopsFreezeOnce
CHECK_DEADLOCK FALSE
