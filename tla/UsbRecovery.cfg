\* The thresholds keep their order: EP_ERROR_WINDOW, RESET_GONE_TIMEOUT < TX_WEDGE_RESET;
\* RESET_GAP_MIN <= RESET_CALM < RESET_GAP_MAX.
SPECIFICATION FairSpec
CONSTANTS
    NUM_RX_TRANSFERS = 2
    EP_ERRORS_TO_RESET = 2
    EP_ERROR_WINDOW = 0
    TX_WEDGE_RESET = 1
    RESET_GONE_TIMEOUT = 0
    RESET_GAP_MIN = 1
    RESET_GAP_MAX = 2
    RESET_CALM = 1
    ENUM_GRACE = 1
    ENUM_RETRY_MAX = 2
    ABSENT_SETTLE = 0
INVARIANTS NothingHeldAgainstTheNext
PROPERTIES ResetsBackOff BlipForgivesNothing InputResumes TroubleEnds NotGivenUp
