SPECIFICATION Spec
CONSTANTS
    h1 = h1
    h2 = h2
    Hashes <- MCHashes
    H = h1
    Timeouts <- MCTimeouts
    RetryAfters <- MCRetryAfters
    UNPAID_DEADLINE = 2
    EXCHANGE_CAP = 2
    SETTLE = 1
    VERIFY = 1
    WINDOW_EXTRA = 3
    RETRY_DEFAULT = 2
    RETRY_MIN = 1
    TimerLimit = 2
    MaxCalls = 1
PROPERTIES
    RetryHonoured
CHECK_DEADLOCK FALSE
