SPECIFICATION LimiterSpec
CONSTANTS
    Keys = {k1, k2, k3}
    max_requests = 2
    window_seconds = 2
    _MAX_TRACKED_KEYS = 2
    MaxClock = 5
INVARIANTS
    LimiterTypeOK
    WindowExact
