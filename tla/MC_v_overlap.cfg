SPECIFICATION LeaderSpec

CONSTANTS
    Pod = {p1, p2}
    Nobody = Nobody
    LeaseDuration = 15
    RenewDeadline = 10
    RetryPeriod = 2
    MaxDelay = 2
    MaxCrashes = 0

INVARIANT OneOperates
