\* Two threads that may come again; a snapshot is fresh for two ticks, stale for three.
CONSTANTS
    None = None  Error = Error  Closed = Closed
    Request = {r1, r2}
    Ttl = 2
    StaleLimit = 3
    MaxTime = 3
SPECIFICATION FairSpec
INVARIANTS AgeIsHonest ServedWithinLimits NeverOlderThanBefore ZeroWasTrueOnce
PROPERTIES CacheTimeAdvances SomeoneIsAnswered
