\* Two publishers, careful or not, share two events.
SPECIFICATION FairSpec
CONSTANTS
    e1 = e1
    e2 = e2
    w1 = w1
    w2 = w2
    Events = {e1, e2}
    Workers = {w1, w2}
    LeaseTicks = 2
    RetryTicks = 1
    MaxAttempts = 2
    ClaimLimit = 2
INVARIANTS TypeOK LeaseIsExclusive DeadLetterIsEarned
PROPERTIES PublishedIsFinal EveryEventIsHandled
