SPECIFICATION Spec
CONSTANTS
    t1 = t1
    t2 = t2
    t3 = t3
    a = a
    b = b
    c = c
    d = d
    Threads <- MCThreads
    Objects <- MCObjects
    Limits <- MCLimits
    Holding = 2
    Holdings <- MCHoldings
    MaxAvailable = 4
INVARIANTS
    LimitObeyed
