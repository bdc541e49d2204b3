CONSTANTS
    Addrs = {a1, a2}
    Pwds = {p1, p2}
    NoEntry = NoEntry
    Durations <- MCDurations
    MaxInfos = 3
    MaxTime = 2

SPECIFICATION Spec

INVARIANT NoNilDeref
