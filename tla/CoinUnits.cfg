CONSTANTS
    MaxNum = 2
    NoNum = NoNum

SPECIFICATION Spec

INVARIANT ParseCoinHonoursUnit
