SPECIFICATION SemFairSpec
CONSTANTS
    c1 = c1
    c2 = c2
    c3 = c3
    c4 = c4
    c5 = c5
    Callers <- MCCallers
    MinWindow = 1
    MaxWindow = 4
    Decay = 2
    TripAfter = 3
INVARIANTS TokensMatchCalls WindowBounds ErrorsCutWindow
PROPERTIES SomebodyServed
