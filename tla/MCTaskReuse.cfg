CONSTANTS
    t1 = t1
    t2 = t2
    t3 = t3
    c0 = c0
    c1 = c1
    Task <- MCTask
    Main = Main
    Channel <- MCChannel
    Size <- MCSize
    AltArray <- MCAltArray
    MaxAlts = 3
    Reuse = TRUE
    MaxSends = 4
    NoMessage = NoMessage
SPECIFICATION Spec
INVARIANT NoMissedMatch
SYMMETRY Symmetry
