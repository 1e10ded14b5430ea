SPECIFICATION FairSpec
CONSTANTS
    c1 = c1
    c2 = c2
    Clients <- MCClients
    MaxRes = 2
INVARIANTS
    NoLostWakeup
    ClosedMeansDrained
PROPERTIES
    FeedSpec
    ClientsCatchUp
    ShutdownCompletes
