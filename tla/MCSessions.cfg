SPECIFICATION FairSpec
CONSTANTS
    g1 = g1
    p1 = p1
    p2 = p2
    v0 = v0
    Clients <- MCClients
    Getters <- MCGetters
    ChunksOf <- MCChunksOf
    First = v0
    MaxProcs <- MCMaxProcs
    port = 3
    Ports = 8
    Denied <- MCDenied
    Ephemeral <- MCEphemeral
INVARIANTS
    UndisturbedGetWhole
PROPERTIES
    Served
CHECK_DEADLOCK FALSE
