SPECIFICATION Spec
CONSTANTS
    Epoch = 2
    Substrates <- MCSubstrates
    Replaying <- MCReplaying
    Readers <- MCReaders
    Start = 2
    MaxTime = 9
    MaxSkew = 1
    MaxAnnounces = 2
    MaxLookups = 1
    MaxMishaps = 1
INVARIANTS
    NothingMissed
    NeverOurOwn
PROPERTIES
    AdoptsFresh
CHECK_DEADLOCK FALSE
