CONSTANTS
    Subscribers = {ws}
    Readers = {ws}
    Holders = {}
    Waiters = {}
    ChunkSize = 2
    MaxEvents = 2
SPECIFICATION FairSpec
PROPERTIES ShutdownEnds
CHECK_DEADLOCK FALSE
