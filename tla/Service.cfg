SPECIFICATION FairSpec
CONSTANTS
    Pids = {p1, p2, p3}
    NoOne = none
    Stranger = other
    Concurrent = FALSE
INVARIANTS
    AtMostOneServer
    ServingIsRecorded
PROPERTIES
    CommandsReturn
