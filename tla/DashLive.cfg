SPECIFICATION FairSpec
CONSTANTS
    Null = Null
    RingSize = 2
    MaxEvents = 2
    MaxReqs = 2
    MaxPage = 2
    MaxRoom = 3
INVARIANTS NeverInvented LogComplete
PROPERTIES ShownEventually
CHECK_DEADLOCK FALSE
