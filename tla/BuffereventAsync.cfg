SPECIFICATION FairSpec
CONSTANTS
    Bufferevents = {b1}
    Handles = {h1}
    NoOne = NoOne
    MaxLength = 2
INVARIANTS KernelOwnsLiveBuffers NoAssertionFails ReferencesCounted
           NoStall BevInv
PROPERTY FreeEnds
CHECK_DEADLOCK FALSE
