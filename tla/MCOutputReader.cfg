SPECIFICATION FairSpec
CONSTANTS
    Devices = {"sw1", "sw2"}
    Commands = {"show a-b", "show c"}
    SafeName <- MCSafeName
    Rank <- MCRank
    Calls = {"w1", "w2"}
    Size <- MCSize
    Newlines <- MCNewlines
    Offsets <- MCOffsets
    Limits <- MCLimits
    MaxClock = 1
INVARIANTS
    TypeOK
    PagesAreTheFile
    PagesInStep
    SavedCanBeReadBack
    LatestOfCommandFirst
PROPERTIES
    StoreSpec
    FollowingEnds
