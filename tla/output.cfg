SPECIFICATION OFairSpec
CONSTANTS
    Streams = {"stdout", "stderr"}
    Sizes = {1, 3}
    MaxChunks = 3
    RetainedBytes = 2
    EventCapacity = 2
    Lead = 2
    PageBytes = {1, 2}
    Readers = {"poll", "task", "transport"}
INVARIANTS OInv NoSilentGap EndIsComplete
PROPERTIES PollReturns FollowersEnd
CHECK_DEADLOCK FALSE
