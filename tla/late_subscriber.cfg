SPECIFICATION OSpec
CONSTANTS
    Streams = {"stdout", "stderr"}
    Sizes = {1}
    MaxChunks = 2
    RetainedBytes = 2
    EventCapacity = 2
    Lead = 4
    PageBytes = {1}
    Readers = {"transport"}
INVARIANT EndIsComplete
CHECK_DEADLOCK FALSE
