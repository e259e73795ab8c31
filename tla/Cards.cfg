SPECIFICATION Spec
CONSTANTS
    Photos = {1}
    NoPhoto = 0
    Workers = {v, w}
    NoWorker = NoWorker
    Sizes = {1, 2}
    MaxFaults = 2
    Processes = {i, j}
    MaxRounds = 1
    MaxCardFaults = 1
    Streams = {s, t}
    BufferSize = 1
    MaxChanges = 3
    Items = {1, 2, 3, 4}
    Ranks = {1, 2}
    DefaultLimit = 1
    MaxLimit = 2
    Asked = {0, 2, 3}
INVARIANTS TypeOK ReadyOnce AloneUnlessFaults EachPublishIsTold NoGaps WholeFeed
PROPERTIES AllSettles
CHECK_DEADLOCK FALSE
