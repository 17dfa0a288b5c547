SPECIFICATION Spec
CONSTANTS
    depth = 1
    writer_fifo_depth = 1
    reader_fifo_depth = 1
    Words <- ItemWords
    NoWord = NoWord
    data_width_ratio = 2
    Bypasses = {TRUE}
    pre_fifo_depth = 4
    post_fifo_depth = 4
    cnt_modulus = 256
    NItems = 1
    Pad = Pad
    NoItem = NoItem
INVARIANTS
    ReadsHaveRoom
    WritesHaveData
    PointersAgree
