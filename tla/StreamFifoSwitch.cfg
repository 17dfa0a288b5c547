SPECIFICATION FairSpec
CONSTANTS
    depth = 2
    writer_fifo_depth = 2
    reader_fifo_depth = 2
    Words <- ItemWords
    NoWord = NoWord
    data_width_ratio = 2
    Bypasses = {TRUE}
    pre_fifo_depth = 4
    post_fifo_depth = 4
    cnt_modulus = 256
    NItems = 3
    Pad = Pad
    NoItem = NoItem
PROPERTY LeavesDramEmpty
