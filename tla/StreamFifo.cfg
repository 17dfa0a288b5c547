SPECIFICATION FairSpec
CONSTANTS
    depth = 2
    writer_fifo_depth = 1
    reader_fifo_depth = 2
    Words <- ItemWords
    NoWord = NoWord
    data_width_ratio = 1
    Bypasses = {TRUE, FALSE}
    pre_fifo_depth = 2
    post_fifo_depth = 2
    cnt_modulus = 256
    NItems = 3
    Pad = Pad
    NoItem = NoItem
PROPERTIES
    Ordered
    Delivered
