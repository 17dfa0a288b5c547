SPECIFICATION Spec
CONSTANTS
  NCells = 4
  Values = {0, 1}
  MaxCmds = 2
  Focus = {3}
  cmd_depth = 1
  wdata_depth = 3
  rdata_depth = 2
  offset = 2
  max_burst_length = 3
  address_offset = 2
  buffer_depth = 2
  dma_depth = 2
  word_bytes = 2
  n_state = 3
  max_errors = 2
  Kinds = {"axi rmw bursts"}
INVARIANT ReadsSeeWrites
