# LiteDRAM in TLA+

LiteDRAM is a generator of DRAM controllers written in migen: Python code that
describes synchronous circuits. This directory models the controller core
(`litedram/core`), the adapters and bridges in front of it (`litedram/frontend`),
and what lies between it and the chips: the data base of chips, the settings of the
PHYs, initialisation, command pins, clocks and data (`modules.py`, `init.py`, `dfii.py`,
`litedram/phy`). It model-checks them with TLC and proves the central results with TLAPS.

A circuit is modelled the way it is clocked. Its registers are a record;
operators named after the signals of the source give the combinational signals
from the registers and the inputs; one operator (`tXXDNext`, `BmNext`,
`MuxNext`, `RefresherNext`) gives the registers after a clock edge. A system
module declares the registers as variables, composes these operators, and
leaves free only what comes from outside: which requests arrive, when a command
is accepted, when a refresh is asked for.

## The system

| Component | State | Operations | Depends on |
|---|---|---|---|
| Timing controllers (`common.py`) | counter, ready; shift register of activates | one clock edge | used by bank machines and multiplexer |
| Bank machine (`core/bankmachine.py`) | lookahead FIFO, command buffer, open row, three timers, FSM | accept a request; present activate, precharge, read, write; grant a refresh | requests from the crossbar, `cmd.ready` from the multiplexer, `refresh_req` from the refresher |
| Refresher (`core/refresher.py`) | interval timer, postponer, sequencer, executer, ZQCS timer and executer, FSM | ask for the DRAM, precharge all, refresh, calibrate, release | `cmd.ready` and `cmd.last` with the multiplexer |
| Multiplexer (`core/multiplexer.py`) | two round-robin choosers, rank timers, anti-starvation timers, FSM | choose commands, turn the bus around, hand it to the refresher | all bank machines, the refresher, the DFI |
| Controller (`core/controller.py`) | the above | composition | |
| Crossbar (`core/crossbar.py`) | a round-robin grant per bank, shift registers of the data slots | arbitrate, route commands, route data slots back | ports of the masters; `lock`, `ready`, `wdata_ready`, `rdata_valid` of the bank machines |
| Address mapping (`crossbar.py`, `common.py`, `bankmachine.py`) | none | split an address in bank, row and column | |
| Simulated PHY, DRAM and timing rules (`phy/model.py`) | open row and contents of each bank, writes on their way, time of each last command, ring of activates | perform commands, check their timings | the DFI |
| Bandwidth counter (`core/bandwidth.py`) | command register, counters, status registers | count commands in a period | the multiplexer |
| Native port adapters (`frontend/adapter.py`) | chunk counters, buffered command, data FIFOs | split or merge words, cross clocks | native ports on both sides |
| Wishbone, Avalon, AXI bridges (`frontend/`) | FSMs, merge buffer, read cache, FIFOs and reservation levels | bus cycles to commands and data; bursts, aborted cycles, read-modify-write | native ports |
| DMA reader and writer (`frontend/dma.py`) | data FIFOs, reservation FIFO, FSMs of the registers | issue a read when room is reserved for its word; issue a write with its data; run a buffer, loop, drain | native or AXI ports |
| BIST (`frontend/bist.py`) | LFSR, counters, FSMs | write a sequence, read it back and count differences | DMA |
| ECC (`frontend/ecc.py`) | buffers, error counters | encode, decode, count | native ports |
| Stream FIFO over DRAM (`frontend/fifo.py`) | level and pointers, pre- and post-FIFO, converters, word counters, FSM | accept and give items; pass them by or through DRAM; flush the converters | DMA reader and writer |
| Module database (`modules.py`) | none | timings and geometry of chips, SPD, conversion to cycles | settings of controller and PHY |
| Initialisation (`init.py`) | none | the header that software runs | DFI injector |
| DFI, DFI injector (`phy/dfi.py`, `dfii.py`) | phase registers, converters of rate | carry commands; software control | controller, PHY |
| PHYs (`phy/*ddrphy.py`), LPDDR4, LPDDR5, RPC | delay lines, command adapters, WCK FSM, serialisers | drive command pins, data, strobes | DFI, pins |
| UltraScale native PHY, `gen.py` | FSMs around primitives; none | calibration; build script | |

Almost everything runs on one clock (only the clock domain crossings do not), so the concurrency is that of circuits: in each
cycle every part moves at once, on signals that others computed from registers
of the cycle before. What is hard:

- **Two views of the same bank.** A bank machine does not see the DRAM; it keeps
  its own idea of the open row and of elapsed time, and refreshes and
  self-precharges change the DRAM behind it.
- **Hand-over to the refresher.** The refresher asks, each bank grants in its own
  time, the multiplexer waits for all of them, the refresher works through its
  sequence and releases. Requests are pulses, grants are levels.
- **Identity without memory.** The crossbar does not record who issued a request.
  The grant of the bank at the time the request is *performed* decides who gets
  the data slot, and a `lock` computed from FIFO outputs keeps the grant in place.
- **Data without handshake.** The controller fetches write data and delivers read data
  in fixed cycles, whether or not the frontend is ready: DMA must have reserved both.
- **Items in five places.** The stream FIFO's items are in the pre-FIFO, a converter,
  commands under way, DRAM and the post-FIFO, and its FSM decides from counters of its
  own that the long way is empty and the short way may be taken.
- **Words held back.** Converters and the narrow Wishbone bridge merge writes, keep a word
  that was read, and let several requests share a command: a later request has to find
  what an earlier one has not yet sent.
- **Rates.** A controller cycle is up to eight DRAM clocks; timings, latencies and phases
  are rounded in four files, and each chip, clock and PHY rounds differently.
- **Starvation and deadlock** between banks, directions, refresher and masters.
- **Boundaries**: counters just wide enough, registered `ready` signals, bit 10 of
  column addresses.

What makes each part correct: the timing controllers are never early (and never
so late that the system stops); the bank machine performs its requests in order,
with commands the DRAM accepts; the refresher sends a legal sequence, is granted,
and never falls behind; the multiplexer keeps the timings between banks and
starves nobody; an adapter or a bridge is a memory to its user; the crossbar returns each data slot to its owner and keeps a
master's requests in order; the address mapping is injective; DMA never loses a word;
the stream FIFO is a FIFO, and nothing stays in it; no chip sees a command too early, in the
wrong mode, garbled, or without its clock or its data. `hazards` in
`PROJECT.json` lists each danger at its line with the properties that cover it.

## Modules

| Module | Models |
|---|---|
| `TimingControllers` | `tXXDController`, `tFAWController`, with counter widths |
| `TimingMonitor` | both controllers with the history of their inputs |
| `TimingProofs` | theorems about them |
| `RequestBuffer` | FIFO and command buffer of a bank machine, and `lock` |
| `DramBank` | a DRAM bank and the rules it imposes (`BankModel`, `RULES`) |
| `BankMachine` | a bank machine, extends the three above; what it has to do with its bank and the refresher (`InStep`) |
| `BankMachineProofs` | lemmas about a bank machine with a bank, shared by the next two |
| `RequestQueue` | an in-order queue: abstract specification of a bank machine and of the stream FIFO |
| `SingleBank` | a bank machine against a DRAM bank in a free environment |
| `SingleBankProofs` | theorems about it |
| `Refresher` | the refresher |
| `RefresherSystem` | the refresher against a multiplexer that grants within `MaxGrant` cycles |
| `RefresherProofs` | theorems about it |
| `RoundRobin` | migen's round-robin arbiter (external) |
| `Multiplexer` | the multiplexer |
| `Controller` | `NBanks` bank machines, multiplexer and refresher against `NBanks` DRAM banks |
| `ControllerProofs` | theorems about it |
| `Crossbar` | the crossbar over the request buffers of its banks |
| `AddressMapping` | address slices |
| `CrossbarProofs` | theorems about both |
| `DramFifo` | `_LiteDRAMFIFO` with the DMA writer and reader, over two abstract native ports |
| `StreamFifo` | `LiteDRAMFIFO`: bypass, converters and FSM around a `DramFifo` |
| `StreamFifoProofs` | theorems about it and the `DramFifo` beneath |
| `NativePort` | a native port, the crossbar, the controller and the memory behind it, and the users of bridges: what every front end is checked against |
| `Adapters` | down-converter, up-converter, clock domain crossing (`frontend/adapter.py`), the ECC port (`frontend/ecc.py`) |
| `Wishbone` | both Wishbone bridges, and a native user on a Wishbone slave |
| `Avalon`, `Axi` | the Avalon bridge; the AXI bridge with its read-modify-write |
| `Dma`, `Bist` | DMA engines with their registers; generator and checker on them |
| `Frontends` | one of the front ends above with its user, chosen by `kind`; the properties of all of them |
| `FrontendProofs` | theorems about all of them |
| `ModuleDatabase` | `modules.py`: every chip, SPD bytes, timings in cycles |
| `PhyTimings` | latencies by clock, phases and latencies of the PHYs, the waits after a write |
| `DeviceSpacing` | a controller as fast as its settings allow, and the data sheet |
| `InitSequence` | `init.py`: the steps of the header for every memory type |
| `LpddrCommands` | command adapters of LPDDR4, LPDDR5 and RPC, and the simulators' decoders |
| `DeviceInit` | software, DFI injector, board and chips during initialisation |
| `DeviceCommands` | the commands pipeline of LPDDR4 and the two words of LPDDR5, against their devices |
| `Lpddr5Wck` | WCK synchronisation, and the words of a burst |
| `PhyModel` | the simulated PHY with its bank and its checker |
| `PhyData` | the write path of the PHYs for DDR memories |
| `Dfi` | the rate converter and its wrapper |
| `Bandwidth` | the bandwidth counter |
| `MCParts` | `TimingMonitor`, `RefresherSystem`, `Crossbar`, `AddressMapping` and the eight parts above from `DeviceSpacing` to `Bandwidth`, one of them moving in a behaviour |
| `MCController` | instance of `Controller` for TLC |

`Controller` composes `BankMachine`, `Multiplexer` and `Refresher` as the source
does. `Crossbar` replaces the controller by what `SingleBank` and `Controller` show
of it: a bank performs the request in its command buffer, in order, and at most
one bank does so in a cycle. `DramFifo` in turn replaces crossbar and controller by two
native ports that perform the commands of one port in order and those for one
address in order, and may let others overtake. `NativePort` is the port the other front
ends see: it performs in order, two cycles after it accepted or later, and
fetches and returns data whether or not it is there or taken.

An *as* operator of a mutant stands before the definition it varies, with a comment
that begins with "Mutant"; nothing else uses it.

Correspondence with the code:

- A field of a register record is a register of the source. `bm.mem`, `bm.out` and
  `bm.cb` are the FIFO, the output register it has when `cmd_buffer_buffered`, and
  `cmd_buffer`. `wait` is the number of cycles left in a `delayed_enter` state.
- A timing of `None` is 0.
- There is one action per state of the FSM that drives the circuit (`Regular`,
  `Precharge`, ... of `SingleBank`; `Read`, `Write`, `Refresh`, `WriteToRead`,
  `ReadToWrite` of `Controller`). Each is a whole clock edge.
- The DRAM keeps *ages*: cycles since the last command of each kind, saturating at
  `Cap`. Ages are of the model, not of the code; properties compare them with timings.
- Commands are observed where the steerer registers them. The register delays every
  source alike. Phases within a cycle are not distinguished: a row and a column
  command may be given in the same cycle.
- Columns and data are left out except for A10 (auto-precharge) and, in `Crossbar`,
  the identity of the owner, which is a history variable.
- `a10` of a precharge from a bank machine is modelled, so that it closes all banks if
  it were ever high; the comment in the source says it is always low, and
  `BankCommandsLegal` would fail otherwise.
- In `DramFifo` `res_fifo` is the fill level of the reservation FIFO, whose entries carry
  only `last`; `reader_fifo` and `writer_fifo` are the data FIFOs; `port` holds the
  commands accepted and not performed, and `mem` the slots of the ring. A write command
  that finds no data writes `NoWord`; read data that finds no room is lost.
- In `StreamFifo` there is one action per state of the FSM, each a whole clock edge
  (`Flow` for every other register). The litex FIFOs and converters are external:
  `parts` and `strobe_all` are the registers of the up-converter, `mux` the one of the
  down-converter, and with equal widths both are wires. Items are numbered modulo
  `NItems`; `Pad` is the value of a converter input that nothing drives. `last` is
  low, as the users in the repository leave it. An input that no circuit looks at in
  a cycle is low (`Inputs`), which removes only duplicates of steps.
  `with_bypass` is chosen initially from `Bypasses`; without it there is no FSM, and
  `fsm` stays "DRAM".
- A front end is a record `bridge`, with an operator for the signals it drives
  (`DownDrives`, `AvDrives`), one for its registers after the edge (`DownNext`, `AvNext`) and one
  for the clock edge with its user (`DownUserTick`, `AvUserTick`); stacked bridges compose the
  first two (`WbWideTick`). `port` and `master` are outside the code: what the
  controller does and what the user asked for. `master.ideal` holds the values a read may
  return: one, or more while a write is under way or after one that was given up.
- Memory is an array of cells, a word of width w is w of them: what a converter bridges is a
  ratio. Only one cell, the focus, is ever written with something else than 0, so
  that data in a wrong cell or lane shows there, or there when that cell is the focus.
- In the clock domain crossing and the BIST's the two clocks are two actions in any order, and
  the asynchronous FIFOs of litex are queues.
- In the ECC port of `Adapters` a codeword is its value and the number of its flipped bits; the code is litex's.
- In `AddressMapping` an address is a number and a field of it is given by its size, the power of two of its width
  in the source: a slice is a quotient and a remainder, widths that are added are sizes that are multiplied.
- A timing of `ModuleDatabase` is <<clocks, picoseconds>>, as the pair of the source is
  <<ck, ns>>. Rounding is of integers; floating point errors are not modelled.
- In `DeviceSpacing` time is a controller cycle and a phase in it; the controller issues the
  commands of a bank and activates of others in any legal order, each as soon as its
  timers allow. Which timers guard which commands is what `SingleBank` and `Controller` show.
- A DFI command of `LpddrCommands` is the pins it drives, an address and a bank address. A
  step of `InitSequence` is the same, as the header writes it to the registers of an injector.
- The devices of `LpddrCommands` come from `sim.py` of LPDDR4 and
  LPDDR5; their checks of open rows and banks are left out (the controller's are in
  `SingleBank`). The chips of other memories and the register of an RDIMM are external.

## Runs

| Run | Instance | Shows |
|---|---|---|
| `single_bank` | 2 rows, FIFO of 2, small timings | `CommandsLegal`, `RowCycleHasRequest`, `RefreshGrantSafe`; refinement of `RequestQueue` (`InOrder`) |
| `controller` | 2 banks, 2 rows, two phases, refresh every 12 cycles | `BankCommandsLegal`, `PrechargeRespectsTRAS`, `RankTimingsRespected`, `RefreshExclusive` |
| `controller_live` | 2 banks, one read and one written for ever, one phase | `RequestsServed`, `RefreshGranted` |
| `parts` | one part at a time, see below | 20 properties of the parts, in the next table |
| `stream_fifo` | equal widths, with bypass and without (the default), ring of 2 words | refinement of `RequestQueue` (`Ordered`) through changes of mode; `Delivered` |
| `stream_fifo_wide` | two items per word, ring of 1 word | `ReadsHaveRoom`, `WritesHaveData`, `PointersAgree`, in all states of the FSM |
| `frontends` | 15 kinds of front end on a memory of 4 cells, at most 2 commands and 2 returned words in the port | `ReadsSeeWrites`, `WritesFindData`, `ReadsFindRoom` |
| `frontends_live` | 13 of the kinds, one value | `Answered` |
| `controller_tras` | 1 bank, tRAS = tRCD + 4 | violation, see below |
| `refresher_zqcs` | ZQCS period of 10 tREFI | violation, see below |
| `stream_fifo_switch` | two items per word | violation, see below |
| `axi_rmw` | bursts of up to two words with partial beats | violation, see below |

The parts of `parts`:

| Part | Instance | Properties |
|---|---|---|
| timing controllers | timings 0 to 5, from reset and through counter wraps | `ReadyNotEarly`, `ReadyNotLate`, `FourActivateWindow` |
| refresher | three postponed refreshes, ZQCS, any grant latency up to 5, tREFI 100 | `SequenceLegal`, `ReleaseSafe`, `BacklogBounded` |
| crossbar | 2 masters, one of which reads and writes, 2 banks, FIFO of 2 | `SlotsReachOwner`, `OneBankPerMaster`, `NoCommandStuck` |
| address mapping | geometries around the auto-precharge bit, one or two ranks, four alignments | `NoAliasing`, `ColumnLegal`, `BankChangesAligned` |
| spacing | every chip, speed grade and refresh mode and two SPD DIMMs; the clocks of the latency tables, the rates and the phases of the PHYs; 5 commands | `SpacingCovered`: each command against all earlier ones |
| initialisation | every memory type with its latencies, refresh modes, DLL off; single, RDIMM and clam shell boards | `DevicesConfigured`: what the chips hold when the header has run, and that a chip's own precharge is over when the bank machine activates the bank again |
| commands | every single command with walking ones in its fields; 3 commands in 11 phases, masked writes or not | `CommandsReachDevice`: the device decodes what was meant, when it should |
| WCK | every frequency range of both ratios, unbounded in time | `BurstsClocked` |
| write data | every CWL of DDR2, DDR3 and DDR4 on seven PHYs, unbounded in time | `DataMeetsCommand` |
| rate converter | ratios 2 and 4, latencies around them, unbounded in time | `DataMeetsCommand` (`ConverterMeetsPhy`) |
| simulated PHY | a chip of each of five memory types, a careful and a hasty controller, 5 commands | `ModelIsMemory`, `AlarmsTrue` |
| bandwidth | periods of 2 cycles, any offers and updates | `PeriodsCounted` |

`MCParts` is one specification: an initial state chooses the part, and the variables of the
others keep their first values. `SlotsReachOwner` includes `GrantHeldWhilePending`, by
which it comes about.

Bounds, and why they are enough. `Cap` is the largest timing: an older command
constrains nothing. Timings of the timing controllers go through the widths 1 to 3 bits of the
counter, with values below, at and above each power of two. Two rows are one hit and
one miss. A FIFO of two entries is empty, partly full and full while `cmd_buffer` holds a
third request. `MaxInFlight` (3) lets one bank hold a request, a look-ahead and a
third while others work, or both banks compete. `MaxGrant` is a parameter of the
environment: a round must fit into tREFI (an assumption, which the code makes by
requiring tREFI >= 100). In the `controller` run tREFI is 12, far below what the code
accepts, so that refreshes meet every stage of the row cycle. In `AddressMapping` the
auto-precharge bit is a constant, small in the instance, so that columns end below,
at and beyond it. `GeometryAssumption` says that the bank alignment does not exceed the size of a bank;
a larger one would make addresses alias. Rows of `Controller` are symmetric: rows are only
compared with each other. No symmetry is used for liveness.
In the stream FIFO the ring and the DMA's FIFOs have one or two places, so that each is
empty, full and wraps; the pre- and post-FIFO have the smallest depth the code allows
(two words). `Ordered` compares the whole contents at every step, so that an item
numbered wrongly is seen unless the number it has is the one it should have: a word
overwritten in the ring is `depth` items older than the new one, and three item numbers
tell them apart for a ring of two words (they would not for a ring of three); where only counts matter
(`stream_fifo_wide`) there is one.

In the front ends a memory of four cells is two words of the wider or four of the narrower
width, so that a command meets a command for the same word, for its neighbour and for another
one. Two commands in the port and two words on their way back let data of a first command arrive
while a second is accepted or held. `focus` is one fixed cell: addresses are only compared,
and it is neither the first cell nor the first lane. Bursts of Avalon have up to three
beats, with FIFOs of three; those of AXI two, with buffers of two; the LFSR of the BIST has
3 bits in place of 31, and its error counter is compared exactly. Users ask for one to two things at a time
and otherwise do what they like in each cycle.

Walks of five commands (`SpacingSteps`) are an activate, two accesses with a change
of direction, a precharge and a refresh or an activate; every timing of the data sheet
lies between two of five such commands, and tFAW needs five activates. Single commands
go through a walking one, all zeros and all ones in every field; the field is copied bit by
bit, so that a swapped or lost bit shows. Streams of three commands in eleven phases reach
from the last phase of a cycle over a whole one into the third, which is the longest
history the pipeline keeps. `period_bits` is 1: boundaries of periods follow each other, and the counters,
one bit wider, hold exactly a full period.

Fairness. The only fairness of the circuits is that the clock does not stop (weak
fairness of the clock edge: `WF_vars(Next)` in `RefresherSystem`, of the refresh timer,
which moves at every edge, in `Controller`, and of the registers of the circuit in
`Crossbar`, so that masters are not forced to ask). `Crossbar` also assumes that a bank with a request
eventually performs it (`SF_bufs(Perform(p))`), which is `RequestsServed` of
`Controller`. In `controller_live` masters are not assumed to stop: bank 0 may be read
and bank 1 written without pause. The property fails when `read_time` and
`write_time` are 0, that is, without the anti-starvation timers. Refreshes are 26
cycles apart there: when they follow each other as fast as in the safety run (which
the code rejects) a row cycle may not fit between two of them.

In `StreamFifo` the user of the FIFO takes what the source offers and is never forced to
put anything into the sink; the ports accept what they are asked (`NoCommandStuck` of
`Crossbar`) and perform what they accepted (`RequestsServed` of `Controller`; strong
fairness per kind of command, because a command may be overtaken).

In `parts` only `NoCommandStuck` needs fairness, and it is the one of `Crossbar` above.

`frontends_live` assumes that the user's clock runs; that the controller accepts a command that
is held, performs what it accepted and returns what it read (weak fairness of the
edges in which it does: it may choose the cycle and may do so in any cycle; this is
`RequestsServed` with `NoCommandStuck`); and that `run_cascade_in` of the BIST is not held low for ever.
Users are never forced to ask. Data does not matter there, so that words have one value; ECC, which needs
two and passes the port's handshakes on, and the plain BIST, which the pattern variant
and the one with two clocks contain, are left out.

The deadlock check is off in `parts` only: walks and streams have a bounded number of commands, an
initialisation ends, and the addresses of a geometry are looked at once. In all the other runs a clock
edge is always possible, and the circuits among the parts (timing controllers,
refresher, crossbar, WCK, write data, converter, bandwidth) always have one by construction.

### Where the code and its documentation differ

- `controller_tras`: `refresh_gnt` waits for the write recovery, not for tRAS
  (`bankmachine.py:243`), although its docstring says "satisfying timings". The
  activate is followed by the refresher's precharge at the earliest tRCD + 3 cycles
  later, so the timing holds while tRAS <= tRCD + 3 (the `controller` run is at
  that bound) and fails above it.
- `refresher_zqcs`: the request for a ZQ calibration lasts one cycle and is looked at only
  in the cycle in which a refresh ends (`refresher.py:290`). With a period that is a
  multiple of tREFI the two never meet, and the README's periodic calibration
  does not happen.
- `stream_fifo_switch`: the FSM leaves DRAM mode when its count of words is 0
  (`fifo.py:370`). A word that became complete in the up-converter in the cycle in which
  the last one left the down-converter is not counted yet and `dram_inc_mod` is already 0
  again, so the FSM goes to bypass with a word still on the long way, against the
  docstring ("Once we no longer have data in the Pre-Converter/DRAM FIFO/Post-Converter
  path").

  It needs a port wider than the stream. With equal widths the FIFO is correct (`stream_fifo`).
- `axi_rmw`: a partial word starts its read-modify-write when no *command already sent* is
  waiting for data (`axi.py:148`, `:314`), although the comment at `axi.py:168-169` says "Before issuing
  the RMW sequence, we must ensure that all pending writes/reads access have been done". In a
  burst of a full and a partial word the full one may wait in `w_buffer` with its address still at
  `aw`: the sequence for the second word reads and merges at the first one's address. With
  one word at a time, its data never before its address, the bridge is correct (`frontends`).
- The write recovery (WR) of MR0, which a chip waits for before it precharges by itself, is computed from
  tWTR (`init.py:227` for DDR3, `:433` for DDR4), although both lines say `# >= ceiling(tWR/tCK)`. It is too short at many
  clocks and ratios: for a tWR of 15 ns, 8 clocks in place of 12 for DDR3-1600 at 1:2, 12 in place of 18 for
  DDR4-2400 at 1:4. `WriteRecoveryCovered` of `DeviceInit` compares what the chip has decoded with tWR of
  `ModuleDatabase`; it does not hold and no run claims it. TLC refutes it in seconds on `DeviceInit` alone, with
  `SPECIFICATION InitSpec`, `SpacingModules <- Chips`, `SpacingSteps = 5` and `CHECK_DEADLOCK FALSE`: the first chip found
  is a DDR3 one at 1:2 and 2500 ps, with 5 clocks in place of 6. What `DevicesConfigured` asks of WR is the
  other side, `OwnPrechargeOver`: the chip's own precharge is over when the bank machine, which waits for a tWTP computed from
  tWR, activates the bank again. It is the chip that closes the row too soon.

Limits of what the runs claim, which the models show when the constants are changed:

- `Crossbar` is checked with `cmd_buffer_buffered` off, the default. With it a request is inside the
  FIFO for a cycle before it is at its output, `lock` is low in that cycle
  (`bankmachine.py:125`), and `OneBankPerMaster` fails.
- `Ordered` and `Delivered` are claimed for equal widths only. With two items per word
  the change to bypass above breaks the order; the padded last word is offered to the
  DRAM FIFO while the pump gives it to the down-converter (`fifo.py:396`); and DRAM
  mode may be entered with less than a word, because the bypass takes an item in the cycle
  in which the threshold is tested (`fifo.py:322`), and this item waits for more input.
- `dram_cnt` has the width of the port's addresses (`fifo.py:311`) and counts the words in the ring and those asked for by the
  reader. A ring that fills the address space of the port up to less than `reader_fifo_depth` words makes it wrap to zero,
  and the FSM changes to the bypass with words in the DRAM: with `cnt_modulus = 4`, `depth = 2` and
  `reader_fifo_depth = 2` in place of 256, `Ordered` is violated, and with 5 it holds.
- `CommandsReachDevice` is claimed for the overlap check the PHYs build by default. The extended one
  (`phy/utils.py:183-188`) looks at a history that begins with the cycle before, so that a
  command that was dropped because of one further back counts as sent: with
  `OverlapChecks = {TRUE}` and `StreamCommands = 4`, commands at phases -1, 2, 5 and 8 end with two on the
  pins at once, against the docstring at `phy/utils.py:150-154`.
- `SpacingCovered` asks for the minimum *times* of all pairs of commands, for the minimum *clocks* only of
  pairs without a change of direction between them: counts of clocks are rounded up without a margin for
  the phases, and reads and writes leave in different ones.
- `DataMeetsCommand` leaves out settings in which the write latency is one cycle (`HasPreambleTap`; DDR2 at 1:4 with
  CWL up to 4): the preamble then looks at `taps[-1]`, the last tap (`s7ddrphy.py:531`).
- `BurstsClocked` is claimed for bursts that follow each other as the controller spaces them (tCCD of a masked write
  is 32 clocks), or closer for unmasked ones of one kind, but not in the clocks in which WCK is being let
  go: a command there is not synchronised (`test/test_lpddr5.py:502-503` keeps a "minimum latency to have correct wck synchronization").
- `AlarmsTrue` is about tRRD and tFAW exactly, and about false alarms for the rest. The checker misses others by
  construction: it compares with the last command of the bank only (tRAS after a read, tWR after a read) and
  counts tWR without the write latency.

What users and settings are assumed to do:

- A Wishbone master on the plain bridge may give up a read, never a write: its data is taken from the bus when the
  port fetches it. An Avalon master does not pause within a write burst.
- The crossing between clocks has room in its write FIFO for every command in its command FIFO and in the port
  (`CdcAssumption`; the defaults 4 and 16 do for up to 12 commands in the controller).
- An AXI master has one burst of each kind under way: nothing reads `resp_buffer.sink.ready`, so that more
  than `buffer_depth` responses waiting would lose one.
- A DMA reader is enabled again only when nothing of the last run is under way; the length of a BIST is at least
  one word.

Things in the source a reader may meet, which the models follow or leave out: the mask for random addresses of the BIST is
`end - base` in bytes, applied to words; its docstring counts DRAM words where bytes are meant. `we_error` of ECC is
raised by every write (`ecc.py:62-63` compare with `2**w//8-1`, which is `(2**w)//8 - 1`; left out). `init.py` reads `rtt_nom`, the settings
store `rtt` (`common.py:240`); WR of DDR2 is a constant. The Python header ignores clam shells, so that only the C header is checked for
them; on a DDR4 clam shell only BA0 and BA1 are swapped in the bank address. Write recovery of RPC is not encoded and the delays
of LPDDR4 and LPDDR5 assume 200 MHz (both marked in the source). `multiplexer.py:281-286` adds nothing to the write to read
time when tCCD is None. Some chips carry odd entries (tRFC of K4T1G164QGBCE7, tRP of IS42S32800J6, tRRD of
IS42VM32160G), taken as they are.

## Proofs

`TimingProofs`, `BankMachineProofs`, `SingleBankProofs`, `RefresherProofs`, `ControllerProofs`, `CrossbarProofs`,
`StreamFifoProofs` and `FrontendProofs` are checked by TLAPS. The constants are
arbitrary up to the named assumptions: timings are naturals, tRP, tRCD, tWTP, tRFC
positive, `Cap` no smaller than any of them, the FIFO has at least two entries, there
is a row. `Timings` of `TimingMonitor` is any set of naturals for which `CountModulus`
is large enough (`WidthAssumption`, which TLC evaluates on the instance: the width of
a register is given by a power of two, on which the provers cannot reason).

- `TimerNotEarly`, `TimerNotLate` and `FourActivates`. Inductive invariant `IInv` of `TimingMonitor`: while
  fewer than `txxd` cycles have passed the counter holds exactly the rest
  (`CountHoldsRemaining`), and `ready` leaves room for one more activate
  (`ReadyMeansRoom`). The step for the window needs the cardinality of a shifted set
  (`KeptWindow`, `ShiftWindow`). For `TimerNotLate` the counter has no more than the rest to go
  even when it wraps (`RoundHoldsRemaining`).
- `Typed`, `CommandsAreLegal`, `RowCyclesHaveRequests`, `RefreshGrantsAreSafe` of `SingleBank`. None of
  these properties but the type is inductive, because the bank machine does not see the
  DRAM. `InStep` of `BankMachine` adds what relates the two: each timer agrees with
  the age the DRAM counts (`TimersAgree`); each state of the FSM implies what the bank is
  doing and how long it still has to wait (`BankAgrees`: in `TRP`, for example,
  `tRP <= bank.pre + s.wait`); the refresher finds the bank as it left it
  (`PhaseAgrees`); and a row cycle has its request (`RequestHeld`). In `AUTOPRECHARGE` the invariant is that the bank is
  active exactly while its self-precharge is pending: the DRAM precharges in the very
  cycle in which the FSM leaves. `BankMachineProofs` proves that a clock edge keeps `InStep`
  (`EdgeStep`), for one bank machine, one bank, any move of the refresher that
  `PhaseMoves` allows and any `cmd.ready`, with one lemma per state of the FSM
  (`RegularStep`, ..., `RefreshStep`), and that what the bank machine presents is legal (`PresentedIsLegal`). They
  hold for both values of `cmd_buffer_buffered` and `with_auto_precharge`.
- `ServesInOrder`: `Spec => InOrder`, the refinement of `RequestQueue`. FIFO, output register and
  `cmd_buffer` form one queue (`Pending`); `PendingStep` shows that the edge removes its head
  exactly when a column command is accepted and appends what arrives, whatever moves between the
  three buffers, and `AccessIsRequest` that the row open in the DRAM is the one the head asks for.
  The latter needs `IInv`, so that the refinement rests on the safety proof.
- `LegalSequence`, `SafeRelease`, `BoundedBacklog` of `RefresherSystem`, for every number of postponed
  refreshes and every timing, with or without calibrations. The properties speak of ages the
  circuit does not see. `IInv` first relates the registers to each other (`SequencerAgrees`: what state
  and timelines say of the command registers, and the sequence that runs by itself after
  power-on, which is over before the first request), then the ages to the timelines
  (`PrechargeAged`, `RefreshAged`, `ZqcsAged`), then the round to what the DRAM has received (`RoundAgrees`)
  and the time since the request to its progress (`BacklogAgrees`). Hypotheses:
  `PowerOnAssumption`, that the sequence of power-on fits into tREFI when refreshes are postponed, and
  `SystemAssumption`, that a round does, with the multiplexer granting within `MaxGrant`.
  `BoundedBacklog` is stated for `with_refresh`: without it nothing is refreshed.
- `BanksAcceptCommands`, `RefreshIsExclusive`, `RankTimingsHold`, `PrechargesHoldTRAS` of `Controller`, for any
  number of banks and phases, any timings, any number of postponed refreshes, with calibrations or without.
  The controller is not an instance of `SingleBank`, whose refresher is free, nor of `RefresherSystem`, whose
  multiplexer is. `IInv` of `ControllerProofs` holds what makes the parts meet: the registers of the refresher
  (`SequencerAgrees`, of `RefresherProofs`, where `granted` is now the REFRESH state of the multiplexer); the hand-over
  (`HandOver`: the multiplexer is in REFRESH only while every bank machine is, and a bank machine waits
  in REFRESH only while the refresher waits); and `InStep` for every bank, where the phase is no
  longer a variable but computed from the refresher's timeline (`Phase`). `PhaseStep` shows that what the refresher's
  registers do is one of the `PhaseMoves`; with it and `GivenToBank` (the steerer takes at most one source per bank, and a
  chooser accepts only what its grant presents) the lemmas of `BankMachineProofs` apply to every bank.
  `GivenIsLegal` is the first theorem.
  `RankInv` adds the timings between banks: the three timers agree with the ages (`RankTimers`), the turnaround
  states have still to wait as long as the timings ask (`Turnaround`), and, since the multiplexer returns from REFRESH to READ
  without a turnaround (`multiplexer.py:394-396`), a refresh takes longer than tWTR (`RefreshOutlastsWrite`). That one needs the second part of
  `RankAssumption`, `tWTRtotal <= tWTP + tRP + tRFC + 1`, which nothing in the code checks and every chip fulfils (tRFC alone is
  longer).
  `RasInv` measures the latency that stands in for tRAS before a refresh: a bank machine enters REFRESH at the earliest
  tRCD + 1 cycles after the activate, and multiplexer and refresher take one more cycle each. Therefore the hypothesis
  `tRAS <= tRCD + 3` of `PrechargesHoldTRAS`, which is sharp (`controller_tras`).
- `SlotsOfOwner`, `OneBank` of `Crossbar`, for any number of masters and banks and any depth.
  Every request pending in a bank belongs to the master its arbiter grants (`BuffersOwned`), and no
  master holds the grants of two locked banks (`OneBankHeld`). Two proofs meet there: that the arbiter
  keeps its grant while a request is pending, and that a master is let through to a bank only when no other
  bank is locked for it. They hold for `cmd_buffer_buffered = FALSE`, a hypothesis, because with it
  `lock` is low for a cycle and the property fails (see above).
- `AddressesApart`, `ColumnsAreLegal`, `BanksChangeAligned` of `AddressMapping`, for every geometry that fulfils
  `GeometryAssumption`: sizes divide each other where powers of two do, a burst ends below the auto-precharge bit, and the bank
  alignment is no larger than a bank. Nothing else of powers of two is used. `Located` writes an address as
  `cba_size * (banks * high + bank) + low`, and what the bank receives, `cba_size * high + low`, as `page * row + column`
  (`PlaceOf`); it includes that `high` is below the number of blocks in a bank, so that neither the cut to
  `rca_size` nor the one to the rows drops anything. `DivisionUnique` then leads back from equal places to equal
  addresses. `ColumnCases` does the same for the column around the auto-precharge bit (`SplitOf`).
- `ReadDataKept`, `WriteDataReady`, `PointersConsistent`, for every depth of the ring and of
  the DMA's FIFOs, and every set of words. `DramSpec` leaves the sink, the source and the
  ports entirely free, so the results hold whatever `StreamFifo` does around it. The
  inductive invariant is `Balance`: types and the three properties together. None of the
  three is inductive alone: that a read may be issued needs the room, that a write may be
  performed needs the data, and the level in its range needs the pointers. The work is in counting the
  commands of a kind under way: one more when a command is appended (`CountAppend`), one less
  when one is removed anywhere in the sequence (`CountRemove`, by a bijection), and
  both together in `PortEdge`.
- `StaysInOrder`: `Spec => Ordered`, the refinement of `RequestQueue` by the whole stream FIFO, for every depth of the
  ring and of the DMA's FIFOs, every set of items, with the bypass or without. The argument has two layers.
  The first numbers the words: `Ring` says that there are numbers for the commands under way (`Held`, `Numbered`) such that the
  command numbered `n` is for slot `n % depth`, the reads under way have the numbers from `r0` to `r1 - 1`, the writes those
  from `w0` to `w1 - 1`, commands of one kind are under way in their order, the read of a word stays behind its write, and the write
  that reuses a slot behind the read of the word it replaces (`Sequenced`). These last two are what makes the ring correct
  on a port that performs commands out of order: they hold because the port keeps the order of commands for one
  address, and because a FIFO word is asked for only after its write was issued (`level`). `Performed` and `Issued` show
  that a step keeps the numbering, `Layout` that the contents are the words numbered `r0` to `w0 - 1` in the memory between the
  reader's and the writer's FIFO, and `RingEdge` that a step takes at most the oldest word and adds at most a new one, in order.
  The second adds the circuit around it: between equal widths the converters are wires (`Wires`), and the FSM is in
  BYPASS only when `dram_cnt`, which counts the words in the DRAM and in the reader, says there are none (`Counted`).
  `FlowEdge` follows the items from pre- to post-FIFO in either mode, `CountedEdge` the counter.
- `SwitchesEmpty`: `Spec => LeavesDramEmpty` under the same hypotheses. The run `stream_fifo_switch` violates this property
  with two items per word; the theorem shows that the conversion alone is to blame.
- `DataInTime`, `RoomInTime` of `Frontends`: `WritesFindData` and `ReadsFindRoom` for every front end: the
  converters, the clock domain
  crossing, the Wishbone bridges (single accesses, bursts, wide, and a native user on a slave), the Avalon bridge, the AXI
  bridge with and without read-modify-write, the DMA engines, the three BISTs and the ECC port. The hypotheses are the named
  assumptions alone: any number of commands under way, any depth of the FIFOs, any address and word the properties
  follow. The port never waits for data or room, so each bridge must have
  them whenever the port asks, at a time of the port's choosing. `Writes` and `Reads` count what the port still owes,
  in its command queue and in the words to fetch and to return; `PortEdge` says how one cycle changes the counts,
  `Served` that a front end with data and room for all of them is in time for the next. The invariant
  of a bridge is its books: what its registers say of the two counts (`DmaBooks`, `WbBooks`, `BurstBooks`, `AvBooks`,
  `CdcBooks`, `EccBooks`, `DownBooks`, `UpBooks`, `WideBooks`, `AxiBooks`, `BistBooks`; a Wishbone slave leaves its port idle). A DMA reader has
  reserved room for what it asked for; a Wishbone cycle has one command under way at most; behind a converter a
  command is a group of words, some of which may have passed already.
  AXI is the longest: a read-modify-write reads and writes past the FIFOs that the other commands reserve, and
  pushes its own command and word in either order. It starts only when both levels are zero, hence when nothing is under way
  (`WritesKept`, `ReadsKept`), and the bridge issues nothing else until it is over (`AxiServes`, `AxiTurn`).
  The BIST needs software in the invariant. A reset empties a FIFO whatever is still under way, so a core may be reset
  only when it is at rest; generator and checker share the port, so one of them may run at a time. `Script` says what
  holds of the cores in each of software's seven steps with the strobes still on their way, `Follows` how late the
  `done` that software sees may be: stable, or behind a reset, or behind the end of a run. `SoftwareGoes`, `CoresFollow`
  and `SeesCores` show that neither clock can break this: a run is started only when the strobe of the reset
  is through or before it, and the next core is reset only when the last is done. A generator of a pattern is done while its last
  writes are under way (it has no `AWAIT_FIFO_EMPTY`). They are over when the checker is done, since the
  port performs commands in order (`WritesFirst`) and the checker has read its last word; only then may software
  reset the generator and its FIFO again (`WritesOver`).

`StaysInOrder` and `SwitchesEmpty` have two hypotheses. `data_width_ratio = 1`: with a conversion the order fails (see the limits above).
`depth + reader_fifo_depth < cnt_modulus`: `dram_cnt` must not wrap. It is sharp (see the limits above): when the sum
reaches `cnt_modulus` the FSM may see an empty DRAM that holds a full ring.

Only model-checked: `Delivered` of the stream FIFO; `ReadsSeeWrites` of the front ends; the devices; liveness
(the prover does not reason about fairness or `ENABLED`). `TypeOK` of `Controller` and `StreamFifo` is no
run's property.
The properties of `ModuleDatabase` and `InitSequence` are about tables: there is nothing to prove
beyond their entries.

## Plan

1. Done: the controller core; the stream FIFO with its DMA; adapters, bridges, DMA, BIST and
   ECC on native ports; data base, settings, initialisation, command pins, WCK, write path, rate converter,
   simulated PHY, bandwidth counter; theorems about timing controllers, bank machine, refresher, controller, crossbar, address mapping,
   DRAM FIFO, stream FIFO, and the front ends.
2. Prove next: `ReadsSeeWrites` of a front end; `ConverterMeetsPhy` for any ratio. `PeriodsCounted` is about a
   fold over a list, for which the provers would need induction over data.
3. Model next: read data of the PHYs, the strobe sequencer of RPC, `DDR4DFIMux`, the ticks counters of the BIST.

## Not modelled

- `phy/usnative`: its FSMs move at the pace of vendor primitives (BITSLICE_CONTROL, the RIU, FIFOs of the bit
  slices) whose behaviour the repository does not contain.
- `gen.py`: option parsing and wiring of existing parts.
- Of the PHYs: serialisers, delay lines and other primitives; bit slip and delays, which software calibrates; read data;
  the data paths of `s6ddrphy.py` and `gensdrphy.py`; the strobes and data of RPC; a positive `cmd_latency`, with which
  `s7ddrphy.py` and `usddrphy.py` may compute a negative phase.
- `DDR4DFIMux` of `phy/dfi.py`; captured read data of `dfii.py`.
- Of `phy/model.py`: initial memory contents, the delay of read data, the alarms about tREFI (`model.py` compares the
  number of postponed refreshes the wrong way round and mixes `&` with `==`), auto-precharge, which the simulated
  bank ignores.
- Mode register reads of LPDDR4 and LPDDR5, and the simulators' own checks of open rows.
- The steerer's register, chip selects and the data path of the multiplexer; columns and data in the core.
- Delays, names and comments in the generated headers; floating point rounding.
