-------------------------------- MODULE Dfi --------------------------------
(* DFIRateConverter and phy_wrapper of litedram/phy/dfi.py, with the          *)
(* Serializer and the Deserializer of litedram/phy/utils.py: a PHY that runs  *)
(* on a clock `ratio` times as fast as the DFI that is shown to the           *)
(* controller.  A slow cycle is `ratio` clocks of the PHY.                    *)
EXTENDS DeviceSpacing

WriteLatencies == 0..3      \* of the wrapped PHYs, in clocks of the PHY
ReadLatencies == {1, 3, 4}
Conversions == {2, 4}

ser_latency == 1
des_latency == 2
\* phy_wrapper: the clock of a slow cycle that carries data, and the new settings.
write_delay(phy, ratio) == phy.write_latency % ratio
read_delay(phy, ratio) == phy.read_latency % ratio
wrapped_write_latency(phy, ratio) == phy.write_latency \div ratio
wrapped_read_latency(phy, ratio) == (phy.read_latency \div ratio) + ser_latency + des_latency

Line(length) == [k \in 1..length |-> 0]
ShiftIn(line, x) == [k \in DOMAIN line |-> IF k = 1 THEN x ELSE line[k - 1]]
Longest(line, x, k) == IF k = 0 THEN x ELSE line[k]

(* A command is its number, 0 is none; its data carries the same number.      *)
(* inputs are what the slow DFI has in this cycle, i_d what the serialisers   *)
(* latched at its beginning; clk counts clocks in the cycle.  writes and      *)
(* reads are the slow commands of earlier cycles, phy_writes and phy_reads    *)
(* those of earlier clocks in the PHY.                                        *)
NoCommand == [write |-> 0, read |-> 0, wrdata |-> 0]
ConverterInit ==
    \E phy \in [write_latency : WriteLatencies, read_latency : ReadLatencies], ratio \in Conversions :
        dev = [ phy |-> phy, ratio |-> ratio, clk |-> 0, last |-> 0, inputs |-> NoCommand, i_d |-> NoCommand,
                writes |-> Line(wrapped_write_latency(phy, ratio)), reads |-> Line(wrapped_read_latency(phy, ratio)),
                phy_writes |-> Line(phy.write_latency), phy_reads |-> Line(phy.read_latency),
                o_pre |-> [k \in 0..(ratio - 1) |-> 0], o_pre_d |-> [k \in 0..(ratio - 1) |-> 0],
                o |-> [k \in 0..(ratio - 1) |-> 0] ]

(* Serializer: commands of the first phases leave in the first clock, data in *)
(* the clock write_delay.                                                     *)
phy_write == IF dev.clk = 0 THEN dev.i_d.write ELSE 0
phy_read == IF dev.clk = 0 THEN dev.i_d.read ELSE 0
phy_wrdata == IF dev.clk = write_delay(dev.phy, dev.ratio) THEN dev.i_d.wrdata ELSE 0
phy_rddata == Longest(dev.phy_reads, phy_read, dev.phy.read_latency)
rddata == dev.o[read_delay(dev.phy, dev.ratio)]

(* Deserializer: the parallel side takes all chunks but the last from a       *)
(* register, because the last is written at the same edge as it is read.      *)
\* Mutant: all of them as they are.
deserializedAtOnce(d) == d.o_pre
deserialized(d) == [k \in 0..(d.ratio - 1) |-> IF k = d.ratio - 1 THEN d.o_pre[k] ELSE d.o_pre_d[k]]

Clk(d) ==
    [d EXCEPT !.clk = (@ + 1) % d.ratio,
              !.phy_writes = ShiftIn(@, phy_write), !.phy_reads = ShiftIn(@, phy_read),
              !.o_pre = [@ EXCEPT ![d.clk] = phy_rddata]]
(* The edge that both clocks share: a cycle of the slow side.                 *)
Clkdiv(write, read) ==
    LET writes == ShiftIn(dev.writes, dev.inputs.write)
        latency == wrapped_write_latency(dev.phy, dev.ratio)
    IN [Clk(dev) EXCEPT
          !.inputs = [write |-> write, read |-> read, wrdata |-> Longest(writes, write, latency)],
          !.last = IF write + read = 0 THEN @ ELSE write + read,
          !.i_d = dev.inputs, !.writes = writes, !.reads = ShiftIn(@, dev.inputs.read),
          !.o_pre_d = dev.o_pre, !.o = deserialized(dev)]
ConverterNext ==
    \/ dev.clk < dev.ratio - 1 /\ dev' = Clk(dev)
    \/ /\ dev.clk = dev.ratio - 1
       /\ LET number == 1 + (dev.last % 2)
          IN \E command \in {<<0, 0>>, <<number, 0>>, <<0, number>>} : dev' = Clkdiv(command[1], command[2])

-----------------------------------------------------------------------------
(* The data of a write is at the PHY in the clock in which the PHY wants it,  *)
(* write_latency of the PHY after the command; and the DFI shows read data in *)
(* the cycle the new settings say, and in no other.                           *)
ConverterMeetsPhy ==
    /\ LET write == Longest(dev.phy_writes, phy_write, dev.phy.write_latency)
       IN write # 0 => phy_wrdata = write
    /\ rddata = dev.reads[wrapped_read_latency(dev.phy, dev.ratio)]
=============================================================================
