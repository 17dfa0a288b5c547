--------------------------- MODULE ModuleDatabase ---------------------------
(* litedram/modules.py: what the data sheets of the DRAM chips and modules    *)
(* say, and the settings in controller cycles that are computed from it.  A   *)
(* timing is <<DRAM clocks, picoseconds>>, the longer of the two counts; one  *)
(* that a chip does not have is None.                                         *)
EXTENDS Integers, TLC

None == <<>>
CK(clocks) == <<clocks, 0>>
NS(picoseconds) == <<0, picoseconds>>

\* The fine refresh modes; only DDR4 has them.
Plain(t) == [mode \in {"none"} |-> t]
Fine(t1, t2, t4) == [mode \in {"1x", "2x", "4x"} |-> CASE mode = "1x" -> t1 [] mode = "2x" -> t2 [] OTHER -> t4]
FineNS(t1, t2, t4) == Fine(NS(t1), NS(t2), NS(t4))

tREFI8192 == Plain(NS(7812500))
tREFI4096 == Plain(NS(15625000))
tREFIFine == FineNS(7812500, 3906250, 1953125)

Tech(tREFI, tWTR, tCCD, tRRD, tZQCS) ==
    [tREFI |-> tREFI, tWTR |-> tWTR, tCCD |-> tCCD, tRRD |-> tRRD, tZQCS |-> tZQCS]
Grade(speedgrade, tRP, tRCD, tWR, tRFC, tFAW, tRAS) ==
    [speedgrade |-> speedgrade, tRP |-> tRP, tRCD |-> tRCD, tWR |-> tWR, tRFC |-> tRFC, tFAW |-> tFAW, tRAS |-> tRAS]
SDRAMModule(memtype, registered, nbanks, nrows, ncols, tech, grades) ==
    [memtype |-> memtype, registered |-> registered, nbanks |-> nbanks, nrows |-> nrows, ncols |-> ncols,
     technology_timings |-> tech, speedgrade_timings |-> grades]
SDRModule(nbanks, nrows, ncols, tech, grades) == SDRAMModule("SDR", FALSE, nbanks, nrows, ncols, tech, grades)
DDRModule(nbanks, nrows, ncols, tech, grades) == SDRAMModule("DDR", FALSE, nbanks, nrows, ncols, tech, grades)
LPDDRModule(nbanks, nrows, ncols, tech, grades) == SDRAMModule("LPDDR", FALSE, nbanks, nrows, ncols, tech, grades)
DDR2Module(nbanks, nrows, ncols, tech, grades) == SDRAMModule("DDR2", FALSE, nbanks, nrows, ncols, tech, grades)
DDR3Module(nbanks, nrows, ncols, tech, grades) == SDRAMModule("DDR3", FALSE, nbanks, nrows, ncols, tech, grades)
RPCModule(nbanks, nrows, ncols, tech, grades) == SDRAMModule("RPC", FALSE, nbanks, nrows, ncols, tech, grades)
DDR4Module(nbanks, nrows, ncols, tech, grades) == SDRAMModule("DDR4", FALSE, nbanks, nrows, ncols, tech, grades)
DDR4RegisteredModule(nbanks, nrows, ncols, tech, grades) ==
    SDRAMModule("DDR4", TRUE, nbanks, nrows, ncols, tech, grades)
LPDDR4Module(nbanks, nrows, ncols, tech, grades) == SDRAMModule("LPDDR4", FALSE, nbanks, nrows, ncols, tech, grades)

-----------------------------------------------------------------------------
(* The serial presence detect data of a module: bytes, a function from their  *)
(* number.  Fine times are a two's complement byte of fractions of a          *)
(* picosecond, rounded down here to whole ones.                               *)
_read_field(byte, nbits, shift) == (byte \div 2^shift) % 2^nbits
_twos_complement(value, nbits) == IF value >= 2^(nbits - 1) THEN value - 2^nbits ELSE value
_word(msb, lsb) == msb * 256 + lsb
_msn(byte) == _read_field(byte, 4, 4)
_lsn(byte) == _read_field(byte, 4, 0)

DDR3Geometry(b) ==
    [nbanks |-> 2^(3 + _read_field(b[4], 3, 4)), nrows |-> 2^(12 + _read_field(b[5], 3, 3)),
     ncols |-> 2^(9 + _read_field(b[5], 3, 0))]
DDR4Geometry(b) ==
    [nbanks |-> 2^(_read_field(b[4], 2, 6) + 2 + _read_field(b[4], 2, 4)),
     nrows |-> 2^(12 + _read_field(b[5], 3, 3)), ncols |-> 2^(9 + _read_field(b[5], 3, 0))]
\* In picoseconds, as <<medium dividend, medium divisor, fine dividend, fine divisor>>.
DDR3Timebase(b) == <<1000 * b[10], b[11], _read_field(b[9], 4, 4), _read_field(b[9], 4, 0)>>
DDR4Timebase == <<125, 1, 1, 1>>
txx(base, mtb, ftb) == (mtb * base[1]) \div base[2] + (_twos_complement(ftb, 8) * base[3]) \div base[4]

Abs(x) == IF x < 0 THEN -x ELSE x
DDR3Grades == {800, 1066, 1333, 1600, 1866, 2133}
DDR4Grades == {1600, 1866, 2133, 2400, 2666, 2933, 3200}
\* The transfer rate in MHz is 2 / tck, within 2 of a known one.
speedgrade_freq(grades, tck) == CHOOSE f \in grades : Abs(2000000 - f * tck) < 2 * tck

DDR3SPDData(b) ==
    LET T(mtb, ftb) == txx(DDR3Timebase(b), mtb, ftb)
    IN SDRAMModule("DDR3", FALSE, DDR3Geometry(b).nbanks, DDR3Geometry(b).nrows, DDR3Geometry(b).ncols,
         Tech(tREFI8192, <<4, T(b[26], 0)>>, CK(4), <<4, T(b[19], 0)>>, <<64, 80000>>),
         {Grade(ToString(speedgrade_freq(DDR3Grades, T(b[12], b[34]))),
                NS(T(b[20], b[37])), NS(T(b[18], b[36])), NS(T(b[17], 0)),
                Plain(NS(T(_word(b[25], b[24]), 0))), NS(T(_word(_lsn(b[28]), b[29]), 0)),
                NS(T(_word(_lsn(b[21]), b[22]), 0)))})
\* The least tFAW in clocks depends on the size of a page.
tfaw_min_ck(ncols, width) ==
    LET page == (ncols * width) \div 8
    IN CASE page = 512 -> 16 [] page = 1024 -> 20 [] page = 2048 -> 28
DDR4SPDData(b) ==
    LET T(mtb, ftb) == txx(DDR4Timebase, mtb, ftb)
        g == DDR4Geometry(b)
    IN SDRAMModule("DDR4", FALSE, g.nbanks, g.nrows, g.ncols,
         Tech(tREFIFine, <<4, T(_word(_msn(b[43]), b[45]), 0)>>, <<4, T(b[40], b[117])>>,
              <<4, T(b[39], b[118])>>, <<128, 80000>>),
         {Grade(ToString(speedgrade_freq(DDR4Grades, T(b[18], b[125]))),
                NS(T(b[26], b[121])), NS(T(b[25], b[122])), NS(T(_word(_lsn(b[41]), b[42]), 0)),
                Fine(NS(T(_word(b[31], b[30]), 0)), NS(T(_word(b[33], b[32]), 0)), NS(T(_word(b[35], b[34]), 0))),
                <<tfaw_min_ck(g.ncols, 4 * 2^_read_field(b[12], 3, 0)), T(_word(_lsn(b[36]), b[37]), 0)>>,
                NS(T(_word(_lsn(b[27]), b[28]), 0)))})
\* from_spd_data; byte 2 is the type of the memory.
from_spd_data(b) == IF b[2] = 11 THEN DDR3SPDData(b) ELSE DDR4SPDData(b)

-----------------------------------------------------------------------------
(* The chips and modules, one definition each.                                *)
IS42S16160 == SDRModule(4, 8192, 512,
    Tech(tREFI8192, CK(2), CK(1), None, None),
    {Grade("default", NS(20000), NS(20000), NS(20000), Plain(NS(70000)), None, None)})
IS42S16320 == SDRModule(4, 8192, 1024,
    Tech(tREFI8192, CK(2), CK(1), None, None),
    {Grade("default", NS(20000), NS(20000), NS(20000), Plain(NS(70000)), None, None)})
IS42S32800J6 == SDRModule(4, 4096, 512,
    Tech(tREFI8192, CK(2), CK(1), NS(12000), None),
    {Grade("default", NS(3000), NS(3000), NS(12000), Plain(NS(60000)), None, NS(42000))})
IS42VM32160G == SDRModule(4, 8192, 512,
    Tech(tREFI8192, CK(2), CK(1), CK(12), None),
    {Grade("default", NS(18000), NS(18000), NS(15000), Plain(NS(80000)), None, NS(42000))})
MT48LC4M16 == SDRModule(4, 4096, 256,
    Tech(tREFI8192, CK(2), CK(1), None, None),
    {Grade("default", NS(15000), NS(15000), NS(14000), Plain(NS(66000)), None, None)})
HY57V641620FTP == SDRModule(4, 4096, 256,
    Tech(tREFI4096, CK(2), CK(1), NS(14000), None),
    {Grade("default", NS(21000), NS(21000), CK(2), Plain(NS(63000)), None, NS(42000))})
MT48LC16M16 == SDRModule(4, 8192, 512,
    Tech(tREFI8192, CK(2), CK(1), NS(15000), None),
    {Grade("default", NS(20000), NS(20000), NS(15000), Plain(NS(66000)), None, NS(44000))})
MT48LC32M8 == SDRModule(4, 8192, 1024,
    Tech(tREFI8192, CK(2), CK(1), NS(15000), None),
    {Grade("default", NS(20000), NS(20000), NS(15000), Plain(NS(66000)), None, NS(44000))})
AS4C4M16 == SDRModule(4, 4096, 256,
    Tech(tREFI4096, CK(2), CK(1), NS(14000), None),
    {Grade("default", NS(22000), NS(21000), NS(20000), Plain(NS(63000)), None, NS(42000))})
AS4C16M16 == SDRModule(4, 8192, 512,
    Tech(tREFI8192, CK(2), CK(1), None, None),
    {Grade("default", NS(18000), NS(18000), NS(12000), Plain(NS(60000)), None, None)})
AS4C32M16 == SDRModule(4, 8192, 1024,
    Tech(tREFI8192, CK(2), CK(1), None, None),
    {Grade("default", NS(18000), NS(18000), NS(12000), Plain(NS(60000)), None, None)})
AS4C32M8 == SDRModule(4, 8192, 1024,
    Tech(tREFI8192, CK(2), CK(1), NS(15000), None),
    {Grade("default", NS(20000), NS(20000), NS(15000), Plain(NS(66000)), None, NS(44000))})
M12L64322A == SDRModule(4, 2048, 256,
    Tech(tREFI4096, CK(2), CK(1), NS(10000), None),
    {Grade("default", NS(15000), NS(15000), NS(15000), Plain(NS(55000)), None, NS(40000))})
EM638165 == SDRModule(4, 4096, 256,
    Tech(tREFI4096, CK(2), CK(1), NS(10000), None),
    {Grade("default", NS(15000), NS(15000), CK(2), Plain(NS(55000)), None, NS(40000))})
EM638325 == SDRModule(4, 2048, 256,
    Tech(tREFI4096, CK(2), CK(1), NS(12000), None),
    {Grade("default", NS(18000), NS(18000), CK(2), Plain(NS(60000)), None, NS(42000))})
EM636165 == SDRModule(2, 2048, 256,
    Tech(tREFI4096, CK(2), CK(1), NS(12000), None),
    {Grade("default", NS(18000), NS(18000), CK(2), Plain(NS(60000)), None, NS(42000))})
M12L16161A == SDRModule(2, 2048, 256,
    Tech(tREFI4096, CK(2), CK(1), NS(10000), None),
    {Grade("default", NS(15000), NS(15000), NS(15000), Plain(NS(55000)), None, NS(40000))})
NDS36PT5 == SDRModule(4, 8192, 512,
    Tech(tREFI8192, CK(2), CK(1), <<2, 10000>>, None),
    {Grade("default", NS(15000), NS(15000), NS(10000), Plain(NS(55000)), None, NS(40000))})
W9825G6KH6 == SDRModule(4, 8192, 512,
    Tech(tREFI8192, CK(2), CK(1), NS(10000), None),
    {Grade("default", NS(15000), NS(15000), NS(15000), Plain(NS(60000)), None, NS(42000))})
W9812G6JB == SDRModule(4, 4096, 512,
    Tech(tREFI8192, CK(2), CK(1), NS(12000), None),
    {Grade("default", NS(15000), NS(15000), NS(20000), Plain(NS(60000)), None, NS(42000))})
W9864G6JT == SDRModule(4, 4096, 256,
    Tech(tREFI4096, CK(2), CK(1), NS(12000), None),
    {Grade("default", NS(15000), NS(15000), CK(2), Plain(NS(60000)), None, NS(42000))})
W989D6DBGX6 == SDRModule(4, 8192, 1024,
    Tech(tREFI8192, CK(2), CK(1), NS(12000), None),
    {Grade("default", NS(18000), NS(18000), NS(15000), Plain(NS(72000)), None, NS(42000))})
MT46V32M16 == DDRModule(4, 8192, 1024,
    Tech(tREFI8192, CK(2), CK(1), None, None),
    {Grade("default", NS(15000), NS(15000), NS(15000), Plain(NS(70000)), None, None)})
MT46H32M16 == LPDDRModule(4, 8192, 1024,
    Tech(tREFI8192, CK(2), CK(1), None, None),
    {Grade("default", NS(15000), NS(15000), NS(15000), Plain(NS(72000)), None, None)})
MT46H64M16 == LPDDRModule(4, 16384, 1024,
    Tech(tREFI8192, CK(2), CK(1), None, None),
    {Grade("default", NS(15000), NS(15000), NS(15000), Plain(NS(72000)), None, None)})
MT46H128M16 == LPDDRModule(4, 16384, 2048,
    Tech(tREFI8192, CK(2), CK(1), None, None),
    {Grade("default", NS(15000), NS(15000), NS(15000), Plain(NS(72000)), None, None)})
MT46H32M32 == LPDDRModule(4, 8192, 1024,
    Tech(tREFI8192, CK(2), CK(1), None, None),
    {Grade("default", NS(15000), NS(15000), NS(15000), Plain(NS(72000)), None, None)})
MT47H128M8 == DDR2Module(8, 16384, 1024,
    Tech(tREFI8192, NS(7500), CK(2), None, None),
    {Grade("default", NS(15000), NS(15000), NS(15000), Plain(NS(127500)), None, None)})
MT47H32M16 == DDR2Module(4, 8192, 1024,
    Tech(tREFI8192, NS(7500), CK(2), None, None),
    {Grade("default", NS(15000), NS(15000), NS(15000), Plain(NS(127500)), None, None)})
MT47H64M16 == DDR2Module(8, 8192, 1024,
    Tech(tREFI8192, NS(7500), CK(2), None, None),
    {Grade("default", NS(15000), NS(15000), NS(15000), Plain(NS(127500)), None, None)})
P3R1GE4JGF == DDR2Module(8, 8192, 1024,
    Tech(tREFI8192, NS(7500), CK(2), None, None),
    {Grade("default", NS(12500), NS(12500), NS(15000), Plain(NS(127500)), None, None)})
K4T1G164QGBCE7 == DDR2Module(8, 8192, 1024,
    Tech(tREFI8192, <<4, 7500>>, CK(2), <<4, 10000>>, None),
    {Grade("667", NS(15000), NS(15000), NS(15000), Plain(CK(127)), NS(37500), NS(45000)),
     Grade("800", NS(12500), NS(12500), NS(15000), Plain(CK(127)), NS(35000), NS(45000)),
     Grade("1066", NS(13125), NS(13125), NS(15000), Plain(CK(127)), NS(35000), NS(45000))})
AS4C128M16 == DDR3Module(8, 16384, 1024,
    Tech(tREFI8192, <<4, 7500>>, CK(4), <<6, 6000>>, <<64, 80000>>),
    {Grade("1600", NS(13750), NS(13750), NS(13750), Plain(CK(160)), NS(40000), NS(35000))})
MT41K64M16 == DDR3Module(8, 8192, 1024,
    Tech(tREFI8192, <<4, 7500>>, CK(4), <<6, 10000>>, <<64, 80000>>),
    {Grade("800", NS(13100), NS(13100), NS(13100), Plain(CK(64)), NS(50000), NS(37500)),
     Grade("1066", NS(13100), NS(13100), NS(13100), Plain(CK(86)), NS(50000), NS(37500)),
     Grade("1333", NS(13500), NS(13500), NS(13500), Plain(CK(107)), NS(45000), NS(36000)),
     Grade("1600", NS(13750), NS(13750), NS(13750), Plain(CK(128)), NS(40000), NS(35000))})
MT41J256M8 == DDR3Module(8, 32768, 1024,
    Tech(tREFI8192, <<4, 7500>>, CK(4), <<4, 6000>>, <<64, 80000>>),
    {Grade("800", NS(13100), NS(13100), NS(15000), Plain(CK(64)), NS(50000), NS(37500)),
     Grade("1066", NS(13100), NS(13100), NS(15000), Plain(CK(86)), NS(50000), NS(37500)),
     Grade("1333", NS(13500), NS(13500), NS(15000), Plain(CK(107)), NS(45000), NS(36000))})
MT41K256M8 == DDR3Module(8, 32768, 1024,
    Tech(tREFI8192, <<4, 7500>>, CK(4), <<4, 6000>>, <<64, 80000>>),
    {Grade("1600", NS(13750), NS(13750), NS(15000), Plain(CK(128)), NS(40000), NS(35000))})
MT41J128M16 == DDR3Module(8, 16384, 1024,
    Tech(tREFI8192, <<4, 7500>>, CK(4), <<6, 10000>>, <<64, 80000>>),
    {Grade("800", NS(13100), NS(13100), NS(13100), Plain(CK(64)), NS(50000), NS(37500)),
     Grade("1066", NS(13100), NS(13100), NS(13100), Plain(CK(86)), NS(50000), NS(37500)),
     Grade("1333", NS(13500), NS(13500), NS(13500), Plain(CK(107)), NS(45000), NS(36000)),
     Grade("1600", NS(13750), NS(13750), NS(13750), Plain(CK(128)), NS(40000), NS(35000))})
MT41K128M16 == MT41J128M16
IMD128M16R39CG8GNF == DDR3Module(8, 16384, 1024,
    Tech(tREFI8192, <<4, 7500>>, CK(4), <<4, 7500>>, <<64, 80000>>),
    {Grade("1600", NS(13750), NS(13750), NS(15000), Plain(NS(160000)), NS(40000), NS(35000))})
MT41J256M16 == DDR3Module(8, 32768, 1024,
    Tech(tREFI8192, <<4, 7500>>, CK(4), <<6, 10000>>, <<64, 80000>>),
    {Grade("800", NS(13100), NS(13100), NS(13100), Plain(CK(139)), NS(50000), NS(37500)),
     Grade("1066", NS(13100), NS(13100), NS(13100), Plain(CK(138)), NS(50000), NS(37500)),
     Grade("1333", NS(13500), NS(13500), NS(13500), Plain(CK(174)), NS(45000), NS(36000)),
     Grade("1600", NS(13750), NS(13750), NS(13750), Plain(CK(208)), NS(40000), NS(35000))})
MT41K256M16 == MT41J256M16
MT41J512M16 == DDR3Module(8, 65536, 1024,
    Tech(tREFI8192, <<4, 7500>>, CK(4), <<6, 10000>>, <<64, 80000>>),
    {Grade("1600", NS(13750), NS(13750), NS(13750), Plain(CK(280)), NS(40000), NS(39000))})
MT41K512M16 == MT41J512M16
K4B1G0446F == DDR3Module(8, 16384, 1024,
    Tech(tREFI8192, <<4, 7500>>, CK(4), <<4, 10000>>, <<64, 80000>>),
    {Grade("800", NS(15000), NS(15000), NS(15000), Plain(CK(120)), NS(50000), NS(37500)),
     Grade("1066", NS(13125), NS(13125), NS(15000), Plain(CK(160)), NS(50000), NS(37500)),
     Grade("1333", NS(13500), NS(13500), NS(15000), Plain(CK(200)), NS(45000), NS(36000)),
     Grade("1600", NS(13750), NS(13750), NS(15000), Plain(CK(240)), NS(40000), NS(35000))})
K4B2G1646F == DDR3Module(8, 16384, 1024,
    Tech(tREFI8192, <<4, 7500>>, CK(4), <<6, 10000>>, <<64, 80000>>),
    {Grade("800", NS(15000), NS(15000), NS(15000), Plain(CK(104)), NS(50000), NS(37500)),
     Grade("1066", NS(13125), NS(13125), NS(15000), Plain(CK(139)), NS(50000), NS(37500)),
     Grade("1333", NS(13500), NS(13500), NS(15000), Plain(CK(174)), NS(45000), NS(36000)),
     Grade("1600", NS(13750), NS(13750), NS(15000), Plain(CK(208)), NS(40000), NS(35000))})
H5TC4G63CFR == DDR3Module(8, 32768, 1024,
    Tech(tREFI8192, <<4, 7500>>, CK(4), <<6, 7500>>, <<64, 80000>>),
    {Grade("800", NS(15000), NS(15000), NS(15000), Plain(NS(260000)), NS(50000), NS(37500))})
H5TQ4G63CFR == DDR3Module(8, 32768, 1024,
    Tech(tREFI8192, <<4, 7500>>, CK(4), <<6, 7500>>, <<64, 80000>>),
    {Grade("1066", NS(13125), NS(13125), NS(15000), Plain(CK(139)), <<27, 50000>>, NS(37500)),
     Grade("1333", NS(13500), NS(13500), NS(15000), Plain(CK(174)), <<30, 45000>>, NS(36000)),
     Grade("1600", NS(13750), NS(13750), NS(15000), Plain(CK(208)), <<32, 40000>>, NS(35000)),
     Grade("1866", NS(13910), NS(13910), NS(15000), Plain(CK(243)), <<33, 36000>>, NS(34000))})
H5TQ4G63EFR == H5TQ4G63CFR
IS43TR16128B == DDR3Module(8, 16384, 1024,
    Tech(tREFI8192, <<4, 7500>>, CK(4), <<6, 6000>>, <<64, 80000>>),
    {Grade("1600", NS(13750), NS(13750), NS(15000), Plain(NS(160000)), NS(40000), NS(35000))})
IS43TR16256A == DDR3Module(8, 32768, 1024,
    Tech(tREFI8192, <<4, 7500>>, CK(4), <<6, 6000>>, <<64, 80000>>),
    {Grade("1600", NS(13750), NS(13750), NS(15000), Plain(NS(260000)), NS(30000), NS(35000))})
IS43TR16512B == DDR3Module(8, 65536, 1024,
    Tech(tREFI8192, <<4, 7500>>, CK(4), <<6, 10000>>, <<64, 80000>>),
    {Grade("800", NS(15000), NS(15000), NS(15000), Plain(NS(350000)), NS(50000), NS(37500)),
     Grade("1066", NS(13125), NS(13125), NS(15000), Plain(NS(350000)), NS(50000), NS(37500)),
     Grade("1333", NS(13500), NS(13500), NS(15000), Plain(NS(350000)), NS(50000), NS(36000)),
     Grade("1600", NS(13750), NS(13750), NS(15000), Plain(NS(350000)), NS(50000), NS(35000))})
MT8JTF12864 == DDR3Module(8, 16384, 1024,
    Tech(tREFI8192, <<4, 7500>>, CK(4), <<4, 6000>>, <<64, 80000>>),
    {Grade("1066", NS(15000), NS(15000), NS(15000), Plain(NS(110000)), NS(37500), NS(37500)),
     Grade("1333", NS(13125), NS(13125), NS(15000), Plain(NS(110000)), NS(30000), NS(36000))})
MT8KTF51264 == DDR3Module(8, 65536, 1024,
    Tech(tREFI8192, <<4, 7500>>, CK(4), <<4, 6000>>, <<64, 80000>>),
    {Grade("800", NS(15000), NS(15000), NS(15000), Plain(NS(260000)), NS(40000), NS(37500)),
     Grade("1066", NS(15000), NS(15000), NS(15000), Plain(NS(260000)), NS(40000), NS(37500)),
     Grade("1333", NS(13125), NS(13125), NS(15000), Plain(NS(260000)), NS(30000), NS(36000)),
     Grade("1600", NS(13125), NS(13125), NS(15000), Plain(NS(260000)), NS(30000), NS(35000)),
     Grade("1866", NS(13125), NS(13125), NS(15000), Plain(NS(260000)), NS(27000), NS(34000))})
MT18KSF1G72HZ == DDR3Module(8, 65536, 1024,
    Tech(tREFI8192, <<4, 7500>>, CK(4), <<4, 6000>>, <<64, 80000>>),
    {Grade("1066", NS(15000), NS(15000), NS(15000), Plain(NS(260000)), NS(40000), NS(37500)),
     Grade("1333", NS(13125), NS(13125), NS(15000), Plain(NS(260000)), NS(30000), NS(36000)),
     Grade("1600", NS(13125), NS(13125), NS(15000), Plain(NS(260000)), NS(30000), NS(35000))})
AS4C256M16D3A == DDR3Module(8, 32768, 1024,
    Tech(tREFI8192, <<4, 7500>>, CK(4), <<6, 7500>>, <<64, 80000>>),
    {Grade("1600", NS(13750), NS(13750), NS(15000), Plain(NS(260000)), NS(40000), NS(35000))})
AS4C256M16D3C == DDR3Module(8, 32768, 1024,
    Tech(tREFI8192, <<4, 7500>>, CK(4), <<6, 7500>>, <<64, 80000>>),
    {Grade("1600", NS(13750), NS(13750), NS(15000), Plain(NS(260000)), NS(40000), NS(35000)),
     Grade("1866", NS(13910), NS(13910), NS(15000), Plain(NS(260000)), NS(35000), NS(34000)),
     Grade("2133", NS(13090), NS(13090), NS(15000), Plain(NS(260000)), NS(35000), NS(33000))})
MT16KTF1G64HZ == DDR3Module(8, 65536, 1024,
    Tech(tREFI8192, <<4, 7500>>, CK(4), <<4, 6000>>, <<64, 80000>>),
    {Grade("800", NS(15000), NS(15000), NS(15000), Plain(NS(260000)), NS(40000), NS(37500)),
     Grade("1066", NS(15000), NS(15000), NS(15000), Plain(NS(260000)), NS(40000), NS(37500)),
     Grade("1333", NS(15000), NS(15000), NS(15000), Plain(NS(260000)), NS(30000), NS(36000)),
     Grade("1600", NS(13125), NS(13125), NS(15000), Plain(NS(260000)), NS(30000), NS(35000)),
     Grade("1866", NS(13125), NS(13125), NS(15000), Plain(NS(260000)), NS(27000), NS(34000))})
EM6GA16L == RPCModule(4, 4096, 1024,
    Tech(tREFI8192, CK(13), CK(29), NS(7500), NS(90000)),
    {Grade("1600", NS(13750), NS(13750), NS(20000), Plain(CK(300)), None, NS(35000)),
     Grade("1866", NS(13910), NS(13910), NS(20000), Plain(CK(300)), None, NS(34000))})
EDY4016A == DDR4Module(8, 32768, 1024,
    Tech(tREFIFine, <<4, 7500>>, CK(4), <<4, 4900>>, <<128, 80000>>),
    {Grade("2400", NS(13320), NS(13320), NS(15000), FineNS(260000, 160000, 110000), <<28, 30000>>, NS(32000))})
MT40A1G8 == DDR4Module(16, 65536, 1024,
    Tech(tREFIFine, <<4, 7500>>, CK(4), <<4, 6400>>, <<128, 80000>>),
    {Grade("2400", NS(13320), NS(13320), NS(15000), FineNS(350000, 260000, 160000), <<20, 25000>>, NS(32000)),
     Grade("2666", NS(13500), NS(13500), NS(15000), FineNS(350000, 260000, 160000), <<20, 21000>>, NS(32000))})
MT40A2G8 == DDR4Module(16, 131072, 1024,
    Tech(tREFIFine, <<4, 7500>>, CK(4), <<4, 6400>>, <<128, 80000>>),
    {Grade("2400", NS(13320), NS(13320), NS(15000), FineNS(350000, 260000, 160000), <<20, 25000>>, NS(32000)),
     Grade("2666", NS(13500), NS(13500), NS(15000), FineNS(350000, 260000, 160000), <<20, 21000>>, NS(32000))})
MT40A2G16 == MT40A2G8
MT40A256M16 == DDR4Module(8, 32768, 1024,
    Tech(tREFIFine, <<4, 7500>>, CK(4), <<4, 4900>>, <<128, 80000>>),
    {Grade("2400", NS(13320), NS(13320), NS(15000), FineNS(260000, 160000, 110000), <<28, 35000>>, NS(32000))})
MT40A512M8 == DDR4Module(16, 32768, 1024,
    Tech(tREFIFine, <<4, 7500>>, CK(4), <<4, 4900>>, <<128, 80000>>),
    {Grade("2400", NS(13320), NS(13320), NS(15000), FineNS(350000, 260000, 160000), <<20, 25000>>, NS(32000)),
     Grade("2666", NS(13500), NS(13500), NS(15000), FineNS(350000, 260000, 160000), <<20, 21000>>, NS(32000))})
MT40A512M16 == DDR4Module(8, 65536, 1024,
    Tech(tREFIFine, <<4, 7500>>, CK(4), <<4, 4900>>, <<128, 80000>>),
    {Grade("2400", NS(13320), NS(13320), NS(15000), FineNS(350000, 260000, 160000), <<28, 25000>>, NS(32000))})
KVR21SE15S84 == DDR4Module(16, 32768, 1024,
    Tech(tREFIFine, <<4, 7500>>, CK(4), <<4, 4900>>, <<128, 80000>>),
    {Grade("2133", NS(13500), NS(13500), NS(15000), FineNS(350000, 260000, 160000), <<20, 25000>>, NS(33000))})
MTA4ATF51264HZ == DDR4Module(8, 65536, 1024,
    Tech(tREFIFine, <<4, 7500>>, CK(4), <<4, 4900>>, <<128, 80000>>),
    {Grade("2133", NS(13500), NS(13500), NS(15000), FineNS(350000, 260000, 160000), <<28, 25000>>, NS(33000))})
MTA18ASF2G72PZ == DDR4RegisteredModule(16, 131072, 1024,
    Tech(tREFIFine, <<4, 7500>>, CK(4), <<4, 4900>>, <<128, 80000>>),
    {Grade("2400", NS(14160), NS(14160), NS(15000), FineNS(350000, 260000, 160000), <<20, 25000>>, NS(32000)),
     Grade("2666", NS(14250), NS(14250), NS(15000), FineNS(350000, 260000, 160000), <<20, 25000>>, NS(32000)),
     Grade("2933", NS(14320), NS(14320), NS(15000), FineNS(350000, 260000, 160000), <<20, 25000>>, NS(32000)),
     Grade("3200", NS(13750), NS(13750), NS(15000), FineNS(350000, 260000, 160000), <<20, 25000>>, NS(32000))})
MTA36ASF4G72PZ == MTA18ASF2G72PZ
HMA82GR7DJR4N == DDR4RegisteredModule(16, 131072, 1024,
    Tech(tREFIFine, <<4, 7500>>, <<4, 5000>>, <<4, 4900>>, <<128, 80000>>),
    {Grade("3200", NS(13750), NS(13750), NS(15000), FineNS(350000, 260000, 160000), <<16, 10000>>, NS(32000))})
HMA84GR7DJR4N == HMA82GR7DJR4N
M393A2K40DB3 == DDR4RegisteredModule(16, 131072, 1024,
    Tech(tREFIFine, <<4, 7500>>, <<4, 5000>>, <<4, 4900>>, <<128, 80000>>),
    {Grade("3200", NS(13750), NS(13750), NS(15000), FineNS(350000, 260000, 160000), <<16, 10000>>, NS(32000))})
M393A4K40DB3 == M393A2K40DB3
MT53E256M16D1 == LPDDR4Module(8, 32768, 1024,
    Tech(Plain(NS(3906250)), <<8, 10000>>, CK(32), <<4, 10000>>, None),
    {Grade("1866", <<3, 21000>>, <<4, 18000>>, <<4, 18000>>, Plain(NS(180000)), <<32, 40000>>, <<3, 42000>>)})

(* Every chip of the file. *)
Chips ==
    {IS42S16160, IS42S16320, IS42S32800J6, IS42VM32160G, MT48LC4M16,
     HY57V641620FTP, MT48LC16M16, MT48LC32M8, AS4C4M16, AS4C16M16, AS4C32M16,
     AS4C32M8, M12L64322A, EM638165, EM638325, EM636165, M12L16161A, NDS36PT5,
     W9825G6KH6, W9812G6JB, W9864G6JT, W989D6DBGX6, MT46V32M16, MT46H32M16,
     MT46H64M16, MT46H128M16, MT46H32M32, MT47H128M8, MT47H32M16, MT47H64M16,
     P3R1GE4JGF, K4T1G164QGBCE7, AS4C128M16, MT41K64M16, MT41J256M8,
     MT41K256M8, MT41J128M16, MT41K128M16, IMD128M16R39CG8GNF, MT41J256M16,
     MT41K256M16, MT41J512M16, MT41K512M16, K4B1G0446F, K4B2G1646F,
     H5TC4G63CFR, H5TQ4G63CFR, H5TQ4G63EFR, IS43TR16128B, IS43TR16256A,
     IS43TR16512B, MT8JTF12864, MT8KTF51264, MT18KSF1G72HZ, AS4C256M16D3A,
     AS4C256M16D3C, MT16KTF1G64HZ, EM6GA16L, EDY4016A, MT40A1G8, MT40A2G8,
     MT40A2G16, MT40A256M16, MT40A512M8, MT40A512M16, KVR21SE15S84,
     MTA4ATF51264HZ, MTA18ASF2G72PZ, MTA36ASF4G72PZ, HMA82GR7DJR4N,
     HMA84GR7DJR4N, M393A2K40DB3, M393A4K40DB3, MT53E256M16D1}

-----------------------------------------------------------------------------
(* SDRAMModule: from the timings of a speed grade to controller cycles, each  *)
(* of n DRAM clocks of tck picoseconds; -1 when the chip lacks a timing.      *)
get(m, g, mode) ==
    LET tech == m.technology_timings
    IN [tREFI |-> tech.tREFI[mode], tRFC |-> g.tRFC[mode], tWTR |-> tech.tWTR, tCCD |-> tech.tCCD,
        tRRD |-> tech.tRRD, tZQCS |-> tech.tZQCS, tRP |-> g.tRP, tRCD |-> g.tRCD, tWR |-> g.tWR,
        tFAW |-> g.tFAW, tRAS |-> g.tRAS,
        tRC |-> IF g.tRAS = None THEN None ELSE <<g.tRP[1] + g.tRAS[1], g.tRP[2] + g.tRAS[2]>>]
Modes(m) == IF m.memtype = "DDR4" THEN {"1x", "2x", "4x"} ELSE {"none"}

CeilDiv(a, b) == (a + b - 1) \div b
\* Mutant: a command may leave in any phase, and that is not allowed for.
marginNone(n, tck) == 0
margin(n, tck) == tck * (n - 1)
ns_to_cycles(ps, n, tck, with_margin) == CeilDiv(ps + (IF with_margin THEN margin(n, tck) ELSE 0), n * tck)
ck_to_cycles(ck, n) == CeilDiv(ck, n)
ck_ns_to_cycles(t, n, tck, with_margin) ==
    IF t = None THEN -1
    ELSE LET ck == ck_to_cycles(t[1], n)
             ns == ns_to_cycles(t[2], n, tck, with_margin)
         IN IF ck > ns THEN ck ELSE ns
TimingSettings(t, n, tck) == [name \in DOMAIN t |-> ck_ns_to_cycles(t[name], n, tck, name # "tREFI")]
=============================================================================
