--------------------------- MODULE AddressMapping ---------------------------
(***************************************************************************)
(* From the address of a native port to the bank, row and column that the  *)
(* DRAM receives: the ROW_BANK_COL mapping of litedram/core/crossbar.py,   *)
(* the address slices of litedram/common.py and the _AddressSlicer of      *)
(* litedram/core/bankmachine.py.  An address is a natural number, a slice  *)
(* of it a quotient and a remainder.  Fields are given by their sizes, the *)
(* powers of two of the widths in the source, whose sums become products.  *)
(* A master walks the address space, in each of the geometries given.      *)
(***************************************************************************)
EXTENDS Integers

CONSTANTS
    Geometries,     \* records of the geometries to check, see GeometryAssumption
    ApBit           \* the auto-precharge bit of column addresses: 2^10 in the code

\* page: words of the controller in a row; burst: columns in a word; banks
\* include those of all ranks; aligned: bank_byte_alignment in words of the
\* controller (1 when there is none).
GeometryAssumption ==
    /\ ApBit \in Nat \ {0}
    /\ Geometries \subseteq [rows : Nat \ {0}, page : Nat \ {0}, banks : Nat \ {0}, ranks : Nat \ {0},
                             burst : Nat \ {0}, aligned : Nat \ {0}]
    \* Of powers of two the smaller divides the larger.
    /\ \A g \in Geometries : /\ ApBit % g.burst = 0
                             /\ g.banks % g.ranks = 0
                             /\ g.page % g.aligned = 0 \/ g.aligned % g.page = 0
                             /\ (g.rows * g.page) % g.aligned = 0

VARIABLES
    geom,       \* the geometry
    addr        \* the address that the master presents

mapping_vars == <<geom, addr>>

-----------------------------------------------------------------------------
rca_size(g) == g.rows * g.page * g.ranks
port_size(g) == rca_size(g) * (g.banks \div g.ranks)

\* Mutant: the bank alignment is ignored.
cba_sizeNoAlignment(g) == g.page

\* Words that follow each other in a bank before the bank changes.
cba_size(g) == IF g.page < g.aligned THEN g.aligned ELSE g.page

get_bank_address(g, a) == (a \div cba_size(g)) % g.banks

\* Mutant: the bank bits stay in the address of the bank.
get_row_column_addressWide(g, a) == a % rca_size(g)

\* The address the bank receives: the port's, without the bank bits.
get_row_column_address(g, a) ==
    LET low  == a % cba_size(g)
        high == a \div (cba_size(g) * g.banks)
    IN  (IF cba_size(g) < rca_size(g) THEN low + high * cba_size(g) ELSE low) % rca_size(g)

\* _AddressSlicer.row, in the row register.
row(g, rca) == (rca \div g.page) % g.rows

\* Mutant: the auto-precharge bit is not skipped.
colPlain(g, rca) == (rca % g.page) * g.burst

\* _AddressSlicer.col: the burst bits are zero and the auto-precharge bit is
\* skipped.
col(g, rca) ==
    LET column == rca % g.page
        below  == column % (ApBit \div g.burst)
        above  == column \div (ApBit \div g.burst)
    IN  IF g.page * g.burst > ApBit
        THEN below * g.burst + above * (2 * ApBit)
        ELSE column * g.burst

\* What the DRAM receives for an address.
Location(g, a) ==
    LET rca == get_row_column_address(g, a)
    IN  [bank |-> get_bank_address(g, a), row |-> row(g, rca), col |-> col(g, rca)]

-----------------------------------------------------------------------------
Addresses(g) == 0..(port_size(g) - 1)

MappingInit == geom \in Geometries /\ addr = 0

\* The master presents the next address.
Advance ==
    /\ addr' = (addr + 1) % port_size(geom)
    /\ UNCHANGED geom

MappingNext == Advance

MappingSpec == MappingInit /\ [][MappingNext]_mapping_vars

-----------------------------------------------------------------------------
(* No two addresses of a port are the same place of the DRAM: the slices of *)
(* the crossbar and of the bank machine, written in different files, drop   *)
(* no bit between them.                                                     *)
NoAliasing ==
    LET here == Location(geom, addr)
    IN  \A other \in Addresses(geom) \ {addr} : Location(geom, other) # here

(* A column address leaves the auto-precharge bit to the bank machine and   *)
(* starts a burst.                                                          *)
ColumnLegal ==
    LET c == Location(geom, addr).col
    IN  (c \div ApBit) % 2 = 0 /\ c % geom.burst = 0

(* A master that walks the address space crosses a whole page, or the       *)
(* configured alignment if that is larger, before it changes bank.          *)
BankChangesAligned ==
    [][LET here == Location(geom, addr)
           there == Location(geom, addr')
       IN  there.bank # here.bank =>
              addr' % geom.aligned = 0 /\ addr' % geom.page = 0]_mapping_vars
=============================================================================
