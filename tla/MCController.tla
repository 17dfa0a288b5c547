---------------------------- MODULE MCController ----------------------------
(* Small instance of Controller: two banks, two rows.                       *)
EXTENDS Controller, TLC

CONSTANTS r0, r1

MCRows == {r0, r1}
\* The rows are interchangeable: no transition compares a row with a fixed one.
RowSymmetry == Permutations(MCRows)

\* Bank 0 is read and written, the other banks are written.
MCOffered == [b \in BankIds |-> IF b = 0 THEN Requests ELSE {r \in Requests : r.we}]

\* For liveness: bank 0 is only read and the others only written, so that each
\* direction can keep the other waiting.
LiveOffered == [b \in BankIds |-> IF b = 0 THEN {r \in Requests : ~r.we}
                                  ELSE {r \in Requests : r.we}]

MCtWTP == precharge_time(2, 2, 1, 1)
MCtWTR == write_to_read(1, 2, 2, 1)
=============================================================================
