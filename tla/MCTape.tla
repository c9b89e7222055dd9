------------------------------- MODULE MCTape -------------------------------
(***************************************************************************)
(* Small instances of Tape: two tapes of three addresses in two pages, the *)
(* middle one banked, and one more address that is backed but past the     *)
(* tape's length.                                                          *)
(***************************************************************************)
EXTENDS Tape

R(a) == [kind |-> "READ", at |-> a]
W(a) == [kind |-> "WRITE", at |-> a]
T(n) == [kind |-> "SELECT", at |-> n]
ReadSector(a)  == [kind |-> "DISKREAD", at |-> a]
WriteSector(a) == [kind |-> "DISKWRITE", at |-> a]
ReadConsole    == [kind |-> "CONIN", at |-> 0]

\* Writes on both tapes, a cell written twice, sectors on and off the tape, both faults.
MCPrograms ==
  {<<W(1), T(1), W(1)>>, <<W(0), ReadSector(0), W(0)>>, <<ReadConsole, W(0), R(3)>>,
   <<T(1), WriteSector(1), T(2)>>, <<W(0), ReadSector(3), R(0)>>}
=============================================================================
