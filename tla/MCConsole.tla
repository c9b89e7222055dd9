------------------------------ MODULE MCConsole ------------------------------
(***************************************************************************)
(* Small instances of Console: a silent program for every host, and        *)
(* programs with bursts below, at and above the size of the BIOS ring.     *)
(***************************************************************************)
EXTENDS Console

MCPrinters == {<< >>, <<1, 2, 1>>, <<0, 3>>, <<2, 4>>, <<1, 1, 2>>}
=============================================================================
