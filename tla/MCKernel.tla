------------------------------ MODULE MCKernel ------------------------------
(***************************************************************************)
(* Small instances of Kernel: one letter and the newline, the entry point  *)
(* and one other address, one watched cell.                                *)
(***************************************************************************)
EXTENDS Kernel

CONSTANTS a, nl, entry, elsewhere, cell

MCBytes == {a, nl}
MCPCs == {entry, elsewhere}
MCCells == {cell}

\* One breakpoint of each kind, at the place where it interferes most.
MCBpChoices ==
  {[kind |-> "PC", on |-> {elsewhere}],
   [kind |-> "ACCESS", on |-> {cell}],
   [kind |-> "SYSCALL", on |-> {"READLINE", "DISK"}],
   [kind |-> "STATE", on |-> {"SYSCALL", "HALT"}]}
PcBps == {[kind |-> "PC", on |-> MCPCs], [kind |-> "PC", on |-> {elsewhere}]}
Watchpoint == {[kind |-> "ACCESS", on |-> {cell}]}
=============================================================================
