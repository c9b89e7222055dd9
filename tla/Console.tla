------------------------------- MODULE Console -------------------------------
(***************************************************************************)
(* Both directions of the console.  A call of kernel_step polls the keys   *)
(* before anything it prints goes out; tos_seek takes back pushed input    *)
(* and then runs steps again.  The two meet nowhere else, so programs that *)
(* print are run with the embedded host only.                              *)
(***************************************************************************)
EXTENDS ConsoleInput, ConsoleOutput

Init == InputInit /\ OutputInit /\ (printer = << >> \/ host = "EMBEDDED")

User == Send \/ Close \/ Elapse \/ Push
StepAndPrint == PollKeys /\ Step
StepSilently == (PollKeys \/ Ready \/ Read) /\ UNCHANGED outputVars
Seek ==
  \/ printer = << >> /\ Drain /\ UNCHANGED outputVars
  \/ printer # << >> /\ Drain /\ \E target \in 0..Len(printer) : tos_seek(target)

Next ==
  \/ User /\ UNCHANGED outputVars
  \/ StepAndPrint
  \/ StepSilently
  \/ Seek
  \/ Pop /\ UNCHANGED inputVars

Spec == Init /\ [][Next]_<<inputVars, outputVars>>
=============================================================================
