----------------------------- MODULE Subsequence -----------------------------
(***************************************************************************)
(* What a queue or a ring that drops elements still keeps of a sequence.   *)
(***************************************************************************)
EXTENDS Integers, Sequences, SequencesExt

\* part is whole with some elements left out.
IsPartOf(part, whole) ==
  LET met[n \in 0..Len(whole)] ==    \* how much of part is met in the first n of whole
        LET before == IF n = 0 THEN 0 ELSE met[n - 1]
        IN  IF n > 0 /\ before < Len(part) /\ part[before + 1] = whole[n] THEN before + 1
            ELSE before
  IN  met[Len(whole)] = Len(part)
=============================================================================
