---------------------------- MODULE ConsoleOutput ----------------------------
(***************************************************************************)
(* Where printed bytes go.  A program prints into the ring of bios.c; at   *)
(* the end of the call kernel_step drains the ring into api_con_out, which *)
(* hands each byte to the HAL and to a ring the host pops.  A byte that    *)
(* finds the first ring full pushes the oldest one straight to the HAL.    *)
(* tos_seek runs steps again: what the host has seen is suppressed, the    *)
(* rest is held until the seek succeeds and dropped when it fails.         *)
(*                                                                         *)
(* Abstracted: what a byte is (the step that printed it and its number),   *)
(* and why a seek fails.  A seek that puts the machine back reaches its    *)
(* step: Replay shows when.                                                *)
(***************************************************************************)
EXTENDS Integers, Sequences, Subsequence

CONSTANTS
  BiosCap,      \* BIOS_OUT_CAP
  ApiCap,       \* API_OUT_CAP, of the ring and of the held output
  Printers,     \* programs: how many bytes each step prints
  Interval,     \* steps between snapshots
  MaxCalls      \* bound: calls of the host in a behaviour

ASSUME ConsoleOutputAssumption ==
  /\ BiosCap \in Nat \ {0} /\ ApiCap \in Nat \ {0}
  /\ \A printer \in Printers : printer \in Seq(Nat)
  /\ Interval \in Nat \ {0} /\ MaxCalls \in Nat

VARIABLES
  printer,      \* the program
  at, reached,  \* g_k.steps, and the last step ever run
  out,          \* the BIOS ring, the API ring and g_pending
  stdout,       \* history: what hal_con_out was given, which is stdout of the native build
  popped,       \* history: what tos_con_pop returned
  shown,        \* history: what steps and seeks that succeeded printed for the first time
  spilled,      \* history: a ring was full, g_pending was, or a replay printed past api_con_out
  calls

outputVars == <<printer, at, reached, out, stdout, popped, shown, spilled, calls>>

Burst(n) == [i \in 1..printer[n] |-> <<n, i>>]

(***************************************************************************)
(* One step.  e is the output and what it has sent to the HAL.             *)
(***************************************************************************)
ToHal(e, b) == [e EXCEPT !.stdout = Append(@, b)]

out_byte_drops(e, b) ==
  [e EXCEPT !.bios = Append(IF Len(@) < BiosCap THEN @ ELSE Tail(@), b)]

out_byte(e, b) ==
  IF Len(e.bios) < BiosCap THEN [e EXCEPT !.bios = Append(@, b)]
  ELSE [ToHal(e, Head(e.bios)) EXCEPT !.bios = Append(Tail(@), b)]

api_emit_drops_newest(e, b) ==
  [ToHal(e, b) EXCEPT !.ring = IF Len(@) >= ApiCap THEN @ ELSE Append(@, b)]

api_emit(e, b) ==
  [ToHal(e, b) EXCEPT !.ring = Append(IF Len(@) >= ApiCap THEN Tail(@) ELSE @, b)]

Hold(e, b) == IF Len(e.pending) < ApiCap THEN [e EXCEPT !.pending = Append(@, b)] ELSE e

api_con_out_one_less(e, b, seen) ==
  IF seen = -1 THEN api_emit(e, b)
  ELSE IF b[1] < seen THEN e
  ELSE Hold(e, b)

\* seen = -1 outside a seek, else the last step whose output the host has had.
api_con_out(e, b, seen) ==
  IF seen = -1 THEN api_emit(e, b)
  ELSE IF b[1] <= seen THEN e
  ELSE Hold(e, b)

k_drain_output(e, seen) ==
  LET after[i \in 0..Len(e.bios)] == IF i = 0 THEN [e EXCEPT !.bios = << >>]
                                     ELSE api_con_out(after[i - 1], e.bios[i], seen)
  IN  after[Len(e.bios)]

out_bytes(e, s) ==
  LET after[i \in 0..Len(s)] == IF i = 0 THEN e ELSE out_byte(after[i - 1], s[i])
  IN  after[Len(s)]

kernel_step(e, n, seen) == k_drain_output(out_bytes(e, Burst(n)), seen)

Here     == [bios |-> out.bios, ring |-> out.ring, pending |-> out.pending, stdout |-> stdout]
Becomes(e) == out' = [bios |-> e.bios, ring |-> e.ring, pending |-> e.pending] /\ stdout' = e.stdout

(***************************************************************************)
(* Calls of the host                                                       *)
(***************************************************************************)
Larger(a, b) == IF a > b THEN a ELSE b
Called == calls < MaxCalls /\ calls' = calls + 1

Overruns(steps) == \E n \in steps : printer[n] > BiosCap
Bursts(from, to) == FlattenSeq([n \in 1..to - from |-> Burst(from + n)])

Step ==
  /\ Called /\ at < Len(printer)
  /\ Becomes(kernel_step(Here, at + 1, -1))
  /\ at' = at + 1 /\ reached' = Larger(at + 1, reached)
  /\ shown' = shown \o Burst(at + 1)
  /\ spilled' = [spilled EXCEPT !.api = @ \/ Overruns({at + 1})
                                          \/ Len(out.ring) + printer[at + 1] > ApiCap]
  /\ UNCHANGED <<printer, popped>>

Pop ==
  /\ out.ring # << >>
  /\ popped' = Append(popped, Head(out.ring))
  /\ out' = [out EXCEPT !.ring = Tail(@)]
  /\ UNCHANGED <<printer, at, reached, stdout, shown, spilled, calls>>

Nearest(target) == ((IF target < reached THEN target ELSE reached) \div Interval) * Interval
Replayed(e, target, to, seen) ==
  LET first == Nearest(target)
      after[n \in 0..to - first] == IF n = 0 THEN e ELSE kernel_step(after[n - 1], first + n, seen)
  IN  after[to - first]

\* The end of a seek that succeeds gives the host what was held.
Released(e) ==
  LET after[i \in 0..Len(e.pending)] == IF i = 0 THEN e ELSE api_emit(after[i - 1], e.pending[i])
  IN  after[Len(e.pending)]

\* Output between at and the snapshot is not printed again: those steps have run before.
SeekDone(target) ==
  LET first    == Replayed([Here EXCEPT !.pending = << >>], target, target, at)
      released == Released(first)
      start    == Larger(at, Nearest(target))
      held     == IF target > start THEN Bursts(start, target) ELSE << >>
  IN  /\ Becomes([released EXCEPT !.pending = << >>])
      /\ at' = target /\ reached' = Larger(target, reached)
      /\ shown' = shown \o held
      /\ spilled' = [api   |-> spilled.api \/ Len(out.ring) + Len(held) > ApiCap
                                           \/ Overruns(start + 1..target),
                     held  |-> spilled.held \/ Len(held) > ApiCap,
                     again |-> spilled.again \/ Overruns(Nearest(target) + 1..target)]

\* The replay stopped at a step, or a load it needed is gone; the machine is put back.
SeekFailed(target, stop) ==
  LET first == Replayed([Here EXCEPT !.pending = << >>], target, stop, at)
      back  == Replayed([first EXCEPT !.pending = << >>], at, at, at)
      moved == stop # at
  IN  /\ Becomes([IF moved THEN back ELSE first EXCEPT !.pending = << >>])
      /\ spilled' = [spilled EXCEPT !.again = @ \/ Overruns(Nearest(target) + 1..stop)
                                                \/ (moved /\ Overruns(Nearest(at) + 1..at))]
      /\ reached' = Larger(stop, reached)
      /\ UNCHANGED <<at, shown>>

tos_seek(target) ==
  /\ Called /\ target \in 0..Len(printer)
  /\ \/ SeekDone(target)
     \/ \E stop \in Nearest(target)..target : SeekFailed(target, stop)
  /\ UNCHANGED <<printer, popped>>

OutputInit ==
  /\ printer \in Printers /\ at = 0 /\ reached = 0 /\ calls = 0
  /\ out = [bios |-> << >>, ring |-> << >>, pending |-> << >>]
  /\ stdout = << >> /\ popped = << >> /\ shown = << >>
  /\ spilled = [api |-> FALSE, held |-> FALSE, again |-> FALSE]

OutputNext == Step \/ Pop \/ \E target \in 0..Len(printer) : tos_seek(target)

OutputSpec == OutputInit /\ [][OutputNext]_outputVars

(***************************************************************************)
(* Properties                                                              *)
(***************************************************************************)
\* bios.c:67: whatever is stepped and sought, and however long the bursts of the steps are, the
\* HAL gets what was printed, in order and once, unless a replay overran the BIOS ring or held
\* more output than g_pending takes.
StdoutFaithful == ~spilled.held /\ ~spilled.again => stdout = shown

\* api.c:88, 101: the host pops what was printed, in order; a step the host has seen is not
\* printed to it twice by a seek, and nothing is missing unless a ring was full.
HostFaithful ==
  IF spilled.api \/ spilled.held THEN IsPartOf(popped \o out.ring, shown)
  ELSE popped \o out.ring = shown

\* api.c:89: whatever is dropped, the last byte printed is there for the host.
NewestKept ==
  shown # << >> /\ ~spilled.held =>
    popped \o out.ring # << >> /\ Last(popped \o out.ring) = Last(shown)
=============================================================================
