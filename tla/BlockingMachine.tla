-------------------------- MODULE BlockingMachine --------------------------
(***************************************************************************)
(* The machine as a program and its user see it: a processor that issues   *)
(* calls one at a time, and a console whose bytes are handed out in the    *)
(* order they were typed, whole lines to READLINE, single bytes to CONIN.  *)
(* A call for input that is not there yet blocks; no other call does.      *)
(* Kernel.tla implements this with polling, parking and re-dispatch.       *)
(***************************************************************************)
EXTENDS Integers, Sequences

CONSTANTS Bytes, NL

Calls == {"CONIN", "READLINE", "VSYNC", "RUN", "DISK", "OTHER"}
NoCall == "none"

VARIABLES
  mode,      \* who runs: SHELL, RUNNING a program, or HALT
  blocked,   \* the call in progress, or NoCall
  input,     \* bytes typed and not handed out
  ended,     \* the console has reached end of input
  received   \* bytes handed out since the machine was last reset

vars == <<mode, blocked, input, ended, received>>

Init == /\ mode = "SHELL" /\ blocked = NoCall
        /\ input = <<>> /\ ended = FALSE /\ received = <<>>

Issue == /\ mode # "HALT" /\ blocked = NoCall
         /\ blocked' \in Calls
         /\ UNCHANGED <<mode, input, ended, received>>

Finish == /\ mode = "RUNNING" /\ blocked = NoCall
          /\ mode' = "SHELL"
          /\ UNCHANGED <<blocked, input, ended, received>>

Stop == /\ mode # "HALT" /\ blocked = NoCall
        /\ mode' = "HALT"
        /\ UNCHANGED <<blocked, input, ended, received>>

\* Hand out the first n bytes and let the caller go on.
Give(n) == /\ n <= Len(input)
           /\ received' = received \o SubSeq(input, 1, n)
           /\ input' = SubSeq(input, n + 1, Len(input))
           /\ blocked' = NoCall
           /\ UNCHANGED <<mode, ended>>

TakeByte == blocked = "CONIN" /\ Give(1)

IsLine(n) == /\ n \in DOMAIN input
             /\ \A i \in 1..(n - 1) : input[i] # NL
             /\ input[n] = NL \/ (ended /\ n = Len(input))
TakeLine == /\ blocked = "READLINE"
            /\ \E n \in DOMAIN input : IsLine(n) /\ Give(n)

EndOfInput == /\ blocked \in {"CONIN", "READLINE"} /\ ended /\ input = <<>>
              /\ mode' = "HALT" /\ blocked' = NoCall
              /\ UNCHANGED <<input, ended, received>>

Return == /\ blocked \in Calls \ {"CONIN", "READLINE"}
          /\ blocked' = NoCall
          /\ mode' \in IF blocked = "RUN" THEN {mode, "RUNNING"} ELSE {mode}
          /\ UNCHANGED <<input, ended, received>>

Serve == TakeByte \/ TakeLine \/ EndOfInput \/ Return

\* The user.
Arrive == /\ ~ended
          /\ \E ch \in Bytes : input' = Append(input, ch)
          /\ UNCHANGED <<mode, blocked, ended, received>>
Close == ~ended /\ ended' = TRUE /\ UNCHANGED <<mode, blocked, input, received>>

\* The host: run a program of its own, or start over, which forgets a line
\* that was being read but no byte that was not.
Load == mode' = "RUNNING" /\ blocked' = NoCall /\ UNCHANGED <<input, ended, received>>
Reset == /\ mode' = "SHELL" /\ blocked' = NoCall /\ received' = <<>>
         /\ \E n \in 0..Len(input) :
              /\ input' = SubSeq(input, n + 1, Len(input))
              /\ n > 0 => blocked = "READLINE" /\ \A i \in 1..n : input[i] # NL
         /\ UNCHANGED ended

Next == Issue \/ Finish \/ Stop \/ Serve \/ Arrive \/ Close \/ Load \/ Reset

\* A call that can be served is served.
Spec == Init /\ [][Next]_vars /\ WF_vars(Serve)
=============================================================================
