-------------------------- MODULE KernelRefinement --------------------------
(***************************************************************************)
(* Every step of Kernel.tla is one of BlockingMachine.tla or changes       *)
(* nothing a program can see: polling, parking and dispatching again       *)
(* implement blocking console calls, for every value of the constants.     *)
(* Fairness stays with TLC.                                                *)
(***************************************************************************)
EXTENDS KernelProofs

---------------------------------------------------------------------------
(* The half line.                                                          *)

\* Only a parked READLINE has a half line, and no end of a line is in it
\* (line_active and line in bios.c).
LineInv ==
  reading => pending = "READLINE" /\ \A i \in DOMAIN line : line[i] # NL

\* Without loads in the middle of a line, no path of the code leaves a half
\* line behind for a call that is not a READLINE.
LEMMA LineInvKept ==
  ASSUME LoadsMidLine = FALSE, IInv, LineInv, [Next]_vars
  PROVE  LineInv'
<1>0. line \in Seq(Bytes) /\ hal \in Seq(Bytes) /\ Partial \in Seq(Bytes)
  <2>1. line \in Seq(Bytes) /\ hal \in Seq(Bytes)
    BY DEF IInv, TypeOK, ConsoleType
  <2> QED BY <2>1, EmptySeq DEF Partial
<1>1. state \in Exec => ~reading
  BY DEF IInv, CallLatched, LineInv, Exec, NoCall
<1>2. pending # "READLINE" => ~reading
  BY DEF LineInv
<1>3. CASE Quiet \/ UNCHANGED vars
  <2>1. UNCHANGED <<pending, line, reading>>
    <3>1. UNCHANGED vars => UNCHANGED <<pending, line, reading>>
      BY DEF vars, cpu, bios
    <3>2. StayHalted \/ StayIdle \/ OutOfBudget => UNCHANGED <<line, reading>>
      BY DEF StayHalted, StayIdle, OutOfBudget, bios
    <3>3. PcBreak => UNCHANGED <<line, reading>>
      BY DEF PcBreak, bios
    <3>4. ASSUME NEW cells \in SUBSET Cells, Plain(cells) PROVE UNCHANGED <<line, reading>>
      BY <3>4 DEF Plain, Step, bios
    <3>5. HostStep \/ EndCall => UNCHANGED <<line, reading>>
      BY DEF HostStep, StepCall, EndCall, bios
    <3>6. BpAdd \/ BpClear => UNCHANGED <<line, reading>>
      BY DEF BpAdd, BpClear, bios
    <3>7. ConsoleEvent => UNCHANGED <<line, reading>>
      BY DEF ConsoleEvent, Type, CloseInput, bios
    <3>8. Quiet => UNCHANGED <<pending, line, reading>>
      BY <3>2, <3>3, <3>4, <3>5, <3>6, <3>7, QuietFrame DEF Quiet
    <3> QED BY <1>3, <3>1, <3>8
  <2> QED BY <2>1 DEF LineInv
<1>4. CASE DispatchWait
  <2>1. CASE pending = "READLINE"
    <3>1. line' = Partial \o hal /\ reading' = TRUE /\ pending' = pending
      BY <1>4, <2>1 DEF DispatchWait, cpu
    <3>2. ~HasLine(hal)
      BY <1>4, <2>1 DEF DispatchWait, MustWait
    <3>3. \A i \in 1..Len(Partial) : Partial[i] # NL
      BY <1>0, EmptySeq DEF Partial, LineInv
    <3>4. \A i \in 1..Len(hal) : hal[i] # NL
      BY <1>0, <3>2 DEF HasLine
    <3>5. \A i \in 1..Len(Partial) + Len(hal) : (Partial \o hal)[i] # NL
      <4> SUFFICES ASSUME NEW i \in 1..Len(Partial) + Len(hal) PROVE (Partial \o hal)[i] # NL
        OBVIOUS
      <4>1. Len(Partial) \in Nat /\ Len(hal) \in Nat
        BY <1>0, LenProperties
      <4>2. (Partial \o hal)[i] = IF i <= Len(Partial) THEN Partial[i] ELSE hal[i - Len(Partial)]
        BY <1>0, ConcatProperties
      <4>3. CASE i <= Len(Partial)
        BY <3>3, <4>1, <4>2, <4>3
      <4>4. CASE ~(i <= Len(Partial))
        <5>1. i - Len(Partial) \in 1..Len(hal)
          BY <4>1, <4>4
        <5> QED BY <3>4, <4>2, <4>4, <5>1
      <4> QED BY <4>3, <4>4
    <3>6. DOMAIN (Partial \o hal) = 1..Len(Partial) + Len(hal)
      BY <1>0, ConcatProperties, LenProperties
    <3> QED BY <2>1, <3>1, <3>5, <3>6 DEF LineInv
  <2>2. CASE pending # "READLINE"
    BY <1>2, <1>4, <2>2 DEF DispatchWait, LineInv
  <2> QED BY <2>1, <2>2
<1>5. CASE DispatchEof \/ DispatchInput
  BY <1>2, <1>5 DEF DispatchEof, DispatchInput, LineInv, AtEof
<1>6. CASE DispatchOther \/ DispatchRun \/ DispatchVsync
  BY <1>2, <1>6 DEF DispatchOther, DispatchRun, DispatchVsync, LineInv, bios
<1>7. ASSUME NEW cells \in SUBSET Cells, Out(cells) \/ Hlt(cells) \/ Fault(cells)
      PROVE  LineInv'
  BY <1>1, <1>7 DEF Out, Hlt, Fault, Step, Executing, LineInv, bios
<1>8. CASE Reset
  BY <1>8 DEF Reset, LineInv
<1>9. CASE LoadCom
  BY <1>9 DEF LoadCom, LineInv, bios
<1> QED BY <1>3, <1>4, <1>5, <1>6, <1>7, <1>8, <1>9, NextCases DEF Moves, Dispatch

---------------------------------------------------------------------------
(* Bytes handed out of a half line and the queue behind it.                *)

\* The first k elements of a sequence ...
LEMMA PrefixOf ==
  ASSUME NEW S, NEW s \in Seq(S), NEW k \in 0..Len(s)
  PROVE  /\ SubSeq(s, 1, k) \in Seq(S) /\ Len(SubSeq(s, 1, k)) = k
         /\ \A i \in 1..k : SubSeq(s, 1, k)[i] = s[i]
<1>1. k \in Nat /\ \A i \in 1..k : s[i] \in S
  BY LenProperties, ElementOfSeq
<1>2. /\ SubSeq(s, 1, k) \in Seq(S) /\ Len(SubSeq(s, 1, k)) = IF 1 <= k THEN k - 1 + 1 ELSE 0
      /\ \A i \in 1..k - 1 + 1 : SubSeq(s, 1, k)[i] = s[1 + i - 1]
  BY <1>1, SubSeqProperties
<1> QED BY <1>1, <1>2

\* ... and those behind them.
LEMMA SuffixOf ==
  ASSUME NEW S, NEW s \in Seq(S), NEW k \in 0..Len(s)
  PROVE  /\ SubSeq(s, k + 1, Len(s)) \in Seq(S) /\ Len(SubSeq(s, k + 1, Len(s))) = Len(s) - k
         /\ \A i \in 1..Len(s) - k : SubSeq(s, k + 1, Len(s))[i] = s[k + i]
<1>1. Len(s) \in Nat /\ k \in Nat /\ k <= Len(s)
  BY LenProperties
<1>2. \A i \in k + 1..Len(s) : s[i] \in S
  BY <1>1, ElementOfSeq
<1>3. /\ SubSeq(s, k + 1, Len(s)) \in Seq(S)
      /\ Len(SubSeq(s, k + 1, Len(s))) = IF k + 1 <= Len(s) THEN Len(s) - (k + 1) + 1 ELSE 0
      /\ \A i \in 1..Len(s) - (k + 1) + 1 : SubSeq(s, k + 1, Len(s))[i] = s[k + 1 + i - 1]
  BY <1>1, <1>2, SubSeqProperties
<1> QED BY <1>1, <1>3

\* Taking all of p and the first n bytes of h takes the first bytes of p \o h.
LEMMA Taken ==
  ASSUME NEW S, NEW p \in Seq(S), NEW h \in Seq(S), NEW n \in 0..Len(h)
  PROVE  /\ Len(p) + n \in 0..Len(p \o h)
         /\ SubSeq(p \o h, 1, Len(p) + n) = p \o SubSeq(h, 1, n)
         /\ SubSeq(p \o h, Len(p) + n + 1, Len(p \o h)) = SubSeq(h, n + 1, Len(h))
<1> DEFINE m == Len(p) + n
<1>1. /\ Len(p) \in Nat /\ Len(h) \in Nat /\ Len(p \o h) = Len(p) + Len(h) /\ p \o h \in Seq(S)
      /\ n \in Nat /\ m \in Nat /\ m \in 0..Len(p \o h)
  BY LenProperties, ConcatProperties
<1>2. \A i \in 1..Len(p) + Len(h) : (p \o h)[i] = IF i <= Len(p) THEN p[i] ELSE h[i - Len(p)]
  BY ConcatProperties
<1>3. /\ SubSeq(h, 1, n) \in Seq(S) /\ Len(SubSeq(h, 1, n)) = n
      /\ \A i \in 1..n : SubSeq(h, 1, n)[i] = h[i]
  BY PrefixOf
<1>4. /\ SubSeq(p \o h, 1, m) \in Seq(S) /\ Len(SubSeq(p \o h, 1, m)) = m
      /\ \A i \in 1..m : SubSeq(p \o h, 1, m)[i] = (p \o h)[i]
  BY <1>1, PrefixOf
<1>5. /\ SubSeq(h, n + 1, Len(h)) \in Seq(S) /\ Len(SubSeq(h, n + 1, Len(h))) = Len(h) - n
      /\ \A i \in 1..Len(h) - n : SubSeq(h, n + 1, Len(h))[i] = h[n + i]
  BY SuffixOf
<1>6. /\ SubSeq(p \o h, m + 1, Len(p \o h)) \in Seq(S)
      /\ Len(SubSeq(p \o h, m + 1, Len(p \o h))) = Len(p \o h) - m
      /\ \A i \in 1..Len(p \o h) - m : SubSeq(p \o h, m + 1, Len(p \o h))[i] = (p \o h)[m + i]
  BY <1>1, SuffixOf
<1>7. SubSeq(p \o h, 1, m) = p \o SubSeq(h, 1, n)
  <2>1. /\ p \o SubSeq(h, 1, n) \in Seq(S) /\ Len(p \o SubSeq(h, 1, n)) = m
        /\ \A i \in 1..m : (p \o SubSeq(h, 1, n))[i]
                             = IF i <= Len(p) THEN p[i] ELSE SubSeq(h, 1, n)[i - Len(p)]
    BY <1>1, <1>3, ConcatProperties
  <2>2. ASSUME NEW i \in 1..m PROVE SubSeq(p \o h, 1, m)[i] = (p \o SubSeq(h, 1, n))[i]
    <3>1. i \in 1..Len(p) + Len(h)
      BY <1>1
    <3>2. i > Len(p) => i - Len(p) \in 1..n
      BY <1>1
    <3> QED BY <1>1, <1>2, <1>3, <1>4, <2>1, <3>1, <3>2
  <2> QED BY <1>4, <2>1, <2>2, SeqEqual
<1>8. SubSeq(p \o h, m + 1, Len(p \o h)) = SubSeq(h, n + 1, Len(h))
  <2>1. Len(p \o h) - m = Len(h) - n
    BY <1>1
  <2>2. ASSUME NEW i \in 1..Len(h) - n
        PROVE  SubSeq(p \o h, m + 1, Len(p \o h))[i] = SubSeq(h, n + 1, Len(h))[i]
    <3>1. m + i \in 1..Len(p) + Len(h) /\ m + i > Len(p) /\ m + i - Len(p) = n + i
      BY <1>1
    <3>2. (p \o h)[m + i] = h[n + i]
      BY <1>1, <1>2, <3>1
    <3> QED BY <1>5, <1>6, <2>1, <3>2
  <2> QED BY <1>5, <1>6, <2>1, <2>2, SeqEqual
<1> QED BY <1>1, <1>7, <1>8

---------------------------------------------------------------------------
(* The steps.                                                              *)

\* What the machine of BlockingMachine.tla sees of the kernel: who runs, and
\* the bytes typed and not handed out.
Mode == IF state \in {"SYSCALL", "IDLE"} THEN resume ELSE state
Input == Partial \o hal

\* The console and the registers of the dispatcher in their types, by name.
LEMMA Shapes ==
  ASSUME TypeOK
  PROVE  /\ state \in States \ {"BOOT"} /\ resume \in Exec /\ pending \in Calls \cup {NoCall}
         /\ line \in Seq(Bytes) /\ hal \in Seq(Bytes) /\ got \in Seq(Bytes)
         /\ Partial \in Seq(Bytes) /\ Input \in Seq(Bytes)
<1>1. line \in Seq(Bytes) /\ hal \in Seq(Bytes) /\ got \in Seq(Bytes)
  BY DEF TypeOK, ConsoleType
<1>2. Partial \in Seq(Bytes)
  BY <1>1, EmptySeq DEF Partial
<1>3. Input \in Seq(Bytes)
  BY <1>1, <1>2, ConcatProperties DEF Input
<1> QED BY <1>1, <1>2, <1>3 DEF TypeOK, ControlType

\* kernel_init is the boot of the blocking machine.
LEMMA InitImplements == Init => Machine!Init /\ LineInv
<1> SUFFICES ASSUME Init PROVE Machine!Init /\ LineInv
  OBVIOUS
<1>1. Partial \o hal = <<>>
  <2>1. Partial = <<>> /\ hal = <<>>
    BY DEF Init, Partial
  <2> QED BY <2>1
<1> QED BY <1>1 DEF Init, Machine!Init, Machine!NoCall, NoCall, LineInv

\* Polling, budgets, breakpoints and the metadata change nothing a program
\* sees; a byte that arrives goes behind those that have.
LEMMA QuietImplements ==
  ASSUME IInv, Quiet
  PROVE  [Machine!Next]_(Machine!vars)
<1>0. TypeOK
  BY DEF IInv
<1>1. UNCHANGED <<state, resume, pending>>
  BY QuietFrame DEF control
<1>2. CASE ~ConsoleEvent
  <2>1. StayHalted \/ StayIdle \/ OutOfBudget => UNCHANGED <<bios, console>>
    BY DEF StayHalted, StayIdle, OutOfBudget
  <2>2. PcBreak => UNCHANGED <<bios, console>>
    BY DEF PcBreak
  <2>3. ASSUME NEW cells \in SUBSET Cells, Plain(cells) PROVE UNCHANGED <<bios, console>>
    BY <2>3 DEF Plain, Step
  <2>4. HostStep \/ EndCall \/ BpAdd \/ BpClear => UNCHANGED <<bios, console>>
    BY DEF HostStep, StepCall, EndCall, BpAdd, BpClear
  <2>5. UNCHANGED <<bios, console>>
    BY <1>2, <2>1, <2>2, <2>3, <2>4 DEF Quiet
  <2>6. UNCHANGED <<line, reading, got, hal, eof>>
    BY <2>5 DEF bios, console
  <2> QED BY <1>1, <2>6 DEF Machine!vars, Partial
<1>3. CASE CloseInput
  <2>1. ~eof /\ eof' = TRUE /\ UNCHANGED <<line, reading, got, hal>>
    BY <1>3 DEF CloseInput, bios
  <2>2. Machine!Close
    BY <1>1, <2>1 DEF Machine!Close, Partial
  <2> QED BY <2>2 DEF Machine!Next
<1>4. ASSUME NEW ch \in Bytes, Type(ch) PROVE [Machine!Next]_(Machine!vars)
  <2>1. ~eof /\ hal' = Append(hal, ch) /\ UNCHANGED <<line, reading, got, eof>>
    BY <1>4 DEF Type, bios
  <2>2. Partial' = Partial
    BY <2>1 DEF Partial
  <2>3. Partial \o Append(hal, ch) = Append(Partial \o hal, ch)
    BY <1>0, Shapes
  <2>4. Machine!Arrive
    BY <1>1, <2>1, <2>2, <2>3 DEF Machine!Arrive
  <2> QED BY <2>4 DEF Machine!Next
<1> QED BY <1>2, <1>3, <1>4 DEF ConsoleEvent

\* OUT 01 issues a call, a HLT ends a program or the machine, a fault stops it.
LEMMA InstructionImplements ==
  ASSUME IInv, LineInv, NEW cells \in SUBSET Cells, Out(cells) \/ Hlt(cells) \/ Fault(cells)
  PROVE  Machine!Next
<1>1. /\ UNCHANGED <<line, reading, got, hal, eof>>
      /\ state \in Exec
  BY DEF Out, Hlt, Fault, Step, Executing, bios, console
<1>2. pending = NoCall /\ state \notin {"SYSCALL", "IDLE", "HALT"}
  BY <1>1 DEF IInv, CallLatched, Exec
<1>3. Partial' = Partial
  BY <1>1 DEF Partial
<1>4. CASE Out(cells)
  <2>1. state' = "SYSCALL" /\ resume' = state /\ pending' \in Calls
    BY <1>4, <1>1, Table DEF Out, Transit, Exec
  <2>2. Machine!Issue
    BY <1>1, <1>2, <1>3, <2>1 DEF Machine!Issue, Machine!NoCall, NoCall, Machine!Calls, Calls
  <2> QED BY <2>2 DEF Machine!Next
<1>5. CASE Hlt(cells)
  <2>1. CASE state = "SHELL"
    <3>1. state' = "HALT" /\ pending' = pending
      BY <1>5, <2>1, Table DEF Hlt, Transit
    <3>2. Machine!Stop
      BY <1>1, <1>2, <1>3, <3>1 DEF Machine!Stop, Machine!NoCall, NoCall
    <3> QED BY <3>2 DEF Machine!Next
  <2>2. CASE state # "SHELL"
    <3>1. state = "RUNNING" /\ state' = "SHELL" /\ pending' = NoCall
      BY <1>1, <1>5, <2>2, Table DEF Hlt, Transit, EnterShell, Exec
    <3>2. Machine!Finish
      BY <1>1, <1>2, <1>3, <3>1 DEF Machine!Finish, Machine!NoCall, NoCall
    <3> QED BY <3>2 DEF Machine!Next
  <2> QED BY <2>1, <2>2
<1>6. CASE Fault(cells)
  <2>1. state' = "HALT" /\ pending' = NoCall
    BY <1>6, Table DEF Fault, Transit
  <2>2. Machine!Stop
    BY <1>1, <1>2, <1>3, <2>1 DEF Machine!Stop, Machine!NoCall, NoCall
  <2> QED BY <2>2 DEF Machine!Next
<1> QED BY <1>4, <1>5, <1>6

\* Going back to the caller ends in the caller's mode (k_after_dispatch).
LEMMA BackToMode ==
  ASSUME TypeOK, Dispatching
  PROVE  Mode = resume /\ (Transit(BackToCaller) => state' = resume)
BY Table DEF TypeOK, ControlType, Dispatching, Mode, BackToCaller, Transit, Exec

\* A READLINE that cannot be served moves what has arrived into its half line
\* and parks: no byte is handed out and none is lost.
LEMMA WaitImplements ==
  ASSUME IInv, DispatchWait
  PROVE  UNCHANGED Machine!vars
<1>0. TypeOK
  BY DEF IInv
<1>1. state' = "IDLE" /\ state \in {"SYSCALL", "IDLE"} /\ UNCHANGED <<resume, pending, got, eof>>
  BY Table DEF DispatchWait, Transit, Dispatching, cpu
<1>2. CASE pending = "READLINE"
  <2>1. line' = Partial \o hal /\ reading' = TRUE /\ hal' = <<>>
    BY <1>2 DEF DispatchWait
  <2>2. Partial' = Partial \o hal
    BY <2>1 DEF Partial
  <2>3. (Partial \o hal) \o <<>> = Partial \o hal
    BY <1>0, Shapes, ConcatEmptySeq DEF Input
  <2> QED BY <1>1, <2>1, <2>2, <2>3 DEF Machine!vars
<1>3. CASE pending # "READLINE"
  <2>1. UNCHANGED <<line, reading, hal>>
    BY <1>3 DEF DispatchWait
  <2> QED BY <1>1, <2>1 DEF Machine!vars, Partial
<1> QED BY <1>2, <1>3

\* A call at the end of the console halts, with every byte handed out.
LEMMA EofImplements ==
  ASSUME IInv, LineInv, DispatchEof
  PROVE  Machine!Next
<1>0. TypeOK
  BY DEF IInv
<1>1. /\ state \in {"SYSCALL", "IDLE"} /\ state' = "HALT" /\ pending' = NoCall
      /\ UNCHANGED <<got, hal, eof>> /\ eof
      /\ pending \in {"CONIN", "READLINE"} /\ hal = <<>>
  BY Table DEF DispatchEof, Transit, Dispatching, AtEof, console
<1>2. Partial = <<>>
  BY <1>1 DEF DispatchEof, AtEof, LineInv, Partial
<1>3. Partial' = <<>>
  <2>1. CASE pending = "READLINE"
    BY <2>1 DEF DispatchEof, Partial
  <2>2. CASE pending # "READLINE"
    BY <1>2, <2>2 DEF DispatchEof, Partial
  <2> QED BY <2>1, <2>2
<1>4. <<>> \o <<>> = <<>>
  OBVIOUS
<1>5. Machine!EndOfInput
  BY <1>1, <1>2, <1>3, <1>4 DEF Machine!EndOfInput, Machine!NoCall, NoCall
<1> QED BY <1>5 DEF Machine!Next, Machine!Serve

\* The calls that take no input return to their caller, or to the program a
\* RUN has loaded.
LEMMA ReturnImplements ==
  ASSUME IInv, LineInv, DispatchOther \/ DispatchRun \/ DispatchVsync
  PROVE  Machine!Next
<1>0. TypeOK
  BY DEF IInv
<1>1. /\ Dispatching /\ pending' = NoCall /\ UNCHANGED <<line, reading, got, hal, eof>>
      /\ pending \in {"DISK", "OTHER", "RUN", "VSYNC"}
  BY DEF DispatchOther, DispatchRun, DispatchVsync, bios, console
<1>2. Mode' = Mode \/ (pending = "RUN" /\ Mode' = "RUNNING")
  <2>1. CASE DispatchRun
    <3>1. state' = "RUNNING" /\ pending = "RUN"
      BY <2>1, Table DEF DispatchRun, Transit
    <3> QED BY <3>1 DEF Mode
  <2>2. CASE DispatchOther \/ DispatchVsync
    <3>1. Transit(BackToCaller) /\ resume' = resume
      BY <2>2 DEF DispatchOther, DispatchVsync
    <3>2. Mode = resume /\ state' = resume /\ resume \in Exec
      BY <1>0, <1>1, <3>1, BackToMode, Shapes
    <3> QED BY <3>1, <3>2 DEF Mode, Exec
  <2> QED BY <2>1, <2>2
<1>3. Partial' = Partial
  BY <1>1 DEF Partial
<1>4. Machine!Return
  BY <1>1, <1>2, <1>3 DEF Machine!Return, Machine!NoCall, NoCall, Machine!Calls, Mode
<1> QED BY <1>4 DEF Machine!Next, Machine!Serve

\* Reset forgets the half line of a READLINE and nothing that waits behind it;
\* a load of the host forgets nothing.
LEMMA HostImplements ==
  ASSUME LoadsMidLine = FALSE, IInv, LineInv, Reset \/ LoadCom
  PROVE  Machine!Next
<1>0. TypeOK
  BY DEF IInv
<1>1. CASE Reset
  <2>1. /\ state' = "SHELL" /\ pending' = NoCall /\ got' = <<>> /\ UNCHANGED <<hal, eof>>
        /\ Partial' = <<>>
    BY <1>1 DEF Reset, EnterShell, console, Partial
  <2> DEFINE n == Len(Partial)
  <2>2. /\ n \in 0..Len(Partial \o hal)
        /\ SubSeq(Partial \o hal, n + 1, Len(Partial \o hal)) = hal
    <3>0. Partial \in Seq(Bytes) /\ hal \in Seq(Bytes) /\ Len(hal) \in Nat /\ Len(Partial) \in Nat
      BY <1>0, Shapes, LenProperties
    <3>1. 0 \in 0..Len(hal)
      BY <3>0
    <3>2. /\ Len(Partial) + 0 \in 0..Len(Partial \o hal)
          /\ SubSeq(Partial \o hal, Len(Partial) + 0 + 1, Len(Partial \o hal))
               = SubSeq(hal, 0 + 1, Len(hal))
      BY <3>0, <3>1, Taken
    <3>3. SubSeq(hal, 0 + 1, Len(hal)) = hal
      <4>1. /\ SubSeq(hal, 0 + 1, Len(hal)) \in Seq(Bytes)
            /\ Len(SubSeq(hal, 0 + 1, Len(hal))) = Len(hal) - 0
            /\ \A i \in 1..Len(hal) - 0 : SubSeq(hal, 0 + 1, Len(hal))[i] = hal[0 + i]
        BY <3>0, <3>1, SuffixOf
      <4>2. /\ Len(SubSeq(hal, 0 + 1, Len(hal))) = Len(hal)
            /\ \A i \in 1..Len(hal) : SubSeq(hal, 0 + 1, Len(hal))[i] = hal[i]
        BY <3>0, <4>1
      <4> QED BY <3>0, <4>1, <4>2, SeqEqual
    <3>4. Len(Partial) + 0 = n /\ Len(Partial) + 0 + 1 = n + 1
      BY <3>0
    <3> QED BY <3>2, <3>3, <3>4
  <2>3. n > 0 => pending = "READLINE" /\ \A i \in 1..n : (Partial \o hal)[i] # NL
    <3>1. CASE reading
      <4>1. pending = "READLINE" /\ Partial = line /\ \A i \in 1..Len(line) : line[i] # NL
        BY <1>0, <3>1, Shapes DEF LineInv, Partial
      <4>2. \A i \in 1..n : (Partial \o hal)[i] = Partial[i]
        <5> SUFFICES ASSUME NEW i \in 1..n PROVE (Partial \o hal)[i] = Partial[i]
          OBVIOUS
        <5>1. Partial \in Seq(Bytes) /\ hal \in Seq(Bytes)
          BY <1>0, Shapes
        <5>2. Len(Partial) \in Nat /\ Len(hal) \in Nat
          BY <5>1, LenProperties
        <5>3. i \in 1..Len(Partial) + Len(hal) /\ i <= Len(Partial)
          BY <5>2
        <5> QED BY <5>1, <5>3, ConcatProperties
      <4> QED BY <4>1, <4>2
    <3>2. CASE ~reading
      <4>1. n = 0
        BY <3>2, EmptySeq DEF Partial
      <4> QED BY <4>1
    <3> QED BY <3>1, <3>2
  <2>4. Partial' \o hal' = hal
    BY <1>0, <2>1, Shapes, ConcatEmptySeq
  <2>5. \E k \in 0..Len(Partial \o hal) :
          /\ hal = SubSeq(Partial \o hal, k + 1, Len(Partial \o hal))
          /\ k > 0 => pending = "READLINE" /\ \A i \in 1..k : (Partial \o hal)[i] # NL
    BY <2>2, <2>3
  <2>6. Machine!Reset
    BY <2>1, <2>4, <2>5 DEF Machine!Reset, Machine!NoCall, NoCall
  <2> QED BY <2>6 DEF Machine!Next
<1>2. CASE LoadCom
  <2>1. state' = "RUNNING" /\ pending' = NoCall /\ UNCHANGED <<line, reading, got, hal, eof>>
    BY <1>2 DEF LoadCom, ForceRunning, EnterShell, bios, console
  <2>2. Machine!Load
    BY <2>1 DEF Machine!Load, Machine!NoCall, NoCall, Partial
  <2> QED BY <2>2 DEF Machine!Next
<1> QED BY <1>1, <1>2

\* The end of a line is where the first NL is.
LEMMA LineEndIs ==
  ASSUME hal \in Seq(Bytes), HasLine(hal)
  PROVE  /\ LineEnd(hal) \in 1..Len(hal) /\ hal[LineEnd(hal)] = NL
         /\ \A j \in 1..Len(hal) : j < LineEnd(hal) => hal[j] # NL
<1> DEFINE Ends == {i \in DOMAIN hal : hal[i] = NL}
<1>1. Ends \subseteq Nat /\ Ends # {} /\ DOMAIN hal = 1..Len(hal)
  BY DEF HasLine
<1>2. PICK i \in Ends : \A j \in Ends : i <= j
  BY <1>1, NatMinimum
<1>3. i \in DOMAIN hal /\ hal[i] = NL /\ \A j \in DOMAIN hal : j < i => hal[j] # NL
  BY <1>1, <1>2
<1>4. /\ LineEnd(hal) \in DOMAIN hal /\ hal[LineEnd(hal)] = NL
      /\ \A j \in DOMAIN hal : j < LineEnd(hal) => hal[j] # NL
  BY <1>3 DEF LineEnd
<1> QED BY <1>1, <1>4

\* CONIN gives the oldest byte.
LEMMA ByteImplements ==
  ASSUME IInv, LineInv, DispatchInput, pending = "CONIN"
  PROVE  Machine!TakeByte
<1>0. TypeOK
  BY DEF IInv
<1>1. /\ Dispatching /\ pending' = NoCall /\ UNCHANGED <<line, reading, eof, resume>>
      /\ got' = Append(got, Head(hal)) /\ hal' = Tail(hal) /\ hal # <<>>
      /\ Transit(BackToCaller)
  BY DEF DispatchInput, MustWait, AtEof
<1>2. Mode' = Mode
  <2>1. Mode = resume /\ state' = resume /\ resume \in Exec
    BY <1>0, <1>1, BackToMode, Shapes
  <2> QED BY <1>1, <2>1 DEF Mode, Exec
<1>3. Partial = <<>> /\ Partial' = <<>>
  BY <1>1 DEF LineInv, Partial
<1>4. hal \in Seq(Bytes) /\ got \in Seq(Bytes) /\ Tail(hal) \in Seq(Bytes)
  BY <1>0, <1>1, Shapes, HeadTailProperties
<1>5. Partial \o hal = hal /\ Partial' \o hal' = Tail(hal)
  BY <1>1, <1>3, <1>4, ConcatEmptySeq
<1>6. /\ 1 <= Len(hal) /\ Append(got, Head(hal)) = got \o SubSeq(hal, 1, 1)
      /\ Tail(hal) = SubSeq(hal, 1 + 1, Len(hal))
  BY <1>1, <1>4
<1>7. Machine!Give(1)
  BY <1>1, <1>2, <1>5, <1>6 DEF Machine!Give, Machine!NoCall, NoCall, Mode
<1> QED BY <1>7 DEF Machine!TakeByte

\* READLINE gives the half line it parked with and the rest of that line.
LEMMA ReadlineImplements ==
  ASSUME IInv, LineInv, DispatchInput, pending # "CONIN"
  PROVE  Machine!TakeLine
<1> DEFINE n == IF HasLine(hal) THEN LineEnd(hal) ELSE Len(hal)
           m == Len(Partial) + n
<1>0. TypeOK
  BY DEF IInv
<1>1. /\ Dispatching /\ pending = "READLINE" /\ pending' = NoCall /\ UNCHANGED <<eof, resume>>
      /\ reading' = FALSE
      /\ got' = got \o Partial \o SubSeq(hal, 1, n) /\ hal' = SubSeq(hal, n + 1, Len(hal))
      /\ Transit(BackToCaller)
      /\ HasLine(hal) \/ (eof /\ (hal # <<>> \/ Partial # <<>>))
  BY DEF DispatchInput, MustWait, AtEof
<1>2. Mode' = Mode
  <2>1. Mode = resume /\ state' = resume /\ resume \in Exec
    BY <1>0, <1>1, BackToMode, Shapes
  <2> QED BY <1>1, <2>1 DEF Mode, Exec
<1>3. /\ Partial \in Seq(Bytes) /\ hal \in Seq(Bytes) /\ got \in Seq(Bytes)
      /\ Len(Partial) \in Nat /\ Len(hal) \in Nat /\ n \in 0..Len(hal)
  BY <1>0, Shapes, LineBounds, LenProperties
<1>4. /\ n = Len(hal) \/ (n \in 1..Len(hal) /\ hal[n] = NL)
      /\ HasLine(hal) => n \in 1..Len(hal) /\ hal[n] = NL
      /\ ~HasLine(hal) => n = Len(hal)
      /\ \A j \in 1..Len(hal) : j < n => hal[j] # NL
  BY <1>3, LineEndIs DEF HasLine
<1> HIDE DEF n
<1>5. /\ m \in 0..Len(Partial \o hal)
      /\ SubSeq(Partial \o hal, 1, m) = Partial \o SubSeq(hal, 1, n)
      /\ SubSeq(Partial \o hal, m + 1, Len(Partial \o hal)) = SubSeq(hal, n + 1, Len(hal))
  BY <1>3, Taken
<1>6. /\ SubSeq(hal, 1, n) \in Seq(Bytes) /\ SubSeq(hal, n + 1, Len(hal)) \in Seq(Bytes)
  BY <1>3, PrefixOf, SuffixOf
<1>7. got' = got \o (Partial \o SubSeq(hal, 1, n))
  <2> DEFINE taken == SubSeq(hal, 1, n)
  <2>1. taken \in Seq(Bytes) /\ got' = got \o Partial \o taken
    BY <1>1, <1>6
  <2> HIDE DEF taken
  <2>2. (got \o Partial) \o taken = got \o (Partial \o taken)
    BY <1>3, <2>1, ConcatAssociative
  <2> QED BY <2>1, <2>2 DEF taken
<1>8. Partial' \o hal' = SubSeq(hal, n + 1, Len(hal))
  <2>1. Partial' = <<>>
    BY <1>1 DEF Partial
  <2> QED BY <1>1, <1>6, <2>1, ConcatEmptySeq
<1>9. /\ Len(Partial \o hal) = Len(Partial) + Len(hal)
      /\ DOMAIN (Partial \o hal) = 1..Len(Partial) + Len(hal)
      /\ \A i \in 1..Len(Partial) + Len(hal) :
           (Partial \o hal)[i] = IF i <= Len(Partial) THEN Partial[i] ELSE hal[i - Len(Partial)]
  BY <1>3, ConcatProperties, LenProperties
<1>10. m \in DOMAIN (Partial \o hal)
  <2>1. hal # <<>> => Len(hal) > 0
    BY <1>3, EmptySeq
  <2>2. Partial # <<>> => Len(Partial) > 0
    BY <1>3, EmptySeq
  <2> QED BY <1>1, <1>3, <1>4, <1>9, <2>1, <2>2
<1>11. ASSUME NEW i \in 1..(m - 1) PROVE (Partial \o hal)[i] # NL
  <2>1. i \in 1..Len(Partial) + Len(hal)
    BY <1>3
  <2>2. CASE i <= Len(Partial)
    <3>1. i \in 1..Len(Partial)
      BY <1>3, <2>2
    <3>2. reading /\ Partial = line
      BY <3>1 DEF Partial
    <3>3. Partial[i] # NL
      BY <1>3, <3>1, <3>2 DEF LineInv
    <3> QED BY <1>9, <2>1, <2>2, <3>3
  <2>3. CASE ~(i <= Len(Partial))
    <3>1. i - Len(Partial) \in 1..Len(hal) /\ i - Len(Partial) < n
      BY <1>3, <2>3
    <3> QED BY <1>4, <1>9, <2>1, <2>3, <3>1
  <2> QED BY <2>2, <2>3
<1>12. (Partial \o hal)[m] = NL \/ (eof /\ m = Len(Partial \o hal))
  <2>1. CASE HasLine(hal)
    <3>1. m > Len(Partial) /\ m - Len(Partial) = n /\ m \in 1..Len(Partial) + Len(hal)
      BY <1>3, <1>4, <2>1
    <3> QED BY <1>4, <1>9, <2>1, <3>1
  <2>2. CASE ~HasLine(hal)
    BY <1>1, <1>3, <1>4, <1>9, <2>2
  <2> QED BY <2>1, <2>2
<1> HIDE DEF m
<1>13. m <= Len(Partial \o hal)
  BY <1>3, <1>5
<1>14. Machine!IsLine(m)
  BY <1>10, <1>11, <1>12 DEF Machine!IsLine
<1>15. Machine!Give(m)
  BY <1>1, <1>2, <1>5, <1>7, <1>8, <1>13 DEF Machine!Give, Machine!NoCall, NoCall, Mode
<1> QED BY <1>1, <1>10, <1>14, <1>15 DEF Machine!TakeLine

\* Every step of the kernel is a step of the blocking machine or none.
LEMMA NextImplements ==
  ASSUME LoadsMidLine = FALSE, IInv, LineInv, [Next]_vars
  PROVE  [Machine!Next]_(Machine!vars)
<1>1. CASE UNCHANGED vars
  BY <1>1 DEF vars, control, cpu, bios, console, Machine!vars, Partial
<1>2. CASE Quiet
  BY <1>2, QuietImplements
<1>3. CASE Dispatch
  <2>1. CASE DispatchInput
    BY <2>1, ByteImplements, ReadlineImplements DEF Machine!Next, Machine!Serve
  <2> QED BY <1>3, <2>1, WaitImplements, EofImplements, ReturnImplements DEF Dispatch
<1>4. ASSUME NEW cells \in SUBSET Cells, Out(cells) \/ Hlt(cells) \/ Fault(cells)
      PROVE  Machine!Next
  BY <1>4, InstructionImplements
<1>5. CASE Reset \/ LoadCom
  BY <1>5, HostImplements
<1> QED BY <1>1, <1>2, <1>3, <1>4, <1>5, NextCases DEF Moves

\* Polling, parking and dispatching again implement blocking calls: what the
\* kernel and the BIOS do is, step by step, what BlockingMachine.tla does or
\* nothing at all, as long as no program is loaded while a READLINE is parked
\* (kernel_step, bios_dispatch, k_after_dispatch).
THEOREM KernelImplementsMachine ==
  ASSUME LoadsMidLine = FALSE
  PROVE  Spec => Machine!Init /\ [][Machine!Next]_(Machine!vars)
<1>1. Init => IInv /\ LineInv /\ Machine!Init
  BY InitIInv, InitImplements
<1>2. IInv /\ LineInv /\ [Next]_vars => IInv' /\ LineInv'
  BY StepIInv, LineInvKept
<1>3. IInv /\ LineInv /\ [Next]_vars => [Machine!Next]_(Machine!vars)
  BY NextImplements
<1> QED BY <1>1, <1>2, <1>3, PTL DEF Spec
=============================================================================
