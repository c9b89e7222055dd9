---------------------------- MODULE KernelProofs ----------------------------
(***************************************************************************)
(* Proofs about Kernel.tla for every value of its constants.               *)
(***************************************************************************)
EXTENDS Kernel, Induction, SequenceTheorems

---------------------------------------------------------------------------
(* The breakpoint table.                                                   *)

\* k_bp_find returns a slot of the table exactly when one matches.
LEMMA FirstSlot ==
  ASSUME NEW S \in SUBSET BpSlots
  PROVE  /\ First(S) \in 0..MaxBps
         /\ First(S) = NoHit <=> S = {}
<1>0. MaxBps \in Nat
  BY ConstantsAssumption DEF ConstantsAssumption
<1>1. CASE S = {}
  BY <1>0, <1>1 DEF First, NoHit
<1>2. CASE S # {}
  <2>1. S \subseteq Nat
    BY <1>0 DEF BpSlots
  <2>2. PICK b \in S : \A c \in S : b <= c
    BY <1>2, <2>1, NatMinimum
  <2>3. First(S) \in S
    BY <1>2, <2>2 DEF First
  <2>4. First(S) \in BpSlots
    BY <2>3
  <2>5. First(S) \in 0..MaxBps /\ First(S) # 0
    BY <1>0, <2>4 DEF BpSlots
  <2> QED BY <1>2, <2>5 DEF NoHit
<1> QED BY <1>1, <1>2

\* The sets First is applied to are sets of slots.
LEMMA MatchingSlots ==
  /\ \A kind, v : Matching(kind, v) \in SUBSET BpSlots
  /\ PcHits \in SUBSET BpSlots
BY DEF Matching, PcHits

\* k_bp_access answers with a slot or with none.
LEMMA WatchedSlot ==
  ASSUME NEW ages, NEW s
  PROVE  Watched(ages, s) \in 0..MaxBps
BY FirstSlot DEF Watched

\* Keeping the last of two hits gives a slot or none.
LEMMA OverSlot ==
  ASSUME NEW x \in 0..MaxBps, NEW y \in 0..MaxBps
  PROVE  Over(x, y) \in 0..MaxBps
BY DEF Over

\* The breakpoint tests of k_transit answer with a slot or none.
LEMMA StateHitSlot ==
  ASSUME NEW i
  PROVE  StateHit(i) \in 0..MaxBps
<1>1. First(Matching("STATE", Row(i).to)) \in 0..MaxBps
  BY MatchingSlots, FirstSlot
<1>2. First(Matching("STATE", "SYSCALL")) \in 0..MaxBps
  BY MatchingSlots, FirstSlot
<1>3. NoHit \in 0..MaxBps
  BY ConstantsAssumption DEF ConstantsAssumption, NoHit
<1> QED BY <1>1, <1>2, <1>3, OverSlot DEF StateHit

\* So do the tests after a BIOS call (k_after_dispatch).
LEMMA CallHitsSlot ==
  ASSUME NEW i, NEW ages
  PROVE  /\ CallHit \in 0..MaxBps
         /\ CallHits(i, ages) \in 0..MaxBps
<1>1. CallHit \in 0..MaxBps
  BY MatchingSlots, FirstSlot DEF CallHit
<1> QED BY <1>1, WatchedSlot, StateHitSlot, OverSlot DEF CallHits

---------------------------------------------------------------------------
(* Type correctness.                                                       *)

USE DEF NoHit

\* The ways an iteration ends keep bpHit, phase and stop well typed.
LEMMA LeaveType ==
  ASSUME WatchType, NEW why \in Stops, NEW hit \in 0..MaxBps, Leave(why, hit)
  PROVE  bpHit' \in 0..MaxBps /\ phase' = "DONE" /\ stop' \in Stops
BY OverSlot DEF Leave, WatchType, Stops

\* The same when the loop may go round again.
LEMMA ContinueType ==
  ASSUME WatchType, CallType, NEW hit \in 0..MaxBps, Continue(hit)
  PROVE  bpHit' \in 0..MaxBps /\ phase' \in {"LOOP", "DONE"} /\ stop' \in Stops
BY OverSlot DEF Continue, WatchType, CallType, Stops

\* k_transit enters a state of the machine and counts in range.
LEMMA TransitType ==
  ASSUME ControlType, NEW i \in 1..11, Transit(i)
  PROVE  state' \in States \ {"BOOT"} /\ counts' \in [0..11 -> Nat]
<1>1. Row(i).to \in States \ {"BOOT"}
  BY DEF Row, k_table, States
<1>2. counts \in [0..11 -> Nat]
  BY DEF ControlType
<1> QED BY <1>1, <1>2 DEF Transit

\* kernel_write_meta writes a well formed block ...
LEMMA MetaType ==
  ASSUME NEW st \in States, NEW n \in Nat, NEW rsn \in Reasons, NEW last \in Stops
  PROVE  Meta(st, n, rsn, last) \in MetaBlocks
BY DEF Meta, MetaBlocks

\* ... and so does the boot.
LEMMA BootMetaType == BootMeta \in MetaBlocks
<1>1. "SHELL" \in States /\ 0 \in Nat /\ "NONE" \in Reasons /\ "BUDGET" \in Stops
  BY DEF States, Reasons, Stops
<1> QED BY <1>1, MetaType DEF BootMeta

\* The table kernel_bp_clear leaves is a breakpoint table.
LEMMA NoBpsType == NoBps \in BpTables
BY DEF NoBps, NoBp, BpTables

\* Noting a visit (k_bp_pc) keeps the breakpoint table well typed.
LEMMA VisitedType == bps \in BpTables => PcVisited \in BpTables
BY DEF PcVisited, BpTables

\* kernel_init leaves every variable in its type.
LEMMA InitType == Init => TypeOK
<1> SUFFICES ASSUME Init PROVE TypeOK
  OBVIOUS
<1>0. MaxBps \in Nat /\ MaxSteps \in Nat /\ Entry \in PCs
  BY ConstantsAssumption DEF ConstantsAssumption
<1>1. ControlType
  BY <1>0 DEF Init, ControlType, BootCounts, States, Exec, Reasons, NoCall
<1>2. ConsoleType
  <2>1. <<>> \in Seq(Bytes) /\ FALSE \in BOOLEAN
    BY EmptySeq
  <2> QED BY <2>1 DEF Init, ConsoleType
<1>3. WatchType
  BY <1>0, NoBpsType DEF Init, WatchType
<1>4. CallType
  BY <1>0 DEF Init, CallType, Stops
<1>5. RecordType
  BY BootMetaType DEF Init, RecordType, NoLoads, Stops
<1> QED BY <1>1, <1>2, <1>3, <1>4, <1>5 DEF TypeOK

\* The parts of the step an instruction takes whatever it is.
LEMMA StepType ==
  ASSUME TypeOK, NEW cells \in SUBSET Cells, Step(cells), StepReport
  PROVE  /\ steps' \in Nat /\ left' \in Nat /\ steps' + left' <= MaxSteps
         /\ stamp' \in Nat /\ reported' \in Nat /\ bps' \in BpTables
         /\ age' \in [Cells -> Nat] /\ touched' \subseteq Cells
         /\ Access \in 0..MaxBps
         /\ ConsoleType' /\ RecordType'
<1>1. MaxBps \in Nat /\ MaxSteps \in Nat
  BY ConstantsAssumption DEF ConstantsAssumption
<1>2. steps \in Nat /\ lastSnap \in Nat /\ reported \in Nat /\ age \in [Cells -> Nat]
  BY DEF TypeOK, CallType, RecordType, WatchType
<1>3. steps' \in Nat /\ left' \in Nat /\ steps' + left' <= MaxSteps
  BY <1>1 DEF Step, TypeOK, CallType
<1>4. stamp' \in Nat /\ age' \in [Cells -> Nat] /\ touched' \subseteq Cells
  BY <1>2 DEF Step
<1>5. reported' \in Nat
  BY <1>2 DEF StepReport
<1>6. bps' \in BpTables
  BY VisitedType DEF Step, TypeOK, WatchType
<1>7. Access \in 0..MaxBps
  BY <1>1, WatchedSlot DEF Access
<1>8. ConsoleType'
  BY DEF Step, TypeOK, ConsoleType, bios, console
<1>9. lastSnap' \in Nat
  BY <1>2 DEF Step, TakeSnap
<1>10. RecordType'
  BY <1>9 DEF Step, TypeOK, RecordType, host
<1> QED BY <1>3, <1>4, <1>5, <1>6, <1>7, <1>8, <1>10

\* A READLINE takes no more bytes than there are.
LEMMA LineBounds ==
  ASSUME hal \in Seq(Bytes)
  PROVE  (IF HasLine(hal) THEN LineEnd(hal) ELSE Len(hal)) \in 0..Len(hal)
<1>1. CASE HasLine(hal)
  <2> DEFINE Ends == {i \in DOMAIN hal : hal[i] = NL}
  <2>1. Ends \subseteq Nat /\ Ends # {}
    BY <1>1 DEF HasLine
  <2>2. PICK i \in Ends : \A j \in Ends : i <= j
    BY <2>1, NatMinimum
  <2>3. i \in DOMAIN hal /\ hal[i] = NL /\ \A j \in DOMAIN hal : j < i => hal[j] # NL
    BY <2>2
  <2>4. LineEnd(hal) \in DOMAIN hal
    BY <2>3 DEF LineEnd
  <2> QED BY <1>1, <2>4
<1>2. CASE ~HasLine(hal)
  BY <1>2
<1> QED BY <1>1, <1>2

\* CONIN and READLINE hand out bytes and leave bytes (svc_conin,
\* svc_readline).
LEMMA InputTaken ==
  ASSUME ConsoleType, DispatchInput
  PROVE  ConsoleType'
<1>0. hal \in Seq(Bytes) /\ got \in Seq(Bytes) /\ line \in Seq(Bytes)
  BY DEF ConsoleType
<1>1. CASE pending = "CONIN"
  <2>1. hal # <<>>
    BY <1>1 DEF DispatchInput, MustWait, AtEof
  <2>2. Head(hal) \in Bytes /\ Tail(hal) \in Seq(Bytes)
    BY <1>0, <2>1, HeadTailProperties
  <2>3. hal' = Tail(hal) /\ got' = Append(got, Head(hal)) /\ UNCHANGED <<line, reading, eof>>
    BY <1>1 DEF DispatchInput
  <2>4. Append(got, Head(hal)) \in Seq(Bytes)
    BY <1>0, <2>2
  <2> QED BY <2>2, <2>3, <2>4 DEF ConsoleType
<1>2. CASE pending # "CONIN"
  <2> DEFINE n == IF HasLine(hal) THEN LineEnd(hal) ELSE Len(hal)
  <2>1. /\ line' = Partial \o SubSeq(hal, 1, IF HasLine(hal) THEN n - 1 ELSE n)
        /\ reading' = FALSE
        /\ got' = got \o Partial \o SubSeq(hal, 1, n)
        /\ hal' = SubSeq(hal, n + 1, Len(hal))
        /\ eof' = eof
    BY <1>2 DEF DispatchInput
  <2>2. n \in 0..Len(hal)
    BY <1>0, LineBounds
  <2> HIDE DEF n
  <2>3. n \in Int /\ n - 1 \in Int /\ n + 1 \in Int /\ Len(hal) \in Int
    BY <1>0, <2>2
  <2>4. \A i \in 1..Len(hal) : hal[i] \in Bytes
    BY <1>0
  <2>5. \A i \in 1..n : hal[i] \in Bytes
    BY <1>0, <2>2, <2>4
  <2>6. \A i \in 1..(n - 1) : hal[i] \in Bytes
    BY <1>0, <2>2, <2>4
  <2>7. \A i \in (n + 1)..Len(hal) : hal[i] \in Bytes
    BY <1>0, <2>2, <2>4
  <2>8. /\ SubSeq(hal, 1, n) \in Seq(Bytes)
        /\ SubSeq(hal, 1, n - 1) \in Seq(Bytes)
        /\ SubSeq(hal, n + 1, Len(hal)) \in Seq(Bytes)
    BY <2>3, <2>5, <2>6, <2>7, SubSeqProperties
  <2>9. Partial \in Seq(Bytes)
    BY <1>0 DEF Partial
  <2>10. line' \in Seq(Bytes) /\ got' \in Seq(Bytes) /\ hal' \in Seq(Bytes)
    BY <1>0, <2>1, <2>8, <2>9
  <2> QED BY <2>1, <2>10 DEF ConsoleType
<1> QED BY <1>1, <1>2


\* Every iteration of the kernel_step loop keeps the types.
LEMMA IterateType ==
  ASSUME TypeOK, Iterate
  PROVE  TypeOK'
<1> USE DEF TypeOK
<1>0. MaxBps \in Nat /\ MaxSteps \in Nat /\ Entry \in PCs
  BY ConstantsAssumption DEF ConstantsAssumption
<1>1. CASE StayHalted \/ StayIdle \/ OutOfBudget
  <2>1. PICK why \in {"HALT", "WAIT_INPUT", "BUDGET"} : Leave(why, NoHit)
    BY <1>1 DEF StayHalted, StayIdle, OutOfBudget
  <2>2. bpHit' \in 0..MaxBps /\ phase' = "DONE" /\ stop' \in Stops
    BY <1>0, <2>1, LeaveType DEF Stops
  <2>3. ControlType'
    BY <1>1 DEF StayHalted, StayIdle, OutOfBudget, ControlType, control, cpu
  <2>4. ConsoleType'
    BY <1>1 DEF StayHalted, StayIdle, OutOfBudget, ConsoleType, bios, console
  <2>5. WatchType'
    BY <1>1, <2>2 DEF StayHalted, StayIdle, OutOfBudget, WatchType, watch
  <2>6. CallType'
    BY <1>1, <2>2 DEF StayHalted, StayIdle, OutOfBudget, CallType
  <2>7. RecordType'
    BY <1>1 DEF StayHalted, StayIdle, OutOfBudget, RecordType, host
  <2> QED BY <2>3, <2>4, <2>5, <2>6, <2>7
<1>2. CASE PcBreak
  <2>1. First(PcHits) \in 0..MaxBps
    BY MatchingSlots, FirstSlot
  <2>2. bpHit' \in 0..MaxBps /\ phase' = "DONE" /\ stop' \in Stops
    BY <1>2, <2>1, LeaveType DEF PcBreak, Stops
  <2>3. lastSnap' \in Nat
    BY <1>2 DEF PcBreak, TakeSnap, CallType, RecordType
  <2>4. ControlType'
    BY <1>2 DEF PcBreak, ControlType, control, cpu
  <2>5. ConsoleType'
    BY <1>2 DEF PcBreak, ConsoleType, bios, console
  <2>6. WatchType'
    BY <1>2, <2>2, VisitedType DEF PcBreak, WatchType, watch
  <2>7. CallType'
    BY <1>2, <2>2 DEF PcBreak, CallType
  <2>8. RecordType'
    BY <1>2, <2>3 DEF PcBreak, RecordType, host
  <2> QED BY <2>4, <2>5, <2>6, <2>7, <2>8
<1>3. CASE DispatchWait
  <2>1. Transit(6) /\ Leave("WAIT_INPUT", CallHits(6, age))
    BY <1>3 DEF DispatchWait
  <2>2. bpHit' \in 0..MaxBps /\ phase' = "DONE" /\ stop' \in Stops
    BY <2>1, CallHitsSlot, LeaveType DEF Stops
  <2>3. state' \in States \ {"BOOT"} /\ counts' \in [0..11 -> Nat]
    BY <2>1, TransitType
  <2>4. reported' \in Nat
    BY <1>3 DEF DispatchWait, Report, WatchType
  <2>5. Partial \in Seq(Bytes) /\ hal \in Seq(Bytes)
    BY DEF ConsoleType, Partial
  <2>6. Partial \o hal \in Seq(Bytes)
    BY <2>5
  <2>7. ControlType'
    BY <1>3, <2>3 DEF DispatchWait, ControlType, cpu
  <2>8. ConsoleType'
    BY <1>3, <2>6, EmptySeq DEF DispatchWait, ConsoleType
  <2>9. WatchType'
    BY <1>3, <2>2, <2>4 DEF DispatchWait, WatchType
  <2>10. CallType'
    BY <1>3, <2>2 DEF DispatchWait, CallType
  <2>11. RecordType'
    BY <1>3 DEF DispatchWait, RecordType, host
  <2> QED BY <2>7, <2>8, <2>9, <2>10, <2>11
<1>4. CASE DispatchEof
  <2>1. PICK row \in {8, 11} : Transit(row) /\ Leave("HALT", Over(StateHit(row), CallHit))
    BY <1>4 DEF DispatchEof
  <2>2. Over(StateHit(row), CallHit) \in 0..MaxBps
    BY StateHitSlot, CallHitsSlot, OverSlot
  <2>3. bpHit' \in 0..MaxBps /\ phase' = "DONE" /\ stop' \in Stops
    BY <2>1, <2>2, LeaveType DEF Stops
  <2>4. state' \in States \ {"BOOT"} /\ counts' \in [0..11 -> Nat]
    BY <2>1, TransitType
  <2>5. ControlType'
    BY <1>4, <2>4 DEF DispatchEof, ControlType, Reasons
  <2>6. ConsoleType'
    BY <1>4, EmptySeq DEF DispatchEof, ConsoleType, console
  <2>7. WatchType'
    BY <1>4, <2>3 DEF DispatchEof, WatchType, watch
  <2>8. CallType'
    BY <1>4, <2>3 DEF DispatchEof, CallType
  <2>9. RecordType'
    BY <1>4 DEF DispatchEof, RecordType, host
  <2> QED BY <2>5, <2>6, <2>7, <2>8, <2>9
<1>5. CASE DispatchInput
  <2>1. BackToCaller \in 1..11
    BY DEF BackToCaller
  <2>2. Transit(BackToCaller) /\ Continue(CallHits(BackToCaller, age))
    BY <1>5 DEF DispatchInput
  <2>3. bpHit' \in 0..MaxBps /\ phase' \in {"LOOP", "DONE"} /\ stop' \in Stops
    BY <2>2, CallHitsSlot, ContinueType
  <2>4. state' \in States \ {"BOOT"} /\ counts' \in [0..11 -> Nat]
    BY <2>1, <2>2, TransitType
  <2>5. reported' \in Nat /\ age' \in [Cells -> Nat]
    BY <1>5, <2>2 DEF DispatchInput, Report, WatchType
  <2>6. ControlType'
    BY <1>5, <1>0, <2>4 DEF DispatchInput, ControlType
  <2>7. ConsoleType'
    BY <1>5, InputTaken
  <2>8. WatchType'
    BY <1>5, <2>3, <2>5 DEF DispatchInput, WatchType
  <2>9. CallType'
    BY <1>5, <2>3 DEF DispatchInput, CallType
  <2>10. RecordType'
    BY <1>5 DEF DispatchInput, RecordType, host
  <2> QED BY <2>6, <2>7, <2>8, <2>9, <2>10
<1>6. CASE DispatchOther
  <2>1. BackToCaller \in 1..11
    BY DEF BackToCaller
  <2>2. PICK cells \in SUBSET Cells :
           /\ age' = [c \in Cells |-> IF c \in cells THEN stamp ELSE age[c]]
           /\ Transit(BackToCaller) /\ Continue(CallHits(BackToCaller, age'))
           /\ Report(age')
    BY <1>6 DEF DispatchOther
  <2>3. bpHit' \in 0..MaxBps /\ phase' \in {"LOOP", "DONE"} /\ stop' \in Stops
    BY <2>2, CallHitsSlot, ContinueType
  <2>4. state' \in States \ {"BOOT"} /\ counts' \in [0..11 -> Nat]
    BY <2>1, <2>2, TransitType
  <2>5. reported' \in Nat /\ age' \in [Cells -> Nat]
    BY <1>6, <2>2 DEF DispatchOther, Report, WatchType
  <2>6. ControlType'
    BY <1>6, <1>0, <2>4 DEF DispatchOther, ControlType
  <2>7. ConsoleType'
    BY <1>6 DEF DispatchOther, ConsoleType, bios, console
  <2>8. WatchType'
    BY <1>6, <2>3, <2>5 DEF DispatchOther, WatchType
  <2>9. CallType'
    BY <1>6, <2>3 DEF DispatchOther, CallType
  <2>10. RecordType'
    BY <1>6 DEF DispatchOther, RecordType, host
  <2> QED BY <2>6, <2>7, <2>8, <2>9, <2>10
<1>7. CASE DispatchRun
  <2>1. 3 \in 1..11
    OBVIOUS
  <2>2. Transit(3) /\ Continue(CallHits(3, age))
    BY <1>7 DEF DispatchRun
  <2>3. bpHit' \in 0..MaxBps /\ phase' \in {"LOOP", "DONE"} /\ stop' \in Stops
    BY <2>2, CallHitsSlot, ContinueType
  <2>4. state' \in States \ {"BOOT"} /\ counts' \in [0..11 -> Nat]
    BY <2>1, <2>2, TransitType
  <2>5. reported' \in Nat /\ age' \in [Cells -> Nat]
    BY <1>7, <2>2 DEF DispatchRun, Report, WatchType
  <2>6. ControlType'
    BY <1>7, <1>0, <2>4 DEF DispatchRun, ControlType, Exec, Reasons
  <2>7. ConsoleType'
    BY <1>7 DEF DispatchRun, ConsoleType, bios, console
  <2>8. WatchType'
    BY <1>7, <2>3, <2>5 DEF DispatchRun, WatchType
  <2>9. CallType'
    BY <1>7, <2>3 DEF DispatchRun, CallType
  <2>10. RecordType'
    BY <1>7 DEF DispatchRun, RecordType, host
  <2> QED BY <2>6, <2>7, <2>8, <2>9, <2>10
<1>8. CASE DispatchVsync
  <2>1. BackToCaller \in 1..11
    BY DEF BackToCaller
  <2>2. Transit(BackToCaller) /\ Leave("VSYNC", CallHits(BackToCaller, age))
    BY <1>8 DEF DispatchVsync
  <2>3. bpHit' \in 0..MaxBps /\ phase' \in {"LOOP", "DONE"} /\ stop' \in Stops
    BY <2>2, CallHitsSlot, LeaveType DEF Stops
  <2>4. state' \in States \ {"BOOT"} /\ counts' \in [0..11 -> Nat]
    BY <2>1, <2>2, TransitType
  <2>5. reported' \in Nat /\ age' \in [Cells -> Nat]
    BY <1>8, <2>2 DEF DispatchVsync, Report, WatchType
  <2>6. ControlType'
    BY <1>8, <1>0, <2>4 DEF DispatchVsync, ControlType
  <2>7. ConsoleType'
    BY <1>8 DEF DispatchVsync, ConsoleType, bios, console
  <2>8. WatchType'
    BY <1>8, <2>3, <2>5 DEF DispatchVsync, WatchType
  <2>9. CallType'
    BY <1>8, <2>3 DEF DispatchVsync, CallType
  <2>10. RecordType'
    BY <1>8 DEF DispatchVsync, RecordType, host
  <2> QED BY <2>6, <2>7, <2>8, <2>9, <2>10
<1>9. ASSUME NEW cells \in SUBSET Cells, Plain(cells) PROVE TypeOK'
  <2>1. Step(cells) /\ StepReport
    BY <1>9 DEF Plain
  <2>2. bpHit' \in 0..MaxBps /\ phase' \in {"LOOP", "DONE"} /\ stop' \in Stops
    BY <1>9, <2>1, StepType, ContinueType DEF Plain
  <2>3. state' \in States \ {"BOOT"} /\ counts' \in [0..11 -> Nat]
    BY <1>9 DEF Plain, control, ControlType
  <2>4. ControlType'
    BY <1>9, <2>3 DEF Plain, ControlType, control
  <2>5. ConsoleType'
    BY <2>1, StepType
  <2>6. WatchType'
    BY <2>1, <2>2, StepType DEF WatchType
  <2>7. CallType'
    BY <2>1, <2>2, StepType DEF CallType
  <2>8. RecordType'
    BY <2>1, StepType
  <2> QED BY <2>4, <2>5, <2>6, <2>7, <2>8
<1>10. ASSUME NEW cells \in SUBSET Cells, Out(cells) PROVE TypeOK'
  <2>1. Step(cells) /\ StepReport
    BY <1>10 DEF Out
  <2>2. PICK row \in {1, 4} : Transit(row) /\ Continue(Over(Access, StateHit(row)))
    BY <1>10 DEF Out
  <2>3. Over(Access, StateHit(row)) \in 0..MaxBps
    BY <2>1, StepType, StateHitSlot, OverSlot
  <2>4. bpHit' \in 0..MaxBps /\ phase' \in {"LOOP", "DONE"} /\ stop' \in Stops
    BY <2>2, <2>3, ContinueType
  <2>5. state' \in States \ {"BOOT"} /\ counts' \in [0..11 -> Nat]
    BY <2>2, TransitType
  <2>6. ControlType'
    BY <1>10, <2>1, <2>5 DEF Out, Step, Executing, ControlType
  <2>7. ConsoleType'
    BY <2>1, StepType
  <2>8. WatchType'
    BY <2>1, <2>4, StepType DEF WatchType
  <2>9. CallType'
    BY <2>1, <2>4, StepType DEF CallType
  <2>10. RecordType'
    BY <2>1, StepType
  <2> QED BY <2>6, <2>7, <2>8, <2>9, <2>10
<1>11. ASSUME NEW cells \in SUBSET Cells, Hlt(cells) PROVE TypeOK'
  <2>1. Step(cells) /\ StepReport
    BY <1>11 DEF Hlt
  <2>2. PICK row \in {5, 9} : /\ Transit(row)
                              /\ \/ Continue(Over(Access, StateHit(row)))
                                 \/ Leave("HALT", Over(Access, StateHit(row)))
    BY <1>11 DEF Hlt
  <2>3. Over(Access, StateHit(row)) \in 0..MaxBps
    BY <2>1, StepType, StateHitSlot, OverSlot
  <2>4. bpHit' \in 0..MaxBps /\ phase' \in {"LOOP", "DONE"} /\ stop' \in Stops
    BY <2>2, <2>3, ContinueType, LeaveType DEF Stops
  <2>5. state' \in States \ {"BOOT"} /\ counts' \in [0..11 -> Nat]
    BY <2>2, TransitType
  <2>6. ControlType'
    BY <1>11, <1>0, <2>5 DEF Hlt, EnterShell, ControlType, Exec, Reasons
  <2>7. ConsoleType'
    BY <2>1, StepType
  <2>8. WatchType'
    BY <2>1, <2>4, StepType DEF WatchType
  <2>9. CallType'
    BY <2>1, <2>4, StepType DEF CallType
  <2>10. RecordType'
    BY <2>1, StepType
  <2> QED BY <2>6, <2>7, <2>8, <2>9, <2>10
<1>12. ASSUME NEW cells \in SUBSET Cells, Fault(cells) PROVE TypeOK'
  <2>1. Step(cells) /\ StepReport
    BY <1>12 DEF Fault
  <2>2. PICK row \in {9, 10} : Transit(row) /\ Leave("HALT", Over(Access, StateHit(row)))
    BY <1>12 DEF Fault
  <2>3. Over(Access, StateHit(row)) \in 0..MaxBps
    BY <2>1, StepType, StateHitSlot, OverSlot
  <2>4. bpHit' \in 0..MaxBps /\ phase' \in {"LOOP", "DONE"} /\ stop' \in Stops
    BY <2>2, <2>3, LeaveType DEF Stops
  <2>5. state' \in States \ {"BOOT"} /\ counts' \in [0..11 -> Nat]
    BY <2>2, TransitType
  <2>6. ControlType'
    BY <1>12, <2>5 DEF Fault, ControlType, Reasons
  <2>7. ConsoleType'
    BY <2>1, StepType
  <2>8. WatchType'
    BY <2>1, <2>4, StepType DEF WatchType
  <2>9. CallType'
    BY <2>1, <2>4, StepType DEF CallType
  <2>10. RecordType'
    BY <2>1, StepType
  <2> QED BY <2>6, <2>7, <2>8, <2>9, <2>10
<1> QED
  BY <1>1, <1>2, <1>3, <1>4, <1>5, <1>6, <1>7, <1>8, <1>9, <1>10, <1>11, <1>12
  DEF Iterate, Dispatch, Instruction

\* Everything outside the loop keeps the types: entry and exit of
\* kernel_step, resets, loads, breakpoints, arriving input.
LEMMA HostType ==
  ASSUME TypeOK, HostStep \/ EndCall \/ HostPokes \/ ConsoleEvent
  PROVE  TypeOK'
<1> USE DEF TypeOK
<1>0. MaxBps \in Nat /\ MaxSteps \in Nat /\ Entry \in PCs /\ Budgets \subseteq Nat
  BY ConstantsAssumption DEF ConstantsAssumption
<1>1. ASSUME NEW max \in Budgets, StepCall(max) PROVE TypeOK'
  <2>1. ControlType'
    BY <1>1 DEF StepCall, ControlType, control, cpu
  <2>2. ConsoleType'
    BY <1>1 DEF StepCall, ConsoleType, bios, console
  <2>3. WatchType'
    BY <1>1, <1>0 DEF StepCall, WatchType, CallType
  <2>4. CallType'
    BY <1>1, <1>0 DEF StepCall, CallType, Stops
  <2>5. RecordType'
    BY <1>1 DEF StepCall, RecordType, host
  <2> QED BY <2>1, <2>2, <2>3, <2>4, <2>5
<1>2. CASE EndCall
  <2>1. meta' \in MetaBlocks
    BY <1>2, MetaType DEF EndCall, ControlType, CallType
  <2>2. lastSnap' \in Nat /\ dumped' \in Nat
    BY <1>2 DEF EndCall, TakeSnap, CallType, RecordType
  <2>3. ControlType'
    BY <1>2 DEF EndCall, ControlType, control, cpu
  <2>4. ConsoleType'
    BY <1>2 DEF EndCall, ConsoleType, bios, console
  <2>5. WatchType'
    BY <1>2 DEF EndCall, WatchType, watch
  <2>6. CallType'
    BY <1>2, <1>0 DEF EndCall, CallType
  <2>7. RecordType'
    BY <1>2, <2>1, <2>2 DEF EndCall, RecordType, CallType, host
  <2> QED BY <2>3, <2>4, <2>5, <2>6, <2>7
<1>3. CASE Reset
  <2>1. ControlType'
    BY <1>3, <1>0 DEF Reset, ControlType, EnterShell, BootCounts, States, Exec, Reasons
  <2>2. ConsoleType'
    BY <1>3, EmptySeq DEF Reset, ConsoleType, console
  <2>3. WatchType'
    BY <1>3, <1>0, NoBpsType DEF Reset, WatchType
  <2>4. CallType'
    BY <1>3, <1>0 DEF Reset, CallType, call
  <2>5. RecordType'
    BY <1>3, BootMetaType DEF Reset, HostOp, RecordType, NoLoads, Stops
  <2> QED BY <2>1, <2>2, <2>3, <2>4, <2>5
<1>4. CASE LoadCom
  <2>1. meta' \in MetaBlocks
    <3>1. "RUNNING" \in States /\ "NONE" \in Reasons
      BY DEF States, Reasons
    <3> QED BY <1>4, <3>1, MetaType DEF LoadCom, CallType, RecordType
  <2>2. loads' \in [States -> Nat]
    BY <1>4 DEF LoadCom, ControlType, RecordType
  <2>3. ControlType'
    BY <1>4, <1>0 DEF LoadCom, ControlType, ForceRunning, EnterShell, States, Exec, Reasons
  <2>4. ConsoleType'
    BY <1>4 DEF LoadCom, ConsoleType, bios, console
  <2>5. WatchType'
    BY <1>4, <1>0 DEF LoadCom, WatchType, watch
  <2>6. CallType'
    BY <1>4 DEF LoadCom, CallType, call
  <2>7. RecordType'
    BY <1>4, <2>1, <2>2 DEF LoadCom, HostOp, RecordType
  <2> QED BY <2>3, <2>4, <2>5, <2>6, <2>7
<1>5. CASE BpAdd
  <2>1. bps' \in BpTables
    BY <1>5, ConstantsAssumption DEF BpAdd, WatchType, ConstantsAssumption, BpTables
  <2>2. ControlType'
    BY <1>5 DEF BpAdd, ControlType, control, cpu
  <2>3. ConsoleType'
    BY <1>5 DEF BpAdd, ConsoleType, bios, console
  <2>4. WatchType'
    BY <1>5, <2>1 DEF BpAdd, WatchType, watch
  <2>5. CallType'
    BY <1>5 DEF BpAdd, CallType, call
  <2>6. RecordType'
    BY <1>5 DEF BpAdd, HostOp, RecordType
  <2> QED BY <2>2, <2>3, <2>4, <2>5, <2>6
<1>6. CASE BpClear
  <2>1. ControlType'
    BY <1>6 DEF BpClear, ControlType, control, cpu
  <2>2. ConsoleType'
    BY <1>6 DEF BpClear, ConsoleType, bios, console
  <2>3. WatchType'
    BY <1>6, <1>0, NoBpsType DEF BpClear, WatchType, watch, NoBps
  <2>4. CallType'
    BY <1>6 DEF BpClear, CallType, call
  <2>5. RecordType'
    BY <1>6 DEF BpClear, HostOp, RecordType
  <2> QED BY <2>1, <2>2, <2>3, <2>4, <2>5
<1>7. ASSUME NEW ch \in Bytes, Type(ch) PROVE TypeOK'
  <2>1. ControlType'
    BY <1>7 DEF Type, ControlType, control, cpu
  <2>2. ConsoleType'
    BY <1>7 DEF Type, ConsoleType, bios
  <2>3. WatchType'
    BY <1>7 DEF Type, WatchType, watch
  <2>4. CallType'
    BY <1>7 DEF Type, CallType, call
  <2>5. RecordType'
    BY <1>7 DEF Type, RecordType
  <2> QED BY <2>1, <2>2, <2>3, <2>4, <2>5
<1>8. CASE CloseInput
  <2>1. ControlType'
    BY <1>8 DEF CloseInput, ControlType, control, cpu
  <2>2. ConsoleType'
    BY <1>8 DEF CloseInput, ConsoleType, bios
  <2>3. WatchType'
    BY <1>8 DEF CloseInput, WatchType, watch
  <2>4. CallType'
    BY <1>8 DEF CloseInput, CallType, call
  <2>5. RecordType'
    BY <1>8 DEF CloseInput, RecordType
  <2> QED BY <2>1, <2>2, <2>3, <2>4, <2>5
<1> QED
  BY <1>1, <1>2, <1>3, <1>4, <1>5, <1>6, <1>7, <1>8 DEF HostStep, HostPokes, ConsoleEvent

\* A step that changes nothing keeps the types.
LEMMA StutterType ==
  ASSUME TypeOK, UNCHANGED vars
  PROVE  TypeOK'
<1>1. ControlType' /\ CallType'
  BY DEF TypeOK, ControlType, CallType, vars, control, cpu, call
<1>2. ConsoleType'
  BY DEF TypeOK, ConsoleType, vars, bios, console
<1>3. WatchType' /\ RecordType'
  BY DEF TypeOK, WatchType, RecordType, vars, watch, host
<1> QED BY <1>1, <1>2, <1>3 DEF TypeOK

\* The type invariant: kernel_t, the latch, the console and the call in
\* progress keep to their types through every handler, and no kernel_step call
\* runs past its budget.
THEOREM TypeCorrect == Spec => []TypeOK
<1>1. TypeOK /\ [Next]_vars => TypeOK'
  BY IterateType, HostType, StutterType DEF Next
<1> QED BY <1>1, InitType, PTL DEF Spec

---------------------------------------------------------------------------
(* The control state, the latch and the transition counts.                 *)

\* Everything the properties below say, together: the inductive invariant.
IInv ==
  /\ TypeOK /\ FlowConserved /\ CallLatched /\ HaltReasoned
  /\ SnapshotBound /\ StopTruthful /\ BreakpointReported /\ MetaFresh

\* The table, as far as the proofs look at it.
LEMMA Table ==
  /\ Row(1)  = [from |-> "SHELL",   to |-> "SYSCALL"]
  /\ Row(2)  = [from |-> "SYSCALL", to |-> "SHELL"]
  /\ Row(3)  = [from |-> "SYSCALL", to |-> "RUNNING"]
  /\ Row(4)  = [from |-> "RUNNING", to |-> "SYSCALL"]
  /\ Row(5)  = [from |-> "RUNNING", to |-> "SHELL"]
  /\ Row(6)  = [from |-> "SYSCALL", to |-> "IDLE"]
  /\ Row(8)  = [from |-> "IDLE",    to |-> "HALT"]
  /\ Row(9)  = [from |-> "SHELL",   to |-> "HALT"]
  /\ Row(10) = [from |-> "RUNNING", to |-> "HALT"]
  /\ Row(11) = [from |-> "SYSCALL", to |-> "HALT"]
BY DEF Row, k_table

\* A row may be taken from its origin, and from IDLE through row 7.
Legal(i) == Row(i).from = IF Woken(i) THEN "SYSCALL" ELSE state

\* One legal transition keeps the flow balanced.
LEMMA FlowTransit ==
  ASSUME ControlType, RecordType, FlowConserved, NEW i \in (1..11) \ {7},
         Transit(i), Legal(i), UNCHANGED loads
  PROVE  FlowConserved'
<1>1. /\ counts[0] \in Nat /\ counts[1] \in Nat /\ counts[2] \in Nat /\ counts[3] \in Nat
      /\ counts[4] \in Nat /\ counts[5] \in Nat /\ counts[6] \in Nat /\ counts[7] \in Nat
      /\ counts[8] \in Nat /\ counts[9] \in Nat /\ counts[10] \in Nat /\ counts[11] \in Nat
      /\ loads["BOOT"] \in Nat /\ loads["IDLE"] \in Nat /\ loads["SHELL"] \in Nat
      /\ loads["RUNNING"] \in Nat /\ loads["SYSCALL"] \in Nat /\ loads["HALT"] \in Nat
  BY DEF ControlType, RecordType, States
<1>2. \A r \in 0..11 :
        counts'[r] = IF r = i \/ (r = 7 /\ Woken(i)) THEN counts[r] + 1 ELSE counts[r]
  BY DEF Transit
<1>4. /\ state' = Row(i).to
      /\ Row(i).from = IF state = "IDLE" /\ i # 8 THEN "SYSCALL" ELSE state
  BY DEF Transit, Legal, Woken
<1>5. \/ i = 1 /\ state = "SHELL" /\ state' = "SYSCALL"
      \/ i = 2 /\ state \in {"SYSCALL", "IDLE"} /\ state' = "SHELL"
      \/ i = 3 /\ state \in {"SYSCALL", "IDLE"} /\ state' = "RUNNING"
      \/ i = 4 /\ state = "RUNNING" /\ state' = "SYSCALL"
      \/ i = 5 /\ state = "RUNNING" /\ state' = "SHELL"
      \/ i = 6 /\ state \in {"SYSCALL", "IDLE"} /\ state' = "IDLE"
      \/ i = 8 /\ state = "IDLE" /\ state' = "HALT"
      \/ i = 9 /\ state = "SHELL" /\ state' = "HALT"
      \/ i = 10 /\ state = "RUNNING" /\ state' = "HALT"
      \/ i = 11 /\ state \in {"SYSCALL", "IDLE"} /\ state' = "HALT"
  BY <1>4, Table
<1>6. ShellFlow'
  <2>1. /\ counts'[0] = counts[0]
        /\ counts'[1] = IF i = 1 THEN counts[1] + 1 ELSE counts[1]
        /\ counts'[2] = IF i = 2 THEN counts[2] + 1 ELSE counts[2]
        /\ counts'[5] = IF i = 5 THEN counts[5] + 1 ELSE counts[5]
        /\ counts'[9] = IF i = 9 THEN counts[9] + 1 ELSE counts[9]
    BY <1>2 DEF Woken
  <2>2. /\ counts[0] \in Nat
        /\ counts[1] \in Nat
        /\ counts[2] \in Nat
        /\ counts[5] \in Nat
        /\ counts[9] \in Nat
        /\ loads["SHELL"] \in Nat
    BY <1>1
  <2> QED BY <1>5, <2>1, <2>2 DEF FlowConserved, ShellFlow, Here
<1>7. RunningFlow'
  <2>1. /\ counts'[3] = IF i = 3 THEN counts[3] + 1 ELSE counts[3]
        /\ counts'[4] = IF i = 4 THEN counts[4] + 1 ELSE counts[4]
        /\ counts'[5] = IF i = 5 THEN counts[5] + 1 ELSE counts[5]
        /\ counts'[10] = IF i = 10 THEN counts[10] + 1 ELSE counts[10]
    BY <1>2 DEF Woken
  <2>2. /\ counts[3] \in Nat
        /\ counts[4] \in Nat
        /\ counts[5] \in Nat
        /\ counts[10] \in Nat
        /\ loads["BOOT"] \in Nat
        /\ loads["IDLE"] \in Nat
        /\ loads["SHELL"] \in Nat
        /\ loads["RUNNING"] \in Nat
        /\ loads["SYSCALL"] \in Nat
        /\ loads["HALT"] \in Nat
    BY <1>1
  <2> QED BY <1>5, <2>1, <2>2 DEF FlowConserved, RunningFlow, Here, Loaded
<1>8. SyscallFlow'
  <2>1. /\ counts'[1] = IF i = 1 THEN counts[1] + 1 ELSE counts[1]
        /\ counts'[2] = IF i = 2 THEN counts[2] + 1 ELSE counts[2]
        /\ counts'[3] = IF i = 3 THEN counts[3] + 1 ELSE counts[3]
        /\ counts'[4] = IF i = 4 THEN counts[4] + 1 ELSE counts[4]
        /\ counts'[6] = IF i = 6 THEN counts[6] + 1 ELSE counts[6]
        /\ counts'[7] = IF state = "IDLE" /\ i # 8 THEN counts[7] + 1 ELSE counts[7]
        /\ counts'[11] = IF i = 11 THEN counts[11] + 1 ELSE counts[11]
    BY <1>2 DEF Woken
  <2>2. /\ counts[1] \in Nat
        /\ counts[2] \in Nat
        /\ counts[3] \in Nat
        /\ counts[4] \in Nat
        /\ counts[6] \in Nat
        /\ counts[7] \in Nat
        /\ counts[11] \in Nat
        /\ loads["SYSCALL"] \in Nat
    BY <1>1
  <2> QED BY <1>5, <2>1, <2>2 DEF FlowConserved, SyscallFlow, Here
<1>9. IdleFlow'
  <2>1. /\ counts'[6] = IF i = 6 THEN counts[6] + 1 ELSE counts[6]
        /\ counts'[7] = IF state = "IDLE" /\ i # 8 THEN counts[7] + 1 ELSE counts[7]
        /\ counts'[8] = IF i = 8 THEN counts[8] + 1 ELSE counts[8]
    BY <1>2 DEF Woken
  <2>2. /\ counts[6] \in Nat
        /\ counts[7] \in Nat
        /\ counts[8] \in Nat
        /\ loads["IDLE"] \in Nat
    BY <1>1
  <2> QED BY <1>5, <2>1, <2>2 DEF FlowConserved, IdleFlow, Here
<1>10. HaltFlow'
  <2>1. /\ counts'[8] = IF i = 8 THEN counts[8] + 1 ELSE counts[8]
        /\ counts'[9] = IF i = 9 THEN counts[9] + 1 ELSE counts[9]
        /\ counts'[10] = IF i = 10 THEN counts[10] + 1 ELSE counts[10]
        /\ counts'[11] = IF i = 11 THEN counts[11] + 1 ELSE counts[11]
    BY <1>2 DEF Woken
  <2>2. /\ counts[8] \in Nat
        /\ counts[9] \in Nat
        /\ counts[10] \in Nat
        /\ counts[11] \in Nat
        /\ loads["HALT"] \in Nat
    BY <1>1
  <2>3. Here("HALT") = 0 /\ Here("HALT")' = IF i \in {8, 9, 10, 11} THEN 1 ELSE 0
    BY <1>5 DEF Here
  <2> QED BY <1>5, <2>1, <2>2, <2>3 DEF FlowConserved, HaltFlow
<1>11. counts'[0] = 1
  BY <1>2 DEF FlowConserved
<1> QED BY <1>6, <1>7, <1>8, <1>9, <1>10, <1>11 DEF FlowConserved

\* The steps that stay in their state.
Quiet == \/ StayHalted \/ StayIdle \/ OutOfBudget \/ PcBreak
         \/ \E cells \in SUBSET Cells : Plain(cells)
         \/ HostStep \/ EndCall \/ BpAdd \/ BpClear \/ ConsoleEvent

\* A quiet step touches neither the control state nor the latch.
LEMMA QuietFrame == Quiet => UNCHANGED <<control, pending, loads>>
<1>1. StayHalted \/ StayIdle \/ OutOfBudget => UNCHANGED <<control, pending, loads>>
  BY DEF StayHalted, StayIdle, OutOfBudget, cpu, host
<1>2. PcBreak => UNCHANGED <<control, pending, loads>>
  BY DEF PcBreak, cpu, host
<1>3. ASSUME NEW cells \in SUBSET Cells, Plain(cells) PROVE UNCHANGED <<control, pending, loads>>
  BY <1>3 DEF Plain, Step, host
<1>4. HostStep \/ EndCall => UNCHANGED <<control, pending, loads>>
  BY DEF HostStep, StepCall, EndCall, cpu, host
<1>5. BpAdd \/ BpClear => UNCHANGED <<control, pending, loads>>
  BY DEF BpAdd, BpClear, cpu
<1>6. ConsoleEvent => UNCHANGED <<control, pending, loads>>
  BY DEF ConsoleEvent, Type, CloseInput, cpu
<1> QED BY <1>1, <1>2, <1>3, <1>4, <1>5, <1>6 DEF Quiet

\* The steps that make a transition, and the row each takes.
Moves == \/ Dispatch
         \/ \E cells \in SUBSET Cells : Out(cells) \/ Hlt(cells) \/ Fault(cells)

\* Every step is quiet, a transition, a reset or a load.
LEMMA NextCases == Next => Quiet \/ Moves \/ Reset \/ LoadCom
BY DEF Next, Iterate, Instruction, HostPokes, Quiet, Moves

\* The row back to the caller (k_after_dispatch) is legal and ends in an
\* executing state.
LEMMA BackRow ==
  ASSUME ControlType, Dispatching
  PROVE  /\ BackToCaller \in {2, 3} /\ Legal(BackToCaller)
         /\ Row(BackToCaller).to \in Exec
         /\ Row(3).to \in Exec /\ Legal(3) /\ Legal(6)
BY Table DEF ControlType, Dispatching, BackToCaller, Legal, Woken, Exec

\* What a transition of each handler does to the state, the latch and the reason.
LEMMA DispatchMoves ==
  ASSUME ControlType, Dispatch
  PROVE  /\ \E i \in (1..11) \ {7} : Transit(i) /\ Legal(i)
         /\ UNCHANGED loads
         /\ \/ state' = "IDLE" /\ pending \in {"CONIN", "READLINE"} /\ UNCHANGED <<pending, reason>>
            \/ state' = "HALT" /\ pending' = NoCall /\ reason' = "EOF"
            \/ state' \in Exec /\ pending' = NoCall /\ reason' \in {reason, "NONE"}
<1>1. CASE DispatchWait
  <2>1. Transit(6) /\ Dispatching /\ MustWait /\ UNCHANGED <<reason, pending, loads>>
    BY <1>1 DEF DispatchWait, cpu, host
  <2> QED BY <2>1, BackRow, Table DEF Transit, MustWait
<1>2. CASE DispatchEof
  <2>1. /\ Dispatching /\ pending' = NoCall /\ reason' = "EOF" /\ UNCHANGED loads
        /\ \/ state = "IDLE" /\ Transit(8)
           \/ state # "IDLE" /\ Transit(11)
    BY <1>2 DEF DispatchEof, host
  <2> QED BY <2>1, Table DEF Transit, Dispatching, Legal, Woken
<1>3. CASE DispatchInput \/ DispatchOther \/ DispatchVsync
  <2>1. Dispatching /\ Transit(BackToCaller) /\ pending' = NoCall /\ UNCHANGED <<reason, loads>>
    BY <1>3 DEF DispatchInput, DispatchOther, DispatchVsync, host
  <2> QED BY <2>1, BackRow DEF Transit
<1>4. CASE DispatchRun
  <2>1. Dispatching /\ Transit(3) /\ pending' = NoCall /\ reason' = "NONE" /\ UNCHANGED loads
    BY <1>4 DEF DispatchRun, host
  <2> QED BY <2>1, BackRow DEF Transit
<1> QED BY <1>1, <1>2, <1>3, <1>4 DEF Dispatch

\* The same for an instruction that leaves its state: OUT 01, HLT, a fault.
LEMMA InstructionMoves ==
  ASSUME ControlType, CallLatched, NEW cells \in SUBSET Cells,
         Out(cells) \/ Hlt(cells) \/ Fault(cells)
  PROVE  /\ \E i \in (1..11) \ {7} : Transit(i) /\ Legal(i)
         /\ UNCHANGED loads
         /\ \/ state' = "SYSCALL" /\ pending' \in Calls /\ UNCHANGED reason
            \/ state' = "HALT" /\ pending' = NoCall /\ reason' # "NONE"
            \/ state' \in Exec /\ pending' = NoCall /\ UNCHANGED reason
<1>1. CASE Out(cells)
  <2>1. /\ state \in Exec /\ pending' \in Calls /\ UNCHANGED <<reason, loads>>
        /\ \/ state = "SHELL" /\ Transit(1)
           \/ state # "SHELL" /\ Transit(4)
    BY <1>1 DEF Out, Step, Executing, host
  <2> QED BY <2>1, Table DEF Transit, Legal, Woken, Exec
<1>2. CASE Hlt(cells)
  <2>1. state \in Exec /\ pending = NoCall /\ UNCHANGED loads
    BY <1>2 DEF Hlt, Step, Executing, host, CallLatched, Exec
  <2>2. \/ /\ state = "SHELL" /\ Transit(9) /\ reason' = "COMMAND" /\ UNCHANGED pending
        \/ /\ state # "SHELL" /\ Transit(5) /\ pending' = NoCall /\ UNCHANGED reason
    BY <1>2 DEF Hlt, EnterShell
  <2> QED BY <2>1, <2>2, Table DEF Transit, Legal, Woken, Exec
<1>3. CASE Fault(cells)
  <2>1. /\ state \in Exec /\ pending' = NoCall /\ reason' # "NONE" /\ UNCHANGED loads
        /\ \/ state = "SHELL" /\ Transit(9)
           \/ state # "SHELL" /\ Transit(10)
    BY <1>3 DEF Fault, Step, Executing, host
  <2> QED BY <2>1, Table DEF Transit, Legal, Woken, Exec
<1> QED BY <1>1, <1>2, <1>3

\* A load from the host (kernel_load_com) moves the machine without a row;
\* counting it in `loads` keeps the balance.
LEMMA LoadFlow ==
  ASSUME ControlType, RecordType, FlowConserved, LoadCom
  PROVE  FlowConserved'
<1>1. /\ \A r \in 0..11 : counts[r] \in Nat
      /\ loads["BOOT"] \in Nat /\ loads["IDLE"] \in Nat /\ loads["SHELL"] \in Nat
      /\ loads["RUNNING"] \in Nat /\ loads["SYSCALL"] \in Nat /\ loads["HALT"] \in Nat
  BY DEF ControlType, RecordType, States
<1>2. state' = "RUNNING" /\ UNCHANGED counts
  BY DEF LoadCom, ForceRunning
<1>3. \A s \in States : loads'[s] = IF s = state THEN loads[s] + 1 ELSE loads[s]
  BY DEF LoadCom, RecordType
<1>4. /\ loads'["BOOT"] = loads["BOOT"]
      /\ loads'["IDLE"] = IF state = "IDLE" THEN loads["IDLE"] + 1 ELSE loads["IDLE"]
      /\ loads'["SHELL"] = IF state = "SHELL" THEN loads["SHELL"] + 1 ELSE loads["SHELL"]
      /\ loads'["RUNNING"] = IF state = "RUNNING" THEN loads["RUNNING"] + 1 ELSE loads["RUNNING"]
      /\ loads'["SYSCALL"] = IF state = "SYSCALL" THEN loads["SYSCALL"] + 1 ELSE loads["SYSCALL"]
      /\ loads'["HALT"] = IF state = "HALT" THEN loads["HALT"] + 1 ELSE loads["HALT"]
  BY <1>3 DEF ControlType, States
<1>5. state \in {"IDLE", "SHELL", "RUNNING", "SYSCALL", "HALT"}
  BY DEF ControlType, States
<1> QED BY <1>1, <1>2, <1>4, <1>5 DEF FlowConserved, ShellFlow, RunningFlow, SyscallFlow, IdleFlow, HaltFlow, Here, Loaded

\* Every step keeps the balance, the latch and the halt reason.
LEMMA ControlSafe ==
  ASSUME TypeOK, FlowConserved, CallLatched, HaltReasoned, Next
  PROVE  FlowConserved' /\ CallLatched' /\ HaltReasoned'
<1>0. ControlType /\ RecordType
  BY DEF TypeOK
<1>1. CASE Quiet
  <2>1. UNCHANGED <<state, counts, loads, pending, reason>>
    BY <1>1, QuietFrame DEF control
  <2>2. FlowConserved'
    BY <2>1 DEF FlowConserved, ShellFlow, RunningFlow, SyscallFlow, IdleFlow, HaltFlow, Here, Loaded
  <2> QED BY <2>1, <2>2 DEF CallLatched, HaltReasoned
<1>2. CASE Moves
  <2>1. CASE Dispatch
    <3>1. FlowConserved'
      BY <1>0, <2>1, DispatchMoves, FlowTransit
    <3>2. state \in {"SYSCALL", "IDLE"}
      BY <2>1 DEF Dispatch, DispatchWait, DispatchEof, DispatchInput, DispatchOther, DispatchRun,
                  DispatchVsync, Dispatching
    <3>3. pending # NoCall /\ reason = "NONE"
      BY <3>2 DEF CallLatched, HaltReasoned
    <3>4. CallLatched'
      BY <1>0, <2>1, <3>3, DispatchMoves DEF CallLatched, Exec
    <3>5. HaltReasoned'
      BY <1>0, <2>1, <3>3, DispatchMoves DEF HaltReasoned, Exec
    <3> QED BY <3>1, <3>4, <3>5
  <2>2. ASSUME NEW cells \in SUBSET Cells, Out(cells) \/ Hlt(cells) \/ Fault(cells)
        PROVE  FlowConserved' /\ CallLatched' /\ HaltReasoned'
    <3>1. FlowConserved'
      BY <1>0, <2>2, InstructionMoves, FlowTransit
    <3>2. state \in Exec
      BY <2>2 DEF Out, Hlt, Fault, Step, Executing
    <3> QED BY <1>0, <2>2, <3>1, <3>2, InstructionMoves
            DEF CallLatched, HaltReasoned, Exec, Calls, NoCall
  <2> QED BY <1>2, <2>1, <2>2 DEF Moves
<1>3. CASE Reset
  <2>1. /\ state' = "SHELL" /\ pending' = NoCall /\ reason' = "NONE"
        /\ counts' = BootCounts /\ loads' = NoLoads
    BY <1>3 DEF Reset, EnterShell
  <2>2. FlowConserved'
    BY <2>1 DEF FlowConserved, ShellFlow, RunningFlow, SyscallFlow, IdleFlow, HaltFlow, Here, Loaded, BootCounts, NoLoads, States
  <2> QED BY <2>1, <2>2 DEF CallLatched, HaltReasoned
<1>4. CASE LoadCom
  <2>1. state' = "RUNNING" /\ pending' = NoCall /\ reason' = "NONE"
    BY <1>4 DEF LoadCom, ForceRunning, EnterShell
  <2>2. FlowConserved'
    BY <1>0, <1>4, LoadFlow
  <2> QED BY <2>1, <2>2 DEF CallLatched, HaltReasoned
<1> QED BY <1>1, <1>2, <1>3, <1>4, NextCases

---------------------------------------------------------------------------
(* The snapshot interval.                                                  *)

\* After k_maybe_snapshot the newest snapshot is less than the interval old.
LEMMA SnapTaken ==
  ASSUME steps \in Nat, lastSnap \in Nat, SnapshotBound, TakeSnap
  PROVE  /\ SnapInterval # 0 => lastSnap' <= steps /\ steps - lastSnap' < SnapInterval
         /\ lastSnap' \in Nat
<1>1. SnapInterval \in Nat
  BY ConstantsAssumption DEF ConstantsAssumption
<1> QED BY <1>1 DEF SnapshotBound, TakeSnap, SnapDue

\* No step lets the newest snapshot grow older than the interval: an
\* instruction comes right after k_maybe_snapshot.
LEMMA SnapshotSafe ==
  ASSUME TypeOK, SnapshotBound, Next
  PROVE  SnapshotBound'
<1>0. steps \in Nat /\ lastSnap \in Nat /\ SnapInterval \in Nat
  BY ConstantsAssumption DEF TypeOK, CallType, RecordType, ConstantsAssumption
<1>1. CASE StayHalted \/ StayIdle \/ OutOfBudget \/ Dispatch
  <2>1. UNCHANGED <<steps, lastSnap>>
    BY <1>1 DEF StayHalted, StayIdle, OutOfBudget, Dispatch, DispatchWait, DispatchEof,
                DispatchInput, DispatchOther, DispatchRun, DispatchVsync
  <2> QED BY <2>1 DEF SnapshotBound
<1>2. CASE PcBreak \/ EndCall
  <2>1. TakeSnap /\ UNCHANGED steps
    BY <1>2 DEF PcBreak, EndCall
  <2> QED BY <1>0, <2>1, SnapTaken DEF SnapshotBound
<1>3. CASE Instruction
  <2>1. TakeSnap /\ steps' = steps + 1
    BY <1>3 DEF Instruction, Plain, Out, Hlt, Fault, Step
  <2> QED BY <1>0, <2>1, SnapTaken DEF SnapshotBound
<1>4. CASE HostStep \/ LoadCom \/ BpAdd \/ BpClear \/ ConsoleEvent
  <2>1. UNCHANGED <<steps, lastSnap>>
    BY <1>4 DEF HostStep, StepCall, LoadCom, BpAdd, BpClear, ConsoleEvent, Type, CloseInput
  <2> QED BY <2>1 DEF SnapshotBound
<1>5. CASE Reset
  BY <1>0, <1>5 DEF Reset, SnapshotBound
<1> QED BY <1>1, <1>2, <1>3, <1>4, <1>5 DEF Next, Iterate, HostPokes

---------------------------------------------------------------------------
(* How a kernel_step call ends.                                            *)

\* An iteration leaves in one of these ways, and the state it leaves in fits.
Fits(why) ==
  /\ why = "HALT" <=> state' = "HALT"
  /\ why = "WAIT_INPUT" => state' = "IDLE"
  /\ why = "BUDGET" => left' = 0 /\ state' \in Exec
  /\ why = "VSYNC" => state' \in Exec

\* Leaving the loop with a reason that fits the state reports it truly.
LEMMA LeaveTells ==
  ASSUME WatchType, BreakpointReported, phase = "LOOP",
         NEW why \in Stops, NEW hit \in 0..MaxBps, Leave(why, hit), Fits(why),
         why = "BREAKPOINT" => hit # NoHit
  PROVE  StopTruthful' /\ BreakpointReported'
<1>1. bpHit = NoHit
  BY DEF BreakpointReported
<1>2. /\ bpHit' = hit /\ phase' = "DONE"
      /\ stop' = IF hit = NoHit \/ why = "HALT" THEN why ELSE "BREAKPOINT"
  BY <1>1 DEF Leave, Over
<1>3. StopTruthful'
  BY <1>2 DEF StopTruthful, Fits
<1>4. BreakpointReported'
  BY <1>2 DEF BreakpointReported
<1> QED BY <1>3, <1>4

\* Going round again, or leaving at a breakpoint, reports truly.
LEMMA ContinueTells ==
  ASSUME WatchType, BreakpointReported, phase = "LOOP",
         NEW hit \in 0..MaxBps, Continue(hit), state' # "HALT"
  PROVE  StopTruthful' /\ BreakpointReported'
<1>1. bpHit = NoHit
  BY DEF BreakpointReported
<1>2. /\ bpHit' = hit
      /\ hit = NoHit => phase' = "LOOP"
      /\ hit # NoHit => phase' = "DONE" /\ stop' = "BREAKPOINT"
  BY <1>1 DEF Continue, Over
<1>3. StopTruthful'
  BY <1>2 DEF StopTruthful
<1>4. BreakpointReported'
  BY <1>2 DEF BreakpointReported
<1> QED BY <1>3, <1>4

\* Every iteration of kernel_step reports truly if it leaves.
LEMMA IterateTells ==
  ASSUME TypeOK, StopTruthful, BreakpointReported, Iterate
  PROVE  StopTruthful' /\ BreakpointReported'
<1> USE DEF TypeOK
<1>0. NoHit \in 0..MaxBps
  BY ConstantsAssumption DEF ConstantsAssumption
<1>1. CASE StayHalted
  BY <1>0, <1>1, LeaveTells DEF StayHalted, Fits, Stops, control
<1>2. CASE StayIdle
  BY <1>0, <1>2, LeaveTells DEF StayIdle, Fits, Stops, control
<1>3. CASE OutOfBudget
  BY <1>0, <1>3, LeaveTells DEF OutOfBudget, Executing, Fits, Stops, Exec, control
<1>4. CASE PcBreak
  <2>1. First(PcHits) \in 0..MaxBps /\ First(PcHits) # NoHit
    BY <1>4, MatchingSlots, FirstSlot DEF PcBreak
  <2> QED BY <1>4, <2>1, LeaveTells DEF PcBreak, Executing, Fits, Stops, Exec, control
<1>5. CASE DispatchWait
  <2>1. phase = "LOOP" /\ Transit(6) /\ Leave("WAIT_INPUT", CallHits(6, age))
    BY <1>5 DEF DispatchWait, Dispatching
  <2>2. state' = "IDLE"
    BY <2>1, Table DEF Transit
  <2> QED BY <2>1, <2>2, CallHitsSlot, LeaveTells DEF Fits, Stops
<1>6. CASE DispatchEof
  <2>1. PICK row \in {8, 11} : /\ phase = "LOOP" /\ Transit(row)
                               /\ Leave("HALT", Over(StateHit(row), CallHit))
    BY <1>6 DEF DispatchEof, Dispatching
  <2>2. state' = "HALT"
    BY <2>1, Table DEF Transit
  <2>3. Over(StateHit(row), CallHit) \in 0..MaxBps
    BY StateHitSlot, CallHitsSlot, OverSlot
  <2> QED BY <2>1, <2>2, <2>3, LeaveTells DEF Fits, Stops
<1>7. CASE DispatchVsync
  <2>1. /\ phase = "LOOP" /\ Dispatching
        /\ Transit(BackToCaller) /\ Leave("VSYNC", CallHits(BackToCaller, age))
    BY <1>7 DEF DispatchVsync, Dispatching
  <2>2. state' \in Exec
    BY <2>1, BackRow DEF Transit
  <2> QED BY <2>1, <2>2, CallHitsSlot, LeaveTells DEF Fits, Stops, Exec
<1>8. CASE DispatchInput \/ DispatchOther \/ DispatchRun
  <2>1. PICK row \in {BackToCaller, 3}, ages \in {age, age'} :
          phase = "LOOP" /\ Dispatching /\ Transit(row) /\ Continue(CallHits(row, ages))
    BY <1>8 DEF DispatchInput, DispatchOther, DispatchRun, Dispatching
  <2>2. state' \in Exec
    BY <2>1, BackRow DEF Transit
  <2> QED BY <2>1, <2>2, CallHitsSlot, ContinueTells DEF Exec
<1>9. ASSUME NEW cells \in SUBSET Cells,
             Plain(cells) \/ Out(cells) \/ Hlt(cells) \/ Fault(cells)
      PROVE  StopTruthful' /\ BreakpointReported'
  <2>1. phase = "LOOP" /\ state \in Exec /\ Step(cells) /\ StepReport
    BY <1>9 DEF Plain, Out, Hlt, Fault, Step, Executing
  <2>2. Access \in 0..MaxBps
    BY <2>1, StepType
  <2>3. \A i \in {1, 4, 5, 9, 10} : Over(Access, StateHit(i)) \in 0..MaxBps
    BY <2>2, StateHitSlot, OverSlot
  <2>4. CASE Plain(cells)
    BY <2>1, <2>2, <2>4, ContinueTells DEF Plain, control, Exec
  <2>5. CASE Out(cells)
    <3>1. PICK i \in {1, 4} : Transit(i) /\ Continue(Over(Access, StateHit(i)))
      BY <2>5 DEF Out
    <3>2. state' # "HALT"
      BY <3>1, Table DEF Transit
    <3> QED BY <2>1, <2>3, <3>1, <3>2, ContinueTells
  <2>6. CASE Hlt(cells) /\ state = "SHELL"
    <3>1. Transit(9) /\ Leave("HALT", Over(Access, StateHit(9)))
      BY <2>6 DEF Hlt
    <3>2. state' = "HALT"
      BY <3>1, Table DEF Transit
    <3> QED BY <2>1, <2>3, <3>1, <3>2, LeaveTells DEF Fits, Stops
  <2>7. CASE Hlt(cells) /\ state # "SHELL"
    <3>1. Transit(5) /\ Continue(Over(Access, StateHit(5)))
      BY <2>7 DEF Hlt
    <3>2. state' # "HALT"
      BY <3>1, Table DEF Transit
    <3> QED BY <2>1, <2>3, <3>1, <3>2, ContinueTells
  <2>8. CASE Fault(cells)
    <3>1. PICK i \in {9, 10} : Transit(i) /\ Leave("HALT", Over(Access, StateHit(i)))
      BY <2>8 DEF Fault
    <3>2. state' = "HALT"
      BY <3>1, Table DEF Transit
    <3> QED BY <2>1, <2>3, <3>1, <3>2, LeaveTells DEF Fits, Stops
  <2> QED BY <1>9, <2>4, <2>5, <2>6, <2>7, <2>8
<1> QED BY <1>1, <1>2, <1>3, <1>4, <1>5, <1>6, <1>7, <1>8, <1>9
        DEF Iterate, Dispatch, Instruction

\* Every step keeps what kernel_step returns and what bp_hit shows true.
LEMMA OutcomeSafe ==
  ASSUME TypeOK, StopTruthful, BreakpointReported, Next
  PROVE  StopTruthful' /\ BreakpointReported'
<1>1. CASE Iterate
  BY <1>1, IterateTells
<1>2. CASE HostStep
  BY <1>2 DEF HostStep, StepCall, StopTruthful, BreakpointReported
<1>3. CASE EndCall
  BY <1>3 DEF EndCall, StopTruthful, BreakpointReported
<1>4. CASE HostPokes
  <2>1. /\ phase = "HOST" /\ phase' = "HOST"
        /\ bpHit' = NoHit \/ UNCHANGED <<bpHit, lastStop>>
    BY <1>4 DEF HostPokes, Reset, LoadCom, BpAdd, BpClear, HostOp, call
  <2> QED BY <2>1 DEF StopTruthful, BreakpointReported
<1>5. CASE ConsoleEvent
  <2>1. UNCHANGED <<phase, stop, state, left, bpHit, lastStop>>
    BY <1>5 DEF ConsoleEvent, Type, CloseInput, control, call
  <2> QED BY <2>1 DEF StopTruthful, BreakpointReported
<1> QED BY <1>1, <1>2, <1>3, <1>4, <1>5 DEF Next

---------------------------------------------------------------------------
(* The metadata block.                                                     *)

\* Whatever changes what the metadata block shows is followed by
\* kernel_write_meta before the host looks.
LEMMA MetaSafe ==
  ASSUME TypeOK, MetaFresh, Next
  PROVE  MetaFresh'
<1>1. CASE Iterate
  <2>1. phase' # "HOST"
    BY <1>1 DEF Iterate, StayHalted, StayIdle, OutOfBudget, PcBreak, Dispatch, DispatchWait,
       DispatchEof, DispatchInput, DispatchOther, DispatchRun, DispatchVsync, Instruction, Plain,
       Out, Hlt, Fault, Leave, Continue
  <2> QED BY <2>1 DEF MetaFresh
<1>2. CASE HostStep
  BY <1>2 DEF HostStep, StepCall, MetaFresh
<1>3. CASE EndCall
  BY <1>3 DEF EndCall, MetaFresh, control
<1>4. CASE Reset
  BY <1>4 DEF Reset, MetaFresh, BootMeta
<1>5. CASE LoadCom
  BY <1>5 DEF LoadCom, ForceRunning, MetaFresh
<1>6. CASE BpAdd \/ BpClear \/ ConsoleEvent
  <2>1. UNCHANGED <<phase, meta, state, steps, reason, lastStop>>
    BY <1>6 DEF BpAdd, BpClear, ConsoleEvent, Type, CloseInput, control, call
  <2> QED BY <2>1 DEF MetaFresh
<1> QED BY <1>1, <1>2, <1>3, <1>4, <1>5, <1>6 DEF Next, HostPokes

---------------------------------------------------------------------------
(* The theorems.                                                           *)

\* The boot state satisfies the inductive invariant ...
LEMMA InitIInv == Init => IInv
<1> SUFFICES ASSUME Init PROVE IInv
  OBVIOUS
<1>1. FlowConserved
  BY DEF Init, FlowConserved, ShellFlow, RunningFlow, SyscallFlow, IdleFlow, HaltFlow, Here,
         Loaded, BootCounts, NoLoads, States
<1>2. CallLatched /\ HaltReasoned /\ SnapshotBound /\ StopTruthful
  BY ConstantsAssumption
  DEF Init, CallLatched, HaltReasoned, SnapshotBound, StopTruthful, ConstantsAssumption
<1>3. BreakpointReported /\ MetaFresh
  BY DEF Init, BreakpointReported, MetaFresh, BootMeta
<1> QED BY InitType, <1>1, <1>2, <1>3 DEF IInv

\* ... and every step keeps it.
LEMMA StepIInv == IInv /\ [Next]_vars => IInv'
<1> SUFFICES ASSUME IInv, [Next]_vars PROVE IInv'
  OBVIOUS
<1>1. CASE Next
  <2>1. TypeOK'
    BY <1>1, IterateType, HostType DEF IInv, Next
  <2> QED BY <1>1, <2>1, ControlSafe, SnapshotSafe, OutcomeSafe, MetaSafe DEF IInv
<1>2. CASE UNCHANGED vars
  <2>1. TypeOK'
    BY <1>2, StutterType DEF IInv
  <2>2. UNCHANGED <<state, reason, counts, loads, pending, steps, lastSnap, phase, stop, left,
                    bpHit, lastStop, meta>>
    BY <1>2 DEF vars, control, cpu, call, host
  <2>3. FlowConserved' /\ CallLatched' /\ HaltReasoned'
    BY <2>2 DEF IInv, FlowConserved, ShellFlow, RunningFlow, SyscallFlow, IdleFlow, HaltFlow,
                Here, Loaded, CallLatched, HaltReasoned
  <2>4. SnapshotBound' /\ StopTruthful' /\ BreakpointReported' /\ MetaFresh'
    BY <2>2 DEF IInv, SnapshotBound, StopTruthful, BreakpointReported, MetaFresh
  <2> QED BY <2>1, <2>3, <2>4 DEF IInv
<1> QED BY <1>1, <1>2

\* The inductive invariant of the finite state control.
THEOREM Invariance == Spec => []IInv
BY InitIInv, StepIInv, PTL DEF Spec

\* transition_counts balances in every state of the machine, however calls,
\* breakpoints, loads and resets interleave (k_transit, kernel_load_com).
THEOREM TransitionsBalance == Spec => []FlowConserved
<1>1. IInv => FlowConserved
  BY DEF IInv
<1> QED BY <1>1, Invariance, PTL

\* A BIOS call is latched exactly in SYSCALL and IDLE (io_out_pending).
THEOREM CallsAreLatched == Spec => []CallLatched
<1>1. IInv => CallLatched
  BY DEF IInv
<1> QED BY <1>1, Invariance, PTL

\* A halt reason is on record exactly in HALT (halt_reason).
THEOREM HaltsHaveReasons == Spec => []HaltReasoned
<1>1. IInv => HaltReasoned
  BY DEF IInv
<1> QED BY <1>1, Invariance, PTL

\* No snapshot is ever more than the interval behind (k_maybe_snapshot).
THEOREM SnapshotsBoundReplay == Spec => []SnapshotBound
<1>1. IInv => SnapshotBound
  BY DEF IInv
<1> QED BY <1>1, Invariance, PTL

\* What kernel_step returns agrees with the state it leaves and the budget it used.
THEOREM CallsTellTheTruth == Spec => []StopTruthful
<1>1. IInv => StopTruthful
  BY DEF IInv
<1> QED BY <1>1, Invariance, PTL

\* bp_hit names a breakpoint when a call stopped at one, or halted on the way, and never otherwise.
THEOREM BreakpointsAreReported == Spec => []BreakpointReported
<1>1. IInv => BreakpointReported
  BY DEF IInv
<1> QED BY <1>1, Invariance, PTL

\* Between calls the metadata block shows the machine as it is (kernel_write_meta).
THEOREM MetaIsFresh == Spec => []MetaFresh
<1>1. IInv => MetaFresh
  BY DEF IInv
<1> QED BY <1>1, Invariance, PTL
=============================================================================
