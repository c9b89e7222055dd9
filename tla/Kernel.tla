------------------------------- MODULE Kernel -------------------------------
(***************************************************************************)
(* The finite state control of TuringOS: src/kernel/kernel.c, with the     *)
(* console half of src/bios/bios.c it dispatches to.                       *)
(*                                                                         *)
(* kernel_step is a loop.  One call of it is StepCall, then one action per *)
(* iteration, then EndCall; nothing the host does falls inside a call,     *)
(* except that a byte may arrive on the console.  What the 8080 computes   *)
(* is left open: an instruction is only "plain", an OUT 01 that latches a  *)
(* BIOS call, a HLT or a fault, and it leaves the PC anywhere in PCs.      *)
(*                                                                         *)
(* Abstracted: registers, cycles, tape contents, the trace, the display,   *)
(* the frame counter, the key mask, and backspace and the 128-byte limit   *)
(* in READLINE.  READ and WRITE watchpoints differ only in the age array   *)
(* they look at and are one kind, ACCESS.  A never-initialised kernel_t    *)
(* (state BOOT inside kernel_step) is not modelled: kernel_init leaves     *)
(* BOOT before it returns.                                                 *)
(***************************************************************************)
EXTENDS Integers, Sequences, FiniteSets

CONSTANTS
  Bytes,          \* console bytes
  NL,             \* the byte that ends a line
  PCs,            \* addresses the PC can hold
  Entry,          \* TOS_TPA_BASE, where the shell and every program start
  Cells,          \* the tape cells watchpoints can watch
  MaxBps,         \* KERNEL_BP_MAX
  BpChoices,      \* breakpoints the host may add: [kind, on]
  SnapInterval,   \* cfg.snap_interval, 0 = never
  Budgets,        \* values of max_steps the host uses
  MaxSteps,       \* bound: the host asks for no more instructions than this
  MaxHostOps,     \* bound: host operations other than kernel_step
  LoadsMidLine    \* may the host load a program while a READLINE is parked?

NoHit == 0

States == {"BOOT", "IDLE", "SHELL", "RUNNING", "SYSCALL", "HALT"}
Exec == {"SHELL", "RUNNING"}

\* BIOS calls, by what they do to the control: DISK stands for READ and WRITE
\* (sector DMA through mem_read/mem_write), OTHER for every call that only
\* touches registers, the output ring, the name buffer or the filesystem.
Calls == {"CONIN", "READLINE", "VSYNC", "RUN", "DISK", "OTHER"}
NoCall == "none"

ASSUME ConstantsAssumption ==
  /\ NL \in Bytes
  /\ Entry \in PCs
  /\ MaxBps \in Nat
  /\ SnapInterval \in Nat
  /\ Budgets \subseteq Nat
  /\ MaxSteps \in Nat
  /\ MaxHostOps \in Nat
  /\ LoadsMidLine \in BOOLEAN
  /\ BpChoices \subseteq
       [kind : {"PC", "ACCESS", "SYSCALL", "STATE"}, on : SUBSET (PCs \cup Cells \cup Calls \cup States)]

Reasons == {"NONE", "COMMAND", "EOF", "TAPE_FAULT", "BAD_TAPE"}
Stops == {"BUDGET", "HALT", "WAIT_INPUT", "VSYNC", "BREAKPOINT"}

\* The frozen transition table; its rows are numbered from 0.
k_table ==
  << [from |-> "BOOT",    to |-> "SHELL"],
     [from |-> "SHELL",   to |-> "SYSCALL"],
     [from |-> "SYSCALL", to |-> "SHELL"],
     [from |-> "SYSCALL", to |-> "RUNNING"],
     [from |-> "RUNNING", to |-> "SYSCALL"],
     [from |-> "RUNNING", to |-> "SHELL"],
     [from |-> "SYSCALL", to |-> "IDLE"],
     [from |-> "IDLE",    to |-> "SYSCALL"],
     [from |-> "IDLE",    to |-> "HALT"],
     [from |-> "SHELL",   to |-> "HALT"],
     [from |-> "RUNNING", to |-> "HALT"],
     [from |-> "SYSCALL", to |-> "HALT"] >>
Row(i) == k_table[i + 1]

VARIABLES
  \* kernel_t
  state, resume, reason, counts, steps, lastStop, lastSnap, bps, bpHit,
  \* the CPU: its PC and the latched OUT 01 (io_out_pending, io_out_value)
  pc, pending,
  \* the BIOS line discipline, and the bytes programs have been given so far
  line, reading, got,
  \* console input: bytes that have arrived and are unread, and end of input
  hal, eof,
  \* g_step_stamp, g_bp_reported_stamp, the age of each watched cell, and
  \* (history) the cells the last instruction touched
  stamp, reported, age, touched,
  \* the kernel_step call in progress: HOST = none, LOOP, DONE = leaving it
  phase, left, stop,
  \* the metadata block, and the step of the last hal_snapshot dump
  meta, dumped,
  \* bookkeeping: host operations so far, and (history) loads by origin state
  hostOps, loads

control == <<state, resume, reason, counts>>
cpu     == <<pc, pending>>
bios    == <<line, reading, got>>
console == <<hal, eof>>
watch   == <<stamp, reported, age, touched>>
call    == <<phase, left, stop>>
host    == <<hostOps, loads>>
vars == <<control, steps, lastStop, lastSnap, bps, bpHit, cpu, bios, console,
          watch, call, meta, dumped, host>>

---------------------------------------------------------------------------
(* Breakpoints.                                                            *)

BpSlots == 1..MaxBps
NoBp == [kind |-> "none", on |-> {}, fired |-> FALSE]

\* k_bp_find: the first slot of this kind whose range holds v.
Matching(kind, v) == {b \in BpSlots : bps[b].kind = kind /\ v \in bps[b].on}
First(S) == IF S = {} THEN NoHit ELSE CHOOSE b \in S : \A c \in S : b <= c

\* k_bp_access: the first watchpoint over a cell whose age is exactly `s`.
Watched(ages, s) ==
  First({b \in BpSlots : bps[b].kind = "ACCESS" /\ \E c \in Cells \cap bps[b].on : ages[c] = s})

\* k_bp_pc: `fired` (bit 1 of active) remembers the visit to the range.
PcInside(b) == bps[b].kind = "PC" /\ pc \in bps[b].on
PcHits == {b \in BpSlots : PcInside(b) /\ ~bps[b].fired}
PcVisitedLevel == bps                       \* mutated: level- instead of edge-triggered
PcVisited ==
  [b \in BpSlots |-> IF PcInside(b) THEN [bps[b] EXCEPT !.fired = TRUE]
                                   ELSE [bps[b] EXCEPT !.fired = FALSE]]

\* bp_hit keeps the last of the breakpoints that fired.
Over(newer, older) == IF newer = NoHit THEN older ELSE newer

---------------------------------------------------------------------------
(* Transitions.                                                            *)

\* A parked call that is dispatched again goes through row 7 first, unless it
\* halts the machine (row 8).
WokenUncounted(i) == FALSE                   \* mutated: row 7 forgotten
Woken(i) == state = "IDLE" /\ i # 8

\* k_transit: assign the state and count the row ...
Transit(i) ==
  /\ state' = Row(i).to
  /\ counts' = [r \in 0..11 |-> IF r = i \/ (r = 7 /\ Woken(i)) THEN counts[r] + 1 ELSE counts[r]]
\* ... and test a KBP_STATE breakpoint on each destination.
StateHit(i) ==
  Over(First(Matching("STATE", Row(i).to)),
       IF Woken(i) THEN First(Matching("STATE", "SYSCALL")) ELSE NoHit)

\* The end of an iteration of the loop: go round again, or leave with `why`,
\* a breakpoint taking precedence over every reason but a halt.
Continue(hit) ==
  /\ bpHit' = Over(hit, bpHit)
  /\ phase' = IF hit = NoHit THEN "LOOP" ELSE "DONE"
  /\ stop' = IF hit = NoHit THEN stop ELSE "BREAKPOINT"
LeaveHaltHidden(why, hit) ==                 \* mutated: a breakpoint hides a halt
  /\ bpHit' = Over(hit, bpHit)
  /\ phase' = "DONE"
  /\ stop' = IF hit = NoHit THEN why ELSE "BREAKPOINT"
Leave(why, hit) ==
  /\ bpHit' = Over(hit, bpHit)
  /\ phase' = "DONE"
  /\ stop' = IF hit = NoHit \/ why = "HALT" THEN why ELSE "BREAKPOINT"

\* k_maybe_snapshot; hal_snapshot sees it only at the end of the call.
SnapDue == SnapInterval # 0 /\ steps - lastSnap >= SnapInterval
TakeSnapAtExit == lastSnap' = IF phase = "DONE" /\ SnapDue THEN steps ELSE lastSnap  \* mutated
TakeSnap == lastSnap' = IF SnapDue THEN steps ELSE lastSnap

\* kernel_write_meta with the given stop reason on record.
Meta(st, n, rsn, last) ==
  [state |-> st, steps |-> n, stop |-> last,
   reason |-> IF last = "BREAKPOINT" /\ st # "HALT" THEN "BREAKPOINT" ELSE rsn]

---------------------------------------------------------------------------
(* kernel_init, and the calls the host makes.                              *)

NoLoads == [s \in States |-> 0]

NoBps == [b \in BpSlots |-> NoBp]
BootCounts == [i \in 0..11 |-> IF i = 0 THEN 1 ELSE 0]
BootMeta == Meta("SHELL", 0, "NONE", "BUDGET")

\* k_enter_shell_cpu: the CPU at the start of the program area, nothing latched.
EnterShellLatched == pc' = Entry /\ UNCHANGED pending        \* mutated: call left latched
EnterShell == pc' = Entry /\ pending' = NoCall

\* kernel_init: boot to the shell through row 0.
Init ==
  /\ state = "SHELL" /\ resume = "SHELL" /\ reason = "NONE" /\ counts = BootCounts
  /\ steps = 0 /\ lastStop = "BUDGET" /\ lastSnap = 0 /\ bps = NoBps /\ bpHit = NoHit
  /\ pc = Entry /\ pending = NoCall
  /\ line = <<>> /\ reading = FALSE /\ got = <<>>
  /\ hal = <<>> /\ eof = FALSE
  /\ stamp = 1 /\ reported = 0 /\ age = [c \in Cells |-> 0] /\ touched = {}
  /\ phase = "HOST" /\ left = 0 /\ stop = "BUDGET"
  /\ meta = BootMeta /\ dumped = 0
  /\ hostOps = 0 /\ loads = NoLoads

HostOp == phase = "HOST" /\ hostOps < MaxHostOps /\ hostOps' = hostOps + 1

\* kernel_reset: kernel_init over, with the configuration in force.  The console
\* queue and g_bp_reported_stamp are not its business.
Reset ==
  /\ HostOp
  /\ state' = "SHELL" /\ resume' = "SHELL" /\ reason' = "NONE" /\ counts' = BootCounts
  /\ steps' = 0 /\ lastStop' = "BUDGET" /\ lastSnap' = 0 /\ bps' = NoBps /\ bpHit' = NoHit
  /\ EnterShell
  /\ line' = <<>> /\ reading' = FALSE /\ got' = <<>>
  /\ stamp' = 1 /\ age' = [c \in Cells |-> 0] /\ touched' = {}
  /\ meta' = BootMeta /\ dumped' = 0
  /\ loads' = NoLoads
  /\ UNCHANGED <<console, reported, call>>

ForceRunningReason ==                        \* mutated: the halt reason survives
  /\ state' = "RUNNING" /\ resume' = "RUNNING" /\ UNCHANGED reason
ForceRunning == state' = "RUNNING" /\ resume' = "RUNNING" /\ reason' = "NONE"

\* kernel_load_com: forces RUNNING from any state, counting no transition and
\* leaving the BIOS as it was.
LoadCom ==
  /\ HostOp
  /\ LoadsMidLine \/ ~reading
  /\ ForceRunning
  /\ EnterShell
  /\ bpHit' = NoHit
  /\ meta' = Meta("RUNNING", steps, "NONE", lastStop)
  /\ loads' = [loads EXCEPT ![state] = @ + 1]
  /\ UNCHANGED <<counts, steps, lastStop, lastSnap, bps, bios, console, watch, call, dumped>>

\* kernel_bp_add into the lowest free slot; a full table refuses.
BpAdd ==
  /\ HostOp
  /\ \E choice \in BpChoices, b \in BpSlots :
       /\ b = First({f \in BpSlots : bps[f] = NoBp})
       /\ bps' = [bps EXCEPT ![b] = [kind |-> choice.kind, on |-> choice.on, fired |-> FALSE]]
  /\ UNCHANGED <<control, steps, lastStop, lastSnap, bpHit, cpu, bios, console, watch, call,
                 meta, dumped, loads>>

BpClear ==
  /\ HostOp
  /\ bps' = [b \in BpSlots |-> NoBp]
  /\ bpHit' = NoHit
  /\ UNCHANGED <<control, steps, lastStop, lastSnap, cpu, bios, console, watch, call,
                 meta, dumped, loads>>

\* A byte arrives: hal_con_push between calls, a keystroke or a pipe at any time.
Type(ch) ==
  /\ ~eof /\ hostOps < MaxHostOps /\ hostOps' = hostOps + 1
  /\ hal' = Append(hal, ch)
  /\ UNCHANGED <<control, steps, lastStop, lastSnap, bps, bpHit, cpu, bios, eof, watch, call,
                 meta, dumped, loads>>

\* The console reaches end of input (a script or a pipe ran out).
CloseInput ==
  /\ ~eof /\ hostOps < MaxHostOps /\ hostOps' = hostOps + 1
  /\ eof' = TRUE
  /\ UNCHANGED <<control, steps, lastStop, lastSnap, bps, bpHit, cpu, bios, hal, watch, call,
                 meta, dumped, loads>>

---------------------------------------------------------------------------
(* kernel_step.                                                            *)

\* Entry: stamp the accesses of this call, forget the last breakpoint.
StepCallKeepingHit(max) ==                   \* mutated: the last breakpoint is not forgotten
  /\ phase = "HOST"
  /\ phase' = "LOOP" /\ left' = IF steps + max > MaxSteps THEN MaxSteps - steps ELSE max
  /\ stop' = "BUDGET"
  /\ stamp' = steps + 1
  /\ UNCHANGED <<control, steps, lastStop, lastSnap, bps, bpHit, cpu, bios, console, reported,
                 age, touched, meta, dumped, host>>
StepCall(max) ==
  /\ phase = "HOST"
  /\ phase' = "LOOP" /\ left' = IF steps + max > MaxSteps THEN MaxSteps - steps ELSE max
  /\ stop' = "BUDGET" /\ bpHit' = NoHit
  /\ stamp' = steps + 1
  /\ UNCHANGED <<control, steps, lastStop, lastSnap, bps, cpu, bios, console, reported, age,
                 touched, meta, dumped, host>>

\* Exit: record the stop, rewrite the metadata, snapshot and dump when due.
EndCallMetaFirst ==                          \* mutated: metadata before last_stop
  /\ phase = "DONE"
  /\ phase' = "HOST" /\ lastStop' = stop
  /\ meta' = Meta(state, steps, reason, lastStop)
  /\ TakeSnap
  /\ dumped' = IF SnapDue THEN steps ELSE dumped
  /\ left' = 0
  /\ UNCHANGED <<control, steps, bps, bpHit, cpu, bios, console, watch, stop, host>>
EndCall ==
  /\ phase = "DONE"
  /\ phase' = "HOST" /\ lastStop' = stop
  /\ meta' = Meta(state, steps, reason, stop)
  /\ TakeSnap
  /\ dumped' = IF SnapDue THEN steps ELSE dumped
  /\ left' = 0
  /\ UNCHANGED <<control, steps, bps, bpHit, cpu, bios, console, watch, stop, host>>

StayHalted ==
  /\ phase = "LOOP" /\ state = "HALT"
  /\ Leave("HALT", NoHit)
  /\ UNCHANGED <<control, steps, lastStop, lastSnap, bps, cpu, bios, console, watch, left,
                 meta, dumped, host>>

InputReady == hal # <<>> \/ eof          \* hal_con_in_ready

StayIdleSpinning ==                          \* mutated: polls instead of returning
  /\ phase = "LOOP" /\ state = "IDLE" /\ ~InputReady
  /\ UNCHANGED vars
StayIdle ==
  /\ phase = "LOOP" /\ state = "IDLE" /\ ~InputReady
  /\ Leave("WAIT_INPUT", NoHit)
  /\ UNCHANGED <<control, steps, lastStop, lastSnap, bps, cpu, bios, console, watch, left,
                 meta, dumped, host>>

---------------------------------------------------------------------------
(* bios_dispatch and k_after_dispatch, from SYSCALL or from IDLE once input *)
(* is ready.                                                               *)

Dispatching == phase = "LOOP" /\ (state = "SYSCALL" \/ (state = "IDLE" /\ InputReady))
BackToCaller == IF resume = "RUNNING" THEN 3 ELSE 2

CallHit == First(Matching("SYSCALL", pending))
CallHits(i, ages) == Over(Watched(ages, stamp), Over(StateHit(i), CallHit))
Report(ages) == reported' = IF Watched(ages, stamp) = NoHit THEN reported ELSE stamp

HasLine(s) == \E i \in DOMAIN s : s[i] = NL
LineEnd(s) == CHOOSE i \in DOMAIN s : s[i] = NL /\ \A j \in DOMAIN s : j < i => s[j] # NL
PartialLost == <<>>                          \* mutated: a re-dispatch starts the line afresh
Partial == IF reading THEN line ELSE <<>>     \* what a parked READLINE has so far

MustWait == /\ ~eof
            /\ \/ pending = "CONIN" /\ hal = <<>>
               \/ pending = "READLINE" /\ ~HasLine(hal)
AtEof == /\ eof
         /\ \/ pending = "CONIN" /\ hal = <<>>
            \/ pending = "READLINE" /\ hal = <<>> /\ Partial = <<>>

\* BIOS_WAIT: park.  The call stays latched; READLINE keeps its partial line.
DispatchWait ==
  /\ Dispatching /\ MustWait
  /\ IF pending = "READLINE"
     THEN line' = Partial \o hal /\ reading' = TRUE /\ hal' = <<>>
     ELSE UNCHANGED <<line, reading, hal>>
  /\ Transit(6) /\ Leave("WAIT_INPUT", CallHits(6, age))
  /\ Report(age)
  /\ UNCHANGED <<resume, reason, steps, lastStop, lastSnap, bps, cpu, got, eof, stamp, age,
                 touched, left, meta, dumped, host>>

\* BIOS_EOF: halt, by row 8 from IDLE and row 11 from SYSCALL.
DispatchEof ==
  /\ Dispatching /\ AtEof
  /\ IF pending = "READLINE" THEN line' = <<>> /\ reading' = FALSE
                             ELSE UNCHANGED <<line, reading>>
  /\ pending' = NoCall /\ reason' = "EOF"
  /\ LET row == IF state = "IDLE" THEN 8 ELSE 11 IN
       Transit(row) /\ Leave("HALT", Over(StateHit(row), CallHit))
  /\ UNCHANGED <<resume, steps, lastStop, lastSnap, bps, pc, got, console, watch, left,
                 meta, dumped, host>>

\* BIOS_DONE of a call that took input: a byte, a line, or the partial line
\* that end of input cut short.
DispatchInput ==
  /\ Dispatching /\ pending \in {"CONIN", "READLINE"} /\ ~MustWait /\ ~AtEof
  /\ IF pending = "CONIN"
     THEN /\ got' = Append(got, Head(hal)) /\ hal' = Tail(hal)
          /\ UNCHANGED <<line, reading>>
     ELSE LET n == IF HasLine(hal) THEN LineEnd(hal) ELSE Len(hal) IN
          /\ line' = Partial \o SubSeq(hal, 1, IF HasLine(hal) THEN n - 1 ELSE n)
          /\ reading' = FALSE
          /\ got' = got \o Partial \o SubSeq(hal, 1, n)
          /\ hal' = SubSeq(hal, n + 1, Len(hal))
  /\ pending' = NoCall
  /\ Transit(BackToCaller) /\ Continue(CallHits(BackToCaller, age))
  /\ Report(age)
  /\ UNCHANGED <<resume, reason, steps, lastStop, lastSnap, bps, pc, eof, stamp, age, touched,
                 left, meta, dumped, host>>

\* BIOS_DONE of any other call; sector DMA ages the cells it goes through.
DispatchOther ==
  /\ Dispatching /\ pending \in {"DISK", "OTHER", "RUN"}     \* RUN of a bad name
  /\ \E cells \in (IF pending = "DISK" THEN SUBSET Cells ELSE {{}}) :
       /\ age' = [c \in Cells |-> IF c \in cells THEN stamp ELSE age[c]]
       /\ Transit(BackToCaller) /\ Continue(CallHits(BackToCaller, age'))
       /\ Report(age')
  /\ pending' = NoCall
  /\ UNCHANGED <<resume, reason, steps, lastStop, lastSnap, bps, pc, bios, console, stamp,
                 touched, left, meta, dumped, host>>

\* BIOS_DONE of a RUN that loaded a program.
DispatchRun ==
  /\ Dispatching /\ pending = "RUN"
  /\ pc' = Entry /\ pending' = NoCall /\ reason' = "NONE" /\ resume' = "RUNNING"
  /\ Transit(3) /\ Continue(CallHits(3, age))
  /\ Report(age)
  /\ UNCHANGED <<steps, lastStop, lastSnap, bps, bios, console, stamp, age, touched, left,
                 meta, dumped, host>>

\* BIOS_VSYNC: back to the caller, and out of kernel_step for the host to draw.
DispatchVsync ==
  /\ Dispatching /\ pending = "VSYNC"
  /\ pending' = NoCall
  /\ Transit(BackToCaller) /\ Leave("VSYNC", CallHits(BackToCaller, age))
  /\ Report(age)
  /\ UNCHANGED <<resume, reason, steps, lastStop, lastSnap, bps, pc, bios, console, stamp, age,
                 touched, left, meta, dumped, host>>

---------------------------------------------------------------------------
(* One instruction in SHELL or RUNNING.                                    *)

Executing == phase = "LOOP" /\ state \in Exec

OutOfBudget ==
  /\ Executing /\ left = 0
  /\ Leave("BUDGET", NoHit)
  /\ UNCHANGED <<control, steps, lastStop, lastSnap, bps, cpu, bios, console, watch, left,
                 meta, dumped, host>>

\* A PC breakpoint stops the call before the instruction runs.
PcBreak ==
  /\ Executing /\ left > 0 /\ PcHits # {}
  /\ TakeSnap
  /\ bps' = PcVisited
  /\ Leave("BREAKPOINT", First(PcHits))
  /\ UNCHANGED <<control, steps, lastStop, cpu, bios, console, watch, left, meta, dumped, host>>

\* cpu_step with the accesses it makes, and the watchpoint test after it; a
\* stamp already reported by the BIOS call before it is not reported again.
StepUnbudgeted(cells) ==                     \* mutated: max_steps is not looked at
  /\ Executing /\ PcHits = {}
  /\ TakeSnap
  /\ bps' = PcVisited
  /\ steps' = steps + 1 /\ left' = left - 1
  /\ stamp' = steps + 1
  /\ age' = [c \in Cells |-> IF c \in cells THEN steps + 1 ELSE age[c]]
  /\ touched' = cells
  /\ UNCHANGED <<lastStop, bios, console, meta, dumped, host>>
Step(cells) ==
  /\ Executing /\ left > 0 /\ PcHits = {}
  /\ TakeSnap
  /\ bps' = PcVisited
  /\ steps' = steps + 1 /\ left' = left - 1
  /\ stamp' = steps + 1
  /\ age' = [c \in Cells |-> IF c \in cells THEN steps + 1 ELSE age[c]]
  /\ touched' = cells
  /\ UNCHANGED <<lastStop, bios, console, meta, dumped, host>>
Access == IF steps + 1 = reported THEN NoHit ELSE Watched(age', steps + 1)
StepReport == reported' = IF Access = NoHit THEN reported ELSE steps + 1

Plain(cells) ==
  /\ Step(cells)
  /\ pc' \in PCs
  /\ Continue(Access) /\ StepReport
  /\ UNCHANGED <<control, pending>>

\* OUT 01: latch the call, remember the caller.
Out(cells) ==
  /\ Step(cells)
  /\ pc' \in PCs /\ pending' \in Calls
  /\ resume' = state
  /\ LET row == IF state = "SHELL" THEN 1 ELSE 4 IN
       Transit(row) /\ Continue(Over(Access, StateHit(row)))
  /\ StepReport
  /\ UNCHANGED reason

\* HLT: the shell halts the machine; a program returns to a fresh shell.
Hlt(cells) ==
  /\ Step(cells)
  /\ IF state = "SHELL"
     THEN /\ reason' = "COMMAND" /\ pc' \in PCs /\ UNCHANGED pending
          /\ Transit(9) /\ Leave("HALT", Over(Access, StateHit(9)))
          /\ UNCHANGED resume
     ELSE /\ EnterShell /\ resume' = "SHELL"
          /\ Transit(5) /\ Continue(Over(Access, StateHit(5)))
          /\ UNCHANGED reason
  /\ StepReport

\* An access past the end of the tape, or OUT 02 of a tape the machine has not
\* got: k_halt_from_exec.  (An OUT whose operand faults reads port FF, so OUT 01
\* and a fault never meet.)
Fault(cells) ==
  /\ Step(cells)
  /\ pc' \in PCs /\ pending' = NoCall
  /\ reason' \in {"TAPE_FAULT", "BAD_TAPE"}
  /\ LET row == IF state = "SHELL" THEN 9 ELSE 10 IN
       Transit(row) /\ Leave("HALT", Over(Access, StateHit(row)))
  /\ StepReport
  /\ UNCHANGED resume

Instruction == \E cells \in SUBSET Cells :
  Plain(cells) \/ Out(cells) \/ Hlt(cells) \/ Fault(cells)

Dispatch == DispatchWait \/ DispatchEof \/ DispatchInput \/ DispatchOther
            \/ DispatchRun \/ DispatchVsync
Iterate == StayHalted \/ StayIdle \/ Dispatch \/ OutOfBudget \/ PcBreak \/ Instruction
HostStep == \E max \in Budgets : StepCall(max)
HostPokes == Reset \/ LoadCom \/ BpAdd \/ BpClear
ConsoleEvent == CloseInput \/ \E ch \in Bytes : Type(ch)

Next == HostStep \/ Iterate \/ EndCall \/ HostPokes \/ ConsoleEvent

Spec == Init /\ [][Next]_vars

\* The loop is C code and runs on; the host keeps calling kernel_step, as
\* kernel_run, main.c's loop and the page's frame callback do.
FairSpec == Spec /\ WF_vars(Iterate) /\ WF_vars(EndCall) /\ WF_vars(HostStep)
---------------------------------------------------------------------------
(* What the control promises.                                              *)

BpTables == [BpSlots -> [kind : {"none", "PC", "ACCESS", "SYSCALL", "STATE"},
                         on : SUBSET (PCs \cup Cells \cup Calls \cup States), fired : BOOLEAN]]
MetaBlocks == [state : States, steps : Nat, stop : Stops, reason : Reasons \cup {"BREAKPOINT"}]

ControlType ==
  /\ state \in States \ {"BOOT"} /\ resume \in Exec /\ reason \in Reasons
  /\ counts \in [0..11 -> Nat]
  /\ pc \in PCs /\ pending \in Calls \cup {NoCall}
ConsoleType ==
  /\ line \in Seq(Bytes) /\ got \in Seq(Bytes) /\ hal \in Seq(Bytes)
  /\ reading \in BOOLEAN /\ eof \in BOOLEAN
WatchType ==
  /\ bps \in BpTables /\ bpHit \in 0..MaxBps
  /\ stamp \in Nat /\ reported \in Nat /\ age \in [Cells -> Nat] /\ touched \subseteq Cells
CallType ==
  /\ phase \in {"HOST", "LOOP", "DONE"} /\ stop \in Stops /\ left \in Nat
  /\ steps \in Nat /\ steps + left <= MaxSteps
RecordType ==
  /\ lastStop \in Stops /\ lastSnap \in Nat /\ dumped \in Nat /\ meta \in MetaBlocks
  /\ hostOps \in Nat /\ loads \in [States -> Nat]

\* The variables keep to their types, and no call to more than its instructions.
TypeOK == ControlType /\ ConsoleType /\ WatchType /\ CallType /\ RecordType

\* transition_counts is what the host shows as the traffic of the machine's
\* state diagram (kernel.h, k_transit).  The counts are a conserved flow: every
\* state has been entered as often as it was left, plus one if the machine is in
\* it; only a host-side load (kernel_load_com), which counts nothing, is the
\* difference.  A row counted that the state did not take, or a transition taken
\* and not counted on any of the loop's paths, breaks the balance.
Here(s) == IF state = s THEN 1 ELSE 0
Loaded == loads["BOOT"] + loads["IDLE"] + loads["SHELL"] + loads["RUNNING"] + loads["SYSCALL"]
          + loads["HALT"]
ShellFlow == counts[0] + counts[2] + counts[5] = counts[1] + counts[9] + loads["SHELL"] + Here("SHELL")
RunningFlow ==
  counts[3] + Loaded = counts[4] + counts[5] + counts[10] + loads["RUNNING"] + Here("RUNNING")
SyscallFlow ==
  counts[1] + counts[4] + counts[7]
    = counts[2] + counts[3] + counts[6] + counts[11] + loads["SYSCALL"] + Here("SYSCALL")
IdleFlow == counts[6] = counts[7] + counts[8] + loads["IDLE"] + Here("IDLE")
HaltFlow == counts[8] + counts[9] + counts[10] + counts[11] = loads["HALT"] + Here("HALT")
FlowConserved == counts[0] = 1 /\ ShellFlow /\ RunningFlow /\ SyscallFlow /\ IdleFlow /\ HaltFlow

\* A BIOS call is latched exactly while the machine is inside one, whatever
\* faults, breakpoints, loads and resets fell in between (io_out_pending in
\* kernel.c and bios.c): executing with a call still latched would dispatch it
\* twice, parking without one would re-dispatch nothing.  Only the two calls
\* that read the console may park.
CallLatched ==
  /\ pending # NoCall <=> state \in {"SYSCALL", "IDLE"}
  /\ state = "IDLE" => pending \in {"CONIN", "READLINE"}

\* The halt reason says why the machine is halted and nothing else: it is set
\* by the four ways to halt and cleared by every way out of HALT, a load
\* included (halt_reason; the metadata block shows it to programs and hosts).
HaltReasoned == reason # "NONE" <=> state = "HALT"

\* B26: the interval holds inside one long kernel_step call too, so a seek
\* replays at most SnapInterval instructions from the snapshot it starts at
\* (k_maybe_snapshot, called between two instructions and at the end).
SnapshotBound == SnapInterval # 0 => lastSnap <= steps /\ steps - lastSnap <= SnapInterval

\* The reason kernel_step gives for leaving is one its callers may act on
\* (kernel_run, the loop of main.c, tos_step): WAIT_INPUT only of a parked
\* machine, HALT of a halted one and of no other, BUDGET only when the budget is
\* spent between two instructions, VSYNC only when the program can go on.
StopTruthful ==
  phase = "DONE" =>
    /\ stop = "HALT" <=> state = "HALT"
    /\ stop = "WAIT_INPUT" => state = "IDLE"
    /\ stop = "BUDGET" => left = 0 /\ state \in Exec
    /\ stop = "VSYNC" => state \in Exec

\* bp_hit, which tos_bp_hit shows the host, names a breakpoint exactly when this
\* call stopped at one (or halted on the way), and never one of an earlier call.
BreakpointReported ==
  /\ phase = "LOOP" => bpHit = NoHit
  /\ phase = "DONE" => (stop = "BREAKPOINT" => bpHit # NoHit)
  /\ phase = "DONE" => (bpHit # NoHit => stop \in {"BREAKPOINT", "HALT"})
  /\ phase = "HOST" => (bpHit # NoHit => lastStop \in {"BREAKPOINT", "HALT"})

\* Between two calls the metadata block in the tape describes the machine as it
\* is: kernel_write_meta follows everything that changes what it shows.
MetaFresh == phase = "HOST" => meta = Meta(state, steps, reason, lastStop)

\* Every kernel_step call returns: neither BIOS calls without an instruction
\* between them nor an empty console can keep it.
CallReturns == phase # "HOST" ~> phase = "HOST"

\* A breakpoint is no wall: with a host that keeps calling kernel_step, an
\* executing machine gets on to its next instruction (k_bp_pc's `fired` bit).
MachineProgress ==
  \A n \in 0..(MaxSteps - 1) : (steps = n /\ state \in Exec) ~> (steps # n \/ state \notin Exec)

\* docs/architecture.md: a READ or WRITE breakpoint fires after an instruction
\* that accessed an address of its range.
WatchpointFires ==
  [][steps' = steps + 1 /\ (\E b \in BpSlots : bps[b].kind = "ACCESS" /\ touched' \cap bps[b].on # {})
       => phase' = "DONE" /\ stop' \in {"BREAKPOINT", "HALT"}]_vars

\* docs/levers.md: --snap-dir also dumps each snapshot taken.  The code dumps only those
\* taken at the end of a call (kernel.c:647), so this does not hold.
EverySnapshotDumped == phase = "HOST" => dumped = lastSnap

---------------------------------------------------------------------------
(* The kernel implements the machine a program sees.                       *)

Machine == INSTANCE BlockingMachine WITH
  mode     <- IF state \in {"SYSCALL", "IDLE"} THEN resume ELSE state,
  blocked  <- pending,
  input    <- Partial \o hal,
  ended    <- eof,
  received <- got
MachineSpec == Machine!Spec
=============================================================================
