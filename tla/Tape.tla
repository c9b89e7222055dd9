-------------------------------- MODULE Tape --------------------------------
(***************************************************************************)
(* What the machine keeps besides its contents: src/emu/mem.c (routing to  *)
(* the selected tape, faults, the step stamps of the last write and the    *)
(* last read of every cell, the dirty pages), src/kernel/trace.c, the part *)
(* of src/kernel/kernel.c that stamps, reports and traces accesses, and    *)
(* what a snapshot keeps and loses of them when tos_seek restores it.      *)
(*                                                                         *)
(* The program is a fixed sequence of accesses, one per instruction, so    *)
(* that every seek to a step the machine has reached must reproduce it.    *)
(* It runs in the shell's place, where HLT ends the machine.               *)
(* Abstracted: cell values, registers, the head's travel, an instruction's *)
(* own fetches, and the choice of a slot, which Replay.tla has.            *)
(***************************************************************************)
EXTENDS Integers, FiniteSets, Sequences, FiniteSetsExt

CONSTANTS
  Length,       \* g_len: addresses from here on fault
  Backing,      \* MEM_TAPE_BYTES: bytes kept of each tape
  BankBase, BankEnd,  \* the window of addresses that belong to the selected tape
  PageSize,     \* bytes of a page of the dirty map
  Tapes,        \* g_tapes
  Programs,     \* the programs: sequences of operations, see Op
  Interval,     \* cfg.snap_interval, 0 = never
  TraceCap,     \* TRACE_CAP
  Budgets,      \* values of max_steps the host uses
  Breaks,       \* TRUE: a breakpoint may end a call anywhere one can
  MaxSeeks,     \* bound: seeks the host asks for
  MaxTicks,     \* bound: kernel_step calls after which the host no longer steps
  StampMod      \* 2^32: step stamps are uint32_t

Addrs == 0..Backing - 1
Cells == (0..Tapes - 1) \X Addrs
Pages == 0..(Backing - 1) \div PageSize

\* READ and WRITE access a cell, SELECT is OUT to the tape port; the rest are BIOS calls:
\* DISKREAD writes the tape, DISKWRITE reads it, CONIN waits for input.
BiosKinds == {"DISKREAD", "DISKWRITE", "CONIN"}
Op == [kind : {"READ", "WRITE"} \cup BiosKinds, at : Addrs] \cup [kind : {"SELECT"}, at : Nat]

ASSUME TapeAssumption ==
  /\ Backing \in Nat \ {0} /\ Length \in 1..Backing /\ PageSize \in Nat \ {0}
  /\ BankBase \in 1..Length /\ BankEnd \in 0..Length - 1
  /\ Tapes \in {1, 2, 4} /\ Interval \in Nat /\ TraceCap \in Nat \ {0}
  /\ Programs \subseteq Seq(Op)
  /\ Budgets \subseteq Nat \ {0} /\ Breaks \in BOOLEAN
  /\ MaxSeeks \in Nat /\ MaxTicks \in Nat /\ StampMod \in Nat \ {0, 1}

VARIABLES
  program,      \* the loaded program: operation n+1 is run at step n
  mem,          \* the statics of mem.c, see Memory
  k,            \* kernel_t: [state, steps, lastSnap]
  input,        \* TRUE when hal_con_in_ready() would say so
  since, dirty, \* g_dirty_since, and the dirty pages of the metadata block
  trace,        \* the statics of trace.c, see Trace
  snaps,        \* by step, the newest snapshot of that step
  call,         \* the kernel_step call in progress: its remaining budget, or Idle
  target,       \* the step a tos_seek in progress goes to, or NoStep
  ticks, seeks, \* bookkeeping: calls made, seeks asked for
  \* history: the steps at which this timeline accessed each cell, the pages the last
  \* call wrote, the furthest step reached, the step a fault halted the machine at,
  \* whether a seek has restored a later step than the machine was at
  truth, wrote, reached, faulted, jumped

vars == <<program, mem, k, input, since, dirty, trace, snaps, call, target, ticks, seeks,
          truth, wrote, reached, faulted, jumped>>

NoStep == -1
Idle   == -1
Memory == [wage : [Cells -> 0..StampMod - 1], rage : [Cells -> 0..StampMod - 1],
           written : Nat, sel : 0..Tapes - 1, step : 0..StampMod - 1,
           fault : {"NONE", "TAPE_FAULT", "BAD_TAPE"}]
Event  == [step : Nat, what : {"FETCH", "READ", "WRITE", "SYSCALL", "TAPE", "STATE"},
           nth : Nat, live : BOOLEAN]
NoEvent == [step |-> 0, what |-> "FETCH", nth |-> 0, live |-> TRUE]
Trace  == [ring : [0..TraceCap - 1 -> Event], head : Nat, count : 0..TraceCap,
           on : BOOLEAN, wasOn : BOOLEAN]

Stamp(step)  == step % StampMod
Page(a)      == a \div PageSize
Never        == [c \in Cells |-> 0]
Seeking      == target # NoStep

(***************************************************************************)
(* mem.c                                                                   *)
(***************************************************************************)
mem_init == [wage |-> Never, rage |-> Never, written |-> 0, sel |-> 0, step |-> 0,
             fault |-> "NONE"]

mem_route(m, a) == IF a >= BankBase /\ a <= BankEnd THEN m.sel ELSE 0

\* The first fault is the one that is kept.
mem_raise_fault(m, reason) == IF m.fault = "NONE" THEN [m EXCEPT !.fault = reason] ELSE m
mem_clear_fault(m)         == [m EXCEPT !.fault = "NONE"]

mem_read(m, a) ==
  IF a >= Length THEN mem_raise_fault(m, "TAPE_FAULT")
  ELSE [m EXCEPT !.rage[<<mem_route(m, a), a>>] = m.step]

mem_write(m, a) ==
  LET cell == <<mem_route(m, a), a>>
      new  == m.wage[cell] = 0 /\ m.step # 0
  IN  IF a >= Length THEN mem_raise_fault(m, "TAPE_FAULT")
      ELSE [m EXCEPT !.wage[cell] = m.step, !.written = IF new THEN @ + 1 ELSE @]

mem_select_tape_one_over(m, n) ==
  IF n > Tapes THEN mem_raise_fault(m, "BAD_TAPE") ELSE [m EXCEPT !.sel = n]

mem_select_tape(m, n) ==
  IF n >= Tapes THEN mem_raise_fault(m, "BAD_TAPE") ELSE [m EXCEPT !.sel = n]

mem_set_step(m, step) == [m EXCEPT !.step = Stamp(step)]

\* Tape 0 is scanned over its whole length, the others over the banked window.
Scanned(t) == IF t = 0 THEN 0..Length - 1 ELSE BankBase..BankEnd
mem_dirty_pages_after(m, from) ==
  {p \in Pages : \E c \in Cells : /\ c[2] \in Scanned(c[1]) /\ Page(c[2]) = p
                                  /\ m.wage[c] # 0 /\ m.wage[c] > from}
mem_dirty_pages(m, from) ==
  {p \in Pages : \E c \in Cells : /\ c[2] \in Scanned(c[1]) /\ Page(c[2]) = p
                                  /\ m.wage[c] # 0 /\ m.wage[c] >= from}

Forgotten_one_late(age, step) == [c \in Cells |-> IF age[c] > step + 1 THEN 0 ELSE age[c]]

Forgotten(age, step) == [c \in Cells |-> IF age[c] > step THEN 0 ELSE age[c]]
mem_forget_after_no_count(m, step) ==
  [m EXCEPT !.wage = Forgotten(@, step), !.rage = Forgotten(@, step)]
mem_forget_after(m, step) ==
  LET wage == Forgotten(m.wage, step)
  IN  [m EXCEPT !.wage = wage, !.rage = Forgotten(@, step),
                !.written = Cardinality({c \in Cells : wage[c] # 0})]

(***************************************************************************)
(* trace.c                                                                 *)
(***************************************************************************)
trace_reset(t)      == [t EXCEPT !.ring = [i \in 0..TraceCap - 1 |-> NoEvent],
                                 !.head = 0, !.count = 0]
trace_enable(t, on) == [t EXCEPT !.on = on]
trace_push_always(t, step, what) ==
  LET event == [step |-> step, what |-> what, nth |-> t.head + 1, live |-> ~Seeking]
  IN  [t EXCEPT !.ring[t.head % TraceCap] = event, !.head = @ + 1,
                !.count = IF @ < TraceCap THEN @ + 1 ELSE @]
trace_push(t, step, what) ==
  LET event == [step |-> step, what |-> what, nth |-> t.head + 1, live |-> ~Seeking]
  IN  IF ~t.on THEN t
      ELSE [t EXCEPT !.ring[t.head % TraceCap] = event, !.head = @ + 1,
                     !.count = IF @ < TraceCap THEN @ + 1 ELSE @]

(***************************************************************************)
(* History: what an access really was, whatever mem.c remembers of it.     *)
(***************************************************************************)
Touched(m, a) == IF a < Length THEN {<<mem_route(m, a), a>>} ELSE {}
Noted(hist, cells, step) == [c \in Cells |-> hist[c] \cup IF c \in cells THEN {step} ELSE {}]
NoAccess == [read |-> {}, written |-> {}]

\* The history after `acc`, made by instruction number `step` or the BIOS call it is.
Remember(acc, step) ==
  /\ truth' = [w |-> Noted(truth.w, acc.written, step), r |-> Noted(truth.r, acc.read, step)]
  /\ wrote' = wrote \cup {Page(c[2]) : c \in acc.written}

(***************************************************************************)
(* One instruction, kernel.c:541-641                                       *)
(***************************************************************************)
Hlt == [kind |-> "HLT", at |-> 0]
Operation(n) == IF n <= Len(program) THEN program[n] ELSE Hlt

\* The accesses of the operation, their effect on mem.c, and their trace events.  A sector
\* is moved only when all of it is on the tape.
InBounds_one_over(op) == op.kind \in {"READ", "WRITE"} \/ op.at <= Length

InBounds(op) == op.kind \in {"READ", "WRITE"} \/ op.at < Length
IsRead(op)   == op.kind \in {"READ", "DISKWRITE"} /\ InBounds(op)
IsWrite(op)  == op.kind \in {"WRITE", "DISKREAD"} /\ InBounds(op)
AccessOf(m, op) ==
  [read    |-> IF IsRead(op) THEN Touched(m, op.at) ELSE {},
   written |-> IF IsWrite(op) THEN Touched(m, op.at) ELSE {}]
Performed(m, op) ==
  CASE IsRead(op)          -> mem_read(m, op.at)
    [] IsWrite(op)         -> mem_write(m, op.at)
    [] op.kind = "SELECT"  -> mem_select_tape(m, op.at)
    [] OTHER               -> m
Traced(t, m, op) ==
  LET what == CASE IsRead(op) -> {"READ"} [] IsWrite(op) -> {"WRITE"}
                [] op.kind = "SELECT" -> {"TAPE"} [] OTHER -> {}
  IN  IF what = {} \/ Performed(m, op).fault # "NONE" THEN t
      ELSE trace_push(t, m.step, CHOOSE w \in what : TRUE)

SnapDue == Interval # 0 /\ k.steps - k.lastSnap >= Interval
Snapshot(kk) ==
  [k |-> kk, sel |-> mem.sel, truth |-> truth]
snapshot_save(kk) == snaps' = [s \in DOMAIN snaps \cup {kk.steps} |->
                                IF s = kk.steps THEN Snapshot(kk) ELSE snaps[s]]
k_maybe_snapshot ==
  IF SnapDue THEN snapshot_save([k EXCEPT !.lastSnap = k.steps]) ELSE UNCHANGED snaps

Stopping == -2
Running  == call \notin {Idle, Stopping}
Continue(stop) == call' = IF stop THEN Stopping ELSE call
MayBreak == IF Breaks THEN BOOLEAN ELSE {FALSE}

\* A breakpoint on the program counter, found before the instruction is run.
PcBreak ==
  /\ Running /\ k.state = "RUN" /\ call > 0 /\ Breaks
  /\ k_maybe_snapshot
  /\ k' = IF SnapDue THEN [k EXCEPT !.lastSnap = k.steps] ELSE k
  /\ call' = Stopping
  /\ UNCHANGED <<program, mem, input, since, dirty, trace, target, ticks, seeks,
                 truth, wrote, reached, faulted, jumped>>

OutOfBudget ==
  /\ Running /\ k.state = "RUN" /\ call = 0
  /\ call' = Stopping
  /\ UNCHANGED <<program, mem, k, input, since, dirty, trace, snaps, target, ticks, seeks,
                 truth, wrote, reached, faulted, jumped>>

Instruction ==
  /\ Running /\ k.state = "RUN" /\ call > 0
  /\ LET op      == Operation(k.steps + 1)
         stamped == mem_set_step(mem, k.steps + 1)
         calls   == op.kind \in BiosKinds
         m       == IF calls THEN stamped ELSE Performed(stamped, op)
         fetched == trace_push(trace, k.steps + 1, "FETCH")
         t       == IF calls THEN fetched ELSE Traced(fetched, stamped, op)
         halts   == m.fault # "NONE" \/ op.kind = "HLT"
         leaves  == halts \/ calls
     IN  /\ mem' = IF halts THEN mem_clear_fault(m) ELSE m
         /\ k' = [state    |-> IF halts THEN "HALT" ELSE IF calls THEN "SYSCALL" ELSE "RUN",
                  steps    |-> k.steps + 1,
                  lastSnap |-> IF SnapDue THEN k.steps ELSE k.lastSnap]
         /\ trace' = IF leaves THEN trace_push(t, k.steps + 1, "STATE") ELSE t
         /\ faulted' = IF m.fault # "NONE" THEN k.steps + 1 ELSE faulted
         /\ \E stop \in MayBreak : call' = IF stop \/ halts THEN Stopping ELSE call - 1
         /\ Remember(IF calls THEN NoAccess ELSE AccessOf(stamped, op), k.steps + 1)
  /\ k_maybe_snapshot
  /\ reached' = Max({reached, k.steps + 1})
  /\ UNCHANGED <<program, input, since, dirty, target, ticks, seeks, jumped>>

(***************************************************************************)
(* A BIOS call: dispatched at once, or parked until there is input.  Its   *)
(* accesses carry the stamp kernel_step set last.  A fault it raised would *)
(* wait for the next instruction, and a snapshot would lose it.            *)
(***************************************************************************)
Pending == Operation(k.steps)
Waits   == Pending.kind = "CONIN" /\ ~input

Park ==
  /\ Running /\ k.state = "SYSCALL" /\ Waits
  /\ k' = [k EXCEPT !.state = "IDLE"]
  /\ trace' = trace_push(trace_push(trace, k.steps, "SYSCALL"), k.steps, "STATE")
  /\ call' = Stopping
  /\ UNCHANGED <<program, mem, input, since, dirty, snaps, target, ticks, seeks,
                 truth, wrote, reached, faulted, jumped>>

Serve ==
  /\ Running /\ k.state \in {"SYSCALL", "IDLE"} /\ ~Waits
  /\ LET served == trace_push(Traced(trace, mem, Pending), k.steps, "SYSCALL")
         woken  == IF k.state = "IDLE" THEN trace_push(served, k.steps, "STATE") ELSE served
     IN  trace' = trace_push(woken, k.steps, "STATE")
  /\ mem' = Performed(mem, Pending)
  /\ Remember(AccessOf(mem, Pending), k.steps)
  /\ k' = [k EXCEPT !.state = "RUN"]
  /\ input' = (input /\ Pending.kind # "CONIN")
  /\ \E stop \in MayBreak : Continue(stop)
  /\ UNCHANGED <<program, since, dirty, snaps, target, ticks, seeks, reached, faulted, jumped>>

StayPut ==
  /\ Running /\ (k.state = "HALT" \/ (k.state = "IDLE" /\ ~input))
  /\ call' = Stopping
  /\ UNCHANGED <<program, mem, k, input, since, dirty, trace, snaps, target, ticks, seeks,
                 truth, wrote, reached, faulted, jumped>>

(***************************************************************************)
(* The calls of kernel_step, by the host and by the replay of tos_seek     *)
(***************************************************************************)
Begin(budget) ==
  /\ call' = budget
  /\ since' = Stamp(k.steps + 1)
  /\ mem' = mem_set_step(mem, k.steps + 1)
  /\ wrote' = {}
  /\ UNCHANGED <<program, k, dirty, trace, snaps, target, seeks, truth, reached, faulted, jumped>>

HostCall ==
  /\ call = Idle /\ ~Seeking /\ ticks < MaxTicks
  /\ ticks' = ticks + 1
  /\ \E budget \in Budgets : Begin(budget)
  /\ UNCHANGED input

\* kernel_write_meta and the snapshot at the end of every kernel_step.
EndCall ==
  /\ call = Stopping
  /\ call' = Idle
  /\ dirty' = mem_dirty_pages(mem, since)
  /\ k_maybe_snapshot
  /\ k' = IF SnapDue THEN [k EXCEPT !.lastSnap = k.steps] ELSE k
  /\ UNCHANGED <<program, mem, input, since, trace, target, ticks, seeks,
                 truth, wrote, reached, faulted, jumped>>

\* The host answers a machine that is parked, and not before.
Type ==
  /\ call = Idle /\ ~Seeking /\ k.state = "IDLE" /\ ~input
  /\ input' = TRUE
  /\ UNCHANGED <<program, mem, k, since, dirty, trace, snaps, call, target, ticks, seeks,
                 truth, wrote, reached, faulted, jumped>>

TraceLever ==
  /\ call = Idle /\ ~Seeking
  /\ trace' = trace_enable(trace, ~trace.on)
  /\ dirty' = mem_dirty_pages(mem, since)
  /\ UNCHANGED <<program, mem, k, input, since, snaps, call, target, ticks, seeks,
                 truth, wrote, reached, faulted, jumped>>

(***************************************************************************)
(* tos_seek: restore, replay one instruction at a time, rewrite the        *)
(* metadata.  Ages, trace and stamps are not in a snapshot.                *)
(***************************************************************************)
Restored(slot) ==
  mem_set_step(mem_clear_fault([mem_forget_after(mem, slot.k.steps) EXCEPT !.sel = slot.sel]),
               slot.k.steps + 1)

Seek ==
  /\ call = Idle /\ ~Seeking /\ seeks < MaxSeeks
  /\ seeks' = seeks + 1
  /\ \E step \in 0..reached :
       LET slot == snaps[Max({s \in DOMAIN snaps : s <= step})]
       IN  /\ mem' = Restored(slot)
           /\ k' = slot.k
           /\ truth' = slot.truth
           /\ target' = step
           /\ jumped' = (jumped \/ slot.k.steps > k.steps)
  /\ input' = FALSE /\ wrote' = {}
  /\ trace' = [trace_enable(trace, FALSE) EXCEPT !.wasOn = trace.on]
  /\ UNCHANGED <<program, since, dirty, snaps, call, ticks, reached, faulted>>

Arrived == k.steps = target \/ k.state = "HALT"

\* The log gives a parked machine the answer it had at this step.
ReplayCall ==
  /\ Seeking /\ call = Idle /\ ~Arrived
  /\ Begin(1)
  /\ input' = (k.state = "IDLE")
  /\ UNCHANGED ticks

SeekReturn ==
  /\ Seeking /\ call = Idle /\ Arrived
  /\ target' = NoStep
  /\ trace' = IF trace.wasOn THEN trace_enable(trace, TRUE) ELSE trace
  /\ dirty' = mem_dirty_pages(mem, since)
  /\ UNCHANGED <<program, mem, k, input, since, snaps, call, ticks, seeks,
                 truth, wrote, reached, faulted, jumped>>

\* kernel_init, called by tos_reset: g_dirty_since and kernel_t's history go back too.
Boot(on) ==
  [mem |-> mem_set_step(mem_init, 1), k |-> [state |-> "RUN", steps |-> 0, lastSnap |-> 0],
   trace |-> trace_push(trace_enable(trace_reset([ring |-> << >>, head |-> 0, count |-> 0,
                          on |-> on, wasOn |-> FALSE]), on), 0, "STATE")]
Unused == [w |-> [c \in Cells |-> {}], r |-> [c \in Cells |-> {}]]
Anchor == [s \in {0} |-> [k |-> Boot(TRUE).k, sel |-> 0, truth |-> Unused]]

Reset ==
  /\ call = Idle /\ ~Seeking
  /\ LET boot == Boot(trace.on) IN mem' = boot.mem /\ k' = boot.k /\ trace' = boot.trace
  /\ snaps' = Anchor /\ since' = 1 /\ dirty' = {} /\ input' = FALSE
  /\ truth' = Unused /\ wrote' = {} /\ reached' = 0 /\ faulted' = 0
  /\ jumped' = FALSE
  /\ UNCHANGED <<program, call, target, ticks, seeks>>

Init ==
  /\ program \in Programs
  /\ target = NoStep /\ call = Idle /\ ticks = 0 /\ seeks = 0
  /\ LET boot == Boot(TRUE) IN mem = boot.mem /\ k = boot.k /\ trace = boot.trace
  /\ snaps = Anchor /\ since = 1 /\ dirty = {} /\ input = FALSE
  /\ truth = Unused /\ wrote = {} /\ reached = 0 /\ faulted = 0
  /\ jumped = FALSE

Next ==
  \/ HostCall \/ EndCall \/ PcBreak \/ OutOfBudget \/ Instruction \/ Park \/ Serve \/ StayPut
  \/ Type \/ TraceLever \/ Seek \/ ReplayCall \/ SeekReturn \/ Reset

Spec == Init /\ [][Next]_vars

(***************************************************************************)
(* Properties                                                              *)
(***************************************************************************)

\* Every variable has its type, and the loaded snapshots are of steps this timeline reached.
TypeOK ==
  /\ program \in Programs /\ mem \in Memory /\ trace \in Trace
  /\ k \in [state : {"RUN", "SYSCALL", "IDLE", "HALT"}, steps : Nat, lastSnap : Nat]
  /\ input \in BOOLEAN /\ since \in 0..StampMod - 1 /\ dirty \subseteq Pages
  /\ DOMAIN snaps \subseteq 0..reached /\ 0 \in DOMAIN snaps
  /\ call \in Nat \cup {Idle, Stopping} /\ target \in 0..reached \cup {NoStep}
  /\ ticks \in 0..MaxTicks /\ seeks \in 0..MaxSeeks
  /\ truth \in [w : [Cells -> SUBSET (1..reached)], r : [Cells -> SUBSET (1..reached)]] /\ wrote \subseteq Pages
  /\ reached \in Nat /\ faulted \in Nat /\ jumped \in BOOLEAN

\* A BIOS call's accesses carry the stamp of the instruction that made it, or of the next one
\* when a call of kernel_step began in between.
StampsOf(step) ==
  {step} \cup IF Operation(step).kind \in BiosKinds THEN {step + 1} ELSE {}

StampedBy(steps) == UNION {StampsOf(s) : s \in steps}
Latest(steps)    == IF steps = {} THEN {} ELSE StampsOf(Max(steps))

\* mem.h:32 and snapshot.c:144: a cell's age is a step at which the present timeline did access
\* it, however the host has travelled: never one of a future that was thrown away.  It is the
\* last such step as long as no seek has skipped steps it did not run again.
AgesReal ==
  \A c \in Cells : \A view \in {<<mem.wage[c], truth.w[c]>>, <<mem.rage[c], truth.r[c]>>} :
    view[1] # 0 => /\ view[1] \in StampedBy(view[2])
                   /\ jumped \/ view[1] \in Latest(view[2])

\* mem.h:43: mem_cells_written() is the number of cells that have a write age.
CellsCounted == mem.written = Cardinality({c \in Cells : mem.wage[c] # 0})

\* tos.h:46: between two calls the dirty map of the metadata block has every page the last
\* kernel_step wrote, and no page that the present timeline has not written since.
DirtyFaithful ==
  call = Idle /\ ~Seeking =>
    /\ wrote \subseteq dirty
    /\ \A p \in dirty : \E c \in Cells :
         Page(c[2]) = p /\ \E s \in StampedBy(truth.w[c]) : s >= since

\* docs/decisions.md:59: a replay is not traced.  The ring holds the newest events, in order.
TraceHonest ==
  \A i \in 1..trace.count :
    LET event == trace.ring[(trace.head - i) % TraceCap]
    IN  event.nth = trace.head - i + 1 /\ event.live

\* docs/architecture.md:265: a machine that a fault halted at some step is halted whenever it
\* is at that step again, and never gets past it.
FaultStands == faulted # 0 => k.steps < faulted \/ (k.steps = faulted /\ k.state = "HALT")
=============================================================================
