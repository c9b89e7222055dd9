# TuringOS, specified and checked

TuringOS (the repository's `src/`) is a small operating system for an Intel
8080 whose memory is the tape of a Turing machine. It runs natively (`main.c`,
`hal_posix.c`) and in a browser (`hal_wasm.c`, `web/`), and it can travel in
time: the host seeks to any step and the machine is rebuilt from a snapshot and
a log of inputs.

These modules specify its core in TLA+. TLC checks them on small instances;
TLAPS proves what matters most for every value of the constants. Paths below
are relative to the repository's `src/src` unless they begin with `docs/`.

## 1. Inventory

### 1.1 Components

| Component | Keeps | Operations | Interacts through |
|---|---|---|---|
| Kernel, `kernel/kernel.c` | `kernel_t`: state, resume state, halt reason, transition counts, steps, breakpoints, last stop, last snapshot step; file-static step stamp and reported stamp | `kernel_init`, `kernel_reset`, `kernel_step`, `kernel_run`, `kernel_load_com`, `kernel_bp_add/clear`, `kernel_set_keys`, `kernel_write_meta` | calls `cpu_step`, `bios_dispatch`, `snapshot_save` and the HAL; shares the latch `io_out_pending` with the CPU |
| BIOS, `bios/bios.c` | half-read line (`line`, `line_active`), name buffer, disk position, DMA address, output ring, RAND, RUN flag | one service per function number | console HAL, tape, file system; returns DONE, WAIT or EOF to the kernel |
| Snapshot ring, `kernel/snapshot.c` | 32 slots of tapes, CPU, `kernel_t`, BIOS and file-system state | `snapshot_reset`, `snapshot_save`, `snapshot_restore`, `snapshot_find` | called by the kernel (interval) and by the API (seek, load) |
| Embedding API, `api/api.c` | input log and replay position, images of loaded programs, output ring, output held back by a replay | `tos_step`, `tos_seek`, `tos_con_push`, `tos_keys_set`, `tos_load_com`, `tos_reset`, levers, disks | kernel, snapshots, HAL |
| File system, `fs/fs.c` | disk images (directory inside them), dirty flags, open handles, selected disk | open, create, read, write, close, delete, put, get, sectors, reload, flush, state save and load | BIOS, API, HAL |
| Tape, `emu/mem.c` | cells, write and read ages, selected tape, head, travel, first fault | read, write, peek, poke, select, forget after a step | CPU, BIOS, kernel |
| CPU, `emu/cpu.c` | registers, flags, halt flag, latched OUT | `cpu_step` | tape, kernel |
| Trace, `kernel/trace.c` | ring of events | push, reset | written by tape and kernel, read by the host |
| HAL, `hal/*.c` | push queue, script, pipe, terminal queue, key hold times, disk paths | `hal_con_*`, `hal_disk_*`, `hal_snapshot`, `hal_keys` | everything below the host loop |
| Host loops, `main.c`, `web/src` | wall clock, pacing | call `tos_step` until the stop reason says otherwise | API |
| Compilers, `compiler/`, `lang/` | nothing between two calls | source to `.COM`: tiny-C, 8080 assembler, Turing machine, Brainfuck | BIOS, API |

Nothing in the machine is threaded. What makes it hard is that every layer is
*re-entered*: a `kernel_step` call is cut short by budgets, frames, breakpoints
and missing input and resumed later by another call; a BIOS call is dispatched
again and again until its input is there; a replay runs the same machine again
in calls cut at other places. State kept across those cuts is where the bugs
are: latches, half lines, stamps, ticks, positions in a log.

### 1.2 Behaviours that are hard, and what would make each part correct

* **Kernel.** One iteration can dispatch a call, take two transitions, hit a
  breakpoint and leave. A call must be latched exactly while it is served; the
  halt reason must be there exactly while halted; the 12 counted transitions
  must add up; the stop reason, `bp_hit` and the metadata block must describe
  the machine as it is left; calls must return; a PC breakpoint must let the
  machine go on; and all of it together must look like blocking console calls.
* **Snapshots.** The step-0 anchor must never be rotated out, and the newest
  snapshot must never be further behind than the interval.
* **API.** A seek must rebuild *the machine of that step*: what a snapshot
  holds, what the log replays, and what lies unread in the HAL queue have to
  fit together exactly. A failed seek must change nothing. Output must come
  neither twice nor never nor from steps that were thrown away.
* **File system.** No block in two files; a replaced file is replaced or left
  alone; what DEL and the compilers report as done is on the host; a handle
  reads the file it was opened on.
* **Tape.** Ages, the dirty-page scan and `cells_written` agree with each other
  after any restore.
* **HAL.** Bytes reach the machine in the order of their sources and none is
  taken twice; the end of input comes after all of it; what was called ready is
  there; a key is held for its time whatever the clock does.
* **Output.** What a program prints passes three bounded queues (BIOS ring, API
  ring, output held by a seek) and must come out in order and once.
* **CPU and compilers.** The tables that describe an opcode agree; flags are
  exact; a compiled program does what its source means on every machine it may
  be started on; the two passes of the assembler agree.

`PROJECT.json` lists every hazard at its line with the property that watches
over it, or with the reason why none does yet.

## 2. What is modelled

### 2.1 `Kernel`: the finite state control

`Kernel.tla` models `kernel.c` with the console half of `bios.c`. One call of
`kernel_step` is `StepCall`, then one action per iteration of its loop, then
`EndCall`; between two calls the host may `Reset`, `LoadCom`, `BpAdd`,
`BpClear`. Bytes may be typed (`Type`) and the input may end (`CloseInput`) at
any time, inside a call too.

| Code | Model |
|---|---|
| `k_table`, `k_transit` | `k_table`, `Transit(row)`, `counts`, and `StateHit` for breakpoints on states |
| entry of `kernel_step`, its early returns | `StepCall`, `StayHalted`, `StayIdle`, `OutOfBudget` |
| `k_dispatch`, `k_after_dispatch`, the wake-up of an IDLE machine | `DispatchWait`, `DispatchEof`, `DispatchInput`, `DispatchOther`, `DispatchRun`, `DispatchVsync`, with `Woken` as the IDLE prologue |
| `k_maybe_snapshot`, `k_bp_pc`, `cpu_step`, `k_bp_access` | `Step(cells)` and the outcomes `Plain`, `Out`, `Hlt`, `Fault`; `PcBreak` |
| tail of `kernel_step` | `EndCall`: tick, last stop, metadata block, snapshot with its dump |
| `svc_readline`, `svc_conin` | `line`, `reading`, `HasLine`, `LineEnd`, `Partial`, `MustWait`, `AtEof` |

What the 8080 computes is left open: an instruction ends in any of the four
outcomes, touches any set of watched cells and leaves the PC anywhere in `PCs`.
So every property holds for every program, the shell among them.

`BlockingMachine.tla` is the abstract specification: a processor that issues
one call at a time and a console that blocks. `Kernel` implements it under the
mapping at its foot (`Machine`, `MachineSpec`; `KernelRefinement` proves it step
by step): the parked states disappear, a latched call *is* the blocked call, and
a half-consumed line goes back in front of the bytes not yet read.

Left out: registers, cycles, tape contents, the trace, the display, the frame
counter, the key mask, backspace and the 128-byte cap of READLINE. READ and
WRITE watchpoints differ only in the age array they look at and are one kind,
`ACCESS`; the BIOS calls that read and write sectors are one call, `DISK`. A
`kernel_t` on which `kernel_init` was never called is not modelled. Nor are
bytes pushed after the native console has reached its end: no host does both.

### 2.2 `Replay`: snapshots, the input log, stepping and seeking

`Replay.tla` models `tos_step`, `tos_seek`, the input log and `snapshot.c` over
a reduced kernel. A call of the API runs to its end before the host does
anything else; its actions are the iterations of its loops (`ApplyDue`,
`Enter`), of `kernel_step` (`Stop`, `Wake`, `Execute`, `Return`) and the end of
the seek (`SeekOk`, `SeekBack`).

The machine (`m`, a record) is deterministic: `code` is a program chosen in
`Init`, and `took` is everything the program has learnt from outside: bytes,
key masks, whether a byte was ready. Two machines are the same to a program
exactly if their `Image` (mode, `took`, loaded program) is the same. That is
what makes fidelity a statement about the code's bookkeeping only.

| Code | Model |
|---|---|
| `g_slots`, `g_seq`; `snapshot_save`, `snapshot_find` | `snaps`, `seq`; `SlotFor`, `Save`, `Usable`, `Find` |
| `g_log`, `g_log_len`, `g_replay_pos` | `log`, `pos` (a full log drops the pending part and lets the input through, `Room`) |
| `api_record_tagged`, `api_apply`, `api_apply_due` | `Record`, `Apply` with `Stamp`, `ApplyDue` |
| `tos_seek`: drain, restore, rewind the log, loop, land or put back | `BeginSeek`, `FirstNotBaked`, `SeekGoesOn`, `SeekOk`, `SeekBack` (it calls itself once, `call.restoring`) |
| `api_con_out`, `g_pending` | `Emit`, `held`, `delivered` |
| `g_load_serial`, `g_load_next`, `g_replay_broken` | `images`, `loadNext`, `broken` |
| `kernel_t.tick` | `m.tick`, modulo `TickMod` (2^32 in the code) |

The reference is `Straight`: the machine of this timeline run straight from
boot with every input given at the step it was given at. `Had(n)` are the
images that machine has at step `n`, as the inputs given there come in one by
one.

`Habits` names what a host may do beyond disciplined use: push bytes before
they are asked for (`TYPE_AHEAD`), load a program later than at step 0
(`LOAD_LATE`), give an input after rewinding while later snapshots exist
(`BRANCH`), seek while inputs are still pending (`SEEK_AGAIN`). All four are
ordinary uses of the API and all four are habits of the playground; each breaks
fidelity (section 4). The passing run is about a host with none of them.

Left out: breakpoints during a seek, VSYNC, READLINE, disks, the contents of
tapes (and the metadata block in them), the trace, stdin of the native host,
and the levers that rebuild the machine as `Reset` does.

### 2.3 `FileSystem`: images, directory, blocks and handles

`FileSystem.tla` models `fs.c` with the callers that make something of it: DEL,
the compilers, SELDISK and WRITE in `bios.c`, `tos_disk_put_file` and
`tos_disk_reload` in `api.c`, load and save of images in `hal_posix.c`. No call
is interrupted, so each is one action with everything it does, flush included;
what makes the part hard is their order, failing saves and full disks.

| Code | Model |
|---|---|
| `g_img`: directory sectors and data blocks | `image[d].dir`, `image[d].data` |
| `g_dirty`, `g_selected`, `g_open` | `dirty`, `selected`, `table` |
| the host's files | `stored`: none or one image per disk |
| `fs_find`, `fs_free_entry`, `fs_alloc_block`, `fs_free_blocks` | `Find`, `FreeEntry`, `AllocBlock` with `Used`, `FreeBlocks` |
| the loop of `fs_write` | `Written`, a recursive function that iterates `WriteUnit` over the sectors written |
| `fs_put_file`, its check, its delete, its clean-up on a full disk | `PutFile` with `TooBig` and `PutNew`; called by `Put` and `Compile` |
| `fs_flush`, `hal_disk_save` | `Flushed`, `SaveResults`: saved, not begun, or torn (`Torn`: the host's file has been truncated and a prefix written) |
| `fs_init` from `kernel_init`, `tos_reset`, a new process | `Restart` |
| `fs_state_save`, `fs_state_load` in a snapshot | `SaveState`, `LoadState` on `kept` |

`FileStore.tla` is the abstract specification: on each disk a function from
names to contents. A put replaces a file by exactly the contents given or
leaves it alone; a write lays a prefix of its data over one file; a delete takes
one file away and says truly whether there was one; a sector written below the
file system changes at most one file; and no other call changes any file.
`FileSystem` implements it with `files` mapped to what can be read back
(`Files`, by `fs_copy_out`).

Names are parsed already and a unit of data is a sector. The length of a file
is in units. `table[h].name` is history, for `HandlesLive`. `Open`, `Create`,
`Write`, `Read` and `Close` are the functions of `fs.h`; of these the machine
uses open, read and close only, and closes within the call. So `Reload` and
`SaveState`, which happen between two calls of the machine, are guarded by
`NoHandles`.

### 2.4 `Tape`: ages, faults, trace

`Tape.tla` models `mem.c` and `trace.c`, the kernel that stamps and traces
accesses, and what a snapshot keeps of them. A program is a fixed sequence of
accesses, so a seek must reproduce it. Cell values, registers, the travel of
the head and the fetches of instructions are left out.

| Code | Model |
|---|---|
| `g_wage`, `g_rage`, `g_cells_written`, `g_tape`, `g_step`, `g_fault` | `mem`, a record; its functions take and return one |
| `mem_route`, `mem_read`, `mem_write`, `mem_select_tape`, `mem_raise_fault` | the operators of those names |
| `mem_dirty_pages`, `mem_forget_after` | the same, over `Scanned` and `Forgotten` |
| `trace_push`, `trace_reset`, `trace_enable` | the same on `trace`; an event's `nth` and `live` are history |
| an instruction and the BIOS call it makes | `Instruction`, then `Serve` or `Park`; the call's accesses carry the stamp set last |
| `snapshot_save`, `snapshot_restore` in `tos_seek` | `snapshot_save`, `Restored` in `Seek`; then `ReplayCall`, `SeekReturn` |

What really happened is kept as history: `truth` has for every cell the steps
of the present timeline at which it was accessed, `wrote` the pages written by
the last call.

### 2.5 `ConsoleInput`, `ConsoleOutput`, `Console`

`ConsoleInput.tla` models where bytes and keys come from, for five hosts: a
terminal in raw or cooked mode, a pipe, a script, and the embedded host, which
`hal_wasm.c` is too. `hal` is a record with the push queue, the terminal queue,
the byte read ahead, the end of file, the state of the escape parser, the times
at which keys go up, and what waits on the descriptor.

| Code | Model |
|---|---|
| `tty_pump`, `pump_byte`, `classify_byte`, `bare_escape`, `ttyq_push`, `key_hit` | the operators of those names |
| `pipe_fill_peek` and when its `poll` would block | `pipe_fill_peek`, `Blocks` |
| `hal_con_in_ready`, `hal_con_in` with its order of sources | the same; `Ready` and `Read` are the calls a program makes |
| `hal_keys` | `KeysDown`, `PollKeys` |
| `hal_con_push`, `api_drain_pushed` | `Push`, `Drain` (what a seek takes back) |
| the user, the file, the clock | `Send`, `Close`, `Elapse` |

`ConsoleOutput.tla` models a printed byte: `out_byte` into the BIOS ring, which
passes its oldest byte straight to the HAL when full; `k_drain_output`;
`api_con_out`, which drops what a replay has already shown, holds what it may
still throw away and emits the rest; `api_emit` into the ring that `tos_con_pop`
empties. A program prints `printer[n]` bytes at step `n`; `tos_step` and
`tos_seek` are one action each. `Console.tla` puts the two together:
`kernel_step` polls the keys before it prints, a seek takes back pushed input
before it runs.

`Subsequence.tla` has what a queue that drops elements still keeps.

### 2.6 `Languages`: `Cpu`, `Brainfuck`, `TuringMachine`, `Assembler`

`Cpu.tla` is `cpu.c` as a function from the machine before an instruction to
the machine after it, every opcode, with the tables of `cpu_opcode_len`,
`cpu_opcode_cycles` and `disasm.c`. The width of a register is a constant:
`Languages` takes it at the real width to check arithmetic, and `Brainfuck` at
three bits to run programs.

`Brainfuck.tla` is `bf_compile`, byte for byte, and its output run on `Cpu` with
the tape port and two console calls, against `Meaning`, what the source says.

`TuringMachine.tla` is `tm_compile` on lines that are tokenized already, the
tables it makes (`Records`), the size of the image (`ImageSize`: 514 bytes of
interpreter and 175 for each tape, as `tm.c` compiled gives them, the input with
the loop that copies it, the digits of the line that "too many tapes" names, and
the tables), and the interpreter `gen_image` emits, one loop of it an action
(`TmApply`) and its end another (`TmHalt`). The reference is a machine with
unbounded tapes stepped beside it (`ideal`), built from the lines and not from
the tables.

`Assembler.tla` is both passes of `asm_assemble`, one statement an action, with
the encoding of every mnemonic; the reference is `OnePass`, one pass that is
given the symbols. Characters are left out but for one thing the passes depend
on: a name such as `FEH` that reads as a hexadecimal number until it is defined.

`Languages.tla` chooses the language, as `tos_compile` does.

### 2.7 The other modules

Each `MC` module instantiates the module of its name for TLC. `KernelProofs`,
`FileSystemProofs`, `TapeProofs`, `ReplayProofs` and `ConsoleProofs` hold the
theorems about the module of their name, `KernelRefinement` and `FileSystemRefinement` that the
detailed modules implement `BlockingMachine` and `FileStore`, and `Induction`
what they share: induction over numbers with the property as a set, least and
greatest elements, and a function iterated step by step. Definitions marked *mutated*, or named like
another one with what is wrong as a suffix, stand for plausible bugs; no action
uses them. They document what each property catches.

## 3. Plan

Done: 1 to 7. The order is by how much of the system's promise rests on a part.

1. `Kernel` against `BlockingMachine`; invariants proved.
2. `Replay`: snapshots, log, seeking, output.
3. Proofs: all of `Kernel`'s invariants; the anchor of `Replay`'s ring.
4. `FileSystem` against `FileStore`.
5. `Tape`: cells, ages, dirty pages and the trace under seeks.
6. `ConsoleInput`, `ConsoleOutput`: sources, keys, rings, held output.
7. `Languages`: the 8080 and three compilers.
8. More proofs. Done: every safety invariant of `Kernel`, `FileSystem`, `Tape`,
   `Replay`, `ConsoleInput` and `ConsoleOutput`; `Kernel` implements `BlockingMachine` and `FileSystem` implements
   `FileStore`, step by step.
9. `compiler.c`: tiny-C, with a semantics of the language beside `Cpu`.

The modules were written to be proved about: constants with named assumptions,
one action per operation, no recursive operator (recursive definitions are
functions or folds). `Cpu` and what uses it are the exception: bitwise
operations are out of the prover's reach.

## 4. The runs and what they show

### Passing

**`kernel_safety`** (`MCKernelSafety.cfg`; 1.06 million states). The kernel
with one breakpoint of each kind, a snapshot interval of 2, budgets 1 and 3, up
to three instructions and two host operations, loads in the middle of a line
included.

* `TypeOK`: types, and no call runs past its budget.
* `FlowConserved`: the transition counts are a conserved flow over the state
  diagram: each state was entered as often as left, plus one for the current
  one, up to loads, which count nothing.
* `CallLatched`, `HaltReasoned`: latch and halt reason agree with the state.
* `SnapshotBound`: decision B26, a seek replays at most the interval.
* `StopTruthful`, `BreakpointReported`: a caller may act on what it is told.
* `MetaFresh`: the block in the tape describes the machine between calls.

**`kernel_blocking`** (`MCKernelFair.cfg`; 0.1 million states, fair). `Kernel`
implements `BlockingMachine` with its fairness (`MachineSpec`); every call
returns (`CallReturns`); a PC breakpoint does not stop the machine for good
(`MachineProgress`). Loads in the middle of a line are excluded here: the line
buffer survives a load, so the next program's READLINE finds the half line of
the one before, which no blocking machine does.

**`replay_disciplined`** (`MCReplaySafety.cfg`; 0.8 million states, fair). For
a disciplined host:

* `TimelineFidelity`: wherever stepping, seeking and inputs have brought it,
  the machine the host finds at step `n` is one the straight run has at `n`.
* `FailedSeekHarmless`: a seek that returns -1 has put back the machine.
* `OutputReal`: nothing reaches the host from steps that were thrown away.
* `AnchorKept`: a snapshot of step 0 is always there.
* `CallsReturn`: `tos_step` and `tos_seek` return.

The first two speak of timelines whose inputs all fitted in the log; a full log
is reached, and is covered by the other four.

**`files_store`** (`MCFileSystem.cfg`; 0.1 million states). One disk with two
names, two directory entries and two data blocks of two sectors, two handles,
saves that fail before or in the middle; every sequence of five calls.

* `TypeOK`: types; block numbers stay on the disk, positions within one extent.
* `DirectorySound`: no block is in two files or twice in one, names are unique,
  every file has the blocks its length covers; on the host's copy too.
* `HandlesLive`: an open handle is on the file it was opened on.
* `CleanIsStored`: a disk that is not dirty is on the host as it is.
* `StoreSpec`: `FileStore` is implemented.

Here the clients of `fs.h` leave one handle free (`LastHandle = FALSE`); with
the last one taken a put destroys the file it fails to replace:

**`tape`** (`MCTapeSafety.cfg`; 0.4 million states). Two tapes of three
addresses in two pages, one banked, one address backed but off the tape; five
programs; two seeks; breakpoints anywhere.

* `AgesReal`: an age is a step at which the present timeline did access the
  cell, and the last one as long as no seek has jumped forward.
* `CellsCounted`: the counter is the number of cells with a write age.
* `DirtyFaithful`: the dirty map has every page the last call wrote, and no
  page that this timeline has not written since it was last computed.
* `TraceHonest`: the ring holds the newest events in order, none of a replay.
* `FaultStands`: no seek brings a faulted machine past its fault.

Three things the code says are weaker than they read, found here. After a seek
back and a seek forward over a snapshot the steps between are not run again, so
an age may be an older step than the cell's last (`mem.h:32`, `jumped` in the
model). The dirty map of a call that began at a snapshot or after a breakpoint
may also have pages of earlier calls (`docs/architecture.md:205`). And
`CellsCounted` needs that stamps do not wrap: a write at step 2^32 leaves age 0
(with `StampMod` 3 TLC shows it).

**`console`** (`MCConsole.cfg`; 0.7 million states). All five hosts, queues of
one byte, two keystrokes, two pushed bytes, a clock that wraps; five programs
for the output, rings of two and three bytes, four calls.

* `TextIntact`: text is read in order, once and without escape sequences; only a
  full terminal queue loses any.
* `ReadyTrue`: what was called ready is there when it is read.
* `FileEofLast`: of a pipe or a script everything is read before its end is.
* `KeysHeld`: a key is down for its time and then up, also when the clock wraps.
* `StdoutFaithful`: the HAL gets what was printed, in order and once, unless a
  replay overran the BIOS ring or the held output.
* `HostFaithful`: so does the host that pops; only a full ring loses anything.
* `NewestKept`: the last byte printed is always there for the host.

The two exceptions of `StdoutFaithful` are the code's: a replay that overruns
the BIOS ring prints again (`bios.c:69`), and `g_pending` keeps the oldest bytes
where the ring keeps the newest. `TextIntact` cannot promise more about escape
sequences than the parser: one whose bytes arrive in two pumps is an Escape key
and text (`hal_posix.c:508`), so `Send` gives a sequence at once.

**`languages`** (`MCLanguages.cfg`; 0.2 million states).

* `BrainfuckRuns`: a source is refused only for its brackets, its depth or its
  size; a program that halts leaves cells, pointer and console as its source
  says, whatever was on the tapes; one whose source ends does halt. For every
  source of two commands, and for runs longer than a chunk and than the tape.
* `MachineRuns`: the texts that are well formed and whose image has room, and no
  others, become programs, and "program too large" is the error exactly for those
  that only lack the room (`tm.c:780`); programs run as the machine of their
  lines after every rule until a head leaves its region, halt when it halts and
  print its tapes and steps.
* `TwoPassesAgree`: the output is that of one pass that knows every symbol; a
  symbol is called undefined or duplicate only when it is. For every source of
  three of 21 statements.
* `CpuExact`: for every accumulator, carry and 25 operands, the arithmetic and
  its flags are those of a ripple-carry adder, DAA gives decimal sums, and the
  five tables that list the opcodes agree on all 256.

`TwoPassesAgree` excepts sources whose ORG, DS or EQU mentions a name that reads
as a number and is defined later: pass 1 takes the number, pass 2 the symbol
(`asm.c:381`), although `asm.c:481` says that operand is known in pass 1. The
Turing machine does not clear cells an earlier program left, and heads are not
kept apart; and where no rule matches it prints the state's name only for a
state that has no rules of its own, and only once a rule was applied
(`tm.c:447`), where `tm.c:16` promises it always.

### Violations, each a disagreement between the code and what it says of itself

| Run | The code does | It says |
|---|---|---|
| `watchpoint_after_reset` | the stamp of the last reported access outlives a reset, so the first watched access carrying the same stamp is silent | `docs/architecture.md:133` |
| `replay_branch` | an input after rewinding cuts the log but leaves the old future's snapshots, which the next seek finds | `api/api.c:9` |
| `replay_lost_output` | output held by a failed seek is dropped, its snapshots are kept; a later seek starts after it | `docs/decisions.md:61` (B26) |
| `files_failed_put` | `fs_put_file` deletes the old entry and only then finds that no handle is left for the new one | `fs/fs.c:848` |
| `console_eof` | on a raw terminal Ctrl-D is seen as soon as it is polled, and the end of input is answered before the text queued in front of it | `docs/languages.md:62` |

More of the kind, each one line of a configuration away:

* `MCReplaySafety.cfg` with `Habits = {"TYPE_AHEAD"}` violates
  `TimelineFidelity`: a byte pushed before and read after a snapshot is in
  neither the snapshot nor the replayed log (`docs/decisions.md:61`).
* with `{"SEEK_AGAIN"}`, too: a replay's snapshot has a later tick than an input
  pending at its step, which the next seek takes for baked in (`api/api.c:726`).
* with `{"LOAD_LATE"}` it violates `FailedSeekHarmless`: putting the machine back
  stops before the inputs of its step are applied, so a load made there can be
  lost.
* with `Habits = {}` still, `Kinds = {"PLAIN", "CONIN"}`, `MaxSteps = 4`,
  `Interval = 2`, `LogCap = 4`, `Budgets = {4}` and `MaxInputs = 4` it violates
  `FailedSeekHarmless`: with more loads than images a seek from the anchor fails
  though it arrives, having saved its own snapshot of the target over the one that
  would lead back; that one's tick is later than the input of its step, which is
  not applied again (`docs/decisions.md:59`: "A seek that cannot reach its target
  puts the machine back where it was").
* `MCConsole.cfg` with `Hosts = {"RAW"}` and `MaxMs = 12`, more than half of
  `TimeMod`, violates `KeysHeld`: `hal_keys` never forgets when a key went up
  and asks only whether that is later within half the clock's range
  (`hal_posix.c:531`), so 2^31 ms after, a key pressed once reads as held again,
  for 24.8 days (`docs/architecture.md:218`: "each held for 150 ms").
* `MCKernelSafety.cfg` with the invariant `EverySnapshotDumped`: a snapshot taken
  inside a call moves `last_snapshot_step`, and the end of the call, the only
  place that dumps, finds nothing due (`docs/levers.md:18`).

`MCReplayBranch` switches on one habit; `MCReplayOutput` none.
`MCFileSystemHandles` lets clients take the last handle, of one instead of 16;
the BIOS never leaves one open, so only a client of `fs.h` gets there.

### Bounds, and why they are enough

* `Kernel`: two bytes (a letter and the newline) distinguish a line that is
  complete from one that is not; two addresses, a PC that is inside a range from
  one outside; one cell, an access that is watched from one that is not. Three
  instructions with budgets 1 and 3 are enough for a call that ends between, at
  and after a snapshot of interval 2. `MaxHostOps` bounds what the host does
  besides stepping, and how many bytes arrive.
* `Replay`: `MaxSteps` 3 and interval 1 give a snapshot at, before and after
  any seek target; two slots are the smallest ring in which slots rotate; a log
  of one entry and two inputs reach the full log; two seeks are what it takes to
  seek after a seek. `MaxTicks` stops the host from stepping a parked machine
  for ever; ticks stay below 9, so `TickMod` 16 never wraps in a correct run,
  while a call that never returns becomes a loop TLC can see.
* `CHECK_DEADLOCK FALSE` everywhere but in `Kernel`: with its inputs, seeks,
  steps or calls used up the host stops, and a compiled program ends, which is
  no fault of the system.
* `Tape`: programs are three operations and the halt; interval 2 puts snapshots
  before, at and after an access; two seeks are what it takes to go back and
  forward. A trace ring of three wraps. `StampMod` 16 never wraps.
* `Console`: queues of one byte are full with one byte and overrun with two; two
  keystrokes are a key and a text, or text and the end of input. `TimeMod` 16
  stands for 2^32 and `HoldMs` 2 for 150; with a start at 13 it wraps within
  `MaxMs` 3. A burst of four overruns the BIOS
  ring, of three the API ring.
* `Languages`: cells are three bits and a page eight cells, so that a move wraps
  a cell pointer's low byte and the window within a few commands; chunks are of
  four. Windows of eight, 24 and 30 cells are below, at and above the places
  where the prologue branches (`CapPage`, `MaxCells`). `Fuel` and `MaxInstr` are
  large enough that every source that ends is seen to end. Turing machines have
  regions of 12 cells; a step word is four, so `StepMax` 14 carries three times.
  `TmCap` 1267 is the room that four tapes, one rule and two cells of input need
  exactly (the TPA has 16,128 bytes); a character of a name, a cell of
  input or the tenth line is one byte too many, and the texts of `Large` have
  each, and rules and states that make the image fit or not.
  The assembler's output holds nine bytes of which the caller takes eight.
* `FileSystem`: one disk, as no call touches two (`tos_disk_put_file` selects
  its disk and goes back); two disks were checked with three calls. Two entries
  and two blocks make the directory full, the disk full, and a put that needs
  the blocks of the file it replaces; contents of one sector, of two blocks and
  of one sector too many are the cases of the size check. `MaxCalls` 5 is enough
  to create, write, delete, create again and use a handle. `SectorData` is a
  value clients write too, `Delivered` the file a disk may come with.

### Fairness

`Kernel`: weak fairness of `Iterate`, `EndCall` and `HostStep`. The first two
are straight C code; the third is `kernel_run`, the loop of `main.c` and the
page's frame callback, which call again whatever the stop reason was, until the
machine halts. Nothing is assumed of the user: no byte need ever arrive.
`Replay`: weak fairness of `InCall` only, the code between a call of the API and
its return. Nothing is assumed of the host.

## 5. What is proved

`KernelProofs`, from `ConstantsAssumption` alone, for any number of addresses,
cells, breakpoints, bytes, steps and any snapshot interval:

* `TypeCorrect`: `Spec => []TypeOK`.
* `TransitionsBalance`, `CallsAreLatched`, `HaltsHaveReasons`,
  `SnapshotsBoundReplay`, `CallsTellTheTruth`, `BreakpointsAreReported`,
  `MetaIsFresh`: each invariant of `kernel_safety`, one theorem each.

They all rest on `Invariance`, `Spec => []IInv`. `IInv` is the conjunction of
all eight: none but the first is inductive alone. `FlowConserved` needs to know
the state a dispatch resumes to (`TypeOK`) and that a call is latched only in
SYSCALL and IDLE (`CallLatched`): otherwise row 7 could be counted out of a
state it does not leave. `StopTruthful` at the end of a call becomes
`BreakpointReported` and `MetaFresh` between calls. The proof goes action by
action for types (`StepType`, `IterateType`, `HostType`), then by *kind* of step
for the rest: steps that do not move the control (`Quiet`), steps that take
table rows (`Moves`, through `FlowTransit`: taking row `i` keeps the balance),
reset and load.

`KernelRefinement`, from the same assumption and `LoadsMidLine = FALSE`:

* `KernelImplementsMachine`: every behaviour of `Kernel` starts as
  `BlockingMachine` does, and every step of it is a step of `BlockingMachine`
  or changes nothing a program sees (`Spec => Machine!Init /\
  [][Machine!Next]_(Machine!vars)`). It uses `IInv` and one invariant more,
  `LineInv`: only a parked READLINE has a half line, and no end of a line is in
  it. Without it the line a READLINE hands out would not be known to be *one*
  line, nor the half line a reset forgets to be one that was being read.
  `LoadsMidLine = FALSE` is needed: a program loaded while a READLINE is parked
  keeps the half line (`kernel_blocking` in section 4), so `LineInv` and the
  refinement would fail. The proof has one lemma per kind of step; the one that matters is
  `ReadlineImplements`, where `Taken` cuts `Partial \o hal` where the code cuts
  `hal`. Fairness (`WF_vars(Serve)` of `MachineSpec`) stays with TLC.

`ReplayProofs`, from `ReplayAssumption`, for every set of `Habits`:

* `AnchorSurvives`: slot 0 holds a snapshot of step 0 for ever. Alone it is not
  inductive: a ring never written (`seq = 0`) would write slot 0 next, and a
  ring of one slot would have nothing to rotate. `RingInv` adds both.
* `SeekNeverStarved`: `snapshot_find` always finds one, whatever the target, so
  the `return -1` of `tos_seek` for want of a snapshot is unreachable.
* `TypeCorrect`: `Spec => []TypeOK`. That the step counter stays in its range is
  no matter of types: two loops are nested, `tos_step`'s over calls of
  `kernel_step` and that one's over steps, each with a budget of its own.
  `Budgeted` says that the inner budget never exceeds what the outer one has
  left, less what the call under way has used. The assumption `LoadSlots <= 256`
  is the width of the log's `value` (a `uint8_t`), which holds a load's slot.
* `OutputIsReal`: what the host was given is output of steps this timeline has
  been through. `Given` carries it through a seek: what is *held* is output of
  steps up to the present one, and is delivered when the seek lands, at a step
  the history has by then.

And for a disciplined host (`Habits = {}`), for every program, interval, ring, log
and order of inputs, steps and seeks:

* `TimelineIsFaithful`: `Spec /\ [](NoRecycling /\ NoWrap) => []TimelineFidelity`.
* `FailedSeekIsHarmless`: the same of `FailedSeekHarmless`.

`NoRecycling` says that no load has taken the image slot of another, so at most
`API_LOAD_SLOTS` loads between resets: with a ninth, putting the machine back after a
failed seek can fail (section 4, "more of the kind"), and a reset gives all slots
back. `NoWrap` says that the tick, a `uint32_t` counting calls of `kernel_step`,
has not wrapped: which inputs a snapshot has in it is told by comparing ticks. An
input that finds the log full is not excluded by a hypothesis: both properties
are silent about its timeline, and the proof carries `Overfull` on until the reset.

`TimeInv` is the invariant: everything fits the *timeline* `Line`, which has the run
straight through all inputs given as one value: the machine arriving at each step,
and the same after each of the inputs given there. `Here` says of the machine what
`TimelineFidelity` says, but of every state inside a call, with the inputs
applied so far (`pos`) and the byte a parked machine was just woken with;
`InputsFit`, `LogFits` and `LoadsFit` that the log is the timeline's inputs with ticks
that may differ, in order of step; `SnapsFit` that each snapshot is the timeline's machine as
it arrives at a multiple of the interval. That is not yet inductive: a seek goes
on from a snapshot with the first log entry that is not *baked* into it, and
the only witness of that is a comparison of ticks, of two runs in different
chunks. `Stamped` says that the newest snapshot of a step has no later a tick than the
entries applied at its step, `TickFits` that the machine has no earlier a tick than
the snapshot of the step it is at, so that entries to come are stamped later; of
older snapshots of the same step this is false, and `snapshot_find` never
returns one (`FindIs`, from `RotFits`: the rotating slots have the last saves, each in its
turn). `AnchorFits` says it of slot 0, which a load saves at the very step and tick
of its log entry. `CallFits` says what a seek in progress will be able to give back.
The lemmas under it: two timelines whose inputs differ only from step `n` on agree up
to `n` (`LinesAgree`, for a new input); a step is run by the machine as by
the timeline, whatever chunk it falls in (`RunsOn`, `ExecutedLike`); a seek that
did not land is stuck at a step the timeline never leaves (`Stranded`). Then one lemma per
action (`ConPushFits` ... `SeekBackFits`). `Straight` and `Taking` are recursive
functions, which `Induction` says exist and are determined by their turns; TLC
checked every part of `TimeInv` on small instances before it was proved.

`FileSystemProofs`, from `FileSystemAssumption`, for disks, directories, files
and handle tables of any size, and any contents:

* `TypeCorrect`, `DirectoryIsSound`, `HandlesAreLive`, `CleanIsSaved`: the four
  invariants of `files_store`.

They rest on `Inv == Control /\ Stores /\ Opens`. `Stores` has the images in
memory *and* on the host sound at once, for a flush makes one the other, and
what is not dirty equal. `DirectorySound` counts blocks; the inductive form says
instead that no two slots of the directory have the same block (`BlocksOnce`),
that every byte of a length has a block (`Covered`) and that names differ;
`SoundImagesAre` derives the counting. Two lemmas carry it: `AllocBlock` answers
with a block no entry has, and one turn of `fs_write`'s loop (`UnitWritten`)
keeps a sound image sound with the length as yet behind the blocks allocated,
which is why the loop's invariant (`Writings`) has the position where the
invariant has the length. `WrittenAlong` iterates it. `Opens` needs the deletes
of `fs_put_file` and the sector writes of the shell to close what they take
away: `Live` is about any table and images, so that a lemma about each step of a
call can be applied in the middle of the call.

`FileSystemRefinement`, from the same assumption and `LastHandle = FALSE`:

* `FileSystemImplementsStore`: `Spec => StoreSpec`. Every step of the file system
  is one of `FileStore`, or changes no file.
* `FailedPutsDestroyNothing`: `Spec => FailedPutHarmless`.

A file is read through its block pointers, so the proof is about sectors first
(`At`, `Backed`: which sector of which file a write or an allocation changes),
then about the contents of one file (`SameFile`, `OnlyFile`), then about the
store (`Files`), then one lemma per call. In `fs_write` the loop's invariant is
`Turns`: the sectors of every other file, and of this one before the position
written from, are what they were, and those from there to the position reached
are the data. That a put which passed its check ends with *all* of the contents
is a matter of counting: `Filling` says that after `n` sectors `n / Units` blocks,
rounded up, have left the free ones, so a put that fits finds a block each time.
`LastHandle = FALSE` is needed and is not vacuous: it forbids clients to hold
every one of `FS_MAX_OPEN` handles when they put a file. `Spare` says that one
stays free then. When none is, `fs_put_file` deletes the old file, cannot open
the new one and fails: that is the violation `files_failed_put` shows.

`TapeProofs`, from `TapeAssumption`, for every set of programs, tape geometry,
interval and trace size:

* `TypeCorrect`, `TraceIsHonest`, `FaultsStand`.
* `CountIsRight`, `AgesAreReal`, `DirtyMapIsFaithful`, from `NoWrap` besides:
  every program has fewer steps than stamps. A stamp is a `uint32_t` and a step
  takes microseconds, so it is 4,294,967,296 steps to a wrap; past it, an age is
  no longer a step. Without the hypothesis the three are false of a behaviour
  that long. The instance of `tape` has programs of three steps and sixteen stamps.

The program is fixed while it runs, so what its step `n` does is a function of the
program (`OpOf`, `SelAt`, `Reaches`, `Halts`): the *timeline*. `Inv` says where on
it the machine is. `Stands` says of a machine, the present one or that of any
snapshot, that its selected tape and its true trace are those of its step, and
that no halt is behind it; `OnTimeline` and `Ring` say that the machine and every
snapshot stand, snapshots at multiples of the interval and one at 0. A seek then
lands on the timeline, since it starts at a snapshot and runs on. The trace and
the faults follow.

Ages need more, `AgeInv == Inv /\ Stamped /\ Ages /\ Dirty`. A snapshot does not
keep the ages: going back forgets those later than the snapshot's step and leaves
the rest. `Real` says that an age is a stamp of an operation that this timeline
has done on the cell, and of the last of them unless the machine has jumped. The
case that makes it hard is a BIOS call: it is served at the step it was made at or
one later, so its accesses have one of two stamps, and a snapshot of a machine
parked *in* the call has not made them yet. Going back to such a snapshot from
later would keep ages its accesses have not earned. `Unserved` says that there
are none: an age that equals the step of a parked snapshot is earned by an
earlier access. It holds because a call served within its step is snapshot again
at that step, in place of the parked one; `Due` is the moment between.
`Stamped` ties the stamp the next access gets to the step the kernel is at, one
apart while a step is under way.

`TapeAssumption` asks that programs are sequences of operations and that there
are two stamps at least: with one, 0 would be both "never" and a step.

`ConsoleProofs`, from `ConsoleInputAssumption`, for every set of hosts, queues
of any size, any text, any number of pushes, any clock and order of calls, and
whatever the program prints meanwhile:

* `ConsoleInputInvariant`, and from it `InputTyped`, `TextStaysIntact`,
  `ReadyStaysTrue`, `FileEofIsLast`.
* `KeysStayHeld`, from `NoWrap` besides: the time a key is held is less than half
  the range of the clock, and no more than that half goes by. Without the second
  it is false (section 4, "more of the kind"). With 150 ms and 32 bits it
  is a session of 24.8 days; the clock may start anywhere and may wrap in it.

`InputInv` has the types with what each host has (`Sources`: only a pipe reads
ahead, only a terminal queues, an escape sequence is never cut between two
calls), and three things the properties do not say. `Told`: the text read, the
byte read ahead, the queue and the text of what is still on the descriptor are,
in this order, what was sent, or inside it once the queue has overrun. *Inside*
is by an increasing injection (`Places`) and not by the recursive `IsPartOf`,
which `InsideIsPart` derives at the end. `promised => Answers`: a promise is kept
by whichever source made it, and a later keystroke, push or poll does not take
that away; only `hal_con_in` and a seek's drain do, and both end the promise.
And for a pipe or a script, that the end was answered only when nothing waited
(`Ended`). The pump's loop has its own invariant, `Progress(h, n)`: after `n`
bytes of the wire the queue is the first `TtyCap` letters of what it was and the
text of those bytes (`Room`), whatever the state of the parser (`EscapeAt`). A
single byte of a pump, a source of `hal_con_in`, a turn of the drain have a lemma
each; `Moved` is what they have in common. `KeyInv` says of each key that its time
is `HoldMs` after its press, or one more where the code avoids 0, modulo the
clock; `KeyElapse` is the case that matters.

And from `ConsoleOutputAssumption`, for every program, rings of any size, any
interval between snapshots and any order of steps, pops and seeks:

* `ConsoleOutputInvariant`, and from it `StdoutStaysFaithful`,
  `HostStaysFaithful`, `NewestStaysKept`.

`OutputInv` is about the three rings at once: between calls the BIOS ring and
`g_pending` are empty; what the host popped followed by what it can pop is inside
what was shown, ends like it unless `g_pending` overran, and *is* it unless a ring
overran; the HAL has what was shown unless a seek overran. A ring that overwrites
its oldest byte keeps `Newest` of what went in, `g_pending` keeps `Oldest`. The
proof says of each loop over bytes what it leaves (`OutByte`, `OutBytes`,
`EmittedTurns`, `DrainIs`, `ReleasedIs`: the code's drains byte by byte against
`Newest` and `Oldest` of the whole), of a `kernel_step` what one burst leaves
(`KernelStepIs`), and of a seek what its loop holds so far: `Holds(pend, w, o)`, of
the bytes `w` the replay printed past what was shown. `Holds` needs both ends: the
newest bytes of a burst may be the ones `g_pending` has no room for.

What is only model-checked, and why:

* `Languages`: bitwise operators and folds over programs.
* Liveness (`CallReturns`, `MachineProgress`, `CallsReturn`) and the fairness of
  `MachineSpec`: the prover has no ENABLED. The refinements are of safety.
* What the two hypotheses on `TimelineFidelity` and `FailedSeekHarmless` leave
  out. With image slots used twice the second is false; the first held in the
  configuration that shows it (section 4, "more of the kind") with one seek, 1.1 million
  states, and is not proved there. Of ticks that wrap nothing is claimed.

## 6. What is not modelled

The tiny-C compiler (3,055 lines of code generation in one call; nothing of it
survives the call) is planned. Of the Turing machine's interpreter the 8080 code
itself, of the assembler the characters of a line and the listing, of the CPU
cycle counts, a fault in the middle of an instruction, and the words of a
disassembly. Of the HAL the display and its frames, the echo of a cooked
terminal, options and signals. Left out for good: the shell (a program like any
other), the page, the tools and the demos. Of `fs.c`: parsing of names, `fs_list`, `fs_format` (which nothing
calls), images shorter than a disk, and directory sectors a program forges (it
may only wipe an entry). Disks are outside snapshots by decision B23, so a program that wrote
a disk and is replayed finds what it wrote; that is documented, not a finding.

## 7. Running it

    tlc -workers 2 -config MCKernelSafety.cfg MCKernel     # any cfg with its MC module
    tlc -workers 2 -config MCTapeSafety.cfg MCTape
    tlapm KernelProofs.tla                                 # under a minute
    tlapm KernelRefinement.tla                             # under a minute
    tlapm ReplayProofs.tla                                 # under ten minutes
    tlapm FileSystemProofs.tla                             # a minute or two
    tlapm FileSystemRefinement.tla                         # a minute or two
    tlapm TapeProofs.tla                                   # a few minutes
    tlapm ConsoleProofs.tla                                # a few minutes
    tlapm Induction.tla                                    # seconds
