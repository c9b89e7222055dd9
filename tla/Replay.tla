------------------------------- MODULE Replay -------------------------------
(***************************************************************************)
(* Time travel: the input log, tos_step and tos_seek of src/api/api.c over *)
(* the snapshot ring of src/kernel/snapshot.c.                             *)
(*                                                                         *)
(* A call of the API runs to its end before the host does anything else;   *)
(* its actions are the iterations of its loops.  The machine underneath is *)
(* the kernel of Kernel.tla reduced to what a replay can get wrong: a      *)
(* deterministic program `code`, whose instruction number n+1 is run at    *)
(* step n, and everything the program has learnt from outside, `took`.     *)
(*                                                                         *)
(* Abstracted: breakpoints (so tos_seek's stall counter, which only a      *)
(* breakpoint can move), VSYNC, READLINE, disks, tapes' contents and the   *)
(* metadata block in them, the trace, the cell ages, stdin of the native   *)
(* host, and the levers that rebuild the machine, as tos_reset does.       *)
(***************************************************************************)
EXTENDS Integers, Sequences

CONSTANTS
  Bytes,        \* console bytes
  Masks,        \* key masks
  Kinds,        \* kinds of instruction the program may be made of
  MaxSteps,     \* bound: length of the program
  Interval,     \* cfg.snap_interval, 0 = never
  Slots,        \* SNAPSHOT_SLOTS
  LogCap,       \* API_LOG_CAP
  LoadSlots,    \* API_LOAD_SLOTS
  QueueCap,     \* HAL_IN_CAP
  Budgets,      \* values of max_steps the host uses
  MaxInputs,    \* bound: inputs the host gives
  MaxSeeks,     \* bound: seeks the host asks for
  MaxTicks,     \* bound: kernel_step calls after which the host no longer steps
  TickMod,      \* 2^32: kernel_t.tick is a uint32_t
  Habits        \* what the host does besides the disciplined use, see AllHabits

NoKeys == 0
AllKinds == {"PLAIN", "CONIN", "CONST", "KEYS", "CONOUT", "HLT"}

\* TYPE_AHEAD: push a byte the machine is not parked for, or load over an unread
\* one.  LOAD_LATE: load a program later than at step 0.  BRANCH: give an input
\* while an input or a snapshot of a later step is there.  SEEK_AGAIN: seek while inputs are still
\* pending from an earlier seek.
AllHabits == {"TYPE_AHEAD", "LOAD_LATE", "BRANCH", "SEEK_AGAIN"}
Allowed(habit, otherwise) == habit \in Habits \/ otherwise

ASSUME ReplayAssumption ==
  /\ Kinds \subseteq AllKinds
  /\ MaxSteps \in Nat /\ Interval \in Nat
  /\ Slots \in Nat /\ Slots >= 2
  /\ LogCap \in Nat /\ LoadSlots \in 1..256 /\ QueueCap \in Nat \ {0}
  /\ Budgets \subseteq Nat \ {0}
  /\ MaxInputs \in Nat /\ MaxSeeks \in Nat /\ MaxTicks \in Nat /\ TickMod \in Nat \ {0}
  /\ Bytes \subseteq 0..255 /\ Masks \subseteq 0..255 /\ NoKeys \in Masks
  /\ Habits \subseteq AllHabits

VARIABLES
  code,         \* the program: instruction n+1 is run at step n
  m,            \* the machine (kernel_t, CPU, tapes, BIOS), see Machines
  queue,        \* bytes pushed into the HAL and not read
  log, pos,     \* g_log, and g_replay_pos: entries before it have been applied
  images,       \* g_load_serial: the load whose image each slot holds
  loadNext,     \* g_load_next
  broken,       \* g_replay_broken
  snaps, seq,   \* g_slots, g_seq
  call,         \* the API call in progress, see Calls
  kcall,        \* the kernel_step call inside it, see KernelCalls
  held,         \* g_pending: steps whose output a replay is holding back
  inputs, seeks,  \* bookkeeping: inputs given, seeks asked for
  \* history: the inputs of this timeline, the last step the host saw it at, the
  \* steps whose output it was given, and the machine before the seek in progress
  given, reached, delivered, before

machine  == <<code, m, queue>>
loading  == <<images, loadNext>>
ring     == <<snaps, seq>>
host     == <<inputs, seeks>>
history  == <<given, reached, delivered, before>>
vars == <<machine, log, pos, loading, broken, ring, call, kcall, held, host, history>>

Steps == 0..MaxSteps
Modes == {"RUN", "IDLE", "HALT"}

\* What the program can see of a machine; prog names the loaded image.
Image(k) == [mode |-> k.mode, took |-> k.took, prog |-> k.prog]

---------------------------------------------------------------------------
(* The machine: one iteration of kernel_step.                              *)

Boot == [steps |-> 0, tick |-> 0, mode |-> "RUN", took |-> <<>>, prog |-> 0,
         keys |-> NoKeys, lastSnap |-> 0]

\* Functions of a machine k and the HAL queue q, as a pair [k, q].
Now == [k |-> m, q |-> queue]
Learn(k, what, value) == [k EXCEPT !.took = Append(@, <<what, value>>)]

\* The instruction at the machine's step, with the BIOS call it makes.
Executed(w) ==
  LET next == [w.k EXCEPT !.steps = @ + 1]
      kind == code[next.steps] IN
  [k |-> CASE kind = "CONIN" -> IF w.q = <<>> THEN [next EXCEPT !.mode = "IDLE"]
                                ELSE Learn(next, "byte", Head(w.q))
           [] kind = "CONST" -> Learn(next, "ready", IF w.q = <<>> THEN 0 ELSE 1)
           [] kind = "KEYS"  -> Learn(next, "keys", w.k.keys)
           [] kind = "HLT"   -> [next EXCEPT !.mode = "HALT"]
           [] OTHER -> next,
   q |-> IF kind = "CONIN" /\ w.q # <<>> THEN Tail(w.q) ELSE w.q]

\* A CONIN that parked the machine gets its byte.
CanWake(w) == w.k.mode = "IDLE" /\ w.q # <<>>
Woken(w) == [k |-> [Learn(w.k, "byte", Head(w.q)) EXCEPT !.mode = "RUN"], q |-> Tail(w.q)]

\* hal_con_push, kernel_set_keys, kernel_load_com: input e given to the machine.
Fed(w, e) ==
  CASE e.kind = "CON"  -> [w EXCEPT !.q = IF Len(@) < QueueCap THEN Append(@, e.value) ELSE @]
    [] e.kind = "KEYS" -> [w EXCEPT !.k.keys = e.value]
    [] e.kind = "LOAD" -> [w EXCEPT !.k.mode = "RUN", !.k.prog = e.tag + 1]

---------------------------------------------------------------------------
(* The snapshot ring.                                                      *)

Empty == [seq |-> 0, m |-> Boot]

\* snapshot_save: slot 0 keeps the first snapshot, unless this one is of the
\* same step; the other slots rotate.
SlotForRotating(k) == seq % Slots            \* mutated: no slot is reserved
SlotFor(k) == IF seq = 0 \/ snaps[0].m.steps = k.steps THEN 0 ELSE 1 + ((seq - 1) % (Slots - 1))
Save(k) == /\ snaps' = [snaps EXCEPT ![SlotFor(k)] = [seq |-> seq + 1, m |-> k]]
           /\ seq' = seq + 1

\* snapshot_find: the latest step not after the target, and of those the
\* snapshot saved last.
Usable(target) == {i \in DOMAIN snaps : snaps[i].seq # 0 /\ snaps[i].m.steps <= target}
Find(target) ==
  CHOOSE i \in Usable(target) : \A j \in Usable(target) :
    \/ snaps[j].m.steps < snaps[i].m.steps
    \/ snaps[j].m.steps = snaps[i].m.steps /\ snaps[j].seq <= snaps[i].seq

\* k_maybe_snapshot: the machine as it goes on, and the ring.
Due(k) == Interval # 0 /\ k.steps - k.lastSnap >= Interval
Marked(k) == IF Due(k) THEN [k EXCEPT !.lastSnap = k.steps] ELSE k
MaybeSave(k) == IF Due(k) THEN Save(Marked(k)) ELSE UNCHANGED ring

---------------------------------------------------------------------------
(* The input log.                                                          *)

Pending == pos < Len(log)
EntryDueStrictly(e) == e.step < m.steps      \* mutated: < for <=
EntryDue(e) == e.step <= m.steps

\* api_apply of an entry: stamp it with where it is applied, and apply it.
Stamp(e) == [e EXCEPT !.step = m.steps, !.tick = m.tick]
Recycled(e) == e.kind = "LOAD" /\ images[e.value] # e.tag
Apply(e) ==
  /\ LET w == IF Recycled(e) THEN Now ELSE Fed(Now, e) IN m' = w.k /\ queue' = w.q
  /\ broken' = (broken \/ Recycled(e))

\* tos_seek: entries baked into snapshot s.  At its own step the tick decides;
\* a load is in the anchor it left behind.
BakedByStep(e, s) == e.step <= s.steps       \* mutated: the tick is not looked at
Baked(e, s) ==
  \/ e.step < s.steps
  \/ e.step = s.steps /\ e.tick < s.tick
  \/ e.kind = "LOAD" /\ e.step = s.steps /\ e.tick = s.tick
FirstNotBaked(s) ==
  CHOOSE i \in 0..Len(log) :
    /\ \A j \in 1..i : Baked(log[j], s)
    /\ i = Len(log) \/ ~Baked(log[i + 1], s)

---------------------------------------------------------------------------
(* The host's inputs.                                                      *)

NoCall == [phase |-> "HOST", left |-> 0, target |-> 0, from |-> 0, restoring |-> FALSE,
           stuck |-> FALSE, failed |-> FALSE]
NoKernelCall == [active |-> FALSE, left |-> 0, start |-> 0, stop |-> "NONE"]

\* api_recreate, which tos_create and tos_reset call.
Init ==
  /\ code \in [1..MaxSteps -> Kinds]
  /\ m = Boot /\ queue = <<>>
  /\ log = <<>> /\ pos = 0
  /\ images = [i \in 0..(LoadSlots - 1) |-> 0] /\ loadNext = 0 /\ broken = FALSE
  /\ snaps = [i \in 0..(Slots - 1) |-> IF i = 0 THEN [seq |-> 1, m |-> Boot] ELSE Empty]
  /\ seq = 1
  /\ call = NoCall /\ kcall = NoKernelCall /\ held = {}
  /\ inputs = 0 /\ seeks = 0
  /\ given = <<>> /\ reached = 0 /\ delivered = {} /\ before = Image(Boot)

AtHost == call.phase = "HOST"

AtEnd == ~Pending /\ \A i \in DOMAIN snaps : snaps[i].m.steps <= m.steps

\* api_record_tagged, but for api_apply: an entry goes to the log, and what is
\* pending goes from it.  A full log lets the input through to the machine only.
RoomForOneMore == pos <= LogCap              \* mutated: <= for <
Room == pos < LogCap
Entry(kind, value, tag) ==
  [step |-> m.steps, tick |-> m.tick, kind |-> kind, value |-> value, tag |-> tag]
Record(e) ==
  /\ AtHost /\ Allowed("BRANCH", AtEnd)
  /\ inputs < MaxInputs /\ inputs' = inputs + 1
  /\ IF Room THEN log' = Append(SubSeq(log, 1, pos), e) /\ pos' = pos + 1
                     ELSE log' = SubSeq(log, 1, pos) /\ UNCHANGED pos
  /\ call' = NoCall
  \* history: the timeline goes on from here
  /\ given' = Append(SubSeq(given, 1, pos), e)
  /\ reached' = m.steps
  /\ delivered' = {n \in delivered : n <= m.steps}
  /\ UNCHANGED <<code, kcall, held, seeks, before>>

\* tos_con_push
ConPush(byte) ==
  /\ Allowed("TYPE_AHEAD", m.mode = "IDLE" /\ queue = <<>>)
  /\ Record(Entry("CON", byte, 0)) /\ Apply(Entry("CON", byte, 0))
  /\ UNCHANGED <<loading, ring>>

\* tos_keys_set
KeysSet(mask) ==
  /\ mask # m.keys
  /\ Record(Entry("KEYS", mask, 0)) /\ Apply(Entry("KEYS", mask, 0))
  /\ UNCHANGED <<loading, ring>>

\* tos_load_com: keep the image, load it, and anchor the loaded machine.
LoadCom ==
  /\ Allowed("LOAD_LATE", m.steps = 0) /\ Allowed("TYPE_AHEAD", queue = <<>>)
  /\ LET slot == loadNext % LoadSlots
         e == Entry("LOAD", slot, loadNext)
         k == [Fed(Now, e).k EXCEPT !.lastSnap = m.steps] IN
     /\ images' = [images EXCEPT ![slot] = loadNext]
     /\ loadNext' = loadNext + 1
     /\ Record(e)
     /\ m' = k
     /\ Save(k)
  /\ UNCHANGED <<queue, broken>>

\* tos_reset, and the levers that rebuild the machine.
Reset ==
  /\ AtHost /\ inputs < MaxInputs /\ inputs' = inputs + 1
  /\ m' = Boot /\ queue' = <<>> /\ log' = <<>> /\ pos' = 0
  /\ images' = [i \in 0..(LoadSlots - 1) |-> 0] /\ loadNext' = 0 /\ broken' = FALSE
  /\ snaps' = [i \in 0..(Slots - 1) |-> IF i = 0 THEN [seq |-> 1, m |-> Boot] ELSE Empty]
  /\ seq' = 1 /\ call' = NoCall /\ held' = {}
  /\ given' = <<>> /\ reached' = 0 /\ delivered' = {} /\ before' = Image(Boot)
  /\ UNCHANGED <<code, kcall, seeks>>

---------------------------------------------------------------------------
(* tos_step and tos_seek.                                                  *)

\* tos_step(max): loop over kernel_step, feeding back pending inputs.
StepCall(max) ==
  /\ AtHost
  /\ call' = [NoCall EXCEPT !.phase = "STEP", !.left = IF max > MaxSteps - m.steps
                                                       THEN MaxSteps - m.steps ELSE max]
  /\ m.steps < MaxSteps /\ m.tick < MaxTicks
  /\ UNCHANGED <<machine, log, pos, loading, broken, ring, kcall, held, host, history>>

\* tos_seek(target) up to its loop: take back unread bytes, restore, rewind the log.
BeginSeek(target, from, restoring) ==
  LET s == snaps[Find(target)].m IN
  /\ queue' = <<>>
  /\ m' = s
  /\ pos' = FirstNotBaked(s)
  /\ call' = [NoCall EXCEPT !.phase = "SEEK", !.target = target, !.from = from,
                            !.restoring = restoring]
  /\ broken' = FALSE /\ held' = {}
SeekCall(target) ==
  /\ AtHost /\ seeks < MaxSeeks /\ seeks' = seeks + 1
  /\ Usable(target) # {}
  /\ Allowed("SEEK_AGAIN", ~Pending)
  /\ BeginSeek(target, m.steps, FALSE)
  /\ before' = Image(m)
  /\ UNCHANGED <<code, log, loading, ring, kcall, inputs, given, reached, delivered>>

SeekGoesOn == m.steps < call.target /\ m.mode # "HALT" /\ ~call.stuck
Looping == ~kcall.active /\ (call.phase = "STEP" \/ (call.phase = "SEEK" /\ SeekGoesOn))

\* api_apply_due, one entry at a time.
ApplyDue ==
  /\ Looping /\ Pending /\ EntryDue(log[pos + 1])
  /\ log' = [log EXCEPT ![pos + 1] = Stamp(@)]
  /\ pos' = pos + 1
  /\ Apply(log[pos + 1])
  /\ UNCHANGED <<code, loading, ring, call, kcall, held, host, history>>

\* The next kernel_step: up to the next pending input, or one instruction.
Enter ==
  /\ Looping /\ ~(Pending /\ EntryDue(log[pos + 1]))
  /\ LET gap == IF Pending THEN log[pos + 1].step - m.steps ELSE call.left
         chunk == IF call.phase = "SEEK" THEN 1 ELSE IF gap < call.left THEN gap ELSE call.left IN
       kcall' = [active |-> TRUE, left |-> chunk, start |-> m.steps, stop |-> "NONE"]
  /\ UNCHANGED <<machine, log, pos, loading, broken, ring, call, held, host, history>>

---------------------------------------------------------------------------
(* kernel_step, and what the API does when it returns.                     *)

Running == kcall.active /\ kcall.stop = "NONE"
StopWith(why) == kcall' = [kcall EXCEPT !.stop = why]

\* Out of the loop without running anything.
Stop ==
  /\ Running
  /\ \/ m.mode = "HALT" /\ StopWith("HALT")
     \/ m.mode = "IDLE" /\ queue = <<>> /\ StopWith("WAIT_INPUT")
     \/ m.mode = "RUN" /\ kcall.left = 0 /\ StopWith("BUDGET")
  /\ UNCHANGED <<machine, log, pos, loading, broken, ring, call, held, host, history>>

Wake ==
  /\ Running /\ CanWake(Now)
  /\ m' = Woken(Now).k /\ queue' = Woken(Now).q
  /\ UNCHANGED <<code, log, pos, loading, broken, ring, call, kcall, held, host, history>>

\* api_con_out: during a seek, output of steps the host has seen is suppressed
\* and the rest is held until the seek is known to succeed.
SeenUpto == IF call.restoring THEN call.target ELSE call.from
EmitAtOnce(n) ==                             \* mutated: a replay does not hold output back
  /\ delivered' = IF call.phase = "SEEK" /\ n <= SeenUpto THEN delivered ELSE delivered \cup {n}
  /\ UNCHANGED held
Emit(n) ==
  IF call.phase = "STEP" THEN delivered' = delivered \cup {n} /\ UNCHANGED held
  ELSE /\ held' = IF n <= SeenUpto THEN held ELSE held \cup {n}
       /\ UNCHANGED delivered

Execute ==
  /\ Running /\ m.mode = "RUN" /\ kcall.left > 0
  /\ LET w == Executed([k |-> Marked(m), q |-> queue]) IN
       /\ m' = w.k /\ queue' = w.q
       /\ kcall' = [kcall EXCEPT !.left = @ - 1,
                                 !.stop = CASE w.k.mode = "IDLE" -> "WAIT_INPUT"
                                            [] w.k.mode = "HALT" -> "HALT"
                                            [] OTHER -> "NONE"]
       /\ IF code[w.k.steps] = "CONOUT" THEN Emit(w.k.steps) ELSE UNCHANGED <<held, delivered>>
  /\ MaybeSave(m)
  /\ UNCHANGED <<code, log, pos, loading, broken, call, host, given, reached, before>>

\* The end of kernel_step, and the test at the foot of each of the two loops.
Return ==
  /\ kcall.active /\ kcall.stop # "NONE"
  /\ LET k == [m EXCEPT !.tick = (@ + 1) % TickMod]
         ran == m.steps - kcall.start IN
       /\ m' = Marked(k)
       /\ MaybeSave(k)
       /\ IF call.phase = "STEP"
          THEN LET more == kcall.stop = "BUDGET" /\ call.left > ran /\ Pending IN
               /\ call' = [call EXCEPT !.left = @ - ran, !.phase = IF more THEN "STEP" ELSE "HOST"]
               /\ reached' = IF m.steps > reached THEN m.steps ELSE reached
          ELSE /\ call' = [call EXCEPT !.stuck = (ran = 0)]
               /\ UNCHANGED reached
  /\ kcall' = NoKernelCall
  /\ UNCHANGED <<code, queue, log, pos, loading, broken, held, host, given, delivered, before>>

\* tos_seek after its loop: deliver the output and return 0; or throw it away
\* and put the machine back.
SeekEnds == ~kcall.active /\ call.phase = "SEEK" /\ ~SeekGoesOn
Landed == m.steps = call.target /\ ~broken

SeekOk ==
  /\ SeekEnds /\ Landed
  /\ delivered' = delivered \cup held /\ held' = {}
  /\ call' = [NoCall EXCEPT !.failed = call.restoring]
  /\ reached' = IF m.steps > reached THEN m.steps ELSE reached
  /\ UNCHANGED <<machine, log, pos, loading, broken, ring, kcall, host, given, before>>

SeekBackStranded ==                          \* mutated: the machine stays where it got to
  /\ SeekEnds /\ ~Landed
  /\ held' = {} /\ call' = [NoCall EXCEPT !.failed = TRUE]
  /\ UNCHANGED <<machine, log, pos, loading, broken, ring, kcall, host, history>>
SeekBack ==
  /\ SeekEnds /\ ~Landed
  /\ IF call.restoring \/ m.steps = call.from
     THEN /\ held' = {} /\ call' = [NoCall EXCEPT !.failed = TRUE]
          /\ UNCHANGED <<m, queue, pos, broken>>
     ELSE BeginSeek(call.from, m.steps, TRUE)
  /\ UNCHANGED <<code, log, loading, ring, kcall, host, history>>

HostInput == (\E byte \in Bytes : ConPush(byte)) \/ (\E mask \in Masks : KeysSet(mask))
             \/ LoadCom \/ Reset
HostCall == (\E max \in Budgets : StepCall(max)) \/ (\E target \in Steps : SeekCall(target))
InCall == ApplyDue \/ Enter \/ Stop \/ Wake \/ Execute \/ Return \/ SeekOk \/ SeekBack

Next == HostInput \/ HostCall \/ InCall
Spec == Init /\ [][Next]_vars
FairSpec == Spec /\ WF_vars(InCall)

---------------------------------------------------------------------------
(* Properties.                                                             *)

Learnt == Seq({"byte", "ready", "keys"} \X Nat)
Machines == [steps : Steps, tick : 0..(TickMod - 1), mode : Modes, took : Learnt, prog : 0..MaxInputs,
             keys : Masks, lastSnap : Steps]
Entries == [step : Steps, tick : 0..(TickMod - 1), kind : {"CON", "KEYS", "LOAD"},
            value : 0..255, tag : 0..MaxInputs]
Calls == [phase : {"HOST", "STEP", "SEEK"}, left : Steps, target : Steps, from : Steps,
          restoring : BOOLEAN, stuck : BOOLEAN, failed : BOOLEAN]
KernelCalls == [active : BOOLEAN, left : Steps, start : Steps,
                stop : {"NONE", "BUDGET", "WAIT_INPUT", "HALT"}]

\* Every variable stays in its type, and the log and the queue in their arrays.
TypeOK ==
  /\ code \in [1..MaxSteps -> Kinds]
  /\ m \in Machines
  /\ queue \in Seq(Bytes) /\ Len(queue) <= QueueCap
  /\ log \in Seq(Entries) /\ Len(log) <= LogCap
  /\ pos \in 0..Len(log)
  /\ images \in [0..(LoadSlots - 1) -> Nat] /\ loadNext \in Nat /\ broken \in BOOLEAN
  /\ snaps \in [0..(Slots - 1) -> [seq : Nat, m : Machines]] /\ seq \in Nat
  /\ call \in Calls /\ kcall \in KernelCalls
  /\ held \subseteq Steps
  /\ inputs \in 0..MaxInputs /\ seeks \in 0..MaxSeeks
  /\ given \in Seq(Entries) /\ reached \in Steps /\ delivered \subseteq Steps

\* The reference: the machine of this timeline as it arrives at step n, before
\* the inputs the host gave there, had it run straight through with every input
\* at the step it was given at.  (A machine that parked or halted for good never
\* arrives: it stays at an earlier step.)
\* Taking is the machine w at step n as those inputs come in one by one.
Taking(w, n) ==
  LET fed[i \in 0..Len(given)] ==
        IF i = 0 THEN w
        ELSE IF given[i].step = n THEN Fed(fed[i - 1], given[i]) ELSE fed[i - 1]
  IN  fed
GoneOn(w) ==
  LET v == IF CanWake(w) THEN Woken(w) ELSE w IN
  IF v.k.mode = "RUN" THEN Executed(v) ELSE v
Straight ==
  LET arriving[n \in Steps] ==
        IF n = 0 THEN [k |-> Boot, q |-> <<>>]
        ELSE GoneOn(Taking(arriving[n - 1], n - 1)[Len(given)])
  IN  arriving

\* The images this timeline has at step n, from before its inputs to after them.
Had(n) == LET w == Straight[n] IN
  IF w.k.steps < n THEN {} ELSE {Image(Taking(w, n)[i].k) : i \in 0..Len(given)}

\* No input of this timeline was kept out of the log by its being full: such an
\* input cannot be replayed, as api_record_tagged says.
AllLogged == Len(given) = Len(log)

\* Wherever stepping, seeking and inputs have brought it, the machine the host
\* finds at step n is the one that running straight to n gives: what a snapshot
\* holds and what the log replays fit together.
TimelineFidelity == AtHost /\ AllLogged => Image(m) \in Had(m.steps)

\* A seek that returns -1 has put back the machine the caller had.
FailedSeekHarmless == AtHost /\ call.failed /\ AllLogged => Image(m) = before

\* No output comes from a step that was thrown away: what the host has been
\* given is output of steps it has seen.
OutputReal == AtHost => delivered \subseteq {n \in 1..reached : code[n] = "CONOUT"}

\* The output of every step the host has seen has reached it.
OutputDelivered == AtHost => {n \in 1..reached : code[n] = "CONOUT"} \subseteq delivered

\* Some snapshot of step 0 is in the ring whatever was saved since, so that
\* tos_seek always has one to start from.
AnchorKept == snaps[0].seq # 0 /\ snaps[0].m.steps = 0

\* tos_step and tos_seek return to the host, whatever is pending in the log,
\* and though the seek may call itself.
CallsReturn == ~AtHost ~> AtHost
=============================================================================
