---------------------------- MODULE ReplayProofs ----------------------------
(***************************************************************************)
(* Proofs about time travel.  First the snapshot ring: whatever is saved,  *)
(* and however the host steps, seeks, loads and resets, slot 0 holds a     *)
(* snapshot of step 0, so that tos_seek is never without a snapshot to     *)
(* start from.  AnchorKept is not inductive by itself: that a save leaves  *)
(* slot 0 alone rests on the ring having been written once (seq # 0) and   *)
(* on its having at least two slots (RingInv).                             *)
(* Then, for every way of using the API, the types and what the host sees: *)
(* ReplayInv adds to the ring that the budgets of the two nested loops fit *)
(* (Budgeted), and that the output the host was given, and what a seek     *)
(* holds back for it, is output of the steps it has been through (Given).  *)
(* Last, for a disciplined host, that time travel is faithful: TimeInv     *)
(* says of every part of the state - machine, queue, log, images, ring,    *)
(* call in progress - how it fits the timeline, the run straight through   *)
(* all the inputs that were given (Line).  The machine is where the        *)
(* timeline is after the entries applied (Here); what is in the ring is    *)
(* the timeline's (SnapsFit); and the ticks tell which entries a snapshot  *)
(* has in it (AnchorFits, Stamped, TickFits), so that the log rewound to   *)
(* a snapshot goes on with the entries the timeline gives it next.         *)
(***************************************************************************)
EXTENDS Replay, Induction, SequenceTheorems

\* The ring, strengthened: it has its slots, and has been written.
RingInv ==
  /\ seq \in Nat \ {0}
  /\ snaps = [i \in 0..(Slots - 1) |-> snaps[i]]
  /\ AnchorKept

\* snapshot_save writes into a slot of the ring, and into slot 0 only a snapshot
\* of the step slot 0 is of.
LEMMA SlotChoice ==
  ASSUME NEW k, RingInv
  PROVE  /\ SlotFor(k) \in 0..(Slots - 1)
         /\ SlotFor(k) = 0 => k.steps = 0
<1>1. Slots \in Nat /\ Slots >= 2 /\ seq \in Nat /\ seq >= 1
  BY ReplayAssumption DEF RingInv
<1>2. CASE snaps[0].m.steps = k.steps
  <2>1. SlotFor(k) = 0 /\ k.steps = 0
    BY <1>2 DEF SlotFor, RingInv, AnchorKept
  <2>2. QED BY <2>1, <1>1
<1>3. CASE snaps[0].m.steps # k.steps
  <2>1. SlotFor(k) = 1 + ((seq - 1) % (Slots - 1))
    BY <1>3, <1>1 DEF SlotFor
  <2>2. (seq - 1) % (Slots - 1) \in 0..(Slots - 2)
    BY <1>1
  <2>3. QED BY <2>1, <2>2, <1>1
<1>4. QED BY <1>2, <1>3

\* snapshot_save, whatever machine it is given, keeps the anchor.
LEMMA SaveKeepsRing ==
  ASSUME NEW k, RingInv, Save(k)
  PROVE  RingInv'
<1>1. Slots \in Nat /\ Slots >= 2 /\ 0 \in 0..(Slots - 1)
  BY ReplayAssumption
<1>2. SlotFor(k) \in 0..(Slots - 1) /\ (SlotFor(k) = 0 => k.steps = 0)
  BY SlotChoice
<1>3. seq' \in Nat \ {0}
  BY DEF Save, RingInv
<1>4. snaps' = [i \in 0..(Slots - 1) |->
                  IF i = SlotFor(k) THEN [seq |-> seq + 1, m |-> k] ELSE snaps[i]]
  BY <1>2 DEF Save, RingInv
<1>5. snaps' = [i \in 0..(Slots - 1) |-> snaps'[i]]
  BY <1>4
<1>6. AnchorKept'
  <2>1. CASE SlotFor(k) = 0
    <3>1. snaps'[0] = [seq |-> seq + 1, m |-> k]
      BY <1>1, <1>4, <2>1
    <3>2. seq + 1 # 0
      BY DEF RingInv
    <3>3. QED BY <1>2, <2>1, <3>1, <3>2 DEF AnchorKept
  <2>2. CASE SlotFor(k) # 0
    <3>1. snaps'[0] = snaps[0]
      BY <1>1, <1>4, <2>2
    <3>2. QED BY <3>1 DEF AnchorKept, RingInv
  <2>3. QED BY <2>1, <2>2
<1>7. QED BY <1>3, <1>5, <1>6 DEF RingInv

\* k_maybe_snapshot keeps the anchor, whether a snapshot is due or not.
LEMMA MaybeSaveKeepsRing ==
  ASSUME NEW k, RingInv, MaybeSave(k)
  PROVE  RingInv'
<1>1. CASE Due(k)
  BY <1>1, SaveKeepsRing DEF MaybeSave
<1>2. CASE ~Due(k)
  BY <1>2 DEF MaybeSave, ring, RingInv, AnchorKept
<1>3. QED BY <1>1, <1>2

\* A ring as api_recreate leaves it: the booted machine in slot 0.
LEMMA FreshRing ==
  /\ Init => RingInv
  /\ RingInv /\ Reset => RingInv'
<1>1. Slots \in Nat /\ Slots >= 2 /\ 0 \in 0..(Slots - 1)
  BY ReplayAssumption
<1>2. Boot.steps = 0
  BY DEF Boot
<1>3. Init => RingInv
  BY <1>1, <1>2 DEF Init, RingInv, AnchorKept
<1>4. RingInv /\ Reset => RingInv'
  BY <1>1, <1>2 DEF Reset, RingInv, AnchorKept
<1>5. QED BY <1>3, <1>4

\* Every step of the specification keeps the ring.
LEMMA RingStep == RingInv /\ [Next]_vars => RingInv'
<1> SUFFICES ASSUME RingInv, [Next]_vars
             PROVE  RingInv'
  OBVIOUS
<1>1. CASE UNCHANGED ring
  BY <1>1 DEF ring, RingInv, AnchorKept
<1>2. ASSUME NEW byte \in Bytes, ConPush(byte)  PROVE UNCHANGED ring
  BY <1>2 DEF ConPush, ring
<1>3. ASSUME NEW mask \in Masks, KeysSet(mask)  PROVE UNCHANGED ring
  BY <1>3 DEF KeysSet, ring
<1>4. CASE LoadCom
  <2>1. PICK k : Save(k)
    BY <1>4 DEF LoadCom
  <2>2. QED BY <2>1, SaveKeepsRing
<1>5. CASE Reset
  BY <1>5, FreshRing
<1>6. ASSUME NEW max \in Budgets, StepCall(max)  PROVE UNCHANGED ring
  BY <1>6 DEF StepCall, ring
<1>7. ASSUME NEW target \in Steps, SeekCall(target)  PROVE UNCHANGED ring
  BY <1>7 DEF SeekCall, ring
<1>8. CASE ApplyDue \/ Enter \/ Stop \/ Wake \/ SeekOk \/ SeekBack
  <2>1. UNCHANGED ring
    BY <1>8 DEF ApplyDue, Enter, Stop, Wake, SeekOk, SeekBack, ring
  <2>2. QED BY <1>1, <2>1
<1>9. CASE Execute
  BY <1>9, MaybeSaveKeepsRing DEF Execute
<1>10. CASE Return
  <2>1. PICK k : MaybeSave(k)
    BY <1>10 DEF Return
  <2>2. QED BY <2>1, MaybeSaveKeepsRing
<1>11. CASE UNCHANGED vars
  BY <1>1, <1>11 DEF vars, ring
<1>12. QED
  BY <1>1, <1>2, <1>3, <1>4, <1>5, <1>6, <1>7, <1>8, <1>9, <1>10, <1>11
  DEF Next, HostInput, HostCall, InCall

\* The anchor of step 0 survives every rotation of the ring (snapshot_save).
THEOREM AnchorSurvives == Spec => []AnchorKept
<1>1. Init => RingInv
  BY FreshRing
<1>2. RingInv /\ [Next]_vars => RingInv'
  BY RingStep
<1>3. RingInv => AnchorKept
  BY DEF RingInv
<1>4. QED BY <1>1, <1>2, <1>3, PTL DEF Spec

\* Every step the host can ask for has a snapshot at or before it.
SeekHasSnapshot == \A target \in Steps : Usable(target) # {}

\* tos_seek never fails for want of a snapshot: snapshot_find returns a slot.
THEOREM SeekNeverStarved == Spec => []SeekHasSnapshot
<1>1. RingInv => SeekHasSnapshot
  <2> SUFFICES ASSUME RingInv, NEW target \in Steps
               PROVE  0 \in Usable(target)
    BY DEF SeekHasSnapshot
  <2>1. 0 \in 0..(Slots - 1)
    BY ReplayAssumption
  <2>2. 0 \in DOMAIN snaps
    BY <2>1 DEF RingInv
  <2>3. 0 <= target
    BY ReplayAssumption DEF Steps
  <2>4. QED BY <2>2, <2>3 DEF Usable, RingInv, AnchorKept
<1>2. Init => RingInv
  BY FreshRing
<1>3. RingInv /\ [Next]_vars => RingInv'
  BY RingStep
<1>4. QED BY <1>1, <1>2, <1>3, PTL DEF Spec

(***************************************************************************)
(* Types.  That the log stays in its array, the machine in its program and *)
(* the queue in its bytes rests on what the entries of the log are, on the *)
(* budgets of the two nested calls, and on tos_seek finding a snapshot.    *)
(***************************************************************************)

\* The entries the host's inputs can make.
Inputs ==
  {e \in Entries : /\ e.kind = "CON"  => e.value \in Bytes
                   /\ e.kind = "KEYS" => e.value \in Masks
                   /\ e.kind = "LOAD" => e.tag + 1 <= MaxInputs}
Queues == {q \in Seq(Bytes) : Len(q) <= QueueCap}
Worlds == [k : Machines, q : Queues]
Codes  == [1..MaxSteps -> Kinds]

LogTyped(lg, p, giv) ==
  /\ lg \in Seq(Inputs) /\ Len(lg) <= LogCap /\ p \in 0..Len(lg)
  /\ giv \in Seq(Inputs) /\ Len(lg) <= Len(giv)
RingTyped(sn, sq) ==
  /\ sn \in [0..(Slots - 1) -> [seq : Nat, m : Machines]] /\ sq \in Nat
  /\ \A i \in 0..(Slots - 1) : sn[i].seq <= sq

Typed ==
  /\ code \in Codes /\ m \in Machines /\ queue \in Queues
  /\ LogTyped(log, pos, given)
  /\ images \in [0..(LoadSlots - 1) -> Nat] /\ loadNext \in 0..inputs /\ broken \in BOOLEAN
  /\ RingTyped(snaps, seq)
  /\ call \in Calls /\ kcall \in KernelCalls /\ held \subseteq Steps
  /\ inputs \in 0..MaxInputs /\ seeks \in 0..MaxSeeks
  /\ reached \in Steps /\ delivered \subseteq Steps

\* A kernel_step call has its share of the budget of the call of the API around it.
Budgeted ==
  /\ call.phase = "STEP" /\ ~kcall.active => m.steps + call.left <= MaxSteps
  /\ kcall.active =>
       /\ call.phase # "HOST" /\ kcall.start <= m.steps /\ m.steps + kcall.left <= MaxSteps
       /\ call.phase = "STEP" => /\ kcall.start + call.left <= MaxSteps
                                 /\ (m.steps - kcall.start) + kcall.left <= call.left

\* The steps up to n that put a byte out.
Outputs(prog, n) == {i \in 1..n : prog[i] = "CONOUT"}

\* The step the host sees the machine at: it follows tos_step, and tos_seek when it returns.
Seen == IF call.phase = "STEP" /\ m.steps > reached THEN m.steps ELSE reached
Given ==
  /\ delivered \subseteq Outputs(code, Seen)
  /\ call.phase = "SEEK" => held \subseteq Outputs(code, m.steps)

ReplayInv == RingInv /\ Typed /\ Budgeted /\ Given

---------------------------------------------------------------------------
(* The machine.                                                            *)

LEMMA Bounds ==
  /\ MaxSteps \in Nat /\ 0 \in Steps /\ Steps \subseteq Nat
  /\ \A s \in Nat : s <= MaxSteps => s \in Steps
  /\ TickMod \in Nat \ {0} /\ 0 \in 0..(TickMod - 1) /\ MaxInputs \in Nat
  /\ Bytes \subseteq 0..255 /\ Masks \subseteq 0..255 /\ Kinds \subseteq AllKinds
  /\ NoKeys \in Masks /\ QueueCap \in Nat \ {0}
  /\ Slots \in Nat /\ Slots >= 2
BY ReplayAssumption DEF Steps

LEMMA BootType == Boot \in Machines /\ Boot.steps = 0
<1>1. << >> \in Learnt
  BY EmptySeq DEF Learnt
<1> HIDE DEF Learnt
<1> QED BY <1>1, Bounds DEF Boot, Machines, Modes

\* Changing one field of a machine.
LEMMA MachineFields ==
  ASSUME NEW k \in Machines
  PROVE  /\ k.steps \in Nat /\ k.steps <= MaxSteps
         /\ \A s \in Steps : LET j == [k EXCEPT !.steps = s]
              IN j \in Machines /\ j.steps = s /\ j.mode = k.mode
         /\ \A x \in Modes : LET j == [k EXCEPT !.mode = x]
              IN j \in Machines /\ j.steps = k.steps /\ j.mode = x
         /\ \A x \in Masks : LET j == [k EXCEPT !.keys = x]
              IN j \in Machines /\ j.steps = k.steps
         /\ \A x \in 0..MaxInputs : LET j == [k EXCEPT !.prog = x]
              IN j \in Machines /\ j.steps = k.steps
         /\ \A x \in Steps : LET j == [k EXCEPT !.lastSnap = x]
              IN j \in Machines /\ j.steps = k.steps /\ j.mode = k.mode
         /\ \A x \in 0..(TickMod - 1) : LET j == [k EXCEPT !.tick = x]
              IN j \in Machines /\ j.steps = k.steps
         /\ \A x \in Learnt : LET j == [k EXCEPT !.took = x]
              IN j \in Machines /\ j.steps = k.steps
<1> HIDE DEF Learnt
<1>1. k.steps \in Nat /\ k.steps <= MaxSteps
  BY Bounds DEF Machines, Steps
<1> QED BY <1>1 DEF Machines

LEMMA LearnType ==
  ASSUME NEW k \in Machines, NEW what \in {"byte", "ready", "keys"}, NEW value \in Nat
  PROVE  Learn(k, what, value) \in Machines /\ Learn(k, what, value).steps = k.steps
<1> DEFINE T == {"byte", "ready", "keys"} \X Nat
           took == Append(k.took, <<what, value>>)
<1>1. k.took \in Seq(T)
  BY DEF Machines, Learnt
<1>2. <<what, value>> \in T
  OBVIOUS
<1> HIDE DEF T
<1>3. took \in Seq(T)
  BY <1>1, <1>2, AppendProperties
<1>4. took \in Learnt
  BY <1>3 DEF Learnt, T
<1> HIDE DEF took
<1>5. Learn(k, what, value) = [k EXCEPT !.took = took]
  BY DEF Learn, took
<1> QED BY <1>4, <1>5, MachineFields

LEMMA QueueTail ==
  ASSUME NEW q \in Queues, q # << >>
  PROVE  Head(q) \in Bytes /\ Head(q) \in Nat /\ Tail(q) \in Queues
<1>1. q \in Seq(Bytes) /\ Len(q) <= QueueCap /\ Len(q) \in Nat
  BY LenProperties DEF Queues
<1>2. Head(q) \in Bytes /\ Tail(q) \in Seq(Bytes) /\ Len(Tail(q)) = Len(q) - 1
  BY <1>1, HeadTailProperties
<1>3. Head(q) \in Nat
  <2>1. \A b \in Bytes : b \in Nat
    BY ReplayAssumption
  <2> QED BY <1>2, <2>1
<1>4. Len(Tail(q)) <= QueueCap
  BY <1>1, <1>2, Bounds
<1>5. Tail(q) \in Queues
  <2> DEFINE t == Tail(q)
  <2>1. t \in Seq(Bytes) /\ Len(t) <= QueueCap
    BY <1>2, <1>4
  <2> HIDE DEF t
  <2>2. t \in Queues
    BY <2>1 DEF Queues
  <2> QED BY <2>2 DEF t
<1> QED BY <1>2, <1>3, <1>5

LEMMA ExecutedType ==
  ASSUME code \in Codes, NEW w \in Worlds, w.k.steps + 1 <= MaxSteps
  PROVE  /\ Executed(w).k \in Machines /\ Executed(w).q \in Queues
         /\ Executed(w).k.steps = w.k.steps + 1
<1> DEFINE next == [w.k EXCEPT !.steps = @ + 1]
           kind == code[next.steps]
           k == CASE kind = "CONIN" -> IF w.q = <<>> THEN [next EXCEPT !.mode = "IDLE"]
                                       ELSE Learn(next, "byte", Head(w.q))
                  [] kind = "CONST" -> Learn(next, "ready", IF w.q = <<>> THEN 0 ELSE 1)
                  [] kind = "KEYS"  -> Learn(next, "keys", w.k.keys)
                  [] kind = "HLT"   -> [next EXCEPT !.mode = "HALT"]
                  [] OTHER -> next
           q == IF kind = "CONIN" /\ w.q # <<>> THEN Tail(w.q) ELSE w.q
<1>1. Executed(w) = [k |-> k, q |-> q]
  BY DEF Executed
<1>2. w.k \in Machines /\ w.q \in Queues
  BY DEF Worlds
<1>3. next \in Machines /\ next.steps = w.k.steps + 1
  <2>1. w.k.steps + 1 \in Steps
    BY <1>2, MachineFields, Bounds
  <2> QED BY <1>2, <2>1, MachineFields
<1>4. w.k.keys \in Nat
  <2>1. w.k.keys \in Masks
    BY <1>2 DEF Machines
  <2>2. \A x \in Masks : x \in 0..255
    BY ReplayAssumption
  <2> QED BY <2>1, <2>2
<1> HIDE DEF next
<1>5. k \in Machines /\ k.steps = next.steps
  <2>1. "IDLE" \in Modes /\ "HALT" \in Modes
    BY DEF Modes
  <2> HIDE DEF kind
  <2>2. CASE kind = "CONIN" /\ w.q = << >>
    BY <1>3, <2>1, <2>2, MachineFields
  <2>3. CASE kind = "CONIN" /\ w.q # << >>
    <3>1. Head(w.q) \in Nat
      BY <1>2, <2>3, QueueTail
    <3> QED BY <1>3, <2>3, <3>1, LearnType
  <2>4. CASE kind = "CONST"
    BY <1>3, <2>4, LearnType
  <2>5. CASE kind = "KEYS"
    BY <1>3, <1>4, <2>5, LearnType
  <2>6. CASE kind = "HLT"
    BY <1>3, <2>1, <2>6, MachineFields
  <2>7. CASE kind \notin {"CONIN", "CONST", "KEYS", "HLT"}
    BY <1>3, <2>7
  <2> QED BY <2>2, <2>3, <2>4, <2>5, <2>6, <2>7
<1>6. q \in Queues
  BY <1>2, QueueTail
<1> HIDE DEF k, q
<1> QED BY <1>1, <1>3, <1>5, <1>6

LEMMA WokenType ==
  ASSUME NEW w \in Worlds, w.q # << >>
  PROVE  Woken(w).k \in Machines /\ Woken(w).q \in Queues /\ Woken(w).k.steps = w.k.steps
<1>1. w.k \in Machines /\ Head(w.q) \in Nat /\ Tail(w.q) \in Queues
  BY QueueTail DEF Worlds
<1> DEFINE k == Learn(w.k, "byte", Head(w.q))
<1>2. k \in Machines /\ k.steps = w.k.steps
  BY <1>1, LearnType
<1>3. Woken(w).k = [k EXCEPT !.mode = "RUN"] /\ Woken(w).q = Tail(w.q)
  BY DEF Woken
<1> HIDE DEF k
<1>4. "RUN" \in Modes
  BY DEF Modes
<1> QED BY <1>1, <1>2, <1>3, <1>4, MachineFields

LEMMA FedType ==
  ASSUME NEW w \in Worlds, NEW e \in Inputs
  PROVE  Fed(w, e).k \in Machines /\ Fed(w, e).q \in Queues /\ Fed(w, e).k.steps = w.k.steps
<1>1. w.k \in Machines /\ w.q \in Queues /\ w.q \in Seq(Bytes) /\ Len(w.q) \in Nat
  BY LenProperties DEF Worlds, Queues
<1>2. /\ e.kind \in {"CON", "KEYS", "LOAD"} /\ e.tag \in 0..MaxInputs
      /\ e.kind = "CON"  => e.value \in Bytes
      /\ e.kind = "KEYS" => e.value \in Masks
      /\ e.kind = "LOAD" => e.tag + 1 <= MaxInputs
  BY DEF Inputs, Entries
<1>3. CASE e.kind = "CON"
  <2> DEFINE q == IF Len(w.q) < QueueCap THEN Append(w.q, e.value) ELSE w.q
  <2>1. Fed(w, e) = [w EXCEPT !.q = q]
    BY <1>3 DEF Fed
  <2>2. Append(w.q, e.value) \in Seq(Bytes) /\ Len(Append(w.q, e.value)) = Len(w.q) + 1
    BY <1>1, <1>2, <1>3, AppendProperties
  <2>3. q \in Queues
    BY <1>1, <2>2, Bounds DEF Queues
  <2> HIDE DEF q
  <2>4. Fed(w, e).k = w.k /\ Fed(w, e).q = q
    BY <2>1 DEF Worlds
  <2> QED BY <1>1, <2>3, <2>4
<1>4. CASE e.kind = "KEYS"
  <2>1. Fed(w, e) = [w EXCEPT !.k.keys = e.value]
    BY <1>4 DEF Fed
  <2>2. Fed(w, e).k = [w.k EXCEPT !.keys = e.value] /\ Fed(w, e).q = w.q
    BY <2>1 DEF Worlds
  <2> QED BY <1>1, <1>2, <1>4, <2>2, MachineFields
<1>5. CASE e.kind = "LOAD"
  <2>1. Fed(w, e) = [w EXCEPT !.k.mode = "RUN", !.k.prog = e.tag + 1]
    BY <1>5 DEF Fed
  <2> DEFINE run == [w.k EXCEPT !.mode = "RUN"]
  <2>2. Fed(w, e).k = [run EXCEPT !.prog = e.tag + 1] /\ Fed(w, e).q = w.q
    BY <2>1 DEF Worlds
  <2>3. "RUN" \in Modes /\ e.tag + 1 \in 0..MaxInputs
    BY <1>2, <1>5, Bounds DEF Modes
  <2>4. run \in Machines /\ run.steps = w.k.steps
    BY <1>1, <2>3, MachineFields
  <2> HIDE DEF run
  <2> QED BY <1>1, <2>2, <2>3, <2>4, MachineFields
<1> QED BY <1>2, <1>3, <1>4, <1>5

---------------------------------------------------------------------------
(* The ring and the log.                                                   *)

LEMMA MarkedType ==
  ASSUME NEW k \in Machines
  PROVE  Marked(k) \in Machines /\ Marked(k).steps = k.steps /\ Marked(k).mode = k.mode
<1>1. k.steps \in Steps
  BY DEF Machines
<1> QED BY <1>1, MachineFields DEF Marked

LEMMA SaveType ==
  ASSUME NEW k \in Machines, RingInv, RingTyped(snaps, seq), Save(k)
  PROVE  RingTyped(snaps', seq')
<1> DEFINE new == [seq |-> seq + 1, m |-> k]
           at == SlotFor(k)
<1>1. seq \in Nat /\ snaps \in [0..(Slots - 1) -> [seq : Nat, m : Machines]]
      /\ \A i \in 0..(Slots - 1) : snaps[i].seq <= seq
  BY DEF RingTyped
<1>2. at \in 0..(Slots - 1)
  BY SlotChoice
<1>3. snaps' = [snaps EXCEPT ![at] = new] /\ seq' = seq + 1
  BY DEF Save
<1>4. new \in [seq : Nat, m : Machines] /\ new.seq = seq + 1
  BY <1>1
<1> HIDE DEF new, at
<1>5. snaps' \in [0..(Slots - 1) -> [seq : Nat, m : Machines]]
  BY <1>1, <1>2, <1>3, <1>4
<1>6. ASSUME NEW i \in 0..(Slots - 1) PROVE snaps'[i].seq <= seq'
  <2>1. snaps'[i] = IF i = at THEN new ELSE snaps[i]
    BY <1>1, <1>2, <1>3
  <2>2. snaps[i].seq \in Nat /\ snaps[i].seq <= seq
    BY <1>1
  <2> QED BY <1>1, <1>3, <1>4, <2>1, <2>2
<1> QED BY <1>1, <1>3, <1>5, <1>6 DEF RingTyped

LEMMA MaybeSaveType ==
  ASSUME NEW k \in Machines, RingInv, RingTyped(snaps, seq), MaybeSave(k)
  PROVE  RingTyped(snaps', seq')
<1>1. CASE Due(k)
  BY <1>1, MarkedType, SaveType DEF MaybeSave
<1>2. CASE ~Due(k)
  BY <1>2 DEF MaybeSave, ring
<1> QED BY <1>1, <1>2

\* snapshot_find returns a machine of the ring: of the steps up to the target the greatest is
\* there, and of its snapshots the one saved last.
LEMMA FindType ==
  ASSUME RingInv, RingTyped(snaps, seq), NEW target \in Steps
  PROVE  /\ snaps[Find(target)].m \in Machines /\ snaps[Find(target)].m.steps <= target
         /\ Find(target) \in Usable(target)
         /\ \A j \in Usable(target) :
              \/ snaps[j].m.steps < snaps[Find(target)].m.steps
              \/ snaps[j].m.steps = snaps[Find(target)].m.steps /\ snaps[j].seq <= snaps[Find(target)].seq
<1> DEFINE U == Usable(target)
           steps == {snaps[i].m.steps : i \in U}
<1>1. /\ snaps \in [0..(Slots - 1) -> [seq : Nat, m : Machines]] /\ seq \in Nat
      /\ \A i \in 0..(Slots - 1) : snaps[i].seq <= seq
  BY DEF RingTyped
<1>2. \A i \in U : /\ i \in 0..(Slots - 1) /\ snaps[i].seq \in Nat /\ snaps[i].seq <= seq
                   /\ snaps[i].m \in Machines /\ snaps[i].m.steps \in Nat
                   /\ snaps[i].m.steps <= target
  BY <1>1, MachineFields DEF Usable
<1>3. target \in Nat /\ U # {}
  <2>1. target \in Nat /\ 0 <= target
    BY Bounds
  <2>2. 0 \in 0..(Slots - 1)
    BY Bounds
  <2>3. 0 \in U
    BY <1>1, <2>1, <2>2 DEF Usable, RingInv, AnchorKept
  <2> QED BY <2>1, <2>3
<1> HIDE DEF U
<1>4. PICK b \in steps : \A c \in steps : c <= b
  <2>1. steps \subseteq Nat /\ steps # {} /\ \A c \in steps : c <= target
    BY <1>2, <1>3
  <2> QED BY <1>3, <2>1, NatMaximum
<1> DEFINE V == {i \in U : snaps[i].m.steps = b}
           seqs == {snaps[i].seq : i \in V}
<1>5. V # {} /\ V \subseteq U
  BY <1>4
<1> HIDE DEF V
<1>6. PICK q \in seqs : \A c \in seqs : c <= q
  <2>1. seqs \subseteq Nat /\ seqs # {} /\ \A c \in seqs : c <= seq
    BY <1>2, <1>5
  <2> QED BY <1>1, <2>1, NatMaximum
<1>7. PICK i \in V : snaps[i].seq = q
  BY <1>6
<1>8. i \in U /\ snaps[i].m.steps = b
  BY <1>7 DEF V
<1>9. ASSUME NEW j \in U
      PROVE  \/ snaps[j].m.steps < snaps[i].m.steps
             \/ snaps[j].m.steps = snaps[i].m.steps /\ snaps[j].seq <= snaps[i].seq
  <2>1. snaps[j].m.steps <= b /\ snaps[j].m.steps \in Nat /\ b \in Nat
    BY <1>2, <1>4, <1>8
  <2>2. CASE snaps[j].m.steps = b
    <3>1. j \in V
      BY <2>2 DEF V
    <3>2. snaps[j].seq <= q
      BY <1>6, <3>1
    <3> QED BY <1>7, <1>8, <2>2, <3>2
  <2>3. CASE snaps[j].m.steps # b
    BY <1>8, <2>1, <2>3
  <2> QED BY <2>2, <2>3
<1> DEFINE Last(i0) == \A j \in U : \/ snaps[j].m.steps < snaps[i0].m.steps
                                    \/ snaps[j].m.steps = snaps[i0].m.steps /\ snaps[j].seq <= snaps[i0].seq
<1>10. Find(target) = CHOOSE x \in U : Last(x)
  BY DEF Find, U
<1>11. i \in U /\ Last(i)
  BY <1>8, <1>9
<1>12. Find(target) \in U /\ Last(Find(target))
  <2> HIDE DEF Last
  <2> QED BY <1>10, <1>11
<1> QED BY <1>2, <1>12 DEF U

\* The log is rewound to a place in it.
LEMMA RewindType ==
  ASSUME LogTyped(log, pos, given), NEW s
  PROVE  /\ FirstNotBaked(s) \in 0..Len(log)
         /\ \A j \in 1..FirstNotBaked(s) : Baked(log[j], s)
         /\ FirstNotBaked(s) = Len(log) \/ ~Baked(log[FirstNotBaked(s) + 1], s)
<1> DEFINE S == {i \in 0..Len(log) : i = Len(log) \/ ~Baked(log[i + 1], s)}
<1>1. Len(log) \in Nat
  BY LenProperties DEF LogTyped
<1>2. S \subseteq Nat /\ S # {}
  BY <1>1
<1>3. PICK i \in S : \A j \in S : i <= j
  BY <1>2, NatMinimum
<1>4. i \in 0..Len(log) /\ (i = Len(log) \/ ~Baked(log[i + 1], s))
  BY <1>3
<1>5. ASSUME NEW j \in 1..i PROVE Baked(log[j], s)
  <2>1. j - 1 \in 0..Len(log) /\ j - 1 # Len(log) /\ (j - 1) + 1 = j /\ ~(i <= j - 1)
    BY <1>1, <1>4
  <2>2. j - 1 \notin S
    BY <1>3, <2>1
  <2> QED BY <2>1, <2>2
<1> DEFINE First(x) == (\A j \in 1..x : Baked(log[j], s)) /\ (x = Len(log) \/ ~Baked(log[x + 1], s))
<1>6. FirstNotBaked(s) = CHOOSE x \in 0..Len(log) : First(x)
  BY DEF FirstNotBaked
<1>7. i \in 0..Len(log) /\ First(i)
  BY <1>4, <1>5
<1>8. FirstNotBaked(s) \in 0..Len(log) /\ First(FirstNotBaked(s))
  <2> HIDE DEF First
  <2> QED BY <1>6, <1>7
<1> QED BY <1>8

\* The next entry, and the machine after it.
LEMMA NextEntry ==
  ASSUME LogTyped(log, pos, given), Pending
  PROVE  pos + 1 \in 1..Len(log) /\ log[pos + 1] \in Inputs /\ log[pos + 1].step \in Steps
<1>1. Len(log) \in Nat /\ log \in Seq(Inputs) /\ pos + 1 \in 1..Len(log)
  BY LenProperties DEF LogTyped, Pending
<1>2. log[pos + 1] \in Inputs
  BY <1>1, ElementOfSeq
<1> QED BY <1>1, <1>2 DEF Inputs, Entries

LEMMA ApplyType ==
  ASSUME m \in Machines, queue \in Queues, broken \in BOOLEAN, NEW e \in Inputs, Apply(e)
  PROVE  m' \in Machines /\ m'.steps = m.steps /\ queue' \in Queues /\ broken' \in BOOLEAN
<1>1. Now \in Worlds /\ Now.k = m /\ Now.q = queue
  BY DEF Now, Worlds
<1>2. /\ m' = (IF Recycled(e) THEN Now ELSE Fed(Now, e)).k
      /\ queue' = (IF Recycled(e) THEN Now ELSE Fed(Now, e)).q
      /\ broken' = (broken \/ Recycled(e))
  BY DEF Apply
<1>3. Fed(Now, e).k \in Machines /\ Fed(Now, e).q \in Queues /\ Fed(Now, e).k.steps = m.steps
  BY <1>1, FedType
<1> QED BY <1>1, <1>2, <1>3

\* Stamping an entry where it is applied leaves it an input.
LEMMA StampType ==
  ASSUME m \in Machines, NEW e \in Inputs
  PROVE  Stamp(e) \in Inputs
<1>1. m.steps \in Steps /\ m.tick \in 0..(TickMod - 1)
  BY DEF Machines
<1> DEFINE f == [e EXCEPT !.step = m.steps]
<1>2. f \in Entries /\ f.kind = e.kind /\ f.value = e.value /\ f.tag = e.tag
  BY <1>1 DEF Inputs, Entries
<1>3. Stamp(e) = [f EXCEPT !.tick = m.tick]
  BY DEF Stamp
<1> HIDE DEF f
<1>4. Stamp(e) \in Entries /\ Stamp(e).kind = e.kind /\ Stamp(e).value = e.value
      /\ Stamp(e).tag = e.tag
  BY <1>1, <1>2, <1>3 DEF Entries
<1> QED BY <1>4 DEF Inputs

LEMMA EntryType ==
  ASSUME m \in Machines, NEW kind \in {"CON", "KEYS", "LOAD"}, NEW value \in 0..255,
         NEW tag \in 0..MaxInputs,
         kind = "CON" => value \in Bytes, kind = "KEYS" => value \in Masks,
         kind = "LOAD" => tag + 1 <= MaxInputs
  PROVE  Entry(kind, value, tag) \in Inputs
<1>1. m.steps \in Steps /\ m.tick \in 0..(TickMod - 1)
  BY DEF Machines
<1>2. Entry(kind, value, tag) \in Entries
  BY <1>1 DEF Entry, Entries
<1>3. Entry(kind, value, tag).kind = kind /\ Entry(kind, value, tag).value = value
      /\ Entry(kind, value, tag).tag = tag
  BY DEF Entry
<1> QED BY <1>2, <1>3 DEF Inputs

LEMMA LogIs ==
  ASSUME NEW lg \in Seq(Inputs), NEW giv \in Seq(Inputs), NEW p \in Nat,
         p <= Len(lg), Len(lg) <= LogCap, Len(lg) <= Len(giv)
  PROVE  LogTyped(lg, p, giv)
<1>1. Len(lg) \in Nat
  BY LenProperties
<1>2. p \in 0..Len(lg)
  BY <1>1
<1> QED BY <1>2 DEF LogTyped

\* What recording an input does to the log, whether there is room for it or not.
LEMMA RecordType ==
  ASSUME m \in Machines, LogTyped(log, pos, given), inputs \in 0..MaxInputs,
         NEW e \in Inputs, Record(e)
  PROVE  /\ LogTyped(log', pos', given') /\ inputs' \in 0..MaxInputs /\ inputs' = inputs + 1
         /\ call' = NoCall /\ reached' = m.steps /\ delivered' = {n \in delivered : n <= m.steps}
<1>1. /\ inputs < MaxInputs /\ inputs' = inputs + 1 /\ call' = NoCall
      /\ IF Room THEN log' = Append(SubSeq(log, 1, pos), e) /\ pos' = pos + 1
                 ELSE log' = SubSeq(log, 1, pos) /\ pos' = pos
      /\ given' = Append(SubSeq(given, 1, pos), e)
      /\ reached' = m.steps /\ delivered' = {n \in delivered : n <= m.steps}
  BY DEF Record
<1>2. /\ log \in Seq(Inputs) /\ given \in Seq(Inputs) /\ Len(log) \in Nat /\ Len(given) \in Nat
      /\ pos \in Nat /\ pos <= Len(log) /\ Len(log) <= Len(given) /\ Len(log) <= LogCap
      /\ LogCap \in Nat
  BY LenProperties, ReplayAssumption DEF LogTyped
<1> DEFINE old == SubSeq(log, 1, pos)
           was == SubSeq(given, 1, pos)
<1>3. old \in Seq(Inputs) /\ Len(old) = pos
  <2>1. \A i \in 1..pos : log[i] \in Inputs
    BY <1>2, ElementOfSeq
  <2> QED BY <1>2, <2>1, SubSeqProperties
<1>4. was \in Seq(Inputs) /\ Len(was) = pos
  <2>1. \A i \in 1..pos : given[i] \in Inputs
    BY <1>2, ElementOfSeq
  <2> QED BY <1>2, <2>1, SubSeqProperties
<1> HIDE DEF old, was
<1>5. /\ Append(old, e) \in Seq(Inputs) /\ Len(Append(old, e)) = pos + 1
      /\ Append(was, e) \in Seq(Inputs) /\ Len(Append(was, e)) = pos + 1
  BY <1>3, <1>4, AppendProperties
<1>6. given' \in Seq(Inputs) /\ Len(given') = pos + 1
  BY <1>1, <1>5 DEF was
<1>7. ASSUME Room PROVE LogTyped(log', pos', given')
  <2>1. log' = Append(old, e) /\ pos' = pos + 1 /\ pos < LogCap
    BY <1>1, <1>7 DEF old, Room
  <2>2. log' \in Seq(Inputs) /\ Len(log') = pos + 1
    BY <1>5, <2>1
  <2>3. pos + 1 \in Nat /\ pos + 1 <= LogCap
    BY <1>2, <2>1
  <2> DEFINE p == pos + 1
  <2>4. p \in Nat /\ p <= Len(log') /\ Len(log') <= LogCap /\ Len(log') <= Len(given')
    BY <1>6, <2>2, <2>3
  <2>5. pos' = p
    BY <2>1
  <2> HIDE DEF p
  <2> QED BY <1>6, <2>2, <2>4, <2>5, LogIs
<1>8. ASSUME ~Room PROVE LogTyped(log', pos', given')
  <2>1. log' \in Seq(Inputs) /\ Len(log') = pos /\ pos' = pos
    BY <1>1, <1>3, <1>8 DEF old
  <2>2. pos <= LogCap /\ pos <= pos + 1
    BY <1>2
  <2> QED BY <1>2, <1>6, <2>1, <2>2, LogIs
<1>9. inputs' \in 0..MaxInputs
  BY <1>1, ReplayAssumption
<1> QED BY <1>1, <1>7, <1>8, <1>9

---------------------------------------------------------------------------
(* The calls.                                                              *)

LEMMA NoCalls ==
  /\ NoCall \in Calls /\ NoCall.phase = "HOST"
  /\ NoKernelCall \in KernelCalls /\ NoKernelCall.active = FALSE
BY Bounds DEF NoCall, Calls, NoKernelCall, KernelCalls

LEMMA StepCallType ==
  ASSUME NEW n \in Steps
  PROVE  LET c == [NoCall EXCEPT !.phase = "STEP", !.left = n]
         IN  c \in Calls /\ c.phase = "STEP" /\ c.left = n
<1> DEFINE c == [NoCall EXCEPT !.phase = "STEP"]
<1>1. c \in Calls /\ c.phase = "STEP"
  BY NoCalls DEF Calls
<1> HIDE DEF c
<1>2. LET d == [c EXCEPT !.left = n] IN d \in Calls /\ d.phase = "STEP" /\ d.left = n
  BY <1>1 DEF Calls
<1> QED BY <1>2 DEF c

LEMMA SeekCallType ==
  ASSUME NEW target \in Steps, NEW from \in Steps, NEW restoring \in BOOLEAN, NEW c,
         c = [NoCall EXCEPT !.phase = "SEEK", !.target = target, !.from = from,
                            !.restoring = restoring]
  PROVE  c \in Calls /\ c.phase = "SEEK"
<1> DEFINE c1 == [NoCall EXCEPT !.phase = "SEEK"]
           c2 == [c1 EXCEPT !.target = target]
           c3 == [c2 EXCEPT !.from = from]
           c4 == [c3 EXCEPT !.restoring = restoring]
<1>0. c = c4
  OBVIOUS
<1>1. c1 \in Calls /\ c1.phase = "SEEK"
  BY NoCalls DEF Calls
<1> HIDE DEF c1
<1>2. c2 \in Calls /\ c2.phase = "SEEK"
  BY <1>1 DEF Calls
<1> HIDE DEF c2
<1>3. c3 \in Calls /\ c3.phase = "SEEK"
  BY <1>2 DEF Calls
<1> HIDE DEF c3
<1>4. c4 \in Calls /\ c4.phase = "SEEK"
  BY <1>3 DEF Calls
<1> QED BY <1>0, <1>4

LEMMA FailedCallType ==
  ASSUME NEW failed \in BOOLEAN
  PROVE  LET c == [NoCall EXCEPT !.failed = failed] IN c \in Calls /\ c.phase = "HOST"
BY NoCalls DEF Calls

\* Where tos_seek starts from.
LEMMA BeginSeekType ==
  ASSUME RingInv, RingTyped(snaps, seq), LogTyped(log, pos, given),
         NEW target \in Steps, NEW from \in Steps, NEW restoring \in BOOLEAN,
         BeginSeek(target, from, restoring)
  PROVE  /\ m' \in Machines /\ queue' \in Queues /\ LogTyped(log, pos', given)
         /\ call' \in Calls /\ call'.phase = "SEEK" /\ broken' = FALSE /\ held' = {}
<1>1. /\ queue' = << >> /\ m' = snaps[Find(target)].m /\ broken' = FALSE /\ held' = {}
      /\ pos' = FirstNotBaked(snaps[Find(target)].m)
      /\ call' = [NoCall EXCEPT !.phase = "SEEK", !.target = target, !.from = from,
                                !.restoring = restoring]
  BY DEF BeginSeek
<1>2. m' \in Machines
  BY <1>1, FindType
<1>3. queue' \in Queues
  BY <1>1, EmptySeq, Bounds DEF Queues
<1>4. pos' \in 0..Len(log)
  BY <1>1, RewindType
<1>5. LogTyped(log, pos', given)
  BY <1>4 DEF LogTyped
<1>6. call' \in Calls /\ call'.phase = "SEEK"
  BY <1>1, SeekCallType
<1>7. broken' = FALSE /\ held' = {}
  BY <1>1
<1> QED BY <1>2, <1>3, <1>5, <1>6, <1>7

\* What recording an input through the API does besides.
LEMMA LoadComType ==
  ASSUME RingInv, Typed, LoadCom
  PROVE  /\ m' \in Machines /\ m'.steps = m.steps /\ RingTyped(snaps', seq')
         /\ LogTyped(log', pos', given') /\ inputs' \in 0..MaxInputs
         /\ images' \in [0..(LoadSlots - 1) -> Nat] /\ loadNext' \in 0..inputs'
         /\ call' = NoCall /\ reached' = m.steps /\ delivered' = {n \in delivered : n <= m.steps}
         /\ UNCHANGED <<code, queue, broken, kcall, held, seeks>>
<1> DEFINE slot == loadNext % LoadSlots
           e == Entry("LOAD", slot, loadNext)
           fed == Fed(Now, e).k
           k == [fed EXCEPT !.lastSnap = m.steps]
<1>1. /\ images' = [images EXCEPT ![slot] = loadNext] /\ loadNext' = loadNext + 1
      /\ Record(e) /\ m' = k /\ Save(k) /\ UNCHANGED <<queue, broken>>
  BY DEF LoadCom
<1>2. /\ m \in Machines /\ queue \in Queues /\ LogTyped(log, pos, given)
      /\ images \in [0..(LoadSlots - 1) -> Nat] /\ loadNext \in 0..inputs
      /\ inputs \in 0..MaxInputs /\ RingTyped(snaps, seq)
  BY DEF Typed
<1>3. LoadSlots \in 1..256 /\ MaxInputs \in Nat /\ loadNext \in Nat /\ inputs \in Nat
  BY <1>2, ReplayAssumption
<1>4. slot \in 0..(LoadSlots - 1)
  BY <1>3
<1> HIDE DEF slot
<1>5. inputs < MaxInputs
  BY <1>1 DEF Record
<1>6. slot \in 0..255 /\ loadNext \in 0..MaxInputs /\ loadNext + 1 <= MaxInputs
  BY <1>2, <1>3, <1>4, <1>5
<1>7. e \in Inputs
  BY <1>2, <1>6, EntryType
<1> HIDE DEF e
<1>8. Now \in Worlds /\ Now.k = m
  BY <1>2 DEF Now, Worlds
<1>9. fed \in Machines /\ fed.steps = m.steps
  BY <1>7, <1>8, FedType
<1> HIDE DEF fed
<1>10. k \in Machines /\ k.steps = m.steps
  <2>1. m.steps \in Steps
    BY <1>2 DEF Machines
  <2> QED BY <1>9, <2>1, MachineFields
<1> HIDE DEF k
<1>11. RingTyped(snaps', seq')
  BY <1>1, <1>2, <1>10, SaveType
<1>12. /\ LogTyped(log', pos', given') /\ inputs' \in 0..MaxInputs /\ inputs' = inputs + 1
       /\ call' = NoCall /\ reached' = m.steps /\ delivered' = {n \in delivered : n <= m.steps}
  BY <1>1, <1>2, <1>7, RecordType
<1>13. images' \in [0..(LoadSlots - 1) -> Nat]
  BY <1>1, <1>2, <1>3, <1>4
<1>14. loadNext' \in 0..inputs'
  BY <1>1, <1>2, <1>3, <1>12
<1>15. UNCHANGED <<code, kcall, held, seeks>>
  BY <1>1 DEF Record
<1> QED BY <1>1, <1>10, <1>11, <1>12, <1>13, <1>14, <1>15

LEMMA InputType ==
  ASSUME Typed, \/ \E byte \in Bytes : ConPush(byte)
                \/ \E mask \in Masks : KeysSet(mask)
  PROVE  /\ m' \in Machines /\ m'.steps = m.steps /\ queue' \in Queues /\ broken' \in BOOLEAN
         /\ LogTyped(log', pos', given') /\ inputs' \in 0..MaxInputs /\ inputs' = inputs + 1
         /\ call' = NoCall /\ reached' = m.steps /\ delivered' = {n \in delivered : n <= m.steps}
         /\ UNCHANGED <<code, images, loadNext, snaps, seq, kcall, held, seeks>>
<1>1. PICK e \in Inputs : Record(e) /\ Apply(e) /\ UNCHANGED <<loading, ring>>
  <2>1. m \in Machines /\ 0 \in 0..MaxInputs
    BY Bounds DEF Typed
  <2>2. ASSUME NEW byte \in Bytes, ConPush(byte)
        PROVE  \E e \in Inputs : Record(e) /\ Apply(e) /\ UNCHANGED <<loading, ring>>
    <3>1. byte \in 0..255
      BY Bounds
    <3>2. Entry("CON", byte, 0) \in Inputs
      BY <2>1, <3>1, EntryType
    <3> QED BY <2>2, <3>2 DEF ConPush
  <2>3. ASSUME NEW mask \in Masks, KeysSet(mask)
        PROVE  \E e \in Inputs : Record(e) /\ Apply(e) /\ UNCHANGED <<loading, ring>>
    <3>1. mask \in 0..255
      BY Bounds
    <3>2. Entry("KEYS", mask, 0) \in Inputs
      BY <2>1, <3>1, EntryType
    <3> QED BY <2>3, <3>2 DEF KeysSet
  <2> QED BY <2>2, <2>3
<1>2. m \in Machines /\ queue \in Queues /\ broken \in BOOLEAN /\ LogTyped(log, pos, given)
      /\ inputs \in 0..MaxInputs
  BY DEF Typed
<1>3. m' \in Machines /\ m'.steps = m.steps /\ queue' \in Queues /\ broken' \in BOOLEAN
  BY <1>1, <1>2, ApplyType
<1>4. /\ LogTyped(log', pos', given') /\ inputs' \in 0..MaxInputs /\ inputs' = inputs + 1
      /\ call' = NoCall /\ reached' = m.steps /\ delivered' = {n \in delivered : n <= m.steps}
  BY <1>1, <1>2, RecordType
<1>5. UNCHANGED <<code, images, loadNext, snaps, seq, kcall, held, seeks>>
  BY <1>1 DEF Record, loading, ring
<1> QED BY <1>3, <1>4, <1>5

\* One instruction.
LEMMA ExecuteType ==
  ASSUME RingInv, Typed, Budgeted, Execute
  PROVE  LET n == m.steps + 1
         IN  /\ m' \in Machines /\ m'.steps = n /\ queue' \in Queues /\ n \in Steps /\ n \in Nat
             /\ RingTyped(snaps', seq')
             /\ kcall' \in KernelCalls /\ kcall'.left = kcall.left - 1
             /\ kcall'.start = kcall.start /\ kcall'.active = TRUE
             /\ kcall.left \in Nat /\ kcall.left > 0
             /\ IF code[n] = "CONOUT" THEN Emit(n) ELSE UNCHANGED <<held, delivered>>
             /\ UNCHANGED <<code, log, pos, given, images, loadNext, broken, call, inputs, seeks,
                            reached>>
<1> DEFINE now == [k |-> Marked(m), q |-> queue]
           w == Executed(now)
           stop == CASE w.k.mode = "IDLE" -> "WAIT_INPUT"
                     [] w.k.mode = "HALT" -> "HALT"
                     [] OTHER -> "NONE"
<1>1. /\ Running /\ kcall.left > 0 /\ m' = w.k /\ queue' = w.q
      /\ kcall' = [kcall EXCEPT !.left = @ - 1, !.stop = stop]
      /\ IF code[w.k.steps] = "CONOUT" THEN Emit(w.k.steps) ELSE UNCHANGED <<held, delivered>>
      /\ MaybeSave(m)
      /\ UNCHANGED <<code, log, pos, loading, broken, call, host, given, reached, before>>
  BY DEF Execute
<1>2. m \in Machines /\ queue \in Queues /\ code \in Codes /\ RingTyped(snaps, seq)
      /\ kcall \in KernelCalls /\ m.steps \in Nat /\ MaxSteps \in Nat
  BY MachineFields, Bounds DEF Typed
<1>3. now \in Worlds /\ now.k = Marked(m) /\ now.k.steps = m.steps
  BY <1>2, MarkedType DEF Worlds
<1>4. kcall.left \in Nat /\ kcall.start \in Nat /\ kcall.active = TRUE
      /\ kcall.left <= MaxSteps /\ m.steps + kcall.left <= MaxSteps
  <2>1. kcall.active = TRUE /\ kcall.left \in Steps /\ kcall.start \in Steps
    BY <1>1, <1>2 DEF Running, KernelCalls
  <2>2. m.steps + kcall.left <= MaxSteps
    BY <2>1 DEF Budgeted
  <2>3. kcall.left <= MaxSteps
    BY <2>1 DEF Steps
  <2> QED BY <2>1, <2>2, <2>3, Bounds
<1>5. m.steps + 1 <= MaxSteps /\ m.steps + 1 \in Steps /\ m.steps + 1 \in Nat
  <2>1. m.steps + 1 <= MaxSteps
    BY <1>1, <1>2, <1>4
  <2> QED BY <1>2, <2>1, Bounds
<1> HIDE DEF now
<1>6. w.k \in Machines /\ w.q \in Queues /\ w.k.steps = m.steps + 1
  BY <1>2, <1>3, <1>5, ExecutedType
<1>7. stop \in {"NONE", "BUDGET", "WAIT_INPUT", "HALT"}
  OBVIOUS
<1> HIDE DEF w, stop
<1>8. /\ kcall' \in KernelCalls /\ kcall'.left = kcall.left - 1
      /\ kcall'.start = kcall.start /\ kcall'.active = TRUE
  <2> DEFINE less == [kcall EXCEPT !.left = kcall.left - 1]
  <2>1. kcall.left - 1 \in Steps
    BY <1>1, <1>2, <1>4 DEF Steps
  <2>2. /\ less \in KernelCalls /\ less.left = kcall.left - 1
        /\ less.start = kcall.start /\ less.active = TRUE
    BY <1>2, <1>4, <2>1 DEF KernelCalls
  <2>3. kcall' = [less EXCEPT !.stop = stop]
    BY <1>1
  <2> HIDE DEF less
  <2> QED BY <1>7, <2>2, <2>3 DEF KernelCalls
<1>9. RingTyped(snaps', seq')
  BY <1>1, <1>2, MaybeSaveType
<1>10. UNCHANGED <<images, loadNext, inputs, seeks>>
  BY <1>1 DEF loading, host
<1> QED BY <1>1, <1>4, <1>5, <1>6, <1>8, <1>9, <1>10

\* The end of kernel_step: the step budget of the call of the API pays for what ran.
LEMMA ReturnType ==
  ASSUME RingInv, Typed, Budgeted, Return
  PROVE  /\ m' \in Machines /\ m'.steps = m.steps /\ RingTyped(snaps', seq')
         /\ kcall.active = TRUE /\ kcall' = NoKernelCall /\ call' \in Calls /\ reached' \in Steps
         /\ call.phase = "STEP" =>
              /\ call'.phase \in {"STEP", "HOST"}
              /\ call'.left = call.left - (m.steps - kcall.start)
              /\ reached' = IF m.steps > reached THEN m.steps ELSE reached
         /\ call.phase # "STEP" => call'.phase = call.phase /\ reached' = reached
         /\ UNCHANGED <<code, queue, log, pos, given, images, loadNext, broken, held, inputs,
                        seeks, delivered>>
<1> DEFINE k == [m EXCEPT !.tick = (@ + 1) % TickMod]
           ran == m.steps - kcall.start
           more == kcall.stop = "BUDGET" /\ call.left > ran /\ Pending
<1>1. /\ kcall.active /\ m' = Marked(k) /\ MaybeSave(k) /\ kcall' = NoKernelCall
      /\ IF call.phase = "STEP"
         THEN /\ call' = [call EXCEPT !.left = @ - ran, !.phase = IF more THEN "STEP" ELSE "HOST"]
              /\ reached' = IF m.steps > reached THEN m.steps ELSE reached
         ELSE call' = [call EXCEPT !.stuck = (ran = 0)] /\ reached' = reached
      /\ UNCHANGED <<code, queue, log, pos, loading, broken, held, host, given, delivered>>
  BY DEF Return
<1>2. m \in Machines /\ kcall \in KernelCalls /\ call \in Calls /\ reached \in Steps
      /\ RingTyped(snaps, seq)
  BY DEF Typed
<1>3. m.tick \in 0..(TickMod - 1) /\ m.steps \in Steps /\ m.steps \in Nat
  BY <1>2, Bounds DEF Machines
<1>4. (m.tick + 1) % TickMod \in 0..(TickMod - 1)
  <2>1. m.tick + 1 \in Nat /\ TickMod \in Nat \ {0}
    BY <1>3, Bounds
  <2> QED BY <2>1
<1>5. k \in Machines /\ k.steps = m.steps
  BY <1>2, <1>4, MachineFields
<1> HIDE DEF k
<1>6. m' \in Machines /\ m'.steps = m.steps
  BY <1>1, <1>5, MarkedType
<1>7. RingTyped(snaps', seq')
  BY <1>1, <1>2, <1>5, MaybeSaveType
<1>8. kcall.active = TRUE /\ kcall.start \in Nat /\ kcall.left \in Nat /\ call.left \in Nat
      /\ call.left <= MaxSteps
  BY <1>1, <1>2, Bounds DEF KernelCalls, Calls, Steps
<1>9. reached' \in Steps
  BY <1>1, <1>2, <1>3
<1>10. CASE call.phase = "STEP"
  <2>1. kcall.start <= m.steps /\ ran + kcall.left <= call.left
    BY <1>8, <1>10 DEF Budgeted
  <2>2. call.left - ran \in Nat /\ call.left - ran <= MaxSteps
    BY <1>3, <1>8, <2>1, Bounds
  <2>3. call.left - ran \in Steps
    BY <2>2, Bounds
  <2> HIDE DEF ran, more
  <2> DEFINE paid == [call EXCEPT !.left = call.left - ran]
             phase == IF more THEN "STEP" ELSE "HOST"
  <2>4. paid \in Calls /\ paid.left = call.left - ran
    BY <1>2, <2>3 DEF Calls
  <2>5. phase \in {"STEP", "HOST"}
    OBVIOUS
  <2>6. call' = [paid EXCEPT !.phase = phase]
    BY <1>1, <1>10
  <2> HIDE DEF paid, phase
  <2>7. call' \in Calls /\ call'.phase = phase /\ call'.left = call.left - ran
    BY <2>4, <2>5, <2>6 DEF Calls
  <2>8. reached' = IF m.steps > reached THEN m.steps ELSE reached
    BY <1>1, <1>10
  <2>9. call'.phase \in {"STEP", "HOST"} /\ call'.left = call.left - (m.steps - kcall.start)
    BY <2>5, <2>7 DEF ran
  <2>10. UNCHANGED <<images, loadNext, inputs, seeks>>
    BY <1>1 DEF loading, host
  <2> QED BY <1>1, <1>6, <1>7, <1>8, <1>9, <1>10, <2>7, <2>8, <2>9, <2>10
<1>11. CASE call.phase # "STEP"
  <2> DEFINE stuck == (ran = 0)
  <2>1. call' = [call EXCEPT !.stuck = stuck] /\ reached' = reached
    BY <1>1, <1>11
  <2>2. stuck \in BOOLEAN
    OBVIOUS
  <2> HIDE DEF stuck
  <2>3. call' \in Calls /\ call'.phase = call.phase
    BY <1>2, <2>1, <2>2 DEF Calls
  <2>4. UNCHANGED <<images, loadNext, inputs, seeks>>
    BY <1>1 DEF loading, host
  <2> QED BY <1>1, <1>6, <1>7, <1>8, <1>9, <1>11, <2>1, <2>3, <2>4
<1> QED BY <1>10, <1>11

\* What kernel_step is told to run at most, by each of the two loops.
LEMMA EnterType ==
  ASSUME RingInv, Typed, Budgeted, Enter
  PROVE  /\ kcall' \in KernelCalls /\ kcall'.active = TRUE /\ kcall'.start = m.steps
         /\ kcall'.left \in Nat /\ m.steps + kcall'.left <= MaxSteps
         /\ kcall.active = FALSE /\ call.phase \in {"STEP", "SEEK"}
         /\ call.phase = "STEP" => kcall'.left <= call.left
         /\ UNCHANGED <<code, m, queue, log, pos, given, images, loadNext, broken, snaps, seq,
                        call, held, inputs, seeks, reached, delivered>>
<1> DEFINE gap == IF Pending THEN log[pos + 1].step - m.steps ELSE call.left
           chunk == IF call.phase = "SEEK" THEN 1 ELSE IF gap < call.left THEN gap ELSE call.left
<1>1. /\ Looping /\ ~(Pending /\ EntryDue(log[pos + 1]))
      /\ kcall' = [active |-> TRUE, left |-> chunk, start |-> m.steps, stop |-> "NONE"]
      /\ UNCHANGED <<code, m, queue, log, pos, given, images, loadNext, broken, snaps, seq,
                     call, held, inputs, seeks, reached, delivered>>
  BY DEF Enter, machine, loading, ring, host, history
<1>2. m \in Machines /\ kcall \in KernelCalls /\ call \in Calls /\ LogTyped(log, pos, given)
  BY DEF Typed
<1>3. /\ m.steps \in Steps /\ m.steps \in Nat /\ call.left \in Nat /\ call.left <= MaxSteps
      /\ call.target \in Nat /\ call.target <= MaxSteps /\ MaxSteps \in Nat
  BY <1>2, Bounds DEF Machines, Calls, Steps
<1>4. kcall.active = FALSE /\ call.phase \in {"STEP", "SEEK"}
  BY <1>1, <1>2 DEF Looping, KernelCalls
<1>5. gap \in Nat
  <2>1. CASE Pending
    <3>1. log[pos + 1].step \in Steps
      BY <1>2, <2>1, NextEntry
    <3>2. ~(log[pos + 1].step <= m.steps)
      BY <1>1, <2>1 DEF EntryDue
    <3> DEFINE due == log[pos + 1].step
    <3>3. due \in Nat
      BY <3>1, Bounds
    <3>4. gap = due - m.steps /\ ~(due <= m.steps)
      BY <2>1, <3>2
    <3> HIDE DEF due, gap
    <3> QED BY <1>3, <3>3, <3>4
  <2> QED BY <1>3, <2>1
<1> HIDE DEF gap
<1>6. chunk \in Nat /\ m.steps + chunk <= MaxSteps /\ (call.phase = "STEP" => chunk <= call.left)
  <2>1. CASE call.phase = "STEP"
    <3>1. m.steps + call.left <= MaxSteps
      BY <1>4, <2>1 DEF Budgeted
    <3> QED BY <1>3, <1>5, <2>1, <3>1
  <2>2. CASE call.phase = "SEEK"
    <3>1. m.steps < call.target
      BY <1>1, <2>2 DEF Looping, SeekGoesOn
    <3> QED BY <1>3, <2>2, <3>1
  <2> QED BY <1>4, <2>1, <2>2
<1> HIDE DEF chunk
<1>7. chunk \in Steps
  BY <1>3, <1>6, Bounds
<1>8. kcall' \in KernelCalls
  BY <1>1, <1>3, <1>7 DEF KernelCalls
<1>9. kcall'.active = TRUE /\ kcall'.start = m.steps /\ kcall'.left = chunk
  BY <1>1
<1> QED BY <1>1, <1>4, <1>6, <1>8, <1>9

\* What api_recreate leaves.
LEMMA FreshType ==
  /\ LogTyped(<<>>, 0, <<>>) /\ << >> \in Queues
  /\ RingTyped([i \in 0..(Slots - 1) |-> IF i = 0 THEN [seq |-> 1, m |-> Boot] ELSE Empty], 1)
<1>1. LogTyped(<<>>, 0, <<>>) /\ << >> \in Queues
  <2>1. << >> \in Seq(Inputs) /\ << >> \in Seq(Bytes) /\ Len(<< >>) = 0
    BY EmptySeq
  <2> QED BY <2>1, ReplayAssumption DEF LogTyped, Queues
<1>2. Boot \in Machines
  BY BootType
<1> HIDE DEF Boot
<1>3. RingTyped([i \in 0..(Slots - 1) |-> IF i = 0 THEN [seq |-> 1, m |-> Boot] ELSE Empty], 1)
  <2> DEFINE fresh == [i \in 0..(Slots - 1) |-> IF i = 0 THEN [seq |-> 1, m |-> Boot] ELSE Empty]
  <2>1. \A i \in 0..(Slots - 1) : fresh[i] \in [seq : Nat, m : Machines] /\ fresh[i].seq <= 1
    BY <1>2 DEF Empty
  <2>2. fresh \in [0..(Slots - 1) -> [seq : Nat, m : Machines]]
    BY <2>1
  <2> HIDE DEF fresh
  <2>3. RingTyped(fresh, 1)
    BY <2>1, <2>2 DEF RingTyped
  <2> QED BY <2>3 DEF fresh
<1> QED BY <1>1, <1>3

---------------------------------------------------------------------------
(* The steps.                                                              *)

LEMMA OutputsGrow ==
  ASSUME NEW prog, NEW n \in Nat, NEW k \in Nat, n <= k
  PROVE  Outputs(prog, n) \subseteq Outputs(prog, k)
BY DEF Outputs

\* What an input does besides: the host is between two calls, the timeline is cut
\* at this step, and nothing is held back.
LEMMA InputKeeps ==
  ASSUME Typed, Budgeted, Given, AtHost, call' = NoCall, kcall' = kcall, code' = code,
         m'.steps = m.steps, reached' = m.steps, delivered' = {n \in delivered : n <= m.steps}
  PROVE  Budgeted' /\ Given' /\ reached' \in Steps /\ delivered' \subseteq Steps
<1>1. m.steps \in Steps /\ m.steps \in Nat /\ delivered \subseteq Steps /\ kcall.active \in BOOLEAN
  BY Bounds DEF Typed, Machines, KernelCalls
<1>2. ~kcall.active
  BY DEF Budgeted, AtHost
<1>3. Budgeted'
  BY <1>2, NoCalls DEF Budgeted
<1>4. Seen' = m.steps
  BY NoCalls DEF Seen
<1>5. delivered' \subseteq Outputs(code, m.steps)
  <2> SUFFICES ASSUME NEW n \in delivered' PROVE n \in Outputs(code, m.steps)
    OBVIOUS
  <2>1. n \in delivered /\ n <= m.steps
    OBVIOUS
  <2>2. n \in Outputs(code, Seen)
    BY <2>1 DEF Given
  <2>3. n \in Nat /\ n >= 1 /\ code[n] = "CONOUT"
    <3>1. Seen \in Nat
      BY <1>1, Bounds DEF Seen, Typed
    <3> QED BY <2>2, <3>1 DEF Outputs
  <2> QED BY <1>1, <2>1, <2>3 DEF Outputs
<1>6. Given'
  BY <1>4, <1>5, NoCalls DEF Given
<1> QED BY <1>1, <1>3, <1>6

LEMMA HostInputStep ==
  ASSUME ReplayInv, HostInput
  PROVE  Typed' /\ Budgeted' /\ Given'
<1> USE DEF ReplayInv
<1>1. CASE (\E byte \in Bytes : ConPush(byte)) \/ (\E mask \in Masks : KeysSet(mask))
  <2>1. AtHost
    BY <1>1 DEF ConPush, KeysSet, Record
  <2>2. /\ m' \in Machines /\ m'.steps = m.steps /\ queue' \in Queues /\ broken' \in BOOLEAN
        /\ LogTyped(log', pos', given') /\ inputs' \in 0..MaxInputs /\ inputs' = inputs + 1
        /\ call' = NoCall /\ reached' = m.steps /\ delivered' = {n \in delivered : n <= m.steps}
        /\ UNCHANGED <<code, images, loadNext, snaps, seq, kcall, held, seeks>>
    BY <1>1, InputType
  <2>3. Budgeted' /\ Given' /\ reached' \in Steps /\ delivered' \subseteq Steps
    BY <2>1, <2>2, InputKeeps
  <2>4. loadNext' \in 0..inputs'
    BY <2>2 DEF Typed
  <2>5. RingTyped(snaps', seq')
    BY <2>2 DEF Typed
  <2> QED BY <2>2, <2>3, <2>4, <2>5, NoCalls DEF Typed
<1>2. CASE LoadCom
  <2>1. AtHost
    BY <1>2 DEF LoadCom, Record
  <2>2. /\ m' \in Machines /\ m'.steps = m.steps /\ RingTyped(snaps', seq')
        /\ LogTyped(log', pos', given') /\ inputs' \in 0..MaxInputs
        /\ images' \in [0..(LoadSlots - 1) -> Nat] /\ loadNext' \in 0..inputs'
        /\ call' = NoCall /\ reached' = m.steps /\ delivered' = {n \in delivered : n <= m.steps}
        /\ UNCHANGED <<code, queue, broken, kcall, held, seeks>>
    BY <1>2, LoadComType
  <2>3. Budgeted' /\ Given' /\ reached' \in Steps /\ delivered' \subseteq Steps
    BY <2>1, <2>2, InputKeeps
  <2> QED BY <2>2, <2>3, NoCalls DEF Typed
<1>3. CASE Reset
  <2>1. /\ AtHost /\ inputs < MaxInputs /\ inputs' = inputs + 1
        /\ m' = Boot /\ queue' = <<>> /\ log' = <<>> /\ pos' = 0
        /\ images' = [i \in 0..(LoadSlots - 1) |-> 0] /\ loadNext' = 0 /\ broken' = FALSE
        /\ snaps' = [i \in 0..(Slots - 1) |-> IF i = 0 THEN [seq |-> 1, m |-> Boot] ELSE Empty]
        /\ seq' = 1 /\ call' = NoCall /\ held' = {}
        /\ given' = <<>> /\ reached' = 0 /\ delivered' = {}
        /\ UNCHANGED <<code, kcall, seeks>>
    BY <1>3 DEF Reset
  <2>2. inputs' \in 0..MaxInputs /\ loadNext' \in 0..inputs'
    BY <2>1, Bounds DEF Typed
  <2>3. LogTyped(log', pos', given') /\ queue' \in Queues /\ RingTyped(snaps', seq')
    BY <2>1, FreshType
  <2>4. m' \in Machines /\ images' \in [0..(LoadSlots - 1) -> Nat]
    BY <2>1, BootType
  <2>5. Typed'
    BY <2>1, <2>2, <2>3, <2>4, NoCalls, Bounds DEF Typed
  <2>6. kcall.active \in BOOLEAN /\ ~kcall.active
    BY <2>1 DEF Budgeted, AtHost, Typed, KernelCalls
  <2>7. Budgeted' /\ Given'
    BY <2>1, <2>6, NoCalls DEF Budgeted, Given
  <2> QED BY <2>5, <2>7
<1> QED BY <1>1, <1>2, <1>3 DEF HostInput

LEMMA HostCallStep ==
  ASSUME ReplayInv, HostCall
  PROVE  Typed' /\ Budgeted' /\ Given'
<1> USE DEF ReplayInv
<1>1. m.steps \in Steps /\ m.steps \in Nat /\ reached \in Steps /\ kcall.active \in BOOLEAN
  BY Bounds DEF Typed, Machines, KernelCalls
<1>2. ASSUME NEW max \in Budgets, StepCall(max) PROVE Typed' /\ Budgeted' /\ Given'
  <2> DEFINE n == IF max > MaxSteps - m.steps THEN MaxSteps - m.steps ELSE max
  <2>1. /\ AtHost /\ m.steps < MaxSteps /\ call' = [NoCall EXCEPT !.phase = "STEP", !.left = n]
        /\ UNCHANGED <<code, m, queue, log, pos, given, images, loadNext, broken, snaps, seq,
                       kcall, held, inputs, seeks, reached, delivered>>
    BY <1>2 DEF StepCall, machine, loading, ring, host, history
  <2>2. max \in Nat
    BY ReplayAssumption
  <2>3. n \in Nat /\ n <= MaxSteps /\ m.steps + n <= MaxSteps
    BY <1>1, <2>1, <2>2, Bounds
  <2>4. n \in Steps
    BY <2>3, Bounds
  <2> HIDE DEF n
  <2>5. call' \in Calls /\ call'.phase = "STEP" /\ call'.left = n
    BY <2>1, <2>4, StepCallType
  <2>6. Typed'
    BY <2>1, <2>5 DEF Typed
  <2>7. ~kcall.active
    BY <1>1, <2>1 DEF AtHost, Budgeted
  <2>8. Budgeted'
    BY <2>1, <2>3, <2>5, <2>7 DEF Budgeted
  <2>9. delivered \subseteq Outputs(code, reached)
    BY <2>1 DEF Given, Seen, AtHost
  <2>10. Seen' \in Nat /\ reached <= Seen'
    BY <1>1, <2>1, <2>5, Bounds DEF Seen
  <2>11. Given'
    <3>1. delivered \subseteq Outputs(code, Seen')
      BY <1>1, <2>9, <2>10, OutputsGrow, Bounds
    <3> QED BY <2>1, <2>5, <3>1 DEF Given
  <2> QED BY <2>6, <2>8, <2>11
<1>3. ASSUME NEW target \in Steps, SeekCall(target) PROVE Typed' /\ Budgeted' /\ Given'
  <2>1. /\ AtHost /\ BeginSeek(target, m.steps, FALSE) /\ seeks < MaxSeeks /\ seeks' = seeks + 1
        /\ UNCHANGED <<code, log, given, images, loadNext, snaps, seq, kcall, inputs, reached,
                       delivered>>
    BY <1>3 DEF SeekCall, loading, ring
  <2>2. RingTyped(snaps, seq) /\ LogTyped(log, pos, given) /\ FALSE \in BOOLEAN
    BY DEF Typed
  <2>3. /\ m' \in Machines /\ queue' \in Queues /\ LogTyped(log, pos', given)
        /\ call' \in Calls /\ call'.phase = "SEEK" /\ broken' = FALSE /\ held' = {}
    BY <1>1, <2>1, <2>2, BeginSeekType
  <2>4. ~kcall.active
    BY <1>1, <2>1 DEF AtHost, Budgeted
  <2>5. seeks' \in 0..MaxSeeks
    BY <2>1, ReplayAssumption DEF Typed
  <2>6. LogTyped(log', pos', given') /\ RingTyped(snaps', seq')
    BY <2>1, <2>2, <2>3
  <2>7. Typed'
    BY <2>1, <2>3, <2>5, <2>6 DEF Typed
  <2>8. Budgeted'
    BY <2>1, <2>3, <2>4 DEF Budgeted
  <2>9. Given'
    <3>1. Seen' = reached /\ Seen = reached
      BY <2>1, <2>3 DEF Seen, AtHost
    <3> QED BY <2>1, <2>3, <3>1 DEF Given
  <2> QED BY <2>7, <2>8, <2>9
<1> QED BY <1>2, <1>3 DEF HostCall

\* What the steps that leave the call, the output and the step count alone keep.
LEMMA QuietKeeps ==
  ASSUME Budgeted, Given, m'.steps = m.steps, kcall'.active = kcall.active,
         kcall'.left = kcall.left, kcall'.start = kcall.start,
         UNCHANGED <<code, call, reached, held, delivered>>
  PROVE  Budgeted' /\ Given'
<1>1. Budgeted'
  BY DEF Budgeted
<1>2. Given'
  <2>1. Seen' = Seen
    BY DEF Seen
  <2> QED BY <2>1 DEF Given
<1> QED BY <1>1, <1>2

LEMMA QuietStep ==
  ASSUME ReplayInv, ApplyDue \/ Stop \/ Wake
  PROVE  Typed' /\ Budgeted' /\ Given'
<1> USE DEF ReplayInv
<1>1. /\ m \in Machines /\ queue \in Queues /\ broken \in BOOLEAN /\ LogTyped(log, pos, given)
      /\ kcall \in KernelCalls /\ RingTyped(snaps, seq)
  BY DEF Typed
<1>2. CASE ApplyDue
  <2> DEFINE e == log[pos + 1]
             new == Stamp(e)
             p == pos + 1
  <2>1. /\ Pending /\ log' = [log EXCEPT ![p] = new] /\ pos' = p /\ Apply(e)
        /\ UNCHANGED <<code, given, images, loadNext, snaps, seq, call, kcall, held, inputs, seeks,
                       reached, delivered>>
    BY <1>2 DEF ApplyDue, loading, ring, host, history
  <2>2. e \in Inputs /\ p \in 1..Len(log)
    BY <1>1, <2>1, NextEntry
  <2> HIDE DEF e
  <2>3. new \in Inputs
    BY <1>1, <2>2, StampType
  <2>4. m' \in Machines /\ m'.steps = m.steps /\ queue' \in Queues /\ broken' \in BOOLEAN
    BY <1>1, <2>1, <2>2, ApplyType
  <2> HIDE DEF new, p
  <2>5. log \in Seq(Inputs) /\ given \in Seq(Inputs) /\ Len(log) \in Nat /\ Len(log) <= LogCap
        /\ Len(log) <= Len(given)
    BY <1>1, LenProperties DEF LogTyped
  <2>6. log' \in Seq(Inputs) /\ Len(log') = Len(log)
    BY <2>1, <2>2, <2>3, <2>5, ExceptSeq
  <2>7. p \in Nat /\ p <= Len(log)
    BY <2>2, <2>5
  <2>8. LogTyped(log', pos', given')
    BY <2>1, <2>5, <2>6, <2>7, LogIs
  <2>9. RingTyped(snaps', seq')
    BY <1>1, <2>1
  <2>10. Typed'
    BY <2>1, <2>4, <2>8, <2>9 DEF Typed
  <2> QED BY <2>1, <2>4, <2>10, QuietKeeps
<1>3. CASE Stop
  <2>1. PICK why \in {"HALT", "WAIT_INPUT", "BUDGET"} : kcall' = [kcall EXCEPT !.stop = why]
    BY <1>3 DEF Stop, StopWith
  <2>2. UNCHANGED <<code, m, queue, log, pos, given, images, loadNext, broken, snaps, seq,
                    call, held, inputs, seeks, reached, delivered>>
    BY <1>3 DEF Stop, machine, loading, ring, host, history
  <2>3. kcall' \in KernelCalls /\ kcall'.active = kcall.active
        /\ kcall'.left = kcall.left /\ kcall'.start = kcall.start
    BY <1>1, <2>1 DEF KernelCalls
  <2>4. Typed'
    BY <2>2, <2>3 DEF Typed
  <2> QED BY <2>2, <2>3, <2>4, QuietKeeps
<1>4. CASE Wake
  <2>1. /\ CanWake(Now) /\ m' = Woken(Now).k /\ queue' = Woken(Now).q
        /\ UNCHANGED <<code, log, pos, given, images, loadNext, broken, snaps, seq,
                       call, kcall, held, inputs, seeks, reached, delivered>>
    BY <1>4 DEF Wake, loading, ring, host, history
  <2>2. Now \in Worlds /\ Now.k = m /\ Now.q = queue
    BY <1>1 DEF Now, Worlds
  <2>3. Now.q # << >>
    BY <2>1 DEF CanWake
  <2>4. m' \in Machines /\ queue' \in Queues /\ m'.steps = m.steps
    BY <2>1, <2>2, <2>3, WokenType
  <2>5. LogTyped(log', pos', given') /\ RingTyped(snaps', seq')
    BY <1>1, <2>1
  <2>6. Typed'
    BY <2>1, <2>4, <2>5 DEF Typed
  <2> QED BY <2>1, <2>4, <2>6, QuietKeeps
<1> QED BY <1>2, <1>3, <1>4

LEMMA KernelStep ==
  ASSUME ReplayInv, Enter \/ Execute \/ Return
  PROVE  Typed' /\ Budgeted' /\ Given'
<1> USE DEF ReplayInv
<1>1. /\ m \in Machines /\ kcall \in KernelCalls /\ call \in Calls /\ code \in Codes
      /\ LogTyped(log, pos, given) /\ RingTyped(snaps, seq)
  BY DEF Typed
<1>2. /\ m.steps \in Steps /\ m.steps \in Nat /\ reached \in Steps /\ reached \in Nat
      /\ kcall.active \in BOOLEAN /\ kcall.left \in Nat /\ kcall.start \in Nat
      /\ call.left \in Nat /\ call.phase \in {"HOST", "STEP", "SEEK"} /\ MaxSteps \in Nat
  BY <1>1, Bounds DEF Typed, Machines, KernelCalls, Calls
<1>3. Seen \in Nat
  BY <1>2 DEF Seen
<1>4. CASE Enter
  <2>1. /\ kcall' \in KernelCalls /\ kcall'.active = TRUE /\ kcall'.start = m.steps
        /\ kcall'.left \in Nat /\ m.steps + kcall'.left <= MaxSteps
        /\ kcall.active = FALSE /\ call.phase \in {"STEP", "SEEK"}
        /\ call.phase = "STEP" => kcall'.left <= call.left
        /\ UNCHANGED <<code, m, queue, log, pos, given, images, loadNext, broken, snaps, seq,
                       call, held, inputs, seeks, reached, delivered>>
    BY <1>4, EnterType
  <2>2. Typed'
    BY <2>1 DEF Typed
  <2>3. call.phase = "STEP" => m.steps + call.left <= MaxSteps
    BY <2>1 DEF Budgeted
  <2>4. Budgeted'
    <3>1. m.steps <= m.steps /\ (m.steps - m.steps) + kcall'.left = kcall'.left
      BY <1>2, <2>1
    <3> QED BY <2>1, <2>3, <3>1 DEF Budgeted
  <2>5. Given'
    <3>1. Seen' = Seen
      BY <2>1 DEF Seen
    <3> QED BY <2>1, <3>1 DEF Given
  <2> QED BY <2>2, <2>4, <2>5
<1>5. CASE Execute
  <2> DEFINE n == m.steps + 1
  <2>1. /\ m' \in Machines /\ m'.steps = n /\ queue' \in Queues /\ n \in Steps /\ n \in Nat
        /\ RingTyped(snaps', seq')
        /\ kcall' \in KernelCalls /\ kcall'.left = kcall.left - 1
        /\ kcall'.start = kcall.start /\ kcall'.active = TRUE
        /\ kcall.left > 0
        /\ IF code[n] = "CONOUT" THEN Emit(n) ELSE UNCHANGED <<held, delivered>>
        /\ UNCHANGED <<code, log, pos, given, images, loadNext, broken, call, inputs, seeks,
                       reached>>
    BY <1>5, ExecuteType
  <2>2. kcall.active
    BY <1>5 DEF Execute, Running
  <2>3. /\ call.phase # "HOST" /\ kcall.start <= m.steps /\ m.steps + kcall.left <= MaxSteps
        /\ call.phase = "STEP" => /\ kcall.start + call.left <= MaxSteps
                                  /\ (m.steps - kcall.start) + kcall.left <= call.left
    BY <2>2 DEF Budgeted
  <2>4. n = m.steps + 1
    OBVIOUS
  <2> HIDE DEF n
  <2>5. /\ kcall.start <= n /\ n + (kcall.left - 1) <= MaxSteps
        /\ (n - kcall.start) + (kcall.left - 1) = (m.steps - kcall.start) + kcall.left
    BY <1>2, <2>3, <2>4
  <2>6. Budgeted'
    BY <2>1, <2>3, <2>5 DEF Budgeted
  <2>7. \/ UNCHANGED <<held, delivered>>
        \/ code[n] = "CONOUT" /\ call.phase = "STEP" /\ delivered' = delivered \cup {n} /\ held' = held
        \/ code[n] = "CONOUT" /\ call.phase = "SEEK" /\ held' \subseteq held \cup {n}
           /\ delivered' = delivered
    BY <1>2, <2>1, <2>3 DEF Emit
  <2>8. held' \subseteq Steps /\ delivered' \subseteq Steps
    <3>1. held \subseteq Steps /\ delivered \subseteq Steps
      BY DEF Typed
    <3> QED BY <2>1, <2>7, <3>1
  <2>9. LogTyped(log', pos', given')
    BY <1>1, <2>1
  <2>10. Typed'
    BY <2>1, <2>8, <2>9 DEF Typed
  <2>11. code[n] = "CONOUT" => n \in Outputs(code, n)
    BY <1>2, <2>1, <2>4 DEF Outputs
  <2>12. Seen' \in Nat /\ Seen <= Seen' /\ (call.phase = "STEP" => n <= Seen')
    BY <1>2, <2>1, <2>4 DEF Seen
  <2>13. Outputs(code, Seen) \subseteq Outputs(code, Seen')
    BY <1>3, <2>12, OutputsGrow
  <2>14. Outputs(code, m.steps) \subseteq Outputs(code, n)
    <3>1. m.steps <= n
      BY <1>2, <2>4
    <3> QED BY <1>2, <2>1, <3>1, OutputsGrow
  <2>15. delivered' \subseteq Outputs(code, Seen')
    <3>1. delivered \subseteq Outputs(code, Seen')
      BY <2>13 DEF Given
    <3>2. ASSUME code[n] = "CONOUT", call.phase = "STEP" PROVE n \in Outputs(code, Seen')
      <4>1. Outputs(code, n) \subseteq Outputs(code, Seen')
        BY <2>1, <2>12, <3>2, OutputsGrow
      <4> QED BY <2>11, <3>2, <4>1
    <3> QED BY <2>7, <3>1, <3>2
  <2>16. call.phase = "SEEK" => held' \subseteq Outputs(code, n)
    <3>1. call.phase = "SEEK" => held \subseteq Outputs(code, n)
      BY <2>14 DEF Given
    <3> QED BY <2>7, <2>11, <3>1
  <2>17. Given'
    BY <2>1, <2>15, <2>16 DEF Given
  <2> QED BY <2>6, <2>10, <2>17
<1>6. CASE Return
  <2>1. /\ m' \in Machines /\ m'.steps = m.steps /\ RingTyped(snaps', seq')
        /\ kcall.active = TRUE /\ kcall' = NoKernelCall /\ call' \in Calls /\ reached' \in Steps
        /\ call.phase = "STEP" =>
             /\ call'.phase \in {"STEP", "HOST"}
             /\ call'.left = call.left - (m.steps - kcall.start)
             /\ reached' = IF m.steps > reached THEN m.steps ELSE reached
        /\ call.phase # "STEP" => call'.phase = call.phase /\ reached' = reached
        /\ UNCHANGED <<code, queue, log, pos, given, images, loadNext, broken, held, inputs,
                       seeks, delivered>>
    BY <1>6, ReturnType
  <2>2. /\ call.phase # "HOST" /\ kcall.start <= m.steps
        /\ call.phase = "STEP" => kcall.start + call.left <= MaxSteps
    BY <2>1 DEF Budgeted
  <2>3. LogTyped(log', pos', given')
    BY <1>1, <2>1
  <2>4. Typed'
    BY <2>1, <2>3, NoCalls DEF Typed
  <2>5. m.steps + (call.left - (m.steps - kcall.start)) = kcall.start + call.left
    BY <1>2
  <2>6. kcall'.active = FALSE
    BY <2>1, NoCalls
  <2>7. call'.phase = "STEP" => m'.steps + call'.left <= MaxSteps
    <3>1. ASSUME call'.phase = "STEP" PROVE call.phase = "STEP"
      BY <2>1, <3>1
    <3> QED BY <2>1, <2>2, <2>5, <3>1
  <2>8. Budgeted'
    BY <2>6, <2>7 DEF Budgeted
  <2>9. Seen' = Seen
    BY <1>2, <2>1, <2>2 DEF Seen
  <2>10. call'.phase = "SEEK" => call.phase = "SEEK"
    BY <1>2, <2>1, <2>2
  <2>11. Given'
    BY <2>1, <2>9, <2>10 DEF Given
  <2> QED BY <2>4, <2>8, <2>11
<1> QED BY <1>4, <1>5, <1>6

LEMMA SeekEndStep ==
  ASSUME ReplayInv, SeekOk \/ SeekBack
  PROVE  Typed' /\ Budgeted' /\ Given'
<1> USE DEF ReplayInv
<1>1. /\ m \in Machines /\ kcall \in KernelCalls /\ call \in Calls
      /\ LogTyped(log, pos, given) /\ RingTyped(snaps, seq)
  BY DEF Typed
<1>2. /\ m.steps \in Steps /\ m.steps \in Nat /\ reached \in Steps /\ reached \in Nat
      /\ kcall.active \in BOOLEAN /\ call.restoring \in BOOLEAN /\ call.from \in Steps
  BY <1>1, Bounds DEF Typed, Machines, KernelCalls, Calls
<1>3. ~kcall.active /\ call.phase = "SEEK"
  BY DEF SeekOk, SeekBack, SeekEnds
<1>4. Seen = reached
  BY <1>3 DEF Seen
<1>5. CASE SeekOk
  <2> DEFINE failed == call.restoring
  <2>1. /\ delivered' = delivered \cup held /\ held' = {}
        /\ call' = [NoCall EXCEPT !.failed = failed]
        /\ reached' = IF m.steps > reached THEN m.steps ELSE reached
        /\ UNCHANGED <<code, m, queue, log, pos, given, images, loadNext, broken, snaps, seq,
                       kcall, inputs, seeks>>
    BY <1>5 DEF SeekOk, machine, loading, ring, host
  <2>2. failed \in BOOLEAN
    BY <1>2
  <2> HIDE DEF failed
  <2>3. call' \in Calls /\ call'.phase = "HOST"
    BY <2>1, <2>2, FailedCallType
  <2>4. /\ reached' \in Steps /\ reached' \in Nat /\ reached <= reached' /\ m.steps <= reached'
        /\ delivered' \subseteq Steps
    <3>1. delivered \subseteq Steps /\ held \subseteq Steps
      BY DEF Typed
    <3> QED BY <1>2, <2>1, <3>1
  <2>5. Typed'
    BY <2>1, <2>3, <2>4 DEF Typed
  <2>6. Budgeted'
    BY <1>3, <2>1, <2>3 DEF Budgeted
  <2>7. Seen' = reached'
    BY <2>3 DEF Seen
  <2>8. Outputs(code, reached) \subseteq Outputs(code, reached')
        /\ Outputs(code, m.steps) \subseteq Outputs(code, reached')
    BY <1>2, <2>4, OutputsGrow
  <2>9. Given'
    <3>1. delivered \subseteq Outputs(code, reached) /\ held \subseteq Outputs(code, m.steps)
      BY <1>3, <1>4 DEF Given
    <3> QED BY <2>1, <2>3, <2>7, <2>8, <3>1 DEF Given
  <2> QED BY <2>5, <2>6, <2>9
<1>6. CASE SeekBack /\ (call.restoring \/ m.steps = call.from)
  <2>1. /\ held' = {} /\ call' = [NoCall EXCEPT !.failed = TRUE]
        /\ UNCHANGED <<code, m, queue, log, pos, given, images, loadNext, broken, snaps, seq,
                       kcall, inputs, seeks, reached, delivered>>
    BY <1>6 DEF SeekBack, loading, ring, host, history
  <2>2. call' \in Calls /\ call'.phase = "HOST"
    BY <2>1, FailedCallType
  <2>3. Typed'
    BY <2>1, <2>2 DEF Typed
  <2>4. Budgeted'
    BY <1>3, <2>1, <2>2 DEF Budgeted
  <2>5. Given'
    <3>1. Seen' = reached
      BY <2>1, <2>2 DEF Seen
    <3> QED BY <1>4, <2>1, <2>2, <3>1 DEF Given
  <2> QED BY <2>3, <2>4, <2>5
<1>7. CASE SeekBack /\ ~(call.restoring \/ m.steps = call.from)
  <2>1. /\ BeginSeek(call.from, m.steps, TRUE)
        /\ UNCHANGED <<code, log, given, images, loadNext, snaps, seq,
                       kcall, inputs, seeks, reached, delivered>>
    BY <1>7 DEF SeekBack, loading, ring, host, history
  <2>2. TRUE \in BOOLEAN
    OBVIOUS
  <2>3. /\ m' \in Machines /\ queue' \in Queues /\ LogTyped(log, pos', given)
        /\ call' \in Calls /\ call'.phase = "SEEK" /\ broken' = FALSE /\ held' = {}
    BY <1>1, <1>2, <2>1, <2>2, BeginSeekType
  <2>4. LogTyped(log', pos', given') /\ RingTyped(snaps', seq')
    BY <1>1, <2>1, <2>3
  <2>5. Typed'
    BY <2>1, <2>3, <2>4 DEF Typed
  <2>6. Budgeted'
    BY <1>3, <2>1, <2>3 DEF Budgeted
  <2>7. Given'
    <3>1. Seen' = reached
      BY <2>1, <2>3 DEF Seen
    <3> QED BY <1>4, <2>1, <2>3, <3>1 DEF Given
  <2> QED BY <2>5, <2>6, <2>7
<1> QED BY <1>5, <1>6, <1>7

LEMMA ReplayInvStep == ReplayInv /\ [Next]_vars => ReplayInv'
<1> SUFFICES ASSUME ReplayInv, [Next]_vars
             PROVE  ReplayInv'
  OBVIOUS
<1>1. RingInv'
  BY RingStep DEF ReplayInv
<1>2. CASE HostInput
  BY <1>1, <1>2, HostInputStep DEF ReplayInv
<1>3. CASE HostCall
  BY <1>1, <1>3, HostCallStep DEF ReplayInv
<1>4. CASE ApplyDue \/ Stop \/ Wake
  BY <1>1, <1>4, QuietStep DEF ReplayInv
<1>5. CASE Enter \/ Execute \/ Return
  BY <1>1, <1>5, KernelStep DEF ReplayInv
<1>6. CASE SeekOk \/ SeekBack
  BY <1>1, <1>6, SeekEndStep DEF ReplayInv
<1>7. CASE UNCHANGED vars
  <2>1. UNCHANGED <<code, m, queue, log, pos, given, images, loadNext, broken, snaps, seq,
                    call, kcall, held, inputs, seeks, reached, delivered>>
    BY <1>7 DEF vars, machine, loading, ring, host, history
  <2>2. Typed'
    BY <2>1 DEF ReplayInv, Typed
  <2>3. Budgeted' /\ Given'
    BY <2>1, QuietKeeps DEF ReplayInv
  <2> QED BY <1>1, <2>2, <2>3 DEF ReplayInv
<1> QED BY <1>2, <1>3, <1>4, <1>5, <1>6, <1>7 DEF Next, InCall

LEMMA ReplayInvInit == Init => ReplayInv
<1> SUFFICES ASSUME Init PROVE ReplayInv
  OBVIOUS
<1>1. RingInv
  BY FreshRing
<1>2. /\ code \in Codes /\ m = Boot /\ queue = <<>> /\ log = <<>> /\ pos = 0
      /\ images = [i \in 0..(LoadSlots - 1) |-> 0] /\ loadNext = 0 /\ broken = FALSE
      /\ snaps = [i \in 0..(Slots - 1) |-> IF i = 0 THEN [seq |-> 1, m |-> Boot] ELSE Empty]
      /\ seq = 1 /\ call = NoCall /\ kcall = NoKernelCall /\ held = {}
      /\ inputs = 0 /\ seeks = 0 /\ given = <<>> /\ reached = 0 /\ delivered = {}
  BY DEF Init, Codes
<1>3. queue \in Queues /\ LogTyped(log, pos, given) /\ RingTyped(snaps, seq)
  BY <1>2, FreshType
<1>4. m \in Machines /\ call \in Calls /\ kcall \in KernelCalls
  BY <1>2, BootType, NoCalls
<1>5. 0 \in 0..MaxSeeks /\ 0 \in 0..MaxInputs /\ 0 \in 0..0
  BY ReplayAssumption
<1>6. images \in [0..(LoadSlots - 1) -> Nat]
  BY <1>2
<1>7. Typed
  BY <1>2, <1>3, <1>4, <1>5, <1>6, Bounds DEF Typed
<1>8. Budgeted /\ Given
  BY <1>2, NoCalls DEF Budgeted, Given
<1> QED BY <1>1, <1>7, <1>8 DEF ReplayInv

\* Whatever the host does, the log and the console queue stay in their arrays,
\* the replay position in the log, the budgets of the nested loops of tos_step and
\* kernel_step within the program, and every snapshot a machine (api.c, snapshot.c).
THEOREM TypeCorrect == Spec => []TypeOK
<1>1. Init => ReplayInv
  BY ReplayInvInit
<1>2. ReplayInv /\ [Next]_vars => ReplayInv'
  BY ReplayInvStep
<1>3. ReplayInv => TypeOK
  <2> SUFFICES ASSUME ReplayInv PROVE TypeOK
    OBVIOUS
  <2>1. log \in Seq(Inputs) /\ given \in Seq(Inputs) /\ Len(log) <= LogCap /\ pos \in 0..Len(log)
    BY DEF ReplayInv, Typed, LogTyped
  <2>2. log \in Seq(Entries) /\ given \in Seq(Entries)
    <3>1. Inputs \subseteq Entries
      BY DEF Inputs
    <3> QED BY <2>1, <3>1
  <2>3. loadNext \in Nat
    BY DEF ReplayInv, Typed
  <2>4. queue \in Seq(Bytes) /\ Len(queue) <= QueueCap
    BY DEF ReplayInv, Typed, Queues
  <2> QED BY <2>1, <2>2, <2>3, <2>4 DEF ReplayInv, Typed, RingTyped, Codes, TypeOK
<1>4. QED BY <1>1, <1>2, <1>3, PTL DEF Spec

\* What the host was given on its console is output of steps of the timeline it
\* has seen: a seek that fails, or is put back, delivers nothing (api_con_out).
THEOREM OutputIsReal == Spec => []OutputReal
<1>1. Init => ReplayInv
  BY ReplayInvInit
<1>2. ReplayInv /\ [Next]_vars => ReplayInv'
  BY ReplayInvStep
<1>3. ReplayInv => OutputReal
  BY DEF ReplayInv, Given, Seen, Outputs, OutputReal, AtHost
<1>4. QED BY <1>1, <1>2, <1>3, PTL DEF Spec

---------------------------------------------------------------------------
(* The timeline: what running straight through gives.  Line has it as one  *)
(* value: the machine as it arrives at step n (at[n]), the same as the     *)
(* inputs of step n among the first i are given to it (fed[n][i]), and the *)
(* inputs (es).                                                            *)

Feeding == [n \in Steps |-> Taking(Straight[n], n)]
Line == [at |-> Straight, fed |-> Feeding, es |-> given]

\* A timeline is what its inputs make of it.
IsLine(t) ==
  /\ t.es \in Seq(Inputs)
  /\ t.at \in [Steps -> Worlds] /\ t.at[0] = [k |-> Boot, q |-> << >>]
  /\ \A n \in Steps :
       /\ t.at[n].k.steps <= n
       /\ t.fed[n] \in [0..Len(t.es) -> Worlds] /\ t.fed[n][0] = t.at[n]
       /\ \A i \in 1..Len(t.es) :
            t.fed[n][i] = IF t.es[i].step = n THEN Fed(t.fed[n][i - 1], t.es[i]) ELSE t.fed[n][i - 1]
Going == [w \in Worlds |-> GoneOn(w)]
GoesOn(t, go) == \A n \in Steps : n + 1 \in Steps => t.at[n + 1] = go[t.fed[n][Len(t.es)]]

\* The timeline gets to step n, and the program it has loaded when it leaves step 0.
Arrives(t, n) == \A x \in 0..n : t.at[x].k.steps = x
Loaded(t) == t.fed[0][Len(t.es)].k.prog
Sight(t, n) == [mode |-> t.at[n].k.mode, took |-> t.at[n].k.took, prog |-> Loaded(t)]

\* The disciplined host: bytes for a machine that waits for one, loads at step 0, time goes on.
InputsFit(t) ==
  \A i \in 1..Len(t.es) :
    /\ Arrives(t, t.es[i].step)
    /\ t.es[i].kind = "CON" => /\ t.at[t.es[i].step].k.mode = "IDLE"
                               /\ t.fed[t.es[i].step][i - 1].q = << >>
    /\ t.es[i].kind = "LOAD" => t.es[i].step = 0
    /\ \A j \in 1..i : t.es[j].step <= t.es[i].step

\* Every image is still where its load put it.
LoadsFit(t, imgs, next) ==
  \A i \in 1..Len(t.es) : t.es[i].kind = "LOAD" =>
    t.es[i].value = t.es[i].tag /\ t.es[i].tag < next /\ imgs[t.es[i].tag] = t.es[i].tag

\* The log has the timeline's inputs; only the ticks change when they are applied again.
LogFits(t, lg) ==
  /\ Len(lg) = Len(t.es)
  /\ \A i \in 1..Len(t.es) : /\ lg[i].step = t.es[i].step /\ lg[i].kind = t.es[i].kind
                             /\ lg[i].value = t.es[i].value /\ lg[i].tag = t.es[i].tag

\* What has been applied is of steps up to n, what has not of steps a call of kernel_step stops at.
PosFits(t, p, n, kc) ==
  /\ \A i \in 1..p : t.es[i].step <= n
  /\ kc.active /\ n > kc.start => \A i \in 1..p : t.es[i].step < n
  /\ \A i \in (p + 1)..Len(t.es) : t.es[i].step >= n + kc.left

\* The program has seen in machine k what it has in world w, and the queue is that of w.
Like(k, q, w) == k.mode = w.k.mode /\ k.took = w.k.took /\ q = w.q

\* The machine is where the timeline is after p inputs; or a kernel_step has woken it there.
Here(t, k, q, p, kc) ==
  /\ Arrives(t, k.steps)
  /\ \/ Like(k, q, t.fed[k.steps][p])
     \/ /\ kc.active /\ kc.stop = "NONE" /\ k.steps = kc.start /\ kc.left > 0
        /\ CanWake(t.fed[k.steps][p]) /\ Like(k, q, Woken(t.fed[k.steps][p]))
  /\ k.prog \in {Loaded(t), t.fed[0][p].k.prog}
  /\ k.steps > 0 => k.keys = t.fed[k.steps][p].k.keys
  /\ k.mode = "IDLE" \/ q = << >>
  /\ kc.active /\ k.steps > kc.start => q = << >>

KernelFits(k, q, c, kc) ==
  /\ ~kc.active => kc = NoKernelCall
  /\ kc.stop = "HALT" => k.mode = "HALT"
  /\ kc.stop = "WAIT_INPUT" => k.mode = "IDLE" /\ q = << >>
  /\ kc.stop = "BUDGET" => k.mode = "RUN" /\ kc.left = 0
  /\ kc.active /\ k.steps = kc.start => kc.left > 0
  /\ c.phase = "STEP" => ~c.failed /\ (~kc.active => c.left > 0)

\* The anchor is the machine as the load at place j of the inputs left it (0: as it booted); what
\* came after has a tick of its own or later.
AnchoredAt(t, lg, p, k, a, j) ==
  /\ a.keys = t.fed[0][j].k.keys
  /\ \A i \in (j + 1)..Len(t.es) : /\ t.es[i].kind # "LOAD"
                                   /\ i <= p /\ t.es[i].step = 0 => a.tick <= lg[i].tick
  /\ k.steps = 0 => k.keys = t.fed[0][p].k.keys \/ (p <= j /\ k.keys = a.keys)
AnchorFits(t, lg, p, k, a) == \E j \in 0..Len(t.es) : AnchoredAt(t, lg, p, k, a, j)

\* The rotating slots hold the last snapshots saved to them, each at its place.
Rotating == Slots - 1
RotFits(sn, sq) ==
  \A i \in 1..Rotating : sn[i].seq # 0 =>
    sn[i].seq > sq - Rotating /\ sn[i].seq >= 2 /\ i = 1 + ((sn[i].seq - 2) % Rotating) /\ sn[i].m.steps > 0

\* A snapshot is the machine of the timeline as it arrives at a step.
Multiples == {c * Interval : c \in Nat}
SnapFits(t, s) ==
  /\ s.steps \in Multiples /\ s.lastSnap = s.steps /\ Arrives(t, s.steps)
  /\ s.prog = Loaded(t) /\ Like(s, << >>, t.at[s.steps])
  /\ s.steps > 0 => s.keys = t.at[s.steps].k.keys
SnapsFit(t, sn) == \A i \in 0..Rotating : sn[i].seq # 0 => SnapFits(t, sn[i].m)

\* Slot i has the last snapshot saved of its step.
Newest(sn, i) ==
  sn[i].seq # 0 /\ \A j \in 0..Rotating : sn[j].seq # 0 /\ sn[j].m.steps = sn[i].m.steps => sn[j].seq <= sn[i].seq

\* Inputs applied at the step of a snapshot came after it, as their ticks say; so does the machine.
Stamped(lg, p, sn) ==
  \A i \in 1..Rotating : Newest(sn, i) =>
    \A e \in 1..p : lg[e].step = sn[i].m.steps => sn[i].m.tick <= lg[e].tick
TickFits(k, sn) ==
  \A i \in 0..Rotating : Newest(sn, i) /\ sn[i].m.steps = k.steps /\ k.lastSnap = k.steps => sn[i].m.tick <= k.tick
LastFits(k, kc) ==
  /\ k.lastSnap \in Multiples /\ k.lastSnap <= k.steps
  /\ Interval # 0 => k.steps <= k.lastSnap + Interval
  /\ ~kc.active \/ k.steps = kc.start => ~Due(k)

\* The step whose machine a seek is to give back should it fail.
Goal(c) == IF c.restoring THEN c.target ELSE c.from
CallFits(t, k, q, p, c, kc, was) ==
  /\ c.phase = "SEEK" =>
       /\ k.steps + kc.left <= c.target
       /\ Arrives(t, Goal(c)) /\ was = Sight(t, Goal(c))
       /\ \A i \in 1..Len(t.es) : t.es[i].step <= Goal(c)
       /\ c.stuck => \/ k.mode = "HALT"
                     \/ k.mode = "IDLE" /\ q = << >> /\ \A i \in (p + 1)..Len(t.es) : t.es[i].step > k.steps
  /\ c.phase = "HOST" /\ c.failed => Image(k) = was
  /\ c.phase = "HOST" \/ (c.phase = "SEEK" /\ k.steps = c.target) => k.prog = Loaded(t)

InputPart == InputsFit(Line) /\ LoadsFit(Line, images, loadNext) /\ LogFits(Line, log) /\ ~broken
MachinePart == /\ PosFits(Line, pos, m.steps, kcall) /\ Here(Line, m, queue, pos, kcall)
               /\ KernelFits(m, queue, call, kcall)
RingPart == RotFits(snaps, seq) /\ SnapsFit(Line, snaps)
StampPart == /\ AnchorFits(Line, log, pos, m, snaps[0].m) /\ Stamped(log, pos, snaps)
             /\ TickFits(m, snaps) /\ LastFits(m, kcall)
CallPart == CallFits(Line, m, queue, pos, call, kcall, before)

\* Everything fits the timeline, unless an input found the log full.
Overfull == Len(log) = LogCap /\ Len(given) = LogCap + 1
Fits == InputPart /\ MachinePart /\ RingPart /\ StampPart /\ CallPart
KernelIdle == ~kcall.active => kcall = NoKernelCall
TimeInv == KernelIdle /\ (Overfull \/ Fits)

\* No load has taken the image slot of another, and no tick wraps.
NoRecycling == loadNext <= LoadSlots
NoWrap == m.tick < TickMod - 1

\* Giving inputs one by one to the machines of a timeline.
LEMMA TakingIs ==
  ASSUME given \in Seq(Inputs), NEW w \in Worlds, NEW n
  PROVE  /\ Taking(w, n) \in [0..Len(given) -> Worlds] /\ Taking(w, n)[0] = w
         /\ \A i \in 1..Len(given) :
              Taking(w, n)[i] = IF given[i].step = n THEN Fed(Taking(w, n)[i - 1], given[i]) ELSE Taking(w, n)[i - 1]
         /\ \A i \in 0..Len(given) : Taking(w, n)[i].k.steps = w.k.steps
<1> DEFINE N == Len(given)
           S == {v \in Worlds : v.k.steps = w.k.steps}
           turn == [i \in 1..N |-> [v \in S |-> IF given[i].step = n THEN Fed(v, given[i]) ELSE v]]
           T(f) == [i \in 0..N |-> IF i = 0 THEN w
                                   ELSE IF given[i].step = n THEN Fed(f[i - 1], given[i]) ELSE f[i - 1]]
<1>1. N \in Nat /\ \A i \in 1..N : given[i] \in Inputs
  BY LenProperties, ElementOfSeq
<1>2. w \in S
  OBVIOUS
<1>3. turn \in [1..N -> [S -> S]]
  <2>1. ASSUME NEW i \in 1..N, NEW v \in S PROVE Fed(v, given[i]) \in S
    <3>1. given[i] \in Inputs /\ v \in Worlds /\ v.k.steps = w.k.steps
      BY <1>1
    <3>2. Fed(v, given[i]).k \in Machines /\ Fed(v, given[i]).q \in Queues /\ Fed(v, given[i]).k.steps = w.k.steps
      BY <3>1, FedType
    <3>3. Fed(v, given[i]) = [k |-> Fed(v, given[i]).k, q |-> Fed(v, given[i]).q]
      BY <3>1 DEF Fed, Worlds, Inputs, Entries
    <3>4. Fed(v, given[i]) \in Worlds
      BY <3>2, <3>3 DEF Worlds
    <3> QED BY <3>2, <3>4
  <2> HIDE DEF S
  <2> QED BY <2>1
<1>4. PICK f : IsRun(f, S, w, N, turn)
  <2> HIDE DEF S, turn, N
  <2> QED BY <1>1, <1>2, <1>3, Iteration
<1>5. f \in [0..N -> S] /\ f[0] = w /\ \A i \in 1..N : f[i] = turn[i][f[i - 1]]
  BY <1>4 DEF IsRun
<1>6. \A i \in 1..N : i - 1 \in 0..N
  BY <1>1
<1>7. f = T(f)
  <2>1. ASSUME NEW i \in 0..N PROVE f[i] = T(f)[i]
    <3>1. CASE i = 0
      BY <1>5, <3>1
    <3>2. CASE i # 0
      <4>1. i \in 1..N
        BY <3>2
      <4>2. f[i - 1] \in S
        BY <1>5, <1>6, <4>1
      <4>3. f[i] = turn[i][f[i - 1]]
        BY <1>5, <4>1
      <4> HIDE DEF S
      <4> QED BY <3>2, <4>1, <4>2, <4>3
    <3> QED BY <3>1, <3>2
  <2>2. T(f) = [i \in 0..N |-> T(f)[i]]
    OBVIOUS
  <2>3. f = [i \in 0..N |-> f[i]]
    <3> HIDE DEF S, N
    <3> QED BY <1>5
  <2> HIDE DEF T, N
  <2> QED BY <2>1, <2>2, <2>3
<1>8. Taking(w, n) = CHOOSE g : g = T(g)
  BY DEF Taking
<1> DEFINE g == CHOOSE g : g = T(g)
<1>9. g = T(g)
  <2> HIDE DEF T
  <2> QED BY <1>7
<1> HIDE DEF g
<1>10. DOMAIN g = 0..N /\ g[0] = w
       /\ \A i \in 1..N : g[i] = IF given[i].step = n THEN Fed(g[i - 1], given[i]) ELSE g[i - 1]
  <2>1. \A i \in 0..N : g[i] = T(g)[i]
    BY <1>9
  <2>2. 0 \in 0..N /\ \A i \in 1..N : i \in 0..N /\ i # 0
    BY <1>1
  <2>3. DOMAIN g = 0..N
    BY <1>9
  <2>4. \A i \in 0..N : g[i] = IF i = 0 THEN w
                                   ELSE IF given[i].step = n THEN Fed(g[i - 1], given[i]) ELSE g[i - 1]
    BY <2>1
  <2> HIDE DEF T, N
  <2> QED BY <2>2, <2>3, <2>4
<1>11. \A i \in 0..N : g[i] = f[i]
  <2> DEFINE Good == {i \in Nat : i \in 0..N => g[i] = f[i]}
  <2>1. 0 \in Good
    BY <1>5, <1>10
  <2>2. ASSUME NEW i \in 0..(N - 1), i \in Good PROVE i + 1 \in Good
    <3>1. i + 1 \in 1..N /\ (i + 1) - 1 = i /\ i \in 0..N
      BY <1>1
    <3>2. g[i] = f[i] /\ f[i] \in S
      BY <1>5, <2>2, <3>1
    <3>3. f[i + 1] = turn[i + 1][f[i]]
      BY <1>5, <3>1
    <3>4. f[i + 1] = IF given[i + 1].step = n THEN Fed(f[i], given[i + 1]) ELSE f[i]
      <4> HIDE DEF S
      <4> QED BY <3>1, <3>2, <3>3
    <3>5. g[i + 1] = IF given[i + 1].step = n THEN Fed(g[i], given[i + 1]) ELSE g[i]
      BY <1>10, <3>1
    <3> QED BY <3>1, <3>2, <3>4, <3>5
  <2>3. 0..N \subseteq Good
    <3> HIDE DEF Good, N
    <3> QED BY <1>1, <2>1, <2>2, UpTo
  <2> QED BY <1>1, <2>3
<1>12. \A i \in 0..N : g[i] \in Worlds /\ g[i].k.steps = w.k.steps
  BY <1>5, <1>11
<1>13. g \in [0..N -> Worlds]
  <2>1. g = [i \in 0..N |-> g[i]]
    BY <1>9
  <2> HIDE DEF N
  <2> QED BY <1>12, <2>1
<1>14. Taking(w, n) = g
  BY <1>8 DEF g
<1> HIDE DEF T
<1> QED BY <1>10, <1>12, <1>13, <1>14

\* The machine at a step with its inputs given goes on to the next, or stays for good.
LEMMA GoneOnType ==
  ASSUME code \in Codes, NEW w \in Worlds, w.k.steps + 1 <= MaxSteps
  PROVE  GoneOn(w) \in Worlds /\ GoneOn(w).k.steps <= w.k.steps + 1
<1> DEFINE v == IF CanWake(w) THEN Woken(w) ELSE w
<1>1. v \in Worlds /\ v.k.steps = w.k.steps
  <2>1. CASE CanWake(w)
    <3>1. w.q # << >>
      BY <2>1 DEF CanWake
    <3>2. Woken(w).k \in Machines /\ Woken(w).q \in Queues /\ Woken(w).k.steps = w.k.steps
      BY <3>1, WokenType
    <3>3. Woken(w) = [k |-> Woken(w).k, q |-> Woken(w).q]
      BY DEF Woken
    <3>4. Woken(w) \in Worlds
      BY <3>2, <3>3 DEF Worlds
    <3> QED BY <2>1, <3>2, <3>4
  <2>2. CASE ~CanWake(w)
    BY <2>2
  <2> QED BY <2>1, <2>2
<1> HIDE DEF v
<1>2. v.k.steps + 1 <= MaxSteps
  BY <1>1
<1>3. Executed(v).k \in Machines /\ Executed(v).q \in Queues /\ Executed(v).k.steps = v.k.steps + 1
  BY <1>1, <1>2, ExecutedType
<1>4. Executed(v) \in Worlds
  <2>1. Executed(v) = [k |-> Executed(v).k, q |-> Executed(v).q]
    BY DEF Executed
  <2> QED BY <1>3, <2>1 DEF Worlds
<1>5. w.k.steps \in Nat
  BY MachineFields DEF Worlds
<1>6. GoneOn(w) = IF v.k.mode = "RUN" THEN Executed(v) ELSE v
  BY DEF GoneOn, v
<1> QED BY <1>1, <1>3, <1>4, <1>5, <1>6

\* The machine tos_create makes is a machine.
LEMMA BootWorld == [k |-> Boot, q |-> << >>] \in Worlds
<1>1. << >> \in Queues
  BY EmptySeq, Bounds DEF Queues
<1> QED BY <1>1, BootType DEF Worlds

\* Straight is the timeline of the inputs given.
LEMMA LineIs ==
  code \in Codes /\ given \in Seq(Inputs) => IsLine(Line) /\ GoesOn(Line, Going)
<1> SUFFICES ASSUME code \in Codes, given \in Seq(Inputs) PROVE IsLine(Line) /\ GoesOn(Line, Going)
  OBVIOUS
<1> DEFINE N == MaxSteps
           L == Len(given)
           boot == [k |-> Boot, q |-> << >>]
           on(v, n) == GoneOn(Taking(v, n)[L])
           turn == [n \in 1..N |-> [v \in Worlds |-> on(v, n - 1)]]
           G == [n \in 0..N |-> {v \in Worlds : v.k.steps <= n}]
           T(f) == [n \in Steps |-> IF n = 0 THEN boot ELSE on(f[n - 1], n - 1)]
<1>1. N \in Nat /\ L \in Nat /\ L \in 0..L /\ Steps = 0..N /\ boot \in Worlds /\ boot.k.steps = 0
  BY LenProperties, Bounds, BootWorld, BootType DEF Steps
<1>2. ASSUME NEW n \in 1..N, NEW v \in Worlds, v.k.steps <= n - 1
      PROVE  on(v, n - 1) \in Worlds /\ on(v, n - 1).k.steps <= n
  <2> DEFINE w == Taking(v, n - 1)[L]
  <2>1. w \in Worlds /\ w.k.steps = v.k.steps
    BY <1>1, TakingIs
  <2>2. v.k.steps \in Nat
    BY MachineFields DEF Worlds
  <2> HIDE DEF w
  <2>3. w.k.steps + 1 <= MaxSteps
    BY <1>1, <1>2, <2>1, <2>2
  <2>4. GoneOn(w) \in Worlds /\ GoneOn(w).k.steps <= w.k.steps + 1
    BY <2>1, <2>3, GoneOnType
  <2>5. GoneOn(w).k.steps \in Nat
    BY <2>4, MachineFields DEF Worlds
  <2> QED BY <1>2, <2>1, <2>2, <2>4, <2>5 DEF w
<1> HIDE DEF on, boot
<1>3. Leads(turn, N, Worlds, G, boot)
  <2>1. G \in [0..N -> SUBSET Worlds] /\ boot \in G[0]
    BY <1>1
  <2>2. ASSUME NEW n \in 1..N, NEW v \in G[n - 1] PROVE turn[n][v] \in G[n]
    <3>1. n - 1 \in 0..N /\ n \in 0..N
      BY <1>1
    <3>2. v \in Worlds /\ v.k.steps <= n - 1
      BY <3>1
    <3>3. turn[n][v] = on(v, n - 1)
      BY <3>2
    <3> QED BY <1>2, <3>1, <3>2, <3>3
  <2> HIDE DEF turn, G
  <2> QED BY <1>1, <2>1, <2>2 DEF Leads
<1>4. PICK f : Takes(f, turn, N, Worlds, G, boot)
  <2> HIDE DEF turn, G, N
  <2> QED BY <1>3, FoldIn
<1>5. /\ f \in [0..N -> Worlds] /\ f[0] = boot /\ \A n \in 0..N : f[n] \in G[n]
      /\ \A n \in 1..N : f[n] = turn[n][f[n - 1]]
  BY <1>4 DEF Takes
<1>6. f = T(f)
  <2>1. ASSUME NEW n \in Steps PROVE f[n] = T(f)[n]
    <3>1. CASE n = 0
      BY <1>5, <3>1
    <3>2. CASE n # 0
      <4>1. n \in 1..N /\ n - 1 \in 0..N
        BY <1>1, <3>2
      <4>2. f[n - 1] \in Worlds /\ f[n] = turn[n][f[n - 1]]
        BY <1>5, <4>1
      <4> QED BY <3>2, <4>1, <4>2
    <3> QED BY <3>1, <3>2
  <2>2. T(f) = [n \in Steps |-> T(f)[n]]
    OBVIOUS
  <2>3. f = [n \in Steps |-> f[n]]
    <3> HIDE DEF N
    <3> QED BY <1>1, <1>5
  <2> HIDE DEF T
  <2> QED BY <2>1, <2>2, <2>3
<1>7. Straight = CHOOSE g : g = T(g)
  BY DEF Straight, on, boot
<1> DEFINE g == CHOOSE g : g = T(g)
<1>8. g = T(g)
  <2> HIDE DEF T
  <2> QED BY <1>6
<1> HIDE DEF g
<1>9. DOMAIN g = Steps /\ g[0] = boot /\ \A n \in 1..N : g[n] = on(g[n - 1], n - 1)
  <2>1. \A n \in Steps : g[n] = IF n = 0 THEN boot ELSE on(g[n - 1], n - 1)
    BY <1>8
  <2>2. DOMAIN g = Steps
    BY <1>8
  <2> HIDE DEF T
  <2> QED BY <1>1, <2>1, <2>2
<1>10. \A n \in 0..N : g[n] \in Worlds /\ g[n].k.steps <= n
  <2> DEFINE Good == {n \in Nat : n \in 0..N => g[n] \in Worlds /\ g[n].k.steps <= n}
  <2>1. 0 \in Good
    BY <1>1, <1>9
  <2>2. ASSUME NEW n \in 0..(N - 1), n \in Good PROVE n + 1 \in Good
    <3>1. n + 1 \in 1..N /\ (n + 1) - 1 = n /\ n \in 0..N
      BY <1>1
    <3> QED BY <1>2, <1>9, <2>2, <3>1
  <2>3. 0..N \subseteq Good
    <3> HIDE DEF Good, N
    <3> QED BY <1>1, <2>1, <2>2, UpTo
  <2> QED BY <1>1, <2>3
<1>11. Straight = g
  BY <1>7 DEF g
<1> HIDE DEF T
<1>12. Straight \in [Steps -> Worlds]
  <2>1. g = [n \in Steps |-> g[n]]
    BY <1>8 DEF T
  <2> QED BY <1>1, <1>10, <1>11, <2>1
<1>13. /\ Line.at = g /\ Line.es = given
       /\ \A n \in Steps : Line.fed[n] = Taking(g[n], n)
  BY <1>11 DEF Line, Feeding
<1>14. IsLine(Line)
  <2>1. ASSUME NEW n \in Steps
        PROVE  /\ g[n].k.steps <= n /\ Line.fed[n] \in [0..L -> Worlds] /\ Line.fed[n][0] = g[n]
               /\ \A i \in 1..L : Line.fed[n][i] = IF given[i].step = n THEN Fed(Line.fed[n][i - 1], given[i])
                                                   ELSE Line.fed[n][i - 1]
    <3>1. g[n] \in Worlds /\ g[n].k.steps <= n /\ Line.fed[n] = Taking(g[n], n)
      BY <1>1, <1>10, <1>13
    <3> QED BY <3>1, TakingIs
  <2> HIDE DEF L, N
  <2> QED BY <1>9, <1>11, <1>12, <1>13, <2>1 DEF IsLine, L, boot
<1>15. GoesOn(Line, Going)
  <2>1. ASSUME NEW n \in Steps, n + 1 \in Steps PROVE g[n + 1] = Going[Line.fed[n][L]]
    <3>1. n + 1 \in 1..N /\ (n + 1) - 1 = n /\ n \in 0..N
      BY <1>1, <2>1
    <3>2. g[n + 1] = GoneOn(Line.fed[n][L])
      BY <1>9, <1>13, <3>1 DEF on
    <3>3. Line.fed[n][L] \in Worlds
      BY <1>1, <1>10, <1>13, <3>1, TakingIs
    <3> QED BY <3>2, <3>3 DEF Going
  <2> QED BY <1>13, <2>1 DEF GoesOn
<1> QED BY <1>14, <1>15

---------------------------------------------------------------------------
(* What holds of any timeline.                                             *)

\* The values of a timeline are machines, its inputs entries.
LEMMA LineTypes ==
  ASSUME NEW t, IsLine(t)
  PROVE  /\ Len(t.es) \in Nat /\ \A i \in 1..Len(t.es) : t.es[i] \in Inputs /\ t.es[i].step \in Nat /\ t.es[i].step \in Steps
         /\ \A n \in Steps : /\ n \in Nat /\ t.at[n] \in Worlds /\ t.fed[n] \in [0..Len(t.es) -> Worlds] /\ t.fed[n][0] = t.at[n]
                             /\ \A i \in 0..Len(t.es) : t.fed[n][i] \in Worlds
<1>1. Len(t.es) \in Nat /\ \A i \in 1..Len(t.es) : t.es[i] \in Inputs
  BY LenProperties, ElementOfSeq DEF IsLine
<1>2. \A i \in 1..Len(t.es) : t.es[i].step \in Steps
  BY <1>1 DEF Inputs, Entries
<1>3. Steps \subseteq Nat
  BY Bounds
<1>4. \A n \in Steps : t.at[n] \in Worlds /\ t.fed[n] \in [0..Len(t.es) -> Worlds] /\ t.fed[n][0] = t.at[n]
  BY DEF IsLine
<1>5. \A n \in Steps : \A i \in 0..Len(t.es) : t.fed[n][i] \in Worlds
  BY <1>4
<1> QED BY <1>1, <1>2, <1>3, <1>4, <1>5

\* A timeline that gets to a step has been at every earlier one.
LEMMA ArrivesDown ==
  ASSUME NEW t, NEW n \in Nat, Arrives(t, n), NEW x \in Nat, x <= n
  PROVE  Arrives(t, x) /\ t.at[x].k.steps = x
BY DEF Arrives

\* One input more, of this step or of another.
LEMMA FedOne ==
  ASSUME NEW t, IsLine(t), NEW n \in Steps, NEW i \in 1..Len(t.es)
  PROVE  /\ t.es[i].step = n => t.fed[n][i] = Fed(t.fed[n][i - 1], t.es[i])
         /\ t.es[i].step # n => t.fed[n][i] = t.fed[n][i - 1]
         /\ t.fed[n][i - 1] \in Worlds /\ t.es[i] \in Inputs
<1>1. t.fed[n][i] = IF t.es[i].step = n THEN Fed(t.fed[n][i - 1], t.es[i]) ELSE t.fed[n][i - 1]
  BY DEF IsLine
<1>2. i - 1 \in 0..Len(t.es)
  BY LineTypes
<1> QED BY <1>1, <1>2, LineTypes

\* Inputs of other steps do not matter to the machine at step n.
LEMMA FedSame ==
  ASSUME NEW t, IsLine(t), NEW n \in Steps, NEW i \in 0..Len(t.es), NEW j \in i..Len(t.es),
         \A x \in (i + 1)..j : t.es[x].step # n
  PROVE  t.fed[n][j] = t.fed[n][i]
<1> DEFINE Good == {d \in Nat : d \in 0..(j - i) => t.fed[n][i + d] = t.fed[n][i]}
<1>1. Len(t.es) \in Nat
  BY LineTypes
<1>2. 0 \in Good
  BY <1>1
<1>3. ASSUME NEW d \in 0..((j - i) - 1), d \in Good PROVE d + 1 \in Good
  <2>1. i + (d + 1) \in 1..Len(t.es) /\ i + (d + 1) \in (i + 1)..j /\ (i + (d + 1)) - 1 = i + d /\ d \in 0..(j - i)
    BY <1>1
  <2>2. t.fed[n][i + (d + 1)] = t.fed[n][i + d]
    <3> DEFINE x == i + (d + 1)
    <3>1. x \in 1..Len(t.es) /\ t.es[x].step # n /\ x - 1 = i + d
      BY <2>1
    <3> HIDE DEF x
    <3>2. t.fed[n][x] = t.fed[n][x - 1]
      BY <3>1, FedOne
    <3> QED BY <3>1, <3>2 DEF x
  <2> QED BY <1>3, <2>1, <2>2
<1>4. j - i \in Nat /\ i + (j - i) = j
  BY <1>1
<1>5. 0..(j - i) \subseteq Good
  <2> HIDE DEF Good
  <2> QED BY <1>2, <1>3, <1>4, UpTo
<1> QED BY <1>4, <1>5

\* What an input changes.
LEMMA FedIs ==
  ASSUME NEW w \in Worlds, NEW e \in Inputs
  PROVE  /\ e.kind \in {"CON", "KEYS", "LOAD"}
         /\ Fed(w, e) \in Worlds
         /\ Fed(w, e).k.steps = w.k.steps /\ Fed(w, e).k.took = w.k.took
         /\ Fed(w, e).k.tick = w.k.tick /\ Fed(w, e).k.lastSnap = w.k.lastSnap
         /\ e.kind # "LOAD" => Fed(w, e).k.mode = w.k.mode /\ Fed(w, e).k.prog = w.k.prog
         /\ e.kind = "LOAD" => Fed(w, e).k.mode = "RUN" /\ Fed(w, e).k.prog = e.tag + 1
         /\ e.kind # "KEYS" => Fed(w, e).k.keys = w.k.keys
         /\ e.kind = "KEYS" => Fed(w, e).k.keys = e.value
         /\ e.kind # "CON" => Fed(w, e).q = w.q
         /\ e.kind = "CON" /\ w.q = << >> => Fed(w, e).q = << e.value >>
<1>1. e.kind \in {"CON", "KEYS", "LOAD"} /\ w.k \in Machines /\ w = [k |-> w.k, q |-> w.q]
  BY DEF Inputs, Entries, Worlds
<1>2. Fed(w, e) \in Worlds
  <2>1. Fed(w, e).k \in Machines /\ Fed(w, e).q \in Queues
    BY FedType
  <2>2. Fed(w, e) = [k |-> Fed(w, e).k, q |-> Fed(w, e).q]
    BY <1>1 DEF Fed, Worlds
  <2> QED BY <2>1, <2>2 DEF Worlds
<1>3. CASE e.kind = "CON"
  <2>1. Fed(w, e) = [w EXCEPT !.q = IF Len(@) < QueueCap THEN Append(@, e.value) ELSE @]
    BY <1>3 DEF Fed
  <2>2. Fed(w, e).k = w.k /\ Fed(w, e).q = IF Len(w.q) < QueueCap THEN Append(w.q, e.value) ELSE w.q
    BY <1>1, <2>1
  <2>3. w.q = << >> => Fed(w, e).q = << e.value >>
    BY <2>2, Bounds
  <2> QED BY <1>1, <1>2, <1>3, <2>2, <2>3
<1>4. CASE e.kind = "KEYS"
  <2>1. Fed(w, e) = [w EXCEPT !.k.keys = e.value]
    BY <1>4 DEF Fed
  <2>2. Fed(w, e).k = [w.k EXCEPT !.keys = e.value] /\ Fed(w, e).q = w.q
    BY <1>1, <2>1
  <2> QED BY <1>1, <1>2, <1>4, <2>2 DEF Machines
<1>5. CASE e.kind = "LOAD"
  <2>1. Fed(w, e) = [w EXCEPT !.k.mode = "RUN", !.k.prog = e.tag + 1]
    BY <1>5 DEF Fed
  <2>2. Fed(w, e).k = [[w.k EXCEPT !.mode = "RUN"] EXCEPT !.prog = e.tag + 1] /\ Fed(w, e).q = w.q
    BY <1>1, <2>1
  <2> QED BY <1>1, <1>2, <1>5, <2>2 DEF Machines
<1> QED BY <1>1, <1>3, <1>4, <1>5

\* Inputs do not change what the program has seen, but for what a load at step 0 loads.
FedSees(w, v, n) ==
  /\ w.k.steps = v.k.steps /\ w.k.took = v.k.took /\ w.k.mode = v.k.mode /\ w.k.tick = v.k.tick
  /\ n > 0 => w.k.prog = v.k.prog
\* With the loads at step 0, the inputs of a later step change only keys and queue.
LEMMA FedKeeps ==
  ASSUME NEW t, IsLine(t), \A x \in 1..Len(t.es) : t.es[x].kind = "LOAD" => t.es[x].step = 0,
         NEW n \in Steps, NEW i \in 0..Len(t.es)
  PROVE  FedSees(t.fed[n][i], t.at[n], n)
<1> DEFINE L == Len(t.es)
           Good == {x \in Nat : x \in 0..L => FedSees(t.fed[n][x], t.at[n], n)}
<1>1. L \in Nat /\ n \in Nat
  BY LineTypes
<1>2. 0 \in Good
  <2>1. t.fed[n][0] = t.at[n]
    BY LineTypes
  <2> QED BY <2>1 DEF FedSees
<1>3. ASSUME NEW x \in 0..(L - 1), x \in Good PROVE x + 1 \in Good
  <2> DEFINE w == t.fed[n][x]
             e == t.es[x + 1]
  <2>1. x \in 0..L /\ x + 1 \in 1..L /\ (x + 1) - 1 = x /\ x + 1 \in Nat
    BY <1>1
  <2>2. /\ e.step = n => t.fed[n][x + 1] = Fed(w, e)
        /\ e.step # n => t.fed[n][x + 1] = w
        /\ w \in Worlds /\ e \in Inputs
    <3> DEFINE y == x + 1
    <3>1. y \in 1..L /\ y - 1 = x
      BY <2>1
    <3> HIDE DEF y
    <3>2. /\ t.es[y].step = n => t.fed[n][y] = Fed(t.fed[n][y - 1], t.es[y])
          /\ t.es[y].step # n => t.fed[n][y] = t.fed[n][y - 1]
          /\ t.fed[n][y - 1] \in Worlds /\ t.es[y] \in Inputs
      BY <3>1, FedOne
    <3> QED BY <3>1, <3>2 DEF y
  <2>3. FedSees(w, t.at[n], n)
    BY <1>3, <2>1
  <2>4. e.kind = "LOAD" => e.step = 0
    BY <2>1
  <2> HIDE DEF w, e
  <2>5. CASE e.step # n
    BY <2>1, <2>2, <2>3, <2>5
  <2>6. CASE e.step = n
    <3>1. /\ Fed(w, e).k.steps = w.k.steps /\ Fed(w, e).k.took = w.k.took /\ Fed(w, e).k.tick = w.k.tick
          /\ e.kind # "LOAD" => Fed(w, e).k.mode = w.k.mode /\ Fed(w, e).k.prog = w.k.prog
          /\ e.kind = "LOAD" => Fed(w, e).k.mode = "RUN"
      BY <2>2, FedIs
    <3>2. CASE e.kind = "LOAD"
      <4>1. n = 0 /\ t.at[n].k.mode = "RUN"
        BY <2>4, <2>6, <3>2 DEF IsLine, Boot
      <4> QED BY <2>1, <2>2, <2>3, <2>6, <3>1, <3>2, <4>1 DEF FedSees
    <3>3. CASE e.kind # "LOAD"
      BY <2>1, <2>2, <2>3, <2>6, <3>1, <3>3 DEF FedSees
    <3> QED BY <3>2, <3>3
  <2> QED BY <2>5, <2>6
<1>4. 0..L \subseteq Good
  <2> HIDE DEF Good, L
  <2> QED BY <1>1, <1>2, <1>3, UpTo
<1> QED BY <1>1, <1>4

\* What waking changes.
LEMMA WokenIs ==
  ASSUME NEW w \in Worlds, CanWake(w)
  PROVE  /\ Woken(w) \in Worlds /\ Woken(w).k.mode = "RUN" /\ Woken(w).q = Tail(w.q)
         /\ Woken(w).k.took = Append(w.k.took, <<"byte", Head(w.q)>>)
         /\ Woken(w).k.steps = w.k.steps /\ Woken(w).k.keys = w.k.keys /\ Woken(w).k.prog = w.k.prog
         /\ Woken(w).k.tick = w.k.tick /\ Woken(w).k.lastSnap = w.k.lastSnap
<1>1. w.q # << >> /\ w.k \in Machines
  BY DEF CanWake, Worlds
<1>2. Woken(w) = [k |-> [Learn(w.k, "byte", Head(w.q)) EXCEPT !.mode = "RUN"], q |-> Tail(w.q)]
  BY DEF Woken
<1>3. Woken(w).k = [[w.k EXCEPT !.took = Append(w.k.took, <<"byte", Head(w.q)>>)] EXCEPT !.mode = "RUN"]
  BY <1>2 DEF Learn
<1>4. Woken(w) \in Worlds
  <2>1. Woken(w).k \in Machines /\ Woken(w).q \in Queues
    BY <1>1, WokenType
  <2> QED BY <1>2, <2>1 DEF Worlds
<1> DEFINE k == [w.k EXCEPT !.took = Append(w.k.took, <<"byte", Head(w.q)>>)]
<1>5. /\ k.took = Append(w.k.took, <<"byte", Head(w.q)>>) /\ k.steps = w.k.steps /\ k.keys = w.k.keys
      /\ k.prog = w.k.prog /\ k.tick = w.k.tick /\ k.lastSnap = w.k.lastSnap
      /\ k = [steps |-> k.steps, tick |-> k.tick, mode |-> k.mode, took |-> k.took, prog |-> k.prog,
              keys |-> k.keys, lastSnap |-> k.lastSnap]
  <2> DEFINE T == Append(w.k.took, <<"byte", Head(w.q)>>)
             j == w.k
  <2>1. j = [steps |-> j.steps, tick |-> j.tick, mode |-> j.mode, took |-> j.took, prog |-> j.prog,
             keys |-> j.keys, lastSnap |-> j.lastSnap]
    BY <1>1 DEF Machines
  <2>2. k = [j EXCEPT !.took = T]
    OBVIOUS
  <2> HIDE DEF T, j, k
  <2>3. k = [steps |-> j.steps, tick |-> j.tick, mode |-> j.mode, took |-> T, prog |-> j.prog,
             keys |-> j.keys, lastSnap |-> j.lastSnap]
    BY <2>1, <2>2
  <2>4. k.took = T /\ k.steps = j.steps /\ k.keys = j.keys /\ k.prog = j.prog /\ k.tick = j.tick /\ k.lastSnap = j.lastSnap
        /\ k = [steps |-> k.steps, tick |-> k.tick, mode |-> k.mode, took |-> k.took, prog |-> k.prog,
                keys |-> k.keys, lastSnap |-> k.lastSnap]
    BY <2>3
  <2> QED BY <2>4 DEF j, T
<1> HIDE DEF k
<1>6. Woken(w).k = [k EXCEPT !.mode = "RUN"]
  BY <1>3 DEF k
<1>7. Woken(w).k = [steps |-> k.steps, tick |-> k.tick, mode |-> "RUN", took |-> k.took, prog |-> k.prog,
                    keys |-> k.keys, lastSnap |-> k.lastSnap]
  BY <1>5, <1>6
<1> QED BY <1>2, <1>4, <1>5, <1>7

\* What an instruction changes: the machine after it, waiting or not, having seen what it has.
AfterIt(k, mode, took) ==
  [steps |-> k.steps + 1, tick |-> k.tick, mode |-> mode, took |-> took, prog |-> k.prog, keys |-> k.keys,
   lastSnap |-> k.lastSnap]
Saw(k, what, value) == Append(k.took, <<what, value>>)
Does(w, kind) ==
  /\ kind = "CONIN" /\ w.q = << >> => Executed(w) = [k |-> AfterIt(w.k, "IDLE", w.k.took), q |-> w.q]
  /\ kind = "CONIN" /\ w.q # << >> =>
       Executed(w) = [k |-> AfterIt(w.k, w.k.mode, Saw(w.k, "byte", Head(w.q))), q |-> Tail(w.q)]
  /\ kind = "CONST" /\ w.q = << >> => Executed(w) = [k |-> AfterIt(w.k, w.k.mode, Saw(w.k, "ready", 0)), q |-> w.q]
  /\ kind = "CONST" /\ w.q # << >> => Executed(w) = [k |-> AfterIt(w.k, w.k.mode, Saw(w.k, "ready", 1)), q |-> w.q]
  /\ kind = "KEYS" => Executed(w) = [k |-> AfterIt(w.k, w.k.mode, Saw(w.k, "keys", w.k.keys)), q |-> w.q]
  /\ kind = "HLT" => Executed(w) = [k |-> AfterIt(w.k, "HALT", w.k.took), q |-> w.q]
  /\ kind \notin {"CONIN", "CONST", "KEYS", "HLT"} => Executed(w) = [k |-> AfterIt(w.k, w.k.mode, w.k.took), q |-> w.q]
\* Each kind of instruction, field by field.
LEMMA ExecutedDoes ==
  ASSUME NEW w \in Worlds
  PROVE  Does(w, code[w.k.steps + 1])
<1> DEFINE next == [w.k EXCEPT !.steps = @ + 1]
           kind == code[w.k.steps + 1]
<1>1. w.k \in Machines
  BY DEF Worlds
<1>2. next = AfterIt(w.k, w.k.mode, w.k.took)
  <2>1. w.k = [steps |-> w.k.steps, tick |-> w.k.tick, mode |-> w.k.mode, took |-> w.k.took, prog |-> w.k.prog,
               keys |-> w.k.keys, lastSnap |-> w.k.lastSnap]
    BY <1>1 DEF Machines
  <2> QED BY <2>1 DEF AfterIt
<1>3. code[next.steps] = kind /\ [next EXCEPT !.mode = "IDLE"] = AfterIt(w.k, "IDLE", w.k.took)
      /\ [next EXCEPT !.mode = "HALT"] = AfterIt(w.k, "HALT", w.k.took)
  <2> HIDE DEF next
  <2> QED BY <1>2 DEF AfterIt
<1>4. ASSUME NEW what, NEW value PROVE Learn(next, what, value) = AfterIt(w.k, w.k.mode, Saw(w.k, what, value))
  <2>1. next.took = w.k.took /\ Learn(next, what, value) = [next EXCEPT !.took = Append(@, <<what, value>>)]
    BY <1>2 DEF Learn, AfterIt
  <2> DEFINE T == Append(w.k.took, <<what, value>>)
  <2> HIDE DEF next, T
  <2>2. Learn(next, what, value) = [next EXCEPT !.took = T]
    BY <2>1 DEF T
  <2>3. Learn(next, what, value) = AfterIt(w.k, w.k.mode, T)
    BY <1>2, <2>2 DEF AfterIt
  <2> QED BY <2>3 DEF Saw, T
<1>5. Executed(w) =
        [k |-> CASE code[next.steps] = "CONIN" -> IF w.q = <<>> THEN [next EXCEPT !.mode = "IDLE"]
                                                  ELSE Learn(next, "byte", Head(w.q))
                 [] code[next.steps] = "CONST" -> Learn(next, "ready", IF w.q = <<>> THEN 0 ELSE 1)
                 [] code[next.steps] = "KEYS"  -> Learn(next, "keys", w.k.keys)
                 [] code[next.steps] = "HLT"   -> [next EXCEPT !.mode = "HALT"]
                 [] OTHER -> next,
         q |-> IF code[next.steps] = "CONIN" /\ w.q # <<>> THEN Tail(w.q) ELSE w.q]
  BY DEF Executed
<1>6. Executed(w) =
        [k |-> CASE kind = "CONIN" -> IF w.q = <<>> THEN AfterIt(w.k, "IDLE", w.k.took)
                                      ELSE AfterIt(w.k, w.k.mode, Saw(w.k, "byte", Head(w.q)))
                 [] kind = "CONST" -> AfterIt(w.k, w.k.mode, Saw(w.k, "ready", IF w.q = <<>> THEN 0 ELSE 1))
                 [] kind = "KEYS"  -> AfterIt(w.k, w.k.mode, Saw(w.k, "keys", w.k.keys))
                 [] kind = "HLT"   -> AfterIt(w.k, "HALT", w.k.took)
                 [] OTHER -> AfterIt(w.k, w.k.mode, w.k.took),
         q |-> IF kind = "CONIN" /\ w.q # <<>> THEN Tail(w.q) ELSE w.q]
  <2> HIDE DEF next, kind
  <2> QED BY <1>2, <1>3, <1>4, <1>5
<1> HIDE DEF next, kind
<1>7. kind = "CONIN" => kind # "CONST" /\ kind # "KEYS" /\ kind # "HLT"
  OBVIOUS
<1> QED BY <1>6 DEF Does, kind

\* Whatever the instruction, what it leaves alone; a machine parked by one has an empty queue.
LEMMA ExecutedIs ==
  ASSUME NEW w \in Worlds
  PROVE  /\ Executed(w).k.steps = w.k.steps + 1 /\ Executed(w).k.keys = w.k.keys /\ Executed(w).k.prog = w.k.prog
         /\ Executed(w).k.tick = w.k.tick /\ Executed(w).k.lastSnap = w.k.lastSnap
         /\ w.q = << >> => Executed(w).q = << >>
         /\ w.k.mode = "RUN" => Executed(w).k.mode # "IDLE" \/ Executed(w).q = << >>
<1> DEFINE kind == code[w.k.steps + 1]
<1>1. Does(w, kind)
  BY ExecutedDoes
<1> HIDE DEF kind
<1> QED BY <1>1 DEF Does, AfterIt

\* Machines alike do alike, whatever their ticks and snapshots.
LEMMA ExecutedLike ==
  ASSUME NEW v \in Worlds, NEW w \in Worlds, Like(v.k, v.q, w), v.k.steps = w.k.steps, v.k.keys = w.k.keys
  PROVE  Like(Executed(v).k, Executed(v).q, Executed(w))
<1> DEFINE kind == code[w.k.steps + 1]
<1>1. Does(w, kind) /\ Does(v, kind)
  BY ExecutedDoes
<1>2. v.k.mode = w.k.mode /\ v.k.took = w.k.took /\ v.q = w.q
  BY DEF Like
<1> HIDE DEF kind
<1>3. \A what, value : Saw(v.k, what, value) = Saw(w.k, what, value)
  BY <1>2 DEF Saw
<1>4. CASE w.q = << >>
  BY <1>1, <1>2, <1>3, <1>4 DEF Does, AfterIt, Like
<1>5. CASE w.q # << >>
  BY <1>1, <1>2, <1>3, <1>5 DEF Does, AfterIt, Like
<1> QED BY <1>4, <1>5

\* The machine a step finds: a parked one that has a byte is woken first.
Rising(w) == IF CanWake(w) THEN Woken(w) ELSE w
\* Waking is the first half of going on to the next step.
LEMMA RisingIs ==
  ASSUME NEW w \in Worlds
  PROVE  /\ Rising(w) \in Worlds /\ Rising(w).k.steps = w.k.steps
         /\ Rising(w).k.keys = w.k.keys /\ Rising(w).k.prog = w.k.prog
         /\ Rising(w).k.mode = "RUN" => GoneOn(w) = Executed(Rising(w))
         /\ Rising(w).k.mode # "RUN" => GoneOn(w).k.steps = w.k.steps
         /\ GoneOn(w).k.prog = w.k.prog
<1>1. /\ Rising(w) \in Worlds /\ Rising(w).k.steps = w.k.steps
      /\ Rising(w).k.keys = w.k.keys /\ Rising(w).k.prog = w.k.prog
  BY WokenIs DEF Rising
<1>2. GoneOn(w) = IF Rising(w).k.mode = "RUN" THEN Executed(Rising(w)) ELSE Rising(w)
  BY DEF GoneOn, Rising
<1>3. Executed(Rising(w)).k.prog = Rising(w).k.prog
  BY <1>1, ExecutedIs
<1> QED BY <1>1, <1>2, <1>3

LoadsFirst(t) == \A x \in 1..Len(t.es) : t.es[x].kind = "LOAD" => t.es[x].step = 0

\* Past step 0 the program loaded is the same.
LEMMA ProgIs ==
  ASSUME NEW t, IsLine(t), GoesOn(t, Going), LoadsFirst(t), NEW n \in Steps
  PROVE  /\ t.fed[n][Len(t.es)].k.prog = Loaded(t)
         /\ n > 0 => t.at[n].k.prog = Loaded(t)
<1> DEFINE L == Len(t.es)
           Good == {x \in Nat : x \in Steps => t.fed[x][L].k.prog = Loaded(t)}
<1>1. MaxSteps \in Nat /\ Steps = 0..MaxSteps /\ L \in Nat /\ L \in 0..L
  BY Bounds, LineTypes DEF Steps
<1>2. ASSUME NEW x \in Steps, x + 1 \in Steps PROVE t.at[x + 1].k.prog = t.fed[x][L].k.prog
  <2>1. t.at[x + 1] = Going[t.fed[x][L]] /\ t.fed[x][L] \in Worlds
    BY <1>1, <1>2, LineTypes DEF GoesOn
  <2>2. Going[t.fed[x][L]] = GoneOn(t.fed[x][L])
    BY <2>1 DEF Going
  <2> QED BY <2>1, <2>2, RisingIs
<1>3. ASSUME NEW x \in Steps, x > 0 PROVE t.fed[x][L].k.prog = t.at[x].k.prog
  <2>1. FedSees(t.fed[x][L], t.at[x], x)
    BY <1>1, FedKeeps DEF LoadsFirst
  <2> QED BY <1>3, <2>1 DEF FedSees
<1>4. 0 \in Good
  BY <1>1 DEF Loaded
<1>5. ASSUME NEW x \in 0..(MaxSteps - 1), x \in Good PROVE x + 1 \in Good
  <2>1. x \in Steps /\ x + 1 \in Steps /\ x + 1 > 0 /\ x + 1 \in Nat
    BY <1>1
  <2>2. t.fed[x][L].k.prog = Loaded(t)
    BY <1>5, <2>1
  <2>3. t.at[x + 1].k.prog = t.fed[x][L].k.prog
    BY <1>2, <2>1
  <2>4. t.fed[x + 1][L].k.prog = t.at[x + 1].k.prog
    <3> DEFINE y == x + 1
    <3> HIDE DEF y, L
    <3>1. y \in Steps /\ y > 0 => t.fed[y][L].k.prog = t.at[y].k.prog
      BY <1>3
    <3> QED BY <2>1, <3>1 DEF y
  <2> QED BY <2>1, <2>2, <2>3, <2>4
<1>6. 0..MaxSteps \subseteq Good
  <2> HIDE DEF Good
  <2> QED BY <1>1, <1>4, <1>5, UpTo
<1>7. t.fed[n][L].k.prog = Loaded(t)
  BY <1>1, <1>6
<1> QED BY <1>3, <1>7

\* A timeline that gets further than step n runs on from it; and where it runs on it arrives.
LEMMA RunsOn ==
  ASSUME NEW t, IsLine(t), GoesOn(t, Going), LoadsFirst(t), NEW n \in Steps, Arrives(t, n)
  PROVE  /\ \A x \in Steps : x > n /\ Arrives(t, x) => Rising(t.fed[n][Len(t.es)]).k.mode = "RUN"
         /\ n + 1 \in Steps /\ Rising(t.fed[n][Len(t.es)]).k.mode = "RUN" =>
              /\ t.at[n + 1] = Executed(Rising(t.fed[n][Len(t.es)]))
              /\ Arrives(t, n + 1)
<1> DEFINE w == t.fed[n][Len(t.es)]
<1>1. w \in Worlds /\ n \in Nat /\ Len(t.es) \in 0..Len(t.es)
  BY LineTypes
<1>2. w.k.steps = n
  <2>1. FedSees(w, t.at[n], n)
    BY <1>1, FedKeeps DEF LoadsFirst
  <2>2. t.at[n].k.steps = n
    BY <1>1 DEF Arrives
  <2> HIDE DEF w
  <2> QED BY <2>1, <2>2 DEF FedSees
<1>3. n + 1 \in Steps => t.at[n + 1] = GoneOn(w)
  BY <1>1 DEF GoesOn, Going
<1> HIDE DEF w
<1>4. ASSUME NEW x \in Steps, x > n, Arrives(t, x) PROVE Rising(w).k.mode = "RUN"
  <2>1. n + 1 \in Steps /\ n + 1 \in 0..x
    BY <1>1, <1>4, Bounds DEF Steps
  <2>2. t.at[n + 1].k.steps = n + 1
    BY <1>4, <2>1 DEF Arrives
  <2>3. GoneOn(w).k.steps # w.k.steps
    BY <1>1, <1>2, <1>3, <2>1, <2>2
  <2> QED BY <1>1, <2>3, RisingIs
<1>5. ASSUME n + 1 \in Steps, Rising(w).k.mode = "RUN"
      PROVE  t.at[n + 1] = Executed(Rising(w)) /\ Arrives(t, n + 1)
  <2>1. t.at[n + 1] = Executed(Rising(w))
    BY <1>1, <1>3, <1>5, RisingIs
  <2>2. t.at[n + 1].k.steps = n + 1
    <3>1. Rising(w) \in Worlds /\ Rising(w).k.steps = n
      BY <1>1, <1>2, RisingIs
    <3> QED BY <2>1, <3>1, ExecutedIs
  <2>3. ASSUME NEW x \in 0..(n + 1) PROVE t.at[x].k.steps = x
    <3>1. x = n + 1 \/ x \in 0..n
      BY <1>1
    <3> QED BY <2>2, <3>1 DEF Arrives
  <2> QED BY <2>1, <2>3 DEF Arrives
<1> QED BY <1>4, <1>5 DEF w

\* Timelines with the same inputs before step N are the same up to it.
Agree(t, u, N) ==
  \A n \in 0..N : u.at[n] = t.at[n] /\ \A i \in 0..Len(t.es) : u.fed[n][i] = t.fed[n][i]
\* Two timelines whose inputs differ only from step N on are the same up to N.
LEMMA LinesAgree ==
  ASSUME NEW t, NEW u, IsLine(t), GoesOn(t, Going), IsLine(u), GoesOn(u, Going), NEW N \in Steps,
         Len(t.es) <= Len(u.es), \A i \in 1..Len(t.es) : u.es[i] = t.es[i],
         \A i \in (Len(t.es) + 1)..Len(u.es) : u.es[i].step >= N
  PROVE  Agree(t, u, N)
<1> DEFINE L == Len(t.es)
           M == Len(u.es)
<1>1. L \in Nat /\ M \in Nat /\ L <= M /\ N \in Nat /\ Steps = 0..MaxSteps /\ MaxSteps \in Nat
  BY LineTypes, Bounds DEF Steps
<1>2. ASSUME NEW n \in Steps, u.at[n] = t.at[n] PROVE \A i \in 0..L : u.fed[n][i] = t.fed[n][i]
  <2> DEFINE Good == {i \in Nat : i \in 0..L => u.fed[n][i] = t.fed[n][i]}
  <2>1. 0 \in Good
    BY <1>2, LineTypes
  <2>2. ASSUME NEW i \in 0..(L - 1), i \in Good PROVE i + 1 \in Good
    <3> DEFINE y == i + 1
    <3>1. y \in 1..L /\ y \in 1..M /\ y - 1 = i /\ i \in 0..L /\ y \in Nat
      BY <1>1
    <3>2. u.fed[n][y - 1] = t.fed[n][y - 1]
      BY <2>2, <3>1
    <3> HIDE DEF y
    <3>3. /\ t.es[y].step = n => t.fed[n][y] = Fed(t.fed[n][y - 1], t.es[y])
          /\ t.es[y].step # n => t.fed[n][y] = t.fed[n][y - 1]
      BY <3>1, FedOne
    <3>4. /\ u.es[y].step = n => u.fed[n][y] = Fed(u.fed[n][y - 1], u.es[y])
          /\ u.es[y].step # n => u.fed[n][y] = u.fed[n][y - 1]
      BY <3>1, FedOne
    <3>5. u.es[y] = t.es[y]
      BY <3>1
    <3>6. u.fed[n][y] = t.fed[n][y]
      BY <3>2, <3>3, <3>4, <3>5
    <3> QED BY <3>1, <3>6 DEF y
  <2>3. 0..L \subseteq Good
    <3> HIDE DEF Good, L
    <3> QED BY <1>1, <2>1, <2>2, UpTo
  <2> QED BY <1>1, <2>3
<1> DEFINE Good == {n \in Nat : n \in 0..N => u.at[n] = t.at[n]}
<1>3. 0 \in Good
  BY DEF IsLine
<1>4. ASSUME NEW n \in 0..(N - 1), n \in Good PROVE n + 1 \in Good
  <2>1. n \in Steps /\ n + 1 \in Steps /\ n \in 0..N /\ n + 1 \in Nat /\ n < N /\ n \in Nat
    BY <1>1
  <2>2. \A i \in 0..L : u.fed[n][i] = t.fed[n][i]
    BY <1>2, <1>4, <2>1
  <2>3. u.fed[n][M] = u.fed[n][L]
    <3>1. L \in 0..M /\ M \in L..M
      BY <1>1
    <3>2. \A x \in (L + 1)..M : u.es[x].step # n
      <4> TAKE x \in (L + 1)..M
      <4>1. u.es[x].step >= N /\ u.es[x].step \in Nat
        <5>1. x \in 1..M
          BY <1>1
        <5> QED BY <5>1, LineTypes
      <4> QED BY <1>1, <2>1, <4>1
    <3> HIDE DEF L
    <3>3. L \in 0..Len(u.es) /\ M \in L..Len(u.es)
      BY <3>1
    <3> HIDE DEF M
    <3> QED BY <2>1, <3>2, <3>3, FedSame
  <2>4. t.at[n + 1] = Going[t.fed[n][L]] /\ u.at[n + 1] = Going[u.fed[n][M]]
    BY <2>1 DEF GoesOn
  <2>5. L \in 0..L
    BY <1>1
  <2> QED BY <2>1, <2>2, <2>3, <2>4, <2>5
<1>5. 0..N \subseteq Good
  <2> HIDE DEF Good
  <2> QED BY <1>1, <1>3, <1>4, UpTo
<1>6. \A n \in 0..N : n \in Steps /\ u.at[n] = t.at[n]
  BY <1>1, <1>5
<1> QED BY <1>2, <1>6 DEF Agree

\* The program does not change: neither does what it does.
LEMMA GoingStill ==
  ASSUME code' = code
  PROVE  Going' = Going
<1>1. ASSUME NEW w PROVE GoneOn(w)' = GoneOn(w)
  BY DEF GoneOn, Executed
<1> QED BY <1>1 DEF Going

---------------------------------------------------------------------------
(* The rotating slots.                                                     *)

\* Two numbers at most one modulus apart with the same remainder are one modulus apart.
LEMMA ModGap ==
  ASSUME NEW M \in Nat, M > 0, NEW a \in Nat, NEW b \in Nat, b < a, a <= b + M
  PROVE  a % M = b % M <=> a = b + M
<1>1. a % M \in 0..(M - 1) /\ b % M \in 0..(M - 1)
  OBVIOUS
<1>2. a \div M \in Int /\ b \div M \in Int
  OBVIOUS
<1>3. a = M * (a \div M) + (a % M)
  OBVIOUS
<1>4. b = M * (b \div M) + (b % M)
  OBVIOUS
<1> DEFINE x == a \div M
           y == b \div M
           r == a % M
           s == b % M
<1>5. x \in Int /\ y \in Int /\ a = M * x + r /\ b = M * y + s /\ r \in Int /\ s \in Int /\ 0 <= r /\ r < M /\ 0 <= s /\ s < M
  BY <1>1, <1>2, <1>3, <1>4
<1> HIDE DEF x, y, r, s
<1> DEFINE d == x - y
<1>6. d \in Int /\ M * x - M * y = M * d
  BY <1>5
<1>7. M * d \in Int /\ M * x \in Int /\ M * y \in Int
  BY <1>6, <1>5
<1>8. d <= 0 => M * d <= 0
  BY <1>6
<1>9. d >= 2 => M * d >= 2 * M
  BY <1>6
<1>10. d = 1 => M * d = M
  BY <1>6
<1> DEFINE p == M * d
           px == M * x
           py == M * y
<1>11. p \in Int /\ px \in Int /\ py \in Int /\ a = px + r /\ b = py + s /\ px - py = p
       /\ (d <= 0 => p <= 0) /\ (d >= 2 => p >= 2 * M) /\ (d = 1 => p = M)
  BY <1>5, <1>6, <1>7, <1>8, <1>9, <1>10
<1> HIDE DEF p, px, py, d
<1>12. a - b = p + (r - s)
  BY <1>11, <1>5
<1>13. r = s => a = b + M
  BY <1>5, <1>6, <1>11, <1>12
<1>14. a = b + M => r = s
  BY <1>5, <1>6, <1>11, <1>12
<1> QED BY <1>13, <1>14 DEF r, s

\* Saving a snapshot of a later step than 0 takes the rotating slot with the oldest snapshot.
Saves(k, x) ==
  /\ x \in 0..Rotating /\ seq' = seq + 1
  /\ snaps'[x] = [seq |-> seq + 1, m |-> k] /\ \A i \in 0..Rotating : i # x => snaps'[i] = snaps[i]
\* A save of step 0 goes to slot 0, any other to the slot whose turn it is.
LEMMA SaveIs ==
  ASSUME RingInv, RingTyped(snaps, seq), NEW k, k.steps \in Nat, Save(k)
  PROVE  /\ k.steps = 0 => Saves(k, 0)
         /\ k.steps # 0 => 1 + ((seq - 1) % Rotating) \in 1..Rotating /\ Saves(k, 1 + ((seq - 1) % Rotating))
<1>1. /\ Slots \in Nat /\ Slots >= 2 /\ seq \in Nat /\ seq >= 1 /\ Rotating \in Nat \ {0} /\ 0..Rotating = 0..(Slots - 1)
      /\ snaps[0].m.steps = 0 /\ Rotating = Slots - 1
  BY Bounds DEF RingInv, AnchorKept, Rotating
<1>2. SlotFor(k) = IF k.steps = 0 THEN 0 ELSE 1 + ((seq - 1) % Rotating)
  BY <1>1 DEF SlotFor
<1>3. (seq - 1) % Rotating \in 0..(Rotating - 1)
  BY <1>1
<1>4. SlotFor(k) \in 0..Rotating
  BY <1>1, <1>2, <1>3
<1>5. snaps \in [0..Rotating -> [seq : Nat, m : Machines]]
  BY <1>1 DEF RingTyped
<1>6. Saves(k, SlotFor(k))
  <2>1. snaps' = [snaps EXCEPT ![SlotFor(k)] = [seq |-> seq + 1, m |-> k]] /\ seq' = seq + 1
    BY DEF Save
  <2> DEFINE x == SlotFor(k)
             new == [seq |-> seq + 1, m |-> k]
  <2> HIDE DEF x, new
  <2>2. snaps' = [snaps EXCEPT ![x] = new] /\ x \in 0..Rotating
    BY <1>4, <2>1 DEF x, new
  <2>3. snaps'[x] = new /\ \A i \in 0..Rotating : i # x => snaps'[i] = snaps[i]
    BY <1>5, <2>2
  <2> QED BY <2>1, <2>2, <2>3 DEF Saves, x, new
<1> DEFINE z == (seq - 1) % Rotating
<1> HIDE DEF z
<1>7. 1 + z \in 1..Rotating
  <2>1. z \in 0..(Rotating - 1)
    BY <1>3 DEF z
  <2> QED BY <1>1, <2>1
<1> QED BY <1>2, <1>6, <1>7 DEF z

\* The rotating slots stay in order, and the snapshot that goes is older than every other.
LEMMA RotSave ==
  ASSUME RingInv, RingTyped(snaps, seq), RotFits(snaps, seq), NEW k, k.steps \in Nat, k.steps # 0,
         NEW x \in 1..Rotating, x = 1 + ((seq - 1) % Rotating), Saves(k, x)
  PROVE  /\ RotFits(snaps', seq')
         /\ \A i \in 1..Rotating : i # x /\ snaps[i].seq # 0 => snaps[i].seq > snaps[x].seq
<1>1. seq \in Nat /\ seq >= 1 /\ Rotating \in Nat \ {0} /\ Rotating \in Nat /\ Rotating > 0 /\ seq' = seq + 1
  BY Bounds DEF RingInv, Rotating, Saves
<1>2. \A i \in 0..Rotating : snaps[i].seq \in Nat /\ snaps[i].seq <= seq
  BY DEF RingTyped, Rotating
<1>3. ASSUME NEW i \in 1..Rotating, snaps[i].seq # 0
      PROVE  /\ snaps[i].seq > seq - Rotating /\ snaps[i].seq >= 2 /\ i = 1 + ((snaps[i].seq - 2) % Rotating)
             /\ snaps[i].seq \in Nat /\ snaps[i].seq <= seq /\ snaps[i].m.steps > 0
  <2>1. i \in 0..Rotating
    BY <1>1
  <2> QED BY <1>2, <1>3, <2>1 DEF RotFits
<1>4. ASSUME NEW i \in 1..Rotating, snaps[i].seq # 0
      PROVE  i = x <=> snaps[i].seq = (seq - Rotating) + 1
  <2> DEFINE q == snaps[i].seq
             a == seq - 1
             b == q - 2
  <2>1. q > seq - Rotating /\ q >= 2 /\ q \in Nat /\ q <= seq /\ i = 1 + (b % Rotating) /\ x = 1 + (a % Rotating)
    BY <1>3, <1>4
  <2> HIDE DEF q
  <2>2. a \in Nat /\ b \in Nat /\ b < a /\ a <= b + Rotating
    BY <1>1, <2>1
  <2>3. a % Rotating \in Nat /\ b % Rotating \in Nat
    BY <1>1, <2>2
  <2>4. a % Rotating = b % Rotating <=> a = b + Rotating
    <3> HIDE DEF a, b
    <3> QED BY <1>1, <2>2, ModGap
  <2>5. i = x <=> a % Rotating = b % Rotating
    <3> HIDE DEF a, b
    <3> QED BY <2>1, <2>3
  <2>6. a = b + Rotating <=> q = (seq - Rotating) + 1
    BY <1>1, <2>1
  <2> QED BY <2>4, <2>5, <2>6 DEF q
<1>5. ASSUME NEW i \in 1..Rotating, i # x, snaps[i].seq # 0 PROVE snaps[i].seq > (seq - Rotating) + 1
  BY <1>1, <1>3, <1>4, <1>5
<1>6. ASSUME NEW i \in 1..Rotating, i # x, snaps[i].seq # 0 PROVE snaps[i].seq > snaps[x].seq
  <2>1. CASE snaps[x].seq = 0
    BY <1>3, <1>6, <2>1
  <2>2. CASE snaps[x].seq # 0
    <3>1. snaps[x].seq = (seq - Rotating) + 1
      BY <1>4, <2>2
    <3> QED BY <1>5, <1>6, <3>1
  <2> QED BY <2>1, <2>2
<1>7. RotFits(snaps', seq')
  <2>1. ASSUME NEW i \in 1..Rotating, snaps'[i].seq # 0
        PROVE  snaps'[i].seq > seq' - Rotating /\ snaps'[i].seq >= 2 /\ i = 1 + ((snaps'[i].seq - 2) % Rotating)
               /\ snaps'[i].m.steps > 0
    <3>1. CASE i = x
      <4>1. snaps'[x] = [seq |-> seq + 1, m |-> k]
        BY DEF Saves
      <4>2. snaps'[x].seq = seq + 1 /\ snaps'[x].m = k
        BY <4>1
      <4>3. snaps'[x].seq - 2 = seq - 1
        BY <1>1, <4>2
      <4> QED BY <1>1, <3>1, <4>2, <4>3
    <3>2. CASE i # x
      <4>1. i \in 0..Rotating
        BY <1>1
      <4>2. snaps'[i] = snaps[i]
        BY <3>2, <4>1 DEF Saves
      <4>3. snaps[i].seq > (seq - Rotating) + 1
        BY <1>5, <2>1, <3>2, <4>2
      <4>4. snaps[i].seq \in Nat /\ snaps[i].seq >= 2 /\ i = 1 + ((snaps[i].seq - 2) % Rotating) /\ snaps[i].m.steps > 0
        BY <1>3, <2>1, <4>2
      <4>5. snaps[i].seq > seq' - Rotating
        BY <1>1, <4>3, <4>4
      <4> QED BY <4>2, <4>4, <4>5
    <3> QED BY <3>1, <3>2
  <2> QED BY <2>1 DEF RotFits
<1> QED BY <1>6, <1>7

\* After a save of step n the last snapshot of n is the one saved, and of other steps what it was.
LEMMA NewestSave ==
  ASSUME RingInv, RingTyped(snaps, seq), RotFits(snaps, seq), NEW k, k.steps \in Nat, k.steps # 0,
         NEW x \in 1..Rotating, x = 1 + ((seq - 1) % Rotating), Saves(k, x),
         NEW i \in 0..Rotating, Newest(snaps', i)
  PROVE  \/ i = x
         \/ i # x /\ snaps'[i] = snaps[i] /\ snaps[i].m.steps # k.steps /\ Newest(snaps, i)
<1>1. seq \in Nat /\ seq >= 1 /\ Rotating \in Nat /\ Rotating >= 1 /\ x \in 0..Rotating
  BY Bounds DEF RingInv, Rotating
<1>2. \A j \in 0..Rotating : snaps[j].seq \in Nat /\ snaps[j].seq <= seq
  BY DEF RingTyped, Rotating
<1>3. \A j \in 1..Rotating : j # x /\ snaps[j].seq # 0 => snaps[j].seq > snaps[x].seq
  BY RotSave
<1> SUFFICES ASSUME i # x PROVE snaps'[i] = snaps[i] /\ snaps[i].m.steps # k.steps /\ Newest(snaps, i)
  OBVIOUS
<1>4. snaps'[i] = snaps[i] /\ snaps'[x] = [seq |-> seq + 1, m |-> k]
      /\ \A j \in 0..Rotating : j # x => snaps'[j] = snaps[j]
  BY DEF Saves
<1>5. snaps'[x].seq = seq + 1 /\ snaps'[x].m = k
  BY <1>4
<1>6. /\ snaps[i].seq # 0
      /\ \A j \in 0..Rotating : snaps'[j].seq # 0 /\ snaps'[j].m.steps = snaps[i].m.steps => snaps'[j].seq <= snaps[i].seq
  BY <1>4 DEF Newest
<1>7. snaps[i].m.steps # k.steps
  <2> SUFFICES ASSUME snaps[i].m.steps = k.steps PROVE FALSE
    OBVIOUS
  <2>1. snaps'[x].seq # 0 /\ snaps'[x].m.steps = snaps[i].m.steps
    BY <1>1, <1>5
  <2>2. snaps'[x].seq <= snaps[i].seq
    BY <1>1, <1>6, <2>1
  <2> QED BY <1>1, <1>2, <1>5, <2>2
<1>8. ASSUME NEW j \in 0..Rotating, snaps[j].seq # 0, snaps[j].m.steps = snaps[i].m.steps
      PROVE  snaps[j].seq <= snaps[i].seq
  <2>1. CASE j # x
    BY <1>4, <1>6, <1>8, <2>1
  <2>2. CASE j = x
    <3>1. CASE i \in 1..Rotating
      <4>1. snaps[i].seq > snaps[x].seq
        BY <1>3, <1>6, <3>1
      <4> QED BY <1>1, <1>2, <2>2, <4>1
    <3>2. CASE i = 0
      <4>1. snaps[i].m.steps = 0
        BY <3>2 DEF RingInv, AnchorKept
      <4>2. snaps[x].m.steps > 0
        BY <1>8, <2>2 DEF RotFits
      <4>3. snaps[x].m.steps = 0
        BY <1>8, <2>2, <4>1
      <4> QED BY <4>2, <4>3
    <3> QED BY <1>1, <3>1, <3>2
  <2> QED BY <2>1, <2>2
<1> QED BY <1>4, <1>6, <1>7, <1>8 DEF Newest

\* snapshot_find: the last snapshot of its step, and the only one that is.
LEMMA FindIs ==
  ASSUME RingInv, RingTyped(snaps, seq), RotFits(snaps, seq), NEW target \in Steps
  PROVE  /\ Find(target) \in 0..Rotating /\ snaps[Find(target)].seq # 0 /\ snaps[Find(target)].m.steps <= target
         /\ Newest(snaps, Find(target))
         /\ snaps[Find(target)].m.steps = 0 => Find(target) = 0
         /\ \A i \in 0..Rotating : Newest(snaps, i) /\ snaps[i].m.steps = snaps[Find(target)].m.steps => i = Find(target)
<1> DEFINE f == Find(target)
<1>1. /\ snaps[f].m.steps <= target /\ f \in Usable(target)
      /\ \A j \in Usable(target) : \/ snaps[j].m.steps < snaps[f].m.steps
                                   \/ snaps[j].m.steps = snaps[f].m.steps /\ snaps[j].seq <= snaps[f].seq
  BY FindType
<1>2. /\ DOMAIN snaps = 0..Rotating
      /\ \A i \in 0..Rotating : snaps[i].seq \in Nat /\ snaps[i].m.steps \in Nat
  <2>1. snaps \in [0..(Slots - 1) -> [seq : Nat, m : Machines]]
    BY DEF RingTyped
  <2>2. \A i \in 0..(Slots - 1) : snaps[i].seq \in Nat /\ snaps[i].m \in Machines
    BY <2>1
  <2> QED BY <2>1, <2>2, MachineFields DEF Rotating
<1>3. f \in 0..Rotating /\ snaps[f].seq # 0
  BY <1>1, <1>2 DEF Usable
<1> HIDE DEF f
<1>4. target \in Nat /\ Rotating \in Nat
  BY Bounds DEF Rotating
<1>5. ASSUME NEW j \in 0..Rotating, snaps[j].seq # 0, snaps[j].m.steps = snaps[f].m.steps
      PROVE  snaps[j].seq <= snaps[f].seq
  <2>1. j \in Usable(target)
    BY <1>1, <1>2, <1>5 DEF Usable
  <2> QED BY <1>1, <1>2, <1>3, <1>5, <2>1
<1>6. Newest(snaps, f)
  BY <1>3, <1>5 DEF Newest
<1>7. snaps[f].m.steps = 0 => f = 0
  <2>1. f \in 1..Rotating => snaps[f].m.steps > 0
    BY <1>3 DEF RotFits
  <2> QED BY <1>2, <1>3, <1>4, <2>1
<1>8. ASSUME NEW i \in 0..Rotating, Newest(snaps, i), snaps[i].m.steps = snaps[f].m.steps PROVE i = f
  <2>1. snaps[i].seq # 0 /\ snaps[f].seq <= snaps[i].seq
    BY <1>3, <1>8 DEF Newest
  <2>2. snaps[i].seq <= snaps[f].seq
    BY <1>5, <1>8, <2>1
  <2>3. snaps[i].seq = snaps[f].seq
    BY <1>2, <1>3, <2>1, <2>2
  <2>4. CASE snaps[f].m.steps = 0
    <3>1. i \in 1..Rotating => snaps[i].m.steps > 0
      BY <2>1 DEF RotFits
    <3> QED BY <1>2, <1>4, <1>7, <1>8, <2>4, <3>1
  <2>5. CASE snaps[f].m.steps # 0
    <3>1. snaps[0].m.steps = 0
      BY DEF RingInv, AnchorKept
    <3>2. i \in 1..Rotating /\ f \in 1..Rotating
      BY <1>3, <1>4, <1>8, <2>5, <3>1
    <3>3. i = 1 + ((snaps[i].seq - 2) % Rotating) /\ f = 1 + ((snaps[f].seq - 2) % Rotating)
      BY <1>3, <2>1, <3>2 DEF RotFits
    <3> QED BY <2>3, <3>3
  <2> QED BY <2>4, <2>5
<1> QED BY <1>1, <1>3, <1>6, <1>7, <1>8 DEF f

---------------------------------------------------------------------------
(* What the program finds in the queue, and what it has been loaded from.  *)

\* The host that types when asked leaves at most the byte a parked machine waits for.
Short(w) == w.q = << >> \/ (w.k.mode = "IDLE" /\ Tail(w.q) = << >>)
\* A disciplined host loads at step 0.
LEMMA LoadsAreFirst ==
  ASSUME NEW t, InputsFit(t)
  PROVE  LoadsFirst(t)
BY DEF InputsFit, LoadsFirst

\* The inputs of one step leave at most one byte unread, and that for a parked machine.
LEMMA ShortFed ==
  ASSUME NEW t, IsLine(t), InputsFit(t), NEW n \in Steps, t.at[n].q = << >>
  PROVE  \A i \in 0..Len(t.es) : Short(t.fed[n][i])
<1> DEFINE L == Len(t.es)
           Good == {i \in Nat : i \in 0..L => Short(t.fed[n][i])}
<1>1. L \in Nat /\ t.fed[n][0] = t.at[n]
  BY LineTypes
<1>2. 0 \in Good
  BY <1>1 DEF Short
<1>3. ASSUME NEW i \in 0..(L - 1), i \in Good PROVE i + 1 \in Good
  <2> DEFINE y == i + 1
  <2>1. y \in 1..L /\ y - 1 = i /\ i \in 0..L /\ y \in Nat
    BY <1>1
  <2> HIDE DEF y
  <2> DEFINE w == t.fed[n][i]
             e == t.es[y]
  <2>2. Short(w) /\ FedSees(w, t.at[n], n)
    <3>1. \A x \in 1..Len(t.es) : t.es[x].kind = "LOAD" => t.es[x].step = 0
      BY DEF InputsFit
    <3> QED BY <1>3, <2>1, <3>1, FedKeeps
  <2>3. /\ e.step = n => t.fed[n][y] = Fed(w, e)
        /\ e.step # n => t.fed[n][y] = w
        /\ w \in Worlds /\ e \in Inputs
    BY <2>1, FedOne
  <2>4. /\ e.kind = "LOAD" => e.step = 0
        /\ e.kind = "CON" /\ e.step = n => t.at[n].k.mode = "IDLE" /\ w.q = << >>
    BY <2>1 DEF InputsFit
  <2> HIDE DEF w, e
  <2>5. ASSUME e.step = n PROVE Short(Fed(w, e))
    <3>1. /\ e.kind \in {"CON", "KEYS", "LOAD"}
          /\ e.kind # "LOAD" => Fed(w, e).k.mode = w.k.mode
          /\ e.kind # "CON" => Fed(w, e).q = w.q
          /\ e.kind = "CON" /\ w.q = << >> => Fed(w, e).q = << e.value >>
      BY <2>3, FedIs
    <3>2. CASE e.kind = "CON"
      <4>1. Fed(w, e).k.mode = "IDLE" /\ Fed(w, e).q = << e.value >>
        BY <2>2, <2>4, <2>5, <3>1, <3>2 DEF FedSees
      <4>2. Tail(<< e.value >>) = << >>
        OBVIOUS
      <4> QED BY <4>1, <4>2 DEF Short
    <3>3. CASE e.kind = "KEYS"
      BY <2>2, <3>1, <3>3 DEF Short
    <3>4. CASE e.kind = "LOAD"
      <4>1. n = 0 /\ t.at[n].k.mode = "RUN"
        BY <2>4, <2>5, <3>4 DEF IsLine, Boot
      <4>2. w.q = << >>
        BY <2>2, <4>1 DEF Short, FedSees
      <4> QED BY <3>1, <3>4, <4>2 DEF Short
    <3> QED BY <3>1, <3>2, <3>3, <3>4
  <2>6. Short(t.fed[n][y])
    BY <2>2, <2>3, <2>5
  <2> QED BY <2>1, <2>6 DEF y
<1>4. 0..L \subseteq Good
  <2> HIDE DEF Good, L
  <2> QED BY <1>1, <1>2, <1>3, UpTo
<1> QED BY <1>1, <1>4

\* So every step is arrived at with an empty queue.
LEMMA ShortQueues ==
  ASSUME NEW t, IsLine(t), GoesOn(t, Going), InputsFit(t), NEW n \in Steps, Arrives(t, n)
  PROVE  t.at[n].q = << >> /\ \A i \in 0..Len(t.es) : Short(t.fed[n][i])
<1> DEFINE L == Len(t.es)
           Good == {x \in Nat : x \in 0..n => t.at[x].q = << >>}
<1>1. n \in Nat /\ 0..n \subseteq Steps /\ L \in 0..L /\ Steps = 0..MaxSteps /\ MaxSteps \in Nat
  BY LineTypes, Bounds DEF Steps
<1>2. 0 \in Good
  BY DEF IsLine
<1>3. ASSUME NEW x \in 0..(n - 1), x \in Good PROVE x + 1 \in Good
  <2>1. x \in Steps /\ x + 1 \in Steps /\ x \in Nat /\ x + 1 \in Nat /\ x <= n /\ x + 1 <= n /\ x \in 0..n /\ x + 1 > x
    BY <1>1
  <2> DEFINE w == t.fed[x][L]
  <2>2. Arrives(t, x) /\ Arrives(t, x + 1)
    BY <1>1, <2>1, ArrivesDown
  <2>3. Short(w) /\ w \in Worlds
    BY <1>1, <1>3, <2>1, ShortFed, LineTypes
  <2>4. Rising(w).k.mode = "RUN" /\ t.at[x + 1] = Executed(Rising(w))
    BY <2>1, <2>2, LoadsAreFirst, RunsOn
  <2> HIDE DEF w
  <2>5. Rising(w).q = << >>
    <3>1. CASE CanWake(w)
      <4>1. Rising(w).q = Tail(w.q)
        BY <2>3, <3>1, WokenIs DEF Rising
      <4> QED BY <2>3, <3>1, <4>1 DEF Short, CanWake
    <3>2. CASE ~CanWake(w)
      BY <2>3, <2>4, <3>2 DEF Rising, CanWake, Short
    <3> QED BY <3>1, <3>2
  <2>6. t.at[x + 1].q = << >>
    BY <2>3, <2>4, <2>5, RisingIs, ExecutedIs
  <2> QED BY <2>1, <2>6
<1>4. 0..n \subseteq Good
  <2> HIDE DEF Good
  <2> QED BY <1>1, <1>2, <1>3, UpTo
<1>5. t.at[n].q = << >>
  BY <1>1, <1>4
<1> QED BY <1>5, ShortFed

\* When the inputs of step 0 are all given the program is the one the timeline has loaded.
LEMMA LateProg ==
  ASSUME NEW t, IsLine(t), NEW p \in 0..Len(t.es), \A i \in (p + 1)..Len(t.es) : t.es[i].step > 0
  PROVE  t.fed[0][p].k.prog = Loaded(t)
<1> DEFINE L == Len(t.es)
<1>1. 0 \in Steps /\ L \in p..L
  BY Bounds, LineTypes
<1>2. \A x \in (p + 1)..L : t.es[x].step # 0
  OBVIOUS
<1> HIDE DEF L
<1>3. L \in p..Len(t.es) /\ L = Len(t.es)
  BY <1>1 DEF L
<1>4. t.fed[0][L] = t.fed[0][p]
  BY <1>1, <1>2, <1>3, FedSame
<1> QED BY <1>3, <1>4 DEF Loaded

\* An input does the same to machines alike, and its stamp does not matter.
FedAlike(v, w) == Like(v.k, v.q, w)
\* Machines alike stay so when the same input is given to both.
LEMMA FedLike ==
  ASSUME NEW v \in Worlds, NEW w \in Worlds, NEW d \in Inputs, NEW e \in Inputs, FedAlike(v, w),
         d.kind = e.kind, d.value = e.value, d.tag = e.tag
  PROVE  /\ FedAlike(Fed(v, d), Fed(w, e))
         /\ v.k.keys = w.k.keys => Fed(v, d).k.keys = Fed(w, e).k.keys
<1>1. v.k.mode = w.k.mode /\ v.k.took = w.k.took /\ v.q = w.q
  BY DEF FedAlike, Like
<1>2. /\ e.kind \in {"CON", "KEYS", "LOAD"}
      /\ Fed(v, d).k.took = v.k.took /\ Fed(w, e).k.took = w.k.took
      /\ e.kind # "LOAD" => Fed(v, d).k.mode = v.k.mode /\ Fed(w, e).k.mode = w.k.mode
      /\ e.kind = "LOAD" => Fed(v, d).k.mode = "RUN" /\ Fed(w, e).k.mode = "RUN"
      /\ e.kind # "CON" => Fed(v, d).q = v.q /\ Fed(w, e).q = w.q
      /\ e.kind # "KEYS" => Fed(v, d).k.keys = v.k.keys /\ Fed(w, e).k.keys = w.k.keys
      /\ e.kind = "KEYS" => Fed(v, d).k.keys = e.value /\ Fed(w, e).k.keys = e.value
  BY FedIs
<1>3. e.kind = "CON" => Fed(v, d).q = Fed(w, e).q
  <2> SUFFICES ASSUME e.kind = "CON" PROVE Fed(v, d).q = Fed(w, e).q
    OBVIOUS
  <2>1. /\ Fed(v, d) = [v EXCEPT !.q = IF Len(@) < QueueCap THEN Append(@, e.value) ELSE @]
        /\ Fed(w, e) = [w EXCEPT !.q = IF Len(@) < QueueCap THEN Append(@, e.value) ELSE @]
    BY DEF Fed
  <2>2. /\ Fed(v, d).q = IF Len(v.q) < QueueCap THEN Append(v.q, e.value) ELSE v.q
        /\ Fed(w, e).q = IF Len(w.q) < QueueCap THEN Append(w.q, e.value) ELSE w.q
    BY <2>1 DEF Worlds
  <2> QED BY <1>1, <2>2
<1>4. Fed(v, d).q = Fed(w, e).q
  BY <1>1, <1>2, <1>3
<1> QED BY <1>1, <1>2, <1>4 DEF FedAlike, Like

---------------------------------------------------------------------------
(* Snapshots are of multiples of the interval.                             *)

\* The multiples of the interval, one by one.
LEMMA MultipleNext ==
  ASSUME NEW l \in Nat, l \in Multiples
  PROVE  l + Interval \in Multiples
<1>1. Interval \in Nat
  BY ReplayAssumption
<1>2. PICK c \in Nat : l = c * Interval
  BY DEF Multiples
<1>3. c + 1 \in Nat /\ l + Interval = (c + 1) * Interval
  BY <1>1, <1>2
<1> QED BY <1>3 DEF Multiples

\* Two of them less than an interval apart are the same.
LEMMA MultipleSame ==
  ASSUME NEW x \in Nat, NEW y \in Nat, x \in Multiples, y \in Multiples, y <= x,
         Interval = 0 \/ x - y < Interval
  PROVE  x = y
<1>1. Interval \in Nat
  BY ReplayAssumption
<1>2. PICK c \in Nat : x = c * Interval
  BY DEF Multiples
<1>3. PICK d \in Nat : y = d * Interval
  BY DEF Multiples
<1>4. CASE c <= d
  <2>1. c * Interval <= d * Interval
    BY <1>1, <1>4
  <2>2. x <= y
    <3> HIDE DEF Multiples
    <3> QED BY <1>2, <1>3, <2>1
  <2> QED BY <2>2
<1>5. CASE c >= d + 1
  <2>1. c * Interval >= (d + 1) * Interval
    BY <1>1, <1>5
  <2>2. (d + 1) * Interval = d * Interval + Interval
    BY <1>1
  <2>3. x >= y + Interval
    <3> DEFINE a == c * Interval
               b == d * Interval
               z == (d + 1) * Interval
    <3>1. x = a /\ y = b /\ a >= z /\ z = b + Interval
      BY <1>2, <1>3, <2>1, <2>2
    <3> HIDE DEF a, b, z
    <3> QED BY <1>1, <3>1
  <2>4. Interval = 0
    BY <1>1, <2>3
  <2>5. c * Interval = 0 /\ d * Interval = 0
    BY <2>4
  <2> QED BY <1>2, <1>3, <2>5
<1> QED BY <1>4, <1>5

\* The snapshots of the step the machine is at are of its own tick or earlier.
RingNats(sn) ==
  /\ sn[0].seq # 0 /\ sn[0].m.steps = 0
  /\ \A i \in 0..Rotating : sn[i].seq \in Nat /\ sn[i].m.steps \in Nat /\ sn[i].m.tick \in Nat
\* What the ring is typed as, for the arithmetic of its slots.
LEMMA RingNatsIs == RingInv /\ RingTyped(snaps, seq) => RingNats(snaps)
<1> SUFFICES ASSUME RingInv, RingTyped(snaps, seq) PROVE RingNats(snaps)
  OBVIOUS
<1>1. snaps[0].seq # 0 /\ snaps[0].m.steps = 0
  BY DEF RingInv, AnchorKept
<1>2. \A i \in 0..(Slots - 1) : snaps[i].seq \in Nat /\ snaps[i].m \in Machines
  BY DEF RingTyped
<1>3. \A k \in Machines : k.tick \in Nat
  BY Bounds DEF Machines
<1> QED BY <1>1, <1>2, <1>3, MachineFields DEF RingNats, Rotating

\* The newest snapshot of the step the machine is at is no later than the machine.
LEMMA TickHere ==
  ASSUME NEW t, NEW sn, NEW k \in Machines, RingNats(sn), SnapsFit(t, sn), TickFits(k, sn), LastFits(k, NoKernelCall),
         NEW i \in 0..Rotating, Newest(sn, i), sn[i].m.steps = k.steps
  PROVE  sn[i].m.tick <= k.tick
<1>1. k.lastSnap \in Nat /\ k.steps \in Nat /\ Interval \in Nat
  BY Bounds, ReplayAssumption DEF Machines
<1>2. k.steps \in Multiples
  BY DEF SnapsFit, SnapFits, Newest
<1>3. k.lastSnap \in Multiples /\ k.lastSnap <= k.steps /\ ~Due(k)
  BY DEF LastFits, NoKernelCall
<1>4. Interval = 0 \/ k.steps - k.lastSnap < Interval
  BY <1>1, <1>3 DEF Due
<1>5. k.steps = k.lastSnap
  BY <1>1, <1>2, <1>3, <1>4, MultipleSame
<1> QED BY <1>5 DEF TickFits

---------------------------------------------------------------------------
(* One input more is given.                                                *)

\* At step 0, with its inputs given, the key mask is that of the timeline.
LEMMA KeysNow ==
  ASSUME NEW t, IsLine(t), NEW lg, NEW p \in 0..Len(t.es), NEW k, NEW a, AnchorFits(t, lg, p, k, a), k.steps = 0,
         \A i \in (p + 1)..Len(t.es) : t.es[i].step > 0
  PROVE  k.keys = t.fed[0][p].k.keys
<1>1. PICK j \in 0..Len(t.es) : AnchoredAt(t, lg, p, k, a, j)
  BY DEF AnchorFits
<1>2. /\ a.keys = t.fed[0][j].k.keys
      /\ k.keys = t.fed[0][p].k.keys \/ (p <= j /\ k.keys = a.keys)
  BY <1>1 DEF AnchoredAt
<1>3. CASE p <= j
  <2>1. 0 \in Steps /\ j \in p..Len(t.es) /\ Len(t.es) \in Nat
    BY <1>3, Bounds, LineTypes
  <2>2. \A x \in (p + 1)..j : t.es[x].step # 0
    <3> TAKE x \in (p + 1)..j
    <3>1. x \in (p + 1)..Len(t.es)
      BY <2>1
    <3> QED BY <3>1
  <2>3. t.fed[0][j] = t.fed[0][p]
    BY <2>1, <2>2, FedSame
  <2> QED BY <1>2, <2>3
<1> QED BY <1>2, <1>3

SameInput(d, e) == d \in Inputs /\ d.kind = e.kind /\ d.value = e.value /\ d.tag = e.tag
\* An input applied where the timeline has it: the machine is where the timeline is with it.
LEMMA ApplyHere ==
  ASSUME NEW t, IsLine(t), GoesOn(t, Going), InputsFit(t), NEW p \in 0..Len(t.es), p + 1 \in 1..Len(t.es),
         NEW w \in Worlds, NEW d, SameInput(d, t.es[p + 1]), t.es[p + 1].step = w.k.steps,
         Here(t, w.k, w.q, p, NoKernelCall), PosFits(t, p, w.k.steps, NoKernelCall)
  PROVE  /\ Here(t, Fed(w, d).k, Fed(w, d).q, p + 1, NoKernelCall)
         /\ PosFits(t, p + 1, Fed(w, d).k.steps, NoKernelCall)
<1> DEFINE y == p + 1
           n == w.k.steps
           e == t.es[y]
           v == t.fed[n][p]
           z == Fed(w, d)
<1>1. y \in 1..Len(t.es) /\ y - 1 = p /\ y \in 0..Len(t.es) /\ e.step = n /\ SameInput(d, e) /\ p \in Nat /\ Len(t.es) \in Nat
  BY LineTypes
<1> HIDE DEF y
<1>2. n \in Steps /\ n \in Nat
  BY MachineFields, Bounds DEF Worlds
<1>3. t.fed[n][y] = Fed(v, e) /\ v \in Worlds /\ e \in Inputs
  BY <1>1, <1>2, FedOne
<1>4. /\ Arrives(t, n) /\ Like(w.k, w.q, v)
      /\ w.k.prog \in {Loaded(t), t.fed[0][p].k.prog}
      /\ n > 0 => w.k.keys = v.k.keys
  BY DEF Here, NoKernelCall
<1>5. FedAlike(z, Fed(v, e)) /\ (w.k.keys = v.k.keys => z.k.keys = Fed(v, e).k.keys)
  BY <1>1, <1>3, <1>4, FedLike DEF SameInput, FedAlike
<1>6. /\ z.k.steps = n
      /\ e.kind # "LOAD" => z.k.prog = w.k.prog
      /\ e.kind = "LOAD" => z.k.prog = e.tag + 1
  BY <1>1, FedIs DEF SameInput
<1>7. Short(Fed(v, e))
  BY <1>1, <1>2, <1>3, <1>4, ShortQueues
<1>8. z.k.mode = "IDLE" \/ z.q = << >>
  BY <1>5, <1>7 DEF FedAlike, Like, Short
<1>9. z.k.prog \in {Loaded(t), t.fed[0][y].k.prog}
  <2>1. /\ t.es[y].step = 0 => t.fed[0][y] = Fed(t.fed[0][p], e)
        /\ t.es[y].step # 0 => t.fed[0][y] = t.fed[0][p]
        /\ t.fed[0][p] \in Worlds
    BY <1>1, Bounds, FedOne
  <2> DEFINE x == t.fed[0][p]
  <2> HIDE DEF x
  <2>2. x \in Worlds /\ (e.kind # "LOAD" => Fed(x, e).k.prog = x.k.prog) /\ (e.kind = "LOAD" => Fed(x, e).k.prog = e.tag + 1)
    BY <1>3, <2>1, FedIs DEF x
  <2>3. e.kind = "LOAD" => t.es[y].step = 0
    BY <1>1 DEF InputsFit
  <2>4. CASE e.kind = "LOAD"
    BY <1>6, <2>1, <2>2, <2>3, <2>4 DEF x
  <2>5. CASE e.kind # "LOAD"
    BY <1>4, <1>6, <2>1, <2>2, <2>5 DEF x
  <2> QED BY <2>4, <2>5
<1>10. n > 0 => z.k.keys = t.fed[n][y].k.keys
  BY <1>3, <1>4, <1>5
<1> HIDE DEF e, v, z
<1>11. Like(z.k, z.q, t.fed[n][y])
  BY <1>3, <1>5 DEF FedAlike
<1>12. Here(t, z.k, z.q, y, NoKernelCall)
  <2> HIDE DEF n
  <2> QED BY <1>4, <1>6, <1>8, <1>9, <1>10, <1>11 DEF Here, NoKernelCall
<1>13. PosFits(t, y, z.k.steps, NoKernelCall)
  <2>1. \A i \in 1..p : t.es[i].step <= n
    BY DEF PosFits
  <2>2. \A i \in (p + 1)..Len(t.es) : t.es[i].step >= n
    BY <1>2 DEF PosFits, NoKernelCall
  <2>3. \A i \in 1..y : i \in 1..p \/ i = y
    BY <1>1
  <2>4. \A i \in (y + 1)..Len(t.es) : i \in (p + 1)..Len(t.es)
    BY <1>1
  <2>5. t.es[y].step <= n
    BY <1>1, <1>2 DEF e
  <2>6. \A i \in 1..y : t.es[i].step <= n
    BY <2>1, <2>3, <2>5
  <2>7. n + NoKernelCall.left = n /\ ~NoKernelCall.active
    BY <1>2 DEF NoKernelCall
  <2> HIDE DEF n
  <2> QED BY <1>6, <2>2, <2>4, <2>6, <2>7 DEF PosFits
<1> QED BY <1>12, <1>13 DEF y, z

\* The ticks: what is applied now came after every snapshot of its step.
StampsFit(t, lg, p, k, sn) ==
  AnchorFits(t, lg, p, k, sn[0].m) /\ Stamped(lg, p, sn) /\ TickFits(k, sn) /\ LastFits(k, NoKernelCall)
\* An input stamped with step and tick of the machine: a rewind will tell it from the ones baked in.
LEMMA ApplyStamp ==
  ASSUME NEW t, IsLine(t), NEW p \in 0..Len(t.es), p + 1 \in 1..Len(t.es),
         NEW w \in Worlds, NEW d, SameInput(d, t.es[p + 1]), t.es[p + 1].step = w.k.steps,
         NEW sn, NEW sq, RingNats(sn), SnapsFit(t, sn), RotFits(sn, sq),
         NEW lg, NEW lh, \A i \in 1..p : lh[i] = lg[i], lh[p + 1].tick = w.k.tick, lh[p + 1].step = w.k.steps,
         StampsFit(t, lg, p, w.k, sn)
  PROVE  StampsFit(t, lh, p + 1, Fed(w, d).k, sn)
<1> DEFINE y == p + 1
           e == t.es[y]
           k == w.k
           z == Fed(w, d).k
<1>1. y \in 1..Len(t.es) /\ y - 1 = p /\ p \in Nat /\ y \in Nat /\ Len(t.es) \in Nat /\ p < y
      /\ \A i \in 1..y : i \in 1..p \/ i = y
  BY LineTypes
<1>2. e.step = k.steps /\ SameInput(d, e) /\ lh[y].tick = k.tick /\ lh[y].step = k.steps
  OBVIOUS
<1> HIDE DEF y
<1>3. k \in Machines /\ k.steps \in Nat /\ k.tick \in Nat
  <2>1. k \in Machines
    BY DEF Worlds
  <2>2. k.tick \in Nat
    BY <2>1, Bounds DEF Machines
  <2> QED BY <2>1, <2>2, MachineFields
<1>4. /\ z.steps = k.steps /\ z.tick = k.tick /\ z.lastSnap = k.lastSnap
      /\ e.kind # "KEYS" => z.keys = k.keys
      /\ e.kind = "KEYS" => z.keys = d.value
      /\ e.kind = "KEYS" => e.value = d.value
  BY <1>2, FedIs DEF SameInput
<1>5. ASSUME NEW i \in 0..Rotating, Newest(sn, i), sn[i].m.steps = k.steps PROVE sn[i].m.tick <= k.tick
  BY <1>3, <1>5, TickHere DEF StampsFit
<1>6. Newest(sn, 0)
  <2>1. \A j \in 0..Rotating : sn[j].seq # 0 /\ sn[j].m.steps = 0 => j = 0
    BY DEF RotFits
  <2> QED BY <2>1 DEF Newest, RingNats
<1>7. 0 \in 0..Rotating
  BY Bounds DEF Rotating
<1> HIDE DEF k, z, e
<1>8. AnchorFits(t, lh, y, z, sn[0].m)
  <2> DEFINE a == sn[0].m
  <2>1. PICK j \in 0..Len(t.es) : AnchoredAt(t, lg, p, k, a, j)
    BY DEF StampsFit, AnchorFits, k
  <2>2. /\ a.keys = t.fed[0][j].k.keys
        /\ \A i \in (j + 1)..Len(t.es) : t.es[i].kind # "LOAD" /\ (i <= p /\ t.es[i].step = 0 => a.tick <= lg[i].tick)
        /\ k.steps = 0 => k.keys = t.fed[0][p].k.keys \/ (p <= j /\ k.keys = a.keys)
    BY <2>1 DEF AnchoredAt
  <2>3. a.steps = 0
    BY DEF RingNats
  <2>4. k.steps = 0 => a.tick <= k.tick
    BY <1>5, <1>6, <1>7, <2>3
  <2>5. ASSUME NEW i \in (j + 1)..Len(t.es), i <= y, t.es[i].step = 0 PROVE a.tick <= lh[i].tick
    <3>1. CASE i <= p
      <4>1. i \in 1..p
        BY <1>1, <3>1
      <4> QED BY <2>2, <2>5, <3>1, <4>1
    <3>2. CASE ~(i <= p)
      <4>1. i = y
        BY <1>1, <2>5, <3>2
      <4> QED BY <1>2, <2>4, <2>5, <4>1 DEF e
    <3> QED BY <3>1, <3>2
  <2> HIDE DEF a
  <2>6. ASSUME z.steps = 0 PROVE z.keys = t.fed[0][y].k.keys \/ (y <= j /\ z.keys = a.keys)
    <3> DEFINE v == t.fed[0][p]
    <3>1. e.step = 0 /\ 0 \in Steps
      BY <1>2, <1>4, <2>6, Bounds
    <3>2. t.fed[0][y] = Fed(v, e) /\ v \in Worlds /\ e \in Inputs
      BY <1>1, <3>1, FedOne DEF e
    <3> HIDE DEF v
    <3>3. (e.kind # "KEYS" => Fed(v, e).k.keys = v.k.keys) /\ (e.kind = "KEYS" => Fed(v, e).k.keys = e.value)
      BY <3>2, FedIs
    <3>4. CASE e.kind = "KEYS"
      BY <1>4, <3>2, <3>3, <3>4
    <3>5. CASE e.kind # "KEYS"
      <4>1. k.keys = v.k.keys \/ (p <= j /\ k.keys = a.keys)
        BY <1>4, <2>2, <2>6 DEF v
      <4>2. CASE k.keys = v.k.keys
        BY <1>4, <3>2, <3>3, <3>5, <4>2
      <4>3. CASE p <= j /\ k.keys = a.keys
        <5>1. CASE p = j
          BY <1>4, <2>2, <3>2, <3>3, <3>5, <4>3, <5>1 DEF v
        <5>2. CASE p # j
          <6>1. y <= j
            BY <1>1, <4>3, <5>2
          <6> QED BY <1>4, <3>5, <4>3, <6>1
        <5> QED BY <5>1, <5>2
      <4> QED BY <4>1, <4>2, <4>3
    <3> QED BY <3>4, <3>5
  <2>7. AnchoredAt(t, lh, y, z, a, j)
    BY <2>2, <2>5, <2>6 DEF AnchoredAt
  <2> QED BY <2>7 DEF AnchorFits, a
<1>9. Stamped(lh, y, sn)
  <2>1. ASSUME NEW i \in 1..Rotating, Newest(sn, i), NEW x \in 1..y, lh[x].step = sn[i].m.steps
        PROVE  sn[i].m.tick <= lh[x].tick
    <3>1. i \in 0..Rotating
      BY <1>7
    <3>2. CASE x = y
      BY <1>2, <1>5, <2>1, <3>1, <3>2
    <3>3. CASE x \in 1..p
      BY <2>1, <3>3 DEF StampsFit, Stamped
    <3> QED BY <1>1, <3>2, <3>3
  <2> QED BY <2>1 DEF Stamped
<1>10. TickFits(z, sn)
  BY <1>4 DEF StampsFit, TickFits, k
<1>11. LastFits(z, NoKernelCall)
  <2>1. Due(z) <=> Due(k)
    BY <1>4 DEF Due
  <2>2. LastFits(k, NoKernelCall)
    BY DEF StampsFit, k
  <2> QED BY <1>4, <2>1, <2>2 DEF LastFits
<1> QED BY <1>8, <1>9, <1>10, <1>11 DEF StampsFit, y, z

\* The timeline does not change while the program and the inputs do not.
LEMMA LineStill ==
  ASSUME code' = code, given' = given
  PROVE  Line' = Line
<1>1. ASSUME NEW w, NEW n PROVE Taking(w, n)' = Taking(w, n)
  BY DEF Taking
<1>2. ASSUME NEW w PROVE GoneOn(w)' = GoneOn(w)
  BY DEF GoneOn, Executed
<1>3. Straight' = Straight
  BY <1>1, <1>2 DEF Straight
<1> QED BY <1>1, <1>3 DEF Line, Feeding

\* What the types and the timeline say of the state.
Facts ==
  /\ IsLine(Line) /\ GoesOn(Line, Going) /\ InputsFit(Line) /\ Line.es = given
  /\ Now \in Worlds /\ Now.k = m /\ Now.q = queue /\ m \in Machines /\ queue \in Queues
  /\ m.steps \in Steps /\ m.steps \in Nat /\ m.tick \in Nat
  /\ Len(given) \in Nat /\ Len(log) = Len(given) /\ pos \in Nat /\ pos \in 0..Len(given)
  /\ \A i \in 1..Len(given) : given[i] \in Inputs /\ log[i] \in Inputs
  /\ RingNats(snaps) /\ RingTyped(snaps, seq) /\ RingInv
  /\ call \in Calls /\ kcall \in KernelCalls
  /\ ~kcall.active => kcall = NoKernelCall
  /\ call.phase = "HOST" => ~kcall.active
  /\ ~broken
\* What the invariants say, unpacked once for all the actions.
LEMMA Known == ReplayInv /\ Fits => Facts
<1> SUFFICES ASSUME ReplayInv, Fits PROVE Facts
  OBVIOUS
<1>1. Typed /\ Budgeted /\ RingInv
  BY DEF ReplayInv
<1>2. /\ code \in Codes /\ m \in Machines /\ queue \in Queues /\ RingTyped(snaps, seq)
      /\ call \in Calls /\ kcall \in KernelCalls /\ LogTyped(log, pos, given)
  BY <1>1 DEF Typed
<1>3. given \in Seq(Inputs) /\ log \in Seq(Inputs) /\ pos \in 0..Len(log)
  BY <1>2 DEF LogTyped
<1>4. IsLine(Line) /\ GoesOn(Line, Going) /\ InputsFit(Line) /\ Line.es = given /\ Len(log) = Len(given) /\ ~broken
  BY <1>2, <1>3, LineIs DEF Fits, InputPart, LogFits, Line
<1>5. Len(given) \in Nat /\ Len(log) \in Nat /\ (\A i \in 1..Len(given) : given[i] \in Inputs)
      /\ \A i \in 1..Len(log) : log[i] \in Inputs
  BY <1>3, LenProperties, ElementOfSeq
<1>6. pos \in Nat /\ pos \in 0..Len(given) /\ \A i \in 1..Len(given) : given[i] \in Inputs /\ log[i] \in Inputs
  BY <1>3, <1>4, <1>5
<1>7. Now \in Worlds /\ Now.k = m /\ Now.q = queue
  BY <1>2 DEF Now, Worlds
<1>8. m.steps \in Steps /\ m.steps \in Nat /\ m.tick \in Nat
  <2>1. m.tick \in Nat
    BY <1>2, Bounds DEF Machines
  <2> QED BY <1>2, <2>1, MachineFields, Bounds
<1>9. /\ ~kcall.active => kcall = NoKernelCall
      /\ call.phase = "HOST" => ~kcall.active
  BY <1>1 DEF Fits, MachinePart, KernelFits, Budgeted
<1> QED BY <1>1, <1>2, <1>4, <1>5, <1>6, <1>7, <1>8, <1>9, RingNatsIs DEF Facts

---------------------------------------------------------------------------
(* Steps of the calls: each keeps the machine on the timeline.             *)

\* tos_step begins.
LEMMA StepCallFits ==
  ASSUME ReplayInv, Fits, NEW max \in Budgets, StepCall(max)
  PROVE  Fits'
<1>1. /\ Line' = Line /\ m' = m /\ queue' = queue /\ log' = log /\ pos' = pos /\ images' = images
      /\ loadNext' = loadNext /\ broken' = broken /\ snaps' = snaps /\ seq' = seq /\ kcall' = kcall /\ before' = before
  BY LineStill DEF StepCall, machine, loading, ring, history
<1>2. Facts
  BY Known
<1>3. call'.phase = "STEP" /\ call'.failed = FALSE /\ call'.left > 0
  <2>1. call' = [NoCall EXCEPT !.phase = "STEP", !.left = IF max > MaxSteps - m.steps
                                                       THEN MaxSteps - m.steps ELSE max]
        /\ m.steps < MaxSteps
    BY DEF StepCall
  <2>2. max \in Nat /\ max > 0 /\ MaxSteps \in Nat /\ m.steps \in Nat
    BY <1>2, ReplayAssumption DEF Facts
  <2>3. call'.phase = "STEP" /\ call'.failed = FALSE
        /\ call'.left = IF max > MaxSteps - m.steps THEN MaxSteps - m.steps ELSE max
    BY <2>1 DEF NoCall
  <2> QED BY <2>1, <2>2, <2>3
<1>4. InputPart' /\ RingPart' /\ StampPart'
  BY <1>1 DEF Fits, InputPart, RingPart, StampPart
<1>5. MachinePart'
  BY <1>1, <1>3 DEF Fits, MachinePart, KernelFits
<1>6. CallPart'
  BY <1>1, <1>3 DEF Fits, CallPart, CallFits
<1> QED BY <1>4, <1>5, <1>6 DEF Fits

\* A kernel_step begins: it stops at the next input.
LEMMA EnterFits ==
  ASSUME ReplayInv, Fits, Enter
  PROVE  Fits'
<1>1. /\ Line' = Line /\ m' = m /\ queue' = queue /\ log' = log /\ pos' = pos /\ images' = images
      /\ loadNext' = loadNext /\ broken' = broken /\ snaps' = snaps /\ seq' = seq /\ call' = call /\ before' = before
  BY LineStill DEF Enter, machine, loading, ring, history
<1>2. Facts
  BY Known
<1> DEFINE t == Line
           n == m.steps
           gap == IF Pending THEN log[pos + 1].step - m.steps ELSE call.left
           chunk == IF call.phase = "SEEK" THEN 1 ELSE IF gap < call.left THEN gap ELSE call.left
<1>3. ~kcall.active /\ kcall = NoKernelCall /\ (call.phase = "STEP" \/ (call.phase = "SEEK" /\ SeekGoesOn))
      /\ kcall' = [active |-> TRUE, left |-> chunk, start |-> m.steps, stop |-> "NONE"]
      /\ ~(Pending /\ EntryDue(log[pos + 1]))
  BY <1>2 DEF Enter, Looping, Facts
<1>4. kcall'.active = TRUE /\ kcall'.left = chunk /\ kcall'.start = n /\ kcall'.stop = "NONE"
  BY <1>3
<1>5. Pending => pos + 1 \in 1..Len(given) /\ log[pos + 1].step \in Nat /\ t.es[pos + 1].step = log[pos + 1].step
                 /\ log[pos + 1].step > n
  <2> SUFFICES ASSUME Pending PROVE /\ pos + 1 \in 1..Len(given) /\ log[pos + 1].step \in Nat
                                    /\ t.es[pos + 1].step = log[pos + 1].step /\ log[pos + 1].step > n
    OBVIOUS
  <2>1. pos + 1 \in 1..Len(given)
    BY <1>2 DEF Facts, Pending
  <2> DEFINE y == pos + 1
  <2>2. y \in 1..Len(given) /\ Line.es = given
    BY <1>2, <2>1 DEF Facts
  <2> HIDE DEF y
  <2>3. log[y].step = Line.es[y].step
    BY <2>2 DEF Fits, InputPart, LogFits
  <2>4. log[y] \in Inputs
    BY <1>2, <2>2 DEF Facts
  <2>5. log[y].step \in Nat
    BY <2>4, Bounds DEF Inputs, Entries
  <2>6. ~(log[y].step <= n)
    BY <1>3 DEF EntryDue, y
  <2>7. n \in Nat
    BY <1>2 DEF Facts
  <2> HIDE DEF n
  <2> QED BY <2>1, <2>3, <2>5, <2>6, <2>7 DEF y
<1>6. call.left \in Nat /\ n \in Nat /\ (call.phase = "STEP" => call.left > 0)
  <2>1. call \in Calls /\ n \in Nat
    BY <1>2 DEF Facts
  <2>2. call.left \in Nat
    BY <2>1, Bounds DEF Calls
  <2> QED BY <1>3, <2>1, <2>2 DEF Fits, MachinePart, KernelFits
<1>7. chunk \in Nat /\ chunk > 0 /\ (Pending => n + chunk <= log[pos + 1].step) /\ (call.phase = "SEEK" => chunk = 1)
  <2> DEFINE s == log[pos + 1].step
  <2>1. Pending => s \in Nat /\ s > n
    BY <1>5
  <2> HIDE DEF s
  <2>2. gap = IF Pending THEN s - n ELSE call.left
    BY DEF s
  <2> HIDE DEF gap, n
  <2>3. CASE call.phase = "SEEK"
    BY <1>6, <2>1, <2>2, <2>3 DEF s
  <2>4. CASE call.phase = "STEP"
    BY <1>6, <2>1, <2>2, <2>4 DEF s
  <2> QED BY <1>3, <2>3, <2>4
<1> HIDE DEF chunk
<1>8. InputPart' /\ RingPart'
  BY <1>1 DEF Fits, InputPart, RingPart
<1>9. PosFits(t, pos, n, kcall')
  <2>1. \A i \in 1..pos : t.es[i].step <= n
    BY DEF Fits, MachinePart, PosFits
  <2>2. ASSUME NEW i \in (pos + 1)..Len(t.es) PROVE t.es[i].step >= n + chunk
    <3>1. Pending /\ pos + 1 \in 1..i /\ i \in 1..Len(t.es)
      BY <1>2 DEF Facts, Pending
    <3> DEFINE y == pos + 1
    <3>2. y \in 1..i /\ y \in 1..Len(t.es)
      BY <3>1
    <3> HIDE DEF y
    <3>3. t.es[y].step <= t.es[i].step
      BY <1>2, <3>1, <3>2 DEF Facts, InputsFit
    <3>4. t.es[y].step \in Nat /\ t.es[i].step \in Nat
      BY <1>2, <3>1, <3>2, LineTypes DEF Facts
    <3>5. n + chunk <= t.es[y].step
      BY <1>5, <1>7, <3>1 DEF y
    <3> HIDE DEF n, t
    <3> QED BY <1>6, <1>7, <3>3, <3>4, <3>5
  <2>3. ~(n > n)
    BY <1>6
  <2> HIDE DEF t, n
  <2> QED BY <1>4, <2>1, <2>2, <2>3 DEF PosFits
<1>10. Here(t, m, queue, pos, kcall')
  <2>1. Here(t, m, queue, pos, kcall)
    BY DEF Fits, MachinePart
  <2>2. ~(n > n)
    BY <1>6
  <2> QED BY <1>3, <1>4, <2>1, <2>2 DEF Here
<1>11. KernelFits(m, queue, call, kcall')
  BY <1>4, <1>7 DEF Fits, MachinePart, KernelFits
<1>12. StampPart'
  BY <1>1, <1>3, <1>4 DEF Fits, StampPart, LastFits, NoKernelCall
<1>13. CallFits(t, m, queue, pos, call, kcall', before)
  <2>1. call.phase = "SEEK" => n + chunk <= call.target
    <3> SUFFICES ASSUME call.phase = "SEEK" PROVE n + chunk <= call.target
      OBVIOUS
    <3>1. n < call.target
      BY <1>3 DEF SeekGoesOn
    <3>2. call.target \in Nat
      BY <1>2, Bounds DEF Facts, Calls
    <3> HIDE DEF n
    <3> QED BY <1>6, <1>7, <3>1, <3>2
  <2> QED BY <1>4, <2>1 DEF Fits, CallPart, CallFits
<1> QED BY <1>1, <1>8, <1>9, <1>10, <1>11, <1>12, <1>13 DEF Fits, MachinePart, CallPart

\* kernel_step leaves its loop.
LEMMA StopFits ==
  ASSUME ReplayInv, Fits, Stop
  PROVE  Fits'
<1>1. /\ Line' = Line /\ m' = m /\ queue' = queue /\ log' = log /\ pos' = pos /\ images' = images
      /\ loadNext' = loadNext /\ broken' = broken /\ snaps' = snaps /\ seq' = seq /\ call' = call /\ before' = before
  BY LineStill DEF Stop, machine, loading, ring, history
<1>2. Facts
  BY Known
<1>3. kcall.active /\ kcall.stop = "NONE" /\ kcall \in KernelCalls
  BY <1>2 DEF Stop, Running, Facts
<1>4. PICK why \in {"HALT", "WAIT_INPUT", "BUDGET"} :
        /\ kcall' = [kcall EXCEPT !.stop = why]
        /\ why = "HALT" => m.mode = "HALT"
        /\ why = "WAIT_INPUT" => m.mode = "IDLE" /\ queue = << >>
        /\ why = "BUDGET" => m.mode = "RUN" /\ kcall.left = 0
  BY DEF Stop, StopWith
<1>5. /\ kcall'.active = kcall.active /\ kcall'.left = kcall.left /\ kcall'.start = kcall.start /\ kcall'.stop = why
      /\ kcall.active = TRUE
  BY <1>3, <1>4 DEF KernelCalls
<1>6. InputPart' /\ RingPart' /\ StampPart'
  BY <1>1, <1>5 DEF Fits, InputPart, RingPart, StampPart, LastFits
<1>7. Here(Line, m, queue, pos, kcall')
  <2>1. Here(Line, m, queue, pos, kcall)
    BY DEF Fits, MachinePart
  <2>2. Like(m, queue, Line.fed[m.steps][pos])
    <3> SUFFICES ASSUME kcall.left > 0, CanWake(Line.fed[m.steps][pos]), Like(m, queue, Woken(Line.fed[m.steps][pos])) PROVE FALSE
      BY <2>1 DEF Here
    <3>1. Line.fed[m.steps][pos] \in Worlds
      BY <1>2, LineTypes DEF Facts
    <3>2. m.mode = "RUN"
      BY <3>1, WokenIs DEF Like
    <3>3. kcall.left = 0
      BY <1>4, <3>2
    <3> QED BY <3>3
  <2> QED BY <1>5, <2>1, <2>2 DEF Here
<1>8. PosFits(Line, pos, m.steps, kcall') /\ KernelFits(m, queue, call, kcall')
  <2>1. PosFits(Line, pos, m.steps, kcall')
    BY <1>5 DEF Fits, MachinePart, PosFits
  <2>2. KernelFits(m, queue, call, kcall')
    BY <1>4, <1>5 DEF Fits, MachinePart, KernelFits
  <2> QED BY <2>1, <2>2
<1>9. CallFits(Line, m, queue, pos, call, kcall', before)
  BY <1>5 DEF Fits, CallPart, CallFits
<1> QED BY <1>1, <1>6, <1>7, <1>8, <1>9 DEF Fits, MachinePart, CallPart

\* A parked machine gets its byte.
LEMMA WakeFits ==
  ASSUME ReplayInv, Fits, Wake
  PROVE  Fits'
<1>1. /\ Line' = Line /\ log' = log /\ pos' = pos /\ images' = images /\ kcall' = kcall
      /\ loadNext' = loadNext /\ broken' = broken /\ snaps' = snaps /\ seq' = seq /\ call' = call /\ before' = before
  BY LineStill DEF Wake, loading, ring, history
<1>2. Facts
  BY Known
<1> DEFINE v == Line.fed[m.steps][pos]
           w == Woken(Now)
<1>3. kcall.active /\ kcall.stop = "NONE" /\ CanWake(Now) /\ m' = w.k /\ queue' = w.q
  BY DEF Wake, Running
<1>4. m.mode = "IDLE" /\ queue # << >>
  BY <1>2, <1>3 DEF CanWake, Facts
<1>5. Here(Line, m, queue, pos, kcall) /\ v \in Worlds
  BY <1>2, LineTypes DEF Fits, MachinePart, Facts
<1>6. Like(m, queue, v) /\ CanWake(v)
  <2>1. Like(m, queue, v)
    <3> SUFFICES ASSUME CanWake(v), Like(m, queue, Woken(v)) PROVE FALSE
      BY <1>5 DEF Here
    <3>1. m.mode = "RUN"
      BY <1>5, WokenIs DEF Like
    <3> QED BY <1>4, <3>1
  <2> QED BY <1>4, <2>1 DEF Like, CanWake
<1>7. m.steps = kcall.start /\ kcall.left > 0
  <2>1. ~(m.steps > kcall.start)
    BY <1>3, <1>4, <1>5 DEF Here
  <2>2. kcall.start <= m.steps /\ kcall.start \in Nat /\ m.steps \in Nat
    BY <1>2, <1>3, Bounds DEF ReplayInv, Budgeted, Facts, KernelCalls
  <2>3. m.steps = kcall.start
    BY <2>1, <2>2
  <2> QED BY <1>3, <2>3 DEF Fits, MachinePart, KernelFits
<1>8. /\ m'.mode = "RUN" /\ queue' = Tail(queue) /\ m'.took = Append(m.took, <<"byte", Head(queue)>>)
      /\ m'.steps = m.steps /\ m'.keys = m.keys /\ m'.prog = m.prog /\ m'.tick = m.tick /\ m'.lastSnap = m.lastSnap
  BY <1>2, <1>3, WokenIs DEF Facts
<1>9. Like(m', queue', Woken(v))
  <2>1. Woken(v).k.mode = "RUN" /\ Woken(v).q = Tail(v.q) /\ Woken(v).k.took = Append(v.k.took, <<"byte", Head(v.q)>>)
    BY <1>5, <1>6, WokenIs
  <2>2. v.q = queue /\ v.k.took = m.took
    BY <1>6 DEF Like
  <2> HIDE DEF v
  <2> QED BY <1>8, <2>1, <2>2 DEF Like
<1>10. queue' = << >>
  <2>1. Short(v)
    <3>1. Arrives(Line, m.steps)
      BY <1>5 DEF Here
    <3> QED BY <1>2, <3>1, ShortQueues DEF Facts
  <2> QED BY <1>4, <1>6, <1>8, <2>1 DEF Short, Like
<1>11. InputPart' /\ RingPart'
  BY <1>1 DEF Fits, InputPart, RingPart
<1>12. StampPart'
  <2>1. Due(m') <=> Due(m)
    BY <1>8 DEF Due
  <2>2. AnchorFits(Line, log, pos, m', snaps[0].m)
    BY <1>8 DEF Fits, StampPart, AnchorFits, AnchoredAt
  <2>3. TickFits(m', snaps)
    BY <1>8 DEF Fits, StampPart, TickFits
  <2>4. LastFits(m', kcall)
    BY <1>8, <2>1 DEF Fits, StampPart, LastFits
  <2> QED BY <1>1, <2>2, <2>3, <2>4 DEF Fits, StampPart
<1>13. Here(Line, m', queue', pos, kcall)
  BY <1>3, <1>5, <1>6, <1>7, <1>8, <1>9, <1>10 DEF Here
<1>14. PosFits(Line, pos, m'.steps, kcall) /\ KernelFits(m', queue', call, kcall)
  BY <1>3, <1>7, <1>8 DEF Fits, MachinePart, PosFits, KernelFits
<1>15. CallFits(Line, m', queue', pos, call, kcall, before)
  <2>1. call.phase # "HOST"
    BY <1>2, <1>3 DEF Facts
  <2>2. call.phase = "SEEK" => ~call.stuck
    BY <1>4 DEF Fits, CallPart, CallFits
  <2> QED BY <1>8, <2>1, <2>2 DEF Fits, CallPart, CallFits
<1> QED BY <1>1, <1>11, <1>12, <1>13, <1>14, <1>15 DEF Fits, MachinePart, CallPart

\* Where no kernel_step is running the machine is as the inputs leave it, and the
\* host sees what running straight through gives.
LEMMA HereNow ==
  ASSUME Facts, Fits, ~kcall.active
  PROVE  /\ kcall = NoKernelCall /\ Arrives(Line, m.steps) /\ Line.fed[m.steps][pos] \in Worlds
         /\ Like(m, queue, Line.fed[m.steps][pos])
         /\ m.mode = Line.at[m.steps].k.mode /\ m.took = Line.at[m.steps].k.took
         /\ m.prog = Loaded(Line) => Image(m) = Sight(Line, m.steps)
<1>1. kcall = NoKernelCall /\ Here(Line, m, queue, pos, kcall)
  BY DEF Facts, Fits, MachinePart
<1>2. Arrives(Line, m.steps) /\ Like(m, queue, Line.fed[m.steps][pos])
  BY <1>1 DEF Here
<1>3. Line.fed[m.steps][pos] \in Worlds
  BY LineTypes DEF Facts
<1>4. FedSees(Line.fed[m.steps][pos], Line.at[m.steps], m.steps)
  <2>1. \A x \in 1..Len(Line.es) : Line.es[x].kind = "LOAD" => Line.es[x].step = 0
    BY DEF Facts, InputsFit
  <2> QED BY <2>1, FedKeeps DEF Facts
<1>5. m.mode = Line.at[m.steps].k.mode /\ m.took = Line.at[m.steps].k.took
  BY <1>2, <1>4 DEF Like, FedSees
<1> QED BY <1>1, <1>2, <1>3, <1>5 DEF Image, Sight

\* tos_seek returns 0: if it was putting the machine back, the machine is back.
LEMMA SeekOkFits ==
  ASSUME ReplayInv, Fits, SeekOk
  PROVE  Fits'
<1>1. /\ Line' = Line /\ m' = m /\ queue' = queue /\ log' = log /\ pos' = pos /\ images' = images /\ kcall' = kcall
      /\ loadNext' = loadNext /\ broken' = broken /\ snaps' = snaps /\ seq' = seq /\ before' = before
      /\ call' = [NoCall EXCEPT !.failed = call.restoring]
  BY LineStill DEF SeekOk, machine, loading, ring
<1>2. Facts
  BY Known
<1>3. ~kcall.active /\ call.phase = "SEEK" /\ m.steps = call.target
  BY DEF SeekOk, SeekEnds, Landed
<1>4. call'.phase = "HOST" /\ call'.failed = call.restoring
  BY <1>1 DEF NoCall
<1>5. InputPart' /\ RingPart' /\ StampPart'
  BY <1>1 DEF Fits, InputPart, RingPart, StampPart
<1>6. MachinePart'
  BY <1>1, <1>4 DEF Fits, MachinePart, KernelFits
<1>7. CallFits(Line, m, queue, pos, call', kcall, before)
  <2>1. m.prog = Loaded(Line)
    BY <1>3 DEF Fits, CallPart, CallFits
  <2>2. Image(m) = Sight(Line, m.steps)
    BY <1>2, <1>3, <2>1, HereNow
  <2>3. call.restoring => before = Sight(Line, m.steps)
    BY <1>3 DEF Fits, CallPart, CallFits, Goal
  <2> QED BY <1>4, <2>1, <2>2, <2>3 DEF CallFits
<1> QED BY <1>1, <1>5, <1>6, <1>7 DEF Fits, CallPart

\* api_apply_due: a pending input is given at the step it was given at first.
LEMMA ApplyDueFits ==
  ASSUME ReplayInv, Fits, ApplyDue
  PROVE  Fits'
<1>1. /\ Line' = Line /\ images' = images /\ kcall' = kcall
      /\ loadNext' = loadNext /\ snaps' = snaps /\ seq' = seq /\ before' = before /\ call' = call
  BY LineStill DEF ApplyDue, loading, ring, history
<1>2. Facts
  BY Known
<1> DEFINE t == Line
           y == pos + 1
           d == log[y]
           w == Fed(Now, d)
<1>3. /\ ~kcall.active /\ kcall = NoKernelCall /\ (call.phase = "STEP" \/ (call.phase = "SEEK" /\ SeekGoesOn))
      /\ Pending /\ EntryDue(d) /\ log' = [log EXCEPT ![y] = Stamp(@)] /\ pos' = y /\ Apply(d)
  BY <1>2 DEF ApplyDue, Looping, Facts
<1>4. y \in 1..Len(given) /\ pos \in 0..Len(given) /\ y \in 1..Len(log) /\ Len(given) \in Nat
  BY <1>2, <1>3 DEF Facts, Pending
<1> HIDE DEF y
<1>5. t.es = given /\ d \in Inputs /\ SameInput(d, t.es[y]) /\ d.step = t.es[y].step /\ d.step \in Nat
  <2>1. Line.es = given /\ d \in Inputs
    BY <1>2, <1>4 DEF Facts
  <2>2. d.step = Line.es[y].step /\ d.kind = Line.es[y].kind /\ d.value = Line.es[y].value /\ d.tag = Line.es[y].tag
    BY <1>4, <2>1 DEF Fits, InputPart, LogFits
  <2>3. d.step \in Nat
    BY <2>1, Bounds DEF Inputs, Entries
  <2> HIDE DEF d
  <2> QED BY <2>1, <2>2, <2>3 DEF SameInput
<1>6. t.es[y].step = m.steps
  <2>1. t.es[y].step <= m.steps
    BY <1>3, <1>5 DEF EntryDue
  <2>2. t.es[y].step >= m.steps
    <3>1. y \in (pos + 1)..Len(t.es)
      BY <1>4, <1>5 DEF y
    <3>2. m.steps + kcall.left = m.steps
      BY <1>2, <1>3 DEF Facts, NoKernelCall
    <3> QED BY <3>1, <3>2 DEF Fits, MachinePart, PosFits
  <2>3. m.steps \in Nat
    BY <1>2 DEF Facts
  <2> QED BY <1>5, <2>1, <2>2, <2>3
<1>7. ~Recycled(d) /\ m' = w.k /\ queue' = w.q /\ ~broken'
  <2>1. ~Recycled(d)
    <3> SUFFICES ASSUME d.kind = "LOAD" PROVE images[d.value] = d.tag
      BY DEF Recycled
    <3> QED BY <1>4, <1>5 DEF Fits, InputPart, LoadsFit, SameInput
  <2>2. ~broken
    BY <1>2 DEF Facts
  <2> QED BY <1>3, <2>1, <2>2 DEF Apply
<1>8. log \in Seq(Inputs)
  BY DEF ReplayInv, Typed, LogTyped
<1>9. /\ Len(log') = Len(log) /\ log'[y] = Stamp(d) /\ \A i \in 1..Len(log) : i # y => log'[i] = log[i]
  <2> DEFINE e == Stamp(d)
  <2>1. log' = [log EXCEPT ![y] = e]
    BY <1>3
  <2> HIDE DEF e
  <2>2. log \in Seq(Inputs) /\ log' = [log EXCEPT ![y] = e] /\ y \in 1..Len(log)
    BY <1>4, <1>8, <2>1
  <2>3. /\ Len(log') = Len(log) /\ log'[y] = e /\ \A i \in 1..Len(log) : i # y => log'[i] = log[i]
    BY <2>2
  <2> QED BY <2>3 DEF e
<1>10. /\ log'[y].step = m.steps /\ log'[y].tick = m.tick /\ log'[y].kind = d.kind /\ log'[y].value = d.value
       /\ log'[y].tag = d.tag
  <2>1. log'[y] = [d EXCEPT !.step = m.steps, !.tick = m.tick]
    BY <1>9 DEF Stamp
  <2> HIDE DEF d
  <2> QED BY <1>5, <2>1 DEF Inputs, Entries
<1>11. InputPart'
  <2>1. LogFits(t, log')
    <3>1. Len(log') = Len(t.es)
      BY <1>2, <1>5, <1>9 DEF Facts
    <3>2. ASSUME NEW i \in 1..Len(t.es)
          PROVE /\ log'[i].step = t.es[i].step /\ log'[i].kind = t.es[i].kind
                /\ log'[i].value = t.es[i].value /\ log'[i].tag = t.es[i].tag
      <4>1. CASE i = y
        BY <1>5, <1>6, <1>10, <4>1 DEF SameInput
      <4>2. CASE i # y
        <5>1. log'[i] = log[i]
          BY <1>2, <1>5, <1>9, <4>2 DEF Facts
        <5> QED BY <5>1 DEF Fits, InputPart, LogFits
      <4> QED BY <4>1, <4>2
    <3> HIDE DEF t
    <3> QED BY <3>1, <3>2 DEF LogFits
  <2> QED BY <1>1, <1>7, <2>1 DEF Fits, InputPart
<1>12. RingPart'
  BY <1>1 DEF Fits, RingPart
<1>13. /\ Here(t, m, queue, pos, NoKernelCall) /\ PosFits(t, pos, m.steps, NoKernelCall)
       /\ StampsFit(t, log, pos, m, snaps)
  BY <1>3 DEF Fits, MachinePart, StampPart, StampsFit
<1>14. /\ IsLine(t) /\ GoesOn(t, Going) /\ InputsFit(t) /\ Now \in Worlds /\ Now.k = m /\ Now.q = queue
       /\ RingNats(snaps) /\ SnapsFit(t, snaps) /\ RotFits(snaps, seq)
  BY <1>2 DEF Facts, Fits, RingPart
<1>15. pos \in 0..Len(t.es) /\ pos + 1 \in 1..Len(t.es) /\ SameInput(d, t.es[pos + 1]) /\ t.es[pos + 1].step = Now.k.steps
  BY <1>4, <1>5, <1>6, <1>14 DEF y
<1> HIDE DEF t, d
<1>16. /\ Here(t, w.k, w.q, pos + 1, NoKernelCall) /\ PosFits(t, pos + 1, w.k.steps, NoKernelCall)
  BY <1>13, <1>14, <1>15, ApplyHere
<1>17. StampsFit(t, log', pos + 1, w.k, snaps)
  <2>1. log'[pos + 1].tick = Now.k.tick /\ log'[pos + 1].step = Now.k.steps
    BY <1>10, <1>14 DEF y
  <2>2. \A i \in 1..pos : log'[i] = log[i]
    <3>1. \A i \in 1..pos : i \in 1..Len(log) /\ i # y
      BY <1>2, <1>4 DEF y, Facts
    <3> QED BY <1>9, <3>1
  <2>3. StampsFit(t, log, pos, Now.k, snaps)
    BY <1>13, <1>14
  <2> QED BY <1>14, <1>15, <2>1, <2>2, <2>3, ApplyStamp
<1>18. StampPart'
  BY <1>1, <1>3, <1>7, <1>17 DEF StampPart, StampsFit, t, y
<1>19. KernelFits(w.k, w.q, call, kcall)
  BY <1>3 DEF Fits, MachinePart, KernelFits, NoKernelCall
<1>20. MachinePart'
  BY <1>1, <1>3, <1>7, <1>16, <1>19 DEF MachinePart, t, y
<1>21. CallPart'
  <2>1. w.k.steps = m.steps
    BY <1>5, <1>14, FedIs
  <2>2. call.phase = "SEEK" => m.steps < call.target /\ ~call.stuck
    BY <1>3 DEF SeekGoesOn
  <2>3. call.phase # "HOST"
    BY <1>3
  <2>4. m.steps \in Nat /\ call.target \in Nat
    BY <1>2, Bounds DEF Facts, Calls
  <2>5. CallFits(Line, w.k, w.q, y, call, kcall, before)
    <3>1. call.phase = "SEEK" => m.steps # call.target
      BY <2>2, <2>4
    <3> HIDE DEF w
    <3> QED BY <2>1, <2>2, <2>3, <3>1 DEF Fits, CallPart, CallFits
  <2> QED BY <1>1, <1>3, <1>7, <2>5 DEF CallPart
<1> QED BY <1>11, <1>12, <1>18, <1>20, <1>21 DEF Fits

\* Going back: the snapshot found, and the place in the log where what it does not hold begins.
Rewinds(t, lg, sn, s, p) ==
  /\ s.prog = Loaded(t) /\ p \in 0..Len(t.es)
  /\ Here(t, s, << >>, p, NoKernelCall) /\ PosFits(t, p, s.steps, NoKernelCall) /\ StampsFit(t, lg, p, s, sn)
\* snapshot_find and the rewind of the log: from the snapshot found, the entries not baked into it are
\* the ones the timeline gives it next.
LEMMA Rewound ==
  ASSUME ReplayInv, Fits, pos = Len(log), NEW target \in Steps
  PROVE  /\ snaps[Find(target)].m.steps <= target /\ snaps[Find(target)].m \in Machines
         /\ Rewinds(Line, log, snaps, snaps[Find(target)].m, FirstNotBaked(snaps[Find(target)].m))
<1> DEFINE f == Find(target)
           s == snaps[f].m
           p == FirstNotBaked(s)
           t == Line
           L == Len(given)
<1>1. Facts
  BY Known
<1>2. /\ IsLine(t) /\ GoesOn(t, Going) /\ InputsFit(t) /\ t.es = given /\ RingNats(snaps) /\ RingTyped(snaps, seq)
      /\ RingInv /\ L \in Nat /\ pos = L /\ Len(log) = L /\ Len(t.es) = L
  BY <1>1 DEF Facts
<1>3. RotFits(snaps, seq) /\ SnapsFit(t, snaps)
  BY DEF Fits, RingPart
<1>4. /\ f \in 0..Rotating /\ snaps[f].seq # 0 /\ s.steps <= target
      /\ Newest(snaps, f) /\ (s.steps = 0 => f = 0)
      /\ \A i \in 0..Rotating : Newest(snaps, i) /\ snaps[i].m.steps = s.steps => i = f
  BY <1>2, <1>3, FindIs
<1>5. s \in Machines
  BY <1>2, FindType
<1>6. s.steps \in Nat /\ s.steps \in Steps /\ s.tick \in Nat /\ s.lastSnap \in Nat
  <2>1. \A k \in Machines : k.tick \in Nat
    BY Bounds DEF Machines
  <2>2. \A k \in Machines : k.lastSnap \in Steps
    BY DEF Machines
  <2> QED BY <1>5, <2>1, <2>2, MachineFields, Bounds
<1>7. /\ s.steps \in Multiples /\ s.lastSnap = s.steps /\ Arrives(t, s.steps)
      /\ s.prog = Loaded(t) /\ Like(s, << >>, t.at[s.steps])
      /\ s.steps > 0 => s.keys = t.at[s.steps].k.keys
  BY <1>3, <1>4 DEF SnapsFit, SnapFits
<1>8. /\ p \in 0..L /\ \A j \in 1..p : Baked(log[j], s)
      /\ p = L \/ ~Baked(log[p + 1], s)
  <2>1. LogTyped(log, pos, given)
    BY DEF ReplayInv, Typed
  <2> QED BY <1>2, <2>1, RewindType
<1> HIDE DEF f
<1>9. snaps[f].m = s
  OBVIOUS
<1> HIDE DEF s, p
<1>10. \A i \in 1..L : /\ log[i].step = t.es[i].step /\ log[i].kind = t.es[i].kind /\ t.es[i].step \in Nat
                       /\ log[i].kind = "LOAD" => log[i].step = 0
  <2>1. \A i \in 1..L : log[i].step = t.es[i].step /\ log[i].kind = t.es[i].kind
    BY <1>2 DEF Fits, InputPart, LogFits
  <2>2. \A i \in 1..L : t.es[i].step \in Nat /\ (t.es[i].kind = "LOAD" => t.es[i].step = 0)
    BY <1>2, LineTypes DEF InputsFit
  <2> HIDE DEF t
  <2> QED BY <2>1, <2>2
<1>11. \A i \in 1..L : log[i].tick \in Nat
  <2>1. \A i \in 1..L : log[i] \in Inputs
    BY <1>1 DEF Facts
  <2>2. \A e \in Inputs : e.tick \in Nat
    BY Bounds DEF Inputs, Entries
  <2> QED BY <2>1, <2>2
<1> DEFINE a == snaps[0].m
<1>12. PICK j \in 0..L : AnchoredAt(t, log, L, m, a, j)
  BY <1>2 DEF Fits, StampPart, AnchorFits
<1>13. /\ a.keys = t.fed[0][j].k.keys
       /\ \A i \in (j + 1)..L : t.es[i].kind # "LOAD" /\ (i <= L /\ t.es[i].step = 0 => a.tick <= log[i].tick)
  BY <1>2, <1>12 DEF AnchoredAt
<1> HIDE DEF t, L, a
<1>14. p \in Nat /\ L \in Nat /\ j \in Nat /\ p <= L /\ j <= L
  BY <1>2, <1>8
<1>15. ASSUME s.steps = 0
       PROVE  /\ p <= j /\ \A i \in 1..p : t.es[i].step = 0
              /\ s.keys = a.keys /\ s.tick = a.tick
  <2>1. s = a
    BY <1>4, <1>9, <1>15 DEF a
  <2>2. \A i \in 1..p : t.es[i].step = 0
    <3> SUFFICES ASSUME NEW i \in 1..p PROVE t.es[i].step = 0
      OBVIOUS
    <3>1. i \in 1..L /\ Baked(log[i], s)
      BY <1>8, <1>14
    <3> QED BY <1>10, <1>15, <3>1 DEF Baked
  <2>3. p <= j
    <3> SUFFICES ASSUME ~(p <= j) PROVE FALSE
      OBVIOUS
    <3>1. p \in (j + 1)..L /\ p \in 1..p /\ p \in 1..L
      BY <1>14
    <3>2. Baked(log[p], s) /\ t.es[p].step = 0 /\ t.es[p].kind # "LOAD" /\ a.tick <= log[p].tick
      BY <1>8, <1>13, <1>14, <2>2, <3>1
    <3>3. log[p].step = 0 /\ log[p].kind # "LOAD" /\ log[p].tick \in Nat
      BY <1>10, <1>11, <3>1, <3>2
    <3>4. log[p].tick < s.tick
      BY <1>15, <3>2, <3>3 DEF Baked
    <3> QED BY <1>6, <2>1, <3>2, <3>3, <3>4
  <2> QED BY <2>1, <2>2, <2>3
<1>16. ASSUME s.steps > 0
       PROVE  /\ \A i \in 1..p : t.es[i].step < s.steps
              /\ \A i \in (p + 1)..L : t.es[i].step >= s.steps
  <2>1. f \in 1..Rotating /\ Newest(snaps, f)
    <3>1. f # 0
      BY <1>2, <1>6, <1>9, <1>16 DEF RingNats
    <3> QED BY <1>4, <3>1, Bounds DEF Rotating
  <2>2. ASSUME NEW i \in 1..p PROVE t.es[i].step < s.steps
    <3>1. i \in 1..L /\ Baked(log[i], s)
      BY <1>8, <1>14
    <3>2. log[i].step = s.steps => s.tick <= log[i].tick
      BY <1>2, <1>9, <2>1, <3>1 DEF Fits, StampPart, Stamped
    <3>3. log[i].step < s.steps
      <4>1. CASE log[i].step < s.steps
        BY <4>1
      <4>2. CASE log[i].step = s.steps /\ log[i].tick < s.tick
        BY <1>6, <1>11, <3>1, <3>2, <4>2
      <4>3. CASE log[i].kind = "LOAD" /\ log[i].step = s.steps
        BY <1>10, <1>16, <3>1, <4>3
      <4> QED BY <3>1, <4>1, <4>2, <4>3 DEF Baked
    <3> QED BY <1>10, <3>1, <3>3
  <2>3. ASSUME NEW i \in (p + 1)..L PROVE t.es[i].step >= s.steps
    <3> DEFINE y == p + 1
    <3>1. y \in 1..L /\ i \in 1..L /\ y \in 1..i /\ p # L
      BY <1>14
    <3>2. ~Baked(log[y], s)
      BY <1>8, <3>1
    <3> HIDE DEF y
    <3>3. ~(log[y].step < s.steps)
      BY <3>2 DEF Baked
    <3>4. t.es[y].step <= t.es[i].step
      BY <1>2, <3>1 DEF InputsFit
    <3>5. t.es[y].step = log[y].step /\ t.es[y].step \in Nat /\ t.es[i].step \in Nat
      BY <1>10, <3>1
    <3> QED BY <1>6, <3>3, <3>4, <3>5
  <2> QED BY <2>2, <2>3
<1>17. Like(s, << >>, t.fed[s.steps][p])
  <2>1. CASE s.steps = 0
    <3>1. FedSees(t.fed[0][p], t.at[0], 0)
      <4>1. \A x \in 1..Len(t.es) : t.es[x].kind = "LOAD" => t.es[x].step = 0
        BY <1>2 DEF InputsFit
      <4> QED BY <1>2, <1>8, <4>1, Bounds, FedKeeps
    <3>2. Short(t.fed[0][p])
      BY <1>2, <1>7, <1>8, <2>1, Bounds, ShortQueues
    <3>3. t.at[0].k.mode = "RUN"
      BY <1>2 DEF IsLine, Boot
    <3>4. t.fed[0][p].q = << >>
      BY <3>1, <3>2, <3>3 DEF Short, FedSees
    <3> QED BY <1>7, <2>1, <3>1, <3>4 DEF Like, FedSees
  <2>2. CASE s.steps > 0
    <3>1. \A x \in (0 + 1)..p : t.es[x].step # s.steps
      <4> TAKE x \in (0 + 1)..p
      <4>1. x \in 1..p
        OBVIOUS
      <4>2. t.es[x].step < s.steps
        BY <1>16, <2>2, <4>1
      <4> QED BY <1>6, <4>2
    <3>2. 0 \in 0..Len(t.es) /\ p \in 0..Len(t.es)
      BY <1>2, <1>14
    <3>3. t.fed[s.steps][p] = t.fed[s.steps][0]
      BY <1>2, <1>6, <3>1, <3>2, FedSame
    <3>4. t.fed[s.steps][0] = t.at[s.steps]
      BY <1>2, <1>6, LineTypes
    <3> QED BY <1>7, <3>3, <3>4
  <2> QED BY <1>6, <2>1, <2>2
<1>18. s.steps > 0 => s.keys = t.fed[s.steps][p].k.keys
  <2> SUFFICES ASSUME s.steps > 0 PROVE s.keys = t.fed[s.steps][p].k.keys
    OBVIOUS
  <2>1. \A x \in (0 + 1)..p : t.es[x].step # s.steps
    <3> TAKE x \in (0 + 1)..p
    <3>1. x \in 1..p
      OBVIOUS
    <3>2. t.es[x].step < s.steps
      BY <1>16, <3>1
    <3> QED BY <1>6, <3>2
  <2>2. 0 \in 0..Len(t.es) /\ p \in 0..Len(t.es)
    BY <1>2, <1>14
  <2>3. t.fed[s.steps][p] = t.fed[s.steps][0]
    BY <1>2, <1>6, <2>1, <2>2, FedSame
  <2>4. t.fed[s.steps][0] = t.at[s.steps]
    BY <1>2, <1>6, LineTypes
  <2> QED BY <1>7, <2>3, <2>4
<1>19. Here(t, s, << >>, p, NoKernelCall)
  BY <1>7, <1>17, <1>18 DEF Here, NoKernelCall
<1>20. PosFits(t, p, s.steps, NoKernelCall)
  <2>1. s.steps + NoKernelCall.left = s.steps /\ ~NoKernelCall.active
    BY <1>6 DEF NoKernelCall
  <2>2. \A i \in 1..L : t.es[i].step \in Nat
    BY <1>10
  <2>3. (\A i \in 1..p : t.es[i].step <= s.steps) /\ (\A i \in (p + 1)..Len(t.es) : t.es[i].step >= s.steps)
    <3>1. CASE s.steps = 0
      <4>1. \A i \in (p + 1)..Len(t.es) : i \in 1..L
        BY <1>2, <1>14
      <4>2. \A i \in (p + 1)..Len(t.es) : t.es[i].step >= s.steps
        BY <2>2, <3>1, <4>1
      <4> QED BY <1>15, <3>1, <4>2
    <3>2. CASE s.steps > 0
      <4>1. \A i \in 1..p : i \in 1..L
        BY <1>14
      <4>2. \A i \in 1..p : t.es[i].step <= s.steps
        BY <1>6, <1>16, <2>2, <3>2, <4>1
      <4> QED BY <1>2, <1>16, <3>2, <4>2
    <3> QED BY <1>6, <3>1, <3>2
  <2> QED BY <2>1, <2>3 DEF PosFits
<1>21. AnchorFits(t, log, p, s, a)
  <2>1. AnchoredAt(t, log, p, s, a, j)
    BY <1>2, <1>13, <1>14, <1>15 DEF AnchoredAt
  <2> QED BY <1>2, <2>1 DEF AnchorFits
<1>22. Stamped(log, p, snaps)
  <2>1. Stamped(log, L, snaps)
    BY <1>2 DEF Fits, StampPart
  <2>2. \A i \in 1..p : i \in 1..L
    BY <1>14
  <2> QED BY <2>1, <2>2 DEF Stamped
<1>23. TickFits(s, snaps)
  <2>1. ASSUME NEW i \in 0..Rotating, Newest(snaps, i), snaps[i].m.steps = s.steps PROVE snaps[i].m.tick <= s.tick
    <3>1. i = f
      BY <1>4, <1>9, <2>1
    <3> QED BY <1>6, <1>9, <3>1
  <2> QED BY <2>1 DEF TickFits
<1>24. LastFits(s, NoKernelCall)
  <2>1. Interval \in Nat
    BY ReplayAssumption
  <2>2. ~Due(s)
    BY <1>6, <1>7, <2>1 DEF Due
  <2> QED BY <1>6, <1>7, <2>1, <2>2 DEF LastFits
<1>25. Rewinds(t, log, snaps, s, p)
  BY <1>2, <1>7, <1>8, <1>19, <1>20, <1>21, <1>22, <1>23, <1>24 DEF Rewinds, StampsFit, a
<1>26. s.steps <= target
  BY <1>4, <1>9
<1> QED BY <1>5, <1>25, <1>26 DEF s, f, p, t

\* A seek that ends short of its target has been stopped for good: the timeline does not get further.
LEMMA Stranded ==
  ASSUME ReplayInv, Fits, SeekEnds, ~Landed
  PROVE  /\ m.steps < call.target /\ m.steps > 0 /\ m.mode # "RUN"
         /\ \A y \in Steps : y > m.steps => ~Arrives(Line, y)
<1> DEFINE n == m.steps
           t == Line
           L == Len(Line.es)
<1>1. Facts
  BY Known
<1>2. ~kcall.active /\ call.phase = "SEEK" /\ ~SeekGoesOn /\ m.steps # call.target
  BY <1>1 DEF SeekEnds, Landed, Facts
<1>3. n \in Nat /\ n \in Steps /\ call.target \in Nat /\ pos \in 0..L /\ L \in Nat /\ IsLine(t) /\ GoesOn(t, Going)
      /\ InputsFit(t) /\ LoadsFirst(t)
  BY <1>1, Bounds, LoadsAreFirst DEF Facts, Calls
<1>4. n < call.target
  <2>1. n + kcall.left = n
    BY <1>1, <1>2 DEF Facts, NoKernelCall
  <2>2. n + kcall.left <= call.target
    BY <1>2 DEF Fits, CallPart, CallFits
  <2> HIDE DEF n
  <2>3. n # call.target
    BY <1>2 DEF n
  <2> QED BY <1>3, <2>1, <2>2, <2>3
<1>5. \/ m.mode = "HALT"
      \/ m.mode = "IDLE" /\ queue = << >> /\ \A i \in (pos + 1)..L : t.es[i].step > n
  <2>1. m.mode = "HALT" \/ call.stuck
    BY <1>2, <1>4 DEF SeekGoesOn
  <2> QED BY <1>2, <2>1 DEF Fits, CallPart, CallFits
<1>6. /\ Arrives(t, n) /\ Like(m, queue, t.fed[n][pos]) /\ m.mode = t.at[n].k.mode
  BY <1>1, <1>2, HereNow
<1>7. n > 0
  <2>1. n = 0 => m.mode = "RUN"
    BY <1>3, <1>6 DEF IsLine, Boot
  <2> HIDE DEF n
  <2> QED BY <1>3, <1>5, <2>1
<1> HIDE DEF n, t, L
<1> DEFINE w == t.fed[n][L]
<1>8. L \in 0..L /\ L = Len(t.es) /\ w \in Worlds
  BY <1>3, LineTypes DEF L, t
<1>9. FedSees(w, t.at[n], n)
  BY <1>3, <1>8, FedKeeps DEF LoadsFirst
<1>10. Rising(w).k.mode # "RUN"
  <2>1. w.k.mode = m.mode
    BY <1>6, <1>9 DEF FedSees
  <2>2. CASE m.mode = "HALT"
    BY <2>1, <2>2 DEF Rising, CanWake
  <2>3. CASE m.mode = "IDLE" /\ queue = << >> /\ \A i \in (pos + 1)..L : t.es[i].step > n
    <3>1. \A x \in (pos + 1)..L : t.es[x].step # n
      BY <1>3, <2>3
    <3>2. pos \in 0..Len(t.es) /\ L \in pos..Len(t.es)
      BY <1>3, <1>8
    <3>3. w = t.fed[n][pos]
      BY <1>3, <3>1, <3>2, FedSame
    <3>4. w.q = << >>
      BY <1>6, <2>3, <3>3 DEF Like
    <3> QED BY <2>1, <2>3, <3>4 DEF Rising, CanWake
  <2> QED BY <1>5, <2>2, <2>3
<1>11. ASSUME NEW y \in Steps, y > n, Arrives(t, y) PROVE FALSE
  <2>1. Rising(t.fed[n][Len(t.es)]).k.mode = "RUN"
    BY <1>3, <1>6, <1>11, RunsOn
  <2> QED BY <1>8, <1>10, <2>1
<1> QED BY <1>4, <1>5, <1>7, <1>11 DEF n, t

\* The seek begins, or the machine is to be put back: the snapshot fits the timeline.
LEMMA BeginSeekFits ==
  ASSUME ReplayInv, Fits, ~kcall.active, pos = Len(log), NEW target \in Steps, NEW from \in Steps,
         NEW restoring \in BOOLEAN, BeginSeek(target, from, restoring),
         UNCHANGED <<code, log, loading, ring, kcall, given>>,
         Arrives(Line, IF restoring THEN target ELSE from), before' = Sight(Line, IF restoring THEN target ELSE from),
         \A i \in 1..Len(Line.es) : Line.es[i].step <= IF restoring THEN target ELSE from
  PROVE  Fits'
<1> DEFINE s == snaps[Find(target)].m
           p == FirstNotBaked(s)
           goal == IF restoring THEN target ELSE from
<1>1. /\ Line' = Line /\ images' = images /\ loadNext' = loadNext /\ snaps' = snaps /\ seq' = seq
      /\ kcall' = kcall /\ log' = log
  BY LineStill DEF loading, ring
<1>2. Facts
  BY Known
<1>3. kcall = NoKernelCall
  BY <1>2 DEF Facts
<1>4. /\ s.steps <= target /\ s \in Machines /\ Rewinds(Line, log, snaps, s, p)
  BY Rewound
<1>5. /\ queue' = << >> /\ m' = s /\ pos' = p /\ broken' = FALSE
      /\ call' = [NoCall EXCEPT !.phase = "SEEK", !.target = target, !.from = from, !.restoring = restoring]
  BY DEF BeginSeek
<1>6. /\ call'.phase = "SEEK" /\ call'.target = target /\ call'.from = from /\ call'.restoring = restoring
      /\ call'.stuck = FALSE /\ call'.failed = FALSE
  BY <1>5 DEF NoCall
<1> HIDE DEF p, s
<1>7. /\ s.prog = Loaded(Line) /\ Here(Line, s, << >>, p, NoKernelCall)
      /\ PosFits(Line, p, s.steps, NoKernelCall) /\ StampsFit(Line, log, p, s, snaps)
  BY <1>4 DEF Rewinds
<1>8. InputPart' /\ RingPart'
  BY <1>1, <1>5 DEF Fits, InputPart, RingPart
<1>9. StampPart'
  BY <1>1, <1>3, <1>5, <1>7 DEF StampPart, StampsFit
<1>10. KernelFits(s, << >>, call', kcall)
  BY <1>3, <1>6 DEF KernelFits, NoKernelCall
<1>11. MachinePart'
  BY <1>1, <1>3, <1>5, <1>7, <1>10 DEF MachinePart
<1>12. CallFits(Line, s, << >>, p, call', kcall, before')
  <2>1. s.steps + kcall.left <= call'.target
    <3>1. s.steps + 0 = s.steps
      BY <1>4, MachineFields
    <3> QED BY <1>3, <1>4, <1>6, <3>1 DEF NoKernelCall
  <2>2. Goal(call') = goal
    BY <1>6 DEF Goal
  <2> QED BY <1>6, <1>7, <2>1, <2>2 DEF CallFits
<1>13. CallPart'
  BY <1>1, <1>5, <1>12 DEF CallPart
<1> QED BY <1>8, <1>9, <1>11, <1>13 DEF Fits

\* tos_seek begins.
LEMMA SeekCallFits ==
  ASSUME Habits = {}, ReplayInv, Fits, NEW target \in Steps, SeekCall(target)
  PROVE  Fits'
<1>1. Facts
  BY Known
<1>2. /\ call.phase = "HOST" /\ ~Pending /\ BeginSeek(target, m.steps, FALSE) /\ before' = Image(m)
      /\ UNCHANGED <<code, log, loading, ring, kcall, given>>
  BY DEF SeekCall, AtHost, Allowed
<1>3. ~kcall.active /\ m.steps \in Steps /\ pos = Len(log)
  BY <1>1, <1>2 DEF Facts, Pending
<1>4. m.prog = Loaded(Line)
  BY <1>2 DEF Fits, CallPart, CallFits
<1>5. Arrives(Line, m.steps) /\ before' = Sight(Line, m.steps)
  BY <1>1, <1>2, <1>3, <1>4, HereNow
<1>6. \A i \in 1..Len(Line.es) : Line.es[i].step <= m.steps
  <2>1. Len(Line.es) = pos
    BY <1>1, <1>3 DEF Facts
  <2> QED BY <2>1 DEF Fits, MachinePart, PosFits
<1> QED BY <1>2, <1>3, <1>5, <1>6, BeginSeekFits

\* tos_seek fails: the machine is where it was, or is put back there.
LEMMA SeekBackFits ==
  ASSUME ReplayInv, Fits, SeekBack
  PROVE  Fits'
<1> DEFINE n == m.steps
<1>1. Facts
  BY Known
<1>2. SeekEnds /\ ~Landed /\ ~kcall.active /\ call.phase = "SEEK"
      /\ UNCHANGED <<code, log, loading, ring, kcall, given>> /\ before' = before
  BY DEF SeekBack, SeekEnds, history
<1>3. /\ n < call.target /\ n > 0 /\ m.mode # "RUN"
      /\ \A y \in Steps : y > n => ~Arrives(Line, y)
  BY <1>2, Stranded
<1>4. /\ Arrives(Line, Goal(call)) /\ before = Sight(Line, Goal(call))
      /\ \A i \in 1..Len(Line.es) : Line.es[i].step <= Goal(call)
  BY <1>2 DEF Fits, CallPart, CallFits
<1>5. call.target \in Steps /\ call.from \in Steps /\ call.restoring \in BOOLEAN /\ n \in Nat
      /\ call.target \in Nat /\ call.from \in Nat /\ Len(Line.es) \in Nat /\ Len(Line.es) = Len(log)
  BY <1>1, Bounds DEF Facts, Calls
<1>6. ~call.restoring
  <2> SUFFICES ASSUME call.restoring PROVE FALSE
    OBVIOUS
  <2>1. Arrives(Line, call.target)
    BY <1>4 DEF Goal
  <2> QED BY <1>3, <1>5, <2>1
<1>7. Goal(call) = call.from /\ ~(call.from > n)
  BY <1>3, <1>4, <1>5, <1>6 DEF Goal
<1>8. \A i \in (pos + 1)..Len(Line.es) : Line.es[i].step >= n
  <2>1. n + kcall.left = n
    BY <1>1, <1>2 DEF Facts, NoKernelCall
  <2> QED BY <2>1 DEF Fits, MachinePart, PosFits
<1>9. \A i \in 1..Len(Line.es) : Line.es[i].step \in Nat
  BY <1>1, LineTypes DEF Facts
<1>10. CASE n = call.from
  <2>1. /\ call' = [NoCall EXCEPT !.failed = TRUE] /\ m' = m /\ queue' = queue /\ pos' = pos /\ broken' = broken
    BY <1>6, <1>10 DEF SeekBack
  <2>2. /\ Line' = Line /\ images' = images /\ loadNext' = loadNext /\ snaps' = snaps /\ seq' = seq
        /\ kcall' = kcall /\ log' = log /\ before' = before
    BY <1>2, LineStill DEF loading, ring
  <2>3. call'.phase = "HOST" /\ call'.failed = TRUE
    BY <2>1 DEF NoCall
  <2>4. m.prog = Loaded(Line)
    <3>1. \A i \in (pos + 1)..Len(Line.es) : Line.es[i].step > 0
      <4> TAKE i \in (pos + 1)..Len(Line.es)
      <4>1. i \in 1..Len(Line.es)
        BY <1>1 DEF Facts
      <4>2. Line.es[i].step \in Nat /\ Line.es[i].step >= n
        BY <1>8, <1>9, <4>1
      <4> HIDE DEF n
      <4> QED BY <1>3, <1>5, <4>2
    <3>2. Line.fed[0][pos].k.prog = Loaded(Line)
      BY <1>1, <3>1, LateProg DEF Facts
    <3> QED BY <3>2 DEF Fits, MachinePart, Here
  <2>5. Image(m) = before
    <3>1. Image(m) = Sight(Line, m.steps)
      BY <1>1, <1>2, <2>4, HereNow
    <3> QED BY <1>4, <1>7, <1>10, <3>1
  <2>6. InputPart' /\ RingPart' /\ StampPart'
    BY <2>1, <2>2 DEF Fits, InputPart, RingPart, StampPart
  <2>7. MachinePart'
    BY <2>1, <2>2, <2>3 DEF Fits, MachinePart, KernelFits
  <2>8. CallFits(Line, m, queue, pos, call', kcall, before)
    BY <2>3, <2>4, <2>5 DEF CallFits
  <2>9. CallPart'
    BY <2>1, <2>2, <2>8 DEF CallPart
  <2> QED BY <2>6, <2>7, <2>9 DEF Fits
<1>11. CASE n # call.from
  <2>1. BeginSeek(call.from, n, TRUE)
    BY <1>6, <1>11 DEF SeekBack
  <2>2. pos = Len(log)
    <3> SUFFICES ASSUME pos # Len(log) PROVE FALSE
      OBVIOUS
    <3>1. pos + 1 \in (pos + 1)..Len(Line.es) /\ pos + 1 \in 1..Len(Line.es)
      BY <1>1, <1>5 DEF Facts
    <3> DEFINE y == pos + 1
    <3>2. y \in (pos + 1)..Len(Line.es) /\ y \in 1..Len(Line.es)
      BY <3>1
    <3> HIDE DEF y
    <3>3. Line.es[y].step >= n /\ Line.es[y].step <= call.from /\ Line.es[y].step \in Nat
      BY <1>4, <1>7, <1>8, <1>9, <3>2
    <3> HIDE DEF n
    <3> QED BY <1>5, <1>7, <1>11, <3>3
  <2>3. n \in Steps
    BY <1>1 DEF Facts
  <2> DEFINE g == call.from
  <2>4. /\ g \in Steps /\ BeginSeek(g, n, TRUE) /\ Arrives(Line, g) /\ before' = Sight(Line, g)
        /\ \A i \in 1..Len(Line.es) : Line.es[i].step <= g
    BY <1>2, <1>4, <1>5, <1>7, <2>1
  <2> HIDE DEF g, n
  <2> QED BY <1>2, <2>2, <2>3, <2>4, BeginSeekFits
<1> QED BY <1>10, <1>11

---------------------------------------------------------------------------
(* kernel_step runs an instruction, and returns.                           *)

\* The machine k as it may be saved: m, or m with the tick of the end of the call.
AsNow(k) ==
  /\ k \in Machines /\ k.steps = m.steps /\ k.mode = m.mode /\ k.took = m.took /\ k.prog = m.prog /\ k.keys = m.keys
  /\ k.lastSnap = m.lastSnap /\ k.tick >= m.tick
MarkedAs(j, k) ==
  /\ j \in Machines /\ j.steps = k.steps /\ j.mode = k.mode /\ j.took = k.took /\ j.prog = k.prog /\ j.keys = k.keys
  /\ j.tick = k.tick /\ j.lastSnap = IF Due(k) THEN k.steps ELSE k.lastSnap
\* k_maybe_snapshot changes only the stamp of the last snapshot.
LEMMA MarkedIs ==
  ASSUME NEW k \in Machines
  PROVE  MarkedAs(Marked(k), k)
<1>1. CASE Due(k)
  <2>1. Marked(k) = [k EXCEPT !.lastSnap = k.steps]
    BY <1>1 DEF Marked
  <2>2. k.steps \in Steps
    BY DEF Machines
  <2>3. Marked(k) \in Machines
    BY <2>1, <2>2 DEF Machines
  <2> QED BY <1>1, <2>1, <2>3 DEF MarkedAs, Machines
<1>2. CASE ~Due(k)
  BY <1>2 DEF Marked, MarkedAs
<1> QED BY <1>1, <1>2

\* A machine past the start of its call has seen no input of its step.
LEMMA PastStart ==
  ASSUME ReplayInv, Fits, kcall.active, m.steps # kcall.start
  PROVE  /\ m.steps > kcall.start /\ m.steps > 0 /\ queue = << >> /\ m.prog = Loaded(Line)
         /\ \A i \in 1..pos : Line.es[i].step < m.steps /\ Line.es[i].step \in Nat
         /\ Like(m, queue, Line.at[m.steps]) /\ m.keys = Line.at[m.steps].k.keys
<1> DEFINE n == m.steps
           t == Line
<1>1. Facts
  BY Known
<1>2. n \in Nat /\ n \in Steps /\ pos \in 0..Len(t.es) /\ Len(t.es) \in Nat /\ IsLine(t) /\ kcall.left \in Nat /\ pos \in Nat
  BY <1>1, Bounds DEF Facts, KernelCalls
<1>3. n > kcall.start /\ n > 0
  <2>1. kcall.start <= n /\ kcall.start \in Nat
    BY <1>1, Bounds DEF ReplayInv, Budgeted, Facts, KernelCalls
  <2>2. n # kcall.start
    OBVIOUS
  <2> HIDE DEF n
  <2> QED BY <1>2, <2>1, <2>2
<1>4. Here(t, m, queue, pos, kcall) /\ PosFits(t, pos, n, kcall)
  BY DEF Fits, MachinePart
<1>5. queue = << >> /\ Like(m, queue, t.fed[n][pos]) /\ m.keys = t.fed[n][pos].k.keys
  BY <1>3, <1>4 DEF Here
<1>6. \A i \in 1..pos : t.es[i].step < n /\ t.es[i].step \in Nat
  <2>1. \A i \in 1..pos : i \in 1..Len(t.es)
    BY <1>2
  <2>2. \A i \in 1..Len(t.es) : t.es[i].step \in Nat
    BY <1>2, LineTypes
  <2> QED BY <1>3, <1>4, <2>1, <2>2 DEF PosFits
<1> HIDE DEF n, t
<1>7. t.fed[n][pos] = t.at[n]
  <2>1. \A x \in (0 + 1)..pos : t.es[x].step # n
    BY <1>2, <1>6
  <2>2. 0 \in 0..Len(t.es) /\ pos \in 0..Len(t.es)
    BY <1>2
  <2>3. t.fed[n][pos] = t.fed[n][0]
    BY <1>2, <2>1, <2>2, FedSame
  <2> QED BY <1>2, <2>3, LineTypes
<1>8. m.prog = Loaded(t)
  <2>1. \A i \in (pos + 1)..Len(t.es) : t.es[i].step > 0
    <3> TAKE i \in (pos + 1)..Len(t.es)
    <3>1. t.es[i].step >= n + kcall.left
      BY <1>4 DEF PosFits
    <3>2. i \in 1..Len(t.es)
      BY <1>2
    <3>3. t.es[i].step \in Nat
      BY <1>2, <3>2, LineTypes
    <3> QED BY <1>2, <1>3, <3>1, <3>3
  <2>2. t.fed[0][pos].k.prog = Loaded(t)
    BY <1>2, <2>1, LateProg
  <2> QED BY <1>4, <2>2 DEF Here
<1> QED BY <1>3, <1>5, <1>6, <1>7, <1>8 DEF n, t

\* k_maybe_snapshot in the loop or at the end of a call.
RingFits(t, sn, sq, k) ==
  /\ RotFits(sn, sq) /\ SnapsFit(t, sn) /\ sn[0] = snaps[0] /\ Stamped(log, pos, sn)
  /\ TickFits(k, sn)
  /\ k.lastSnap \in Multiples /\ k.lastSnap \in Nat /\ k.lastSnap <= m.steps
  /\ (Interval # 0 => m.steps < k.lastSnap + Interval) /\ ~Due(k)
\* k_maybe_snapshot inside kernel_step saves the machine of the timeline, and its tick tells it from
\* the inputs of its step.
LEMMA MaybeSaveFits ==
  ASSUME ReplayInv, Fits, kcall.active, NEW k, AsNow(k), MaybeSave(k)
  PROVE  RingFits(Line, snaps', seq', Marked(k))
<1> DEFINE n == m.steps
           t == Line
           j == Marked(k)
<1>1. Facts
  BY Known
<1>2. /\ n \in Nat /\ n \in Steps /\ Interval \in Nat /\ RingNats(snaps) /\ RingTyped(snaps, seq) /\ RingInv
      /\ 0 \in 0..Rotating /\ m.lastSnap \in Nat
  <2>1. m.lastSnap \in Steps
    BY <1>1 DEF Facts, Machines
  <2>2. m.lastSnap \in Nat
    BY <2>1, Bounds
  <2>3. 0 \in 0..Rotating
    BY Bounds DEF Rotating
  <2>4. Interval \in Nat
    BY ReplayAssumption
  <2> QED BY <1>1, <2>2, <2>3, <2>4 DEF Facts
<1>3. /\ RotFits(snaps, seq) /\ SnapsFit(t, snaps) /\ Stamped(log, pos, snaps) /\ TickFits(m, snaps) /\ LastFits(m, kcall)
  BY DEF Fits, RingPart, StampPart
<1>4. MarkedAs(j, k) /\ (Due(k) <=> Due(m)) /\ k.steps = n /\ k.tick \in Nat /\ m.tick \in Nat /\ k.tick >= m.tick
  <2>1. k \in Machines
    BY DEF AsNow
  <2>2. \A x \in Machines : x.tick \in Nat
    BY Bounds DEF Machines
  <2> QED BY <1>1, <2>1, <2>2, MarkedIs DEF AsNow, Due, Facts
<1>5. /\ m.lastSnap \in Multiples /\ m.lastSnap <= n /\ (Interval # 0 => n <= m.lastSnap + Interval)
      /\ (m.steps = kcall.start => ~Due(m))
  BY <1>3 DEF LastFits
<1>6. k.lastSnap = m.lastSnap
  BY DEF AsNow
<1>7. CASE ~Due(m)
  <2>1. snaps' = snaps /\ seq' = seq /\ j = k
    BY <1>4, <1>7 DEF MaybeSave, ring, Marked
  <2>2. Interval # 0 => n < m.lastSnap + Interval
    BY <1>2, <1>7 DEF Due
  <2>3. TickFits(k, snaps)
    <3>1. ASSUME NEW i \in 0..Rotating, Newest(snaps, i), snaps[i].m.steps = k.steps, k.lastSnap = k.steps
          PROVE  snaps[i].m.tick <= k.tick
      <4>1. snaps[i].m.tick <= m.tick
        BY <1>3, <1>4, <1>6, <3>1 DEF TickFits
      <4>2. snaps[i].m.tick \in Nat
        BY <1>2 DEF RingNats
      <4> QED BY <1>4, <4>1, <4>2
    <3> QED BY <3>1 DEF TickFits
  <2> QED BY <1>2, <1>3, <1>4, <1>5, <1>6, <1>7, <2>1, <2>2, <2>3 DEF RingFits
<1>8. CASE Due(m)
  <2>1. m.steps # kcall.start
    BY <1>5, <1>8
  <2>2. /\ n > 0 /\ queue = << >> /\ m.prog = Loaded(t) /\ \A i \in 1..pos : t.es[i].step < n /\ t.es[i].step \in Nat
        /\ Like(m, queue, t.at[n]) /\ m.keys = t.at[n].k.keys
    BY <2>1, PastStart
  <2>3. Arrives(t, n)
    BY DEF Fits, MachinePart, Here
  <2>4. Interval # 0 /\ n = m.lastSnap + Interval /\ n \in Multiples
    <3>1. Interval # 0 /\ n - m.lastSnap >= Interval
      BY <1>8 DEF Due
    <3>2. n = m.lastSnap + Interval
      BY <1>2, <1>5, <3>1
    <3> QED BY <1>2, <1>5, <3>1, <3>2, MultipleNext
  <2>5. /\ j \in Machines /\ j.steps = n /\ j.lastSnap = n /\ j.mode = m.mode /\ j.took = m.took /\ j.prog = m.prog
        /\ j.keys = m.keys /\ j.tick = k.tick
    BY <1>4, <1>8 DEF MarkedAs, AsNow
  <2> HIDE DEF n, t, j
  <2>6. SnapFits(t, j)
    BY <2>2, <2>3, <2>4, <2>5 DEF SnapFits, Like
  <2> DEFINE x == 1 + ((seq - 1) % Rotating)
  <2>7. x \in 1..Rotating /\ Saves(j, x)
    <3>1. Save(j)
      BY <1>4, <1>8 DEF MaybeSave, j
    <3>2. j.steps \in Nat /\ j.steps # 0
      BY <1>2, <2>2, <2>5
    <3> QED BY <1>2, <3>1, <3>2, SaveIs
  <2>8. x = 1 + ((seq - 1) % Rotating) /\ j.steps \in Nat /\ j.steps # 0 /\ x \in 0..Rotating /\ x # 0
    BY <1>2, <2>2, <2>5, <2>7
  <2> HIDE DEF x
  <2>9. snaps'[x] = [seq |-> seq + 1, m |-> j] /\ \A i \in 0..Rotating : i # x => snaps'[i] = snaps[i]
    BY <2>7 DEF Saves
  <2>10. snaps'[x].m = j /\ snaps'[0] = snaps[0]
    BY <1>2, <2>8, <2>9
  <2>11. RotFits(snaps', seq')
    BY <1>2, <1>3, <2>7, <2>8, RotSave
  <2>12. SnapsFit(t, snaps')
    <3>1. ASSUME NEW i \in 0..Rotating, snaps'[i].seq # 0 PROVE SnapFits(t, snaps'[i].m)
      <4>1. CASE i = x
        BY <2>6, <2>10, <4>1
      <4>2. CASE i # x
        BY <1>3, <2>9, <3>1, <4>2 DEF SnapsFit
      <4> QED BY <4>1, <4>2
    <3> QED BY <3>1 DEF SnapsFit
  <2>13. \A i \in 0..Rotating : Newest(snaps', i) =>
           i = x \/ (i # x /\ snaps'[i] = snaps[i] /\ snaps[i].m.steps # n /\ Newest(snaps, i))
    BY <1>2, <1>3, <2>5, <2>7, <2>8, NewestSave
  <2>14. \A i \in 1..pos : log[i].step = t.es[i].step
    <3>1. \A i \in 1..pos : i \in 1..Len(Line.es)
      BY <1>1 DEF Facts
    <3> QED BY <3>1 DEF Fits, InputPart, LogFits, t
  <2>15. Stamped(log, pos, snaps')
    <3>1. ASSUME NEW i \in 1..Rotating, Newest(snaps', i), NEW e \in 1..pos, log[e].step = snaps'[i].m.steps
          PROVE  snaps'[i].m.tick <= log[e].tick
      <4>1. i \in 0..Rotating
        OBVIOUS
      <4>2. CASE i = x
        <5>1. log[e].step = n
          BY <2>5, <2>10, <3>1, <4>2
        <5>2. log[e].step < n
          BY <2>2, <2>14
        <5> QED BY <1>2, <5>1, <5>2
      <4>3. CASE i # x
        <5>1. snaps'[i] = snaps[i] /\ Newest(snaps, i)
          BY <2>13, <3>1, <4>1, <4>3
        <5> QED BY <1>3, <3>1, <5>1 DEF Stamped
      <4> QED BY <4>2, <4>3
    <3> QED BY <3>1 DEF Stamped
  <2>16. TickFits(j, snaps')
    <3>1. ASSUME NEW i \in 0..Rotating, Newest(snaps', i), snaps'[i].m.steps = j.steps PROVE snaps'[i].m.tick <= j.tick
      <4>1. i = x
        BY <2>5, <2>13, <3>1
      <4> QED BY <1>4, <2>5, <2>10, <4>1
    <3> QED BY <3>1 DEF TickFits
  <2>17. ~Due(j)
    BY <1>2, <2>4, <2>5 DEF Due
  <2>18. j.lastSnap \in Multiples /\ j.lastSnap \in Nat /\ j.lastSnap <= n /\ (Interval # 0 => n < j.lastSnap + Interval)
    BY <1>2, <2>4, <2>5
  <2> QED BY <2>10, <2>11, <2>12, <2>15, <2>16, <2>17, <2>18 DEF RingFits, n, t, j
<1> QED BY <1>7, <1>8

\* An instruction is run: the timeline runs the same one.
LEMMA ExecuteFits ==
  ASSUME ReplayInv, Fits, Execute
  PROVE  Fits'
<1> DEFINE n == m.steps
           t == Line
           L == Len(Line.es)
           v == Line.fed[m.steps][Len(Line.es)]
           u == [k |-> Marked(m), q |-> queue]
           w == Executed(u)
<1>1. /\ Line' = Line /\ log' = log /\ pos' = pos /\ images' = images
      /\ loadNext' = loadNext /\ broken' = broken /\ call' = call /\ before' = before
  BY LineStill DEF Execute, loading, host
<1>2. Facts
  BY Known
<1>3. /\ kcall.active /\ kcall.stop = "NONE" /\ m.mode = "RUN" /\ kcall.left > 0 /\ m' = w.k /\ queue' = w.q
      /\ kcall' = [kcall EXCEPT !.left = @ - 1,
                                 !.stop = CASE w.k.mode = "IDLE" -> "WAIT_INPUT"
                                            [] w.k.mode = "HALT" -> "HALT"
                                            [] OTHER -> "NONE"]
      /\ MaybeSave(m)
  BY DEF Execute, Running
<1>4. /\ IsLine(t) /\ GoesOn(t, Going) /\ InputsFit(t) /\ LoadsFirst(t) /\ n \in Steps /\ n \in Nat /\ m \in Machines
      /\ queue \in Queues /\ L \in Nat /\ pos \in 0..L /\ pos \in Nat /\ L \in 0..L /\ L \in pos..L
  <2>1. Line.es = given /\ Len(given) \in Nat /\ pos \in 0..Len(given)
    BY <1>2 DEF Facts
  <2> QED BY <1>2, <2>1, LoadsAreFirst DEF Facts
<1>5. kcall.left \in Nat /\ kcall.start \in Nat /\ kcall.start <= n /\ n + kcall.left <= MaxSteps /\ MaxSteps \in Nat
  <2>1. kcall.left \in Nat /\ kcall.start \in Nat
    BY <1>2, Bounds DEF Facts, KernelCalls
  <2> QED BY <1>3, <2>1, Bounds DEF ReplayInv, Budgeted
<1>6. n + 1 \in Steps /\ n + 1 \in Nat /\ n + 1 > n /\ n + 1 > 0
  <2>1. n + 1 \in Nat /\ n + 1 > n /\ n + 1 > 0 /\ n + 1 <= MaxSteps
    <3> HIDE DEF n
    <3> QED BY <1>3, <1>4, <1>5
  <2>2. n + 1 \in Steps
    BY <2>1, Bounds
  <2> QED BY <2>1, <2>2
<1>7. /\ kcall'.active = TRUE /\ kcall'.left = kcall.left - 1 /\ kcall'.start = kcall.start
      /\ kcall'.stop = "HALT" => w.k.mode = "HALT"
      /\ kcall'.stop = "WAIT_INPUT" => w.k.mode = "IDLE"
      /\ kcall'.stop # "BUDGET"
  <2> DEFINE why == CASE w.k.mode = "IDLE" -> "WAIT_INPUT"
                      [] w.k.mode = "HALT" -> "HALT"
                      [] OTHER -> "NONE"
             less == kcall.left - 1
  <2>1. kcall' = [kcall EXCEPT !.left = less, !.stop = why] /\ kcall \in KernelCalls /\ kcall.active = TRUE
    BY <1>2, <1>3 DEF Facts, KernelCalls
  <2>2. (why = "HALT" => w.k.mode = "HALT") /\ (why = "WAIT_INPUT" => w.k.mode = "IDLE") /\ why # "BUDGET"
    <3> HIDE DEF w
    <3> QED OBVIOUS
  <2> HIDE DEF why, less
  <2>3. kcall'.active = TRUE /\ kcall'.left = less /\ kcall'.start = kcall.start /\ kcall'.stop = why
    BY <2>1 DEF KernelCalls
  <2> QED BY <2>2, <2>3 DEF less
<1>8. Here(t, m, queue, pos, kcall) /\ PosFits(t, pos, n, kcall) /\ KernelFits(m, queue, call, kcall)
  BY DEF Fits, MachinePart
<1>9. \A i \in (pos + 1)..L : t.es[i].step >= n + kcall.left /\ t.es[i].step \in Nat
  <2>1. \A i \in (pos + 1)..L : i \in 1..L
    BY <1>4
  <2> QED BY <1>4, <1>8, <2>1, LineTypes DEF PosFits
<1>10. \A i \in (pos + 1)..L : t.es[i].step > n
  BY <1>3, <1>4, <1>5, <1>9
<1>11. v = t.fed[n][pos] /\ v \in Worlds
  <2>1. \A x \in (pos + 1)..L : t.es[x].step # n
    BY <1>4, <1>10
  <2> HIDE DEF n, t, L
  <2>2. pos \in 0..Len(t.es) /\ L \in pos..Len(t.es)
    BY <1>4 DEF L, t
  <2>3. t.fed[n][L] = t.fed[n][pos]
    BY <1>4, <2>1, <2>2, FedSame
  <2> QED BY <1>4, <2>2, <2>3, LineTypes DEF L, n, t
<1>12. AsNow(m) /\ MarkedAs(Marked(m), m) /\ RingFits(t, snaps', seq', Marked(m))
  <2>1. AsNow(m)
    BY <1>2 DEF Facts, AsNow
  <2> QED BY <1>3, <1>4, <2>1, MarkedIs, MaybeSaveFits
<1>13. u \in Worlds /\ u.k = Marked(m) /\ u.q = queue
  BY <1>4, <1>12 DEF MarkedAs, Worlds
<1> HIDE DEF v, u, w
<1>14. Like(m, queue, Rising(v)) /\ Rising(v).k.mode = "RUN"
  <2>1. CASE Like(m, queue, v)
    <3>1. v.k.mode = "RUN"
      BY <1>3, <2>1 DEF Like
    <3> QED BY <2>1, <3>1 DEF Rising, CanWake
  <2>2. CASE CanWake(v) /\ Like(m, queue, Woken(v))
    BY <1>3, <2>2 DEF Rising, Like
  <2> QED BY <1>8, <1>11, <2>1, <2>2 DEF Here
<1>15. m.keys = v.k.keys
  <2>1. CASE n > 0
    BY <1>8, <1>11, <2>1 DEF Here
  <2>2. CASE n = 0
    <3>1. AnchorFits(t, log, pos, m, snaps[0].m)
      BY DEF Fits, StampPart
    <3>2. \A i \in (pos + 1)..Len(t.es) : t.es[i].step > 0
      BY <1>10, <2>2
    <3> HIDE DEF t
    <3>3. m.keys = t.fed[0][pos].k.keys
      BY <1>4, <2>2, <3>1, <3>2, KeysNow DEF t
    <3> QED BY <1>11, <2>2, <3>3
  <2> QED BY <1>4, <2>1, <2>2
<1>16. t.at[n + 1] = Executed(Rising(v)) /\ Arrives(t, n + 1)
  <2>1. Arrives(t, n)
    BY <1>8 DEF Here
  <2> QED BY <1>4, <1>6, <1>14, <2>1, RunsOn DEF v
<1>17. Rising(v) \in Worlds /\ Rising(v).k.steps = n /\ Rising(v).k.keys = m.keys
  <2>1. v.k.steps = n
    <3>1. FedSees(v, t.at[n], n)
      BY <1>4, FedKeeps DEF v, LoadsFirst
    <3>2. t.at[n].k.steps = n
      BY <1>4, <1>8, ArrivesDown DEF Here
    <3> QED BY <3>1, <3>2 DEF FedSees
  <2> QED BY <1>11, <1>15, <2>1, RisingIs
<1>18. Like(w.k, w.q, t.at[n + 1])
  <2>1. u.k.steps = Rising(v).k.steps /\ u.k.keys = Rising(v).k.keys /\ Like(u.k, u.q, Rising(v))
    BY <1>12, <1>13, <1>14, <1>17 DEF MarkedAs, Like
  <2> QED BY <1>13, <1>16, <1>17, <2>1, ExecutedLike DEF w
<1>19. /\ w.k.steps = n + 1 /\ w.k.keys = m.keys /\ w.k.prog = m.prog /\ w.k.tick = m.tick /\ w.k.lastSnap = Marked(m).lastSnap
  BY <1>12, <1>13, ExecutedIs DEF w, MarkedAs
<1>20. t.at[n + 1].k.keys = m.keys
  BY <1>16, <1>17, ExecutedIs
<1> DEFINE y == n + 1
<1> HIDE DEF y
<1>21. y \in Steps /\ y \in Nat /\ y > n /\ y > 0 /\ y = n + 1 /\ Arrives(t, y) /\ Like(w.k, w.q, t.at[y]) /\ w.k.steps = y
       /\ t.at[y].k.keys = m.keys
  BY <1>6, <1>16, <1>18, <1>19, <1>20 DEF y
<1>22. w.q = << >>
  BY <1>4, <1>21, ShortQueues DEF Like
<1>23. t.fed[y][pos] = t.at[y]
  <2>1. \A x \in (0 + 1)..pos : t.es[x].step # y
    <3> TAKE x \in (0 + 1)..pos
    <3>1. x \in 1..pos /\ x \in 1..L
      BY <1>4
    <3>2. t.es[x].step <= n
      BY <1>8, <3>1 DEF PosFits
    <3>3. t.es[x].step \in Nat
      BY <1>4, <3>1, LineTypes
    <3> HIDE DEF n
    <3> QED BY <1>4, <1>21, <3>2, <3>3
  <2>2. 0 \in 0..Len(t.es) /\ pos \in 0..Len(t.es)
    BY <1>4
  <2>3. t.fed[y][pos] = t.fed[y][0]
    BY <1>4, <1>21, <2>1, <2>2, FedSame
  <2> QED BY <1>4, <1>21, <2>3, LineTypes
<1>24. Here(t, w.k, w.q, pos, kcall')
  <2>1. w.k.prog \in {Loaded(t), t.fed[0][pos].k.prog}
    BY <1>8, <1>19 DEF Here
  <2> HIDE DEF t, n
  <2> QED BY <1>19, <1>21, <1>22, <1>23, <2>1 DEF Here
<1>25. PosFits(t, pos, w.k.steps, kcall')
  <2>1. \A i \in 1..pos : t.es[i].step <= n /\ t.es[i].step \in Nat
    <3>1. \A i \in 1..pos : i \in 1..L
      BY <1>4
    <3> QED BY <1>4, <1>8, <3>1, LineTypes DEF PosFits
  <2>2. \A i \in 1..pos : t.es[i].step <= y /\ t.es[i].step < y
    BY <1>4, <1>21, <2>1
  <2>3. y + kcall'.left = n + kcall.left
    <3> HIDE DEF n
    <3> QED BY <1>4, <1>5, <1>7, <1>21
  <2>4. \A i \in (pos + 1)..Len(t.es) : t.es[i].step >= y + kcall'.left
    BY <1>9, <2>3
  <2> HIDE DEF t, n
  <2> QED BY <1>21, <2>2, <2>4 DEF PosFits
<1>26. KernelFits(w.k, w.q, call, kcall')
  <2>1. w.k.steps # kcall'.start
    <3> HIDE DEF n
    <3> QED BY <1>4, <1>5, <1>7, <1>21
  <2>2. call.phase = "STEP" => ~call.failed
    BY <1>8 DEF KernelFits
  <2> QED BY <1>7, <1>22, <2>1, <2>2 DEF KernelFits
<1>27. CallFits(t, w.k, w.q, pos, call, kcall', before)
  <2>1. call.phase # "HOST"
    BY <1>2, <1>3 DEF Facts
  <2>2. CallFits(t, m, queue, pos, call, kcall, before)
    BY DEF Fits, CallPart
  <2>3. w.k.steps + kcall'.left = n + kcall.left
    <3> HIDE DEF n
    <3> QED BY <1>4, <1>5, <1>7, <1>21
  <2>4. m.prog = Loaded(t)
    <3>1. \A i \in (pos + 1)..Len(t.es) : t.es[i].step > 0
      BY <1>4, <1>9, <1>10
    <3>2. t.fed[0][pos].k.prog = Loaded(t)
      <4> HIDE DEF t
      <4> QED BY <1>4, <3>1, LateProg DEF t
    <3> QED BY <1>8, <3>2 DEF Here
  <2>5. call.phase = "SEEK" => ~call.stuck
    BY <1>3, <2>2 DEF CallFits
  <2> HIDE DEF t
  <2> QED BY <1>19, <2>1, <2>2, <2>3, <2>4, <2>5 DEF CallFits
<1>28. InputPart'
  BY <1>1 DEF Fits, InputPart
<1>29. RingPart'
  BY <1>1, <1>12 DEF RingPart, RingFits
<1>30. StampPart'
  <2>1. AnchorFits(t, log, pos, m, snaps[0].m)
    BY DEF Fits, StampPart
  <2>2. AnchorFits(t, log, pos, w.k, snaps[0].m)
    <3>1. PICK j \in 0..Len(t.es) : AnchoredAt(t, log, pos, m, snaps[0].m, j)
      BY <2>1 DEF AnchorFits
    <3>2. w.k.steps # 0
      BY <1>21
    <3>3. AnchoredAt(t, log, pos, w.k, snaps[0].m, j)
      BY <3>1, <3>2 DEF AnchoredAt
    <3> QED BY <3>3 DEF AnchorFits
  <2> DEFINE l == Marked(m).lastSnap
  <2>3. l \in Multiples /\ l \in Nat /\ l <= n /\ (Interval # 0 => n < l + Interval) /\ w.k.lastSnap = l
        /\ Stamped(log, pos, snaps') /\ snaps'[0] = snaps[0]
    BY <1>12, <1>19 DEF RingFits
  <2> HIDE DEF l, n
  <2>4. Interval \in Nat /\ kcall'.active /\ w.k.steps # kcall'.start
    BY <1>4, <1>5, <1>7, <1>21, ReplayAssumption
  <2>5. w.k.lastSnap # w.k.steps /\ w.k.lastSnap <= w.k.steps /\ (Interval # 0 => w.k.steps <= w.k.lastSnap + Interval)
    BY <1>4, <1>21, <2>3, <2>4
  <2>6. TickFits(w.k, snaps')
    BY <2>5 DEF TickFits
  <2>7. LastFits(w.k, kcall')
    BY <2>3, <2>4, <2>5 DEF LastFits
  <2> QED BY <1>1, <1>3, <2>2, <2>3, <2>6, <2>7 DEF StampPart
<1>31. MachinePart' /\ CallPart'
  BY <1>1, <1>3, <1>24, <1>25, <1>26, <1>27 DEF MachinePart, CallPart
<1> QED BY <1>28, <1>29, <1>30, <1>31 DEF Fits

\* kernel_step returns to the loop of tos_step or tos_seek.
LEMMA ReturnFits ==
  ASSUME ReplayInv, Fits, NoWrap, Return
  PROVE  Fits'
<1> DEFINE n == m.steps
           t == Line
           k == [m EXCEPT !.tick = (@ + 1) % TickMod]
           j == Marked(k)
           ran == m.steps - kcall.start
           more == kcall.stop = "BUDGET" /\ call.left > ran /\ Pending
           rest == call.left - ran
           next == IF more THEN "STEP" ELSE "HOST"
<1>1. /\ Line' = Line /\ queue' = queue /\ log' = log /\ pos' = pos /\ images' = images
      /\ loadNext' = loadNext /\ broken' = broken /\ before' = before
  BY LineStill DEF Return, loading, host
<1>2. Facts
  BY Known
<1>3. /\ kcall.active /\ kcall.stop # "NONE" /\ m' = j /\ MaybeSave(k) /\ kcall' = NoKernelCall
      /\ call.phase = "STEP" => call' = [call EXCEPT !.left = rest, !.phase = next]
      /\ call.phase # "STEP" => call' = [call EXCEPT !.stuck = (ran = 0)]
  BY DEF Return
<1>4. /\ n \in Nat /\ m \in Machines /\ m.tick \in Nat /\ IsLine(t) /\ pos \in 0..Len(t.es) /\ pos \in Nat /\ Len(t.es) \in Nat
      /\ call \in Calls
  BY <1>2 DEF Facts
<1>5. kcall.left \in Nat /\ kcall.start \in Nat /\ kcall.start <= n /\ (call.phase = "STEP" \/ call.phase = "SEEK")
      /\ call.left \in Nat /\ call.target \in Nat
  <2>1. kcall.left \in Nat /\ kcall.start \in Nat
    BY <1>2, Bounds DEF Facts, KernelCalls
  <2>2. call.left \in Nat /\ call.target \in Nat /\ call.phase \in {"HOST", "STEP", "SEEK"}
    BY <1>4, Bounds DEF Calls
  <2> QED BY <1>3, <2>1, <2>2 DEF ReplayInv, Budgeted
<1>6. /\ k \in Machines /\ k.tick = m.tick + 1 /\ k.steps = n /\ k.mode = m.mode /\ k.took = m.took /\ k.prog = m.prog
      /\ k.keys = m.keys /\ k.lastSnap = m.lastSnap
  <2> DEFINE x == (m.tick + 1) % TickMod
  <2>1. x = m.tick + 1 /\ x \in 0..(TickMod - 1)
    <3>1. m.tick < TickMod - 1 /\ TickMod \in Nat
      BY Bounds DEF NoWrap
    <3> QED BY <1>4, <3>1
  <2>2. k = [m EXCEPT !.tick = x]
    OBVIOUS
  <2> HIDE DEF x, k
  <2>3. /\ k \in Machines /\ k.tick = x /\ k.steps = m.steps /\ k.mode = m.mode /\ k.took = m.took /\ k.prog = m.prog
        /\ k.keys = m.keys /\ k.lastSnap = m.lastSnap
    BY <1>4, <2>1, <2>2 DEF Machines
  <2> QED BY <2>1, <2>3
<1> HIDE DEF k
<1>7. AsNow(k) /\ MarkedAs(j, k) /\ RingFits(t, snaps', seq', j)
  <2>1. AsNow(k)
    BY <1>4, <1>6 DEF AsNow
  <2> QED BY <1>3, <1>6, <2>1, MarkedIs, MaybeSaveFits
<1> HIDE DEF j
<1>8. /\ j.steps = n /\ j.mode = m.mode /\ j.took = m.took /\ j.prog = m.prog /\ j.keys = m.keys
  BY <1>6, <1>7 DEF MarkedAs
<1>9. Here(t, m, queue, pos, kcall) /\ PosFits(t, pos, n, kcall) /\ KernelFits(m, queue, call, kcall)
  BY DEF Fits, MachinePart
<1>10. Here(t, j, queue, pos, NoKernelCall)
  BY <1>3, <1>8, <1>9 DEF Here, Like, NoKernelCall
<1>11. \A i \in (pos + 1)..Len(t.es) : t.es[i].step \in Nat /\ t.es[i].step >= n + kcall.left
  <2>1. \A i \in (pos + 1)..Len(t.es) : i \in 1..Len(t.es)
    BY <1>4
  <2> QED BY <1>4, <1>9, <2>1, LineTypes DEF PosFits
<1>12. PosFits(t, pos, n, NoKernelCall)
  <2>1. \A i \in (pos + 1)..Len(t.es) : t.es[i].step >= n
    <3> HIDE DEF n
    <3> QED BY <1>4, <1>5, <1>11
  <2>2. n + NoKernelCall.left = n /\ ~NoKernelCall.active
    BY <1>4 DEF NoKernelCall
  <2> HIDE DEF n, t
  <2> QED BY <1>9, <2>1, <2>2 DEF PosFits
<1>13. n = kcall.start => /\ kcall.left > 0
                          /\ m.mode = "HALT" \/ (m.mode = "IDLE" /\ queue = << >>) \/ kcall.stop \notin {"HALT", "WAIT_INPUT"}
                          /\ kcall.stop # "BUDGET"
  BY <1>3, <1>9 DEF KernelFits
<1>14. kcall.stop \in {"BUDGET", "WAIT_INPUT", "HALT"}
  BY <1>2, <1>3 DEF Facts, KernelCalls
<1>15. /\ call.phase = "STEP" => /\ call'.phase = next /\ call'.left = rest /\ call'.failed = call.failed
       /\ call.phase = "SEEK" => /\ call'.phase = "SEEK" /\ call'.stuck = (ran = 0) /\ call'.target = call.target
                                 /\ call'.from = call.from /\ call'.restoring = call.restoring
  <2> DEFINE still == (ran = 0)
  <2>1. call.phase = "SEEK" => call' = [call EXCEPT !.stuck = still]
    BY <1>3
  <2>2. call.phase = "STEP" => call' = [call EXCEPT !.left = rest, !.phase = next]
    BY <1>3
  <2> HIDE DEF still, rest, next
  <2>3. call.phase = "STEP" => call'.phase = next /\ call'.left = rest /\ call'.failed = call.failed
    BY <1>4, <2>2 DEF Calls
  <2>4. call.phase = "SEEK" => /\ call'.phase = "SEEK" /\ call'.stuck = still /\ call'.target = call.target
                               /\ call'.from = call.from /\ call'.restoring = call.restoring
    BY <1>4, <2>1 DEF Calls
  <2> QED BY <2>3, <2>4 DEF still
<1>16. n > 0 \/ kcall.left > 0
  <2> HIDE DEF n
  <2>1. n = 0 => n = kcall.start
    BY <1>4, <1>5
  <2> QED BY <1>4, <1>13, <2>1
<1>17. m.prog = Loaded(t)
  <2>1. \A i \in (pos + 1)..Len(t.es) : t.es[i].step > 0
    <3> HIDE DEF n
    <3> QED BY <1>4, <1>5, <1>11, <1>16
  <2>2. t.fed[0][pos].k.prog = Loaded(t)
    <3> HIDE DEF t
    <3> QED BY <1>4, <2>1, LateProg DEF t
  <2> QED BY <1>9, <2>2 DEF Here
<1>18. KernelFits(j, queue, call', NoKernelCall)
  <2>1. call'.phase = "STEP" => ~call'.failed /\ call'.left > 0
    <3> SUFFICES ASSUME call'.phase = "STEP" PROVE ~call'.failed /\ call'.left > 0
      OBVIOUS
    <3>1. call.phase = "STEP"
      BY <1>5, <1>15
    <3>2. more /\ call'.left = rest /\ call'.failed = call.failed /\ ~call.failed
      BY <1>9, <1>15, <3>1 DEF KernelFits
    <3>3. rest > 0
      <4> HIDE DEF n
      <4> QED BY <1>4, <1>5, <3>2 DEF n
    <3> QED BY <3>2, <3>3
  <2>2. NoKernelCall.stop = "NONE" /\ ~NoKernelCall.active
    BY DEF NoKernelCall
  <2> QED BY <2>1, <2>2 DEF KernelFits
<1>19. CallFits(t, j, queue, pos, call', NoKernelCall, before)
  <2>1. CallFits(t, m, queue, pos, call, kcall, before)
    BY DEF Fits, CallPart
  <2>2. j.prog = Loaded(t)
    BY <1>8, <1>17
  <2>3. CASE call.phase = "STEP"
    <3>1. call'.phase # "SEEK" /\ ~call'.failed
      BY <1>9, <1>15, <2>3 DEF KernelFits
    <3> HIDE DEF t
    <3> QED BY <2>2, <3>1 DEF CallFits
  <2>4. CASE call.phase = "SEEK"
    <3>1. call'.phase = "SEEK" /\ Goal(call') = Goal(call) /\ call'.target = call.target
      BY <1>15, <2>4 DEF Goal
    <3>2. j.steps + NoKernelCall.left <= call'.target
      <4>1. n + kcall.left <= call.target
        BY <2>1, <2>4 DEF CallFits
      <4>2. NoKernelCall.left = 0
        BY DEF NoKernelCall
      <4> HIDE DEF n
      <4> QED BY <1>4, <1>5, <1>8, <3>1, <4>1, <4>2
    <3>3. call'.stuck => \/ j.mode = "HALT"
                         \/ j.mode = "IDLE" /\ queue = << >> /\ \A i \in (pos + 1)..Len(t.es) : t.es[i].step > j.steps
      <4> SUFFICES ASSUME call'.stuck
                   PROVE  \/ j.mode = "HALT"
                          \/ j.mode = "IDLE" /\ queue = << >> /\ \A i \in (pos + 1)..Len(t.es) : t.es[i].step > j.steps
        OBVIOUS
      <4>1. n = kcall.start
        <5>1. ran = 0
          BY <1>15, <2>4
        <5> QED BY <1>4, <1>5, <5>1
      <4>2. \A i \in (pos + 1)..Len(t.es) : t.es[i].step > n
        <5>1. kcall.left > 0
          BY <1>13, <4>1
        <5> HIDE DEF n
        <5> QED BY <1>4, <1>5, <1>11, <5>1
      <4>3. m.mode = "HALT" \/ (m.mode = "IDLE" /\ queue = << >>)
        BY <1>13, <1>14, <4>1
      <4> QED BY <1>8, <4>2, <4>3
    <3> HIDE DEF t, n
    <3> QED BY <2>1, <2>2, <2>4, <3>1, <3>2, <3>3 DEF CallFits
  <2> QED BY <1>5, <2>3, <2>4
<1>20. InputPart'
  BY <1>1 DEF Fits, InputPart
<1>21. RingPart'
  BY <1>1, <1>7 DEF RingPart, RingFits
<1>22. StampPart'
  <2>1. AnchorFits(t, log, pos, m, snaps[0].m)
    BY DEF Fits, StampPart
  <2>2. AnchorFits(t, log, pos, j, snaps[0].m)
    <3>1. PICK i \in 0..Len(t.es) : AnchoredAt(t, log, pos, m, snaps[0].m, i)
      BY <2>1 DEF AnchorFits
    <3>2. AnchoredAt(t, log, pos, j, snaps[0].m, i)
      BY <1>8, <3>1 DEF AnchoredAt
    <3> QED BY <3>2 DEF AnchorFits
  <2>3. /\ j.lastSnap \in Multiples /\ j.lastSnap \in Nat /\ j.lastSnap <= n
        /\ (Interval # 0 => n < j.lastSnap + Interval)
        /\ ~Due(j) /\ TickFits(j, snaps') /\ Stamped(log, pos, snaps') /\ snaps'[0] = snaps[0]
    BY <1>7 DEF RingFits
  <2>4. Interval # 0 => n <= j.lastSnap + Interval
    <3>1. Interval \in Nat
      BY ReplayAssumption
    <3> HIDE DEF n
    <3> QED BY <1>4, <2>3, <3>1
  <2>5. LastFits(j, NoKernelCall)
    BY <1>8, <2>3, <2>4 DEF LastFits
  <2> QED BY <1>1, <1>3, <2>2, <2>3, <2>5 DEF StampPart
<1>23. MachinePart' /\ CallPart'
  BY <1>1, <1>3, <1>8, <1>10, <1>12, <1>18, <1>19 DEF MachinePart, CallPart
<1> QED BY <1>20, <1>21, <1>22, <1>23 DEF Fits

---------------------------------------------------------------------------
(* The host gives an input.                                                *)

\* Timeline u is t with input e more.
Grown(t, u, e, n, go) ==
  /\ IsLine(u) /\ GoesOn(u, go) /\ Len(u.es) = Len(t.es) + 1
  /\ \A i \in 1..Len(t.es) : u.es[i] = t.es[i]
  /\ u.es[Len(t.es) + 1] = e
  /\ Agree(t, u, n)

\* What holds of the entry of the log is what holds of the input.
LogGrown(lg, lh, e) ==
  /\ Len(lh) = Len(lg) + 1 /\ lh[Len(lg) + 1] = e
  /\ \A i \in 1..Len(lg) : lh[i] = lg[i]
\* A sequence up to its length.
LEMMA WholeSeq ==
  ASSUME NEW s \in Seq(Inputs), NEW p \in Nat, p = Len(s)
  PROVE  SubSeq(s, 1, p) = s
OBVIOUS

\* What api_record_tagged does to a log with nothing pending.
LEMMA AppendIs ==
  ASSUME NEW s \in Seq(Inputs), NEW p \in Nat, p = Len(s), NEW e
  PROVE  LogGrown(s, Append(SubSeq(s, 1, p), e), e)
<1>1. SubSeq(s, 1, p) = s
  OBVIOUS
<1>2. Len(Append(s, e)) = Len(s) + 1 /\ Append(s, e)[Len(s) + 1] = e /\ \A i \in 1..Len(s) : Append(s, e)[i] = s[i]
  OBVIOUS
<1> QED BY <1>1, <1>2 DEF LogGrown

\* An input of a disciplined host, given at the end of the timeline: it goes on the log and the timeline,
\* or the log is full.
LEMMA NewInput ==
  ASSUME Habits = {}, ReplayInv, ReplayInv', Fits, NEW e, Record(e), e.step = m.steps
  PROVE  /\ pos = Len(log) /\ pos = Len(Line.es) /\ call'= NoCall /\ ~kcall.active /\ kcall = NoKernelCall /\ kcall' = kcall
         /\ before' = before /\ call.phase = "HOST"
         /\ \A i \in 0..Rotating : snaps[i].m.steps <= m.steps
         /\ Room => pos' = pos + 1 /\ LogGrown(log, log', e) /\ Grown(Line, Line', e, m.steps, Going) /\ Going' = Going
         /\ ~Room => Overfull'
<1>1. Facts
  BY Known
<1>2. /\ call.phase = "HOST" /\ AtEnd /\ call' = NoCall /\ given' = Append(SubSeq(given, 1, pos), e)
      /\ code' = code /\ kcall' = kcall /\ before' = before
      /\ IF Room THEN log' = Append(SubSeq(log, 1, pos), e) /\ pos' = pos + 1
                 ELSE log' = SubSeq(log, 1, pos) /\ pos' = pos
  BY DEF Record, AtHost, Allowed
<1>3. ~kcall.active /\ kcall = NoKernelCall
  BY <1>1, <1>2 DEF Facts
<1>4. pos = Len(log) /\ pos = Len(given) /\ Line.es = given /\ pos \in Nat
  BY <1>1, <1>2 DEF AtEnd, Pending, Facts
<1>5. /\ log \in Seq(Inputs) /\ given \in Seq(Inputs) /\ given' \in Seq(Inputs) /\ code \in Codes /\ code' \in Codes
      /\ Len(log) <= LogCap /\ LogCap \in Nat
  BY ReplayAssumption DEF ReplayInv, Typed, LogTyped
<1>6. \A i \in 0..Rotating : snaps[i].m.steps <= m.steps
  <2>1. DOMAIN snaps = 0..Rotating
    BY <1>1 DEF Facts, RingTyped, Rotating
  <2> QED BY <1>2, <2>1 DEF AtEnd
<1>7. LogGrown(given, given', e)
  BY <1>2, <1>4, <1>5, AppendIs
<1>8. ASSUME Room PROVE pos' = pos + 1 /\ LogGrown(log, log', e)
  BY <1>2, <1>4, <1>5, <1>8, AppendIs
<1>9. Going' = Going
  BY <1>2, GoingStill
<1>10. IsLine(Line') /\ GoesOn(Line', Going) /\ Line'.es = given'
  <2>1. (code \in Codes /\ given \in Seq(Inputs) => IsLine(Line) /\ GoesOn(Line, Going))'
    BY LineIs, PTL
  <2>2. IsLine(Line') /\ GoesOn(Line', Going')
    BY <1>5, <2>1
  <2> QED BY <1>9, <2>2 DEF Line
<1>11. Agree(Line, Line', m.steps)
  <2> DEFINE u == Line'
             n == m.steps
  <2>1. Len(Line.es) = pos /\ Len(u.es) = pos + 1 /\ u.es[pos + 1] = e /\ \A i \in 1..pos : u.es[i] = Line.es[i]
    BY <1>4, <1>7, <1>10 DEF LogGrown
  <2>2. \A i \in (pos + 1)..(pos + 1) : i = pos + 1
    BY <1>4
  <2>3. e.step = n /\ n \in Nat /\ n \in Steps
    BY <1>1 DEF Facts
  <2> HIDE DEF u, n
  <2>4. \A i \in (Len(Line.es) + 1)..Len(u.es) : u.es[i].step >= n
    BY <2>1, <2>2, <2>3
  <2>5. Len(Line.es) <= Len(u.es)
    BY <1>4, <2>1
  <2>6. IsLine(u) /\ GoesOn(u, Going)
    BY <1>10 DEF u
  <2>7. IsLine(Line) /\ GoesOn(Line, Going)
    BY <1>1 DEF Facts
  <2>8. \A i \in 1..Len(Line.es) : u.es[i] = Line.es[i]
    BY <2>1
  <2>9. Agree(Line, u, n)
    BY <2>3, <2>4, <2>5, <2>6, <2>7, <2>8, LinesAgree
  <2> QED BY <2>9 DEF u, n
<1>12. Grown(Line, Line', e, m.steps, Going)
  BY <1>4, <1>7, <1>10, <1>11 DEF Grown, LogGrown
<1>13. ASSUME ~Room PROVE Overfull'
  <2>1. log' = SubSeq(log, 1, pos) /\ ~(pos < LogCap)
    BY <1>2, <1>13 DEF Room
  <2>2. SubSeq(log, 1, pos) = log
    BY <1>4, <1>5, WholeSeq
  <2>3. Len(given') = pos + 1
    BY <1>4, <1>7 DEF LogGrown
  <2>4. pos = LogCap
    BY <1>4, <1>5, <2>1
  <2>5. Len(log') = LogCap /\ Len(given') = LogCap + 1
    BY <1>4, <2>1, <2>2, <2>3, <2>4
  <2> QED BY <2>5 DEF Overfull
<1> QED BY <1>2, <1>3, <1>4, <1>6, <1>8, <1>9, <1>12, <1>13

\* The new timeline is the old one as far as it went.
LEMMA GrownSame ==
  ASSUME NEW t, NEW u, NEW e, NEW n \in Nat, IsLine(t), Grown(t, u, e, n, Going)
  PROVE  /\ \A x \in 0..n : u.at[x] = t.at[x] /\ (Arrives(u, x) <=> Arrives(t, x))
                            /\ \A i \in 0..Len(t.es) : u.fed[x][i] = t.fed[x][i]
         /\ e \in Inputs /\ Len(t.es) \in Nat /\ Len(t.es) + 1 \in 1..Len(u.es)
         /\ e.kind # "LOAD" => Loaded(u) = Loaded(t)
<1>1. \A x \in 0..n : u.at[x] = t.at[x] /\ \A i \in 0..Len(t.es) : u.fed[x][i] = t.fed[x][i]
  BY DEF Grown, Agree
<1>2. \A x \in 0..n : Arrives(u, x) <=> Arrives(t, x)
  <2>1. \A x \in 0..n : \A z \in 0..x : z \in 0..n
    OBVIOUS
  <2> QED BY <1>1, <2>1 DEF Arrives
<1> DEFINE y == Len(t.es) + 1
<1>3. Len(t.es) \in Nat /\ IsLine(u) /\ Len(u.es) = y /\ u.es[y] = e
  BY LineTypes DEF Grown
<1>4. y \in 1..Len(u.es) /\ y - 1 = Len(t.es) /\ Len(t.es) \in 0..Len(t.es)
  BY <1>3
<1> HIDE DEF y
<1>5. e \in Inputs
  BY <1>3, <1>4, LineTypes
<1>6. ASSUME e.kind # "LOAD" PROVE Loaded(u) = Loaded(t)
  <2> DEFINE w == u.fed[0][Len(t.es)]
  <2>0. 0 \in Steps
    BY Bounds
  <2>1. /\ e.step = 0 => u.fed[0][y] = Fed(w, e)
        /\ e.step # 0 => u.fed[0][y] = w
        /\ w \in Worlds
    <3>1. /\ u.es[y].step = 0 => u.fed[0][y] = Fed(u.fed[0][y - 1], u.es[y])
          /\ u.es[y].step # 0 => u.fed[0][y] = u.fed[0][y - 1]
          /\ u.fed[0][y - 1] \in Worlds
      BY <1>3, <1>4, <2>0, FedOne
    <3> QED BY <1>3, <1>4, <3>1
  <2>2. w = t.fed[0][Len(t.es)]
    BY <1>1, <1>4
  <2> HIDE DEF w
  <2>3. Fed(w, e).k.prog = w.k.prog
    BY <1>5, <1>6, <2>1, FedIs
  <2>4. u.fed[0][Len(u.es)].k.prog = w.k.prog
    BY <1>3, <2>1, <2>3
  <2> QED BY <2>2, <2>4 DEF Loaded
<1> QED BY <1>1, <1>2, <1>3, <1>4, <1>5, <1>6 DEF y

\* The new timeline is one of a disciplined host.
LEMMA GrownInputs ==
  ASSUME NEW t, NEW u, NEW e, NEW n \in Nat, IsLine(t), InputsFit(t), Grown(t, u, e, n, Going), Arrives(t, n),
         \A i \in 1..Len(t.es) : t.es[i].step <= n,
         e.step = n, e.kind = "LOAD" => n = 0,
         e.kind = "CON" => t.at[n].k.mode = "IDLE" /\ t.fed[n][Len(t.es)].q = << >>
  PROVE  InputsFit(u)
<1> DEFINE L == Len(t.es)
           y == L + 1
<1>1. /\ \A x \in 0..n : u.at[x] = t.at[x] /\ (Arrives(u, x) <=> Arrives(t, x)) /\ \A i \in 0..L : u.fed[x][i] = t.fed[x][i]
      /\ L \in Nat
  BY GrownSame
<1>2. Len(u.es) = y /\ u.es[y] = e /\ \A i \in 1..L : u.es[i] = t.es[i]
  BY DEF Grown
<1>3. n \in 0..n /\ L \in 0..L /\ y - 1 = L /\ y \in Nat /\ \A i \in 1..y : i = y \/ i \in 1..L
  BY <1>1
<1>4. ASSUME NEW i \in 1..L
      PROVE  /\ Arrives(u, u.es[i].step)
             /\ u.es[i].kind = "CON" => u.at[u.es[i].step].k.mode = "IDLE" /\ u.fed[u.es[i].step][i - 1].q = << >>
             /\ u.es[i].kind = "LOAD" => u.es[i].step = 0
             /\ \A j \in 1..i : u.es[j].step <= u.es[i].step
  <2> DEFINE x == t.es[i].step
  <2>1. x \in 0..n /\ u.es[i] = t.es[i] /\ i - 1 \in 0..L
    <3>1. x \in Nat /\ x <= n
      BY LineTypes
    <3> QED BY <1>1, <1>2, <3>1
  <2>2. /\ Arrives(t, x)
        /\ t.es[i].kind = "CON" => t.at[x].k.mode = "IDLE" /\ t.fed[x][i - 1].q = << >>
        /\ t.es[i].kind = "LOAD" => x = 0
        /\ \A j \in 1..i : t.es[j].step <= x
    BY DEF InputsFit
  <2>3. \A j \in 1..i : u.es[j] = t.es[j]
    <3>1. \A j \in 1..i : j \in 1..L
      BY <1>1
    <3> QED BY <1>2, <3>1
  <2>4. u.es[i].step = x
    BY <2>1
  <2> HIDE DEF x
  <2> QED BY <1>1, <2>1, <2>2, <2>3, <2>4
<1>5. ASSUME NEW j \in 1..y PROVE u.es[j].step <= n
  BY <1>2, <1>3
<1> HIDE DEF L, y
<1>6. /\ Arrives(u, n) /\ (e.kind = "CON" => u.at[n].k.mode = "IDLE" /\ u.fed[n][L].q = << >>)
  BY <1>1, <1>3 DEF L
<1>7. ASSUME NEW i \in 1..y
      PROVE  /\ Arrives(u, u.es[i].step)
             /\ u.es[i].kind = "CON" => u.at[u.es[i].step].k.mode = "IDLE" /\ u.fed[u.es[i].step][i - 1].q = << >>
             /\ u.es[i].kind = "LOAD" => u.es[i].step = 0
             /\ \A j \in 1..i : u.es[j].step <= u.es[i].step
  <2>1. CASE i \in 1..L
    BY <1>4, <2>1
  <2>2. CASE i = y
    BY <1>2, <1>3, <1>5, <1>6, <2>2
  <2> QED BY <1>3, <2>1, <2>2
<1> QED BY <1>2, <1>7 DEF InputsFit

\* Where the machine is, the new timeline has it too.
LEMMA GrownHere ==
  ASSUME NEW t, NEW u, NEW e, NEW k, NEW q, NEW n \in Steps, n = k.steps, IsLine(t), InputsFit(t), Grown(t, u, e, n, Going),
         Here(t, k, q, Len(t.es), NoKernelCall), PosFits(t, Len(t.es), n, NoKernelCall), k.prog = Loaded(t),
         e.step = n, e.kind = "LOAD" => n = 0, e.kind = "CON" => k.mode = "IDLE" /\ q = << >>
  PROVE  /\ InputsFit(u) /\ Here(u, k, q, Len(t.es), NoKernelCall) /\ PosFits(u, Len(t.es), n, NoKernelCall)
<1> DEFINE L == Len(t.es)
<1>1. /\ n \in Nat /\ n \in 0..n /\ L \in Nat /\ L \in 0..L /\ 0 \in 0..n
      /\ NoKernelCall.active = FALSE /\ NoKernelCall.left = 0 /\ Len(u.es) = L + 1 /\ u.es[L + 1] = e
      /\ \A i \in 1..L : u.es[i] = t.es[i]
  BY Bounds, LineTypes DEF NoKernelCall, Grown
<1>2. /\ u.at[n] = t.at[n] /\ (Arrives(u, n) <=> Arrives(t, n)) /\ u.fed[n][L] = t.fed[n][L] /\ u.fed[0][L] = t.fed[0][L]
  BY <1>1, GrownSame
<1>3. /\ Arrives(t, n) /\ Like(k, q, t.fed[n][L])
      /\ (n > 0 => k.keys = t.fed[n][L].k.keys) /\ (k.mode = "IDLE" \/ q = << >>)
  BY <1>1 DEF Here
<1>4. /\ \A i \in 1..L : t.es[i].step <= n
  BY DEF PosFits
<1>5. k.prog = u.fed[0][L].k.prog
  BY <1>2 DEF Loaded
<1>6. Here(u, k, q, L, NoKernelCall)
  BY <1>1, <1>2, <1>3, <1>5 DEF Here
<1>7. PosFits(u, L, n, NoKernelCall)
  <2>1. \A i \in (L + 1)..(L + 1) : i = L + 1
    BY <1>1
  <2>2. \A i \in (L + 1)..Len(u.es) : u.es[i].step >= n + NoKernelCall.left
    BY <1>1, <2>1
  <2> QED BY <1>1, <1>4, <2>2 DEF PosFits
<1>8. e.kind = "CON" => t.at[n].k.mode = "IDLE" /\ t.fed[n][L].q = << >>
  <2>1. FedSees(t.fed[n][L], t.at[n], n)
    BY <1>1, FedKeeps DEF InputsFit
  <2> QED BY <1>3, <2>1 DEF FedSees, Like
<1>9. InputsFit(u)
  BY <1>1, <1>3, <1>4, <1>8, GrownInputs
<1> QED BY <1>6, <1>7, <1>9

\* An input that is no load leaves the snapshots and the anchor as they were.
LEMMA GrownStamps ==
  ASSUME NEW t, NEW u, NEW e, NEW n \in Nat, IsLine(t), Grown(t, u, e, n, Going), e.kind # "LOAD", NEW sn, RingNats(sn),
         \A i \in 0..Rotating : sn[i].m.steps <= n, SnapsFit(t, sn),
         NEW lg, NEW k, StampsFit(t, lg, Len(t.es), k, sn)
  PROVE  StampsFit(u, lg, Len(t.es), k, sn) /\ SnapsFit(u, sn)
<1> DEFINE L == Len(t.es)
           a == sn[0].m
<1>1. /\ \A x \in 0..n : u.at[x] = t.at[x] /\ (Arrives(u, x) <=> Arrives(t, x)) /\ \A i \in 0..L : u.fed[x][i] = t.fed[x][i]
      /\ L \in Nat /\ Loaded(u) = Loaded(t) /\ 0 \in 0..n /\ L \in 0..L
  BY GrownSame
<1>2. Len(u.es) = L + 1 /\ u.es[L + 1] = e /\ \A i \in 1..L : u.es[i] = t.es[i]
  BY DEF Grown
<1>3. AnchorFits(u, lg, L, k, a)
  <2>1. PICK j \in 0..L : AnchoredAt(t, lg, L, k, a, j)
    BY DEF StampsFit, AnchorFits
  <2>2. /\ a.keys = t.fed[0][j].k.keys
        /\ \A i \in (j + 1)..L : /\ t.es[i].kind # "LOAD"
                                 /\ i <= L /\ t.es[i].step = 0 => a.tick <= lg[i].tick
        /\ k.steps = 0 => k.keys = t.fed[0][L].k.keys \/ (L <= j /\ k.keys = a.keys)
    BY <2>1 DEF AnchoredAt
  <2>3. \A i \in (j + 1)..(L + 1) : (i = L + 1 /\ ~(i <= L)) \/ (i \in (j + 1)..L /\ i \in 1..L)
    BY <1>1
  <2>4. j \in 0..(L + 1)
    BY <1>1
  <2>5. \A i \in (j + 1)..Len(u.es) : /\ u.es[i].kind # "LOAD"
                                      /\ i <= L /\ u.es[i].step = 0 => a.tick <= lg[i].tick
    BY <1>2, <2>2, <2>3
  <2>6. u.fed[0][j] = t.fed[0][j] /\ u.fed[0][L] = t.fed[0][L]
    BY <1>1
  <2>7. AnchoredAt(u, lg, L, k, a, j)
    BY <2>2, <2>5, <2>6 DEF AnchoredAt
  <2> QED BY <1>2, <2>4, <2>7 DEF AnchorFits
<1>4. SnapsFit(u, sn)
  <2> SUFFICES ASSUME NEW i \in 0..Rotating, sn[i].seq # 0 PROVE SnapFits(u, sn[i].m)
    BY DEF SnapsFit
  <2>1. SnapFits(t, sn[i].m)
    BY DEF SnapsFit
  <2>2. sn[i].m.steps \in 0..n
    BY DEF RingNats
  <2> QED BY <1>1, <2>1, <2>2 DEF SnapFits
<1> QED BY <1>3, <1>4 DEF StampsFit

\* The log and the images.
LEMMA GrownLog ==
  ASSUME NEW t, NEW u, NEW e, NEW n, IsLine(t), Grown(t, u, e, n, Going), NEW lg, NEW lh, LogGrown(lg, lh, e), LogFits(t, lg)
  PROVE  LogFits(u, lh)
<1> DEFINE L == Len(t.es)
<1>1. L \in Nat /\ Len(u.es) = L + 1 /\ u.es[L + 1] = e /\ \A i \in 1..L : u.es[i] = t.es[i]
  BY LineTypes DEF Grown
<1>2. Len(lg) = L /\ Len(lh) = L + 1 /\ lh[L + 1] = e /\ \A i \in 1..L : lh[i] = lg[i]
  BY DEF LogGrown, LogFits
<1>3. \A i \in 1..L : /\ lg[i].step = t.es[i].step /\ lg[i].kind = t.es[i].kind
                      /\ lg[i].value = t.es[i].value /\ lg[i].tag = t.es[i].tag
  BY DEF LogFits
<1>4. \A i \in 1..(L + 1) : i = L + 1 \/ i \in 1..L
  BY <1>1
<1> HIDE DEF L
<1>5. \A i \in 1..(L + 1) : /\ lh[i].step = u.es[i].step /\ lh[i].kind = u.es[i].kind
                            /\ lh[i].value = u.es[i].value /\ lh[i].tag = u.es[i].tag
  BY <1>1, <1>2, <1>3, <1>4
<1> QED BY <1>1, <1>2, <1>5 DEF LogFits

\* The images of the loads before an input that is no load.
LEMMA GrownLoads ==
  ASSUME NEW t, NEW u, NEW e, NEW n, IsLine(t), Grown(t, u, e, n, Going), e.kind # "LOAD", NEW imgs, NEW next,
         LoadsFit(t, imgs, next)
  PROVE  LoadsFit(u, imgs, next)
<1> DEFINE L == Len(t.es)
<1>1. L \in Nat /\ Len(u.es) = L + 1 /\ u.es[L + 1] = e /\ \A i \in 1..L : u.es[i] = t.es[i]
  BY LineTypes DEF Grown
<1>2. \A i \in 1..(L + 1) : i = L + 1 \/ i \in 1..L
  BY <1>1
<1> QED BY <1>1, <1>2 DEF LoadsFit

\* tos_con_push and tos_keys_set keep everything fitting the timeline, which has the input from now on.
LEMMA PushFits ==
  ASSUME Habits = {}, ReplayInv, ReplayInv', Fits, NEW e, e.kind # "LOAD", e.step = m.steps, e.tick = m.tick,
         e.kind = "CON" => m.mode = "IDLE" /\ queue = << >>,
         Record(e), Apply(e), UNCHANGED <<loading, ring>>, Room
  PROVE  Fits'
<1> DEFINE t == Line
           u == Line'
           L == pos
           n == m.steps
<1>1. Facts
  BY Known
<1>2. /\ L = Len(log) /\ L = Len(t.es) /\ call' = NoCall /\ kcall = NoKernelCall /\ kcall' = NoKernelCall
      /\ before' = before /\ call.phase = "HOST" /\ ~kcall.active
      /\ \A i \in 0..Rotating : snaps[i].m.steps <= n
      /\ pos' = L + 1 /\ LogGrown(log, log', e) /\ Grown(t, u, e, n, Going) /\ Going' = Going
  BY NewInput
<1>3. /\ IsLine(t) /\ InputsFit(t) /\ Now \in Worlds /\ Now.k = m /\ Now.q = queue /\ n \in Steps /\ n \in Nat /\ L \in Nat
      /\ RingNats(snaps) /\ ~broken
  BY <1>1 DEF Facts
<1>4. m.prog = Loaded(t)
  BY <1>2 DEF Fits, CallPart, CallFits
<1>5. Here(t, m, queue, L, NoKernelCall) /\ PosFits(t, L, n, NoKernelCall)
  BY <1>2 DEF Fits, MachinePart
<1>6. /\ LoadsFit(t, images, loadNext) /\ LogFits(t, log) /\ SnapsFit(t, snaps) /\ RotFits(snaps, seq)
      /\ StampsFit(t, log, L, m, snaps)
  BY <1>2 DEF Fits, InputPart, RingPart, StampPart, StampsFit
<1>7. snaps' = snaps /\ seq' = seq /\ images' = images /\ loadNext' = loadNext
  BY DEF ring, loading
<1>8. m' = Fed(Now, e).k /\ queue' = Fed(Now, e).q /\ ~broken'
  BY <1>3 DEF Apply, Recycled
<1> HIDE DEF t, u, L, n
<1>9. InputsFit(u) /\ Here(u, m, queue, L, NoKernelCall) /\ PosFits(u, L, n, NoKernelCall)
  <2>1. n = m.steps
    BY DEF n
  <2>2. /\ Here(t, m, queue, Len(t.es), NoKernelCall) /\ PosFits(t, Len(t.es), n, NoKernelCall)
        /\ Grown(t, u, e, n, Going) /\ e.step = n /\ e.kind # "LOAD"
        /\ e.kind = "CON" => m.mode = "IDLE" /\ queue = << >>
    BY <1>2, <1>5, <2>1
  <2>3. /\ InputsFit(u) /\ Here(u, m, queue, Len(t.es), NoKernelCall)
        /\ PosFits(u, Len(t.es), n, NoKernelCall)
    BY <1>3, <1>4, <2>1, <2>2, GrownHere
  <2> QED BY <1>2, <2>3
<1>10. StampsFit(u, log, L, m, snaps) /\ SnapsFit(u, snaps)
  BY <1>2, <1>3, <1>6, GrownStamps
<1>11. LogFits(u, log') /\ LoadsFit(u, images, loadNext)
  BY <1>2, <1>3, <1>6, GrownLog, GrownLoads
<1>12. /\ IsLine(u) /\ GoesOn(u, Going) /\ L \in 0..Len(u.es) /\ L + 1 \in 1..Len(u.es) /\ SameInput(e, u.es[L + 1])
       /\ u.es[L + 1] = e /\ Loaded(u) = Loaded(t)
  <2>1. IsLine(u) /\ GoesOn(u, Going) /\ Len(u.es) = L + 1 /\ u.es[L + 1] = e
    BY <1>2 DEF Grown
  <2>2. e \in Inputs /\ Loaded(u) = Loaded(t)
    BY <1>2, <1>3, GrownSame
  <2> QED BY <1>3, <2>1, <2>2 DEF SameInput
<1>13. Now.k.steps = n /\ u.es[L + 1].step = Now.k.steps
  BY <1>3, <1>12 DEF n
<1>14. /\ Here(u, m', queue', L + 1, NoKernelCall) /\ PosFits(u, L + 1, m'.steps, NoKernelCall)
  <2>1. Here(u, Now.k, Now.q, L, NoKernelCall) /\ PosFits(u, L, Now.k.steps, NoKernelCall)
    BY <1>3, <1>9, <1>13
  <2>2. /\ Here(u, Fed(Now, e).k, Fed(Now, e).q, L + 1, NoKernelCall)
        /\ PosFits(u, L + 1, Fed(Now, e).k.steps, NoKernelCall)
    BY <1>3, <1>9, <1>12, <1>13, <2>1, ApplyHere
  <2> QED BY <1>8, <2>2
<1>15. StampsFit(u, log', L + 1, m', snaps)
  <2>1. /\ \A i \in 1..L : log'[i] = log[i]
        /\ log'[L + 1] = e
    BY <1>2 DEF LogGrown
  <2>2. log'[L + 1].tick = Now.k.tick /\ log'[L + 1].step = Now.k.steps
    BY <1>3, <2>1
  <2>3. StampsFit(u, log, L, Now.k, snaps)
    BY <1>3, <1>10
  <2>4. StampsFit(u, log', L + 1, Fed(Now, e).k, snaps)
    BY <1>3, <1>6, <1>10, <1>12, <1>13, <2>1, <2>2, <2>3, ApplyStamp
  <2> QED BY <1>8, <2>4
<1>16. /\ m'.prog = Loaded(u)
  <2>1. Fed(Now, e).k.prog = m.prog
    BY <1>3, <1>12, FedIs DEF SameInput
  <2> QED BY <1>4, <1>8, <1>12, <2>1
<1>17. InputPart'
  BY <1>7, <1>8, <1>9, <1>11 DEF InputPart, u
<1>18. MachinePart'
  <2>1. KernelFits(m', queue', NoCall, NoKernelCall)
    BY DEF KernelFits, NoCall, NoKernelCall
  <2> QED BY <1>2, <1>14, <2>1 DEF MachinePart, u
<1>19. RingPart'
  BY <1>6, <1>7, <1>10 DEF RingPart, u
<1>20. StampPart'
  BY <1>2, <1>7, <1>15 DEF StampPart, StampsFit, u
<1>21. CallPart'
  <2>1. CallFits(u, m', queue', L + 1, NoCall, NoKernelCall, before')
    BY <1>16 DEF CallFits, NoCall
  <2> QED BY <1>2, <2>1 DEF CallPart, u
<1> QED BY <1>17, <1>18, <1>19, <1>20, <1>21 DEF Fits

\* kernel_load_com and the stamp tos_load_com puts on the machine it loaded.
LoadedAs(k, j, prog) ==
  /\ k \in Machines /\ k.steps = j.steps /\ k.mode = "RUN" /\ k.took = j.took /\ k.prog = prog /\ k.keys = j.keys
  /\ k.tick = j.tick /\ k.lastSnap = j.steps
\* The machine after a load, field by field.
LEMMA LoadedIs ==
  ASSUME NEW w \in Worlds, NEW e \in Inputs, e.kind = "LOAD"
  PROVE  LoadedAs([Fed(w, e).k EXCEPT !.lastSnap = w.k.steps], w.k, e.tag + 1)
<1>1. /\ Fed(w, e).k \in Machines /\ Fed(w, e).k.steps = w.k.steps /\ Fed(w, e).k.took = w.k.took
      /\ Fed(w, e).k.tick = w.k.tick /\ Fed(w, e).k.mode = "RUN" /\ Fed(w, e).k.prog = e.tag + 1
      /\ Fed(w, e).k.keys = w.k.keys
  BY FedIs DEF Worlds
<1>2. w.k.steps \in Steps
  BY DEF Worlds, Machines
<1> DEFINE k == Fed(w, e).k
           s == w.k.steps
<1> HIDE DEF k, s
<1>3. k \in Machines /\ s \in Steps
  BY <1>1, <1>2 DEF k, s
<1>4. LET j == [k EXCEPT !.lastSnap = s]
      IN  /\ j \in Machines /\ j.steps = k.steps /\ j.mode = k.mode /\ j.took = k.took /\ j.prog = k.prog
          /\ j.keys = k.keys /\ j.tick = k.tick /\ j.lastSnap = s
  BY <1>3 DEF Machines
<1> QED BY <1>1, <1>4 DEF LoadedAs, k, s

\* Where the machine is does not depend on its clock or on its last snapshot.
LEMMA HereSame ==
  ASSUME NEW t, NEW k, NEW j, NEW q, NEW p, NEW kc, Here(t, j, q, p, kc),
         k.steps = j.steps, k.mode = j.mode, k.took = j.took, k.prog = j.prog, k.keys = j.keys
  PROVE  Here(t, k, q, p, kc)
BY DEF Here, Like

\* With nothing but the anchor in the ring, and the machine the anchor, everything is stamped.
LEMMA FreshStamps ==
  ASSUME NEW sn, NEW k \in Machines, k.steps = 0, k.lastSnap = 0, sn[0].m = k,
         \A i \in 1..Rotating : sn[i].seq = 0, NEW sq, NEW lg, NEW p,
         NEW t, Len(t.es) \in Nat, k.keys = t.fed[0][Len(t.es)].k.keys, p = Len(t.es)
  PROVE  /\ RotFits(sn, sq) /\ StampsFit(t, lg, p, k, sn)
         /\ SnapFits(t, k) => SnapsFit(t, sn)
<1>1. Rotating \in Nat /\ Interval \in Nat /\ \A i \in 0..Rotating : i = 0 \/ i \in 1..Rotating
  BY ReplayAssumption DEF Rotating
<1>2. RotFits(sn, sq) /\ Stamped(lg, p, sn)
  BY DEF RotFits, Stamped, Newest
<1>3. SnapFits(t, k) => SnapsFit(t, sn)
  BY <1>1 DEF SnapsFit
<1>4. TickFits(k, sn)
  <2>1. k.tick \in Nat
    BY Bounds DEF Machines
  <2>2. \A i \in 0..Rotating : Newest(sn, i) => i = 0
    BY <1>1 DEF Newest
  <2> QED BY <2>1, <2>2 DEF TickFits
<1>5. LastFits(k, NoKernelCall)
  <2>1. 0 \in Multiples
    BY <1>1 DEF Multiples
  <2> QED BY <1>1, <2>1 DEF LastFits, Due, NoKernelCall
<1>6. AnchorFits(t, lg, p, k, sn[0].m)
  <2> DEFINE L == Len(t.es)
  <2>1. L \in 0..L /\ \A i \in (L + 1)..L : FALSE
    OBVIOUS
  <2> HIDE DEF L
  <2>2. AnchoredAt(t, lg, p, k, k, L)
    BY <2>1 DEF AnchoredAt, L
  <2> QED BY <2>1, <2>2 DEF AnchorFits, L
<1> QED BY <1>2, <1>3, <1>4, <1>5, <1>6 DEF StampsFit

\* The image of a load goes to a slot no load has used.
LEMMA NewImage ==
  ASSUME NEW t, NEW u, NEW e, NEW n, IsLine(t), Grown(t, u, e, n, Going), NEW imgs \in [0..(LoadSlots - 1) -> Nat],
         NEW next \in Nat, next + 1 <= LoadSlots, LoadsFit(t, imgs, next), e.value = next % LoadSlots, e.tag = next
  PROVE  /\ next % LoadSlots = next
         /\ LoadsFit(u, [imgs EXCEPT ![next % LoadSlots] = next], next + 1)
<1> DEFINE L == Len(t.es)
           after == [imgs EXCEPT ![next] = next]
<1>1. L \in Nat /\ Len(u.es) = L + 1 /\ u.es[L + 1] = e /\ \A i \in 1..L : u.es[i] = t.es[i]
  BY LineTypes DEF Grown
<1>2. \A i \in 1..L : t.es[i].tag \in Nat
  <2> SUFFICES ASSUME NEW i \in 1..L PROVE t.es[i].tag \in Nat
    OBVIOUS
  <2>1. t.es[i] \in Inputs
    BY LineTypes
  <2>2. t.es[i].tag \in 0..MaxInputs
    BY <2>1 DEF Inputs, Entries
  <2> QED BY <2>2
<1>3. \A i \in 1..(L + 1) : i = L + 1 \/ i \in 1..L
  BY <1>1
<1>4. next % LoadSlots = next /\ next \in 0..(LoadSlots - 1)
  <2>1. LoadSlots \in Nat /\ LoadSlots > 0
    BY ReplayAssumption
  <2> QED BY <2>1
<1>5. after[next] = next /\ \A x \in Nat : x < next => after[x] = imgs[x]
  <2>1. after[next] = next
    BY <1>4
  <2>2. LoadSlots \in Nat
    BY ReplayAssumption
  <2>3. \A x \in Nat : x < next => x \in 0..(LoadSlots - 1) /\ x # next
    BY <1>4, <2>2
  <2>4. \A x \in 0..(LoadSlots - 1) : x # next => after[x] = imgs[x]
    OBVIOUS
  <2> QED BY <2>1, <2>3, <2>4
<1>6. ASSUME NEW i \in 1..(L + 1), u.es[i].kind = "LOAD"
      PROVE  u.es[i].value = u.es[i].tag /\ u.es[i].tag < next + 1 /\ after[u.es[i].tag] = u.es[i].tag
  <2> HIDE DEF L, after
  <2>1. CASE i = L + 1
    BY <1>1, <1>4, <1>5, <2>1
  <2>2. CASE i \in 1..L
    <3>1. t.es[i].value = t.es[i].tag /\ t.es[i].tag < next /\ imgs[t.es[i].tag] = t.es[i].tag
      BY <1>1, <1>6, <2>2 DEF LoadsFit, L
    <3>2. t.es[i].tag \in Nat /\ u.es[i] = t.es[i]
      BY <1>1, <1>2, <2>2
    <3>3. after[t.es[i].tag] = t.es[i].tag
      BY <1>5, <3>1, <3>2
    <3> QED BY <3>1, <3>2, <3>3
  <2> QED BY <1>3, <2>1, <2>2
<1> HIDE DEF L
<1>7. LoadsFit(u, after, next + 1)
  BY <1>1, <1>6 DEF LoadsFit
<1> QED BY <1>4, <1>7

\* tos_load_com keeps everything fitting the timeline: the image has a slot of its own, the anchor is the
\* machine loaded.
LEMMA LoadComFits ==
  ASSUME Habits = {}, ReplayInv, ReplayInv', Fits, LoadCom, NoRecycling'
  PROVE  Overfull' \/ Fits'
<1> DEFINE e == Entry("LOAD", loadNext % LoadSlots, loadNext)
           k == [Fed(Now, e).k EXCEPT !.lastSnap = m.steps]
           t == Line
           u == Line'
           L == pos
<1>1. Facts
  BY Known
<1>2. /\ m.steps = 0 /\ queue = << >> /\ images' = [images EXCEPT ![loadNext % LoadSlots] = loadNext]
      /\ loadNext' = loadNext + 1 /\ Record(e) /\ m' = k /\ Save(k) /\ queue' = queue /\ broken' = broken
  BY DEF LoadCom, Allowed
<1>3. e.kind = "LOAD" /\ e.step = m.steps /\ e.tick = m.tick /\ e.value = loadNext % LoadSlots /\ e.tag = loadNext
  BY DEF Entry
<1> HIDE DEF e
<1>4. /\ L = Len(log) /\ L = Len(t.es) /\ call' = NoCall /\ kcall = NoKernelCall /\ kcall' = NoKernelCall
      /\ before' = before /\ call.phase = "HOST" /\ ~kcall.active
      /\ \A i \in 0..Rotating : snaps[i].m.steps <= 0
      /\ Room => pos' = L + 1 /\ LogGrown(log, log', e) /\ Grown(t, u, e, 0, Going) /\ Going' = Going
      /\ ~Room => Overfull'
  BY <1>2, <1>3, NewInput
<1> SUFFICES ASSUME Room PROVE Fits'
  BY <1>4
<1>5. pos' = L + 1 /\ LogGrown(log, log', e) /\ Grown(t, u, e, 0, Going) /\ Going' = Going
  BY <1>4
<1>6. /\ IsLine(t) /\ InputsFit(t) /\ Now \in Worlds /\ Now.k = m /\ Now.q = queue /\ L \in Nat
      /\ RingNats(snaps) /\ ~broken /\ 0 \in Steps /\ 0 \in Nat
  BY <1>1, Bounds DEF Facts
<1>7. /\ m.prog = Loaded(t)
      /\ Here(t, m, queue, L, NoKernelCall) /\ PosFits(t, L, 0, NoKernelCall)
      /\ LoadsFit(t, images, loadNext) /\ LogFits(t, log) /\ RotFits(snaps, seq)
      /\ AnchorFits(t, log, L, m, snaps[0].m)
  BY <1>2, <1>4 DEF Fits, InputPart, MachinePart, RingPart, StampPart, CallPart, CallFits
<1>8. /\ IsLine(u) /\ GoesOn(u, Going) /\ L \in 0..Len(u.es) /\ L + 1 \in 1..Len(u.es) /\ Len(u.es) = L + 1 /\ u.es[L + 1] = e
      /\ e \in Inputs /\ u.fed[0][L] = t.fed[0][L] /\ Len(u.es) \in Nat
  <2>1. IsLine(u) /\ GoesOn(u, Going) /\ Len(u.es) = L + 1 /\ u.es[L + 1] = e
    BY <1>4, <1>5 DEF Grown
  <2>2. 0 \in 0..0 /\ L \in 0..L
    BY <1>6
  <2>3. e \in Inputs /\ u.fed[0][L] = t.fed[0][L]
    BY <1>4, <1>5, <1>6, <2>2, GrownSame
  <2> QED BY <1>6, <2>1, <2>3
<1>9. LoadedAs(m', m, loadNext + 1)
  <2>1. LoadedAs(k, m, loadNext + 1)
    BY <1>3, <1>6, <1>8, LoadedIs
  <2> QED BY <1>2, <2>1
<1>10. m' \in Machines /\ m'.steps = 0 /\ m'.lastSnap = 0 /\ m'.mode = "RUN" /\ m'.took = m.took /\ m'.keys = m.keys
       /\ m'.prog = loadNext + 1
  BY <1>2, <1>9 DEF LoadedAs
<1>11. /\ snaps'[0] = [seq |-> seq + 1, m |-> m']
       /\ \A i \in 1..Rotating : snaps'[i].seq = 0
  <2>1. RingInv /\ RingTyped(snaps, seq) /\ Save(m')
    BY <1>1, <1>2 DEF Facts
  <2>2. Saves(m', 0)
    BY <1>6, <1>10, <2>1, SaveIs
  <2>3. Rotating \in Nat /\ \A i \in 1..Rotating : i \in 0..Rotating /\ i # 0
    BY ReplayAssumption DEF Rotating
  <2>4. ASSUME NEW i \in 1..Rotating, snaps[i].seq # 0 PROVE FALSE
    <3>1. snaps[i].m.steps > 0
      BY <1>7, <2>4 DEF RotFits
    <3>2. snaps[i].m.steps <= 0 /\ snaps[i].m.steps \in Nat
      BY <1>4, <1>6, <2>3 DEF RingNats
    <3> QED BY <3>1, <3>2
  <2>5. /\ snaps'[0] = [seq |-> seq + 1, m |-> m']
        /\ \A i \in 1..Rotating : snaps'[i] = snaps[i]
    BY <2>2, <2>3 DEF Saves
  <2> QED BY <2>4, <2>5
<1> HIDE DEF k, t, u, L
<1>12. InputsFit(u) /\ Here(u, m, queue, L, NoKernelCall) /\ PosFits(u, L, 0, NoKernelCall)
  <2>1. /\ Here(t, m, queue, Len(t.es), NoKernelCall) /\ PosFits(t, Len(t.es), 0, NoKernelCall)
        /\ Grown(t, u, e, 0, Going) /\ e.step = 0 /\ 0 = m.steps /\ e.kind # "CON"
    BY <1>2, <1>3, <1>4, <1>5, <1>7
  <2>2. /\ InputsFit(u) /\ Here(u, m, queue, Len(t.es), NoKernelCall) /\ PosFits(u, Len(t.es), 0, NoKernelCall)
    BY <1>6, <1>7, <2>1, GrownHere
  <2> QED BY <1>4, <2>2
<1>13. /\ Here(u, m', queue', L + 1, NoKernelCall) /\ PosFits(u, L + 1, m'.steps, NoKernelCall)
  <2>1. Here(u, Now.k, Now.q, L, NoKernelCall) /\ PosFits(u, L, Now.k.steps, NoKernelCall)
    BY <1>2, <1>6, <1>12
  <2>2. SameInput(e, u.es[L + 1]) /\ u.es[L + 1].step = Now.k.steps
    BY <1>3, <1>6, <1>8 DEF SameInput
  <2>3. /\ Here(u, Fed(Now, e).k, Fed(Now, e).q, L + 1, NoKernelCall)
        /\ PosFits(u, L + 1, Fed(Now, e).k.steps, NoKernelCall)
    BY <1>6, <1>8, <1>12, <2>1, <2>2, ApplyHere
  <2>4. /\ Fed(Now, e).q = queue' /\ Fed(Now, e).k.steps = m'.steps /\ Fed(Now, e).k.mode = m'.mode
        /\ Fed(Now, e).k.took = m'.took /\ Fed(Now, e).k.prog = m'.prog /\ Fed(Now, e).k.keys = m'.keys
    BY <1>2, <1>3, <1>6, <1>8, <1>10, FedIs
  <2> QED BY <2>3, <2>4, HereSame
<1>14. u.fed[0][L + 1] = Fed(t.fed[0][L], e) /\ t.fed[0][L] \in Worlds
  <2> DEFINE y == L + 1
  <2>1. y \in 1..Len(u.es) /\ y - 1 = L /\ u.es[y] = e /\ e.step = 0
    BY <1>2, <1>3, <1>6, <1>8
  <2> HIDE DEF y
  <2>2. /\ u.es[y].step = 0 => u.fed[0][y] = Fed(u.fed[0][y - 1], u.es[y])
        /\ u.fed[0][y - 1] \in Worlds
    BY <1>6, <1>8, <2>1, FedOne
  <2>3. u.fed[0][y] = Fed(t.fed[0][L], e) /\ t.fed[0][L] \in Worlds
    BY <1>8, <2>1, <2>2
  <2> QED BY <2>3 DEF y
<1>15. m'.prog = Loaded(u) /\ m'.keys = u.fed[0][L + 1].k.keys
  <2>1. Fed(t.fed[0][L], e).k.prog = loadNext + 1 /\ Fed(t.fed[0][L], e).k.keys = t.fed[0][L].k.keys
    BY <1>3, <1>8, <1>14, FedIs
  <2>2. m.keys = t.fed[0][L].k.keys
    <3>1. L \in 0..Len(t.es) /\ \A i \in (L + 1)..Len(t.es) : t.es[i].step > 0
      BY <1>4, <1>6
    <3> QED BY <1>2, <1>6, <1>7, <3>1, KeysNow
  <2> QED BY <1>8, <1>10, <1>14, <2>1, <2>2 DEF Loaded
<1>16. SnapFits(u, m')
  <2>1. 0 \in Multiples
    BY ReplayAssumption DEF Multiples
  <2>2. Arrives(u, 0) /\ u.at[0] = [k |-> Boot, q |-> << >>] /\ t.at[0] = [k |-> Boot, q |-> << >>]
    BY <1>2, <1>6, <1>8, <1>12 DEF Here, IsLine
  <2>3. m.took = t.at[0].k.took
    BY <1>1, <1>2, <1>4, HereNow DEF t
  <2>4. m'.mode = u.at[0].k.mode /\ m'.took = u.at[0].k.took /\ u.at[0].q = << >>
    BY <1>10, <2>2, <2>3 DEF Boot
  <2> QED BY <1>10, <1>15, <2>1, <2>2, <2>4 DEF SnapFits, Like
<1>17. RotFits(snaps', seq') /\ StampsFit(u, log', L + 1, m', snaps') /\ SnapsFit(u, snaps')
  <2>1. snaps'[0].m = m' /\ m'.keys = u.fed[0][Len(u.es)].k.keys
    BY <1>8, <1>11, <1>15
  <2> QED BY <1>8, <1>10, <1>11, <1>16, <2>1, FreshStamps
<1>18. LogFits(u, log')
  BY <1>5, <1>6, <1>7, GrownLog
<1>19. LoadsFit(u, images', loadNext')
  <2>1. loadNext \in Nat /\ loadNext + 1 <= LoadSlots /\ images \in [0..(LoadSlots - 1) -> Nat]
    <3>1. inputs \in Nat /\ loadNext \in 0..inputs /\ images \in [0..(LoadSlots - 1) -> Nat]
      BY Bounds DEF ReplayInv, Typed
    <3> QED BY <1>2, <3>1 DEF NoRecycling
  <2> QED BY <1>2, <1>3, <1>5, <1>6, <1>7, <2>1, NewImage
<1>20. InputPart'
  BY <1>2, <1>6, <1>12, <1>18, <1>19 DEF InputPart, u
<1>21. MachinePart'
  <2>1. KernelFits(m', queue', NoCall, NoKernelCall)
    BY DEF KernelFits, NoCall, NoKernelCall
  <2>2. pos' = L + 1
    BY <1>5
  <2> QED BY <1>4, <1>13, <2>1, <2>2 DEF MachinePart, u
<1>22. RingPart'
  BY <1>17 DEF RingPart, u
<1>23. StampPart'
  BY <1>4, <1>5, <1>17 DEF StampPart, StampsFit, u
<1>24. CallPart'
  <2>1. CallFits(u, m', queue', L + 1, NoCall, NoKernelCall, before')
    BY <1>15 DEF CallFits, NoCall
  <2> QED BY <1>4, <1>5, <2>1 DEF CallPart, u
<1> QED BY <1>20, <1>21, <1>22, <1>23, <1>24 DEF Fits

\* tos_con_push, with room in the log or without.
LEMMA ConPushFits ==
  ASSUME Habits = {}, ReplayInv, ReplayInv', Fits, NEW byte \in Bytes, ConPush(byte)
  PROVE  Overfull' \/ Fits'
<1> DEFINE e == Entry("CON", byte, 0)
<1>1. /\ m.mode = "IDLE" /\ queue = << >> /\ Record(e) /\ Apply(e) /\ UNCHANGED <<loading, ring>>
  BY DEF ConPush, Allowed
<1>2. e.kind # "LOAD" /\ e.step = m.steps /\ e.tick = m.tick
  BY DEF Entry
<1> HIDE DEF e
<1>3. ASSUME Room PROVE Fits'
  BY <1>1, <1>2, <1>3, PushFits
<1>4. ASSUME ~Room PROVE Overfull'
  BY <1>1, <1>2, <1>4, NewInput
<1> QED BY <1>3, <1>4

\* tos_keys_set, with room in the log or without.
LEMMA KeysSetFits ==
  ASSUME Habits = {}, ReplayInv, ReplayInv', Fits, NEW mask \in Masks, KeysSet(mask)
  PROVE  Overfull' \/ Fits'
<1> DEFINE e == Entry("KEYS", mask, 0)
<1>1. /\ Record(e) /\ Apply(e) /\ UNCHANGED <<loading, ring>>
  BY DEF KeysSet
<1>2. e.kind # "LOAD" /\ e.kind # "CON" /\ e.step = m.steps /\ e.tick = m.tick
  BY DEF Entry
<1> HIDE DEF e
<1>3. ASSUME Room PROVE Fits'
  BY <1>1, <1>2, <1>3, PushFits
<1>4. ASSUME ~Room PROVE Overfull'
  BY <1>1, <1>2, <1>4, NewInput
<1> QED BY <1>3, <1>4

\* A machine just built, with nothing logged, is where its timeline starts.
Fresh ==
  /\ code \in Codes /\ m = Boot /\ queue = << >> /\ log = << >> /\ pos = 0 /\ broken = FALSE
  /\ snaps = [i \in 0..(Slots - 1) |-> IF i = 0 THEN [seq |-> 1, m |-> Boot] ELSE Empty] /\ seq = 1
  /\ call = NoCall /\ kcall = NoKernelCall /\ given = << >>
\* A fresh machine fits its timeline, which has no inputs.
LEMMA FreshFits == Fresh => Fits
<1> SUFFICES ASSUME Fresh PROVE Fits
  OBVIOUS
<1> DEFINE t == Line
<1>1. /\ code \in Codes /\ m = Boot /\ queue = << >> /\ log = << >> /\ pos = 0 /\ ~broken
      /\ call = NoCall /\ kcall = NoKernelCall /\ given = << >> /\ given \in Seq(Inputs)
  BY DEF Fresh
<1>2. IsLine(t) /\ t.es = given /\ Len(t.es) = 0 /\ Len(log) = 0
  BY <1>1, LineIs DEF Line
<1>3. t.at[0] = [k |-> Boot, q |-> << >>] /\ t.fed[0][0] = [k |-> Boot, q |-> << >>] /\ Loaded(t) = 0
  BY <1>2, Bounds, LineTypes DEF IsLine, Loaded, Boot
<1>4. /\ Boot.steps = 0 /\ Boot.tick = 0 /\ Boot.mode = "RUN" /\ Boot.took = << >> /\ Boot.prog = 0 /\ Boot.keys = NoKeys
      /\ Boot.lastSnap = 0 /\ Boot \in Machines
  BY BootType DEF Boot
<1> HIDE DEF t
<1>5. Arrives(t, 0)
  BY <1>3, <1>4 DEF Arrives
<1>6. /\ snaps[0].m = Boot /\ \A i \in 1..Rotating : snaps[i].seq = 0
  <2>1. Slots \in Nat /\ Slots >= 2
    BY Bounds
  <2>2. 0 \in 0..(Slots - 1) /\ \A i \in 1..Rotating : i \in 0..(Slots - 1) /\ i # 0
    BY <2>1 DEF Rotating
  <2> QED BY <2>2 DEF Fresh, Empty
<1>7. SnapFits(t, Boot)
  <2>1. 0 \in Multiples
    BY ReplayAssumption DEF Multiples
  <2> QED BY <1>3, <1>4, <1>5, <2>1 DEF SnapFits, Like
<1>8. RotFits(snaps, seq) /\ StampsFit(t, log, pos, m, snaps) /\ SnapsFit(t, snaps)
  <2>1. m.steps = 0 /\ m.lastSnap = 0 /\ snaps[0].m = m /\ m \in Machines /\ SnapFits(t, m)
    BY <1>1, <1>4, <1>6, <1>7
  <2>2. Len(t.es) \in Nat /\ m.keys = t.fed[0][Len(t.es)].k.keys /\ pos = Len(t.es)
    BY <1>1, <1>2, <1>3
  <2> QED BY <1>6, <2>1, <2>2, FreshStamps
<1>9. NoKernelCall.active = FALSE /\ NoKernelCall.stop = "NONE" /\ NoKernelCall.left = 0
      /\ NoCall.phase = "HOST" /\ NoCall.failed = FALSE
  BY DEF NoKernelCall, NoCall
<1>10. InputPart
  <2>1. InputsFit(t) /\ LoadsFit(t, images, loadNext) /\ LogFits(t, log)
    BY <1>2 DEF InputsFit, LoadsFit, LogFits
  <2> QED BY <1>1, <2>1 DEF InputPart, t
<1>11. MachinePart
  <2>1. PosFits(t, 0, 0, NoKernelCall)
    BY <1>2, <1>9 DEF PosFits
  <2>2. Here(t, Boot, << >>, 0, NoKernelCall)
    BY <1>3, <1>4, <1>5, <1>9 DEF Here, Like
  <2>3. KernelFits(Boot, << >>, NoCall, NoKernelCall)
    BY <1>9 DEF KernelFits
  <2> QED BY <1>1, <1>4, <2>1, <2>2, <2>3 DEF MachinePart, t
<1>12. RingPart
  BY <1>8 DEF RingPart, t
<1>13. StampPart
  BY <1>1, <1>8 DEF StampPart, StampsFit, t
<1>14. CallPart
  <2>1. CallFits(t, Boot, << >>, 0, NoCall, NoKernelCall, before)
    BY <1>3, <1>4, <1>9 DEF CallFits
  <2> QED BY <1>1, <2>1 DEF CallPart, t
<1> QED BY <1>10, <1>11, <1>12, <1>13, <1>14 DEF Fits

\* tos_reset starts a timeline.
LEMMA ResetFits ==
  ASSUME ReplayInv, KernelIdle, Reset
  PROVE  Fits'
<1>1. Fresh'
  <2>1. kcall = NoKernelCall /\ code \in Codes
    BY DEF ReplayInv, Typed, Budgeted, Reset, AtHost, KernelIdle
  <2> QED BY <2>1 DEF Reset, Fresh
<1>2. Fresh' => Fits'
  BY FreshFits, PTL
<1> QED BY <1>1, <1>2

\* A step that changes nothing.
LEMMA StillFits ==
  ASSUME Fits, UNCHANGED vars
  PROVE  Fits'
<1>1. /\ m' = m /\ queue' = queue /\ code' = code /\ log' = log /\ pos' = pos /\ images' = images /\ loadNext' = loadNext
      /\ broken' = broken /\ snaps' = snaps /\ seq' = seq /\ call' = call /\ kcall' = kcall /\ given' = given
      /\ before' = before
  BY DEF vars, machine, loading, ring, history
<1>2. Line' = Line
  BY <1>1, LineStill
<1>3. InputPart' /\ MachinePart'
  BY <1>1, <1>2 DEF Fits, InputPart, MachinePart
<1>4. RingPart' /\ StampPart'
  BY <1>1, <1>2 DEF Fits, RingPart, StampPart
<1>5. CallPart'
  BY <1>1, <1>2 DEF Fits, CallPart
<1> QED BY <1>3, <1>4, <1>5 DEF Fits

\* An input that found the log full is followed by others that do, until a reset.
LEMMA RecordOverfull ==
  ASSUME Habits = {}, ReplayInv, Overfull, NEW e, Record(e)
  PROVE  Overfull'
<1>1. AtEnd /\ given' = Append(SubSeq(given, 1, pos), e) /\ (~Room => log' = SubSeq(log, 1, pos))
  BY DEF Record, Allowed
<1>2. LogCap \in Nat /\ log \in Seq(Inputs) /\ given \in Seq(Inputs) /\ pos \in Nat /\ pos <= Len(log)
  BY ReplayAssumption DEF ReplayInv, Typed, LogTyped
<1>3. pos = Len(log) /\ pos = LogCap /\ pos <= Len(given)
  BY <1>1, <1>2 DEF AtEnd, Pending, Overfull
<1>4. log' = log
  <2>1. ~Room
    BY <1>2, <1>3 DEF Room
  <2>2. SubSeq(log, 1, pos) = log
    BY <1>2, <1>3, WholeSeq
  <2> QED BY <1>1, <2>1, <2>2
<1>5. Len(given') = LogCap + 1
  BY <1>1, <1>2, <1>3
<1> QED BY <1>4, <1>5 DEF Overfull
\* Nothing but a reset makes room in the log.
LEMMA OverfullStep ==
  ASSUME Habits = {}, ReplayInv, Overfull, [Next]_vars, ~Reset
  PROVE  Overfull'
<1>1. ASSUME UNCHANGED <<log, given>> PROVE Overfull'
  BY <1>1 DEF Overfull
<1>2. ASSUME NEW byte \in Bytes, ConPush(byte) PROVE Overfull'
  BY <1>2, RecordOverfull DEF ConPush
<1>3. ASSUME NEW mask \in Masks, KeysSet(mask) PROVE Overfull'
  BY <1>3, RecordOverfull DEF KeysSet
<1>4. ASSUME LoadCom PROVE Overfull'
  BY <1>4, RecordOverfull DEF LoadCom
<1>5. ASSUME ApplyDue PROVE Overfull'
  <2>1. log \in Seq(Inputs)
    BY DEF ReplayInv, Typed, LogTyped
  <2> QED BY <1>5, <2>1 DEF ApplyDue, history, Overfull
<1>6. ASSUME HostCall PROVE UNCHANGED <<log, given>>
  BY <1>6 DEF HostCall, StepCall, SeekCall, history
<1>7. ASSUME Enter \/ Stop \/ Wake \/ Execute \/ Return PROVE UNCHANGED <<log, given>>
  BY <1>7 DEF Enter, Stop, Wake, Execute, Return, history
<1>8. ASSUME SeekOk \/ SeekBack PROVE UNCHANGED <<log, given>>
  BY <1>8 DEF SeekOk, SeekBack, history
<1>9. ASSUME UNCHANGED vars PROVE UNCHANGED <<log, given>>
  BY <1>9 DEF vars, history
<1> QED BY <1>1, <1>2, <1>3, <1>4, <1>5, <1>6, <1>7, <1>8, <1>9 DEF Next, HostInput, InCall

\* A kernel_step that returned leaves nothing behind.
LEMMA KernelIdleStep == ReplayInv /\ KernelIdle /\ [Next]_vars => KernelIdle'
<1> SUFFICES ASSUME ReplayInv, KernelIdle, [Next]_vars PROVE KernelIdle'
  OBVIOUS
<1>1. kcall \in KernelCalls
  BY DEF ReplayInv, Typed
<1>2. ASSUME kcall' = kcall PROVE KernelIdle'
  BY <1>2 DEF KernelIdle
<1>3. ASSUME HostInput PROVE kcall' = kcall
  BY <1>3 DEF HostInput, ConPush, KeysSet, LoadCom, Record, Reset
<1>4. ASSUME HostCall \/ ApplyDue \/ Wake \/ SeekOk \/ SeekBack PROVE kcall' = kcall
  BY <1>4 DEF HostCall, StepCall, SeekCall, ApplyDue, Wake, SeekOk, SeekBack
<1>5. ASSUME Enter PROVE kcall'.active = TRUE
  BY <1>5 DEF Enter
<1>6. ASSUME Stop PROVE kcall'.active = TRUE
  BY <1>1, <1>6 DEF Stop, Running, StopWith, KernelCalls
<1>7. ASSUME Execute PROVE kcall'.active = TRUE
  <2>1. kcall.active = TRUE
    BY <1>7 DEF Execute, Running
  <2>2. PICK l, s : kcall' = [kcall EXCEPT !.left = l, !.stop = s]
    BY <1>7 DEF Execute
  <2> QED BY <1>1, <2>1, <2>2 DEF KernelCalls
<1>8. ASSUME Return PROVE kcall' = NoKernelCall
  BY <1>8 DEF Return
<1>9. ASSUME UNCHANGED vars PROVE kcall' = kcall
  BY <1>9 DEF vars
<1> QED BY <1>2, <1>3, <1>4, <1>5, <1>6, <1>7, <1>8, <1>9 DEF Next, InCall, KernelIdle

\* Every step of the specification keeps the timeline invariant.
LEMMA TimeInvStep ==
  ASSUME Habits = {}, ReplayInv, ReplayInv', NoWrap, NoRecycling', TimeInv, [Next]_vars
  PROVE  TimeInv'
<1>1. KernelIdle /\ KernelIdle'
  BY KernelIdleStep DEF TimeInv
<1>2. ASSUME Reset PROVE Fits'
  BY <1>1, <1>2, ResetFits
<1>3. ASSUME Overfull, ~Reset PROVE Overfull'
  BY <1>3, OverfullStep
<1>4. ASSUME Fits PROVE Overfull' \/ Fits'
  <2>1. ASSUME NEW byte \in Bytes, ConPush(byte) PROVE Overfull' \/ Fits'
    BY <1>4, <2>1, ConPushFits
  <2>2. ASSUME NEW mask \in Masks, KeysSet(mask) PROVE Overfull' \/ Fits'
    BY <1>4, <2>2, KeysSetFits
  <2>3. ASSUME LoadCom PROVE Overfull' \/ Fits'
    BY <1>4, <2>3, LoadComFits
  <2>4. ASSUME NEW max \in Budgets, StepCall(max) PROVE Fits'
    BY <1>4, <2>4, StepCallFits
  <2>5. ASSUME NEW target \in Steps, SeekCall(target) PROVE Fits'
    BY <1>4, <2>5, SeekCallFits
  <2>6. ASSUME ApplyDue PROVE Fits'
    BY <1>4, <2>6, ApplyDueFits
  <2>7. ASSUME Enter PROVE Fits'
    BY <1>4, <2>7, EnterFits
  <2>8. ASSUME Stop PROVE Fits'
    BY <1>4, <2>8, StopFits
  <2>9. ASSUME Wake PROVE Fits'
    BY <1>4, <2>9, WakeFits
  <2>10. ASSUME Execute PROVE Fits'
    BY <1>4, <2>10, ExecuteFits
  <2>11. ASSUME Return PROVE Fits'
    BY <1>4, <2>11, ReturnFits
  <2>12. ASSUME SeekOk PROVE Fits'
    BY <1>4, <2>12, SeekOkFits
  <2>13. ASSUME SeekBack PROVE Fits'
    BY <1>4, <2>13, SeekBackFits
  <2>14. ASSUME UNCHANGED vars PROVE Fits'
    BY <1>4, <2>14, StillFits
  <2> QED BY <1>2, <2>1, <2>2, <2>3, <2>4, <2>5, <2>6, <2>7, <2>8, <2>9, <2>10, <2>11, <2>12, <2>13, <2>14
          DEF Next, HostInput, HostCall, InCall
<1> QED BY <1>1, <1>2, <1>3, <1>4 DEF TimeInv

\* It holds of the machine tos_create makes.
LEMMA TimeInvInit == Init => TimeInv
<1> SUFFICES ASSUME Init PROVE TimeInv
  OBVIOUS
<1>1. Fresh /\ KernelIdle
  BY DEF Init, Fresh, KernelIdle, Codes
<1> QED BY <1>1, FreshFits DEF TimeInv

\* What the host sees of a machine that is where its timeline is.
LEMMA TimelineSays ==
  ASSUME ReplayInv, TimeInv
  PROVE  TimelineFidelity /\ FailedSeekHarmless
<1> SUFFICES ASSUME AtHost, AllLogged PROVE Image(m) \in Had(m.steps) /\ (call.failed => Image(m) = before)
  BY DEF TimelineFidelity, FailedSeekHarmless
<1>1. Fits
  <2>1. ~Overfull
    BY ReplayAssumption DEF AllLogged, Overfull
  <2> QED BY <2>1 DEF TimeInv
<1>2. Facts
  BY <1>1, Known
<1>3. call.phase = "HOST" /\ ~kcall.active
  BY <1>2 DEF Facts, AtHost
<1>4. m.prog = Loaded(Line) /\ (call.failed => Image(m) = before)
  BY <1>1, <1>3 DEF Fits, CallPart, CallFits
<1> DEFINE n == m.steps
           L == Len(given)
<1>5. Image(m) = Sight(Line, n) /\ Arrives(Line, n)
  BY <1>1, <1>2, <1>3, <1>4, HereNow
<1>6. n \in Steps /\ n \in Nat /\ L \in Nat /\ Line.es = given /\ IsLine(Line) /\ GoesOn(Line, Going) /\ InputsFit(Line)
  BY <1>2 DEF Facts
<1>7. L \in 0..L
  BY <1>6
<1>8. Image(Line.fed[n][L].k) = Sight(Line, n)
  <2>1. LoadsFirst(Line)
    BY <1>6, LoadsAreFirst
  <2>2. FedSees(Line.fed[n][L], Line.at[n], n)
    BY <1>6, <1>7, <2>1, FedKeeps DEF LoadsFirst
  <2>3. Line.fed[n][L].k.prog = Loaded(Line)
    BY <1>6, <2>1, ProgIs
  <2> QED BY <2>2, <2>3 DEF FedSees, Image, Sight
<1>9. Line.at[n] = Straight[n] /\ Line.fed[n] = Taking(Straight[n], n)
  BY <1>6 DEF Line, Feeding
<1>10. Straight[n].k.steps = n
  <2>1. Line.at[n].k.steps = n
    BY <1>5, <1>6 DEF Arrives
  <2> QED BY <1>9, <2>1
<1>11. Image(m) = Image(Taking(Straight[n], n)[L].k)
  BY <1>5, <1>8, <1>9
<1> HIDE DEF n, L
<1>12. Had(n) = {Image(Taking(Straight[n], n)[i].k) : i \in 0..Len(given)}
  BY <1>6, <1>10 DEF Had
<1>13. Image(m) \in Had(n)
  BY <1>7, <1>11, <1>12 DEF L
<1> QED BY <1>4, <1>13 DEF n

\* No host habit, no image slot used twice and no wrap of the tick: then wherever stepping, seeking
\* and inputs have brought it, the machine the host finds is that of its timeline (tos_step,
\* tos_seek, api_apply_due and the snapshot ring).
THEOREM TimelineIsFaithful ==
  ASSUME Habits = {}
  PROVE  Spec /\ [](NoRecycling /\ NoWrap) => []TimelineFidelity
<1>1. ReplayInv /\ ReplayInv' /\ NoWrap /\ NoRecycling' /\ TimeInv /\ [Next]_vars => TimeInv'
  BY TimeInvStep
<1>2. ReplayInv /\ TimeInv => TimelineFidelity
  BY TimelineSays
<1> QED BY <1>1, <1>2, ReplayInvInit, ReplayInvStep, TimeInvInit, PTL DEF Spec

\* Under the same hypotheses a tos_seek that fails has put back the machine its caller had.
THEOREM FailedSeekIsHarmless ==
  ASSUME Habits = {}
  PROVE  Spec /\ [](NoRecycling /\ NoWrap) => []FailedSeekHarmless
<1>1. ReplayInv /\ ReplayInv' /\ NoWrap /\ NoRecycling' /\ TimeInv /\ [Next]_vars => TimeInv'
  BY TimeInvStep
<1>2. ReplayInv /\ TimeInv => FailedSeekHarmless
  BY TimelineSays
<1> QED BY <1>1, <1>2, ReplayInvInit, ReplayInvStep, TimeInvInit, PTL DEF Spec
=============================================================================
