------------------------------ MODULE TapeProofs ------------------------------
(***************************************************************************)
(* What holds of the tape's ages, faults and trace for every program.      *)
(***************************************************************************)
EXTENDS Tape, Induction, FiniteSetTheorems, SequenceTheorems

(***************************************************************************)
(* The timeline of a program p.  What its operation number n does is fixed *)
(* with the program: which tape is selected after it, which cells it       *)
(* accesses, with which stamps, whether the machine stops at it.           *)
(***************************************************************************)
OpOf(p, n)    == IF n <= Len(p) THEN p[n] ELSE Hlt
Selects(p, n) == OpOf(p, n).kind = "SELECT" /\ OpOf(p, n).at < Tapes
Picks(p, n)   == {i \in 1..n : Selects(p, i)}
SelAt(p, n)   == IF Picks(p, n) = {} THEN 0 ELSE OpOf(p, Max(Picks(p, n))).at

CellAt(p, n) ==
  <<IF OpOf(p, n).at >= BankBase /\ OpOf(p, n).at <= BankEnd THEN SelAt(p, n - 1) ELSE 0,
    OpOf(p, n).at>>
Reaches(p, n) == IF OpOf(p, n).at < Length THEN {CellAt(p, n)} ELSE {}
ReadLog(p)  == [n \in Nat |-> IF n > 0 /\ IsRead(OpOf(p, n)) THEN Reaches(p, n) ELSE {}]
WriteLog(p) == [n \in Nat |-> IF n > 0 /\ IsWrite(OpOf(p, n)) THEN Reaches(p, n) ELSE {}]

Faults(p, n) == \/ OpOf(p, n).kind \in {"READ", "WRITE"} /\ OpOf(p, n).at >= Length
                \/ OpOf(p, n).kind = "SELECT" /\ OpOf(p, n).at >= Tapes
Halts(p, n)  == Faults(p, n) \/ OpOf(p, n).kind = "HLT"
Calls(p, n)  == OpOf(p, n).kind \in BiosKinds

\* The accesses of operations 1 to d, by cell.
Hist(log, d)  == [c \in Cells |-> {n \in 1..d : c \in log[n]}]
History(p, d) == [w |-> Hist(WriteLog(p), d), r |-> Hist(ReadLog(p), d)]

\* The stamps the operations in `steps` may leave, and those of the last of them.
StampsAt(p, n)     == {n} \cup IF Calls(p, n) THEN {n + 1} ELSE {}
StampsIn(p, steps) == UNION {StampsAt(p, n) : n \in steps}
LastStamps(p, steps) == IF steps = {} THEN {} ELSE StampsAt(p, Max(steps))

\* The operations a machine has done: not yet the BIOS call it still waits for.
Parked(kk) == kk.state \in {"SYSCALL", "IDLE"}
Done(kk)   == IF Parked(kk) THEN kk.steps - 1 ELSE kk.steps

Multiple(s) == \E i \in 0..s : s = i * Interval

(***************************************************************************)
(* The invariant                                                           *)
(***************************************************************************)
Kernels == [state : {"RUN", "SYSCALL", "IDLE", "HALT"}, steps : Nat, lastSnap : Nat]

\* A machine kk with tape sel selected and history tr is one of this timeline.
Stands(p, kk, sel, tr) ==
  /\ kk \in Kernels /\ sel = SelAt(p, kk.steps) /\ tr = History(p, Done(kk))
  /\ Parked(kk) => kk.steps > 0 /\ Calls(p, kk.steps)
  /\ \A n \in 1..kk.steps : Halts(p, n) => n = kk.steps /\ kk.state = "HALT"

Typed ==
  /\ program \in Programs /\ mem \in Memory /\ input \in BOOLEAN
  /\ since \in 0..StampMod - 1 /\ dirty \subseteq Pages /\ wrote \subseteq Pages
  /\ call \in Nat \cup {Idle, Stopping} /\ target \in 0..reached \cup {NoStep}
  /\ ticks \in 0..MaxTicks /\ seeks \in 0..MaxSeeks
  /\ reached \in Nat /\ faulted \in Nat /\ jumped \in BOOLEAN

OnTimeline ==
  /\ mem.fault = "NONE" /\ Stands(program, k, mem.sel, truth) /\ k.steps <= reached
  /\ faulted # 0 => Faults(program, faulted)

\* The snapshots are of this timeline, taken at multiples of the interval up to step r.
Ring(p, sn, r) ==
  /\ DOMAIN sn \subseteq 0..r /\ 0 \in DOMAIN sn
  /\ \A s \in DOMAIN sn : /\ Multiple(s) /\ sn[s].k.steps = s /\ sn[s].k.lastSnap = s
                            /\ Stands(p, sn[s].k, sn[s].sel, sn[s].truth)

Snapshots ==
  /\ Ring(program, snaps, reached) /\ k.lastSnap \in DOMAIN snaps
  /\ k.lastSnap <= k.steps /\ (Interval # 0 => k.steps - k.lastSnap <= Interval)
  /\ call = Idle => ~SnapDue

\* The newest count events of the ring are the last count ones pushed, none by a replay.
Honest(t) ==
  /\ t \in Trace /\ t.count <= t.head
  /\ \A i \in 1..t.count : /\ t.ring[(t.head - i) % TraceCap].nth = t.head - i + 1
                            /\ t.ring[(t.head - i) % TraceCap].live

Traces == Honest(trace) /\ (Seeking => ~trace.on)

\* Stamps, while they do not wrap.
Stamped ==
  /\ mem.step \in {k.steps, k.steps + 1} /\ mem.step > 0
  /\ Running /\ mem.step = k.steps => k.lastSnap < k.steps
  /\ call # Idle => since <= mem.step
  /\ CellsCounted
  \* A parked machine whose step has a snapshot of one that went on is due to replace it.
  /\ Parked(k) /\ k.steps \in DOMAIN snaps /\ ~Parked(snaps[k.steps].k) => SnapDue

\* An age is a stamp of an operation that did access the cell, of the last one unless j.
Real(p, age, hist, j) ==
  \A c \in Cells : age[c] # 0 => /\ age[c] \in StampsIn(p, hist[c])
                                 /\ j \/ age[c] \in LastStamps(p, hist[c])

\* The call a snapshot waits for has left no age, unless the snapshot is about to be replaced.
Due == {s \in {k.steps} : k.state = "RUN" /\ call # Idle /\ SnapDue}
Unserved(p, age, log, sn, due) ==
  \A s \in DOMAIN sn \ due : \A c \in Cells :
    Parked(sn[s].k) /\ age[c] = s => s \in StampsIn(p, Hist(log, s - 1)[c])

Ages ==
  /\ Real(program, mem.wage, truth.w, jumped)
  /\ Real(program, mem.rage, truth.r, jumped)
  /\ Unserved(program, mem.wage, WriteLog(program), snaps, Due)
  /\ Unserved(program, mem.rage, ReadLog(program), snaps, Due)

Dirty ==
  /\ wrote \subseteq mem_dirty_pages(mem, since)
  /\ call = Idle /\ ~Seeking =>
       /\ wrote \subseteq dirty
       /\ \A p \in dirty : \E c \in Cells :
            Page(c[2]) = p /\ \E s \in StampsIn(program, truth.w[c]) : s >= since

Inv    == Typed /\ OnTimeline /\ Snapshots /\ Traces
AgeInv == Inv /\ Stamped /\ Ages /\ Dirty

\* No program of the instance runs until a stamp wraps (2^32 steps in the code).
NoWrap == \A p \in Programs : Len(p) + 2 < StampMod

(***************************************************************************)
(* Numbers                                                                 *)
(***************************************************************************)
LEMMA Modulo ==
  ASSUME NEW x \in Nat, NEW N \in Nat \ {0}
  PROVE  /\ x % N \in 0..N - 1
         /\ x < N => x % N = x
OBVIOUS

\* Two numbers less than N apart have different places in a ring of N.
LEMMA RingPlaces ==
  ASSUME NEW x \in Nat, NEW y \in Nat, NEW N \in Nat \ {0}, x < y, y < x + N
  PROVE  x % N # y % N
<1> SUFFICES ASSUME x % N = y % N PROVE FALSE
  OBVIOUS
<1> DEFINE p == x \div N
           q == y \div N
<1>1. p \in Nat /\ q \in Nat /\ x = N * p + (x % N) /\ y = N * q + (y % N)
  <2>1. p \in Nat /\ q \in Nat
    OBVIOUS
  <2>2. x = N * p + (x % N)
    OBVIOUS
  <2>3. y = N * q + (y % N)
    OBVIOUS
  <2> QED BY <2>1, <2>2, <2>3
<1> HIDE DEF p, q
<1>2. x % N \in Int
  OBVIOUS
<1>3. N * q - N * p > 0 /\ N * q - N * p < N
  <2>1. N * q \in Int /\ N * p \in Int
    BY <1>1
  <2> QED BY <1>1, <1>2, <2>1
<1>4. CASE q <= p
  <2>1. N * q <= N * p
    BY <1>1, <1>4
  <2> QED BY <1>1, <1>3, <2>1
<1>5. CASE q >= p + 1
  <2>1. N * q >= N * (p + 1)
    BY <1>1, <1>5
  <2>2. N * (p + 1) = N * p + N
    BY <1>1
  <2>3. N * q \in Int /\ N * p \in Int
    BY <1>1
  <2> QED BY <1>3, <2>1, <2>2, <2>3
<1> QED BY <1>1, <1>4, <1>5

LEMMA Quotients ==
  ASSUME NEW x \in Nat, NEW y \in Nat, x <= y, NEW N \in Nat \ {0}
  PROVE  x \div N \in Nat /\ y \div N \in Nat /\ x \div N <= y \div N
<1> DEFINE p == x \div N
           q == y \div N
<1>1. p \in Nat /\ q \in Nat /\ x >= N * p /\ y < N * q + N
  OBVIOUS
<1> HIDE DEF p, q
<1>2. CASE p <= q
  BY <1>1, <1>2 DEF p, q
<1>3. CASE p >= q + 1
  <2>1. N * p >= N * (q + 1)
    BY <1>1, <1>3
  <2>2. N * (q + 1) = N * q + N
    BY <1>1
  <2>3. N * q \in Int /\ N * p \in Int
    BY <1>1
  <2> QED BY <1>1, <2>1, <2>2, <2>3
<1> QED BY <1>1, <1>2, <1>3

\* Snapshots are of multiples of the interval, so two of them are an interval apart.
LEMMA MultiplesApart ==
  ASSUME NEW s \in Nat, NEW t \in Nat, Multiple(s), Multiple(t), s < t
  PROVE  Interval # 0 /\ t - s >= Interval
<1>1. Interval \in Nat
  BY TapeAssumption
<1>2. PICK i \in 0..s : s = i * Interval
  BY DEF Multiple
<1>3. PICK j \in 0..t : t = j * Interval
  BY DEF Multiple
<1>4. i \in Nat /\ j \in Nat
  BY <1>2, <1>3
<1>5. ~(j <= i)
  <2> SUFFICES ASSUME j <= i PROVE FALSE
    OBVIOUS
  <2>1. j * Interval <= i * Interval
    BY <1>1, <1>4
  <2> QED BY <1>2, <1>3, <2>1
<1>6. (i + 1) * Interval <= j * Interval
  BY <1>1, <1>4, <1>5
<1>7. (i + 1) * Interval = s + Interval
  BY <1>1, <1>2, <1>4
<1>8. t >= s + Interval
  BY <1>3, <1>6, <1>7
<1>9. Interval # 0
  <2>1. Interval = 0 => i * Interval = 0 /\ j * Interval = 0
    BY <1>4
  <2> QED BY <1>2, <1>3, <2>1
<1> QED BY <1>1, <1>8, <1>9

LEMMA MultiplesNext ==
  ASSUME NEW s \in Nat, Multiple(s), Interval # 0
  PROVE  Multiple(s + Interval)
<1>1. Interval \in Nat
  BY TapeAssumption
<1>2. PICK i \in 0..s : s = i * Interval
  BY DEF Multiple
<1>3. i + 1 \in 0..s + Interval
  BY <1>1, <1>2
<1>4. s + Interval = (i + 1) * Interval
  BY <1>1, <1>2
<1> QED BY <1>3, <1>4 DEF Multiple

LEMMA MultipleZero == Multiple(0)
BY TapeAssumption DEF Multiple

\* The greatest of a set of numbers with a bound.
LEMMA MaxOfBounded ==
  ASSUME NEW S, S \subseteq Nat, S # {}, NEW bound \in Nat, \A c \in S : c <= bound
  PROVE  Max(S) \in S /\ Max(S) \in Nat /\ \A c \in S : c <= Max(S)
<1>1. PICK b \in S : \A c \in S : c <= b
  BY NatMaximum
<1>2. \A c \in S : b >= c
  BY <1>1
<1>3. Max(S) \in S /\ \A c \in S : Max(S) >= c
  BY <1>2 DEF Max
<1>4. ASSUME NEW c \in S PROVE c <= Max(S)
  BY <1>3
<1> QED BY <1>3, <1>4

LEMMA MaxIs ==
  ASSUME NEW S, S \subseteq Nat, NEW b \in S, \A c \in S : c <= b
  PROVE  Max(S) = b
<1>1. b \in Nat
  OBVIOUS
<1>2. PICK m \in S : m = Max(S) /\ \A c \in S : c <= m
  BY <1>1, MaxOfBounded
<1>3. m \in Nat /\ m <= b /\ b <= m
  BY <1>1, <1>2
<1> QED BY <1>1, <1>2, <1>3

LEMMA MaxOfTwo ==
  ASSUME NEW a \in Nat, NEW b \in Nat
  PROVE  Max({a, b}) = (IF a >= b THEN a ELSE b)
<1>1. CASE a >= b
  BY <1>1, MaxIs
<1>2. CASE b > a
  BY <1>2, MaxIs
<1> QED BY <1>1, <1>2

(***************************************************************************)
(* The timeline                                                            *)
(***************************************************************************)
LEMMA OpType ==
  ASSUME NEW p \in Programs, NEW n \in Nat, n > 0
  PROVE  /\ Len(p) \in Nat /\ OpOf(p, n).at \in Nat
         /\ OpOf(p, n).kind \in {"READ", "WRITE", "SELECT", "HLT"} \cup BiosKinds
         /\ OpOf(p, n).kind \in {"READ", "WRITE"} \cup BiosKinds => OpOf(p, n).at \in Addrs
         /\ n > Len(p) => Halts(p, n)
<1>1. p \in Seq(Op)
  BY TapeAssumption
<1>2. Len(p) \in Nat /\ (n <= Len(p) => p[n] \in Op)
  BY <1>1
<1>3. Backing \in Nat /\ \A a \in Addrs : a \in Nat
  BY TapeAssumption DEF Addrs
<1>4. CASE n <= Len(p)
  <2>1. p[n] \in Op /\ OpOf(p, n) = p[n]
    BY <1>2, <1>4 DEF OpOf
  <2> HIDE DEF Addrs
  <2>2. p[n].kind \in {"READ", "WRITE", "SELECT"} \cup BiosKinds /\ p[n].at \in Nat
    BY <2>1, <1>3 DEF Op
  <2>3. p[n].kind \in {"READ", "WRITE"} \cup BiosKinds => p[n].at \in Addrs
    BY <2>1 DEF Op, BiosKinds
  <2> QED BY <1>2, <1>4, <2>1, <2>2, <2>3
<1>5. CASE n > Len(p)
  <2>1. OpOf(p, n) = Hlt
    BY <1>2, <1>5 DEF OpOf
  <2>2. Hlt.kind = "HLT" /\ Hlt.at = 0
    BY DEF Hlt
  <2> QED BY <1>2, <2>1, <2>2 DEF Halts, BiosKinds
<1> QED BY <1>2, <1>4, <1>5

LEMMA SelNext ==
  ASSUME NEW p \in Programs, NEW n \in Nat
  PROVE  /\ SelAt(p, 0) = 0
         /\ SelAt(p, n + 1) = IF Selects(p, n + 1) THEN OpOf(p, n + 1).at ELSE SelAt(p, n)
<1>1. Picks(p, 0) = {}
  BY DEF Picks
<1>2. CASE Selects(p, n + 1)
  <2>1. n + 1 \in Picks(p, n + 1) /\ Picks(p, n + 1) \subseteq Nat
        /\ \A i \in Picks(p, n + 1) : i <= n + 1
    BY <1>2 DEF Picks
  <2>2. Max(Picks(p, n + 1)) = n + 1
    BY <2>1, MaxIs
  <2>3. Picks(p, n + 1) # {}
    BY <2>1
  <2> QED BY <1>1, <1>2, <2>2, <2>3 DEF SelAt
<1>3. CASE ~Selects(p, n + 1)
  <2>1. Picks(p, n + 1) = Picks(p, n)
    BY <1>3 DEF Picks
  <2> QED BY <1>1, <1>3, <2>1 DEF SelAt
<1> QED BY <1>2, <1>3

LEMMA SelType ==
  ASSUME NEW p \in Programs, NEW n \in Nat
  PROVE  SelAt(p, n) \in 0..Tapes - 1
<1> DEFINE Good == {i \in Nat : SelAt(p, i) \in 0..Tapes - 1}
<1>1. Tapes \in Nat /\ Tapes > 0
  BY TapeAssumption
<1>2. 0 \in Good
  BY <1>1, SelNext
<1>3. ASSUME NEW i \in 0..(n - 1), i \in Good PROVE i + 1 \in Good
  <2>1. i \in Nat /\ SelAt(p, i) \in 0..Tapes - 1
    BY <1>3
  <2>2. OpOf(p, i + 1).at \in Nat
    BY <2>1, OpType
  <2>3. SelAt(p, i + 1) = IF Selects(p, i + 1) THEN OpOf(p, i + 1).at ELSE SelAt(p, i)
    BY <2>1, SelNext
  <2>4. Selects(p, i + 1) => OpOf(p, i + 1).at < Tapes
    BY DEF Selects
  <2> QED BY <1>1, <2>1, <2>2, <2>3, <2>4
<1> HIDE DEF Good
<1>4. 0..n \subseteq Good
  BY <1>2, <1>3, UpTo
<1>5. n \in Good
  BY <1>4
<1> QED BY <1>5 DEF Good

Logs == [Nat -> SUBSET Cells]

\* Every cell an operation accesses is one the scan for dirty pages looks at.
LEMMA LogType ==
  ASSUME NEW p \in Programs
  PROVE  /\ ReadLog(p) \in Logs /\ WriteLog(p) \in Logs
         /\ \A n \in Nat : \A c \in WriteLog(p)[n] : c[2] \in Scanned(c[1]) /\ Page(c[2]) \in Pages
<1> SUFFICES ASSUME NEW n \in Nat, n > 0, IsRead(OpOf(p, n)) \/ IsWrite(OpOf(p, n))
             PROVE  /\ Reaches(p, n) \subseteq Cells
                    /\ \A c \in Reaches(p, n) : c[2] \in Scanned(c[1]) /\ Page(c[2]) \in Pages
  BY DEF ReadLog, WriteLog, Logs
<1> SUFFICES ASSUME OpOf(p, n).at < Length
             PROVE  /\ CellAt(p, n) \in Cells
                    /\ CellAt(p, n)[2] \in Scanned(CellAt(p, n)[1])
                    /\ Page(CellAt(p, n)[2]) \in Pages
  BY DEF Reaches
<1> DEFINE a == OpOf(p, n).at
           t == IF a >= BankBase /\ a <= BankEnd THEN SelAt(p, n - 1) ELSE 0
<1>1. a \in Addrs
  <2>1. OpOf(p, n).kind \in {"READ", "WRITE"} \cup BiosKinds
    BY DEF IsRead, IsWrite, BiosKinds
  <2> QED BY <2>1, OpType
<1>2. CellAt(p, n) = <<t, a>>
  BY DEF CellAt
<1>3. t \in 0..Tapes - 1
  <2>1. n - 1 \in Nat /\ Tapes \in Nat /\ Tapes > 0
    BY TapeAssumption
  <2> QED BY <2>1, SelType
<1>4. a \in Nat /\ a < Length
  BY <1>1, TapeAssumption DEF Addrs
<1> HIDE DEF a
<1>5. a \in Scanned(t)
  BY <1>4, TapeAssumption DEF Scanned
<1>6. Page(a) \in Pages
  <2>1. PageSize \in Nat \ {0} /\ Backing - 1 \in Nat /\ a <= Backing - 1
    BY <1>1, <1>4, TapeAssumption DEF Addrs
  <2>2. a \div PageSize \in Nat /\ (Backing - 1) \div PageSize \in Nat
        /\ a \div PageSize <= (Backing - 1) \div PageSize
    BY <1>4, <2>1, Quotients
  <2> QED BY <2>2 DEF Page, Pages
<1> HIDE DEF t
<1>7. <<t, a>> \in Cells
  BY <1>1, <1>3 DEF Cells
<1> QED BY <1>2, <1>5, <1>6, <1>7

LEMMA HistNext ==
  ASSUME NEW log \in Logs, NEW d \in Nat
  PROVE  Hist(log, d + 1) = Noted(Hist(log, d), log[d + 1], d + 1)
<1>1. ASSUME NEW c \in Cells
      PROVE  {n \in 1..d + 1 : c \in log[n]}
             = {n \in 1..d : c \in log[n]} \cup IF c \in log[d + 1] THEN {d + 1} ELSE {}
  <2>1. 1..d + 1 = (1..d) \cup {d + 1}
    OBVIOUS
  <2> QED BY <2>1
<1> QED BY <1>1 DEF Hist, Noted

LEMMA HistType ==
  ASSUME NEW log, NEW d \in Nat, NEW e \in Nat, d <= e
  PROVE  Hist(log, d) \in [Cells -> SUBSET (1..e)]
BY DEF Hist

LEMMA HistNone ==
  ASSUME NEW log
  PROVE  Hist(log, 0) = [c \in Cells |-> {}]
BY DEF Hist

(***************************************************************************)
(* mem.c                                                                   *)
(***************************************************************************)
Marked(age, cells, step) == [c \in Cells |-> IF c \in cells THEN step ELSE age[c]]

\* mem_read and mem_write at an address of the tape, and a selection.
LEMMA ReadEffect ==
  ASSUME NEW m \in Memory, NEW a \in Addrs, NEW cell \in Cells,
         cell = <<mem_route(m, a), a>>, a < Length
  PROVE  LET q == mem_read(m, a)
         IN  /\ q \in Memory /\ q.step = m.step /\ q.sel = m.sel /\ q.fault = m.fault
             /\ q.wage = m.wage /\ q.written = m.written
             /\ q.rage = Marked(m.rage, {cell}, m.step)
<1> DEFINE q == [m EXCEPT !.rage[cell] = m.step]
<1>1. ~(a >= Length)
  <2>1. a \in Nat /\ Length \in Nat
    BY TapeAssumption DEF Addrs
  <2> QED BY <2>1
<1>2. mem_read(m, a) = q
  BY <1>1 DEF mem_read
<1>3. m.rage \in [Cells -> 0..StampMod - 1] /\ m.step \in 0..StampMod - 1
  BY DEF Memory
<1>4. [m.rage EXCEPT ![cell] = m.step] = Marked(m.rage, {cell}, m.step)
  BY <1>3 DEF Marked
<1>5. Marked(m.rage, {cell}, m.step) \in [Cells -> 0..StampMod - 1]
  BY <1>3 DEF Marked
<1>6. q = [m EXCEPT !.rage = Marked(m.rage, {cell}, m.step)]
  BY <1>4
<1> HIDE DEF q
<1>7. /\ q \in Memory /\ q.step = m.step /\ q.sel = m.sel /\ q.fault = m.fault
      /\ q.wage = m.wage /\ q.written = m.written
      /\ q.rage = Marked(m.rage, {cell}, m.step)
  BY <1>5, <1>6 DEF Memory
<1> QED BY <1>2, <1>7

LEMMA WriteEffect ==
  ASSUME NEW m \in Memory, NEW a \in Addrs, NEW cell \in Cells,
         cell = <<mem_route(m, a), a>>, a < Length
  PROVE  LET q == mem_write(m, a)
         IN  /\ q \in Memory /\ q.step = m.step /\ q.sel = m.sel /\ q.fault = m.fault
             /\ q.rage = m.rage /\ q.wage = Marked(m.wage, {cell}, m.step)
             /\ q.written = IF m.wage[cell] = 0 /\ m.step # 0 THEN m.written + 1 ELSE m.written
<1> DEFINE n == IF m.wage[cell] = 0 /\ m.step # 0 THEN m.written + 1 ELSE m.written
           q == [m EXCEPT !.wage[cell] = m.step, !.written = n]
<1>1. ~(a >= Length)
  <2>1. a \in Nat /\ Length \in Nat
    BY TapeAssumption DEF Addrs
  <2> QED BY <2>1
<1>2. mem_write(m, a) = q
  BY <1>1 DEF mem_write
<1>3. m.wage \in [Cells -> 0..StampMod - 1] /\ m.step \in 0..StampMod - 1 /\ n \in Nat
  BY DEF Memory
<1>4. [m.wage EXCEPT ![cell] = m.step] = Marked(m.wage, {cell}, m.step)
  BY <1>3 DEF Marked
<1>5. Marked(m.wage, {cell}, m.step) \in [Cells -> 0..StampMod - 1]
  BY <1>3 DEF Marked
<1> HIDE DEF n
<1>6. q = [m EXCEPT !.wage = Marked(m.wage, {cell}, m.step), !.written = n]
  BY <1>4
<1> HIDE DEF q
<1>7. /\ q \in Memory /\ q.step = m.step /\ q.sel = m.sel /\ q.fault = m.fault
      /\ q.rage = m.rage /\ q.written = n
      /\ q.wage = Marked(m.wage, {cell}, m.step)
  BY <1>3, <1>5, <1>6 DEF Memory
<1> QED BY <1>2, <1>7 DEF n

LEMMA FaultEffect ==
  ASSUME NEW m \in Memory, m.fault = "NONE", NEW reason \in {"TAPE_FAULT", "BAD_TAPE"}
  PROVE  LET q == mem_raise_fault(m, reason)
         IN  /\ q \in Memory /\ q.step = m.step /\ q.sel = m.sel /\ q.fault # "NONE"
             /\ q.rage = m.rage /\ q.wage = m.wage /\ q.written = m.written
BY DEF mem_raise_fault, Memory

\* Setting the stamp, clearing the fault.
LEMMA StampEffect ==
  ASSUME NEW m \in Memory, NEW n \in Nat
  PROVE  LET q == mem_set_step(m, n)
         IN  /\ q \in Memory /\ q.step = n % StampMod /\ (n < StampMod => q.step = n)
             /\ q.sel = m.sel /\ q.fault = m.fault
             /\ q.rage = m.rage /\ q.wage = m.wage /\ q.written = m.written
<1> DEFINE st == n % StampMod
<1>1. st \in 0..StampMod - 1 /\ (n < StampMod => st = n)
  BY Modulo, TapeAssumption
<1> HIDE DEF st
<1>2. mem_set_step(m, n) = [m EXCEPT !.step = st]
  BY DEF mem_set_step, Stamp, st
<1> QED BY <1>1, <1>2 DEF Memory, st

LEMMA ClearEffect ==
  ASSUME NEW m \in Memory
  PROVE  LET q == mem_clear_fault(m)
         IN  /\ q \in Memory /\ q.step = m.step /\ q.sel = m.sel /\ q.fault = "NONE"
             /\ q.rage = m.rage /\ q.wage = m.wage /\ q.written = m.written
BY DEF mem_clear_fault, Memory

LEMMA MarkNone ==
  ASSUME NEW age \in [Cells -> 0..StampMod - 1], NEW step
  PROVE  Marked(age, {}, step) = age
BY DEF Marked

\* The number of cells with an age, and the count mem_write keeps of them.
Count(age) == Cardinality({c \in Cells : age[c] # 0})
Counted(old, age, cells, step) ==
  IF step # 0 /\ \E c \in cells : age[c] = 0 THEN old + 1 ELSE old

\* What operation n of the program does, on a tape where the tape it finds is selected.
Effect(p, n, m, q) ==
  /\ q \in Memory /\ q.step = m.step /\ q.sel = SelAt(p, n)
  /\ q.fault # "NONE" <=> Faults(p, n)
  /\ q.wage = Marked(m.wage, WriteLog(p)[n], m.step)
  /\ q.rage = Marked(m.rage, ReadLog(p)[n], m.step)
  /\ q.written = Counted(m.written, m.wage, WriteLog(p)[n], m.step)

LEMMA PerformedEffect ==
  ASSUME NEW p \in Programs, NEW n \in Nat, n > 0,
         NEW m \in Memory, m.fault = "NONE", m.sel = SelAt(p, n - 1)
  PROVE  /\ Effect(p, n, m, Performed(m, OpOf(p, n)))
         /\ AccessOf(m, OpOf(p, n)) = [read |-> ReadLog(p)[n], written |-> WriteLog(p)[n]]
<1> DEFINE op == OpOf(p, n)
           a == op.at
           cell == CellAt(p, n)
           q == Performed(m, op)
<1>1. /\ a \in Nat /\ op.kind \in {"READ", "WRITE", "SELECT", "HLT"} \cup BiosKinds
      /\ op.kind \in {"READ", "WRITE"} \cup BiosKinds => a \in Addrs
  BY OpType
<1>2. Length \in Nat /\ Tapes \in Nat
  BY TapeAssumption
<1>3. m.wage \in [Cells -> 0..StampMod - 1] /\ m.rage \in [Cells -> 0..StampMod - 1]
  BY DEF Memory
<1>4. cell = <<mem_route(m, a), a>>
  BY DEF CellAt, mem_route
<1>5. /\ ReadLog(p)[n] = (IF IsRead(op) THEN Reaches(p, n) ELSE {})
      /\ WriteLog(p)[n] = (IF IsWrite(op) THEN Reaches(p, n) ELSE {})
  BY DEF ReadLog, WriteLog
<1>6. Reaches(p, n) = (IF a < Length THEN {cell} ELSE {})
  BY DEF Reaches
<1>7. Touched(m, a) = Reaches(p, n)
  BY <1>4, <1>6 DEF Touched
<1>8. AccessOf(m, op) = [read |-> ReadLog(p)[n], written |-> WriteLog(p)[n]]
  BY <1>5, <1>7 DEF AccessOf
<1>9. n - 1 \in Nat /\ (n - 1) + 1 = n
  OBVIOUS
<1>10. SelAt(p, n) = IF Selects(p, n) THEN a ELSE SelAt(p, n - 1)
  BY <1>9, SelNext
<1>11. IsRead(op) \/ IsWrite(op) => a \in Addrs /\ op.kind # "SELECT" /\ op.kind # "HLT"
  BY <1>1 DEF IsRead, IsWrite, BiosKinds
<1>12. IsRead(op) \/ IsWrite(op) =>
         /\ SelAt(p, n) = SelAt(p, n - 1)
         /\ Faults(p, n) <=> a >= Length
  BY <1>2, <1>1, <1>10, <1>11 DEF Selects, Faults, IsRead, IsWrite, InBounds, BiosKinds
<1>13. ASSUME a < Length, IsRead(op) \/ IsWrite(op) PROVE cell \in Cells
  <2>1. ReadLog(p) \in Logs /\ WriteLog(p) \in Logs
    BY LogType
  <2> QED BY <1>5, <1>6, <1>13, <2>1 DEF Logs
<1>14. Effect(p, n, m, q)
  <2>1. CASE IsRead(op) /\ a < Length
    <3>1. ~IsWrite(op) /\ q = mem_read(m, a)
      BY <2>1 DEF IsRead, IsWrite, Performed
    <3>2. /\ q \in Memory /\ q.step = m.step /\ q.sel = m.sel /\ q.fault = m.fault
          /\ q.wage = m.wage /\ q.written = m.written
          /\ q.rage = Marked(m.rage, {cell}, m.step)
      <4>1. a \in Addrs /\ cell \in Cells /\ a < Length /\ cell = <<mem_route(m, a), a>>
        BY <1>4, <1>11, <1>13, <2>1
      <4> HIDE DEF a, cell
      <4> QED BY <3>1, <4>1, ReadEffect
    <3>3. ReadLog(p)[n] = {cell} /\ WriteLog(p)[n] = {}
      BY <1>5, <1>6, <2>1, <3>1
    <3>4. Marked(m.wage, {}, m.step) = m.wage
      BY <1>3, MarkNone
    <3>5. ~Faults(p, n) /\ q.sel = SelAt(p, n)
      BY <1>1, <1>2, <1>12, <2>1, <3>2
    <3> QED BY <3>2, <3>3, <3>4, <3>5 DEF Effect, Counted
  <2>2. CASE IsWrite(op) /\ a < Length
    <3>1. ~IsRead(op) /\ q = mem_write(m, a)
      BY <2>2 DEF IsRead, IsWrite, Performed
    <3>2. /\ q \in Memory /\ q.step = m.step /\ q.sel = m.sel /\ q.fault = m.fault
          /\ q.rage = m.rage /\ q.wage = Marked(m.wage, {cell}, m.step)
          /\ q.written = IF m.wage[cell] = 0 /\ m.step # 0 THEN m.written + 1 ELSE m.written
      <4>1. a \in Addrs /\ cell \in Cells /\ a < Length /\ cell = <<mem_route(m, a), a>>
        BY <1>4, <1>11, <1>13, <2>2
      <4> HIDE DEF a, cell
      <4> QED BY <3>1, <4>1, WriteEffect
    <3>3. WriteLog(p)[n] = {cell} /\ ReadLog(p)[n] = {}
      BY <1>5, <1>6, <2>2, <3>1
    <3>4. Marked(m.rage, {}, m.step) = m.rage
      BY <1>3, MarkNone
    <3>5. ~Faults(p, n) /\ q.sel = SelAt(p, n)
      BY <1>1, <1>2, <1>12, <2>2, <3>2
    <3> QED BY <3>2, <3>3, <3>4, <3>5 DEF Effect, Counted
  <2>3. ASSUME a >= Length, IsRead(op) \/ IsWrite(op) PROVE Effect(p, n, m, q)
    <3>1. q = mem_raise_fault(m, "TAPE_FAULT")
      BY <2>3 DEF Performed, mem_read, mem_write, IsRead, IsWrite
    <3>2. /\ q \in Memory /\ q.step = m.step /\ q.sel = m.sel /\ q.fault # "NONE"
          /\ q.rage = m.rage /\ q.wage = m.wage /\ q.written = m.written
      BY <3>1, FaultEffect
    <3>3. WriteLog(p)[n] = {} /\ ReadLog(p)[n] = {}
      BY <1>1, <1>2, <1>5, <1>6, <2>3
    <3>4. Marked(m.rage, {}, m.step) = m.rage /\ Marked(m.wage, {}, m.step) = m.wage
      BY <1>3, MarkNone
    <3>5. Faults(p, n) /\ q.sel = SelAt(p, n)
      BY <1>12, <2>3, <3>2
    <3> QED BY <3>2, <3>3, <3>4, <3>5 DEF Effect, Counted
  <2>4. ASSUME ~IsRead(op), ~IsWrite(op) PROVE Effect(p, n, m, q)
    <3>1. WriteLog(p)[n] = {} /\ ReadLog(p)[n] = {}
      BY <1>5, <2>4
    <3>2. Marked(m.rage, {}, m.step) = m.rage /\ Marked(m.wage, {}, m.step) = m.wage
      BY <1>3, MarkNone
    <3>3. op.kind \notin {"READ", "WRITE"}
      BY <2>4 DEF IsRead, IsWrite, InBounds
    <3>4. CASE op.kind = "SELECT" /\ a >= Tapes
      <4>1. q = mem_raise_fault(m, "BAD_TAPE")
        BY <2>4, <3>4 DEF Performed, mem_select_tape
      <4>2. /\ q \in Memory /\ q.step = m.step /\ q.sel = m.sel /\ q.fault # "NONE"
            /\ q.rage = m.rage /\ q.wage = m.wage /\ q.written = m.written
        BY <4>1, FaultEffect
      <4>3. Faults(p, n) /\ q.sel = SelAt(p, n)
        BY <1>1, <1>2, <1>10, <3>4, <4>2 DEF Faults, Selects
      <4> QED BY <3>1, <3>2, <4>2, <4>3 DEF Effect, Counted
    <3>5. CASE op.kind = "SELECT" /\ a < Tapes
      <4>1. q = [m EXCEPT !.sel = a]
        BY <1>1, <1>2, <2>4, <3>5 DEF Performed, mem_select_tape
      <4>2. a \in 0..Tapes - 1
        BY <1>1, <1>2, <3>5
      <4> HIDE DEF q, a
      <4>3. /\ q \in Memory /\ q.step = m.step /\ q.sel = a /\ q.fault = "NONE"
            /\ q.rage = m.rage /\ q.wage = m.wage /\ q.written = m.written
        BY <4>1, <4>2 DEF Memory
      <4>4. ~Faults(p, n) /\ q.sel = SelAt(p, n)
        BY <1>1, <1>2, <1>10, <3>5, <4>3 DEF Faults, Selects, a
      <4> QED BY <3>1, <3>2, <4>3, <4>4 DEF Effect, Counted
    <3>6. CASE op.kind # "SELECT"
      <4>1. q = m
        BY <2>4, <3>6 DEF Performed
      <4>2. ~Faults(p, n) /\ m.sel = SelAt(p, n)
        BY <1>10, <3>3, <3>6 DEF Faults, Selects
      <4> QED BY <3>1, <3>2, <4>1, <4>2 DEF Effect, Counted
    <3> QED BY <1>1, <1>2, <3>4, <3>5, <3>6
  <2>5. a < Length \/ a >= Length
    BY <1>1, <1>2
  <2> QED BY <2>1, <2>2, <2>3, <2>4, <2>5
<1> QED BY <1>8, <1>14

LEMMA CellsFinite ==
  ASSUME NEW S, S \subseteq Cells
  PROVE  IsFiniteSet(S) /\ Cardinality(S) \in Nat
<1>1. IsFiniteSet(0..Tapes - 1) /\ IsFiniteSet(Addrs)
  <2>1. 0 \in Int /\ Tapes - 1 \in Int /\ Backing - 1 \in Int
    BY TapeAssumption
  <2> QED BY <2>1, FS_Interval DEF Addrs
<1>2. IsFiniteSet(Cells)
  BY <1>1, FS_Product DEF Cells
<1>3. IsFiniteSet(S)
  BY <1>2, FS_Subset
<1> QED BY <1>3, FS_CardinalityType

\* mem_write keeps the count.
LEMMA CountNext ==
  ASSUME NEW age \in [Cells -> 0..StampMod - 1], NEW cells \in SUBSET Cells, NEW step \in Nat,
         step > 0, \A c, d \in cells : c = d
  PROVE  Count(Marked(age, cells, step)) = Counted(Count(age), age, cells, step)
<1> DEFINE old == {c \in Cells : age[c] # 0}
           new == {c \in Cells : Marked(age, cells, step)[c] # 0}
<1>1. new = old \cup cells
  BY DEF Marked
<1>2. IsFiniteSet(old) /\ Cardinality(old) \in Nat
  BY CellsFinite
<1>3. CASE \E c \in cells : age[c] = 0
  <2>1. PICK c \in cells : age[c] = 0
    BY <1>3
  <2>2. cells = {c} /\ c \notin old
    BY <2>1
  <2>3. Cardinality(old \cup {c}) = Cardinality(old) + 1
    BY <1>2, <2>2, FS_AddElement
  <2> QED BY <1>1, <1>3, <2>2, <2>3 DEF Count, Counted
<1>4. CASE ~ \E c \in cells : age[c] = 0
  <2>1. new = old
    BY <1>1, <1>4
  <2> QED BY <1>4, <2>1 DEF Count, Counted
<1> QED BY <1>3, <1>4

LEMMA RestoredEffect ==
  ASSUME NEW slot, NEW s \in Nat, slot.k.steps = s, slot.sel \in 0..Tapes - 1, mem \in Memory
  PROVE  /\ Restored(slot) \in Memory /\ Restored(slot).fault = "NONE"
         /\ Restored(slot).sel = slot.sel
         /\ Restored(slot).step = (s + 1) % StampMod
         /\ s + 1 < StampMod => Restored(slot).step = s + 1
         /\ Restored(slot).wage = Forgotten(mem.wage, s)
         /\ Restored(slot).rage = Forgotten(mem.rage, s)
         /\ Restored(slot).written = Count(Forgotten(mem.wage, s))
<1> DEFINE wage == Forgotten(mem.wage, s)
           rage == Forgotten(mem.rage, s)
           count == Count(wage)
           m1 == [mem EXCEPT !.wage = wage, !.rage = rage, !.written = count]
           m2 == [m1 EXCEPT !.sel = slot.sel]
           m3 == mem_clear_fault(m2)
<1>1. wage \in [Cells -> 0..StampMod - 1] /\ rage \in [Cells -> 0..StampMod - 1]
  <2>1. 0 \in 0..StampMod - 1
    BY TapeAssumption
  <2> QED BY <2>1 DEF Forgotten, Memory
<1>2. count \in Nat
  BY CellsFinite DEF Count
<1>3. m1 = mem_forget_after(mem, slot.k.steps)
  BY DEF mem_forget_after, Count
<1>4. Restored(slot) = mem_set_step(m3, s + 1)
  BY <1>3 DEF Restored
<1> HIDE DEF wage, rage, count, m1
<1>5. m1 \in Memory /\ m1.wage = wage /\ m1.rage = rage /\ m1.written = count
  BY <1>1, <1>2 DEF m1, Memory
<1> HIDE DEF m2
<1>6. m2 \in Memory /\ m2.wage = wage /\ m2.rage = rage /\ m2.written = count /\ m2.sel = slot.sel
  BY <1>5 DEF m2, Memory
<1> HIDE DEF m3
<1>7. /\ m3 \in Memory /\ m3.wage = wage /\ m3.rage = rage /\ m3.written = count
      /\ m3.sel = slot.sel /\ m3.fault = "NONE"
  BY <1>6, ClearEffect DEF m3
<1> DEFINE m4 == mem_set_step(m3, s + 1)
<1>8. /\ m4 \in Memory /\ m4.step = (s + 1) % StampMod /\ (s + 1 < StampMod => m4.step = s + 1)
      /\ m4.sel = m3.sel /\ m4.fault = m3.fault
      /\ m4.rage = m3.rage /\ m4.wage = m3.wage /\ m4.written = m3.written
  <2>1. s + 1 \in Nat
    OBVIOUS
  <2> QED BY <1>7, <2>1, StampEffect
<1> HIDE DEF m4
<1>9. Restored(slot) = m4
  BY <1>4 DEF m4
<1> QED BY <1>7, <1>8, <1>9 DEF wage, rage, count

(***************************************************************************)
(* trace.c                                                                 *)
(***************************************************************************)
Happenings == {"FETCH", "READ", "WRITE", "SYSCALL", "TAPE", "STATE"}

\* A push while no replay runs, or while the trace is off, keeps the ring honest.
LEMMA PushHonest ==
  ASSUME NEW t, Honest(t), Seeking => ~t.on, NEW step \in Nat, NEW what \in Happenings
  PROVE  LET q == trace_push(t, step, what)
         IN  Honest(q) /\ q.on = t.on /\ q.wasOn = t.wasOn
<1> DEFINE event == [step |-> step, what |-> what, nth |-> t.head + 1, live |-> ~Seeking]
           place == t.head % TraceCap
           ring == [t.ring EXCEPT ![place] = event]
           head == t.head + 1
           count == IF t.count < TraceCap THEN t.count + 1 ELSE t.count
           q == [t EXCEPT !.ring[place] = event, !.head = head, !.count = count]
<1> SUFFICES ASSUME t.on PROVE Honest(q) /\ q.on = t.on /\ q.wasOn = t.wasOn
  BY DEF trace_push
<1>1. /\ t.ring \in [0..TraceCap - 1 -> Event] /\ t.head \in Nat /\ t.count \in 0..TraceCap
      /\ t.on \in BOOLEAN /\ t.wasOn \in BOOLEAN /\ t.count <= t.head /\ TraceCap \in Nat \ {0}
  BY TapeAssumption DEF Honest, Trace
<1>2. event \in Event /\ event.nth = t.head + 1 /\ event.live
  <2> DEFINE lived == [step |-> step, what |-> what, nth |-> t.head + 1, live |-> TRUE]
  <2>1. Seeking = FALSE
    BY DEF Seeking
  <2>2. event = lived
    BY <2>1
  <2>3. lived \in Event
    BY <1>1 DEF Event, Happenings
  <2> QED BY <2>2, <2>3
<1>3. place \in 0..TraceCap - 1
  BY <1>1, Modulo
<1> HIDE DEF event, place
<1>4. ring \in [0..TraceCap - 1 -> Event] /\ ring[place] = event
      /\ \A j \in 0..TraceCap - 1 : j # place => ring[j] = t.ring[j]
  BY <1>1, <1>2, <1>3
<1>5. head \in Nat /\ count \in 0..TraceCap /\ count <= t.count + 1 /\ count <= head
  BY <1>1
<1>6. q = [t EXCEPT !.ring = ring, !.head = head, !.count = count]
  OBVIOUS
<1> HIDE DEF ring, count, q
<1>7. /\ q \in Trace /\ q.ring = ring /\ q.head = head /\ q.count = count
      /\ q.on = t.on /\ q.wasOn = t.wasOn
  BY <1>1, <1>4, <1>5, <1>6 DEF Honest, Trace
<1>8. ASSUME NEW i \in 1..count
      PROVE  /\ ring[(head - i) % TraceCap].nth = head - i + 1
             /\ ring[(head - i) % TraceCap].live
  <2>1. CASE i = 1
    <3>1. head - i = t.head /\ head - i + 1 = t.head + 1
      BY <1>1, <2>1
    <3> QED BY <1>2, <1>4, <3>1 DEF place
  <2>2. CASE i # 1
    <3>1. i - 1 \in 1..t.count /\ i - 1 \in Nat
      BY <1>1, <1>5, <2>2
    <3>2. head - i \in Nat /\ head - i = t.head - (i - 1)
      BY <1>1, <1>5, <3>1
    <3>3. head - i < t.head /\ t.head < (head - i) + TraceCap
      BY <1>1, <1>5, <2>2
    <3>4. (head - i) % TraceCap # place
      BY <1>1, <3>2, <3>3, RingPlaces DEF place
    <3>5. (head - i) % TraceCap \in 0..TraceCap - 1
      BY <1>1, <3>2, Modulo
    <3>6. ring[(head - i) % TraceCap] = t.ring[(t.head - (i - 1)) % TraceCap]
      BY <1>4, <3>2, <3>4, <3>5
    <3>7. /\ t.ring[(t.head - (i - 1)) % TraceCap].nth = t.head - (i - 1) + 1
          /\ t.ring[(t.head - (i - 1)) % TraceCap].live
      BY <3>1 DEF Honest
    <3>8. t.head - (i - 1) + 1 = head - i + 1
      BY <1>1, <3>1
    <3> QED BY <3>6, <3>7, <3>8
  <2> QED BY <2>1, <2>2
<1> QED BY <1>5, <1>7, <1>8 DEF Honest

LEMMA TracedHonest ==
  ASSUME NEW t, Honest(t), Seeking => ~t.on, NEW m \in Memory, NEW op
  PROVE  LET q == Traced(t, m, op)
         IN  Honest(q) /\ q.on = t.on /\ q.wasOn = t.wasOn
<1> DEFINE what == CASE IsRead(op) -> {"READ"} [] IsWrite(op) -> {"WRITE"}
                     [] op.kind = "SELECT" -> {"TAPE"} [] OTHER -> {}
           w == CHOOSE w \in what : TRUE
<1>1. m.step \in Nat
  BY TapeAssumption DEF Memory
<1>2. what \subseteq Happenings
  BY DEF Happenings
<1>3. what # {} => w \in Happenings
  BY <1>2
<1> HIDE DEF what
<1>4. what # {} => LET q == trace_push(t, m.step, w)
                   IN  Honest(q) /\ q.on = t.on /\ q.wasOn = t.wasOn
  <2> HIDE DEF w
  <2> QED BY <1>1, <1>3, PushHonest
<1>5. Traced(t, m, op) = IF what = {} \/ Performed(m, op).fault # "NONE" THEN t
                         ELSE trace_push(t, m.step, w)
  BY DEF Traced, what
<1> QED BY <1>4, <1>5

\* Switching the trace on or off touches nothing else.
LEMMA LeverHonest ==
  ASSUME NEW t, Honest(t), NEW on \in BOOLEAN, NEW was \in BOOLEAN
  PROVE  /\ Honest(trace_enable(t, on)) /\ trace_enable(t, on).on = on
         /\ trace_enable(t, on).wasOn = t.wasOn
         /\ LET q == [trace_enable(t, on) EXCEPT !.wasOn = was] IN Honest(q) /\ q.on = on
<1> DEFINE a == trace_enable(t, on)
           b == [a EXCEPT !.wasOn = was]
<1>1. a \in Trace /\ a.ring = t.ring /\ a.head = t.head /\ a.count = t.count
      /\ a.on = on /\ a.wasOn = t.wasOn
  BY DEF trace_enable, Honest, Trace
<1>2. Honest(a)
  BY <1>1 DEF Honest
<1> HIDE DEF a
<1>3. b \in Trace /\ b.ring = a.ring /\ b.head = a.head /\ b.count = a.count /\ b.on = a.on
  BY <1>1 DEF Trace
<1> HIDE DEF b
<1>4. Honest(b)
  BY <1>2, <1>3 DEF Honest
<1> QED BY <1>1, <1>2, <1>3, <1>4 DEF a, b

(***************************************************************************)
(* Snapshots                                                               *)
(***************************************************************************)

\* The number of the last snapshot says nothing of where a machine stands.
LEMMA StandsSnap ==
  ASSUME NEW p, NEW kk, NEW sel, NEW tr, Stands(p, kk, sel, tr), NEW last \in Nat
  PROVE  LET q == [kk EXCEPT !.lastSnap = last]
         IN  Stands(p, q, sel, tr) /\ q.steps = kk.steps /\ q.state = kk.state /\ q.lastSnap = last
<1> DEFINE q == [kk EXCEPT !.lastSnap = last]
<1>1. kk \in Kernels
  BY DEF Stands
<1>2. q \in Kernels /\ q.steps = kk.steps /\ q.state = kk.state /\ q.lastSnap = last
  BY <1>1 DEF Kernels
<1> HIDE DEF q
<1>3. Done(q) = Done(kk) /\ Parked(q) = Parked(kk)
  BY <1>2 DEF Done, Parked
<1>4. Stands(p, q, sel, tr)
  BY <1>2, <1>3 DEF Stands
<1> QED BY <1>2, <1>4 DEF q

LEMMA RingLater ==
  ASSUME NEW p, NEW sn, NEW r \in Nat, NEW r2 \in Nat, r <= r2, Ring(p, sn, r)
  PROVE  Ring(p, sn, r2)
BY DEF Ring

LEMMA RingMember ==
  ASSUME NEW p, NEW sn, NEW r \in Nat, Ring(p, sn, r), NEW s \in DOMAIN sn
  PROVE  /\ s \in Nat /\ s <= r /\ Multiple(s) /\ sn[s].k.steps = s /\ sn[s].k.lastSnap = s
         /\ Stands(p, sn[s].k, sn[s].sel, sn[s].truth)
BY DEF Ring

\* What taking the snapshots that are due leaves.
SavedRing(last) ==
  /\ Ring(program, snaps', reached) /\ last \in DOMAIN snaps'
  /\ last \in Nat /\ last <= k.steps /\ k.lastSnap <= last
  /\ Interval # 0 => k.steps - last < Interval
  /\ DOMAIN snaps \subseteq DOMAIN snaps' /\ DOMAIN snaps' \subseteq DOMAIN snaps \cup {k.steps}
  /\ \A s \in DOMAIN snaps : ~(SnapDue /\ s = k.steps) => snaps'[s] = snaps[s]
  /\ SnapDue => k.steps \in DOMAIN snaps' /\ snaps'[k.steps].k.state = k.state
  /\ ~SnapDue => snaps' = snaps

LEMMA SaveKeeps ==
  ASSUME Typed, OnTimeline, Snapshots, k_maybe_snapshot
  PROVE  SavedRing(IF SnapDue THEN k.steps ELSE k.lastSnap)
<1>1. k \in Kernels /\ Stands(program, k, mem.sel, truth) /\ k.steps \in Nat /\ k.lastSnap \in Nat
      /\ Interval \in Nat /\ reached \in Nat /\ k.steps <= reached
  BY TapeAssumption DEF OnTimeline, Stands, Kernels, Typed
<1>2. /\ Ring(program, snaps, reached) /\ k.lastSnap \in DOMAIN snaps
      /\ k.lastSnap <= k.steps /\ (Interval # 0 => k.steps - k.lastSnap <= Interval)
  BY DEF Snapshots
<1>3. CASE ~SnapDue
  <2>1. snaps' = snaps
    BY <1>3 DEF k_maybe_snapshot
  <2>2. Interval # 0 => k.steps - k.lastSnap < Interval
    BY <1>1, <1>3 DEF SnapDue
  <2> QED BY <1>1, <1>2, <1>3, <2>1, <2>2 DEF SavedRing
<1>4. CASE SnapDue
  <2> DEFINE kk == [k EXCEPT !.lastSnap = k.steps]
             new == [k |-> kk, sel |-> mem.sel, truth |-> truth]
  <2>1. /\ Stands(program, kk, mem.sel, truth)
        /\ kk.steps = k.steps /\ kk.state = k.state /\ kk.lastSnap = k.steps
    BY <1>1, StandsSnap
  <2> HIDE DEF kk
  <2>2. snaps' = [s \in DOMAIN snaps \cup {k.steps} |-> IF s = k.steps THEN new ELSE snaps[s]]
    BY <1>4, <2>1 DEF k_maybe_snapshot, snapshot_save, Snapshot, kk
  <2>3. Interval # 0 /\ k.steps = k.lastSnap + Interval
    BY <1>1, <1>2, <1>4 DEF SnapDue
  <2>4. Multiple(k.steps)
    <3>1. Multiple(k.lastSnap)
      BY <1>1, <1>2, RingMember
    <3> QED BY <1>1, <2>3, <3>1, MultiplesNext
  <2> HIDE DEF new
  <2>5. /\ DOMAIN snaps' = DOMAIN snaps \cup {k.steps} /\ snaps'[k.steps] = new
        /\ \A s \in DOMAIN snaps : s # k.steps => snaps'[s] = snaps[s]
    BY <2>2
  <2>6. new.k = kk /\ new.sel = mem.sel /\ new.truth = truth
    BY DEF new
  <2>7. DOMAIN snaps' \subseteq 0..reached /\ 0 \in DOMAIN snaps'
    BY <1>1, <1>2, <2>5 DEF Ring
  <2>8. ASSUME NEW s \in DOMAIN snaps'
        PROVE  /\ Multiple(s) /\ snaps'[s].k.steps = s /\ snaps'[s].k.lastSnap = s
               /\ Stands(program, snaps'[s].k, snaps'[s].sel, snaps'[s].truth)
    <3>1. CASE s = k.steps
      BY <2>1, <2>4, <2>5, <2>6, <3>1
    <3>2. CASE s # k.steps
      <4>1. s \in DOMAIN snaps /\ snaps'[s] = snaps[s]
        BY <2>5, <3>2
      <4> QED BY <1>1, <1>2, <4>1, RingMember
    <3> QED BY <3>1, <3>2
  <2>9. Ring(program, snaps', reached)
    BY <2>7, <2>8 DEF Ring
  <2>10. snaps'[k.steps].k.state = k.state
    BY <2>1, <2>5, <2>6
  <2>11. Interval # 0 => k.steps - k.steps < Interval
    BY <1>1
  <2> QED BY <1>1, <1>2, <1>4, <2>5, <2>9, <2>10, <2>11 DEF SavedRing
<1> QED BY <1>3, <1>4

(***************************************************************************)
(* What the actions that do something amount to                            *)
(***************************************************************************)

\* Where the machine stands.
LEMMA Standing ==
  ASSUME Typed, OnTimeline
  PROVE  /\ program \in Programs /\ mem \in Memory /\ mem.fault = "NONE"
         /\ k \in Kernels /\ k.steps \in Nat /\ k.lastSnap \in Nat
         /\ k.state \in {"RUN", "SYSCALL", "IDLE", "HALT"}
         /\ mem.sel = SelAt(program, k.steps) /\ truth = History(program, Done(k))
         /\ Parked(k) => k.steps > 0 /\ Calls(program, k.steps)
         /\ \A n \in 1..k.steps : Halts(program, n) => n = k.steps /\ k.state = "HALT"
         /\ reached \in Nat /\ k.steps <= reached
BY DEF Typed, OnTimeline, Stands, Kernels

LEMMA OperationIs ==
  ASSUME NEW n
  PROVE  Operation(n) = OpOf(program, n)
BY DEF Operation, OpOf

Stepped(n) ==
  /\ n = k.steps + 1 /\ n \in Nat
  /\ k' = [state    |-> IF Halts(program, n) THEN "HALT"
                        ELSE IF Calls(program, n) THEN "SYSCALL" ELSE "RUN",
           steps    |-> n,
           lastSnap |-> IF SnapDue THEN k.steps ELSE k.lastSnap]
  /\ mem' \in Memory /\ mem'.fault = "NONE" /\ mem'.sel = SelAt(program, n)
  /\ mem'.step = n % StampMod
  /\ faulted' = IF Faults(program, n) THEN n ELSE faulted
  /\ reached' = IF reached >= n THEN reached ELSE n
  /\ call' \in {Stopping, call - 1}

\* The accesses of operation n are made, with the stamp st.
Accessed(n, st) ==
  /\ mem'.wage = Marked(mem.wage, WriteLog(program)[n], st)
  /\ mem'.rage = Marked(mem.rage, ReadLog(program)[n], st)
  /\ mem'.written = Counted(mem.written, mem.wage, WriteLog(program)[n], st)
  /\ truth' = History(program, n)
  /\ wrote' = wrote \cup {Page(c[2]) : c \in WriteLog(program)[n]}
NotAccessed ==
  /\ mem'.wage = mem.wage /\ mem'.rage = mem.rage /\ mem'.written = mem.written
  /\ truth' = truth /\ wrote' = wrote

LEMMA HistoryNext ==
  ASSUME NEW p \in Programs, NEW d \in Nat
  PROVE  History(p, d + 1) = [w |-> Noted(History(p, d).w, WriteLog(p)[d + 1], d + 1),
                              r |-> Noted(History(p, d).r, ReadLog(p)[d + 1], d + 1)]
<1>1. ReadLog(p) \in Logs /\ WriteLog(p) \in Logs
  BY LogType
<1>2. /\ Hist(WriteLog(p), d + 1) = Noted(Hist(WriteLog(p), d), WriteLog(p)[d + 1], d + 1)
      /\ Hist(ReadLog(p), d + 1) = Noted(Hist(ReadLog(p), d), ReadLog(p)[d + 1], d + 1)
  BY <1>1, HistNext
<1> QED BY <1>2 DEF History

LEMMA NotedNothing ==
  ASSUME NEW log, NEW d, NEW step
  PROVE  Noted(Hist(log, d), {}, step) = Hist(log, d)
BY DEF Noted, Hist

LEMMA InstructionDoes ==
  ASSUME Typed, OnTimeline, Instruction
  PROVE  LET n == k.steps + 1
         IN  /\ Stepped(n) /\ k_maybe_snapshot /\ call \in Nat /\ call > 0 /\ k.state = "RUN"
             /\ IF Calls(program, n) THEN NotAccessed ELSE Accessed(n, n % StampMod)
<1> DEFINE n == k.steps + 1
           op == OpOf(program, n)
           stamped == mem_set_step(mem, n)
           calls == op.kind \in BiosKinds
           q == Performed(stamped, op)
           m == IF calls THEN stamped ELSE q
           halts == m.fault # "NONE" \/ op.kind = "HLT"
           acc == IF calls THEN NoAccess ELSE AccessOf(stamped, op)
<1>1. /\ Running /\ k.state = "RUN" /\ call > 0 /\ k_maybe_snapshot
      /\ reached' = Max({reached, n})
      /\ mem' = IF halts THEN mem_clear_fault(m) ELSE m
      /\ k' = [state    |-> IF halts THEN "HALT" ELSE IF calls THEN "SYSCALL" ELSE "RUN",
               steps    |-> n,
               lastSnap |-> IF SnapDue THEN k.steps ELSE k.lastSnap]
      /\ faulted' = IF m.fault # "NONE" THEN n ELSE faulted
      /\ \E stop \in MayBreak : call' = IF stop \/ halts THEN Stopping ELSE call - 1
      /\ truth' = [w |-> Noted(truth.w, acc.written, n), r |-> Noted(truth.r, acc.read, n)]
      /\ wrote' = wrote \cup {Page(c[2]) : c \in acc.written}
  BY OperationIs DEF Instruction, Remember
<1>2. call \in Nat
  BY <1>1 DEF Typed, Running
<1>3. n \in Nat /\ n > 0 /\ n - 1 = k.steps /\ k.steps + 1 = n
  BY Standing
<1> HIDE DEF n
<1>4. /\ stamped \in Memory /\ stamped.step = n % StampMod /\ stamped.sel = SelAt(program, n - 1)
      /\ stamped.fault = "NONE"
      /\ stamped.rage = mem.rage /\ stamped.wage = mem.wage /\ stamped.written = mem.written
  BY <1>3, Standing, StampEffect
<1>5. /\ Effect(program, n, stamped, q)
      /\ AccessOf(stamped, op) = [read |-> ReadLog(program)[n], written |-> WriteLog(program)[n]]
  <2>1. program \in Programs
    BY Standing
  <2> HIDE DEF stamped
  <2> QED BY <1>3, <1>4, <2>1, PerformedEffect
<1>6. calls => ~Faults(program, n) /\ op.kind # "HLT" /\ SelAt(program, n) = SelAt(program, n - 1)
  <2>1. calls => op.kind \notin {"READ", "WRITE", "SELECT", "HLT"}
    BY DEF BiosKinds
  <2>2. program \in Programs /\ k.steps \in Nat
    BY Standing
  <2>3. SelAt(program, n) = IF Selects(program, n) THEN op.at ELSE SelAt(program, k.steps)
    BY <1>3, <2>2, SelNext
  <2> QED BY <1>3, <2>1, <2>3 DEF Faults, Selects
<1> HIDE DEF stamped, q
<1>7. /\ m \in Memory /\ m.step = n % StampMod /\ m.sel = SelAt(program, n)
      /\ m.fault # "NONE" <=> Faults(program, n)
  BY <1>4, <1>5, <1>6 DEF Effect
<1>8. halts <=> Halts(program, n)
  BY <1>7 DEF Halts
<1>9. /\ mem' \in Memory /\ mem'.fault = "NONE" /\ mem'.sel = m.sel /\ mem'.step = m.step
      /\ mem'.wage = m.wage /\ mem'.rage = m.rage /\ mem'.written = m.written
  <2>1. CASE halts
    <3>1. mem' = mem_clear_fault(m)
      BY <1>1, <2>1
    <3> HIDE DEF m
    <3> QED BY <1>7, <3>1, ClearEffect
  <2>2. CASE ~halts
    BY <1>1, <1>7, <2>2
  <2> QED BY <2>1, <2>2
<1>10. reached' = IF reached >= n THEN reached ELSE n
  BY <1>1, <1>3, Standing, MaxOfTwo
<1>11. call' \in {Stopping, call - 1}
  BY <1>1
<1>12. Stepped(n)
  <2>1. k' = [state    |-> IF Halts(program, n) THEN "HALT"
                           ELSE IF Calls(program, n) THEN "SYSCALL" ELSE "RUN",
              steps    |-> n,
              lastSnap |-> IF SnapDue THEN k.steps ELSE k.lastSnap]
    <3> HIDE DEF halts
    <3> QED BY <1>1, <1>8 DEF Calls
  <2>2. faulted' = IF Faults(program, n) THEN n ELSE faulted
    <3> HIDE DEF m
    <3> QED BY <1>1, <1>7
  <2> HIDE DEF m, halts
  <2> QED BY <1>3, <1>7, <1>9, <1>10, <1>11, <2>1, <2>2 DEF Stepped
<1>13. truth = History(program, k.steps) /\ program \in Programs /\ k.steps \in Nat
  BY <1>1, Standing DEF Done, Parked
<1>14. CASE calls
  <2>1. m = stamped /\ acc = NoAccess
    BY <1>14
  <2>2. acc.written = {} /\ acc.read = {}
    BY <2>1 DEF NoAccess
  <2>3. truth' = [w |-> Noted(truth.w, {}, n), r |-> Noted(truth.r, {}, n)] /\ wrote' = wrote
    <3> HIDE DEF acc
    <3> QED BY <1>1, <2>2
  <2>4. truth' = truth
    BY <1>13, <2>3, NotedNothing DEF History
  <2>5. NotAccessed
    BY <1>4, <1>9, <2>1, <2>3, <2>4 DEF NotAccessed
  <2> QED BY <1>1, <1>2, <1>12, <1>14, <2>5 DEF n, Calls
<1>15. CASE ~calls
  <2>1. m = q /\ acc = AccessOf(stamped, op)
    BY <1>15
  <2>2. acc.written = WriteLog(program)[n] /\ acc.read = ReadLog(program)[n]
    BY <1>5, <2>1
  <2> HIDE DEF acc
  <2>3. truth' = History(program, n)
    BY <1>1, <1>3, <1>13, <2>2, HistoryNext
  <2>4. Accessed(n, n % StampMod)
    <3> HIDE DEF m
    <3> QED BY <1>1, <1>4, <1>5, <1>9, <2>1, <2>2, <2>3 DEF Accessed, Effect
  <2> QED BY <1>1, <1>2, <1>12, <1>15, <2>4 DEF n, Calls
<1> QED BY <1>14, <1>15

LEMMA ServeDoes ==
  ASSUME Typed, OnTimeline, Serve
  PROVE  LET n == k.steps
         IN  /\ Parked(k) /\ Running /\ n \in Nat /\ n > 0 /\ Calls(program, n)
             /\ k' = [k EXCEPT !.state = "RUN"]
             /\ mem' \in Memory /\ mem'.fault = "NONE" /\ mem'.sel = SelAt(program, n)
             /\ mem'.step = mem.step /\ Accessed(n, mem.step)
             /\ call' \in {Stopping, call}
<1> DEFINE n == k.steps
           op == OpOf(program, n)
<1>1. /\ Running /\ k.state \in {"SYSCALL", "IDLE"}
      /\ mem' = Performed(mem, Pending) /\ k' = [k EXCEPT !.state = "RUN"]
      /\ \E stop \in MayBreak : call' = IF stop THEN Stopping ELSE call
      /\ Remember(AccessOf(mem, Pending), k.steps)
  BY DEF Serve, Continue
<1>2. Pending = op
  BY OperationIs DEF Pending
<1>3. Parked(k) /\ n \in Nat /\ n > 0 /\ Calls(program, n) /\ program \in Programs
      /\ mem \in Memory /\ mem.fault = "NONE" /\ mem.sel = SelAt(program, n)
  BY <1>1, Standing DEF Parked
<1>4. ~Selects(program, n) /\ ~Faults(program, n)
  BY <1>3 DEF Selects, Faults, Calls, BiosKinds
<1>5. truth = History(program, n - 1) /\ n - 1 \in Nat /\ (n - 1) + 1 = n
  BY <1>3, Standing DEF Done
<1> HIDE DEF n
<1>6. mem.sel = SelAt(program, n - 1)
  <2>1. SelAt(program, n) = SelAt(program, n - 1)
    BY <1>3, <1>4, <1>5, SelNext
  <2> QED BY <1>3, <2>1
<1>7. /\ Effect(program, n, mem, mem')
      /\ AccessOf(mem, op) = [read |-> ReadLog(program)[n], written |-> WriteLog(program)[n]]
  BY <1>1, <1>2, <1>3, <1>6, PerformedEffect
<1>8. /\ truth' = [w |-> Noted(truth.w, WriteLog(program)[n], n),
                   r |-> Noted(truth.r, ReadLog(program)[n], n)]
      /\ wrote' = wrote \cup {Page(c[2]) : c \in WriteLog(program)[n]}
  BY <1>1, <1>2, <1>7 DEF Remember, n
<1>9. truth' = History(program, n)
  BY <1>3, <1>5, <1>8, HistoryNext
<1>10. Accessed(n, mem.step)
  BY <1>7, <1>8, <1>9 DEF Accessed, Effect
<1>11. mem'.fault = "NONE" /\ mem' \in Memory /\ mem'.sel = SelAt(program, n) /\ mem'.step = mem.step
  BY <1>4, <1>7 DEF Effect
<1> QED BY <1>1, <1>3, <1>10, <1>11 DEF n

Sought(s) ==
  /\ s \in DOMAIN snaps /\ s \in Nat /\ s <= reached
  /\ k' = snaps[s].k /\ truth' = snaps[s].truth
  /\ mem' \in Memory /\ mem'.fault = "NONE" /\ mem'.sel = snaps[s].sel
  /\ mem'.step = (s + 1) % StampMod
  /\ mem'.wage = Forgotten(mem.wage, s) /\ mem'.rage = Forgotten(mem.rage, s)
  /\ mem'.written = Count(Forgotten(mem.wage, s))
  /\ jumped' = (jumped \/ s > k.steps)

LEMMA SeekDoes ==
  ASSUME Typed, OnTimeline, Snapshots, Seek
  PROVE  \E s \in DOMAIN snaps : Sought(s)
<1>1. PICK step \in 0..reached :
        LET slot == snaps[Max({s \in DOMAIN snaps : s <= step})]
        IN  /\ mem' = Restored(slot) /\ k' = slot.k /\ truth' = slot.truth
            /\ jumped' = (jumped \/ slot.k.steps > k.steps)
  BY DEF Seek
<1> DEFINE S == {s \in DOMAIN snaps : s <= step}
           s == Max(S)
<1>2. Ring(program, snaps, reached) /\ reached \in Nat /\ step \in Nat /\ mem \in Memory
      /\ program \in Programs
  BY DEF Snapshots, Typed
<1>3. S \subseteq Nat /\ S # {} /\ \A x \in S : x <= step
  BY <1>2 DEF Ring
<1>4. s \in S
  BY <1>2, <1>3, MaxOfBounded
<1> HIDE DEF s
<1>5. s \in DOMAIN snaps
  BY <1>4
<1>6. s \in Nat /\ s <= reached /\ snaps[s].k.steps = s
      /\ Stands(program, snaps[s].k, snaps[s].sel, snaps[s].truth)
  BY <1>2, <1>5, RingMember
<1>7. snaps[s].sel \in 0..Tapes - 1
  <2>1. snaps[s].sel = SelAt(program, s)
    BY <1>6 DEF Stands
  <2> QED BY <1>2, <1>6, <2>1, SelType
<1> DEFINE slot == snaps[s]
<1>8. /\ mem' = Restored(slot) /\ k' = slot.k /\ truth' = slot.truth
      /\ jumped' = (jumped \/ slot.k.steps > k.steps)
  BY <1>1 DEF s
<1>9. slot.k.steps = s /\ slot.sel \in 0..Tapes - 1
  BY <1>6, <1>7
<1>10. /\ mem' \in Memory /\ mem'.fault = "NONE" /\ mem'.sel = slot.sel
       /\ mem'.step = (s + 1) % StampMod
       /\ mem'.wage = Forgotten(mem.wage, s) /\ mem'.rage = Forgotten(mem.rage, s)
       /\ mem'.written = Count(Forgotten(mem.wage, s))
  <2> HIDE DEF slot
  <2> QED BY <1>2, <1>6, <1>8, <1>9, RestoredEffect
<1>11. jumped' = (jumped \/ s > k.steps)
  BY <1>8, <1>9
<1> QED BY <1>5, <1>6, <1>8, <1>10, <1>11 DEF Sought

(***************************************************************************)
(* A machine just booted                                                   *)
(***************************************************************************)
LEMMA BootIs ==
  ASSUME NEW on \in BOOLEAN, ~Seeking
  PROVE  /\ Boot(on).k = [state |-> "RUN", steps |-> 0, lastSnap |-> 0]
         /\ Boot(on).mem \in Memory /\ Boot(on).mem.fault = "NONE" /\ Boot(on).mem.sel = 0
         /\ Boot(on).mem.step = 1 /\ Boot(on).mem.written = 0
         /\ Boot(on).mem.wage = Never /\ Boot(on).mem.rage = Never
         /\ Honest(Boot(on).trace) /\ Boot(on).trace.on = on
<1>1. StampMod \in Nat \ {0, 1} /\ Tapes \in Nat /\ Tapes > 0 /\ TraceCap \in Nat \ {0}
  BY TapeAssumption
<1>2. mem_init \in Memory /\ mem_init.sel = 0 /\ mem_init.fault = "NONE" /\ mem_init.written = 0
      /\ mem_init.wage = Never /\ mem_init.rage = Never
  <2>1. Never \in [Cells -> 0..StampMod - 1]
    BY <1>1 DEF Never
  <2> HIDE DEF Never
  <2> QED BY <1>1, <2>1 DEF mem_init, Memory
<1> HIDE DEF mem_init
<1>3. /\ mem_set_step(mem_init, 1) \in Memory /\ mem_set_step(mem_init, 1).step = 1
      /\ mem_set_step(mem_init, 1).sel = 0 /\ mem_set_step(mem_init, 1).fault = "NONE"
      /\ mem_set_step(mem_init, 1).written = 0
      /\ mem_set_step(mem_init, 1).wage = Never /\ mem_set_step(mem_init, 1).rage = Never
  <2>1. 1 \in Nat /\ 1 < StampMod
    BY <1>1
  <2> QED BY <1>2, <2>1, StampEffect
<1> DEFINE blank == [ring |-> << >>, head |-> 0, count |-> 0, on |-> on, wasOn |-> FALSE]
           clean == [i \in 0..TraceCap - 1 |-> NoEvent]
           fresh == trace_enable(trace_reset(blank), on)
<1>4. clean \in [0..TraceCap - 1 -> Event]
  BY DEF NoEvent, Event
<1>5. fresh = [[[[blank EXCEPT !.ring = clean] EXCEPT !.head = 0] EXCEPT !.count = 0]
               EXCEPT !.on = on]
  BY DEF trace_reset, trace_enable
<1> HIDE DEF clean
<1> DEFINE blanks == [ring : {<< >>}, head : {0}, count : {0}, on : BOOLEAN, wasOn : {FALSE}]
<1>6. blank \in blanks
  OBVIOUS
<1> HIDE DEF blank
<1>7. [blank EXCEPT !.ring = clean] \in Trace
  BY <1>1, <1>4, <1>6 DEF Trace
<1>8. fresh \in Trace /\ fresh.count = 0 /\ fresh.head = 0 /\ fresh.on = on
  <2> DEFINE first == [blank EXCEPT !.ring = clean]
  <2> HIDE DEF first, fresh
  <2>1. fresh = [[[first EXCEPT !.head = 0] EXCEPT !.count = 0] EXCEPT !.on = on]
    BY <1>5 DEF first
  <2>2. first \in Trace
    BY <1>7 DEF first
  <2> DEFINE second == [first EXCEPT !.head = 0]
             third == [second EXCEPT !.count = 0]
  <2>3. second \in Trace /\ second.head = 0
    BY <2>2 DEF Trace
  <2> HIDE DEF second
  <2>4. third \in Trace /\ third.head = 0 /\ third.count = 0
    BY <1>1, <2>3 DEF Trace
  <2>5. fresh = [third EXCEPT !.on = on]
    BY <2>1 DEF second
  <2> HIDE DEF third
  <2> QED BY <2>4, <2>5 DEF Trace
<1> HIDE DEF fresh
<1>9. Honest(fresh)
  BY <1>8 DEF Honest
<1>10. LET q == trace_push(fresh, 0, "STATE") IN Honest(q) /\ q.on = on
  <2>1. 0 \in Nat /\ "STATE" \in Happenings
    BY DEF Happenings
  <2> QED BY <1>8, <1>9, <2>1, PushHonest
<1>11. Boot(on) = [mem |-> mem_set_step(mem_init, 1),
                  k |-> [state |-> "RUN", steps |-> 0, lastSnap |-> 0],
                  trace |-> trace_push(fresh, 0, "STATE")]
  BY DEF Boot, fresh, blank
<1> QED BY <1>3, <1>10, <1>11

LEMMA Booted ==
  ASSUME NEW p \in Programs, NEW kk, kk = [state |-> "RUN", steps |-> 0, lastSnap |-> 0],
         NEW on \in BOOLEAN
  PROVE  /\ Unused = History(p, 0) /\ Stands(p, kk, 0, Unused)
         /\ Ring(p, Anchor, 0) /\ DOMAIN Anchor = {0} /\ Anchor[0].k = kk
<1>1. kk \in Kernels /\ kk.steps = 0 /\ kk.state = "RUN" /\ kk.lastSnap = 0
  BY DEF Kernels
<1>2. Boot(TRUE).k = kk
  BY DEF Boot
<1> HIDE DEF Kernels
<1>3. Done(kk) = 0 /\ ~Parked(kk)
  BY <1>1 DEF Done, Parked
<1>4. Unused = History(p, 0)
  <2>1. Hist(WriteLog(p), 0) = [c \in Cells |-> {}] /\ Hist(ReadLog(p), 0) = [c \in Cells |-> {}]
    BY HistNone
  <2> QED BY <2>1 DEF Unused, History
<1>5. Stands(p, kk, 0, Unused)
  <2>1. 0 \in Nat /\ SelAt(p, kk.steps) = 0
    BY <1>1, SelNext
  <2>2. 1..kk.steps = {}
    BY <1>1
  <2> HIDE DEF Unused
  <2> QED BY <1>1, <1>3, <1>4, <2>1, <2>2 DEF Stands
<1> DEFINE slot == [k |-> kk, sel |-> 0, truth |-> Unused]
<1>6. Anchor = [s \in {0} |-> slot]
  BY <1>2 DEF Anchor
<1>7. slot.k = kk /\ slot.sel = 0 /\ slot.truth = Unused
  OBVIOUS
<1> HIDE DEF slot
<1>8. DOMAIN Anchor = {0} /\ Anchor[0] = slot
  BY <1>6
<1>9. Ring(p, Anchor, 0)
  BY <1>1, <1>5, <1>7, <1>8, MultipleZero DEF Ring
<1> QED BY <1>4, <1>5, <1>7, <1>8, <1>9

(***************************************************************************)
(* Every step keeps the invariant                                          *)
(***************************************************************************)
LEMMA BeginDoes ==
  ASSUME Typed, OnTimeline, NEW budget \in Nat \ {0}, Begin(budget)
  PROVE  /\ mem' \in Memory /\ mem'.step = (k.steps + 1) % StampMod
         /\ mem'.sel = mem.sel /\ mem'.fault = "NONE"
         /\ mem'.wage = mem.wage /\ mem'.rage = mem.rage /\ mem'.written = mem.written
         /\ since' = (k.steps + 1) % StampMod /\ since' \in 0..StampMod - 1
         /\ call' = budget /\ call' \in Nat /\ call' # Idle /\ wrote' = {}
<1>1. mem' = mem_set_step(mem, k.steps + 1) /\ since' = (k.steps + 1) % StampMod
      /\ call' = budget /\ wrote' = {}
  BY DEF Begin, Stamp
<1>2. k.steps + 1 \in Nat /\ mem \in Memory /\ mem.fault = "NONE"
  BY Standing
<1>3. since' \in 0..StampMod - 1
  BY <1>1, <1>2, Modulo, TapeAssumption
<1>4. call' # Idle
  BY <1>1 DEF Idle
<1> QED BY <1>1, <1>2, <1>3, <1>4, StampEffect

LEMMA BudgetOf ==
  ASSUME Typed, OnTimeline, HostCall \/ ReplayCall
  PROVE  \E budget \in Nat \ {0} : Begin(budget)
<1>1. CASE HostCall
  <2>1. PICK budget \in Budgets : Begin(budget)
    BY <1>1 DEF HostCall
  <2> QED BY <2>1, TapeAssumption
<1>2. CASE ReplayCall
  BY <1>2 DEF ReplayCall
<1> QED BY <1>1, <1>2

LEMMA PagesOf ==
  ASSUME Typed, NEW n \in Nat, NEW st, Accessed(n, st)
  PROVE  wrote' \subseteq Pages
<1>1. program \in Programs /\ wrote \subseteq Pages
  BY DEF Typed
<1>2. \A c \in WriteLog(program)[n] : Page(c[2]) \in Pages
  BY <1>1, LogType
<1> QED BY <1>1, <1>2 DEF Accessed

LEMMA TypedStep ==
  ASSUME Typed, OnTimeline, Snapshots, Traces, [Next]_vars
  PROVE  Typed'
<1> USE DEF Typed
<1>1. ASSUME HostCall \/ ReplayCall PROVE Typed'
  <2>1. PICK budget \in Nat \ {0} : Begin(budget)
    BY <1>1, BudgetOf
  <2>2. mem' \in Memory /\ since' \in 0..StampMod - 1 /\ call' \in Nat /\ wrote' = {}
    BY <2>1, BeginDoes
  <2>3. ticks' \in 0..MaxTicks /\ input' \in BOOLEAN
    <3>1. ticks' \in 0..MaxTicks
      BY <1>1, TapeAssumption DEF HostCall, ReplayCall
    <3>2. input' = input \/ input' = (k.state = "IDLE")
      BY <1>1 DEF HostCall, ReplayCall
    <3>3. (k.state = "IDLE") \in BOOLEAN
      OBVIOUS
    <3> QED BY <3>1, <3>2, <3>3
  <2> QED BY <2>1, <2>2, <2>3 DEF Begin
<1>2. CASE EndCall
  BY <1>2 DEF EndCall, mem_dirty_pages
<1>3. CASE PcBreak
  BY <1>3 DEF PcBreak
<1>4. CASE OutOfBudget
  BY <1>4 DEF OutOfBudget
<1>5. CASE Instruction
  <2> DEFINE n == k.steps + 1
  <2>1. /\ Stepped(n) /\ call \in Nat /\ call > 0
        /\ IF Calls(program, n) THEN NotAccessed ELSE Accessed(n, n % StampMod)
    BY <1>5, InstructionDoes
  <2>2. n \in Nat /\ mem' \in Memory /\ faulted' \in Nat /\ reached' \in Nat /\ reached <= reached'
    BY <2>1 DEF Stepped
  <2>3. call' \in Nat \cup {Idle, Stopping}
    BY <2>1 DEF Stepped
  <2>4. wrote' \subseteq Pages
    <3>1. CASE Calls(program, n)
      BY <2>1, <3>1 DEF NotAccessed
    <3>2. CASE ~Calls(program, n)
      <4>1. Accessed(n, n % StampMod)
        BY <2>1, <3>2
      <4> HIDE DEF n
      <4> QED BY <2>2, <4>1, PagesOf
    <3> QED BY <3>1, <3>2
  <2> HIDE DEF n
  <2> QED BY <1>5, <2>2, <2>3, <2>4 DEF Instruction
<1>6. CASE Park
  BY <1>6 DEF Park
<1>7. CASE Serve
  <2> DEFINE n == k.steps
  <2>1. n \in Nat /\ mem' \in Memory /\ Accessed(n, mem.step) /\ call' \in {Stopping, call}
    BY <1>7, ServeDoes
  <2>2. wrote' \subseteq Pages
    BY <2>1, PagesOf
  <2>3. input' \in BOOLEAN
    BY <1>7 DEF Serve
  <2> QED BY <1>7, <2>1, <2>2, <2>3 DEF Serve
<1>8. CASE StayPut
  BY <1>8 DEF StayPut
<1>9. CASE Type
  BY <1>9 DEF Type
<1>10. CASE TraceLever
  BY <1>10 DEF TraceLever, mem_dirty_pages
<1>11. CASE Seek
  <2>1. PICK s \in DOMAIN snaps : Sought(s)
    BY <1>11, SeekDoes
  <2>2. mem' \in Memory /\ jumped' \in BOOLEAN
    BY <2>1 DEF Sought
  <2>3. target' \in 0..reached /\ seeks' \in 0..MaxSeeks
    <3>1. \E step \in 0..reached : target' = step
      BY <1>11 DEF Seek
    <3>2. seeks < MaxSeeks /\ seeks' = seeks + 1
      BY <1>11 DEF Seek
    <3> QED BY <3>1, <3>2, TapeAssumption
  <2>4. /\ input' = FALSE /\ wrote' = {}
        /\ UNCHANGED <<program, since, dirty, call, ticks, reached, faulted>>
    BY <1>11 DEF Seek
  <2> QED BY <2>2, <2>3, <2>4
<1>12. CASE SeekReturn
  BY <1>12 DEF SeekReturn, mem_dirty_pages
<1>13. CASE Reset
  <2>1. trace.on \in BOOLEAN /\ ~Seeking
    BY <1>13 DEF Reset, Traces, Honest, Trace
  <2>2. mem' \in Memory
    BY <1>13, <2>1, BootIs DEF Reset
  <2>3. 1 \in 0..StampMod - 1
    BY TapeAssumption
  <2> QED BY <1>13, <2>1, <2>2, <2>3 DEF Reset, Seeking
<1>14. CASE UNCHANGED vars
  BY <1>14 DEF vars
<1> QED BY <1>1, <1>2, <1>3, <1>4, <1>5, <1>6, <1>7, <1>8, <1>9, <1>10, <1>11, <1>12, <1>13, <1>14
        DEF Next

\* Steps that neither run anything nor seek leave the machine where it stands.
LEMMA TimelineStays ==
  ASSUME Typed, OnTimeline, UNCHANGED <<program, truth, reached, faulted>>,
         mem'.fault = "NONE", mem'.sel = mem.sel,
         k' = k \/ k' = [k EXCEPT !.lastSnap = k.steps]
  PROVE  OnTimeline'
<1>1. Stands(program, k, mem.sel, truth) /\ k.steps \in Nat
  BY Standing DEF OnTimeline
<1>2. Stands(program, k', mem.sel, truth) /\ k'.steps = k.steps
  <2>1. CASE k' = k
    BY <1>1, <2>1
  <2>2. CASE k' = [k EXCEPT !.lastSnap = k.steps]
    BY <1>1, <2>2, StandsSnap
  <2> QED BY <2>1, <2>2
<1> QED BY <1>1, <1>2 DEF OnTimeline

LEMMA TimelineInstruction ==
  ASSUME Typed, OnTimeline, Instruction
  PROVE  OnTimeline'
<1> DEFINE n == k.steps + 1
<1>1. /\ Stepped(n) /\ k.state = "RUN"
      /\ IF Calls(program, n) THEN NotAccessed ELSE Accessed(n, n % StampMod)
  BY InstructionDoes
<1>2. n \in Nat /\ n > 0 /\ n - 1 = k.steps /\ program' = program /\ k.steps \in Nat
  BY <1>1, Standing DEF Stepped, Instruction
<1>3. Calls(program, n) => ~Halts(program, n)
  BY DEF Calls, Halts, Faults, BiosKinds
<1>4. truth = History(program, k.steps)
  BY <1>1, Standing DEF Done, Parked
<1> HIDE DEF n
<1>5. /\ k'.steps = n /\ k' \in Kernels
      /\ k'.state = IF Halts(program, n) THEN "HALT"
                    ELSE IF Calls(program, n) THEN "SYSCALL" ELSE "RUN"
  <2>1. (IF SnapDue THEN k.steps ELSE k.lastSnap) \in Nat
    BY Standing
  <2> QED BY <1>1, <1>2, <2>1 DEF Stepped, Kernels
<1>7. truth' = History(program, Done(k')) /\ (Parked(k') => Calls(program, n))
  <2>1. CASE Calls(program, n)
    <3>1. k'.state = "SYSCALL"
      BY <1>3, <1>5, <2>1
    <3>2. Done(k') = k.steps /\ truth' = truth
      BY <1>1, <1>2, <1>5, <2>1, <3>1 DEF Done, Parked, NotAccessed
    <3> QED BY <1>4, <2>1, <3>2
  <2>2. CASE ~Calls(program, n)
    <3>1. ~Parked(k')
      BY <1>5, <2>2 DEF Parked
    <3>2. Done(k') = n /\ truth' = History(program, n)
      BY <1>1, <1>5, <2>2, <3>1 DEF Done, Accessed
    <3> QED BY <3>1, <3>2
  <2> QED BY <2>1, <2>2
<1>8. ASSUME NEW i \in 1..n, Halts(program, i) PROVE i = n /\ k'.state = "HALT"
  <2>1. CASE i = n
    BY <1>5, <1>8, <2>1
  <2>2. CASE i # n
    <3>1. i \in 1..k.steps
      BY <1>2, <2>2
    <3> QED BY <1>1, <1>8, <3>1, Standing
  <2> QED BY <2>1, <2>2
<1>9. Stands(program, k', mem'.sel, truth')
  BY <1>1, <1>2, <1>5, <1>7, <1>8 DEF Stands, Stepped
<1>10. n <= reached'
  BY <1>1, <1>2, Standing DEF Stepped
<1>11. faulted' # 0 => Faults(program, faulted')
  BY <1>1 DEF Stepped, OnTimeline
<1> QED BY <1>1, <1>2, <1>5, <1>9, <1>10, <1>11 DEF OnTimeline, Stepped

LEMMA TimelineServe ==
  ASSUME Typed, OnTimeline, Serve
  PROVE  OnTimeline'
<1> DEFINE n == k.steps
<1>1. /\ Parked(k) /\ n \in Nat /\ n > 0 /\ Calls(program, n)
      /\ k' = [k EXCEPT !.state = "RUN"]
      /\ mem' \in Memory /\ mem'.fault = "NONE" /\ mem'.sel = SelAt(program, n)
      /\ Accessed(n, mem.step)
  BY ServeDoes
<1>2. UNCHANGED <<program, reached, faulted>>
  BY DEF Serve
<1>3. k \in Kernels /\ n <= reached /\ \A i \in 1..n : Halts(program, i) => k.state = "HALT"
  BY Standing
<1>4. k' \in Kernels /\ k'.steps = n /\ k'.state = "RUN"
  BY <1>1, <1>3 DEF Kernels
<1>5. ~Parked(k') /\ Done(k') = n
  BY <1>4 DEF Parked, Done
<1>6. \A i \in 1..n : ~Halts(program, i)
  BY <1>1, <1>3 DEF Parked
<1> HIDE DEF n
<1>7. Stands(program, k', mem'.sel, truth')
  BY <1>1, <1>4, <1>5, <1>6 DEF Stands, Accessed
<1>8. faulted # 0 => Faults(program, faulted)
  BY DEF OnTimeline
<1> QED BY <1>1, <1>2, <1>3, <1>4, <1>7, <1>8 DEF OnTimeline

LEMMA TimelinePark ==
  ASSUME Typed, OnTimeline, Park
  PROVE  OnTimeline'
<1>1. /\ k.state = "SYSCALL" /\ k' = [k EXCEPT !.state = "IDLE"]
      /\ UNCHANGED <<program, mem, truth, reached, faulted>>
  BY DEF Park
<1>2. k \in Kernels /\ Stands(program, k, mem.sel, truth)
  BY DEF OnTimeline, Stands
<1>3. k' \in Kernels /\ k'.steps = k.steps /\ k'.state = "IDLE"
  BY <1>1, <1>2 DEF Kernels
<1>4. Parked(k) /\ Parked(k') /\ Done(k') = Done(k)
  BY <1>1, <1>3 DEF Parked, Done
<1>5. Stands(program, k', mem.sel, truth)
  BY <1>1, <1>2, <1>3, <1>4 DEF Stands
<1> QED BY <1>1, <1>3, <1>5 DEF OnTimeline

LEMMA TimelineSeek ==
  ASSUME Typed, OnTimeline, Snapshots, Seek
  PROVE  OnTimeline'
<1>1. PICK s \in DOMAIN snaps : Sought(s)
  BY SeekDoes
<1>2. UNCHANGED <<program, reached, faulted>>
  BY DEF Seek
<1>3. Ring(program, snaps, reached) /\ reached \in Nat
  BY DEF Snapshots, Typed
<1>4. snaps[s].k.steps = s /\ Stands(program, snaps[s].k, snaps[s].sel, snaps[s].truth)
  BY <1>3, RingMember
<1> QED BY <1>1, <1>2, <1>4 DEF OnTimeline, Sought

LEMMA TimelineReset ==
  ASSUME Typed, OnTimeline, Traces, Reset
  PROVE  OnTimeline'
<1>1. trace.on \in BOOLEAN /\ ~Seeking
  BY DEF Reset, Traces, Honest, Trace
<1>2. /\ mem' = Boot(trace.on).mem /\ k' = Boot(trace.on).k /\ truth' = Unused
      /\ reached' = 0 /\ faulted' = 0 /\ program' = program
  BY DEF Reset
<1>3. /\ k' = [state |-> "RUN", steps |-> 0, lastSnap |-> 0]
      /\ mem'.fault = "NONE" /\ mem'.sel = 0
  BY <1>1, <1>2, BootIs
<1>4. Stands(program, k', 0, Unused)
  BY <1>3, Booted DEF Typed
<1>5. k'.steps = 0
  BY <1>3
<1> QED BY <1>2, <1>3, <1>4, <1>5 DEF OnTimeline

LEMMA TimelineStep ==
  ASSUME Typed, OnTimeline, Snapshots, Traces, [Next]_vars
  PROVE  OnTimeline'
<1>1. mem.fault = "NONE"
  BY Standing
<1>2. ASSUME HostCall \/ ReplayCall PROVE OnTimeline'
  <2>1. PICK budget \in Nat \ {0} : Begin(budget)
    BY <1>2, BudgetOf
  <2>2. mem'.fault = "NONE" /\ mem'.sel = mem.sel
    BY <2>1, BeginDoes
  <2>3. UNCHANGED <<program, truth, reached, faulted>> /\ k' = k
    BY <2>1 DEF Begin
  <2> QED BY <2>2, <2>3, TimelineStays
<1>3. ASSUME EndCall \/ PcBreak PROVE OnTimeline'
  <2>1. /\ UNCHANGED <<program, truth, reached, faulted>> /\ mem' = mem
        /\ k' = k \/ k' = [k EXCEPT !.lastSnap = k.steps]
    BY <1>3 DEF EndCall, PcBreak
  <2> QED BY <1>1, <2>1, TimelineStays
<1>4. ASSUME OutOfBudget \/ StayPut \/ Type \/ TraceLever \/ SeekReturn \/ UNCHANGED vars
      PROVE  OnTimeline'
  <2>1. UNCHANGED <<program, truth, reached, faulted, mem, k>>
    BY <1>4 DEF OutOfBudget, StayPut, Type, TraceLever, SeekReturn, vars
  <2> QED BY <1>1, <2>1, TimelineStays
<1> QED BY <1>2, <1>3, <1>4, TimelineInstruction, TimelineServe, TimelinePark, TimelineSeek,
           TimelineReset DEF Next

LEMMA SnapshotsStep ==
  ASSUME Typed, OnTimeline, Snapshots, Traces, [Next]_vars
  PROVE  Snapshots'
<1>1. k \in Kernels /\ k.steps \in Nat /\ k.lastSnap \in Nat /\ Interval \in Nat
      /\ reached \in Nat /\ k.steps <= reached /\ program \in Programs
  BY Standing, TapeAssumption
<1>2. /\ Ring(program, snaps, reached) /\ k.lastSnap \in DOMAIN snaps
      /\ k.lastSnap <= k.steps /\ (Interval # 0 => k.steps - k.lastSnap <= Interval)
      /\ call = Idle => ~SnapDue
  BY DEF Snapshots
<1>3. ASSUME HostCall \/ ReplayCall PROVE Snapshots'
  <2>1. PICK budget \in Nat \ {0} : Begin(budget)
    BY <1>3, BudgetOf
  <2>2. call' # Idle
    BY <2>1, BeginDoes
  <2>3. UNCHANGED <<program, k, snaps, reached>>
    BY <2>1 DEF Begin
  <2> QED BY <1>2, <2>2, <2>3 DEF Snapshots
<1>4. ASSUME EndCall \/ PcBreak PROVE Snapshots'
  <2> DEFINE last == IF SnapDue THEN k.steps ELSE k.lastSnap
  <2>1. /\ k_maybe_snapshot /\ UNCHANGED <<program, reached>>
        /\ k' = IF SnapDue THEN [k EXCEPT !.lastSnap = k.steps] ELSE k
    BY <1>4 DEF EndCall, PcBreak
  <2>2. SavedRing(last)
    BY <2>1, SaveKeeps
  <2>3. k'.steps = k.steps /\ k'.lastSnap = last
    BY <1>1, <2>1 DEF Kernels
  <2>4. ~SnapDue'
    <3>1. Interval # 0 => k.steps - last < Interval
      BY <2>2 DEF SavedRing
    <3>2. last \in Nat
      BY <1>1
    <3> HIDE DEF last
    <3> QED BY <1>1, <2>3, <3>1, <3>2 DEF SnapDue
  <2> HIDE DEF last
  <2>5. Interval # 0 => k.steps - last <= Interval
    BY <1>1, <2>2 DEF SavedRing
  <2> QED BY <2>1, <2>2, <2>3, <2>4, <2>5 DEF Snapshots, SavedRing
<1>5. CASE Instruction
  <2> DEFINE last == IF SnapDue THEN k.steps ELSE k.lastSnap
             n == k.steps + 1
  <2>1. Stepped(n) /\ k_maybe_snapshot /\ call \in Nat /\ call > 0 /\ UNCHANGED program
    BY <1>5, InstructionDoes DEF Instruction
  <2>2. SavedRing(last)
    BY <2>1, SaveKeeps
  <2>3. k'.steps = n /\ k'.lastSnap = last /\ n \in Nat /\ call' # Idle
    BY <2>1 DEF Stepped, Idle, Stopping
  <2>4. reached' \in Nat /\ reached <= reached'
    BY <1>1, <2>1 DEF Stepped
  <2> HIDE DEF last
  <2>5. Ring(program, snaps', reached')
    BY <1>1, <2>2, <2>4, RingLater DEF SavedRing
  <2>6. last <= n /\ (Interval # 0 => n - last <= Interval)
    BY <1>1, <2>2 DEF SavedRing
  <2> HIDE DEF n
  <2> QED BY <2>1, <2>2, <2>3, <2>5, <2>6 DEF Snapshots, SavedRing
<1>6. ASSUME Park \/ Serve PROVE Snapshots'
  <2>1. /\ Running /\ UNCHANGED <<program, snaps, reached>>
        /\ k' = [k EXCEPT !.state = "IDLE"] \/ k' = [k EXCEPT !.state = "RUN"]
    BY <1>6 DEF Park, Serve
  <2>2. k'.steps = k.steps /\ k'.lastSnap = k.lastSnap
    BY <1>1, <2>1 DEF Kernels
  <2>3. call' # Idle
    <3>1. CASE Park
      BY <3>1 DEF Park, Idle, Stopping
    <3>2. CASE Serve
      BY <2>1, <3>2, ServeDoes DEF Running, Idle, Stopping
    <3> QED BY <1>6, <3>1, <3>2
  <2> QED BY <1>2, <2>1, <2>2, <2>3 DEF Snapshots
<1>7. ASSUME OutOfBudget \/ StayPut PROVE Snapshots'
  <2>1. UNCHANGED <<program, k, snaps, reached>> /\ call' # Idle
    BY <1>7 DEF OutOfBudget, StayPut, Idle, Stopping
  <2> QED BY <1>2, <2>1 DEF Snapshots
<1>8. ASSUME Type \/ TraceLever \/ SeekReturn \/ UNCHANGED vars PROVE Snapshots'
  <2>1. UNCHANGED <<program, k, snaps, reached, call>>
    BY <1>8 DEF Type, TraceLever, SeekReturn, vars
  <2> QED BY <1>2, <2>1 DEF Snapshots, SnapDue
<1>9. CASE Seek
  <2>1. PICK s \in DOMAIN snaps : Sought(s)
    BY <1>9, SeekDoes
  <2>2. UNCHANGED <<program, snaps, reached, call>>
    BY <1>9 DEF Seek
  <2>3. s \in Nat /\ k'.steps = s /\ k'.lastSnap = s
    BY <1>1, <1>2, <2>1, RingMember DEF Sought
  <2>4. s - s = 0 /\ ~SnapDue'
    BY <1>1, <2>3 DEF SnapDue
  <2>5. k'.lastSnap <= k'.steps /\ k'.steps - k'.lastSnap <= Interval
    BY <1>1, <2>3
  <2> QED BY <1>2, <2>1, <2>2, <2>3, <2>4, <2>5 DEF Snapshots
<1>10. CASE Reset
  <2>1. trace.on \in BOOLEAN /\ ~Seeking
    BY <1>10 DEF Reset, Traces, Honest, Trace
  <2>2. k' = Boot(trace.on).k /\ snaps' = Anchor /\ reached' = 0 /\ program' = program
    BY <1>10 DEF Reset
  <2>3. k' = [state |-> "RUN", steps |-> 0, lastSnap |-> 0]
    BY <2>1, <2>2, BootIs
  <2>4. Ring(program, Anchor, 0) /\ DOMAIN Anchor = {0}
    BY <1>1, <2>3, Booted
  <2>5. k'.steps = 0 /\ k'.lastSnap = 0 /\ ~SnapDue'
    BY <1>1, <2>3 DEF SnapDue
  <2> HIDE DEF Anchor
  <2> QED BY <1>1, <2>2, <2>4, <2>5 DEF Snapshots
<1> QED BY <1>3, <1>4, <1>5, <1>6, <1>7, <1>8, <1>9, <1>10 DEF Next

LEMMA TracesStep ==
  ASSUME Typed, OnTimeline, Traces, [Next]_vars
  PROVE  Traces'
<1>1. Honest(trace) /\ (Seeking => ~trace.on) /\ trace.on \in BOOLEAN /\ trace.wasOn \in BOOLEAN
  BY DEF Traces, Honest, Trace
<1>2. k.steps \in Nat /\ mem \in Memory
  BY Standing
<1>3. {"FETCH", "SYSCALL", "STATE"} \subseteq Happenings
  BY DEF Happenings
<1>4. CASE Instruction
  <2> DEFINE n == k.steps + 1
             op == Operation(n)
             stamped == mem_set_step(mem, n)
             calls == op.kind \in BiosKinds
             m == IF calls THEN stamped ELSE Performed(stamped, op)
             fetched == trace_push(trace, n, "FETCH")
             t == IF calls THEN fetched ELSE Traced(fetched, stamped, op)
             leaves == (m.fault # "NONE" \/ op.kind = "HLT") \/ calls
  <2>1. trace' = (IF leaves THEN trace_push(t, n, "STATE") ELSE t) /\ target' = target
    BY <1>4 DEF Instruction
  <2>2. n \in Nat
    BY <1>2
  <2> HIDE DEF n
  <2>3. stamped \in Memory
    BY <1>2, <2>2, StampEffect
  <2> HIDE DEF op, stamped
  <2>4. Honest(fetched) /\ fetched.on = trace.on
    BY <1>1, <1>3, <2>2, PushHonest
  <2> HIDE DEF fetched
  <2>5. /\ Honest(Traced(fetched, stamped, op))
        /\ Traced(fetched, stamped, op).on = trace.on
    BY <1>1, <2>3, <2>4, TracedHonest
  <2>6. Honest(t) /\ t.on = trace.on
    BY <2>4, <2>5
  <2> HIDE DEF t
  <2>7. LET q == trace_push(t, n, "STATE") IN Honest(q) /\ q.on = trace.on
    BY <1>1, <1>3, <2>2, <2>6, PushHonest
  <2> HIDE DEF leaves
  <2>8. Honest(trace') /\ trace'.on = trace.on
    BY <2>1, <2>6, <2>7
  <2> QED BY <1>1, <2>1, <2>8 DEF Traces, Seeking
<1>5. CASE Park
  <2> DEFINE t == trace_push(trace, k.steps, "SYSCALL")
  <2>1. trace' = trace_push(t, k.steps, "STATE") /\ target' = target
    BY <1>5 DEF Park
  <2>2. Honest(t) /\ t.on = trace.on
    BY <1>1, <1>2, <1>3, PushHonest
  <2> HIDE DEF t
  <2>3. LET q == trace_push(t, k.steps, "STATE") IN Honest(q) /\ q.on = trace.on
    BY <1>1, <1>2, <1>3, <2>2, PushHonest
  <2> QED BY <1>1, <2>1, <2>3 DEF Traces, Seeking
<1>6. CASE Serve
  <2> DEFINE t1 == Traced(trace, mem, Pending)
             t2 == trace_push(t1, k.steps, "SYSCALL")
             t3 == IF k.state = "IDLE" THEN trace_push(t2, k.steps, "STATE") ELSE t2
  <2>1. trace' = trace_push(t3, k.steps, "STATE") /\ target' = target
    BY <1>6 DEF Serve
  <2>2. Honest(t1) /\ t1.on = trace.on
    BY <1>1, <1>2, TracedHonest
  <2> HIDE DEF t1
  <2>3. Honest(t2) /\ t2.on = trace.on
    BY <1>1, <1>2, <1>3, <2>2, PushHonest
  <2> HIDE DEF t2
  <2>4. LET q == trace_push(t2, k.steps, "STATE") IN Honest(q) /\ q.on = trace.on
    BY <1>1, <1>2, <1>3, <2>3, PushHonest
  <2>5. Honest(t3) /\ t3.on = trace.on
    BY <2>3, <2>4
  <2> HIDE DEF t3
  <2>6. LET q == trace_push(t3, k.steps, "STATE") IN Honest(q) /\ q.on = trace.on
    BY <1>1, <1>2, <1>3, <2>5, PushHonest
  <2> QED BY <1>1, <2>1, <2>6 DEF Traces, Seeking
<1>7. CASE TraceLever
  <2> DEFINE on == ~trace.on
  <2>1. trace' = trace_enable(trace, on) /\ target' = target /\ ~Seeking
    BY <1>7 DEF TraceLever
  <2>2. on \in BOOLEAN
    BY <1>1
  <2> HIDE DEF on
  <2> QED BY <1>1, <2>1, <2>2, LeverHonest DEF Traces, Seeking
<1>8. CASE Seek
  <2>1. trace' = [trace_enable(trace, FALSE) EXCEPT !.wasOn = trace.on]
    BY <1>8 DEF Seek
  <2>2. Honest(trace') /\ trace'.on = FALSE
    BY <1>1, <2>1, LeverHonest
  <2> QED BY <2>2 DEF Traces
<1>9. CASE SeekReturn
  <2>1. /\ target' = NoStep
        /\ trace' = IF trace.wasOn THEN trace_enable(trace, TRUE) ELSE trace
    BY <1>9 DEF SeekReturn
  <2>2. Honest(trace')
    BY <1>1, <2>1, LeverHonest
  <2> QED BY <2>1, <2>2 DEF Traces, Seeking
<1>10. CASE Reset
  <2>1. trace' = Boot(trace.on).trace /\ target' = target /\ ~Seeking
    BY <1>10 DEF Reset
  <2> QED BY <1>1, <2>1, BootIs DEF Traces, Seeking
<1>11. ASSUME HostCall \/ ReplayCall PROVE Traces'
  <2>1. UNCHANGED <<trace, target>>
    BY <1>11 DEF HostCall, ReplayCall, Begin
  <2> QED BY <1>1, <2>1 DEF Traces, Seeking
<1>12. ASSUME EndCall \/ PcBreak \/ OutOfBudget \/ StayPut \/ Type \/ UNCHANGED vars PROVE Traces'
  <2>1. UNCHANGED <<trace, target>>
    BY <1>12 DEF EndCall, PcBreak, OutOfBudget, StayPut, Type, vars
  <2> QED BY <1>1, <2>1 DEF Traces, Seeking
<1> QED BY <1>4, <1>5, <1>6, <1>7, <1>8, <1>9, <1>10, <1>11, <1>12 DEF Next

LEMMA InvInit == Init => Inv
<1> SUFFICES ASSUME Init PROVE Inv
  OBVIOUS
<1> DEFINE boot == Boot(TRUE)
<1>1. /\ program \in Programs /\ target = NoStep /\ call = Idle /\ ticks = 0 /\ seeks = 0
      /\ mem = boot.mem /\ k = boot.k /\ trace = boot.trace
      /\ snaps = Anchor /\ since = 1 /\ dirty = {} /\ input = FALSE
      /\ truth = Unused /\ wrote = {} /\ reached = 0 /\ faulted = 0 /\ jumped = FALSE
  BY DEF Init
<1>2. ~Seeking /\ TRUE \in BOOLEAN
  BY <1>1 DEF Seeking
<1>3. /\ k = [state |-> "RUN", steps |-> 0, lastSnap |-> 0]
      /\ mem \in Memory /\ mem.fault = "NONE" /\ mem.sel = 0
      /\ Honest(trace) /\ trace.on = TRUE
  BY <1>1, <1>2, BootIs
<1> HIDE DEF boot
<1>4. k.steps = 0 /\ k.lastSnap = 0
  BY <1>3
<1>5. /\ Stands(program, k, 0, Unused)
      /\ Ring(program, Anchor, 0) /\ DOMAIN Anchor = {0}
  BY <1>1, <1>3, <1>2, Booted
<1>6. Typed
  <2>1. 1 \in 0..StampMod - 1 /\ 0 \in 0..MaxTicks /\ 0 \in 0..MaxSeeks
    BY TapeAssumption
  <2> QED BY <1>1, <1>3, <2>1 DEF Typed
<1> HIDE DEF Anchor, Unused
<1>7. OnTimeline
  BY <1>1, <1>3, <1>4, <1>5 DEF OnTimeline
<1>8. Snapshots
  <2>1. ~SnapDue
    BY <1>4, TapeAssumption DEF SnapDue
  <2>2. Interval # 0 => 0 - 0 <= Interval
    BY TapeAssumption
  <2> QED BY <1>1, <1>4, <1>5, <2>1, <2>2 DEF Snapshots
<1>9. Traces
  BY <1>2, <1>3 DEF Traces
<1> QED BY <1>6, <1>7, <1>8, <1>9 DEF Inv

LEMMA InvStep == Inv /\ [Next]_vars => Inv'
BY TypedStep, TimelineStep, SnapshotsStep, TracesStep DEF Inv

LEMMA SpecInv == Spec => []Inv
BY InvInit, InvStep, PTL DEF Spec

(***************************************************************************)
(* What holds whatever the stamps do                                       *)
(***************************************************************************)
LEMMA InvTypes == Inv => TypeOK
<1> SUFFICES ASSUME Inv PROVE TypeOK
  OBVIOUS
<1>1. Typed /\ OnTimeline /\ Snapshots /\ Traces
  BY DEF Inv
<1>2. k \in Kernels /\ k.steps <= reached /\ truth = History(program, Done(k)) /\ reached \in Nat
      /\ k.steps \in Nat /\ (Parked(k) => k.steps > 0)
  BY <1>1, Standing
<1>3. Done(k) \in Nat /\ Done(k) <= reached
  BY <1>2 DEF Done
<1>4. truth \in [w : [Cells -> SUBSET (1..reached)], r : [Cells -> SUBSET (1..reached)]]
  BY <1>2, <1>3, HistType DEF History
<1>5. DOMAIN snaps \subseteq 0..reached /\ 0 \in DOMAIN snaps
  BY <1>1 DEF Snapshots, Ring
<1>6. trace \in Trace
  BY <1>1 DEF Traces, Honest
<1> QED BY <1>1, <1>2, <1>4, <1>5, <1>6 DEF Typed, TypeOK, Kernels

LEMMA InvHonest == Inv => TraceHonest
BY DEF Inv, Traces, Honest, TraceHonest

LEMMA InvFault == Inv => FaultStands
<1> SUFFICES ASSUME Inv, faulted # 0
             PROVE  k.steps < faulted \/ (k.steps = faulted /\ k.state = "HALT")
  BY DEF FaultStands
<1>1. Typed /\ OnTimeline
  BY DEF Inv
<1>2. Faults(program, faulted) /\ faulted \in Nat
  BY <1>1 DEF OnTimeline, Typed
<1>3. k.steps \in Nat /\ \A n \in 1..k.steps : Halts(program, n) => n = k.steps /\ k.state = "HALT"
  BY <1>1, Standing
<1>4. faulted \in 1..k.steps => faulted = k.steps /\ k.state = "HALT"
  BY <1>2, <1>3 DEF Halts
<1> QED BY <1>2, <1>3, <1>4

\* Every variable has its type, whatever the programs, the budgets and the host do.
THEOREM TypeCorrect == Spec => []TypeOK
BY SpecInv, InvTypes, PTL

\* docs/decisions.md:59: the ring has the newest events, in order, and none of a replay.
THEOREM TraceIsHonest == Spec => []TraceHonest
BY SpecInv, InvHonest, PTL

\* docs/architecture.md:265: a machine that a fault halted never gets past the fault, however
\* the host steps it, seeks and seeks again.
THEOREM FaultsStand == Spec => []FaultStands
BY SpecInv, InvFault, PTL

(***************************************************************************)
(* Stamps that do not wrap                                                 *)
(***************************************************************************)

\* A machine stops at the end of its program at the latest.
LEMMA StepsBounded ==
  ASSUME NoWrap, NEW p \in Programs, NEW kk, NEW sel, NEW tr, Stands(p, kk, sel, tr)
  PROVE  kk.steps \in Nat /\ kk.steps + 1 < StampMod /\ (kk.steps + 1) % StampMod = kk.steps + 1
<1>1. Len(p) \in Nat /\ Len(p) + 2 < StampMod /\ Halts(p, Len(p) + 1)
  <2>1. p \in Seq(Op)
    BY TapeAssumption
  <2>2. Len(p) \in Nat
    BY <2>1
  <2>3. Len(p) + 1 \in Nat /\ Len(p) + 1 > 0 /\ Len(p) + 1 > Len(p)
    BY <2>2
  <2> QED BY <2>2, <2>3, OpType DEF NoWrap
<1>2. kk.steps \in Nat /\ \A n \in 1..kk.steps : Halts(p, n) => n = kk.steps
  BY DEF Stands, Kernels
<1>3. ~(kk.steps > Len(p) + 1)
  <2>1. ASSUME kk.steps > Len(p) + 1 PROVE FALSE
    <3>1. Len(p) + 1 \in 1..kk.steps
      BY <1>1, <1>2, <2>1
    <3> QED BY <1>1, <1>2, <2>1, <3>1
  <2> QED BY <2>1
<1>4. kk.steps + 1 \in Nat /\ kk.steps + 1 < StampMod /\ StampMod \in Nat \ {0}
  BY <1>1, <1>2, <1>3, TapeAssumption
<1> QED BY <1>2, <1>4, Modulo

\* The machine and its stamps.
LEMMA StampsSmall ==
  ASSUME NoWrap, Typed, OnTimeline
  PROVE  k.steps + 1 < StampMod /\ (k.steps + 1) % StampMod = k.steps + 1
BY StepsBounded DEF Typed, OnTimeline

\* A step with a snapshot later than the last one taken is one that is due.
LEMMA DueAgain ==
  ASSUME NEW sn, NEW r \in Nat, NEW p, Ring(p, sn, r),
         NEW s \in DOMAIN sn, NEW last \in DOMAIN sn, last < s
  PROVE  Interval # 0 /\ s - last >= Interval
BY RingMember, MultiplesApart

LEMMA AgeTypes ==
  ASSUME Typed
  PROVE  /\ mem.wage \in [Cells -> 0..StampMod - 1] /\ mem.rage \in [Cells -> 0..StampMod - 1]
         /\ mem.step \in Nat
BY TapeAssumption DEF Typed, Memory

LEMMA LogSets ==
  ASSUME NEW p \in Programs, NEW n \in Nat
  PROVE  /\ WriteLog(p)[n] \in SUBSET Cells /\ ReadLog(p)[n] \in SUBSET Cells
         /\ \A c, d \in WriteLog(p)[n] : c = d
<1>1. WriteLog(p)[n] \in SUBSET Cells /\ ReadLog(p)[n] \in SUBSET Cells
  BY LogType DEF Logs
<1>2. WriteLog(p)[n] = {} \/ WriteLog(p)[n] = {CellAt(p, n)}
  BY DEF WriteLog, Reaches
<1> QED BY <1>1, <1>2

\* The counter of written cells, after an access or none.
LEMMA CountedNext ==
  ASSUME Typed, CellsCounted, NEW n \in Nat, NEW st \in Nat, st > 0,
         Accessed(n, st) \/ NotAccessed
  PROVE  CellsCounted'
<1>1. mem.written = Count(mem.wage) /\ mem.wage \in [Cells -> 0..StampMod - 1]
      /\ program \in Programs
  BY AgeTypes DEF CellsCounted, Count, Typed
<1>2. CASE Accessed(n, st)
  <2>1. Count(Marked(mem.wage, WriteLog(program)[n], st))
        = Counted(Count(mem.wage), mem.wage, WriteLog(program)[n], st)
    BY <1>1, LogSets, CountNext
  <2>2. mem'.written = Count(mem'.wage)
    BY <1>1, <1>2, <2>1 DEF Accessed
  <2> QED BY <2>2 DEF CellsCounted, Count
<1>3. CASE NotAccessed
  BY <1>1, <1>3 DEF NotAccessed, CellsCounted, Count
<1> QED BY <1>2, <1>3

LEMMA StampedStep ==
  ASSUME NoWrap, Inv, Inv', Stamped, [Next]_vars
  PROVE  Stamped'
<1>1. Typed /\ OnTimeline /\ Snapshots /\ Traces
  BY DEF Inv
<1>2. /\ k \in Kernels /\ k.steps \in Nat /\ k.lastSnap \in Nat /\ Interval \in Nat
      /\ reached \in Nat /\ mem.step \in Nat /\ since \in Nat /\ program \in Programs
  BY <1>1, Standing, AgeTypes, TapeAssumption DEF Typed
<1>3. /\ mem.step \in {k.steps, k.steps + 1} /\ mem.step > 0
      /\ Running /\ mem.step = k.steps => k.lastSnap < k.steps
      /\ call # Idle => since <= mem.step
      /\ CellsCounted
      /\ Parked(k) /\ k.steps \in DOMAIN snaps /\ ~Parked(snaps[k.steps].k) => SnapDue
  BY DEF Stamped
<1>4. k.steps + 1 < StampMod /\ (k.steps + 1) % StampMod = k.steps + 1
  BY <1>1, StampsSmall
<1>5. ASSUME HostCall \/ ReplayCall PROVE Stamped'
  <2>1. PICK budget \in Nat \ {0} : Begin(budget)
    BY <1>1, <1>5, BudgetOf
  <2>2. /\ mem'.step = k.steps + 1 /\ since' = k.steps + 1
        /\ mem'.wage = mem.wage /\ mem'.written = mem.written
    BY <1>1, <1>4, <2>1, BeginDoes
  <2>3. UNCHANGED <<k, snaps>>
    BY <2>1 DEF Begin
  <2>4. CellsCounted'
    BY <1>3, <2>2 DEF CellsCounted
  <2>5. SnapDue' = SnapDue
    BY <2>3 DEF SnapDue
  <2> QED BY <1>2, <1>3, <2>2, <2>3, <2>4, <2>5 DEF Stamped
<1>6. ASSUME EndCall \/ PcBreak PROVE Stamped'
  <2>1. /\ k_maybe_snapshot /\ mem' = mem /\ since' = since
        /\ k' = IF SnapDue THEN [k EXCEPT !.lastSnap = k.steps] ELSE k
    BY <1>6 DEF EndCall, PcBreak
  <2>2. /\ SnapDue => k.steps \in DOMAIN snaps' /\ snaps'[k.steps].k.state = k.state
        /\ ~SnapDue => snaps' = snaps
    BY <1>1, <2>1, SaveKeeps DEF SavedRing
  <2>3. k'.steps = k.steps /\ k'.state = k.state
    BY <1>2, <2>1 DEF Kernels
  <2>4. ~Running' /\ (call' # Idle => call # Idle)
    BY <1>6 DEF EndCall, PcBreak, Running, Idle, Stopping
  <2>5. ~(Parked(k') /\ k'.steps \in DOMAIN snaps' /\ ~Parked(snaps'[k'.steps].k))
    BY <1>3, <2>2, <2>3 DEF Parked
  <2>6. CellsCounted'
    BY <1>3, <2>1 DEF CellsCounted
  <2> QED BY <1>3, <2>1, <2>3, <2>4, <2>5, <2>6 DEF Stamped
<1>7. CASE Instruction
  <2> DEFINE n == k.steps + 1
  <2>1. /\ Stepped(n) /\ call \in Nat /\ call > 0 /\ since' = since
        /\ Accessed(n, n % StampMod) \/ NotAccessed
    BY <1>1, <1>7, InstructionDoes DEF Instruction
  <2>2. n \in Nat /\ n > 0 /\ n % StampMod = n
    BY <1>2, <1>4
  <2>3. k.steps < n /\ mem.step <= n
    BY <1>2, <1>3
  <2> HIDE DEF n
  <2>4. mem'.step = n /\ k'.steps = n
    BY <2>1, <2>2 DEF Stepped
  <2>5. k'.lastSnap \in {k.steps, k.lastSnap}
    BY <2>1 DEF Stepped
  <2>6. k'.lastSnap < n
    BY <1>1, <1>2, <2>2, <2>3, <2>5 DEF Snapshots
  <2>7. call # Idle
    BY <2>1 DEF Idle
  <2>8. since' <= mem'.step
    BY <1>2, <1>3, <2>1, <2>2, <2>3, <2>4, <2>7
  <2>9. CellsCounted'
    <3>1. Accessed(n, n) \/ NotAccessed
      BY <2>1, <2>2
    <3> QED BY <1>1, <1>3, <2>2, <3>1, CountedNext
  <2>10. k'.steps \in DOMAIN snaps' => SnapDue'
    <3>1. Ring(program', snaps', reached') /\ reached' \in Nat /\ k'.lastSnap \in DOMAIN snaps'
      BY DEF Inv, Snapshots, Typed
    <3>2. k'.steps \in DOMAIN snaps' => Interval # 0 /\ k'.steps - k'.lastSnap >= Interval
      BY <2>4, <2>6, <3>1, DueAgain
    <3> QED BY <3>2 DEF SnapDue
  <2> QED BY <2>2, <2>4, <2>6, <2>8, <2>9, <2>10 DEF Stamped
<1>8. CASE Park
  <2>1. /\ k.state = "SYSCALL" /\ Running /\ k' = [k EXCEPT !.state = "IDLE"] /\ call' = Stopping
        /\ UNCHANGED <<mem, since, snaps>>
    BY <1>8 DEF Park
  <2>2. k'.steps = k.steps /\ k'.lastSnap = k.lastSnap /\ Parked(k) /\ SnapDue' = SnapDue
    BY <1>2, <2>1 DEF Kernels, Parked, SnapDue
  <2>3. ~Running' /\ call # Idle
    BY <2>1 DEF Running
  <2>4. CellsCounted'
    BY <1>3, <2>1 DEF CellsCounted
  <2> QED BY <1>3, <2>1, <2>2, <2>3, <2>4 DEF Stamped
<1>9. CASE Serve
  <2> DEFINE n == k.steps
  <2>1. /\ Running /\ n \in Nat /\ k' = [k EXCEPT !.state = "RUN"]
        /\ mem'.step = mem.step /\ Accessed(n, mem.step)
    BY <1>1, <1>9, ServeDoes
  <2>2. k'.steps = k.steps /\ k'.lastSnap = k.lastSnap /\ ~Parked(k')
    BY <1>2, <2>1 DEF Kernels, Parked
  <2>3. call # Idle /\ since' = since
    BY <1>9, <2>1 DEF Running, Serve
  <2>4. CellsCounted'
    <3> HIDE DEF n
    <3> QED BY <1>1, <1>2, <1>3, <2>1, CountedNext
  <2> QED BY <1>3, <2>1, <2>2, <2>3, <2>4 DEF Stamped
<1>10. ASSUME OutOfBudget \/ StayPut PROVE Stamped'
  <2>1. Running /\ call' = Stopping /\ UNCHANGED <<mem, k, since, snaps>>
    BY <1>10 DEF OutOfBudget, StayPut
  <2>2. ~Running' /\ call # Idle /\ SnapDue' = SnapDue
    BY <2>1 DEF Running, SnapDue
  <2>3. CellsCounted'
    BY <1>3, <2>1 DEF CellsCounted
  <2> QED BY <1>3, <2>1, <2>2, <2>3 DEF Stamped
<1>11. ASSUME Type \/ TraceLever \/ SeekReturn \/ UNCHANGED vars PROVE Stamped'
  <2>1. UNCHANGED <<mem, k, since, snaps, call>>
    BY <1>11 DEF Type, TraceLever, SeekReturn, vars
  <2> QED BY <1>3, <2>1 DEF Stamped, CellsCounted, SnapDue, Running
<1>12. CASE Seek
  <2>1. PICK s \in DOMAIN snaps : Sought(s)
    BY <1>1, <1>12, SeekDoes
  <2>2. /\ Ring(program, snaps, reached) /\ call = Idle /\ call' = Idle /\ snaps' = snaps
    BY <1>1, <1>12 DEF Snapshots, Seek
  <2>3. s \in Nat /\ snaps[s].k.steps = s /\ Stands(program, snaps[s].k, snaps[s].sel, snaps[s].truth)
    BY <1>2, <2>2, RingMember
  <2>4. (s + 1) % StampMod = s + 1
    BY <1>2, <2>3, StepsBounded
  <2>5. mem'.step = s + 1 /\ k'.steps = s /\ k' = snaps[s].k
    BY <2>1, <2>3, <2>4 DEF Sought
  <2>6. CellsCounted'
    BY <2>1 DEF Sought, CellsCounted, Count
  <2>7. ~Running'
    BY <2>2 DEF Running
  <2> QED BY <2>2, <2>3, <2>5, <2>6, <2>7 DEF Stamped
<1>13. CASE Reset
  <2>1. trace.on \in BOOLEAN /\ ~Seeking
    BY <1>1, <1>13 DEF Reset, Traces, Honest, Trace
  <2>2. /\ mem' = Boot(trace.on).mem /\ k' = Boot(trace.on).k /\ call' = call /\ call = Idle
    BY <1>13 DEF Reset
  <2>3. /\ k' = [state |-> "RUN", steps |-> 0, lastSnap |-> 0]
        /\ mem'.step = 1 /\ mem'.written = 0 /\ mem'.wage = Never
    BY <2>1, <2>2, BootIs
  <2>4. k'.steps = 0 /\ ~Parked(k')
    BY <2>3 DEF Parked
  <2>5. {c \in Cells : Never[c] # 0} = {}
    BY DEF Never
  <2>6. CellsCounted'
    BY <2>3, <2>5, FS_EmptySet DEF CellsCounted
  <2>7. ~Running'
    BY <2>2 DEF Running
  <2> QED BY <2>2, <2>3, <2>4, <2>6, <2>7 DEF Stamped
<1> QED BY <1>5, <1>6, <1>7, <1>8, <1>9, <1>10, <1>11, <1>12, <1>13 DEF Next

(***************************************************************************)
(* Ages                                                                    *)
(***************************************************************************)
LEMMA StampsOrdered ==
  ASSUME NEW p, NEW n \in Nat
  PROVE  StampsAt(p, n) \subseteq {n, n + 1} /\ n \in StampsAt(p, n)
BY DEF StampsAt

\* An access with a stamp of its operation, the last of the timeline.
LEMMA RealAccess ==
  ASSUME NEW p, NEW log \in Logs, NEW age \in [Cells -> Nat], NEW d \in Nat, NEW j \in BOOLEAN,
         Real(p, age, Hist(log, d), j), NEW st \in StampsAt(p, d + 1)
  PROVE  Real(p, Marked(age, log[d + 1], st), Hist(log, d + 1), j)
<1> DEFINE n == d + 1
           new == Marked(age, log[n], st)
           hist == Hist(log, n)
<1>1. ASSUME NEW c \in Cells, new[c] # 0
      PROVE  new[c] \in StampsIn(p, hist[c]) /\ (j \/ new[c] \in LastStamps(p, hist[c]))
  <2>1. CASE c \in log[n]
    <3>1. new[c] = st
      BY <2>1 DEF Marked
    <3>2. n \in hist[c] /\ hist[c] \subseteq Nat /\ \A i \in hist[c] : i <= n
      BY <2>1 DEF Hist
    <3>3. Max(hist[c]) = n
      BY <3>2, MaxIs
    <3> QED BY <3>1, <3>2, <3>3 DEF StampsIn, LastStamps
  <2>2. CASE c \notin log[n]
    <3>1. new[c] = age[c]
      BY <2>2 DEF Marked
    <3>2. hist[c] = Hist(log, d)[c]
      BY <2>2 DEF Hist
    <3> QED BY <1>1, <3>1, <3>2 DEF Real
  <2> QED BY <2>1, <2>2
<1> QED BY <1>1 DEF Real

\* Going to a snapshot of step s, which has done e operations, from a machine that has done d.
LEMMA RealRestore ==
  ASSUME NEW p, NEW log \in Logs, NEW age \in [Cells -> Nat], NEW d \in Nat, NEW s \in Nat,
         NEW e \in Nat, e = s \/ e = s - 1, NEW j \in BOOLEAN, NEW j2 \in BOOLEAN,
         Real(p, age, Hist(log, d), j), j => j2, j2 \/ e <= d,
         e # s => \A c \in Cells : age[c] = s => s \in StampsIn(p, Hist(log, s - 1)[c])
  PROVE  Real(p, Forgotten(age, s), Hist(log, e), j2)
<1> DEFINE old == Hist(log, d)
           new == Hist(log, e)
<1> SUFFICES ASSUME NEW c \in Cells, Forgotten(age, s)[c] # 0
             PROVE  /\ age[c] \in StampsIn(p, new[c])
                    /\ j2 \/ age[c] \in LastStamps(p, new[c])
  BY DEF Real, Forgotten
<1> DEFINE g == age[c]
<1>1. g \in Nat /\ g # 0 /\ g <= s
  BY DEF Forgotten
<1>2. g \in StampsIn(p, old[c]) /\ (j \/ g \in LastStamps(p, old[c]))
  BY <1>1 DEF Real
<1> HIDE DEF g
<1>3. /\ old[c] \subseteq 1..d /\ new[c] \subseteq 1..e
      /\ \A i \in old[c] : i <= e => i \in new[c]
      /\ e <= d => new[c] \subseteq old[c]
  BY DEF Hist
<1> HIDE DEF old, new
\* The operation that left the age is among those the snapshot has done, or is the call it
\* waits for; then an operation before that one has left the same age.
<1>4. g \in StampsIn(p, new[c])
  <2>1. PICK i \in old[c] : g \in StampsAt(p, i)
    BY <1>2 DEF StampsIn
  <2>2. i \in Nat /\ i <= g
    BY <1>3, <2>1, StampsOrdered
  <2>3. CASE i <= e
    BY <1>3, <2>1, <2>3 DEF StampsIn
  <2>4. CASE i > e
    <3>1. e = s - 1 /\ e # s /\ g = s
      BY <1>1, <2>2, <2>4
    <3> QED BY <3>1 DEF g, new
  <2> QED BY <2>2, <2>3, <2>4
<1>5. ASSUME ~j2 PROVE g \in LastStamps(p, new[c])
  <2>1. e <= d /\ g \in LastStamps(p, old[c])
    BY <1>2, <1>5
  <2>2. old[c] # {} /\ g \in StampsAt(p, Max(old[c]))
    BY <2>1 DEF LastStamps
  <2>3. PICK m \in old[c] : m = Max(old[c]) /\ \A i \in old[c] : i <= m
    <3>1. old[c] \subseteq Nat /\ \A i \in old[c] : i <= d
      BY <1>3
    <3> QED BY <2>2, <3>1, MaxOfBounded
  <2>4. m \in Nat /\ m <= g
    BY <1>3, <2>2, <2>3, StampsOrdered
  <2>5. new[c] \subseteq Nat
    BY <1>3
  <2>6. CASE m <= e
    <3>1. m \in new[c] /\ \A i \in new[c] : i <= m
      BY <1>3, <2>1, <2>3, <2>6
    <3>2. Max(new[c]) = m
      BY <2>5, <3>1, MaxIs
    <3> QED BY <2>2, <2>3, <3>1, <3>2 DEF LastStamps
  <2>7. CASE m > e
    <3>1. e = s - 1 /\ g = s
      BY <1>1, <2>4, <2>7
    <3>2. PICK i \in new[c] : g \in StampsAt(p, i)
      BY <1>4 DEF StampsIn
    <3>3. i \in Nat /\ i <= e /\ g <= i + 1
      BY <1>3, <3>2, StampsOrdered
    <3>4. i = e
      BY <3>1, <3>3
    <3>5. \A h \in new[c] : h <= i
      BY <1>3, <3>4
    <3>6. Max(new[c]) = i
      BY <2>5, <3>2, <3>5, MaxIs
    <3> QED BY <3>2, <3>6 DEF LastStamps
  <2> QED BY <2>4, <2>6, <2>7
<1> QED BY <1>4, <1>5 DEF g

\* No snapshot more is waiting for its call.
LEMMA UnservedFewer ==
  ASSUME NEW p, NEW age, NEW log, NEW sn, NEW sn2, NEW due, NEW due2,
         Unserved(p, age, log, sn, due),
         \A s \in DOMAIN sn2 \ due2 : Parked(sn2[s].k) => s \in DOMAIN sn \ due /\ Parked(sn[s].k)
  PROVE  Unserved(p, age, log, sn2, due2)
BY DEF Unserved

\* Forgetting ages makes no new ones.
LEMMA UnservedForgotten ==
  ASSUME NEW p, NEW age \in [Cells -> Nat], NEW log, NEW sn, NEW due, NEW r \in Nat,
         Ring(p, sn, r), Unserved(p, age, log, sn, due), NEW step \in Nat
  PROVE  Unserved(p, Forgotten(age, step), log, sn, due)
<1>1. ASSUME NEW s \in DOMAIN sn \ due, NEW c \in Cells,
             Parked(sn[s].k), Forgotten(age, step)[c] = s
      PROVE  s \in StampsIn(p, Hist(log, s - 1)[c])
  <2>1. s > 0
    BY <1>1, RingMember DEF Stands
  <2>2. age[c] = s
    BY <1>1, <2>1 DEF Forgotten
  <2> QED BY <1>1, <2>2 DEF Unserved
<1> QED BY <1>1 DEF Unserved

\* An access of operation n with stamp st leaves no age of a snapshot that waits for its call,
\* but for that of the call's own step.
LEMMA UnservedAccess ==
  ASSUME NEW p \in Programs, NEW age, NEW log \in Logs, NEW sn, NEW due, NEW due2, NEW r \in Nat,
         Ring(p, sn, r), Unserved(p, age, log, sn, due), due \subseteq due2,
         NEW n \in Nat, n > 0, NEW st \in StampsAt(p, n),
         st = n => ~Calls(p, n) \/ n \in due2 \/ n \notin DOMAIN sn
  PROVE  Unserved(p, Marked(age, log[n], st), log, sn, due2)
<1>1. ASSUME NEW s \in DOMAIN sn \ due2, NEW c \in Cells,
             Parked(sn[s].k), Marked(age, log[n], st)[c] = s
      PROVE  s \in StampsIn(p, Hist(log, s - 1)[c])
  <2>1. CASE c \notin log[n]
    <3>1. age[c] = s
      BY <1>1, <2>1 DEF Marked
    <3> QED BY <1>1, <3>1 DEF Unserved
  <2>2. CASE c \in log[n]
    <3>1. st = s
      BY <1>1, <2>2 DEF Marked
    <3>2. s > 0 /\ Calls(p, s) /\ s \in Nat
      BY <1>1, RingMember DEF Stands
    <3>3. st # n
      BY <1>1, <3>1, <3>2
    <3>4. st = n + 1
      BY <3>3, StampsOrdered
    <3>5. n \in Hist(log, s - 1)[c]
      BY <2>2, <3>1, <3>4 DEF Hist
    <3> QED BY <3>1, <3>5 DEF StampsIn
  <2> QED BY <2>1, <2>2
<1> QED BY <1>1 DEF Unserved


\* The ages of one kind, of a machine that has done d operations.
Sound(p, age, log, d, j, sn, due) ==
  Real(p, age, Hist(log, d), j) /\ Unserved(p, age, log, sn, due)
SoundAges(p, wage, rage, d, j, sn, due) ==
  Sound(p, wage, WriteLog(p), d, j, sn, due) /\ Sound(p, rage, ReadLog(p), d, j, sn, due)

\* Taking the snapshot that is due settles the one that was about to be replaced.
LEMMA SoundSaved ==
  ASSUME Typed, OnTimeline, Snapshots, k_maybe_snapshot,
         NEW age, NEW log \in Logs, NEW j \in BOOLEAN,
         Sound(program, age, log, Done(k), j, snaps, Due)
  PROVE  Sound(program, age, log, Done(k), j, snaps', {})
<1>1. k.steps \in Nat /\ (Parked(k) => k.steps > 0)
      /\ \E last \in Nat : SavedRing(last)
  <2>1. SavedRing(IF SnapDue THEN k.steps ELSE k.lastSnap)
    BY SaveKeeps
  <2> QED BY <2>1, Standing
<1>2. Real(program, age, Hist(log, Done(k)), j) /\ Unserved(program, age, log, snaps, Due)
  BY DEF Sound
<1> SUFFICES ASSUME NEW s \in DOMAIN snaps', NEW c \in Cells, Parked(snaps'[s].k), age[c] = s
             PROVE  s \in StampsIn(program, Hist(log, s - 1)[c])
  BY <1>2 DEF Sound, Unserved
<1>3. CASE SnapDue /\ s = k.steps
  <2>1. snaps'[s].k.state = k.state
    BY <1>1, <1>3 DEF SavedRing
  <2>2. Parked(k)
    BY <2>1 DEF Parked
  <2>3. Done(k) = s - 1 /\ age[c] # 0
    BY <1>1, <1>3, <2>2 DEF Done
  <2> QED BY <1>2, <2>3 DEF Real
<1>4. CASE ~(SnapDue /\ s = k.steps)
  <2>1. s \in DOMAIN snaps /\ snaps'[s] = snaps[s]
    BY <1>1, <1>4 DEF SavedRing
  <2>2. s \notin Due
    BY <1>4 DEF Due
  <2> QED BY <1>2, <2>1, <2>2 DEF Unserved
<1> QED BY <1>3, <1>4

\* Access of operation d + 1.
LEMMA SoundAccess ==
  ASSUME NEW p \in Programs, NEW log \in Logs, NEW age \in [Cells -> Nat], NEW d \in Nat,
         NEW j \in BOOLEAN, NEW sn, NEW due, NEW due2, NEW r \in Nat, Ring(p, sn, r),
         Sound(p, age, log, d, j, sn, due), due \subseteq due2, NEW st \in StampsAt(p, d + 1),
         st = d + 1 => ~Calls(p, d + 1) \/ d + 1 \in due2 \/ d + 1 \notin DOMAIN sn
  PROVE  Sound(p, Marked(age, log[d + 1], st), log, d + 1, j, sn, due2)
<1>1. Real(p, Marked(age, log[d + 1], st), Hist(log, d + 1), j)
  BY RealAccess DEF Sound
<1> DEFINE n == d + 1
<1>2. n \in Nat /\ n > 0 /\ st \in StampsAt(p, n)
      /\ (st = n => ~Calls(p, n) \/ n \in due2 \/ n \notin DOMAIN sn)
  OBVIOUS
<1>3. Unserved(p, age, log, sn, due)
  BY DEF Sound
<1> HIDE DEF n
<1>4. Unserved(p, Marked(age, log[n], st), log, sn, due2)
  BY <1>2, <1>3, UnservedAccess
<1> QED BY <1>1, <1>4 DEF Sound, n

LEMMA SoundMore ==
  ASSUME NEW p, NEW age, NEW log, NEW d, NEW j, NEW sn, NEW due, NEW due2, due \subseteq due2,
         Sound(p, age, log, d, j, sn, due)
  PROVE  Sound(p, age, log, d, j, sn, due2)
BY DEF Sound, Unserved

\* Going to the snapshot of step s.
LEMMA SoundRestore ==
  ASSUME Typed, OnTimeline, Snapshots, Stamped, call = Idle, NEW log \in Logs,
         NEW age \in [Cells -> Nat], NEW s \in DOMAIN snaps,
         NEW j2 \in BOOLEAN, j2 <=> jumped \/ s > k.steps,
         Sound(program, age, log, Done(k), jumped, snaps, Due)
  PROVE  Sound(program, Forgotten(age, s), log, Done(snaps[s].k), j2, snaps, {})
<1> DEFINE d == Done(k)
           e == Done(snaps[s].k)
<1>1. Ring(program, snaps, reached) /\ reached \in Nat /\ ~SnapDue /\ jumped \in BOOLEAN
  BY DEF Snapshots, Typed
<1>2. /\ s \in Nat /\ snaps[s].k.steps = s
      /\ Stands(program, snaps[s].k, snaps[s].sel, snaps[s].truth)
  BY <1>1, RingMember
<1>3. /\ Parked(snaps[s].k) => s > 0
      /\ e = IF Parked(snaps[s].k) THEN s - 1 ELSE s
  <2>1. Parked(snaps[s].k) => s > 0
    BY <1>2 DEF Stands
  <2>2. e = IF Parked(snaps[s].k) THEN s - 1 ELSE s
    BY <1>2 DEF Done
  <2> QED BY <2>1, <2>2
<1>4. /\ k.steps \in Nat /\ (Parked(k) => k.steps > 0)
      /\ d = IF Parked(k) THEN k.steps - 1 ELSE k.steps
  BY Standing DEF Done
<1>5. d \in Nat /\ e \in Nat
  BY <1>2, <1>3, <1>4
<1>6. Due = {}
  BY DEF Due
<1>7. Real(program, age, Hist(log, d), jumped) /\ Unserved(program, age, log, snaps, {})
  BY <1>6 DEF Sound
<1>8. s = k.steps /\ Parked(k) => Parked(snaps[s].k)
  BY <1>1 DEF Stamped
<1> HIDE DEF d, e
<1>9. j2 \/ e <= d
  <2>1. ASSUME ~j2 PROVE e <= d
    <3>1. s <= k.steps
      BY <1>2, <1>4, <2>1
    <3> QED BY <1>2, <1>3, <1>4, <1>8, <3>1
  <2> QED BY <2>1
<1>10. e # s => \A c \in Cells : age[c] = s => s \in StampsIn(program, Hist(log, s - 1)[c])
  BY <1>3, <1>7 DEF Unserved
<1>11. Real(program, Forgotten(age, s), Hist(log, e), j2)
  <2>1. (jumped => j2) /\ (e = s \/ e = s - 1)
    BY <1>2, <1>3
  <2> QED BY <1>1, <1>2, <1>5, <1>7, <1>9, <1>10, <2>1, RealRestore
<1>12. Unserved(program, Forgotten(age, s), log, snaps, {})
  BY <1>1, <1>2, <1>7, UnservedForgotten
<1> QED BY <1>11, <1>12 DEF Sound, e


LEMMA AgesStep ==
  ASSUME NoWrap, Inv, Inv', Stamped, Ages, [Next]_vars
  PROVE  Ages'
<1>1. Typed /\ OnTimeline /\ Snapshots /\ Traces
  BY DEF Inv
<1>2. /\ k \in Kernels /\ k.steps \in Nat /\ k.lastSnap \in Nat /\ program \in Programs
      /\ reached \in Nat /\ jumped \in BOOLEAN
      /\ WriteLog(program) \in Logs /\ ReadLog(program) \in Logs
  BY <1>1, Standing, LogType DEF Typed
<1>3. mem.wage \in [Cells -> Nat] /\ mem.rage \in [Cells -> Nat]
  BY <1>1, AgeTypes, TapeAssumption
<1>4. Ring(program, snaps, reached) /\ (call = Idle => ~SnapDue)
  BY <1>1 DEF Snapshots
<1>5. SoundAges(program, mem.wage, mem.rage, Done(k), jumped, snaps, Due)
  <2>1. truth.w = Hist(WriteLog(program), Done(k)) /\ truth.r = Hist(ReadLog(program), Done(k))
    BY <1>1, Standing DEF History
  <2> QED BY <2>1 DEF Ages, SoundAges, Sound
<1> SUFFICES SoundAges(program', mem'.wage, mem'.rage, Done(k'), jumped', snaps', Due')
  <2>1. truth' = History(program', Done(k'))
    BY DEF Inv, OnTimeline, Stands
  <2>2. truth'.w = Hist(WriteLog(program'), Done(k')) /\ truth'.r = Hist(ReadLog(program'), Done(k'))
    BY <2>1 DEF History
  <2> QED BY <2>2 DEF Ages, SoundAges, Sound
<1>6. ASSUME UNCHANGED <<program, k, snaps, jumped>>, mem'.wage = mem.wage, mem'.rage = mem.rage,
             Due \subseteq Due'
      PROVE  SoundAges(program', mem'.wage, mem'.rage, Done(k'), jumped', snaps', Due')
  BY <1>5, <1>6, SoundMore DEF SoundAges
<1>7. ASSUME HostCall \/ ReplayCall
      PROVE  SoundAges(program', mem'.wage, mem'.rage, Done(k'), jumped', snaps', Due')
  <2>1. PICK budget \in Nat \ {0} : Begin(budget)
    BY <1>1, <1>7, BudgetOf
  <2>2. mem'.wage = mem.wage /\ mem'.rage = mem.rage
    BY <1>1, <2>1, BeginDoes
  <2>3. UNCHANGED <<program, k, snaps, jumped>>
    BY <1>7, <2>1 DEF Begin, HostCall, ReplayCall
  <2>4. Due = {}
    BY <1>7 DEF HostCall, ReplayCall, Due
  <2> QED BY <1>6, <2>2, <2>3, <2>4
<1>8. ASSUME EndCall \/ PcBreak
      PROVE  SoundAges(program', mem'.wage, mem'.rage, Done(k'), jumped', snaps', Due')
  <2>1. /\ k_maybe_snapshot /\ UNCHANGED <<program, mem, jumped>>
        /\ k' = IF SnapDue THEN [k EXCEPT !.lastSnap = k.steps] ELSE k
    BY <1>8 DEF EndCall, PcBreak
  <2>2. k'.steps = k.steps /\ k'.state = k.state
    BY <1>2, <2>1 DEF Kernels
  <2>3. Done(k') = Done(k)
    BY <2>2 DEF Done, Parked
  <2>4. SoundAges(program, mem.wage, mem.rage, Done(k), jumped, snaps', {})
    BY <1>1, <1>2, <1>5, <2>1, SoundSaved DEF SoundAges
  <2> QED BY <2>1, <2>3, <2>4, SoundMore DEF SoundAges
<1>9. CASE Instruction
  <2> DEFINE n == k.steps + 1
  <2>1. /\ Stepped(n) /\ k_maybe_snapshot /\ k.state = "RUN"
        /\ IF Calls(program, n) THEN NotAccessed ELSE Accessed(n, n % StampMod)
        /\ UNCHANGED <<program, jumped>>
    BY <1>1, <1>9, InstructionDoes DEF Instruction
  <2>2. n % StampMod = n /\ n \in Nat /\ n > 0 /\ n = k.steps + 1
    BY <1>1, <1>2, StampsSmall
  <2>3. Done(k) = k.steps
    BY <2>1 DEF Done, Parked
  <2>4. SoundAges(program, mem.wage, mem.rage, k.steps, jumped, snaps', {})
    BY <1>1, <1>2, <1>5, <2>1, <2>3, SoundSaved DEF SoundAges
  <2> HIDE DEF n
  <2>5. k'.steps = n /\ k'.state = IF Halts(program, n) THEN "HALT"
                                   ELSE IF Calls(program, n) THEN "SYSCALL" ELSE "RUN"
    BY <2>1 DEF Stepped
  <2>6. CASE Calls(program, n)
    <3>1. ~Halts(program, n)
      BY <2>6 DEF Calls, Halts, Faults, BiosKinds
    <3>2. Done(k') = k.steps
      BY <1>2, <2>2, <2>5, <2>6, <3>1 DEF Done, Parked
    <3>3. NotAccessed
      BY <2>1, <2>6
    <3>4. mem'.wage = mem.wage /\ mem'.rage = mem.rage
      BY <3>3 DEF NotAccessed
    <3> QED BY <2>1, <2>4, <3>2, <3>4, SoundMore DEF SoundAges
  <2>7. CASE ~Calls(program, n)
    <3>1. Done(k') = n
      BY <2>5, <2>7 DEF Done, Parked
    <3>2. Accessed(n, n)
      BY <2>1, <2>2, <2>7
    <3>3. /\ mem'.wage = Marked(mem.wage, WriteLog(program)[n], n)
          /\ mem'.rage = Marked(mem.rage, ReadLog(program)[n], n)
      BY <3>2 DEF Accessed
    <3>4. n \in StampsAt(program, n)
      BY DEF StampsAt
    <3>5. Ring(program, snaps', reached') /\ reached' \in Nat
      BY <2>1 DEF Inv, Snapshots, Typed
    <3> DEFINE r == reached'
               sn == snaps'
    <3>6. Ring(program, sn, r) /\ r \in Nat
      BY <3>5
    <3> HIDE DEF sn, r
    <3>7. ASSUME NEW log \in Logs, NEW age \in [Cells -> Nat],
                 Sound(program, age, log, k.steps, jumped, sn, {})
          PROVE  Sound(program, Marked(age, log[n], n), log, n, jumped, sn, {})
      <4> DEFINE d == k.steps
                 none == {}
      <4>1. n \in StampsAt(program, d + 1) /\ ~Calls(program, d + 1) /\ none \subseteq none
            /\ d \in Nat /\ Sound(program, age, log, d, jumped, sn, none)
        BY <1>2, <2>2, <2>7, <3>4, <3>7
      <4> HIDE DEF d, none
      <4>2. Sound(program, Marked(age, log[d + 1], n), log, d + 1, jumped, sn, none)
        BY <1>2, <3>6, <4>1, SoundAccess
      <4> QED BY <2>2, <4>2 DEF d, none
    <3>8. SoundAges(program, mem'.wage, mem'.rage, n, jumped, sn, {})
      BY <1>2, <1>3, <2>4, <3>3, <3>7 DEF SoundAges, sn
    <3> QED BY <2>1, <3>1, <3>8, SoundMore DEF SoundAges, sn
  <2> QED BY <2>6, <2>7
<1>10. CASE Park
  <2>1. /\ k.state = "SYSCALL" /\ k' = [k EXCEPT !.state = "IDLE"]
        /\ UNCHANGED <<program, mem, snaps, jumped>>
    BY <1>10 DEF Park
  <2>2. k'.steps = k.steps /\ Parked(k) /\ Parked(k')
    BY <1>2, <2>1 DEF Kernels, Parked
  <2>3. Done(k') = Done(k) /\ Due = {}
    BY <2>1, <2>2 DEF Done, Due
  <2> QED BY <1>5, <2>1, <2>3, SoundMore DEF SoundAges
<1>11. CASE Serve
  <2> DEFINE n == k.steps
             st == mem.step
  <2>1. /\ Parked(k) /\ Running /\ n > 0 /\ Calls(program, n)
        /\ k' = [k EXCEPT !.state = "RUN"] /\ Accessed(n, st) /\ call' \in {Stopping, call}
        /\ UNCHANGED <<program, snaps, jumped>>
    BY <1>1, <1>11, ServeDoes DEF Serve
  <2>2. k'.steps = k.steps /\ k'.lastSnap = k.lastSnap /\ k'.state = "RUN"
    BY <1>2, <2>1 DEF Kernels
  <2>3. Done(k) = k.steps - 1 /\ Done(k') = k.steps /\ Due = {} /\ k.steps - 1 \in Nat
    BY <1>2, <2>1, <2>2 DEF Done, Parked, Due
  <2>4. st \in StampsAt(program, n) /\ (st = n => k.lastSnap < n)
    BY <2>1 DEF StampsAt, Stamped
  <2>5. k.steps \in DOMAIN snaps /\ st = k.steps => k.steps \in Due'
    <3>1. ASSUME k.steps \in DOMAIN snaps, st = k.steps PROVE k.steps \in Due'
      <4>1. k.lastSnap \in DOMAIN snaps
        BY <1>1 DEF Snapshots
      <4>2. Interval # 0 /\ k.steps - k.lastSnap >= Interval
        BY <1>2, <1>4, <2>4, <3>1, <4>1, DueAgain
      <4>3. SnapDue'
        BY <2>2, <4>2 DEF SnapDue
      <4>4. call' # Idle
        BY <2>1 DEF Running, Idle, Stopping
      <4> QED BY <2>2, <4>3, <4>4 DEF Due
    <3> QED BY <3>1
  <2> DEFINE due == Due'
  <2>6. ASSUME NEW log \in Logs, NEW age \in [Cells -> Nat],
               Sound(program, age, log, Done(k), jumped, snaps, Due)
        PROVE  Sound(program, Marked(age, log[k.steps], st), log, k.steps, jumped, snaps, due)
    <3> DEFINE d == k.steps - 1
    <3>1. /\ d \in Nat /\ d + 1 = k.steps /\ Due \subseteq due
          /\ Sound(program, age, log, d, jumped, snaps, Due)
      BY <1>2, <2>3, <2>6
    <3>2. st \in StampsAt(program, k.steps)
          /\ (st = k.steps => k.steps \in due \/ k.steps \notin DOMAIN snaps)
      BY <2>4, <2>5
    <3> HIDE DEF d, due, st
    <3>3. st \in StampsAt(program, d + 1)
          /\ (st = d + 1 => ~Calls(program, d + 1) \/ d + 1 \in due \/ d + 1 \notin DOMAIN snaps)
      BY <3>1, <3>2
    <3>4. Sound(program, Marked(age, log[d + 1], st), log, d + 1, jumped, snaps, due)
      BY <1>2, <1>4, <3>1, <3>3, SoundAccess
    <3> QED BY <3>1, <3>4
  <2>7. SoundAges(program, mem'.wage, mem'.rage, k.steps, jumped, snaps, due)
    <3>1. /\ mem'.wage = Marked(mem.wage, WriteLog(program)[k.steps], st)
          /\ mem'.rage = Marked(mem.rage, ReadLog(program)[k.steps], st)
      BY <2>1 DEF Accessed
    <3> HIDE DEF due, st
    <3> QED BY <1>2, <1>3, <1>5, <2>6, <3>1 DEF SoundAges
  <2> QED BY <2>1, <2>3, <2>7
<1>12. ASSUME OutOfBudget \/ StayPut
       PROVE  SoundAges(program', mem'.wage, mem'.rage, Done(k'), jumped', snaps', Due')
  <2>1. Running /\ call' = Stopping /\ UNCHANGED <<program, mem, k, snaps, jumped>>
    BY <1>12 DEF OutOfBudget, StayPut
  <2>2. SnapDue' = SnapDue /\ call' # Idle
    BY <2>1 DEF SnapDue, Idle, Stopping
  <2>3. Due \subseteq Due'
    BY <2>1, <2>2 DEF Due
  <2> QED BY <1>6, <2>1, <2>3
<1>13. ASSUME Type \/ TraceLever \/ SeekReturn \/ UNCHANGED vars
       PROVE  SoundAges(program', mem'.wage, mem'.rage, Done(k'), jumped', snaps', Due')
  <2>1. UNCHANGED <<program, mem, k, snaps, jumped, call>>
    BY <1>13 DEF Type, TraceLever, SeekReturn, vars
  <2>2. Due' = Due
    BY <2>1 DEF Due, SnapDue
  <2> QED BY <1>6, <2>1, <2>2
<1>14. CASE Seek
  <2>1. PICK s \in DOMAIN snaps : Sought(s)
    BY <1>1, <1>14, SeekDoes
  <2>2. call = Idle /\ UNCHANGED <<program, snaps, call>>
    BY <1>14 DEF Seek
  <2>3. /\ jumped' \in BOOLEAN /\ (jumped' <=> jumped \/ s > k.steps)
        /\ k' = snaps[s].k
        /\ mem'.wage = Forgotten(mem.wage, s) /\ mem'.rage = Forgotten(mem.rage, s)
    BY <2>1 DEF Sought
  <2>4. SoundAges(program, mem'.wage, mem'.rage, Done(snaps[s].k), jumped', snaps, {})
    <3> DEFINE j == jumped'
    <3>1. j \in BOOLEAN /\ (j <=> jumped \/ s > k.steps)
      BY <2>3
    <3> HIDE DEF j
    <3>2. /\ Sound(program, Forgotten(mem.wage, s), WriteLog(program), Done(snaps[s].k), j, snaps, {})
          /\ Sound(program, Forgotten(mem.rage, s), ReadLog(program), Done(snaps[s].k), j, snaps, {})
      BY <1>1, <1>2, <1>3, <1>5, <2>2, <3>1, SoundRestore DEF SoundAges
    <3> QED BY <2>3, <3>2 DEF SoundAges, j
  <2> QED BY <2>2, <2>3, <2>4, SoundMore DEF SoundAges
<1>15. CASE Reset
  <2>1. trace.on \in BOOLEAN /\ ~Seeking
    BY <1>1, <1>15 DEF Reset, Traces, Honest, Trace
  <2>2. mem' = Boot(trace.on).mem /\ k' = Boot(trace.on).k /\ snaps' = Anchor
    BY <1>15 DEF Reset
  <2>3. mem'.wage = Never /\ mem'.rage = Never /\ k' = [state |-> "RUN", steps |-> 0, lastSnap |-> 0]
    BY <2>1, <2>2, BootIs
  <2>4. DOMAIN Anchor = {0} /\ Anchor[0].k = [state |-> "RUN", steps |-> 0, lastSnap |-> 0]
    BY <1>2, Booted
  <2>5. \A s \in DOMAIN Anchor : ~Parked(Anchor[s].k)
    BY <2>4 DEF Parked
  <2>6. ASSUME NEW log, NEW d, NEW j, NEW due
        PROVE  Sound(program', Never, log, d, j, Anchor, due)
    <3>1. Real(program', Never, Hist(log, d), j)
      BY DEF Real, Never
    <3> QED BY <2>5, <3>1 DEF Sound, Unserved
  <2> QED BY <2>2, <2>3, <2>6 DEF SoundAges
<1> QED BY <1>7, <1>8, <1>9, <1>10, <1>11, <1>12, <1>13, <1>14, <1>15 DEF Next


(***************************************************************************)
(* The dirty pages                                                         *)
(***************************************************************************)

\* A page written by an access has a cell with the stamp of the access.
LEMMA DirtyAccess ==
  ASSUME Typed, Dirty, NEW n \in Nat, NEW st \in Nat, st > 0, since <= st,
         Accessed(n, st) \/ NotAccessed
  PROVE  wrote' \subseteq mem_dirty_pages(mem', since)
<1>1. program \in Programs /\ mem.wage \in [Cells -> 0..StampMod - 1] /\ since \in Nat
      /\ wrote \subseteq mem_dirty_pages(mem, since)
  BY AgeTypes, TapeAssumption DEF Typed, Dirty
<1>2. CASE Accessed(n, st)
  <2> DEFINE log == WriteLog(program)[n]
  <2>1. /\ mem'.wage = Marked(mem.wage, log, st)
        /\ wrote' = wrote \cup {Page(c[2]) : c \in log}
    BY <1>2 DEF Accessed
  <2>2. log \in SUBSET Cells /\ \A c \in log : c[2] \in Scanned(c[1]) /\ Page(c[2]) \in Pages
    BY <1>1, LogType, LogSets
  <2> HIDE DEF log
  <2>3. \A c \in log : mem'.wage[c] = st
    BY <2>1, <2>2 DEF Marked
  <2>4. \A c \in Cells : mem.wage[c] # 0 /\ mem.wage[c] >= since =>
                         mem'.wage[c] # 0 /\ mem'.wage[c] >= since
    BY <1>1, <2>1 DEF Marked
  <2>5. wrote \subseteq mem_dirty_pages(mem', since)
    BY <1>1, <2>4 DEF mem_dirty_pages
  <2>6. {Page(c[2]) : c \in log} \subseteq mem_dirty_pages(mem', since)
    <3>1. ASSUME NEW c \in log PROVE Page(c[2]) \in mem_dirty_pages(mem', since)
      <4>1. c \in Cells /\ mem'.wage[c] # 0 /\ mem'.wage[c] >= since
        BY <1>1, <2>2, <2>3
      <4> QED BY <2>2, <4>1 DEF mem_dirty_pages
    <3> QED BY <3>1
  <2> QED BY <2>1, <2>5, <2>6
<1>3. CASE NotAccessed
  BY <1>1, <1>3 DEF NotAccessed, mem_dirty_pages
<1> QED BY <1>2, <1>3

\* The dirty map, rewritten, has the pages of this timeline's writes.
LEMMA DirtyWritten ==
  ASSUME Typed, Ages, Dirty, dirty' = mem_dirty_pages(mem, since),
         UNCHANGED <<program, mem, since, truth, wrote>>
  PROVE  Dirty'
<1>1. wrote \subseteq mem_dirty_pages(mem, since)
  BY DEF Dirty
<1>2. ASSUME NEW p \in mem_dirty_pages(mem, since)
      PROVE  \E c \in Cells : Page(c[2]) = p /\ \E s \in StampsIn(program, truth.w[c]) : s >= since
  <2>1. PICK c \in Cells : Page(c[2]) = p /\ mem.wage[c] # 0 /\ mem.wage[c] >= since
    BY <1>2 DEF mem_dirty_pages
  <2>2. mem.wage[c] \in StampsIn(program, truth.w[c])
    BY <2>1 DEF Ages, Real
  <2> QED BY <2>1, <2>2
<1>3. mem_dirty_pages(mem', since') = mem_dirty_pages(mem, since)
  OBVIOUS
<1>4. wrote' \subseteq mem_dirty_pages(mem', since') /\ wrote' \subseteq dirty'
  BY <1>1, <1>3
<1>5. \A p \in dirty' : \E c \in Cells :
        Page(c[2]) = p /\ \E s \in StampsIn(program', truth'.w[c]) : s >= since'
  BY <1>2
<1> QED BY <1>4, <1>5 DEF Dirty

LEMMA DirtyStep ==
  ASSUME NoWrap, Inv, Stamped, Ages, Dirty, [Next]_vars
  PROVE  Dirty'
<1>1. Typed /\ OnTimeline /\ Snapshots /\ k.steps \in Nat
  BY Standing DEF Inv
<1>2. ASSUME wrote' = {}, call' # Idle \/ target' # NoStep \/ dirty' = {}
      PROVE  Dirty'
  BY <1>2 DEF Dirty, Seeking
<1>3. ASSUME wrote' \subseteq mem_dirty_pages(mem', since'), call' # Idle
      PROVE  Dirty'
  BY <1>3 DEF Dirty
<1>4. ASSUME HostCall \/ ReplayCall PROVE Dirty'
  <2>1. PICK budget \in Nat \ {0} : Begin(budget)
    BY <1>1, <1>4, BudgetOf
  <2> QED BY <1>1, <1>2, <2>1, BeginDoes
<1>5. CASE Seek
  <2>1. wrote' = {} /\ target' \in 0..reached /\ reached \in Nat
    BY <1>1, <1>5 DEF Seek, Typed
  <2>2. target' # NoStep
    BY <2>1 DEF NoStep
  <2> QED BY <1>2, <2>1, <2>2
<1>6. CASE Reset
  BY <1>2, <1>6 DEF Reset
<1>7. ASSUME EndCall \/ TraceLever \/ SeekReturn PROVE Dirty'
  <2>1. dirty' = mem_dirty_pages(mem, since) /\ UNCHANGED <<program, mem, since, truth, wrote>>
    BY <1>7 DEF EndCall, TraceLever, SeekReturn
  <2> QED BY <1>1, <2>1, DirtyWritten
<1>8. ASSUME PcBreak \/ OutOfBudget \/ Park \/ StayPut PROVE Dirty'
  <2>1. UNCHANGED <<mem, since, wrote>> /\ call' = Stopping
    BY <1>8 DEF PcBreak, OutOfBudget, Park, StayPut
  <2>2. call' # Idle
    BY <2>1 DEF Stopping, Idle
  <2>3. wrote' \subseteq mem_dirty_pages(mem', since')
    BY <2>1 DEF Dirty
  <2> QED BY <1>3, <2>2, <2>3
<1>9. ASSUME Type \/ UNCHANGED vars PROVE Dirty'
  <2>1. UNCHANGED <<program, mem, since, dirty, truth, wrote, call, target>>
    BY <1>9 DEF Type, vars
  <2> QED BY <2>1 DEF Dirty, Seeking, mem_dirty_pages
<1>10. CASE Instruction
  <2> DEFINE n == k.steps + 1
  <2>1. /\ call \in Nat /\ call > 0 /\ call' \in {Stopping, call - 1} /\ since' = since
        /\ Accessed(n, n % StampMod) \/ NotAccessed
    BY <1>1, <1>10, InstructionDoes DEF Instruction, Stepped
  <2>2. n % StampMod = n /\ n \in Nat /\ n > 0
    BY <1>1, StampsSmall
  <2>3. call' # Idle /\ call # Idle
    BY <2>1 DEF Idle, Stopping
  <2>4. since <= n
    <3>1. since <= mem.step /\ mem.step \in {k.steps, n}
      BY <2>3 DEF Stamped
    <3>2. since \in Nat
      BY <1>1, TapeAssumption DEF Typed
    <3> QED BY <1>1, <3>1, <3>2
  <2> HIDE DEF n
  <2>5. Accessed(n, n) \/ NotAccessed
    BY <2>1, <2>2
  <2>6. wrote' \subseteq mem_dirty_pages(mem', since)
    BY <1>1, <2>2, <2>4, <2>5, DirtyAccess
  <2> QED BY <1>3, <2>1, <2>3, <2>6
<1>11. CASE Serve
  <2> DEFINE st == mem.step
  <2>1. /\ Running /\ Accessed(k.steps, st) /\ call' \in {Stopping, call} /\ since' = since
    BY <1>1, <1>11, ServeDoes DEF Serve
  <2>2. call' # Idle /\ call # Idle
    BY <2>1 DEF Running, Idle, Stopping
  <2>3. st \in Nat /\ st > 0 /\ since <= st
    BY <1>1, <2>2, AgeTypes DEF Stamped
  <2> HIDE DEF st
  <2>4. wrote' \subseteq mem_dirty_pages(mem', since)
    BY <1>1, <2>1, <2>3, DirtyAccess
  <2> QED BY <1>3, <2>1, <2>2, <2>4
<1> QED BY <1>4, <1>5, <1>6, <1>7, <1>8, <1>9, <1>10, <1>11 DEF Next

(***************************************************************************)
(* Ages, cells and pages, as long as no stamp wraps                        *)
(***************************************************************************)
LEMMA AgeInvInit == Init => AgeInv
<1> SUFFICES ASSUME Init PROVE AgeInv
  OBVIOUS
<1>1. Inv
  BY InvInit
<1>2. /\ mem = Boot(TRUE).mem /\ k = Boot(TRUE).k /\ snaps = Anchor /\ call = Idle
      /\ wrote = {} /\ dirty = {} /\ target = NoStep /\ program \in Programs
  BY DEF Init
<1>3. ~Seeking
  BY <1>2 DEF Seeking
<1>4. /\ mem.step = 1 /\ mem.written = 0 /\ mem.wage = Never /\ mem.rage = Never
      /\ k = [state |-> "RUN", steps |-> 0, lastSnap |-> 0]
  BY <1>2, <1>3, BootIs
<1>5. DOMAIN Anchor = {0} /\ Anchor[0].k = k
  BY <1>2, <1>4, Booted
<1>6. ~Parked(k) /\ k.steps = 0
  BY <1>4 DEF Parked
<1> HIDE DEF Anchor
<1>7. Stamped
  <2>1. {c \in Cells : Never[c] # 0} = {}
    BY DEF Never
  <2>2. CellsCounted
    BY <1>4, <2>1, FS_EmptySet DEF CellsCounted
  <2>3. mem.step \in {k.steps, k.steps + 1} /\ mem.step > 0
    BY <1>4, <1>6
  <2>4. ~Running
    BY <1>2 DEF Running
  <2> QED BY <1>2, <1>6, <2>2, <2>3, <2>4 DEF Stamped
<1>8. Ages
  <2>1. ASSUME NEW hist, NEW j PROVE Real(program, Never, hist, j)
    BY DEF Real, Never
  <2>2. ASSUME NEW log, NEW due PROVE Unserved(program, Never, log, snaps, due)
    BY <1>2, <1>5, <1>6 DEF Unserved
  <2> QED BY <1>4, <2>1, <2>2 DEF Ages
<1>9. Dirty
  BY <1>2 DEF Dirty
<1> QED BY <1>1, <1>7, <1>8, <1>9 DEF AgeInv

LEMMA AgeInvStep ==
  ASSUME NoWrap
  PROVE  AgeInv /\ [Next]_vars => AgeInv'
<1> SUFFICES ASSUME AgeInv, [Next]_vars PROVE AgeInv'
  OBVIOUS
<1>1. Inv /\ Stamped /\ Ages /\ Dirty
  BY DEF AgeInv
<1>2. Inv'
  BY <1>1, InvStep
<1> QED BY <1>1, <1>2, StampedStep, AgesStep, DirtyStep DEF AgeInv

LEMMA StampsAreStamps ==
  /\ \A n : StampsOf(n) = StampsAt(program, n)
  /\ \A steps : StampedBy(steps) = StampsIn(program, steps)
  /\ \A steps : Latest(steps) = LastStamps(program, steps)
<1>1. \A n : StampsOf(n) = StampsAt(program, n)
  BY OperationIs DEF StampsOf, StampsAt, Calls
<1> QED BY <1>1 DEF StampedBy, StampsIn, Latest, LastStamps

LEMMA AgeInvShows == AgeInv => CellsCounted /\ AgesReal /\ DirtyFaithful
<1> SUFFICES ASSUME AgeInv PROVE CellsCounted /\ AgesReal /\ DirtyFaithful
  OBVIOUS
<1>1. Stamped /\ Ages /\ Dirty
  BY DEF AgeInv
<1>2. CellsCounted
  BY <1>1 DEF Stamped
<1>3. AgesReal
  <2> SUFFICES ASSUME NEW c \in Cells,
                      NEW view \in {<<mem.wage[c], truth.w[c]>>, <<mem.rage[c], truth.r[c]>>},
                      view[1] # 0
               PROVE  /\ view[1] \in StampedBy(view[2])
                      /\ jumped \/ view[1] \in Latest(view[2])
    BY DEF AgesReal
  <2>1. CASE view = <<mem.wage[c], truth.w[c]>>
    BY <1>1, <2>1, StampsAreStamps DEF Ages, Real
  <2>2. CASE view = <<mem.rage[c], truth.r[c]>>
    BY <1>1, <2>2, StampsAreStamps DEF Ages, Real
  <2> QED BY <2>1, <2>2
<1>4. DirtyFaithful
  BY <1>1, StampsAreStamps DEF Dirty, DirtyFaithful
<1> QED BY <1>2, <1>3, <1>4

\* mem.h:43: for programs that halt before a step stamp wraps, mem_cells_written() is the
\* number of cells that have a write age, however the host steps and seeks.
THEOREM CountIsRight ==
  ASSUME NoWrap
  PROVE  Spec => []CellsCounted
<1>1. Init => AgeInv
  BY AgeInvInit
<1>2. AgeInv /\ [Next]_vars => AgeInv'
  BY AgeInvStep
<1>3. AgeInv => CellsCounted
  BY AgeInvShows
<1> QED BY <1>1, <1>2, <1>3, PTL DEF Spec

\* mem.h:32 and snapshot.c:144: an age is a step of an access that the present timeline made,
\* and of the last one unless a seek skipped steps.
THEOREM AgesAreReal ==
  ASSUME NoWrap
  PROVE  Spec => []AgesReal
<1>1. Init => AgeInv
  BY AgeInvInit
<1>2. AgeInv /\ [Next]_vars => AgeInv'
  BY AgeInvStep
<1>3. AgeInv => AgesReal
  BY AgeInvShows
<1> QED BY <1>1, <1>2, <1>3, PTL DEF Spec

\* tos.h:46: between two calls the dirty map has the pages the last call wrote, and none that
\* the present timeline did not write since.
THEOREM DirtyMapIsFaithful ==
  ASSUME NoWrap
  PROVE  Spec => []DirtyFaithful
<1>1. Init => AgeInv
  BY AgeInvInit
<1>2. AgeInv /\ [Next]_vars => AgeInv'
  BY AgeInvStep
<1>3. AgeInv => DirtyFaithful
  BY AgeInvShows
<1> QED BY <1>1, <1>2, <1>3, PTL DEF Spec
=============================================================================
