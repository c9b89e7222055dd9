---------------------------- MODULE TuringMachine ----------------------------
(***************************************************************************)
(* src/lang/tm.c: tm_compile from the lines of a description to its tables *)
(* and the interpreter gen_image emits, one loop of it an action, against  *)
(* the machine with unbounded tapes that the lines describe.               *)
(*                                                                         *)
(* A line is what its tokens say, a symbol is a nonzero byte, and a name a *)
(* string of at most TM_NAME_MAX characters.  Of the emitted image its     *)
(* size is kept, and the interpreter's registers are left out: only its    *)
(* variables, tables and cells are state.  A head that leaves the banked   *)
(* window ends the model's interest, since what follows is the rest of the *)
(* address space.                                                          *)
(***************************************************************************)
EXTENDS Integers, Sequences
LOCAL INSTANCE SequencesExt
LOCAL INSTANCE FiniteSetsExt

CONSTANTS
  MaxTapes, MaxStates, MaxSyms, MaxRules,  \* TM_MAX_...
  InputMax,     \* TM_INPUT_MAX
  TmCap,        \* what an image has room for: the smaller of cap and TOS_TPA_SIZE
  Blank0,       \* '_'
  StepWord,      \* 2^16: the step counter is two words
  Powers,       \* pow10: powers of ten, from the largest that the counter reaches
  Page,         \* cells of a page
  BankBase,     \* TOS_BANK_BASE
  FixedPages,   \* 60H: pages of a machine tape that are not window
  RegionPages,  \* 20H: pages of window for one TM tape
  FullPages,    \* 100H, which IN 5 reads as 0
  Texts,        \* descriptions
  Machines,     \* [k, pages]
  StepMax       \* bound: rules applied

HALT   == "halt"
Region == RegionPages * Page
Moves  == {"L", "R", "S"}

ASSUME TuringAssumption ==
  /\ {MaxTapes, MaxStates, MaxRules, TmCap, StepWord, Page, RegionPages, StepMax} \subseteq Nat \ {0}
  /\ Blank0 \in Nat \ {0} /\ 2 * InputMax < Region /\ Region % 2 = 0
  \* tm.c:367: on a full machine tape everything fits
  /\ MaxTapes * RegionPages <= FullPages - FixedPages
  /\ \A m \in Machines : m.k \in {1, 2, 4} /\ m.pages \in FixedPages + 1..FullPages

(***************************************************************************)
(* The parser.  Lines: [kind |-> "tapes", n], [kind |-> "blank", sym],     *)
(* [kind |-> "start", name], [kind |-> "input", cells], [kind |-> "none"], *)
(* [kind |-> "rule", state, rd, wr, mv, next] and, for a line whose tokens *)
(* are none of these, [kind |-> "bad"].                                    *)
(***************************************************************************)
Refuse(acc, why) == [acc EXCEPT !.err = why]

find_or_add_state(names, name) ==
  IF name \in ToSet(names) THEN names ELSE Append(names, name)
IdOf(names, name) == IF name = HALT THEN 0 ELSE CHOOSE i \in DOMAIN names : names[i] = name

Directive(acc, line) ==
  CASE line.kind = "tapes" ->
         IF acc.rules # << >> \/ line.n = 0 THEN Refuse(acc, "bad rule")
         ELSE IF line.n > MaxTapes THEN Refuse(acc, "too many tapes")
         ELSE [acc EXCEPT !.nt = line.n, !.tapes_line = acc.line]
    [] line.kind = "blank" -> [acc EXCEPT !.blank = line.sym]
    [] line.kind = "start" -> [acc EXCEPT !.start = <<line.name>>]
    [] line.kind = "input" -> IF Len(line.cells) > InputMax THEN Refuse(acc, "bad rule")
                              ELSE [acc EXCEPT !.input = line.cells]

parse_syms(field, nt)  == Len(field) = nt
parse_moves(field, nt) == Len(field) = nt /\ ToSet(field) \subseteq Moves

Rule(acc, line) ==
  LET names == LET one == find_or_add_state(acc.names, line.state)
               IN  IF line.next = HALT THEN one ELSE find_or_add_state(one, line.next)
      syms  == acc.syms \cup ToSet(line.rd) \cup ToSet(line.wr)
      twin  == \E i \in DOMAIN acc.rules :
                 acc.rules[i].state = IdOf(names, line.state) /\ acc.rules[i].rd = line.rd
  IN  IF line.state = HALT THEN Refuse(acc, "bad rule")
      ELSE IF Len(acc.rules) >= MaxRules THEN Refuse(acc, "too many rules")
      ELSE IF ~(/\ parse_syms(line.rd, acc.nt) /\ parse_syms(line.wr, acc.nt)
                /\ parse_moves(line.mv, acc.nt))
      THEN Refuse(acc, "bad rule")
      ELSE IF Cardinality(syms) > MaxSyms THEN Refuse(acc, "too many symbols")
      ELSE IF Len(names) > MaxStates THEN Refuse(acc, "too many states")
      ELSE IF twin THEN Refuse(acc, "duplicate rule")
      ELSE [acc EXCEPT !.names = names, !.syms = syms,
                       !.rules = Append(@, [state |-> IdOf(names, line.state), rd |-> line.rd,
                                            wr |-> line.wr, mv |-> line.mv,
                                            next |-> IdOf(names, line.next)])]

Line(before, line) ==
  LET acc == [before EXCEPT !.line = @ + 1]
  IN  IF before.err # "" THEN before
      ELSE IF line.kind = "none" THEN acc
      ELSE IF line.kind = "bad" THEN Refuse(acc, "bad rule")
      ELSE IF line.kind = "rule" THEN Rule(acc, line)
      ELSE Directive(acc, line)

Started(acc) ==
  LET names == IF acc.start \in {<< >>, <<HALT>>} THEN acc.names
               ELSE find_or_add_state(acc.names, acc.start[1])
  IN  IF acc.err # "" THEN acc
      ELSE IF acc.start # << >>
      THEN IF Len(names) > MaxStates THEN Refuse(acc, "too many states")
           ELSE [acc EXCEPT !.names = names, !.first = IdOf(names, acc.start[1])]
      ELSE IF acc.rules # << >> THEN [acc EXCEPT !.first = acc.rules[1].state]
      ELSE Refuse(acc, "bad rule")

\* dec_u32: the decimal digits of a line number
Digits(n) == Cardinality({e \in 0..9 : 10 ^ e <= n})

\* Bytes that gen_image emits before the tables: the start, the step loop, the dump and the
\* variables, with one copy of their parts per TM tape, the loop that copies the input if
\* there is one, and the number of the `tapes:' line in the text of "too many tapes".
Interpreter(nt, input, tapes_line) ==
  514 + 175 * nt + (IF input = << >> THEN 0 ELSE 28) + Digits(tapes_line)

\* STP and NAMEP are words, the names end in NUL after an empty one, a record holds two states
\* and three columns, and the last byte is the terminator.  The emitters' other two limits are
\* out of reach: 74 labels of TM_LBL_MAX, and 241 references of TM_FIX_MAX and two per state.
ImageSize(p) ==
  LET blob    == FoldLeft(LAMBDA n, name : n + Len(name) + 1, 1, p.names)
      records == (3 * p.nt + 2) * Len(p.rules)
  IN  Interpreter(p.nt, p.input, p.tapes_line)
        + 2 * Len(p.names) + 2 * Len(p.names) + blob + Len(p.input) + records + 1

tm_compile(text) ==
  LET p == Started(FoldLeft(Line,
             [nt |-> 1, blank |-> Blank0, start |-> << >>, input |-> << >>, rules |-> << >>,
              names |-> << >>, syms |-> {}, first |-> 0, line |-> 0, tapes_line |-> 1,
              err |-> ""], text))
  IN  IF p.err = "" /\ ImageSize(p) > TmCap THEN Refuse(p, "program too large") ELSE p

(***************************************************************************)
(* The tables: records grouped by state, where the records of a state      *)
(* start (the terminator when it has none), and the names                  *)
(***************************************************************************)
Records_ungrouped(p) == p.rules
Records(p) ==
  FlattenSeq([s \in DOMAIN p.names |-> SelectSeq(p.rules, LAMBDA r : r.state = s)])
HasRules(p, s) == \E i \in DOMAIN p.rules : p.rules[i].state = s
STP(p, s) == IF HasRules(p, s)
             THEN CHOOSE i \in DOMAIN Records(p) :
                    Records(p)[i].state = s /\ \A j \in 1..i - 1 : Records(p)[j].state # s
             ELSE Len(p.rules) + 1
NameOf(p, s) == IF HasRules(p, s) THEN << >> ELSE <<p.names[s]>>

\* Where TM tape j lives on a machine with k tapes.
TapeOf(m, j) == j % m.k
HeadOf(m, j) == BankBase + (j \div m.k) * Region + Region \div 2
TooMany(p, m) ==
  LET qmax   == (p.nt - 1) \div m.k
      needed == FixedPages + RegionPages + qmax * RegionPages
      pages  == m.pages % FullPages
  IN  pages # 0 /\ pages < needed

(***************************************************************************)
(* The state of the emitted interpreter                                    *)
(***************************************************************************)
VARIABLES
  text, machine,
  prog,         \* what tm_compile made of the text
  cells,        \* the window of every machine tape
  head, lo, hi, \* HEAD, MIN and MAX of every TM tape
  cur,          \* the state, 0 for TM_HALT_ID
  steps,        \* two words, the low one first
  shown,        \* lines printed
  phase,        \* "refused", "run", "done"
  ideal         \* history: the machine that the lines describe

tmVars == <<text, machine, prog, cells, head, lo, hi, cur, steps, shown, phase, ideal>>

Tapes(p) == 0..p.nt - 1
WindowEnd(m) == BankBase + (m.pages - FixedPages) * Page - 1
Window(m) == BankBase..WindowEnd(m)

(***************************************************************************)
(* The machine of the lines                                                *)
(***************************************************************************)
Rules(t)    == {t[i] : i \in {n \in DOMAIN t : t[n].kind = "rule"}}
Latest(t, kind, field, default) ==
  LET at == {n \in DOMAIN t : t[n].kind = kind}
  IN  IF at = {} THEN default ELSE t[CHOOSE n \in at : \A o \in at : o <= n][field]
Arity(t)    == Latest(t, "tapes", "n", 1)
BlankOf(t)  == Latest(t, "blank", "sym", Blank0)
InputOf(t)  == Latest(t, "input", "cells", << >>)
FirstRule(t) == t[CHOOSE n \in DOMAIN t : t[n].kind = "rule"
                                         /\ \A o \in 1..n - 1 : t[o].kind # "rule"]
StartOf(t)  == IF \E n \in DOMAIN t : t[n].kind = "start" THEN Latest(t, "start", "name", "")
               ELSE FirstRule(t).state

StatesOf(t) == ({r.state : r \in Rules(t)} \cup {r.next : r \in Rules(t)} \cup {StartOf(t)}) \ {HALT}

\* What a text has to satisfy to be a machine, in no order of lines but that of tapes and rules.
WellFormed(t) ==
  /\ \A n \in DOMAIN t : t[n].kind # "bad"
  /\ \A n \in DOMAIN t : t[n].kind = "tapes" =>
       t[n].n \in 1..MaxTapes /\ \A o \in 1..n - 1 : t[o].kind # "rule"
  /\ \A n \in DOMAIN t : t[n].kind = "input" => Len(t[n].cells) <= InputMax
  /\ \A r \in Rules(t) : /\ r.state # HALT /\ ToSet(r.mv) \subseteq Moves
                         /\ {Len(r.rd), Len(r.wr), Len(r.mv)} = {Arity(t)}
  /\ \A n, o \in DOMAIN t :
       (n # o /\ t[n].kind = "rule" /\ t[o].kind = "rule" /\ t[n].state = t[o].state)
         => t[n].rd # t[o].rd
  /\ \E n \in DOMAIN t : t[n].kind \in {"rule", "start"}
  /\ Cardinality(StatesOf(t)) <= MaxStates
  /\ Cardinality(UNION {ToSet(r.rd) \cup ToSet(r.wr) : r \in Rules(t)}) <= MaxSyms
  /\ Cardinality({n \in DOMAIN t : t[n].kind = "rule"}) <= MaxRules

\* A state costs five bytes and its name, a rule two and three for each tape.
Fits(t) ==
  LET tapesAt == {n \in DOMAIN t : t[n].kind = "tapes"}
      rules   == Cardinality({n \in DOMAIN t : t[n].kind = "rule"})
  IN  Interpreter(Arity(t), InputOf(t), Max(tapesAt \cup {1}))
        + MapThenSumSet(LAMBDA name : 5 + Len(name), StatesOf(t))
        + rules * (2 + 3 * Arity(t)) + Len(InputOf(t)) + 2 <= TmCap

\* tapes: functions of the positions written so far, the head starting at 0.
IdealStart(t) ==
  [state |-> StartOf(t), at |-> [j \in 0..Arity(t) - 1 |-> 0], steps |-> 0, inside |-> TRUE,
   tape |-> [j \in 0..Arity(t) - 1 |->
               IF j # 0 THEN << >> ELSE [p \in 0..Len(InputOf(t)) - 1 |-> InputOf(t)[p + 1]]]]
On(t, d, j, p) == IF p \in DOMAIN d.tape[j] THEN d.tape[j][p] ELSE BlankOf(t)
Applies(t, d)  == {r \in Rules(t) : /\ d.state = r.state
                                    /\ \A j \in DOMAIN d.at : r.rd[j + 1] = On(t, d, j, d.at[j])}
Put(f, p, v)   == [q \in DOMAIN f \cup {p} |-> IF q = p THEN v ELSE f[q]]
Delta(mv)      == CASE mv = "L" -> -1 [] mv = "R" -> 1 [] mv = "S" -> 0
IdealStep(t, d) ==
  IF Applies(t, d) = {} THEN d
  ELSE LET r  == CHOOSE one \in Applies(t, d) : TRUE
           at == [j \in DOMAIN d.at |-> d.at[j] + Delta(r.mv[j + 1])]
       IN  [state |-> r.next, at |-> at, steps |-> d.steps + 1,
            tape |-> [j \in DOMAIN d.at |-> Put(d.tape[j], d.at[j], r.wr[j + 1])],
            inside |-> d.inside /\ \A j \in DOMAIN at :
                         at[j] >= -(Region \div 2) /\ at[j] < Region \div 2]

\* A state without rules prints its name unless the machine never left its start; then the
\* tapes without the blanks around them.
IdealLines(t, d) ==
  LET named == /\ d.steps # 0 /\ d.state # HALT /\ \A r \in Rules(t) : r.state # d.state
      used(j) == {p \in DOMAIN d.tape[j] : d.tape[j][p] # BlankOf(t)}
      trimmed(j) == IF used(j) = {} THEN << >>
                    ELSE [i \in 1..Max(used(j)) - Min(used(j)) + 1 |->
                            On(t, d, j, Min(used(j)) + i - 1)]
  IN  (IF named THEN <<d.state>> ELSE << >>) \o [j \in 1..Arity(t) |-> trimmed(j - 1)]

(***************************************************************************)
(* The interpreter                                                         *)
(***************************************************************************)
\* From the first instruction to the step loop.  The window is zero at boot.
TmBegin(p, m) ==
  LET at == [j \in Tapes(p) |-> HeadOf(m, j)]
      n  == Len(p.input)
  IN  /\ head = at /\ lo = at /\ hi = [at EXCEPT ![0] = IF n = 0 THEN @ ELSE @ + n - 1]
      /\ cells = [k \in 0..m.k - 1 |->
                    [a \in Window(m) |-> IF k = 0 /\ a \in at[0]..at[0] + n - 1
                                         THEN p.input[a - at[0] + 1] ELSE 0]]
      /\ phase = "run" /\ shown = << >> /\ ideal = IdealStart(text)

NotRun == /\ head = << >> /\ lo = << >> /\ hi = << >> /\ cells = << >> /\ ideal = << >>

TmInit ==
  /\ text \in Texts /\ machine \in Machines /\ prog = tm_compile(text)
  /\ cur = prog.first /\ steps = <<0, 0>>
  /\ \/ /\ prog.err # "" /\ NotRun /\ phase = "refused" /\ shown = << >>
     \/ /\ prog.err = "" /\ TooMany(prog, machine) /\ NotRun
        /\ phase = "done" /\ shown = <<"too many tapes">>
     \/ /\ prog.err = "" /\ ~TooMany(prog, machine) /\ TmBegin(prog, machine)

CellAt(j)  == LET v == cells[TapeOf(machine, j)][head[j]] IN IF v = 0 THEN prog.blank ELSE v
CurSym     == [j \in 1..prog.nt |-> CellAt(j - 1)]
Inside     == \A j \in Tapes(prog) : head[j] \in Window(machine)

\* Records are tried from STP[cur] until one matches or belongs to another state.
Scanned ==
  LET from  == STP(prog, cur)
      stops == {i \in from..Len(prog.rules) :
                  Records(prog)[i].state # cur \/ Records(prog)[i].rd = CurSym}
  IN  IF stops = {} THEN Len(prog.rules) + 1 ELSE Min(stops)
Matched == Scanned <= Len(prog.rules) /\ Records(prog)[Scanned].state = cur

\* Every tape is written before any head moves.
Written(r) ==
  FoldLeft(LAMBDA c, j : [c EXCEPT ![TapeOf(machine, j - 1)][head[j - 1]] = r.wr[j]],
           cells, [j \in 1..prog.nt |-> j])

\* INX H of the low word carries into the high one.
Counted == LET low == (steps[1] + 1) % StepWord
           IN  <<low, IF low = 0 THEN (steps[2] + 1) % StepWord ELSE steps[2]>>

TmApply ==
  /\ phase = "run" /\ cur # 0 /\ Inside /\ Matched /\ ideal.steps < StepMax
  /\ LET r == Records(prog)[Scanned]
     IN  /\ cells' = Written(r)
         /\ head'  = [j \in Tapes(prog) |-> head[j] + Delta(r.mv[j + 1])]
         /\ lo'    = [j \in Tapes(prog) |-> IF head'[j] < lo[j] THEN head'[j] ELSE lo[j]]
         /\ hi'    = [j \in Tapes(prog) |-> IF hi[j] < head'[j] THEN head'[j] ELSE hi[j]]
         /\ cur'   = r.next
  /\ steps' = Counted
  /\ ideal' = IdealStep(text, ideal)
  /\ UNCHANGED <<text, machine, prog, shown, phase>>

\* DUMPTAPE looks for the first and the last cell that is no blank, from MIN and from MAX.
dumptape(j) ==
  LET tape == cells[TapeOf(machine, j)]
      full == {a \in lo[j]..hi[j] : tape[a] \notin {0, prog.blank}}
  IN  IF full = {} THEN << >>
      ELSE [i \in 1..Max(full) - Min(full) + 1 |->
              LET v == tape[Min(full) + i - 1] IN IF v = 0 THEN prog.blank ELSE v]

\* SUB32 takes each power of ten away as often as it fits; leading zeros are not printed.
StepDigits ==
  LET taken == FoldLeft(LAMBDA acc, power :
                          [left |-> acc.left % power, digits |-> Append(acc.digits, acc.left \div power)],
                        [left |-> steps[1] + StepWord * steps[2], digits |-> << >>], Powers)
      first == Min({i \in DOMAIN Powers : taken.digits[i] # 0} \cup {Len(Powers)})
  IN  SubSeq(taken.digits, first, Len(Powers))

TmHalt ==
  /\ phase = "run"
  /\ (cur = 0) \/ (Inside /\ ~Matched)
  /\ \A j \in Tapes(prog) : lo[j] \in Window(machine) /\ hi[j] \in Window(machine)
  /\ LET name == IF cur = 0 \/ steps = <<0, 0>> THEN << >> ELSE NameOf(prog, cur)
     IN  shown' = name \o [j \in 1..prog.nt |-> dumptape(j - 1)] \o <<StepDigits>>
  /\ phase' = "done"
  /\ UNCHANGED <<text, machine, prog, cells, head, lo, hi, cur, steps, ideal>>

TmStep == TmApply \/ TmHalt

(***************************************************************************)
(* Properties                                                              *)
(***************************************************************************)
\* tm.c:361: the tapes that a program starts on have regions of their own, inside the window.
Housed(t, m) ==
  \A j \in 0..Arity(t) - 1 : HeadOf(m, j) + Region \div 2 - 1 <= WindowEnd(m)

\* What was written by each of the tapes' own rules is in its cells, and nothing else.
SameTapes ==
  \A j \in Tapes(prog) : \A p \in -(Region \div 2)..Region \div 2 - 1 :
    LET v == cells[TapeOf(machine, j)][HeadOf(machine, j) + p]
    IN  (IF v = 0 THEN prog.blank ELSE v) = On(text, ideal, j, p)

Value(digits) == FoldLeft(LAMBDA v, digit : 10 * v + digit, 0, digits)

\* tm.c:1-25: exactly the well-formed texts whose image there is room for become programs, and
\* "program too large" is said of no other; a program refuses the machines that do not hold
\* its tapes; one that runs agrees with the unbounded machine of its lines
\* after every rule, until a head leaves its region, halts when that halts, and prints its
\* tapes and the number of its steps.
TmFaithful ==
  /\ (phase = "refused") = ~(WellFormed(text) /\ Fits(text))
  /\ (prog.err = "program too large") = (WellFormed(text) /\ ~Fits(text))
  /\ phase # "refused" => (ideal = << >>) = ~Housed(text, machine)
  /\ (phase # "refused" /\ ideal # << >> /\ ideal.inside) =>
       /\ SameTapes
       /\ phase = "done" =>
            /\ ideal.state = HALT \/ Applies(text, ideal) = {}
            /\ Front(shown) = IdealLines(text, ideal)
            /\ Value(Last(shown)) = ideal.steps
       /\ (phase = "run" /\ ideal.steps < StepMax) => Inside /\ (Matched = (Applies(text, ideal) # {}))
=============================================================================
