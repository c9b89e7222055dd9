------------------------------ MODULE Brainfuck ------------------------------
(***************************************************************************)
(* src/lang/bf.c: bf_compile, byte for byte, and its output run on Cpu     *)
(* with the ports and the two console calls it uses, against what the      *)
(* source means.                                                           *)
(*                                                                         *)
(* Sizes are parameters, so that a small machine runs the same prologue:   *)
(* the program lies above the cells and the stack, see Cpu.  Abstracted:   *)
(* the text of errors, and the call that a missing input byte parks.       *)
(***************************************************************************)
EXTENDS Integers, Sequences
LOCAL INSTANCE SequencesExt
LOCAL INSTANCE Functions

CONSTANTS
  ByteMod, HalfMod, AddrMod,  \* see Cpu
  Org,          \* BF_ORG
  CellPage,     \* BF_CELL_BASE / 256
  Unbanked,     \* 60H: pages of a tape that are not in the banked window
  CapPage,      \* 76H: pages of window from which the cell count is capped
  MaxCells,     \* BF_MAX_CELLS
  Chunk,        \* BF_MOVE_CHUNK
  DepthMax,     \* BF_DEPTH_MAX
  CodeCap,      \* the smaller of cap and TOS_TPA_SIZE
  BfSources,      \* the programs: sequences of characters
  BfConfigs,      \* machines: [tapes, pages]
  Typed,        \* bytes on the console
  MaxInstr,     \* bound: instructions a behaviour runs
  Fuel          \* bound: commands of the source its meaning is worked out for

CPU == INSTANCE Cpu

CellBase == CellPage * ByteMod
Commands == {"+", "-", "<", ">", "[", "]", ".", ","}

ASSUME BrainfuckAssumption ==
  /\ ByteMod \in Nat \ {0} /\ HalfMod \in 1..ByteMod /\ AddrMod \in Nat \ {0}
  /\ Org >= ByteMod * ByteMod /\ CodeCap \in Nat /\ DepthMax \in Nat \ {0}
  /\ Chunk \in Nat \ {0} /\ MaxCells \in Nat \ {0} /\ MaxInstr \in Nat /\ Fuel \in Nat
  /\ \A config \in BfConfigs : config.tapes \in {1, 2, 4} /\ config.pages > Unbanked
  \* bf.c:204: one wrap check per call is enough, and a step left of the cells is not below 0
  /\ \A config \in BfConfigs : Chunk < (config.pages - Unbanked) * ByteMod
  /\ Chunk < MaxCells /\ Chunk <= CellBase

(***************************************************************************)
(* The compiler                                                            *)
(***************************************************************************)
emit16(v) == <<v % ByteMod, v \div ByteMod>>

\* IN 4; CPI 2; JC skip; MVI A,1; OUT 2
TapeSelect(to) == <<219, 4, 254, 2, 218>> \o emit16(to.skip) \o <<62, 1, 211, 2>>
\* IN 5; SUI 60H; MOV H,A; MVI L,0; CPI 76H; JC nocap; LXI H,30000
WindowSize(to) == <<219, 5, 214, Unbanked, 103, 46, 0, 254, CapPage, 218>>
                    \o emit16(to.nocap) \o <<33>> \o emit16(MaxCells)
\* SHLD count; XCHG; LXI H,4000H; DAD D; SHLD limit;
\* XRA A; SUB E; MOV L,A; MVI A,0; SBB D; MOV H,A; SHLD negcount
Variables(to) == <<34>> \o emit16(to.count) \o <<235, 33>> \o emit16(CellBase) \o <<25, 34>>
                   \o emit16(to.limit) \o <<175, 147, 111, 62, 0, 154, 103, 34>>
                   \o emit16(to.negcount)
\* LHLD count; MOV B,H; MOV C,L; LXI H,4000H
ClearFrom(to) == <<42>> \o emit16(to.count) \o <<68, 77, 33>> \o emit16(CellBase)
\* MVI M,0; INX H; DCX B; MOV A,B; ORA C; JNZ clr; LXI H,4000H; JMP main
ClearLoop(to) == <<54, 0, 35, 11, 120, 177, 194>> \o emit16(to.clr) \o <<33>>
                   \o emit16(CellBase) \o <<195>> \o emit16(to.main)
\* LXI D,1; right: DAD D; XCHG; LHLD limit; MOV A,E; SUB L; MOV A,D; SBB H; XCHG; RC;
\* XCHG; LHLD negcount; DAD D; RET
Right1    == <<17>> \o emit16(1)
Right(to) == <<25, 235, 42>> \o emit16(to.limit) \o <<123, 149, 122, 156, 235, 216, 235, 42>>
               \o emit16(to.negcount) \o <<25, 201>>
\* LXI D,-1; left: DAD D; MOV A,H; CPI 40H; RNC; XCHG; LHLD count; DAD D; RET
Left1     == <<17>> \o emit16(ByteMod * ByteMod - 1)
Left(to)  == <<25, 124, 254, CellPage, 208, 235, 42>> \o emit16(to.count) \o <<25, 201>>

\* No length depends on an address, so the labels follow from any of them.
Parts(to) == <<TapeSelect(to), WindowSize(to), Variables(to), ClearFrom(to), ClearLoop(to),
               Right1, Right(to), Left1, Left(to)>>
NoLabels == [skip |-> 0, nocap |-> 0, clr |-> 0, right1 |-> 0, right |-> 0, left1 |-> 0,
             left |-> 0, count |-> 0, limit |-> 0, negcount |-> 0, main |-> 0]
Labels ==
  LET after(n) == Org + Len(FlattenSeq(SubSeq(Parts(NoLabels), 1, n)))
  IN  [skip |-> after(1), nocap |-> after(2), clr |-> after(4), right1 |-> after(5),
       right |-> after(6), left1 |-> after(7), left |-> after(8), count |-> after(9),
       limit |-> after(9) + 2, negcount |-> after(9) + 4, main |-> after(9) + 6]
emit_prologue == FlattenSeq(Parts(Labels)) \o [i \in 1..6 |-> 0]

emit_add(delta) ==
  LET v == delta % ByteMod
  IN  CASE v = 0           -> << >>
        [] v = 1           -> <<52>>
        [] v = ByteMod - 1 -> <<53>>
        [] OTHER           -> <<126, 198, v, 119>>

CallBy(delta) ==
  LET by == delta % (ByteMod * ByteMod)
  IN  CASE delta = 0  -> << >>
        [] delta = 1  -> <<205>> \o emit16(Labels.right1)
        [] delta = -1 -> <<205>> \o emit16(Labels.left1)
        [] delta > 1  -> <<17>> \o emit16(by) \o <<205>> \o emit16(Labels.right)
        [] delta < -1 -> <<17>> \o emit16(by) \o <<205>> \o emit16(Labels.left)
emit_move_whole(delta) == CallBy(delta)
emit_move(delta) ==
  LET size  == IF delta < 0 THEN -delta ELSE delta
      sign  == IF delta < 0 THEN -1 ELSE 1
      whole == IF size = 0 THEN 0 ELSE (size - 1) \div Chunk
  IN  FlattenSeq([i \in 1..whole |-> CallBy(sign * Chunk)])
        \o CallBy(sign * (size - whole * Chunk))

\* Characters that are no commands are skipped, even inside a run; a NUL ends the source.
scan_next(source) ==
  LET ends == {i \in DOMAIN source : source[i] = "NUL"}
      text == IF ends = {} THEN source
              ELSE SubSeq(source, 1, (CHOOSE i \in ends : \A j \in ends : i <= j) - 1)
  IN  SelectSeq(text, LAMBDA ch : ch \in Commands)

KindOf(ch)  == CASE ch \in {"+", "-"} -> "ADD" [] ch \in {"<", ">"} -> "MOVE" [] OTHER -> ch
DeltaOf(ch) == IF ch \in {"+", ">"} THEN 1 ELSE -1
Runs(source) ==
  FoldLeft(LAMBDA runs, ch :
             IF /\ KindOf(ch) \in {"ADD", "MOVE"} /\ runs # << >>
                /\ Last(runs).kind = KindOf(ch)
             THEN [runs EXCEPT ![Len(runs)].delta = @ + DeltaOf(ch)]
             ELSE Append(runs, [kind |-> KindOf(ch), delta |-> DeltaOf(ch)]),
           << >>, scan_next(source))

bf_check_brackets(source) ==
  FoldLeft(LAMBDA acc, ch :
             IF acc.bad THEN acc
             ELSE CASE ch = "[" -> [depth |-> acc.depth + 1, bad |-> acc.depth >= DepthMax]
                    [] ch = "]" -> [depth |-> acc.depth - 1, bad |-> acc.depth = 0]
                    [] OTHER    -> acc,
           [depth |-> 0, bad |-> FALSE], scan_next(source))

\* code so far, and for every open bracket where its operand and its test are.
Open(acc) ==
  [code |-> acc.code \o <<126, 183, 202, 0, 0>>,
   stack |-> <<[patch |-> Len(acc.code) + 4, start |-> Org + Len(acc.code)]>> \o acc.stack]
Close(acc) ==
  LET frame == Head(acc.stack)
      code  == acc.code \o <<195>> \o emit16(frame.start)
      after == emit16(Org + Len(code))
  IN  [code |-> [code EXCEPT ![frame.patch] = after[1], ![frame.patch + 1] = after[2]],
       stack |-> Tail(acc.stack)]
Emit(acc, bytes) == [acc EXCEPT !.code = @ \o bytes]

bf_compile(source) ==
  LET checked == bf_check_brackets(source)
      body    == FoldLeft(LAMBDA acc, run :
                            CASE run.kind = "ADD"  -> Emit(acc, emit_add(run.delta))
                              [] run.kind = "MOVE" -> Emit(acc, emit_move(run.delta))
                              [] run.kind = "."    -> Emit(acc, <<78, 62, 2, 211, 1>>)
                              [] run.kind = ","    -> Emit(acc, <<62, 1, 211, 1, 119>>)
                              [] run.kind = "["    -> Open(acc)
                              [] run.kind = "]"    -> Close(acc),
                          [code |-> emit_prologue, stack |-> << >>], Runs(source))
      code    == Append(body.code, 118)
  IN  IF checked.bad \/ checked.depth # 0 \/ Len(code) > CodeCap THEN << >> ELSE code

(***************************************************************************)
(* What a source means: cells that wrap at their count, all zero at first  *)
(***************************************************************************)
CellCount(config) ==
  LET window == (config.pages - Unbanked) * ByteMod
  IN  IF window < MaxCells THEN window ELSE MaxCells

Depth(cmds, i, j) ==
  Len(SelectSeq(SubSeq(cmds, i, j), LAMBDA ch : ch = "["))
    - Len(SelectSeq(SubSeq(cmds, i, j), LAMBDA ch : ch = "]"))
Balanced(cmds) == /\ Depth(cmds, 1, Len(cmds)) = 0
                  /\ \A i \in DOMAIN cmds : Depth(cmds, 1, i) >= 0
Partner(cmds, i) == CHOOSE j \in DOMAIN cmds :
                      /\ cmds[i] # cmds[j]
                      /\ \/ cmds[i] = "[" /\ j > i /\ Depth(cmds, i, j) = 0
                            /\ \A n \in i..j - 1 : Depth(cmds, i, n) # 0
                         \/ cmds[i] = "]" /\ j < i /\ Depth(cmds, j, i) = 0
                            /\ \A n \in j + 1..i : Depth(cmds, n, i) # 0

Perform(cmds, count, s) ==
  LET ch == cmds[s.at]
      on == [s EXCEPT !.at = @ + 1]
  IN  CASE ch = "+" -> [on EXCEPT !.cells[s.ptr] = (@ + 1) % ByteMod]
        [] ch = "-" -> [on EXCEPT !.cells[s.ptr] = (@ - 1) % ByteMod]
        [] ch = ">" -> [on EXCEPT !.ptr = (@ + 1) % count]
        [] ch = "<" -> [on EXCEPT !.ptr = (@ - 1) % count]
        [] ch = "." -> [on EXCEPT !.out = Append(@, s.cells[s.ptr])]
        [] ch = "[" -> IF s.cells[s.ptr] # 0 THEN on ELSE [s EXCEPT !.at = Partner(cmds, @) + 1]
        [] ch = "]" -> IF s.cells[s.ptr] = 0 THEN on ELSE [s EXCEPT !.at = Partner(cmds, @) + 1]
        [] ch = "," -> IF s.in = << >> THEN [s EXCEPT !.ended = TRUE]
                       ELSE [on EXCEPT !.cells[s.ptr] = Head(s.in), !.in = Tail(@)]
Meaning(source, config) ==
  LET cmds  == scan_next(source)
      count == CellCount(config)
      first == [at |-> 1, ptr |-> 0, cells |-> [i \in 0..count - 1 |-> 0], in |-> Typed,
                out |-> << >>, ended |-> FALSE]
  IN  FoldLeft(LAMBDA s, n : IF s.ended THEN s
                             ELSE IF s.at > Len(cmds) THEN [s EXCEPT !.ended = TRUE]
                             ELSE Perform(cmds, count, s),
               first, [n \in 1..Fuel |-> n])

(***************************************************************************)
(* The program on the machine                                              *)
(***************************************************************************)
VARIABLES
  source, config,  \* what runs, and on what
  cpu,          \* cpu_t, NoCpu when no program was compiled
  other,        \* the window of the tape that is not selected
  tape,         \* the selected tape
  typed, printed,  \* the console
  meaning,      \* history: what the source means
  instrs        \* bookkeeping: instructions run

bfVars == <<source, config, cpu, other, tape, typed, printed, meaning, instrs>>

NoCpu  == [CPU!Fresh(<< >>, << >>, Org, Org) EXCEPT !.halted = TRUE]
CellWindow == CellBase..(config.pages - (Unbanked - CellPage)) * ByteMod - 1

\* The cells of every tape hold what an earlier program left there.
Loaded(code, c) ==
  LET left == [a \in 0..Org - 1 |-> IF a % 2 = 0 THEN ByteMod - 1 ELSE 1]
      text == [a \in Org..Org + Len(code) - 1 |-> code[a - Org + 1]]
      ports == [p \in 0..5 |-> IF p = 4 THEN c.tapes ELSE IF p = 5 THEN c.pages % ByteMod ELSE 0]
  IN  CPU!Fresh([a \in 0..Org + Len(code) - 1 |-> IF a < Org THEN left[a] ELSE text[a]],
                ports, Org, c.pages * ByteMod - 1)

BfInit ==
  /\ source \in BfSources /\ config \in BfConfigs
  /\ LET code == bf_compile(source)
     IN  /\ cpu = IF code = << >> THEN NoCpu ELSE Loaded(code, config)
         /\ meaning = IF code = << >> THEN << >> ELSE Meaning(source, config)
  /\ other = [a \in CellWindow |-> 2] /\ tape = 0
  /\ typed = Typed /\ printed = << >> /\ instrs = 0

\* OUT 2 selects a tape: the window shows its cells.
SelectTape(c) ==
  /\ tape' = c.out.value
  /\ IF c.out.value = tape THEN cpu' = c /\ UNCHANGED other
     ELSE /\ other' = [a \in CellWindow |-> c.mem[a]]
          /\ cpu' = [c EXCEPT !.mem = [a \in DOMAIN @ |-> IF a \in CellWindow THEN other[a] ELSE @[a]]]
  /\ UNCHANGED <<typed, printed>>

\* CONIN and CONOUT.  The end of the input halts the machine.
Bios(c) ==
  \/ /\ c.out.value = 1 /\ typed # << >>
     /\ cpu' = [c EXCEPT !.reg[CPU!A] = Head(typed)] /\ typed' = Tail(typed)
     /\ UNCHANGED <<other, tape, printed>>
  \/ /\ c.out.value = 1 /\ typed = << >>
     /\ cpu' = [c EXCEPT !.halted = TRUE] /\ UNCHANGED <<other, tape, typed, printed>>
  \/ /\ c.out.value = 2
     /\ cpu' = c /\ printed' = Append(printed, c.reg[CPU!C])
     /\ UNCHANGED <<other, tape, typed>>

BfStep ==
  /\ ~cpu.halted /\ instrs < MaxInstr
  /\ instrs' = instrs + 1
  /\ LET c == CPU!cpu_step([cpu EXCEPT !.out = CPU!NoOut])
     IN  \/ c.out.port = 2 /\ SelectTape(c)
         \/ c.out.port = 1 /\ Bios(c)
         \/ c.out = CPU!NoOut /\ cpu' = c /\ UNCHANGED <<other, tape, typed, printed>>
  /\ UNCHANGED <<source, config, meaning>>

(***************************************************************************)
(* Properties                                                              *)
(***************************************************************************)
\* A source is refused only when its brackets do not match or nest too deep, or when five
\* bytes for each command do not fit.
BfAccepts == cpu # NoCpu \/ ~Balanced(scan_next(source))
               \/ \E i \in DOMAIN scan_next(source) : Depth(scan_next(source), 1, i) > DepthMax
               \/ 5 * Len(scan_next(source)) + 1 > CodeCap - Len(emit_prologue)

\* A halted program leaves the cells, the pointer and the console as its source says, whatever
\* was on the tapes; one that runs on has printed no more than that; one whose source ends does.
BfFaithful ==
  IF cpu = NoCpu THEN BfAccepts
  ELSE /\ Balanced(scan_next(source))
       /\ IsPrefix(printed, meaning.out)
       /\ cpu.halted => /\ meaning.ended /\ printed = meaning.out /\ typed = meaning.in
                        /\ CPU!get_hl(cpu) = CellBase + meaning.ptr
                        /\ \A i \in DOMAIN meaning.cells : cpu.mem[CellBase + i] = meaning.cells[i]
       /\ meaning.ended => instrs < MaxInstr \/ cpu.halted
=============================================================================
