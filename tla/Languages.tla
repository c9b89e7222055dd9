------------------------------ MODULE Languages ------------------------------
(***************************************************************************)
(* tos_compile (src/api/api.c): the language picks the compiler, and the   *)
(* program it makes runs on the 8080 of src/emu/cpu.c.  Brainfuck,         *)
(* TuringMachine and Assembler are the compilers; Cpu, at its real width,  *)
(* is held here against a ripple-carry adder and against its own tables.   *)
(***************************************************************************)
EXTENDS Brainfuck, TuringMachine, Assembler
LOCAL INSTANCE SequencesExt

CONSTANTS
  Operands      \* second operands tried with every accumulator

VARIABLES
  lang,         \* TOS_LANG_..., or "8080" for the instructions on their own
  probe         \* the accumulator tried

vars == <<bfVars, tmVars, asmVars, lang, probe>>

Wide == INSTANCE Cpu WITH ByteMod <- 256, HalfMod <- 16, AddrMod <- 65536

BfIdle == /\ source = << >> /\ config = << >> /\ cpu = NoCpu /\ other = << >> /\ tape = 0
          /\ typed = << >> /\ printed = << >> /\ meaning = << >> /\ instrs = 0
TmIdle == /\ text = << >> /\ machine = << >> /\ prog = << >> /\ NotRun /\ cur = 0
          /\ steps = <<0, 0>> /\ shown = << >> /\ phase = "refused"
AsmIdle == asource = << >> /\ asm = << >>

Init ==
  \/ lang = "BF"   /\ BfInit /\ TmIdle /\ AsmIdle /\ probe = 0
  \/ lang = "TM"   /\ BfIdle /\ TmInit /\ AsmIdle /\ probe = 0
  \/ lang = "ASM"  /\ BfIdle /\ TmIdle /\ AsmInit /\ probe = 0
  \/ lang = "8080" /\ BfIdle /\ TmIdle /\ AsmIdle /\ probe = 0

ProbeNext == lang = "8080" /\ probe < 255 /\ probe' = probe + 1
               /\ UNCHANGED <<bfVars, tmVars, asmVars>>

Next ==
  /\ \/ lang = "BF" /\ BfStep /\ UNCHANGED <<tmVars, asmVars, probe>>
     \/ lang = "TM" /\ TmStep /\ UNCHANGED <<bfVars, asmVars, probe>>
     \/ lang = "ASM" /\ AsmStep /\ UNCHANGED <<bfVars, tmVars, probe>>
     \/ ProbeNext
  /\ UNCHANGED lang

Spec == Init /\ [][Next]_vars

(***************************************************************************)
(* What the instructions should do, from the gates up                      *)
(***************************************************************************)
BitOf(v, n) == (v \div 2 ^ n) % 2
\* Carries of x + y + carry: into bit 0, and out of every bit.
Carries(x, y, carry) ==
  FoldLeft(LAMBDA c, n : Append(c, (BitOf(x, n) + BitOf(y, n) + Last(c)) \div 2),
           <<carry>>, [n \in 1..8 |-> n - 1])
Adder(x, y, carry) ==
  LET c    == Carries(x, y, carry)
      bit(n) == (BitOf(x, n) + BitOf(y, n) + c[n + 1]) % 2
      ones == {n \in 0..7 : bit(n) = 1}
  IN  [v |-> FoldLeft(LAMBDA sum, n : sum + bit(n - 1) * 2 ^ (n - 1), 0, [n \in 1..8 |-> n]),
       f |-> [s |-> bit(7) = 1, z |-> ones = {}, ac |-> c[5] = 1, cy |-> c[9] = 1,
              p |-> FoldLeft(LAMBDA even, n : even = (bit(n - 1) = 0), TRUE, [n \in 1..8 |-> n])]]
Borrowing(r) == [r EXCEPT !.f.cy = ~@]

\* A machine about to run the one instruction op: A is a, B is v, HL and DE are pairs of them.
Before(op, a, v, cy) ==
  [Wide!Fresh(<<0, 0, op, 0, 0>>, << >>, 3, 4) EXCEPT
     !.reg = [r \in DOMAIN @ |-> IF r \in {Wide!A, Wide!H, Wide!E} THEN a ELSE v], !.f.cy = cy]
Run(op, a, v, cy) == Wide!cpu_step(Before(op, a, v, cy))
Outcome(c) == [v |-> c.reg[Wide!A], f |-> c.f]

BCD(v)      == v % 16 < 10 /\ v \div 16 < 10
Decimal(v)  == 10 * (v \div 16) + (v % 16)
AddThenDaa(a, v) == Wide!alu_daa(Wide!alu_add(a, v, 0).v, Wide!alu_add(a, v, 0).f)

AluOn(a, v, cy) ==
  LET carry == IF cy THEN 1 ELSE 0
      added == Adder(a, v, 0)
      taken == Borrowing(Adder(a, 255 - v, 1))
      kept(r) == [r EXCEPT !.f.cy = cy]
  IN  /\ Outcome(Run(128, a, v, cy)) = added
      /\ Outcome(Run(136, a, v, cy)) = Adder(a, v, carry)
      /\ Outcome(Run(144, a, v, cy)) = taken
      /\ Outcome(Run(152, a, v, cy)) = Borrowing(Adder(a, 255 - v, 1 - carry))
      /\ Outcome(Run(184, a, v, cy)) = [taken EXCEPT !.v = a]
      /\ Outcome(Run(60, a, v, cy)) = kept(Adder(a, 1, 0))
      /\ Outcome(Run(61, a, v, cy)) = kept(Adder(a, 254, 1))
      \* DAD D is the two byte additions of HL and DE: H is a, L and D are v, E is a
      /\ LET sum == Run(25, a, v, cy)
             high == Adder(a, v, IF added.f.cy THEN 1 ELSE 0)
         IN  Wide!get_hl(sum) = 256 * high.v + added.v /\ sum.f.cy = high.f.cy
      /\ BCD(a) /\ BCD(v) =>
           LET sum == AddThenDaa(a, v)
           IN  Decimal(a) + Decimal(v) = Decimal(sum.v) + (IF sum.f.cy THEN 100 ELSE 0)
                 /\ BCD(sum.v)
      /\ Wide!unpack_psw(Wide!pack_psw(added.f)) = added.f

\* An instruction takes from memory what cpu_opcode_len and disasm_one say it is long; its
\* cycles depend on a condition exactly when its jump does; and the assembler has for every
\* opcode a mnemonic, which makes an instruction of that length.
TablesAgree ==
  LET made == [op \in 0..255 |->
                 {Len(Encode(kind, base, regs, 0)) :
                    <<kind, base, regs>> \in
                      {t \in UNION {{k} \X g_mn[k] \X RegsOf(k) : k \in DOMAIN g_mn} :
                         Opcode(t[1], t[2], t[3], op \div 8) = op}}]
  IN  \A op \in 0..255 :
        /\ Wide!cpu_opcode_len(op) = 1 + Wide!Fetched(op)
        /\ Wide!disasm_one(op) = Wide!cpu_opcode_len(op)
        /\ made[op] = {Wide!cpu_opcode_len(op)}
        /\ (Wide!cpu_opcode_cycles(op) = "CALL") = Wide!Ccc(op)
        /\ (Wide!cpu_opcode_cycles(op) = "RET") = Wide!Rcc(op)

(***************************************************************************)
(* Properties                                                              *)
(***************************************************************************)
\* bf.c: what a Brainfuck source means is what its program does, on every machine.
BrainfuckRuns == lang = "BF" => BfFaithful

\* tm.c: a Turing machine's program is that machine, while no head leaves its region.
MachineRuns == lang = "TM" => TmFaithful

\* asm.c: two passes produce what one that knew every symbol would.
TwoPassesAgree == lang = "ASM" => AsmFaithful

\* cpu.c: arithmetic and its flags are those of the adder, subtraction that of the complement,
\* DAA gives decimal sums; and the five tables that list the opcodes agree.
CpuExact ==
  lang = "8080" => /\ \A v \in Operands, cy \in BOOLEAN : AluOn(probe, v, cy)
                   /\ probe = 0 => TablesAgree
=============================================================================
