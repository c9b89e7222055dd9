--------------------------------- MODULE Cpu ---------------------------------
(***************************************************************************)
(* src/emu/cpu.c: the 8080, every opcode, as a function from the machine   *)
(* before an instruction to the machine after it; and the tables that      *)
(* src/emu/disasm.c and cpu_opcode_len keep of the same opcodes.           *)
(*                                                                         *)
(* Registers are ByteMod wide.  Programs and stacks may lie above what a   *)
(* register pair reaches, so that small registers can run real code: high  *)
(* bytes of their addresses are then wider than a register.  Abstracted:   *)
(* the cycle table (only which opcodes depend on a condition), tape faults *)
(* (Tape has them) and RIM and SIM, which no opcode reaches.               *)
(***************************************************************************)
EXTENDS Integers, Sequences, Bitwise

CONSTANTS
  ByteMod,      \* 2^8
  HalfMod,      \* 2^4: AC is the carry out of the low half
  AddrMod       \* 2^16

\* Register codes of the opcodes, M being the byte HL points to.
B == 0
C == 1
D == 2
E == 3
H == 4
L == 5
M == 6
A == 7

NoOut == [port |-> -1, value |-> 0]

\* io_in_ports is fixed while a program runs, and mem is what the selected tapes show.
Fresh(mem, ports, pc, sp) ==
  [reg |-> [r \in (B..A) \ {M} |-> 0], mem |-> mem, ports |-> ports, pc |-> pc, sp |-> sp,
   f |-> [s |-> FALSE, z |-> FALSE, ac |-> FALSE, p |-> FALSE, cy |-> FALSE],
   halted |-> FALSE, out |-> NoOut, ei |-> FALSE]

(***************************************************************************)
(* Registers, pairs and the stack                                          *)
(***************************************************************************)
Bit(b)   == IF b THEN 1 ELSE 0
Word(hi, lo) == hi * ByteMod + lo

get_rp(c, rp)    == IF rp = 3 THEN c.sp ELSE Word(c.reg[2 * rp], c.reg[2 * rp + 1])
set_rp(c, rp, v) ==
  IF rp = 3 THEN [c EXCEPT !.sp = v % AddrMod]
  ELSE [c EXCEPT !.reg[2 * rp] = (v \div ByteMod) % ByteMod, !.reg[2 * rp + 1] = v % ByteMod]
get_hl(c) == get_rp(c, 2)

read_reg(c, r)     == IF r = M THEN c.mem[get_hl(c)] ELSE c.reg[r]
write_reg(c, r, v) == IF r = M THEN [c EXCEPT !.mem[get_hl(c)] = v] ELSE [c EXCEPT !.reg[r] = v]

read16(c, at)      == Word(c.mem[(at + 1) % AddrMod], c.mem[at])
write16(c, at, v)  == [c EXCEPT !.mem[at] = v % ByteMod,
                                !.mem[(at + 1) % AddrMod] = v \div ByteMod]
push16(c, v)       == LET sp == (c.sp - 2) % AddrMod IN [write16(c, sp, v) EXCEPT !.sp = sp]
popped(c)          == [c EXCEPT !.sp = (@ + 2) % AddrMod]

(***************************************************************************)
(* Flags and the ALU, each result with the flags that go with it           *)
(***************************************************************************)
Ones[v \in Nat] == IF v = 0 THEN 0 ELSE (v % 2) + Ones[v \div 2]
parity_even(v)  == Ones[v] % 2 = 0

Flags(v, cy, ac) ==
  [s |-> v >= ByteMod \div 2, z |-> v = 0, ac |-> ac, p |-> parity_even(v), cy |-> cy]
Result(v, cy, ac) == [v |-> v, f |-> Flags(v, cy, ac)]

Low(v) == v % HalfMod
alu_add(a, v, carry) ==
  LET sum == a + v + carry
  IN  Result(sum % ByteMod, sum >= ByteMod, Low(a) + Low(v) + carry >= HalfMod)

\* A + ~v + !borrow: AC is the carry of that addition, CY the borrow.
sub_ac_borrows(a, v, borrow) == Low(a) < Low(v) + borrow
sub_ac(a, v, borrow) == Low(a) + Low(ByteMod - 1 - v) + 1 - borrow >= HalfMod
alu_sub(a, v, borrow) ==
  Result((a - v - borrow) % ByteMod, a < v + borrow, sub_ac(a, v, borrow))
alu_cmp(a, v) == [v |-> a, f |-> Flags((a - v) % ByteMod, a < v, sub_ac(a, v, 0))]
alu_ana(a, v) == Result(a & v, FALSE, (a | v) & (HalfMod \div 2) # 0)
alu_xra(a, v) == Result(a ^^ v, FALSE, FALSE)
alu_ora(a, v) == Result(a | v, FALSE, FALSE)

Operate(kind, a, v, cy) ==
  CASE kind = 0 -> alu_add(a, v, 0)
    [] kind = 1 -> alu_add(a, v, Bit(cy))
    [] kind = 2 -> alu_sub(a, v, 0)
    [] kind = 3 -> alu_sub(a, v, Bit(cy))
    [] kind = 4 -> alu_ana(a, v)
    [] kind = 5 -> alu_xra(a, v)
    [] kind = 6 -> alu_ora(a, v)
    [] kind = 7 -> alu_cmp(a, v)

Settle(c, r) == [c EXCEPT !.reg[A] = r.v, !.f = r.f]

\* INR and DCR leave CY alone.
alu_inr(c, r) ==
  LET v == (read_reg(c, r) + 1) % ByteMod
  IN  [write_reg(c, r, v) EXCEPT !.f = Flags(v, c.f.cy, Low(v) = 0)]
alu_dcr(c, r) ==
  LET old == read_reg(c, r)
      v   == (old - 1) % ByteMod
  IN  [write_reg(c, r, v) EXCEPT !.f = Flags(v, c.f.cy, Low(old) # 0)]

alu_dad(c, rp) ==
  LET sum == get_hl(c) + get_rp(c, rp)
  IN  [set_rp(c, 2, sum) EXCEPT !.f.cy = sum >= ByteMod * ByteMod]

alu_daa(a, f) ==
  LET low    == IF Low(a) > 9 \/ f.ac THEN 6 ELSE 0
      carry  == a > 9 * HalfMod + 9 \/ f.cy
      adjust == low + IF carry THEN 6 * HalfMod ELSE 0
  IN  Result((a + adjust) % ByteMod, carry, Low(a) + low >= HalfMod)

\* RLC RRC RAL RAR
Rotate(c, kind) ==
  LET a    == c.reg[A]
      out  == IF kind \in {0, 2} THEN a >= ByteMod \div 2 ELSE a % 2 = 1
      in   == IF kind \in {0, 1} THEN out ELSE c.f.cy
      left == ((2 * a) % ByteMod) + Bit(in)
      right == (a \div 2) + Bit(in) * (ByteMod \div 2)
  IN  [c EXCEPT !.reg[A] = IF kind \in {0, 2} THEN left ELSE right, !.f.cy = out]

cond_true(f, cc) ==
  LET flag == CASE cc \in {0, 1} -> f.z [] cc \in {2, 3} -> f.cy
                [] cc \in {4, 5} -> f.p [] cc \in {6, 7} -> f.s
  IN  flag = (cc % 2 = 1)

\* Bit 1 of a saved PSW is always set, bits 3 and 5 never.
pack_psw(f) == 128 * Bit(f.s) + 64 * Bit(f.z) + 16 * Bit(f.ac) + 4 * Bit(f.p) + 2 + Bit(f.cy)
unpack_psw(v) ==
  [s |-> v & 128 # 0, z |-> v & 64 # 0, ac |-> v & 16 # 0, p |-> v & 4 # 0, cy |-> v & 1 # 0]

(***************************************************************************)
(* cpu_step.  Operands follow the opcode; pc is past them when an          *)
(* instruction acts.                                                       *)
(***************************************************************************)
Mid(op)   == (op \div 8) % 8
Pair(op)  == (op \div 16) % 4
Jcc(op)   == op >= 192 /\ op % 8 = 2
Ccc(op)   == op >= 192 /\ op % 8 = 4
Rcc(op)   == op >= 192 /\ op % 8 = 0
Call(op)  == op \in {205, 221, 237, 253}
Jmp(op)   == op \in {195, 203}
Lxi(op)   == op < 64 /\ op % 16 = 1
Direct(op) == op \in {34, 42, 50, 58}
Mvi(op)   == op < 64 /\ op % 8 = 6
AluImm(op) == op >= 192 /\ op % 8 = 6
Fetched(op) ==
  IF Lxi(op) \/ Direct(op) \/ Jcc(op) \/ Ccc(op) \/ Call(op) \/ Jmp(op) THEN 2
  ELSE IF Mvi(op) \/ AluImm(op) \/ op \in {211, 219} THEN 1
  ELSE 0

Loads(c, op, n16) ==
  CASE op = 2  -> [c EXCEPT !.mem[get_rp(c, 0)] = c.reg[A]]
    [] op = 18 -> [c EXCEPT !.mem[get_rp(c, 1)] = c.reg[A]]
    [] op = 10 -> [c EXCEPT !.reg[A] = c.mem[get_rp(c, 0)]]
    [] op = 26 -> [c EXCEPT !.reg[A] = c.mem[get_rp(c, 1)]]
    [] op = 34 -> write16(c, n16, get_hl(c))
    [] op = 42 -> set_rp(c, 2, read16(c, n16))
    [] op = 50 -> [c EXCEPT !.mem[n16] = c.reg[A]]
    [] op = 58 -> [c EXCEPT !.reg[A] = c.mem[n16]]

Accumulator(c, op) ==
  CASE Mid(op) < 4 -> Rotate(c, Mid(op))
    [] op = 39 -> Settle(c, alu_daa(c.reg[A], c.f))
    [] op = 47 -> [c EXCEPT !.reg[A] = ByteMod - 1 - @]
    [] op = 55 -> [c EXCEPT !.f.cy = TRUE]
    [] op = 63 -> [c EXCEPT !.f.cy = ~@]

\* Opcodes below 40H.
LowHalf(c, op, n8, n16) ==
  CASE op % 8 = 0   -> c
    [] op % 16 = 1  -> set_rp(c, Pair(op), n16)
    [] op % 16 = 9  -> alu_dad(c, Pair(op))
    [] op % 8 = 2   -> Loads(c, op, n16)
    [] op % 16 = 3  -> set_rp(c, Pair(op), get_rp(c, Pair(op)) + 1)
    [] op % 16 = 11 -> set_rp(c, Pair(op), get_rp(c, Pair(op)) - 1)
    [] op % 8 = 4   -> alu_inr(c, Mid(op))
    [] op % 8 = 5   -> alu_dcr(c, Mid(op))
    [] op % 8 = 6   -> write_reg(c, Mid(op), n8)
    [] op % 8 = 7   -> Accumulator(c, op)

Returned(c) == [popped(c) EXCEPT !.pc = read16(c, c.sp)]
Called(c, to) == [push16(c, c.pc) EXCEPT !.pc = to]
Popped(c, op) ==
  IF op # 241 THEN set_rp(popped(c), Pair(op), read16(c, c.sp))
  ELSE [popped(c) EXCEPT !.reg[A] = c.mem[(c.sp + 1) % AddrMod], !.f = unpack_psw(c.mem[c.sp])]
Pushed(c, op) ==
  push16(c, IF op = 245 THEN Word(c.reg[A], pack_psw(c.f)) ELSE get_rp(c, Pair(op)))

Specials(c, op, n8) ==
  CASE op = 211 -> [c EXCEPT !.out = [port |-> n8, value |-> c.reg[A]]]
    [] op = 219 -> [c EXCEPT !.reg[A] = c.ports[n8]]
    [] op = 227 -> set_rp(write16(c, c.sp, get_hl(c)), 2, read16(c, c.sp))
    [] op = 235 -> set_rp(set_rp(c, 1, get_hl(c)), 2, get_rp(c, 1))
    [] op = 243 -> [c EXCEPT !.ei = FALSE]
    [] op = 251 -> [c EXCEPT !.ei = TRUE]

\* Opcodes from C0H.
HighHalf(c, op, n8, n16) ==
  LET true == cond_true(c.f, Mid(op))
  IN  CASE Rcc(op)                   -> IF true THEN Returned(c) ELSE c
        [] Jcc(op)                   -> IF true THEN [c EXCEPT !.pc = n16] ELSE c
        [] Ccc(op)                   -> IF true THEN Called(c, n16) ELSE c
        [] op \in {193, 209, 225, 241} -> Popped(c, op)
        [] op \in {197, 213, 229, 245} -> Pushed(c, op)
        [] op \in {201, 217}         -> Returned(c)
        [] op = 233                  -> [c EXCEPT !.pc = get_hl(c)]
        [] op = 249                  -> [c EXCEPT !.sp = get_hl(c)]
        [] Jmp(op)                   -> [c EXCEPT !.pc = n16]
        [] Call(op)                  -> Called(c, n16)
        [] AluImm(op)                -> Settle(c, Operate(Mid(op), c.reg[A], n8, c.f.cy))
        [] op % 8 = 7                -> Called(c, 8 * Mid(op))
        [] op % 8 = 3 /\ ~Jmp(op)    -> Specials(c, op, n8)

cpu_step(c) ==
  LET op   == c.mem[c.pc]
      n8   == c.mem[(c.pc + 1) % AddrMod]
      n16  == read16(c, (c.pc + 1) % AddrMod)
      past == [c EXCEPT !.pc = (@ + 1 + Fetched(op)) % AddrMod]
  IN  IF c.halted THEN c
      ELSE IF op = 118 THEN [past EXCEPT !.halted = TRUE]
      ELSE IF op < 64  THEN LowHalf(past, op, n8, n16)
      ELSE IF op < 128 THEN write_reg(past, Mid(op), read_reg(past, op % 8))
      ELSE IF op < 192 THEN Settle(past, Operate(Mid(op), c.reg[A], read_reg(c, op % 8), c.f.cy))
      ELSE HighHalf(past, op, n8, n16)

(***************************************************************************)
(* The tables                                                              *)
(***************************************************************************)
\* k_len by its rows.
Twos   == {6, 14, 22, 30, 38, 46, 54, 62, 198, 206, 211, 214, 219, 222, 230, 238, 246, 254}
Threes == {1, 17, 33, 34, 42, 49, 50, 58} \cup {194, 195, 196, 202, 203, 204, 205}
            \cup {210, 212, 218, 220, 221, 226, 228, 234, 236, 237, 242, 244, 250, 252, 253}
cpu_opcode_len(op) == IF op \in Threes THEN 3 ELSE IF op \in Twos THEN 2 ELSE 1

\* k_tmpl of disasm.c: the templates with an @ and with a #.
Templates16 == {1, 17, 33, 49, 34, 42, 50, 58} \cup {194 + 8 * i : i \in 0..7}
                 \cup {195, 203} \cup {196 + 8 * i : i \in 0..7} \cup {205, 221, 237, 253}
Templates8  == {6 + 8 * i : i \in 0..7} \cup {198 + 8 * i : i \in 0..7} \cup {211, 219}
disasm_one(op) == IF op \in Templates16 THEN 3 ELSE IF op \in Templates8 THEN 2 ELSE 1

\* (op & 0C7H): does the cycle count depend on whether the condition held?
cpu_opcode_cycles(op) ==
  IF op & 199 = 196 THEN "CALL" ELSE IF op & 199 = 192 THEN "RET" ELSE "FIXED"
=============================================================================
