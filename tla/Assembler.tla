------------------------------ MODULE Assembler ------------------------------
(***************************************************************************)
(* src/lang/asm.c: the two passes over the statements of a source, and the *)
(* encoding of every mnemonic, against one pass that knows every symbol.   *)
(*                                                                         *)
(* A statement is what process_line has read off a line: characters,       *)
(* comments, quoting, letter case, radixes and parentheses are left out.   *)
(* Kept of the spelling is that a name may also read as a number (FEH).    *)
(***************************************************************************)
EXTENDS Integers, Sequences
LOCAL INSTANCE SequencesExt
LOCAL INSTANCE FiniteSetsExt

CONSTANTS
  AsmByte,      \* 2^8
  IntMod,       \* 2^32: the width of an expression
  AsmOrg,       \* ASM_ORG_DEFAULT
  OutMax,       \* ASM_OUT_MAX
  SymMax,       \* ASM_SYM_MAX
  AsmCap,       \* cap, the room the caller has
  HexNames,     \* names that read as hexadecimal numbers, with their value
  AsmSources       \* sequences of statements

AsmWord == AsmByte * AsmByte

ASSUME AssemblerAssumption ==
  /\ AsmByte \in Nat \ {0} /\ IntMod >= 2 * AsmWord /\ OutMax \in Nat /\ AsmCap \in Nat
  /\ AsmOrg \in 0..AsmWord - 1 /\ SymMax \in Nat

(***************************************************************************)
(* g_mn: opcodes by the kind of their operands.  A kind says how registers *)
(* are put into the opcode and how many bytes an expression adds.          *)
(***************************************************************************)
g_mn ==
  [K_MOV |-> {64}, K_MVI |-> {6}, K_LXI |-> {1}, K_RST |-> {199}, K_RPBD |-> {2, 10},
   K_DST |-> {4, 5}, K_RP |-> {3, 9, 11}, K_RPPSW |-> {193, 197},
   K_SRC   |-> {128 + 8 * i : i \in 0..7},
   K_IMM8  |-> {198 + 8 * i : i \in 0..7} \cup {211, 219},
   K_IMM16 |-> {34, 42, 50, 58, 195, 203, 205, 221, 237, 253}
                 \cup {194 + 8 * i : i \in 0..7} \cup {196 + 8 * i : i \in 0..7},
   K_NONE  |-> {7, 15, 23, 31, 39, 47, 55, 63} \cup {8 * i : i \in 0..7}
                 \cup {192 + 8 * i : i \in 0..7} \cup {118, 201, 217, 227, 233, 235, 243, 249, 251}]

\* What reg_r and reg_rp allow.
RegsOf(kind) ==
  CASE kind = "K_MOV" -> (0..7) \X (0..7)
    [] kind \in {"K_MVI", "K_SRC", "K_DST"} -> {<<r>> : r \in 0..7}
    [] kind \in {"K_LXI", "K_RP", "K_RPPSW"} -> {<<rp>> : rp \in 0..3}
    [] kind = "K_RPBD" -> {<<rp>> : rp \in 0..1}
    [] OTHER -> {<< >>}
TakesExpr(kind) == kind \in {"K_MVI", "K_LXI", "K_IMM8", "K_IMM16", "K_RST"}

Byte(v)  == v % AsmByte
Word2(v) == <<Byte(v), (v \div AsmByte) % AsmByte>>
Opcode(kind, op, regs, v) ==
  CASE kind = "K_MOV" -> op + 8 * regs[1] + regs[2]
    [] kind = "K_SRC" -> op + regs[1]
    [] kind \in {"K_MVI", "K_DST"} -> op + 8 * regs[1]
    [] kind \in {"K_LXI", "K_RP", "K_RPPSW", "K_RPBD"} -> op + 16 * regs[1]
    [] kind = "K_RST" -> op + 8 * (v % 8)
    [] OTHER -> op
Encode(kind, op, regs, v) ==
  <<Opcode(kind, op, regs, v)>>
    \o (CASE kind \in {"K_MVI", "K_IMM8"} -> <<Byte(v)>>
          [] kind \in {"K_LXI", "K_IMM16"} -> Word2(v)
          [] OTHER -> << >>)

(***************************************************************************)
(* Expressions: first, and [op, term] after it, left to right.  Terms:     *)
(* [t |-> "num", v], [t |-> "sym", name], [t |-> "here"], each with neg.   *)
(***************************************************************************)
VARIABLES
  asource,      \* the statements
  asm           \* g_pass, g_addr, g_base, g_img, g_len, g_syms, g_err and the next line

asmVars == <<asource, asm>>

Int32(v) == LET u == v % IntMod IN IF u >= IntMod \div 2 THEN u - IntMod ELSE u
Quotient(v, r) ==
  LET abs(n) == IF n < 0 THEN -n ELSE n
      size   == abs(v) \div abs(r)
  IN  IF r = 0 THEN 0 ELSE IF (v < 0) = (r < 0) THEN size ELSE -size

Unknown(syms, term) == term.t = "sym" /\ term.name \notin DOMAIN syms \cup DOMAIN HexNames
ex_primary(syms, addr, term) ==
  CASE term.t = "num"  -> term.v
    [] term.t = "here" -> addr
    [] term.t = "sym"  -> IF term.name \in DOMAIN syms THEN syms[term.name]
                          ELSE IF term.name \in DOMAIN HexNames THEN HexNames[term.name] ELSE 0
ex_unary(syms, addr, term) ==
  LET v == ex_primary(syms, addr, term) IN IF term.neg THEN Int32(-v) ELSE v
ex_expr(syms, addr, e) ==
  FoldLeft(LAMBDA v, next :
             LET r == ex_unary(syms, addr, next.term)
             IN  CASE next.op = "+" -> Int32(v + r) [] next.op = "-" -> Int32(v - r)
                   [] next.op = "*" -> Int32(v * r) [] next.op = "/" -> Int32(Quotient(v, r)),
           ex_unary(syms, addr, e.first), e.rest)
Terms(e) == {e.first} \cup {e.rest[i].term : i \in DOMAIN e.rest}
g_undef(syms, e) == \E term \in Terms(e) : Unknown(syms, term)

(***************************************************************************)
(* One pass.  Every operator takes and returns asm.                        *)
(***************************************************************************)
err_set(a, why) == IF a.err = "" THEN [a EXCEPT !.err = why] ELSE a

emit(a, b) ==
  LET base == IF a.base = << >> THEN a.addr ELSE a.base[1]
      off  == a.addr - base
  IN  IF a.err # "" THEN a
      ELSE IF a.addr >= AsmWord THEN err_set(a, "value out of range")
      ELSE IF a.pass = 1 THEN [a EXCEPT !.addr = @ + 1]
      ELSE IF off < 0 THEN err_set(a, "value out of range")
      ELSE IF off >= OutMax THEN err_set(a, "program too large")
      ELSE [a EXCEPT !.addr = @ + 1, !.base = <<base>>, !.img[off] = b,
                     !.len = IF off + 1 > @ THEN off + 1 ELSE @]
emit_all(a, bytes) == FoldLeft(emit, a, bytes)

\* A symbol that is not known yet counts as 0 in pass 1, and then nothing is checked.
ranged(a, e, low, high) ==
  LET v == ex_expr(a.syms, a.addr, e)
  IN  IF a.pass = 2 /\ g_undef(a.syms, e) THEN err_set(a, "undefined symbol")
      ELSE IF ~g_undef(a.syms, e) /\ v \notin low..high THEN err_set(a, "value out of range")
      ELSE a
imm8(a, e)  == ranged(a, e, -(AsmByte \div 2), AsmByte - 1)
imm16(a, e) == ranged(a, e, -(AsmWord \div 2), AsmWord - 1)
known16_unknown_as_zero(a, e, low, high) == ranged(a, e, low, high)
known16(a, e, low, high) ==
  IF g_undef(a.syms, e) THEN err_set(a, "undefined symbol") ELSE ranged(a, e, low, high)

sym_define(a, name, v, allow_redef) ==
  IF a.err # "" THEN a
  ELSE IF name \in DOMAIN a.syms /\ ~allow_redef THEN err_set(a, "duplicate symbol")
  ELSE IF name \notin DOMAIN a.syms /\ Cardinality(DOMAIN a.syms) >= SymMax
  THEN err_set(a, "too many symbols")
  ELSE [a EXCEPT !.syms = [n \in DOMAIN @ \cup {name} |-> IF n = name THEN v ELSE @[n]]]

\* Items of DB and DW are worked out one by one, each at its own address.
Items(a, items, Check(_, _), Bytes(_)) ==
  FoldLeft(LAMBDA b, item :
             IF b.err # "" THEN b
             ELSE IF item.text # << >> THEN emit_all(b, item.text)
             ELSE emit_all(Check(b, item.e), Bytes(ex_expr(b.syms, b.addr, item.e))),
           a, items)

Instruction(a, s) ==
  LET v       == IF TakesExpr(s.kind) THEN ex_expr(a.syms, a.addr, s.e) ELSE 0
      checked == CASE s.kind \in {"K_MVI", "K_IMM8"} -> imm8(a, s.e)
                   [] s.kind \in {"K_LXI", "K_IMM16"} -> imm16(a, s.e)
                   [] s.kind = "K_RST" -> ranged(a, s.e, 0, 7)
                   [] OTHER -> a
  IN  IF s.regs \notin RegsOf(s.kind) THEN err_set(a, "bad operand")
      ELSE emit_all(checked, Encode(s.kind, s.op, s.regs, v))

Labelled(a, s) ==
  IF s.label = << >> \/ s.kind = "D_EQU" \/ a.pass = 2 THEN a
  ELSE sym_define(a, s.label[1], a.addr, FALSE)

Statement(a, s) ==
  LET v == IF s.kind \in {"D_ORG", "D_DS", "D_EQU"} THEN ex_expr(a.syms, a.addr, s.e) ELSE 0
      known == known16(a, s.e, IF s.kind = "D_EQU" THEN -(AsmWord \div 2) ELSE 0, AsmWord - 1)
  IN  IF a.err # "" THEN a
      ELSE CASE s.kind = "D_ORG" -> IF known.err # "" THEN known ELSE [a EXCEPT !.addr = v]
             [] s.kind = "D_DS"  -> IF known.err # "" THEN known
                                    ELSE emit_all(a, [i \in 1..v |-> 0])
             [] s.kind = "D_EQU" -> sym_define(known, s.label[1], v, a.pass = 2)
             [] s.kind = "D_DB"  -> Items(a, s.items, imm8, LAMBDA w : <<Byte(w)>>)
             [] s.kind = "D_DW"  -> Items(a, s.items, imm16, Word2)
             [] s.kind = "LIST"  -> emit_all([a EXCEPT !.addr = s.at], s.bytes)
             [] s.kind = "LABEL" -> a
             [] OTHER            -> Instruction(a, s)

(***************************************************************************)
(* asm_assemble: a line at a time, twice                                   *)
(***************************************************************************)
AsmInit ==
  /\ asource \in AsmSources
  /\ asm = [pass |-> 1, addr |-> AsmOrg, base |-> << >>, img |-> [i \in 0..OutMax - 1 |-> 0],
            len |-> 0, syms |-> << >>, err |-> "", line |-> 1]

Ended == asm.line \in DOMAIN asource => asource[asm.line].kind = "D_END"
AsmLine ==
  /\ asm.pass < 3 /\ asm.err = "" /\ ~Ended
  /\ LET s == asource[asm.line]
     IN  asm' = [Statement(Labelled(asm, s), s) EXCEPT !.line = @ + 1]
  /\ UNCHANGED asource

\* A label before END is defined all the same.
AsmEndPass ==
  /\ asm.pass < 3 /\ asm.err = "" /\ Ended
  /\ LET last == IF asm.line > Len(asource) THEN asm ELSE Labelled(asm, asource[asm.line])
     IN  IF last.err # "" THEN asm' = last
         ELSE IF asm.pass = 1
         THEN asm' = [last EXCEPT !.pass = 2, !.addr = AsmOrg, !.base = << >>, !.line = 1]
         ELSE asm' = IF asm.len > AsmCap THEN err_set(asm, "program too large")
                     ELSE [asm EXCEPT !.pass = 3]
  /\ UNCHANGED asource

AsmStep == AsmLine \/ AsmEndPass

(***************************************************************************)
(* One pass that knows every symbol                                        *)
(***************************************************************************)
Place(one, bytes) ==
  [one EXCEPT !.addr = @ + Len(bytes), !.first = IF @ = << >> /\ bytes # << >> THEN <<one.addr>> ELSE @,
              !.mem = [n \in DOMAIN @ \cup one.addr..one.addr + Len(bytes) - 1 |->
                         IF n >= one.addr /\ n < one.addr + Len(bytes)
                         THEN bytes[n - one.addr + 1] ELSE @[n]]]
PlaceItem(one, env, item, wide) ==
  LET v == IF item.text = << >> THEN ex_expr(env, one.addr, item.e) ELSE 0
  IN  Place(one, IF item.text # << >> THEN item.text ELSE IF wide THEN Word2(v) ELSE <<Byte(v)>>)
PlaceStatement(one, env, s) ==
  LET v     == IF s.kind \in {"D_ORG", "D_DS", "D_EQU"} \/ TakesExpr(s.kind)
               THEN ex_expr(env, one.addr, s.e) ELSE 0
      named == IF s.label = << >> THEN one
               ELSE [one EXCEPT !.named = @ \cup
                       {<<s.label[1], IF s.kind = "D_EQU" THEN v ELSE one.addr>>}]
  IN  CASE s.kind = "D_ORG" -> [named EXCEPT !.addr = v]
        [] s.kind = "D_DS"  -> Place(named, [i \in 1..v |-> 0])
        [] s.kind \in {"D_DB", "D_DW"} ->
             FoldLeft(LAMBDA acc, item : PlaceItem(acc, env, item, s.kind = "D_DW"), named, s.items)
        [] s.kind = "LIST"  -> Place([named EXCEPT !.addr = s.at], s.bytes)
        [] s.kind \in {"LABEL", "D_EQU", "D_END"} -> named
        [] OTHER -> Place(named, Encode(s.kind, s.op, s.regs, v))

\* The statements up to END.
Live(source) ==
  LET ends == {i \in DOMAIN source : source[i].kind = "D_END"}
  IN  IF ends = {} THEN source ELSE SubSeq(source, 1, Min(ends))
OnePass(source, env) ==
  FoldLeft(LAMBDA one, s : PlaceStatement(one, env, s),
           [addr |-> AsmOrg, first |-> << >>, mem |-> << >>, named |-> {}], Live(source))

Defining(source, name) == {i \in DOMAIN source : source[i].label = <<name>>}
Mentions(s) ==
  LET es == IF s.kind \in {"D_ORG", "D_DS", "D_EQU"} \/ TakesExpr(s.kind) THEN {s.e}
            ELSE IF s.kind \in {"D_DB", "D_DW"}
            THEN {s.items[i].e : i \in {j \in DOMAIN s.items : s.items[j].text = << >>}} ELSE {}
  IN  {term.name : term \in {u \in UNION {Terms(e) : e \in es} : u.t = "sym"}}

(***************************************************************************)
(* Properties                                                              *)
(***************************************************************************)
\* No ORG, DS or EQU mentions a name that reads as a number and is a symbol of a later line.
Unambiguous(source) ==
  \A i \in DOMAIN source : source[i].kind \in {"D_ORG", "D_DS", "D_EQU"} =>
    \A name \in Mentions(source[i]) \cap DOMAIN HexNames : Defining(source, name) \subseteq 1..i - 1

\* asm.c:11: what two passes produce is what one pass that knew every symbol would: each label
\* has the address of its statement, each byte is at its address and the gaps are zero; and a
\* symbol is called undefined, or a duplicate, only when it is.
AsmFaithful ==
  LET source == Live(asource)
      one    == OnePass(asource, asm.syms)
      top    == IF DOMAIN one.mem = {} THEN 0 ELSE Max(DOMAIN one.mem) + 1 - one.first[1]
  IN  /\ asm.pass = 3 /\ Unambiguous(source) =>
           /\ one.named = {<<name, asm.syms[name]>> : name \in DOMAIN asm.syms}
           /\ asm.len = top
           /\ \A n \in DOMAIN one.mem : n >= one.first[1]
           /\ \A off \in 0..asm.len - 1 :
                LET n == one.first[1] + off
                IN  asm.img[off] = IF n \in DOMAIN one.mem THEN one.mem[n] ELSE 0
      /\ asm.err = "undefined symbol" =>
           \E i \in DOMAIN source : \E name \in Mentions(source[i]) \ DOMAIN HexNames :
             \/ Defining(source, name) = {}
             \/ /\ source[i].kind \in {"D_ORG", "D_DS", "D_EQU"}
                /\ Defining(source, name) \cap 1..i - 1 = {}
      /\ asm.err = "duplicate symbol" =>
           \E i, j \in DOMAIN source : i # j /\ source[i].label # << >>
                                            /\ source[i].label = source[j].label
=============================================================================
