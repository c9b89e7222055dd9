----------------------------- MODULE MCLanguages -----------------------------
(***************************************************************************)
(* Small instances of Languages.  Brainfuck: every source of at most two   *)
(* commands and some longer ones, on machines with 8, 24 and 30 cells.     *)
(* Turing machines: every two rules over two states and two symbols,       *)
(* machines of up to four tapes, and texts around the room for an image.   *)
(* Assembler: every source of at most three of the statements below.       *)
(***************************************************************************)
EXTENDS Languages
LOCAL INSTANCE SequencesExt

Times(s, n) == FlattenSeq([i \in 1..n |-> s])

MCBfSources ==
  UNION {[1..n -> Commands] : n \in 0..2} \cup
  {<<"+", "[", "-", "]">>, <<"[", "x", "+", "]">>, <<"+", "x", "+", ".">>,
   <<",", "[", ".", ",", "]">>, <<"+", ".", "NUL", "[">>, <<"+", "[", "]">>,
   <<"[", "[", "]", "]">>, <<"[", "[", "[", "]", "]", "]">>,
   <<"+", "+", "[", "-", ">", "+", ">", "+", "<", "<", "]", ">", ".", ">", ".">>,
   <<">", "<", "+", "-", ".", " ", "+", "[", ">", "+", "]">>,
   Times(<<">">>, 5) \o <<"+">> \o Times(<<"<">>, 9) \o <<"+">>,
   Times(<<">">>, 20) \o Times(<<"<">>, 2) \o <<"-", ".">>,
   Times(<<">">>, 30) \o <<"+", ".">>, Times(<<"<">>, 31) \o <<"+", ".", ">", ".">>,
   Times(<<"+">>, 11) \o <<".">>, Times(<<">", ".">>, 9)}
MCBfConfigs == [tapes : {1, 2}, pages : {4, 6, 8}]
MCTyped == <<3, 0>>

RuleOf(s, rd, wr, mv, next) ==
  [kind |-> "rule", state |-> s, rd |-> rd, wr |-> wr, mv |-> mv, next |-> next]
Simple(s, r, w, m, next) == RuleOf(s, <<r>>, <<w>>, <<m>>, next)
Simples == {Simple(s, r, w, m, n) : s \in {"A", "B"}, r \in {1, 2}, w \in {1, 2},
                                    m \in {"L", "R"}, n \in {"A", "B", "halt"}}
InputLine(cs) == [kind |-> "input", cells |-> cs]
TapesLine(n)  == [kind |-> "tapes", n |-> n]
StartLine(s)  == [kind |-> "start", name |-> s]
BlankLine(s)  == [kind |-> "blank", sym |-> s]
One == Simple("A", 1, 2, "R", "A")
\* demos/tm/bb3.tm
BB3 == <<Simple("A", 1, 2, "R", "B"), Simple("A", 2, 2, "R", "halt"), Simple("B", 1, 1, "R", "C"),
         Simple("C", 1, 2, "L", "C"), Simple("B", 2, 2, "R", "B"), Simple("C", 2, 2, "L", "A")>>
Copy == <<TapesLine(2), InputLine(<<2, 3, 2>>),
          RuleOf("A", <<2, 1>>, <<2, 2>>, <<"R", "R">>, "A"),
          RuleOf("A", <<3, 1>>, <<1, 3>>, <<"R", "L">>, "A"),
          RuleOf("A", <<1, 1>>, <<1, 1>>, <<"S", "L">>, "yes")>>
Walk(n) == <<TapesLine(n), RuleOf("A", [i \in 1..n |-> 1], [i \in 1..n |-> i],
                                  [i \in 1..n |-> IF i % 2 = 0 THEN "L" ELSE "R"], "A")>>
\* Around TmCap: by a name, an input, a rule, a state and the number of the tapes line.
Quad(s, sym) == RuleOf(s, [i \in 1..4 |-> sym], <<1, 2, 3, 4>>, <<"R", "L", "S", "R">>, s)
Cells(n)     == InputLine([i \in 1..n |-> 2])
Large ==
  {<<TapesLine(4), Cells(n), Quad(s, 1)>> : n \in 0..3, s \in {"A", "no", "yes"}} \cup
  {<<TapesLine(4)>> \o [i \in 1..n |-> Quad("A", i)] : n \in 2..4} \cup
  {<<TapesLine(4), StartLine(s)>> \o [i \in 1..n |-> Quad("A", i)] : n \in 0..3, s \in {"q", "halt"}} \cup
  {[i \in 1..n |-> [kind |-> "none"]] \o <<TapesLine(4), Cells(2), Quad("A", 1)>> : n \in {8, 9}}
MCTexts ==
  Large \cup
  {<<r, q>> : r \in Simples, q \in Simples} \cup {<<InputLine(<<2>>), r>> : r \in Simples} \cup
  {Walk(n) : n \in 1..4} \cup {BB3, Copy, << >>,
   <<TapesLine(5)>>, <<TapesLine(0)>>, <<One, TapesLine(1)>>, <<TapesLine(2), One>>,
   <<[kind |-> "none"]>>, <<[kind |-> "bad"]>>, <<StartLine("q")>>,
   <<StartLine("halt"), InputLine(<<2, 3>>)>>, <<One, One>>,
   <<BlankLine(2), One, InputLine(<<2, 1, 2>>)>>, <<InputLine(<<2, 2, 2, 2>>), One>>,
   <<Simple("halt", 1, 1, "R", "A")>>, <<Simple("A", 1, 1, "X", "A")>>,
   <<One, Simple("A", 2, 3, "L", "B"), Simple("B", 2, 2, "S", "C"), Simple("C", 3, 4, "R", "D"),
     StartLine("E")>>,
   <<One, Simple("A", 2, 3, "L", "B"), Simple("B", 2, 2, "S", "C"), Simple("C", 3, 4, "R", "D")>>,
   <<One, Simple("A", 2, 3, "L", "B"), Simple("A", 3, 4, "L", "B"), Simple("A", 4, 5, "L", "B")>>,
   <<InputLine(<<2, 2>>), StartLine("B"), Simple("A", 1, 2, "L", "A"), Simple("B", 2, 1, "R", "B")>>}
MCMachines == [k : {1, 2, 4}, pages : {6, 9, 16}]
MCPowers == <<10, 1>>

Number(v) == [t |-> "num", v |-> v, neg |-> FALSE]
Name(n)   == [t |-> "sym", name |-> n, neg |-> FALSE]
Dollar    == [t |-> "here", neg |-> FALSE]
Minus(u)  == [u EXCEPT !.neg = TRUE]
Only(u)   == [first |-> u, rest |-> << >>]
Binary(u, op, w) == [first |-> u, rest |-> <<[op |-> op, term |-> w]>>]
With(kind, e)    == [label |-> << >>, kind |-> kind, e |-> e]
Equ(n, e)        == [With("D_EQU", e) EXCEPT !.label = <<n>>]
Bare(label, kind) == [label |-> label, kind |-> kind]
Data(kind, items) == [label |-> << >>, kind |-> kind, items |-> items]
Item(e)  == [text |-> << >>, e |-> e]
Plain(label, kind, op, regs) == [label |-> label, kind |-> kind, op |-> op, regs |-> regs]
Imm(kind, op, regs, e) == [label |-> << >>, kind |-> kind, op |-> op, regs |-> regs, e |-> e]
Statements ==
  {Bare(<<"a">>, "LABEL"), Bare(<<"FEH">>, "LABEL"), Bare(<< >>, "D_END"), Bare(<<"a">>, "D_END"),
   Plain(<<"b">>, "K_NONE", 0, << >>), Plain(<< >>, "K_MOV", 64, <<6, 0>>),
   Plain(<< >>, "K_RPBD", 2, <<2>>),
   Imm("K_IMM16", 195, << >>, Only(Name("a"))), Imm("K_IMM16", 195, << >>, Only(Dollar)),
   Imm("K_MVI", 6, <<7>>, Binary(Name("a"), "/", Minus(Number(2)))),
   Imm("K_RST", 199, << >>, Binary(Name("b"), "*", Number(3))),
   Equ("b", Binary(Dollar, "+", Name("a"))), Equ("a", Only(Minus(Number(2)))),
   With("D_DS", Only(Name("b"))), With("D_DS", Only(Number(2))), With("D_DS", Only(Name("FEH"))),
   With("D_ORG", Only(Number(6))), With("D_ORG", Only(Number(2))),
   Data("D_DB", <<Item(Only(Dollar)), [text |-> <<1, 2>>], Item(Binary(Dollar, "-", Name("b")))>>),
   Data("D_DW", <<Item(Only(Name("FEH"))), Item(Only(Dollar))>>),
   [label |-> << >>, kind |-> "LIST", at |-> 5, bytes |-> <<1, 2>>]}
MCAsmSources == UNION {[1..n -> Statements] : n \in 0..3}
MCHexNames == [n \in {"FEH"} |-> 3]

\* Every carry into and out of a half.
MCOperands == {16 * h + l : h, l \in {0, 1, 5, 9, 15}}
=============================================================================
