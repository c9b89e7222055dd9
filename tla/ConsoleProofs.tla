---------------------------- MODULE ConsoleProofs ----------------------------
(***************************************************************************)
(* Proofs about the console for every value of its constants: what is      *)
(* typed, piped and scripted, and at the end where printed bytes go.       *)
(***************************************************************************)
EXTENDS Console, Induction, SequenceTheorems

---------------------------------------------------------------------------
(* Sequences of sequences.                                                 *)

\* FlattenSeq goes through the prefixes of the result.
LEMMA FlattenIs ==
  ASSUME NEW X, NEW ss \in Seq(Seq(X))
  PROVE  \E f \in [0..Len(ss) -> Seq(X)] :
           /\ f[0] = << >> /\ \A n \in 1..Len(ss) : f[n] = f[n - 1] \o ss[n]
           /\ FlattenSeq(ss) = f[Len(ss)]
<1> DEFINE N == Len(ss)
           step == [n \in 1..N |-> [s \in Seq(X) |-> s \o ss[n]]]
           g[i \in 1..N] == IF i = 1 THEN ss[i] ELSE g[i - 1] \o ss[i]
<1>1. N \in Nat /\ \A n \in 1..N : ss[n] \in Seq(X)
  OBVIOUS
<1> HIDE DEF N
<1>2. step \in [1..N -> [Seq(X) -> Seq(X)]]
  BY <1>1
<1>3. PICK f : IsRun(f, Seq(X), << >>, N, step)
  <2>1. << >> \in Seq(X)
    OBVIOUS
  <2> HIDE DEF step
  <2> QED BY <1>1, <1>2, <2>1, Iteration
<1>4. f \in [0..N -> Seq(X)] /\ f[0] = << >> /\ \A n \in 1..N : f[n] = f[n - 1] \o ss[n]
  <2>1. f \in [0..N -> Seq(X)] /\ f[0] = << >> /\ \A n \in 1..N : f[n] = step[n][f[n - 1]]
    BY <1>3 DEF IsRun
  <2>2. \A n \in 1..N : f[n - 1] \in Seq(X)
    BY <1>1, <2>1
  <2> QED BY <2>1, <2>2
<1>5. FlattenSeq(ss) = f[N]
  <2>1. CASE N = 0
    BY <1>4, <2>1 DEF FlattenSeq, N
  <2>2. CASE N # 0
    <3> DEFINE h == [i \in 1..N |-> f[i]]
    <3>1. ASSUME NEW i \in 1..N PROVE h[i] = IF i = 1 THEN ss[i] ELSE h[i - 1] \o ss[i]
      <4>1. CASE i = 1
        <5>1. f[1] = << >> \o ss[1]
          <6>1. 1 \in 1..N /\ 1 - 1 = 0
            BY <4>1
          <6> QED BY <1>4, <6>1
        <5>2. << >> \o ss[1] = ss[1]
          BY <1>1, <4>1, ConcatEmptySeq
        <5> QED BY <4>1, <5>1, <5>2
      <4>2. CASE i # 1
        <5>1. i - 1 \in 1..N
          BY <1>1, <4>2
        <5> QED BY <1>4, <4>2, <5>1
      <4> QED BY <4>1, <4>2
    <3>2. h = [i \in 1..N |-> IF i = 1 THEN ss[i] ELSE h[i - 1] \o ss[i]]
      <4> DEFINE k == [i \in 1..N |-> IF i = 1 THEN ss[i] ELSE h[i - 1] \o ss[i]]
      <4>1. \A i \in 1..N : h[i] = k[i]
        BY <3>1
      <4> QED BY <4>1
    <3>3. g = [i \in 1..N |-> IF i = 1 THEN ss[i] ELSE g[i - 1] \o ss[i]]
      BY <3>2
    <3> HIDE DEF g
    <3> DEFINE Good == {n \in 0..N : n > 0 => g[n] = f[n]}
    <3>4. 0 \in Good
      BY <1>1
    <3>5. ASSUME NEW n \in 0..(N - 1), n \in Good PROVE n + 1 \in Good
      <4>1. n + 1 \in 1..N /\ (n + 1) - 1 = n /\ (n + 1 = 1 <=> n = 0)
        BY <1>1
      <4>2. g[n + 1] = IF n = 0 THEN ss[n + 1] ELSE g[n] \o ss[n + 1]
        BY <3>3, <4>1
      <4>3. f[n + 1] = f[n] \o ss[n + 1] /\ ss[n + 1] \in Seq(X)
        BY <1>1, <1>4, <4>1
      <4>4. f[n + 1] = g[n + 1]
        <5>1. CASE n = 0
          <6>1. << >> \o ss[n + 1] = ss[n + 1]
            BY <4>3, ConcatEmptySeq
          <6> QED BY <1>4, <4>2, <4>3, <5>1, <6>1
        <5>2. CASE n # 0
          <6>1. n > 0
            BY <1>1, <5>2
          <6>2. g[n] = f[n]
            BY <3>5, <6>1
          <6> QED BY <4>2, <4>3, <5>2, <6>2
        <5> QED BY <5>1, <5>2
      <4> QED BY <4>1, <4>4
    <3>6. N \in Good
      <4> HIDE DEF Good
      <4>1. 0..N \subseteq Good
        BY <1>1, <3>4, <3>5, UpTo
      <4> QED BY <1>1, <4>1
    <3>7. FlattenSeq(ss) = g[N]
      BY <2>2 DEF FlattenSeq, g, N
    <3> QED BY <1>1, <2>2, <3>6, <3>7
  <2> QED BY <2>1, <2>2
<1> QED BY <1>4, <1>5 DEF N

\* One sequence more at the end.
LEMMA FlattenAppend ==
  ASSUME NEW X, NEW ss \in Seq(Seq(X)), NEW t \in Seq(X)
  PROVE  /\ FlattenSeq(ss) \in Seq(X) /\ Append(ss, t) \in Seq(Seq(X))
         /\ FlattenSeq(Append(ss, t)) = FlattenSeq(ss) \o t
<1> DEFINE N == Len(ss)
           tt == Append(ss, t)
<1>1. /\ N \in Nat /\ tt \in Seq(Seq(X)) /\ Len(tt) = N + 1 /\ tt[N + 1] = t
      /\ \A n \in 1..N : tt[n] = ss[n]
  BY AppendProperties
<1>2. PICK f \in [0..N -> Seq(X)] :
        /\ f[0] = << >> /\ \A n \in 1..N : f[n] = f[n - 1] \o ss[n]
        /\ FlattenSeq(ss) = f[N]
  BY FlattenIs
<1>3. PICK g \in [0..(N + 1) -> Seq(X)] :
        /\ g[0] = << >> /\ \A n \in 1..(N + 1) : g[n] = g[n - 1] \o tt[n]
        /\ FlattenSeq(tt) = g[N + 1]
  <2> HIDE DEF N, tt
  <2>1. \E g \in [0..Len(tt) -> Seq(X)] :
          /\ g[0] = << >> /\ \A n \in 1..Len(tt) : g[n] = g[n - 1] \o tt[n]
          /\ FlattenSeq(tt) = g[Len(tt)]
    BY <1>1, FlattenIs
  <2> QED BY <1>1, <2>1
<1> HIDE DEF N, tt
<1> DEFINE Good == {n \in 0..N : g[n] = f[n]}
<1>4. 0 \in Good
  BY <1>1, <1>2, <1>3
<1>5. ASSUME NEW n \in 0..(N - 1), n \in Good PROVE n + 1 \in Good
  <2>1. n + 1 \in 1..N /\ n + 1 \in 1..(N + 1) /\ (n + 1) - 1 = n /\ n + 1 \in 0..N
    BY <1>1
  <2>2. f[n + 1] = f[n] \o ss[n + 1] /\ g[n + 1] = g[n] \o tt[n + 1]
    BY <1>2, <1>3, <2>1
  <2> QED BY <1>1, <1>5, <2>1, <2>2
<1>6. N \in Good
  <2> HIDE DEF Good
  <2>1. 0..N \subseteq Good
    BY <1>1, <1>4, <1>5, UpTo
  <2> QED BY <1>1, <2>1
<1>7. g[N + 1] = g[N] \o t
  <2>1. N + 1 \in 1..(N + 1) /\ (N + 1) - 1 = N
    BY <1>1
  <2> QED BY <1>1, <1>3, <2>1
<1>8. f[N] \in Seq(X)
  BY <1>1, <1>2
<1> QED BY <1>1, <1>2, <1>3, <1>6, <1>7, <1>8 DEF tt

\* Of no sequences at all, FlattenSeq makes the empty one.
LEMMA FlattenEmpty == FlattenSeq(<< >>) = << >>
  BY DEF FlattenSeq

\* Concatenation associates, for what the console concatenates: bytes and letters.
LEMMA ConcatThrice ==
  /\ \A x, y, z \in Seq(Bytes) : (x \o y) \o z = x \o (y \o z)
  /\ \A x, y, z \in Seq(Letters) : (x \o y) \o z = x \o (y \o z)
  OBVIOUS

---------------------------------------------------------------------------
(* Sequences with elements left out.                                       *)

\* e says where in s the elements of t are.
Places(e, t, s) ==
  /\ e \in [1..Len(t) -> 1..Len(s)]
  /\ \A i, j \in 1..Len(t) : i < j => e[i] < e[j]
  /\ \A i \in 1..Len(t) : s[e[i]] = t[i]
Inside(t, s) == \E e : Places(e, t, s)

\* A sequence is inside itself.
LEMMA InsideItself == ASSUME NEW X, NEW s \in Seq(X) PROVE Inside(s, s)
<1>1. Places([i \in 1..Len(s) |-> i], s, s)
  BY DEF Places
<1> QED BY <1>1 DEF Inside

\* Less at the end of what is left is still inside.
LEMMA InsideFewer ==
  ASSUME NEW X, NEW s \in Seq(X), NEW t \in Seq(X), Inside(t, s),
         NEW u \in Seq(X), Len(u) <= Len(t), \A i \in 1..Len(u) : u[i] = t[i]
  PROVE  Inside(u, s)
<1>1. PICK e : Places(e, t, s)
  BY DEF Inside
<1>2. Len(u) \in Nat /\ Len(t) \in Nat /\ 1..Len(u) \subseteq 1..Len(t)
  OBVIOUS
<1>3. Places([i \in 1..Len(u) |-> e[i]], u, s)
  BY <1>1, <1>2 DEF Places
<1> QED BY <1>3 DEF Inside

\* The same more on both sides.
LEMMA InsideLonger ==
  ASSUME NEW X, NEW s \in Seq(X), NEW t \in Seq(X), Inside(t, s), NEW u \in Seq(X)
  PROVE  Inside(t \o u, s \o u)
<1>1. PICK e : Places(e, t, s)
  BY DEF Inside
<1> DEFINE l == Len(s)
           k == Len(t)
           more == Len(u)
           d == [i \in 1..(k + more) |-> IF i <= k THEN e[i] ELSE (i - k) + l]
<1>2. l \in Nat /\ k \in Nat /\ more \in Nat
  OBVIOUS
<1>3. /\ t \o u \in Seq(X) /\ Len(t \o u) = k + more
      /\ \A i \in 1..(k + more) : (t \o u)[i] = IF i <= k THEN t[i] ELSE u[i - k]
  BY ConcatProperties
<1>4. /\ s \o u \in Seq(X) /\ Len(s \o u) = l + more
      /\ \A i \in 1..(l + more) : (s \o u)[i] = IF i <= l THEN s[i] ELSE u[i - l]
  BY ConcatProperties
<1>5. /\ e \in [1..k -> 1..l] /\ \A i, j \in 1..k : i < j => e[i] < e[j]
      /\ \A i \in 1..k : s[e[i]] = t[i]
  BY <1>1 DEF Places
<1> HIDE DEF l, k, more
<1>6. ASSUME NEW i \in 1..(k + more)
      PROVE  /\ d[i] \in 1..(l + more) /\ (s \o u)[d[i]] = (t \o u)[i]
             /\ i <= k => d[i] \in 1..l
  <2>1. CASE i <= k
    <3>1. i \in 1..k /\ d[i] = e[i] /\ e[i] \in 1..l
      BY <1>2, <1>5, <2>1
    <3> HIDE DEF d
    <3>2. d[i] <= l /\ d[i] \in 1..(l + more)
      BY <1>2, <3>1
    <3>3. (s \o u)[d[i]] = s[e[i]]
      BY <1>4, <3>1, <3>2
    <3> QED BY <1>3, <1>5, <2>1, <3>1, <3>2, <3>3
  <2>2. CASE ~(i <= k)
    <3>1. d[i] = (i - k) + l
      BY <2>2
    <3> HIDE DEF d
    <3>2. d[i] \in 1..(l + more) /\ ~(d[i] <= l) /\ d[i] - l = i - k
      BY <1>2, <2>2, <3>1
    <3>3. (s \o u)[d[i]] = u[i - k]
      BY <1>4, <3>2
    <3> QED BY <1>3, <2>2, <3>2, <3>3
  <2> QED BY <2>1, <2>2
<1>7. ASSUME NEW i \in 1..(k + more), NEW j \in 1..(k + more), i < j PROVE d[i] < d[j]
  <2>1. CASE j <= k
    <3>1. i \in 1..k /\ j \in 1..k /\ i <= k
      BY <1>2, <1>7, <2>1
    <3> QED BY <1>5, <1>7, <2>1, <3>1
  <2>2. CASE ~(j <= k)
    <3>1. d[j] = (j - k) + l /\ j - k > 0
      BY <1>2, <2>2
    <3>2. CASE i <= k
      <4>1. d[i] \in 1..l
        BY <1>6, <3>2
      <4> HIDE DEF d
      <4> QED BY <1>2, <3>1, <4>1
    <3>3. CASE ~(i <= k)
      <4>1. d[i] = (i - k) + l
        BY <3>3
      <4> HIDE DEF d
      <4> QED BY <1>2, <1>7, <3>1, <4>1
    <3> QED BY <3>2, <3>3
  <2> QED BY <2>1, <2>2
<1>8. d \in [1..(k + more) -> 1..(l + more)]
  BY <1>6
<1> HIDE DEF d
<1>9. Places(d, t \o u, s \o u)
  BY <1>3, <1>4, <1>6, <1>7, <1>8 DEF Places
<1> QED BY <1>9 DEF Inside

\* IsPartOf looks for the elements one after the other, and so misses none.
LEMMA InsideIsPart ==
  ASSUME NEW X, NEW s \in Seq(X), NEW t \in Seq(X), Inside(t, s)
  PROVE  IsPartOf(t, s)
<1> DEFINE l == Len(s)
           k == Len(t)
           More(b, n) == IF n > 0 /\ b < k /\ t[b + 1] = s[n] THEN b + 1 ELSE b
           step == [n \in 1..l |-> [b \in 0..k |-> More(b, n)]]
           met[n \in 0..l] == More(IF n = 0 THEN 0 ELSE met[n - 1], n)
<1>1. l \in Nat /\ k \in Nat
  OBVIOUS
<1>2. PICK e : /\ e \in [1..k -> 1..l] /\ \A i, j \in 1..k : i < j => e[i] < e[j]
               /\ \A i \in 1..k : s[e[i]] = t[i]
  BY DEF Inside, Places
<1>3. IsPartOf(t, s) <=> met[l] = k
  BY DEF IsPartOf
<1> HIDE DEF l, k
<1>4. \A b \in 0..k, n \in 0..l : More(b, n) \in 0..k
  BY <1>1
<1>5. PICK f : IsRun(f, 0..k, 0, l, step)
  <2>1. step \in [1..l -> [0..k -> 0..k]] /\ 0 \in 0..k
    BY <1>1, <1>4
  <2> HIDE DEF step
  <2> QED BY <1>1, <2>1, Iteration
<1>6. f \in [0..l -> 0..k] /\ f[0] = 0 /\ \A n \in 1..l : f[n] = step[n][f[n - 1]]
  BY <1>5 DEF IsRun
<1>7. ASSUME NEW n \in 0..l PROVE f[n] = More(IF n = 0 THEN 0 ELSE f[n - 1], n)
  <2>1. CASE n = 0
    BY <1>6, <2>1
  <2>2. CASE n # 0
    <3>1. n \in 1..l /\ n - 1 \in 0..l
      BY <1>1, <2>2
    <3>2. f[n - 1] \in 0..k /\ f[n] = step[n][f[n - 1]]
      BY <1>6, <3>1
    <3>3. f[n] = More(f[n - 1], n)
      BY <3>1, <3>2
    <3> QED BY <2>2, <3>3
  <2> QED BY <2>1, <2>2
<1> HIDE DEF step
<1>8. met = [n \in 0..l |-> More(IF n = 0 THEN 0 ELSE met[n - 1], n)]
  <2> HIDE DEF More
  <2>1. f = [n \in 0..l |-> More(IF n = 0 THEN 0 ELSE f[n - 1], n)]
    BY <1>6, <1>7
  <2> QED BY <2>1
<1> HIDE DEF met
<1> DEFINE Good == {n \in 0..l : met[n] \in 0..k /\ \A i \in 1..k : e[i] <= n => i <= met[n]}
<1>9. 0 \in Good
  <2>1. 0 \in 0..l /\ met[0] = 0
    BY <1>1, <1>8
  <2>2. \A i \in 1..k : ~(e[i] <= 0)
    BY <1>1, <1>2
  <2> QED BY <1>1, <2>1, <2>2
<1>10. ASSUME NEW n \in 0..(l - 1), n \in Good PROVE n + 1 \in Good
  <2> DEFINE b == met[n]
             c == met[n + 1]
  <2>1. n + 1 \in 0..l /\ (n + 1) - 1 = n /\ n + 1 # 0 /\ n + 1 > 0 /\ n \in Nat
    BY <1>1
  <2>2. b \in 0..k /\ \A i \in 1..k : e[i] <= n => i <= b
    BY <1>10
  <2>3. c = IF b < k /\ t[b + 1] = s[n + 1] THEN b + 1 ELSE b
    BY <1>8, <2>1
  <2> HIDE DEF b, c
  <2>4. c \in 0..k /\ b <= c
    BY <1>1, <2>2, <2>3
  <2>5. ASSUME NEW i \in 1..k, e[i] <= n + 1 PROVE i <= c
    <3>1. CASE e[i] <= n
      BY <1>1, <2>2, <2>4, <3>1
    <3>2. CASE ~(e[i] <= n)
      <4>1. e[i] \in 1..l /\ e[i] = n + 1
        BY <1>1, <1>2, <2>1, <2>5, <3>2
      <4>2. i <= b + 1
        <5>1. CASE i = 1
          BY <1>1, <2>2, <5>1
        <5>2. CASE i # 1
          <6>1. i - 1 \in 1..k /\ i - 1 < i
            BY <1>1, <5>2
          <6>2. e[i - 1] < e[i] /\ e[i - 1] \in 1..l
            BY <1>2, <6>1
          <6>3. i - 1 <= b
            BY <1>1, <2>1, <2>2, <4>1, <6>1, <6>2
          <6> QED BY <1>1, <2>2, <6>3
        <5> QED BY <5>1, <5>2
      <4>3. CASE i <= b
        BY <1>1, <2>2, <2>4, <4>3
      <4>4. CASE ~(i <= b)
        <5>1. i = b + 1 /\ b < k
          BY <1>1, <2>2, <4>2, <4>4
        <5>2. t[b + 1] = s[n + 1]
          BY <1>2, <4>1, <5>1
        <5> QED BY <1>1, <2>2, <2>3, <5>1, <5>2
      <4> QED BY <4>3, <4>4
    <3> QED BY <3>1, <3>2
  <2> QED BY <2>1, <2>4, <2>5 DEF c
<1>11. l \in Good
  <2> HIDE DEF Good
  <2>1. 0..l \subseteq Good
    BY <1>1, <1>9, <1>10, UpTo
  <2> QED BY <1>1, <2>1
<1>12. met[l] = k
  <2> DEFINE m == met[l]
  <2>1. m \in 0..k /\ \A i \in 1..k : i <= m
    BY <1>2, <1>11
  <2> HIDE DEF m
  <2>2. k > 0 => k <= m
    BY <1>1, <2>1
  <2>3. m = k
    BY <1>1, <2>1, <2>2
  <2> QED BY <2>3 DEF m
<1> QED BY <1>3, <1>12

---------------------------------------------------------------------------
(* The invariant of console input.                                         *)

Hals == [push : Seq(1..MaxPushes), ttyq : Seq(Letters), peek : Bytes \cup {Nothing},
         eof : BOOLEAN, esc : 0..2, until : [Keys -> 0..TimeMod - 1], wire : Seq(Bytes),
         closed : BOOLEAN]

\* Escape sequences come whole, and nothing after the end of a terminal.
Whole(w, closed) ==
  \A i \in 1..Len(w) :
    /\ w[i] = "[" => i > 1 /\ w[i - 1] = "ESC" /\ i < Len(w) /\ w[i + 1] \in {"A", "C"}
    /\ w[i] \in {"A", "C"} => i > 1 /\ w[i - 1] = "["
    /\ w[i] = CtrlD => host = "RAW" /\ closed /\ i = Len(w)

Terminal(h) ==
  /\ h.peek = Nothing /\ h.esc = 0 /\ Whole(h.wire, h.closed)
  /\ h.eof => h.closed /\ h.wire = << >>

File(h) ==
  /\ h.ttyq = << >> /\ h.esc = 0 /\ h.until = [key \in Keys |-> 0]
  /\ h.eof => host = "PIPE" /\ h.closed /\ h.wire = << >> /\ h.peek = Nothing
  /\ h.peek # Nothing => host = "PIPE"
  /\ host = "EMBEDDED" => h.wire = << >>

Sources(h) ==
  /\ h \in Hals /\ Len(h.push) <= PushCap /\ Len(h.ttyq) <= TtyCap
  /\ IF IsTty THEN Terminal(h) ELSE File(h)

\* hal_con_in() has something.
Answers(h) ==
  \/ h.push # << >> \/ host = "SCRIPT"
  \/ host # "EMBEDDED" /\ (h.peek # Nothing \/ h.eof \/ (IsTty /\ h.ttyq # << >>))

\* A file has been read to its end.
Ended(h) == /\ host \in {"SCRIPT", "PIPE"} /\ h.wire = << >> /\ h.peek = Nothing
            /\ host = "PIPE" => h.closed

Counts ==
  /\ host \in Hosts /\ clock \in 0..TimeMod - 1 /\ elapsed \in 0..MaxMs
  /\ promised \in BOOLEAN /\ pushes \in 0..MaxPushes /\ pushedTotal \in 0..pushes
  /\ typed \in 0..MaxTyped /\ sent \in Seq(Bytes) /\ sawEof \in BOOLEAN /\ lost \in BOOLEAN
  /\ pressed \in [Keys -> -1..MaxMs]

Reads == [from : {"PUSH"}, byte : 1..MaxPushes] \cup [from : {"HOST"}, byte : Bytes]

\* What of g was read from the host, and what of h waits to be.
Heard(g) == FlattenSeq([i \in 1..Len(g) |-> IF g[i].from = "HOST" THEN <<g[i].byte>> ELSE << >>])
Unread(h) == (IF h.peek = Nothing THEN << >> ELSE <<h.peek>>) \o h.ttyq \o Text(h.wire)
Told(g, h, s, gone) == /\ Inside(Heard(g) \o Unread(h), s)
                       /\ ~gone => Heard(g) \o Unread(h) = s

InputInv ==
  /\ Counts /\ Sources(hal) /\ got \in Seq(Reads)
  /\ promised => Answers(hal)
  /\ ~IsTty => ~lost /\ (sawEof => Ended(hal))
  /\ Told(got, hal, sent, lost)

\* Since it was last pressed, a key has until HoldMs after, or one more where 0 would mean never;
\* the clock may have wrapped once between.
KeyTime(key) ==
  IF pressed[key] = -1 THEN hal.until[key] = 0
  ELSE /\ pressed[key] <= elapsed /\ hal.until[key] # 0
       /\ \E end \in {clock + HoldMs - Since(key), clock + HoldMs - Since(key) + 1} :
            hal.until[key] \in {end - TimeMod, end, end + TimeMod}
KeyInv == \A key \in Keys : KeyTime(key)

---------------------------------------------------------------------------
(* Text.                                                                   *)

\* A byte is one letter of the text, or none.
LEMMA LetterType == \A ch : Letter(ch) \in Seq(Letters) /\ Len(Letter(ch)) <= 1
  BY DEF Letter

\* Text goes byte by byte.
LEMMA TextAppend ==
  ASSUME NEW s \in Seq(Bytes), NEW ch \in Bytes
  PROVE  /\ Text(<< >>) = << >> /\ Text(s) \in Seq(Bytes) /\ Append(s, ch) \in Seq(Bytes)
         /\ IsTty => Text(s) \in Seq(Letters) /\ Text(Append(s, ch)) = Text(s) \o Letter(ch)
         /\ ~IsTty => Text(s) = s /\ Text(Append(s, ch)) = Append(s, ch)
<1> DEFINE Ls(x) == [i \in 1..Len(x) |-> Letter(x[i])]
           t == Append(s, ch)
<1>1. /\ t \in Seq(Bytes) /\ Len(t) = Len(s) + 1 /\ t[Len(s) + 1] = ch /\ Len(s) \in Nat
      /\ \A i \in 1..Len(s) : t[i] = s[i]
  BY AppendProperties
<1> HIDE DEF t
<1>2. Ls(s) \in Seq(Seq(Letters)) /\ Ls(t) = Append(Ls(s), Letter(ch))
  <2>1. Ls(s) \in Seq(Seq(Letters)) /\ Len(Ls(s)) = Len(s)
    BY <1>1, LetterType
  <2>2. Ls(t) \in Seq(Seq(Letters)) /\ Len(Ls(t)) = Len(s) + 1
    BY <1>1, LetterType
  <2> DEFINE u == Append(Ls(s), Letter(ch))
  <2>3. /\ u \in Seq(Seq(Letters)) /\ Len(u) = Len(s) + 1 /\ u[Len(s) + 1] = Letter(ch)
        /\ \A i \in 1..Len(s) : u[i] = Letter(s[i])
    <3>1. \A i \in 1..Len(s) : Ls(s)[i] = Letter(s[i])
      OBVIOUS
    <3> HIDE DEF Ls
    <3> QED BY <2>1, <3>1, LetterType, AppendProperties
  <2>4. ASSUME NEW i \in 1..(Len(s) + 1) PROVE Ls(t)[i] = u[i]
    <3>1. Ls(t)[i] = Letter(t[i])
      BY <1>1
    <3> HIDE DEF Ls, u
    <3>2. CASE i \in 1..Len(s)
      BY <1>1, <2>3, <3>1, <3>2
    <3>3. CASE i = Len(s) + 1
      BY <1>1, <2>3, <3>1, <3>3
    <3> QED BY <1>1, <3>2, <3>3
  <2> HIDE DEF Ls, u
  <2>5. Ls(t) = u
    BY <2>2, <2>3, <2>4, SeqEqual
  <2> QED BY <2>1, <2>5 DEF u
<1>3. /\ FlattenSeq(Ls(s)) \in Seq(Letters)
      /\ FlattenSeq(Ls(t)) = FlattenSeq(Ls(s)) \o Letter(ch)
  <2> HIDE DEF Ls
  <2> QED BY <1>2, LetterType, FlattenAppend
<1>4. FlattenSeq(Ls(<< >>)) = << >>
  BY FlattenEmpty
<1>5. Letters \subseteq Bytes
  BY DEF Bytes
<1>6. /\ IsTty => Text(<< >>) = FlattenSeq(Ls(<< >>)) /\ Text(s) = FlattenSeq(Ls(s))
                  /\ Text(t) = FlattenSeq(Ls(t))
      /\ ~IsTty => Text(<< >>) = << >> /\ Text(s) = s /\ Text(t) = t
  BY DEF Text
<1> HIDE DEF Ls
<1>7. FlattenSeq(Ls(s)) \in Seq(Bytes)
  BY <1>3, <1>5, SeqMonotonic
<1> QED BY <1>1, <1>3, <1>4, <1>6, <1>7 DEF t

\* What the queue of the terminal takes of a text.
Room(s) == IF Len(s) <= TtyCap THEN s ELSE SubSeq(s, 1, TtyCap)
\* A queue that took what it has room for holds no more than its capacity.
LEMMA RoomIs ==
  ASSUME NEW s \in Seq(Letters)
  PROVE  /\ Room(s) \in Seq(Letters) /\ Len(Room(s)) = IF Len(s) <= TtyCap THEN Len(s) ELSE TtyCap
         /\ \A i \in 1..Len(Room(s)) : Room(s)[i] = s[i]
<1>1. TtyCap \in Nat /\ Len(s) \in Nat
  BY ConsoleInputAssumption DEF ConsoleInputAssumption
<1>2. CASE Len(s) <= TtyCap
  BY <1>2 DEF Room
<1>3. CASE ~(Len(s) <= TtyCap)
  <2>1. \A i \in 1..TtyCap : s[i] \in Letters
    BY <1>1, <1>3
  <2>2. /\ SubSeq(s, 1, TtyCap) \in Seq(Letters) /\ Len(SubSeq(s, 1, TtyCap)) = TtyCap
        /\ \A i \in 1..TtyCap : SubSeq(s, 1, TtyCap)[i] = s[i]
    BY <1>1, <1>3, <2>1
  <2> QED BY <1>3, <2>2 DEF Room
<1> QED BY <1>2, <1>3

\* A letter more finds the room that the letters before it have left.
LEMMA RoomAppend ==
  ASSUME NEW s \in Seq(Letters), NEW ch \in Letters
  PROVE  Room(Append(s, ch)) = IF Len(Room(s)) >= TtyCap THEN Room(s) ELSE Append(Room(s), ch)
<1> DEFINE t == Append(s, ch)
           r == Room(s)
           q == Room(t)
           u == IF Len(r) >= TtyCap THEN r ELSE Append(r, ch)
<1>1. TtyCap \in Nat /\ Len(s) \in Nat
  BY ConsoleInputAssumption DEF ConsoleInputAssumption
<1>2. /\ t \in Seq(Letters) /\ Len(t) = Len(s) + 1 /\ t[Len(s) + 1] = ch
      /\ \A i \in 1..Len(s) : t[i] = s[i]
  BY AppendProperties
<1> HIDE DEF t
<1>3. /\ r \in Seq(Letters) /\ Len(r) = IF Len(s) <= TtyCap THEN Len(s) ELSE TtyCap
      /\ \A i \in 1..Len(r) : r[i] = s[i]
  BY RoomIs
<1>4. /\ q \in Seq(Letters) /\ Len(q) = IF Len(s) + 1 <= TtyCap THEN Len(s) + 1 ELSE TtyCap
      /\ \A i \in 1..Len(q) : q[i] = t[i]
  BY <1>2, RoomIs
<1> HIDE DEF r, q
<1>5. CASE Len(r) >= TtyCap
  <2>1. u = r /\ Len(q) = Len(r) /\ Len(r) <= Len(s)
    BY <1>1, <1>3, <1>4, <1>5
  <2>2. \A i \in 1..Len(r) : q[i] = r[i]
    BY <1>1, <1>2, <1>3, <1>4, <2>1
  <2>3. q = r
    BY <1>3, <1>4, <2>1, <2>2, SeqEqual
  <2> QED BY <2>1, <2>3 DEF q, r, t
<1>6. CASE ~(Len(r) >= TtyCap)
  <2>1. u = Append(r, ch) /\ Len(r) = Len(s) /\ Len(q) = Len(s) + 1
    BY <1>1, <1>3, <1>4, <1>6
  <2>2. /\ u \in Seq(Letters) /\ Len(u) = Len(s) + 1 /\ u[Len(s) + 1] = ch
        /\ \A i \in 1..Len(s) : u[i] = s[i]
    BY <1>3, <2>1, AppendProperties
  <2> HIDE DEF u
  <2>3. \A i \in 1..(Len(s) + 1) : q[i] = u[i]
    BY <1>1, <1>2, <1>4, <2>1, <2>2
  <2>4. q = u
    BY <1>4, <2>1, <2>2, <2>3, SeqEqual
  <2> QED BY <2>1, <2>4, <1>6 DEF u, q, r, t
<1> QED BY <1>5, <1>6

---------------------------------------------------------------------------
(* Pumping the terminal.                                                   *)

\* The time until which a key that is pressed now is down.
Hit == IF (clock + HoldMs) % TimeMod = 0 THEN 1 ELSE (clock + HoldMs) % TimeMod

\* key_hit (hal_posix.c:355) never writes 0, which means never pressed.
LEMMA HitType == Counts => Hit \in 1..(TimeMod - 1)
<1> SUFFICES ASSUME Counts PROVE Hit \in 1..(TimeMod - 1)
  OBVIOUS
<1>1. TimeMod \in Nat /\ TimeMod >= 2 /\ HoldMs \in Nat
  BY ConsoleInputAssumption DEF ConsoleInputAssumption
<1>2. clock + HoldMs \in Nat
  BY <1>1 DEF Counts
<1> DEFINE m == (clock + HoldMs) % TimeMod
<1>3. m \in 0..(TimeMod - 1)
  BY <1>1, <1>2
<1> HIDE DEF m
<1>4. (IF m = 0 THEN 1 ELSE m) \in 1..(TimeMod - 1)
  BY <1>1, <1>3
<1> QED BY <1>4 DEF Hit, m

\* r is h but for its keys, its queue, its escape state and its end, and keys of r are of now.
Kept(h, r) ==
  /\ r \in Hals /\ r.push = h.push /\ r.peek = h.peek /\ r.closed = h.closed /\ r.wire = h.wire
  /\ \A key \in Keys : r.until[key] \in {h.until[key], Hit}

\* key_hit touches only the times of the keys it is given, and gives them the same time.
LEMMA KeyHit ==
  ASSUME Counts, NEW h \in Hals, NEW key \in Keys
  PROVE  /\ Kept(h, key_hit(h, key)) /\ key_hit(h, key).ttyq = h.ttyq
         /\ key_hit(h, key).esc = h.esc /\ key_hit(h, key).eof = h.eof
<1> DEFINE u == [[h.until EXCEPT ![key] = Hit] EXCEPT !["ANY"] = Hit]
           r == [h EXCEPT !.until = u]
<1>1. TimeMod \in Nat /\ Hit \in 0..(TimeMod - 1)
  BY HitType, ConsoleInputAssumption DEF ConsoleInputAssumption
<1>2. h.until \in [Keys -> 0..(TimeMod - 1)]
  BY DEF Hals
<1>3. /\ u \in [Keys -> 0..(TimeMod - 1)]
      /\ \A k \in Keys : u[k] \in {h.until[k], Hit}
  BY <1>1, <1>2 DEF Keys
<1>4. key_hit(h, key) = [h EXCEPT !.until = u]
  BY DEF key_hit, Hit, Hals
<1> HIDE DEF u
<1>5. /\ r \in Hals /\ r.push = h.push /\ r.peek = h.peek /\ r.closed = h.closed
      /\ r.wire = h.wire /\ r.until = u /\ r.ttyq = h.ttyq /\ r.esc = h.esc /\ r.eof = h.eof
  BY <1>3 DEF Hals
<1> QED BY <1>3, <1>4, <1>5 DEF Kept

\* Two bytes, pumped one after the other.
LEMMA KeptTwice ==
  ASSUME NEW h, NEW r, NEW s, Kept(h, r), Kept(r, s)
  PROVE  Kept(h, s)
  BY DEF Kept

\* A byte that is not in an escape sequence.
LEMMA PlainByte ==
  ASSUME Counts, NEW h \in Hals, h.esc = 0, NEW ch \in Letters \cup {"ESC", CtrlD},
         ch = CtrlD => host = "RAW", Len(h.ttyq) <= TtyCap
  PROVE  LET r == Plain(h, ch) IN
         /\ Kept(h, r)
         /\ r.esc = (IF ch = "ESC" THEN 1 ELSE 0)
         /\ r.eof = (h.eof \/ ch = CtrlD)
         /\ r.ttyq = IF ch \in Letters /\ ~(Len(h.ttyq) >= TtyCap) THEN Append(h.ttyq, ch)
                     ELSE h.ttyq
<1> DEFINE r == Plain(h, ch)
<1>1. Kept(h, h) /\ h.eof \in BOOLEAN /\ h.ttyq \in Seq(Letters)
  BY DEF Kept, Hals
<1>2. CASE ch = "ESC"
  <2>1. r = [h EXCEPT !.esc = 1]
    BY <1>2 DEF Plain
  <2>2. /\ r \in Hals /\ r.push = h.push /\ r.peek = h.peek /\ r.closed = h.closed
        /\ r.wire = h.wire /\ r.until = h.until /\ r.ttyq = h.ttyq /\ r.esc = 1 /\ r.eof = h.eof
    <3>1. 1 \in 0..2
      OBVIOUS
    <3> HIDE DEF r
    <3> QED BY <2>1, <3>1 DEF Hals
  <2>3. ch # CtrlD /\ ch \notin Letters
    BY <1>2 DEF CtrlD, Letters
  <2> QED BY <1>1, <1>2, <2>2, <2>3 DEF Kept
<1>3. CASE ch = CtrlD
  <2>1. r = [h EXCEPT !.eof = TRUE]
    BY <1>3 DEF Plain, CtrlD
  <2>2. /\ r \in Hals /\ r.push = h.push /\ r.peek = h.peek /\ r.closed = h.closed
        /\ r.wire = h.wire /\ r.until = h.until /\ r.ttyq = h.ttyq /\ r.esc = 0 /\ r.eof = TRUE
    BY <2>1 DEF Hals
  <2>3. ch # "ESC" /\ ch \notin Letters
    BY <1>3 DEF CtrlD, Letters
  <2> QED BY <1>1, <1>3, <2>2, <2>3 DEF Kept
<1>4. CASE ch \in Letters
  <2> DEFINE key == IF ch = "w" THEN "W" ELSE "ANY"
             s == key_hit(h, key)
  <2>1. ch # "ESC" /\ ch # CtrlD
    BY <1>4 DEF CtrlD, Letters
  <2>2. r = ttyq_push(s, ch)
    BY <2>1 DEF Plain, classify_byte
  <2>3. key \in Keys
    BY DEF Keys
  <2> HIDE DEF key
  <2>4. Kept(h, s) /\ s.ttyq = h.ttyq /\ s.esc = 0 /\ s.eof = h.eof
    BY <2>3, KeyHit
  <2> HIDE DEF s, r
  <2>5. CASE Len(h.ttyq) >= TtyCap
    <3>1. r = s
      BY <2>2, <2>4, <2>5 DEF ttyq_push
    <3> QED BY <1>1, <2>1, <2>4, <2>5, <3>1 DEF r
  <2>6. CASE ~(Len(h.ttyq) >= TtyCap)
    <3> DEFINE q == Append(h.ttyq, ch)
    <3>1. r = [s EXCEPT !.ttyq = Append(s.ttyq, ch)]
      BY <2>2, <2>4, <2>6 DEF ttyq_push
    <3>2. q \in Seq(Letters)
      BY <1>1, <1>4, AppendProperties
    <3>3. r = [s EXCEPT !.ttyq = q]
      BY <2>4, <3>1
    <3> HIDE DEF q
    <3>4. /\ r \in Hals /\ r.push = s.push /\ r.peek = s.peek /\ r.closed = s.closed
          /\ r.wire = s.wire /\ r.until = s.until /\ r.ttyq = q /\ r.esc = s.esc /\ r.eof = s.eof
      BY <2>4, <3>2, <3>3 DEF Hals, Kept
    <3>5. Kept(h, r)
      BY <2>4, <3>4 DEF Kept
    <3> QED BY <1>1, <1>4, <2>1, <2>4, <2>6, <3>4, <3>5 DEF q, r
  <2> QED BY <2>5, <2>6
<1> QED BY <1>2, <1>3, <1>4

\* A byte that ends an escape sequence.
LEMMA FinalByte ==
  ASSUME Counts, NEW h \in Hals, NEW ch \in {"A", "C"}
  PROVE  /\ Kept(h, InSequence(h, ch)) /\ InSequence(h, ch).esc = 0
         /\ InSequence(h, ch).eof = h.eof /\ InSequence(h, ch).ttyq = h.ttyq
<1> DEFINE s == [h EXCEPT !.esc = 0]
           key == IF ch = "A" THEN "UP" ELSE "ANY"
<1>1. InSequence(h, ch) = key_hit(s, key)
  BY DEF InSequence, Finals
<1>2. 0 \in 0..2 /\ key \in Keys
  BY DEF Keys
<1>3. Kept(h, s) /\ s.esc = 0 /\ s.eof = h.eof /\ s.ttyq = h.ttyq
  BY <1>2 DEF Hals, Kept
<1> HIDE DEF s, key
<1>4. /\ Kept(s, key_hit(s, key)) /\ key_hit(s, key).ttyq = s.ttyq
      /\ key_hit(s, key).esc = s.esc /\ key_hit(s, key).eof = s.eof
  <2>1. s \in Hals
    BY <1>3 DEF Kept
  <2> QED BY <1>2, <2>1, KeyHit
<1> QED BY <1>1, <1>3, <1>4, KeptTwice

\* An ESC that begins no sequence.
LEMMA LoneEscape ==
  ASSUME Counts, NEW h \in Hals
  PROVE  LET r == bare_escape([h EXCEPT !.esc = 0]) IN
         Kept(h, r) /\ r.esc = 0 /\ r.eof = h.eof /\ r.ttyq = h.ttyq
<1> DEFINE s == [h EXCEPT !.esc = 0]
<1>1. bare_escape(s) = key_hit(s, "ESC")
  BY DEF bare_escape
<1>2. 0 \in 0..2 /\ "ESC" \in Keys
  BY DEF Keys
<1>3. Kept(h, s) /\ s.esc = 0 /\ s.eof = h.eof /\ s.ttyq = h.ttyq
  BY <1>2 DEF Hals, Kept
<1> HIDE DEF s
<1>4. /\ Kept(s, key_hit(s, "ESC")) /\ key_hit(s, "ESC").ttyq = s.ttyq
      /\ key_hit(s, "ESC").esc = s.esc /\ key_hit(s, "ESC").eof = s.eof
  <2>1. s \in Hals
    BY <1>3 DEF Kept
  <2> QED BY <1>2, <2>1, KeyHit
<1>5. Kept(h, bare_escape(s))
  BY <1>1, <1>3, <1>4, KeptTwice
<1> QED BY <1>1, <1>3, <1>4, <1>5 DEF s

\* The first n bytes of the wire have been pumped.
EscapeAt(w, n) == IF n = 0 THEN 0 ELSE IF w[n] = "ESC" THEN 1 ELSE IF w[n] = "[" THEN 2 ELSE 0
Progress(h, n) ==
  {r \in Hals :
     /\ Kept([h EXCEPT !.wire = << >>], r)
     /\ r.esc = EscapeAt(h.wire, n)
     /\ r.eof = (h.eof \/ (n > 0 /\ h.wire[n] = CtrlD))
     /\ r.ttyq = Room(h.ttyq \o Text(SubSeq(h.wire, 1, n)))}

\* The part of the wire that is pumped, one byte longer.
LEMMA PrefixGrows ==
  ASSUME NEW w \in Seq(Bytes), NEW n \in 0..(Len(w) - 1)
  PROVE  /\ n + 1 \in 1..Len(w) /\ w[n + 1] \in Bytes /\ SubSeq(w, 1, n) \in Seq(Bytes)
         /\ SubSeq(w, 1, n + 1) = Append(SubSeq(w, 1, n), w[n + 1])
<1>1. Len(w) \in Nat /\ n \in Nat /\ n + 1 \in 1..Len(w) /\ n <= Len(w)
  OBVIOUS
<1>2. w[n + 1] \in Bytes /\ \A i \in 1..(n + 1) : w[i] \in Bytes
  BY <1>1
<1>3. /\ SubSeq(w, 1, n) \in Seq(Bytes) /\ Len(SubSeq(w, 1, n)) = n
      /\ \A i \in 1..n : SubSeq(w, 1, n)[i] = w[i]
  BY <1>1, <1>2
<1>4. /\ SubSeq(w, 1, n + 1) \in Seq(Bytes) /\ Len(SubSeq(w, 1, n + 1)) = n + 1
      /\ \A i \in 1..(n + 1) : SubSeq(w, 1, n + 1)[i] = w[i]
  BY <1>1, <1>2
<1> DEFINE s == SubSeq(w, 1, n)
           t == SubSeq(w, 1, n + 1)
           u == Append(s, w[n + 1])
<1> HIDE DEF s, t
<1>5. /\ u \in Seq(Bytes) /\ Len(u) = n + 1 /\ u[n + 1] = w[n + 1]
      /\ \A i \in 1..n : u[i] = w[i]
  BY <1>2, <1>3, AppendProperties DEF s
<1> HIDE DEF u
<1>6. t = u
  <2>1. \A i \in 1..(n + 1) : i \in 1..n \/ i = n + 1
    BY <1>1
  <2>2. \A i \in 1..(n + 1) : t[i] = u[i]
    BY <1>4, <1>5, <2>1 DEF t
  <2> QED BY <1>4, <1>5, <2>2, SeqEqual DEF t
<1> QED BY <1>1, <1>2, <1>3, <1>6 DEF s, t, u

\* The loop of tty_pump keeps its invariant.
LEMMA PumpByte ==
  ASSUME Counts, IsTty, NEW h \in Hals, Whole(h.wire, h.closed), Len(h.ttyq) <= TtyCap,
         NEW n \in 0..(Len(h.wire) - 1), NEW r \in Progress(h, n)
  PROVE  pump_byte(r, h.wire[n + 1]) \in Progress(h, n + 1)
<1> DEFINE w == h.wire
           ch == w[n + 1]
           text == h.ttyq \o Text(SubSeq(w, 1, n))
           next == h.ttyq \o Text(SubSeq(w, 1, n + 1))
           s == pump_byte(r, ch)
           base == [h EXCEPT !.wire = << >>]
<1>1. /\ w \in Seq(Bytes) /\ h.ttyq \in Seq(Letters) /\ Len(w) \in Nat /\ n \in Nat /\ n < Len(w)
      /\ n + 1 > 0 /\ n + 1 # 0 /\ (n + 1) - 1 = n
  BY DEF Hals
<1>2. /\ n + 1 \in 1..Len(w) /\ ch \in Bytes /\ SubSeq(w, 1, n) \in Seq(Bytes)
      /\ SubSeq(w, 1, n + 1) = Append(SubSeq(w, 1, n), ch)
  BY <1>1, PrefixGrows
<1>3. /\ text \in Seq(Letters)
      /\ next = IF ch \in Letters THEN Append(text, ch) ELSE text
  <2> DEFINE before == Text(SubSeq(w, 1, n))
  <2>1. /\ before \in Seq(Letters)
        /\ Text(SubSeq(w, 1, n + 1)) = before \o Letter(ch)
    BY <1>2, TextAppend
  <2> HIDE DEF before
  <2>2. h.ttyq \o (before \o Letter(ch)) = (h.ttyq \o before) \o Letter(ch)
    <3>1. before \in Seq(Letters) /\ h.ttyq \in Seq(Letters) /\ Letter(ch) \in Seq(Letters)
      BY <1>1, <2>1, LetterType
    <3> QED BY <3>1, ConcatThrice, Zenon
  <2>3. h.ttyq \o before \in Seq(Letters)
    BY <1>1, <2>1, ConcatProperties
  <2>4. next = (h.ttyq \o before) \o Letter(ch)
    BY <2>1, <2>2
  <2>5. CASE ch \in Letters
    BY <2>3, <2>4, <2>5, AppendIsConcat DEF Letter, before
  <2>6. CASE ch \notin Letters
    BY <2>3, <2>4, <2>6, ConcatEmptySeq DEF Letter, before
  <2> QED BY <2>3, <2>5, <2>6 DEF before
<1>4. /\ r \in Hals /\ Kept(base, r) /\ r.esc = EscapeAt(w, n) /\ r.ttyq = Room(text)
      /\ r.eof = h.eof
  <2>1. n > 0 => w[n] # CtrlD
    <3>1. n > 0 => n \in 1..Len(w) /\ n # Len(w)
      BY <1>1
    <3> QED BY <3>1 DEF Whole
  <2>2. h.eof \in BOOLEAN
    BY DEF Hals
  <2> QED BY <2>1, <2>2 DEF Progress
<1>5. /\ ch = "[" => n > 0 /\ w[n] = "ESC"
      /\ ch \in {"A", "C"} => n > 0 /\ w[n] = "["
      /\ n > 0 /\ w[n] = "[" => ch \in {"A", "C"}
      /\ ch = CtrlD => host = "RAW"
  <2>1. n > 0 => n \in 1..Len(w)
    BY <1>1
  <2>2. n + 1 > 1 => n > 0
    BY <1>1
  <2> QED BY <1>1, <1>2, <2>1, <2>2 DEF Whole
<1>6. Room(next) = IF ch \in Letters /\ ~(Len(r.ttyq) >= TtyCap) THEN Append(r.ttyq, ch)
                   ELSE r.ttyq
  <2>1. CASE ch \in Letters
    BY <1>3, <1>4, <2>1, RoomAppend
  <2>2. CASE ch \notin Letters
    BY <1>3, <1>4, <2>2
  <2> QED BY <2>1, <2>2
<1>7. TtyCap \in Nat /\ Len(r.ttyq) <= TtyCap
  <2>1. TtyCap \in Nat
    BY ConsoleInputAssumption DEF ConsoleInputAssumption
  <2>2. Len(text) \in Nat /\ Len(Room(text)) = IF Len(text) <= TtyCap THEN Len(text) ELSE TtyCap
    <3> HIDE DEF text
    <3> QED BY <1>3, RoomIs
  <2> HIDE DEF text
  <2> QED BY <1>4, <2>1, <2>2
<1>8. SUFFICES /\ Kept(r, s) /\ s.esc = EscapeAt(w, n + 1) /\ s.eof = (r.eof \/ ch = CtrlD)
               /\ s.ttyq = IF ch \in Letters /\ ~(Len(r.ttyq) >= TtyCap) THEN Append(r.ttyq, ch)
                           ELSE r.ttyq
  <2>1. ASSUME Kept(r, s) PROVE s \in Hals /\ Kept(base, s)
    BY <1>4, <2>1, KeptTwice DEF Kept
  <2> HIDE DEF s, base
  <2>2. s.eof = (r.eof \/ ch = CtrlD) => s.eof = (h.eof \/ (n + 1 > 0 /\ w[n + 1] = CtrlD))
    BY <1>1, <1>4
  <2>3. s.ttyq = Room(next) => s.ttyq = Room(h.ttyq \o Text(SubSeq(h.wire, 1, n + 1)))
    OBVIOUS
  <2>4. /\ Kept(r, s) /\ s.esc = EscapeAt(w, n + 1) /\ s.eof = (r.eof \/ ch = CtrlD)
        /\ s.ttyq = Room(next)
        => s \in Progress(h, n + 1)
    <3> HIDE DEF next
    <3> QED BY <2>1, <2>2, <2>3 DEF Progress, base
  <2> QED BY <1>6, <2>4 DEF s
<1> HIDE DEF text, next, base
<1>9. EscapeAt(w, n + 1) = IF ch = "ESC" THEN 1 ELSE IF ch = "[" THEN 2 ELSE 0
  BY <1>1 DEF EscapeAt
<1>10. EscapeAt(w, n) \in 0..2
  BY DEF EscapeAt
<1>11. r.eof \in BOOLEAN
  BY <1>4 DEF Hals
<1> HIDE DEF w, ch
<1>12. CASE r.esc = 2
  <2>1. n > 0 /\ w[n] = "["
    BY <1>1, <1>4, <1>12 DEF EscapeAt
  <2>2. ch \in {"A", "C"}
    BY <1>5, <2>1
  <2>3. ch # "ESC" /\ ch # "[" /\ ch # CtrlD /\ ch \notin Letters
    BY <2>2 DEF CtrlD, Letters
  <2>4. s = InSequence(r, ch)
    BY <1>12 DEF pump_byte
  <2> HIDE DEF s
  <2>5. Kept(r, s) /\ s.esc = 0 /\ s.eof = r.eof /\ s.ttyq = r.ttyq
    BY <1>4, <2>2, <2>4, FinalByte
  <2> QED BY <1>9, <1>11, <2>3, <2>5
<1>13. CASE r.esc # 2 /\ ch \in {"[", "A", "C"}
  <2>1. n > 0 /\ w[n] = "ESC" /\ ch = "[" /\ r.esc = 1
    <3>1. n > 0 /\ w[n] = "[" => r.esc = 2
      BY <1>1, <1>4 DEF EscapeAt
    <3>2. ch = "[" /\ n > 0 /\ w[n] = "ESC"
      BY <1>5, <1>13, <3>1
    <3> QED BY <1>1, <1>4, <3>2 DEF EscapeAt
  <2>2. s = [r EXCEPT !.esc = 2]
    BY <2>1 DEF pump_byte
  <2> HIDE DEF s
  <2>3. 2 \in 0..2
    OBVIOUS
  <2>4. Kept(r, s) /\ s.esc = 2 /\ s.eof = r.eof /\ s.ttyq = r.ttyq
    BY <1>4, <2>2, <2>3 DEF Kept, Hals
  <2>5. ch # "ESC" /\ ch # CtrlD /\ ch \notin Letters
    BY <2>1 DEF CtrlD, Letters
  <2> QED BY <1>9, <1>11, <2>1, <2>4, <2>5
<1>14. CASE r.esc # 2 /\ ch \notin {"[", "A", "C"}
  <2>1. ch \in Letters \cup {"ESC", CtrlD} /\ ch # "["
    BY <1>2, <1>14 DEF Bytes, ch
  <2> DEFINE q == IF r.esc = 0 THEN r ELSE bare_escape([r EXCEPT !.esc = 0])
  <2>2. s = Plain(q, ch)
    <3>1. r.esc \in 0..2
      BY <1>4, <1>10
    <3> QED BY <1>14, <2>1, <3>1 DEF pump_byte
  <2>3. Kept(r, q) /\ q.esc = 0 /\ q.eof = r.eof /\ q.ttyq = r.ttyq
    <3>1. CASE r.esc = 0
      BY <1>4, <3>1 DEF Kept
    <3>2. CASE r.esc # 0
      BY <1>4, <3>2, LoneEscape
    <3> QED BY <3>1, <3>2
  <2> HIDE DEF q, s
  <2>4. q \in Hals
    BY <2>3 DEF Kept
  <2>5. /\ Kept(q, s) /\ s.esc = (IF ch = "ESC" THEN 1 ELSE 0) /\ s.eof = (q.eof \/ ch = CtrlD)
        /\ s.ttyq = IF ch \in Letters /\ ~(Len(q.ttyq) >= TtyCap) THEN Append(q.ttyq, ch)
                    ELSE q.ttyq
    BY <1>5, <1>7, <2>1, <2>2, <2>3, <2>4, PlainByte
  <2>6. Kept(r, s)
    BY <2>3, <2>5, KeptTwice
  <2> QED BY <1>9, <2>1, <2>3, <2>5, <2>6
<1> QED BY <1>12, <1>13, <1>14

\* All of the wire, pumped.
LEMMA PumpAll ==
  ASSUME Counts, IsTty, NEW h \in Hals, Whole(h.wire, h.closed), h.esc = 0, Len(h.ttyq) <= TtyCap,
         ~h.eof, h.wire # << >>
  PROVE  \E r \in Progress(h, Len(h.wire)) :
           tty_pump(h) = IF r.esc = 1 THEN bare_escape([r EXCEPT !.esc = 0]) ELSE r
<1> DEFINE w == h.wire
           N == Len(w)
           start == [h EXCEPT !.wire = << >>]
           read[n \in 0..N] == IF n = 0 THEN start ELSE pump_byte(read[n - 1], w[n])
           S == UNION {Progress(h, n) : n \in 0..N}
           next == [n \in 1..N |-> [r \in S |-> IF r \in Progress(h, n - 1) THEN pump_byte(r, w[n])
                                                ELSE start]]
<1>1. w \in Seq(Bytes) /\ N \in Nat /\ h.ttyq \in Seq(Letters)
  BY DEF Hals
<1> HIDE DEF N
<1>2. start \in Progress(h, 0)
  <2>1. << >> \in Seq(Bytes)
    OBVIOUS
  <2>2. /\ start \in Hals /\ start.push = h.push /\ start.peek = h.peek
        /\ start.closed = h.closed /\ start.wire = << >> /\ start.until = h.until
        /\ start.ttyq = h.ttyq /\ start.esc = h.esc /\ start.eof = h.eof
    BY <2>1 DEF Hals
  <2> HIDE DEF start
  <2>3. Kept(start, start)
    BY <2>2 DEF Kept
  <2>4. Room(h.ttyq \o Text(SubSeq(h.wire, 1, 0))) = h.ttyq
    <3>1. SubSeq(h.wire, 1, 0) = << >>
      BY <1>1
    <3>2. Text(<< >>) = << >>
      BY <1>1, TextAppend, EmptySeq DEF Bytes
    <3>3. h.ttyq \o << >> = h.ttyq
      BY <1>1
    <3> QED BY <3>1, <3>2, <3>3 DEF Room
  <2>5. start.esc = EscapeAt(h.wire, 0) /\ start.eof = (h.eof \/ (0 > 0 /\ h.wire[0] = CtrlD))
    <3>1. h.eof \in BOOLEAN
      BY DEF Hals
    <3> QED BY <2>2, <3>1 DEF EscapeAt
  <2>6. Kept([h EXCEPT !.wire = << >>], start)
    BY <2>3 DEF start
  <2>7. start.ttyq = Room(h.ttyq \o Text(SubSeq(h.wire, 1, 0)))
    BY <2>2, <2>4
  <2> QED BY <2>2, <2>5, <2>6, <2>7 DEF Progress
<1>3. ASSUME NEW n \in 1..N, NEW r \in Progress(h, n - 1)
      PROVE  pump_byte(r, w[n]) \in Progress(h, n)
  <2>1. n - 1 \in 0..(N - 1) /\ (n - 1) + 1 = n
    BY <1>1
  <2>2. pump_byte(r, h.wire[(n - 1) + 1]) \in Progress(h, (n - 1) + 1)
    BY <2>1, PumpByte DEF N
  <2> QED BY <2>1, <2>2
<1>4. next \in [1..N -> [S -> S]] /\ start \in S
  <2>1. start \in S
    BY <1>1, <1>2
  <2>2. ASSUME NEW n \in 1..N, NEW r \in S
        PROVE  (IF r \in Progress(h, n - 1) THEN pump_byte(r, w[n]) ELSE start) \in S
    <3>1. n \in 0..N
      BY <1>1
    <3> HIDE DEF start
    <3> QED BY <1>3, <2>1, <3>1
  <2> HIDE DEF S, start
  <2> QED BY <2>1, <2>2
<1>5. PICK f : IsRun(f, S, start, N, next)
  <2> HIDE DEF S, start, next
  <2> QED BY <1>1, <1>4, Iteration
<1>6. f \in [0..N -> S] /\ f[0] = start /\ \A n \in 1..N : f[n] = next[n][f[n - 1]]
  BY <1>5 DEF IsRun
<1> DEFINE Good == {n \in 0..N : f[n] \in Progress(h, n)}
<1>7. N \in Good /\ \A n \in 0..N : n \in Good
  <2> HIDE DEF start
  <2>1. 0 \in Good
    BY <1>1, <1>2, <1>6
  <2>2. ASSUME NEW n \in 0..(N - 1), n \in Good PROVE n + 1 \in Good
    <3>1. n + 1 \in 1..N /\ (n + 1) - 1 = n /\ n + 1 \in 0..N /\ n \in 0..N
      BY <1>1
    <3>2. f[n + 1] = next[n + 1][f[n]] /\ f[n] \in S /\ f[n] \in Progress(h, n)
      BY <1>6, <2>2, <3>1
    <3>3. next[n + 1][f[n]] = pump_byte(f[n], w[n + 1])
      BY <3>1, <3>2
    <3>4. pump_byte(f[n], w[n + 1]) \in Progress(h, n + 1)
      BY <1>3, <3>1, <3>2
    <3> QED BY <3>1, <3>2, <3>3, <3>4
  <2> HIDE DEF Good
  <2>3. 0..N \subseteq Good
    BY <1>1, <2>1, <2>2, UpTo
  <2> QED BY <1>1, <2>3
<1>8. f = [n \in 0..N |-> IF n = 0 THEN start ELSE pump_byte(f[n - 1], w[n])]
  <2>1. ASSUME NEW n \in 0..N PROVE f[n] = IF n = 0 THEN start ELSE pump_byte(f[n - 1], w[n])
    <3>1. CASE n = 0
      BY <1>6, <3>1
    <3>2. CASE n # 0
      <4>1. n \in 1..N /\ n - 1 \in 0..N
        BY <1>1, <3>2
      <4>2. f[n] = next[n][f[n - 1]] /\ f[n - 1] \in S /\ f[n - 1] \in Progress(h, n - 1)
        BY <1>6, <1>7, <4>1
      <4>3. next[n][f[n - 1]] = pump_byte(f[n - 1], w[n])
        BY <4>1, <4>2
      <4> QED BY <3>2, <4>2, <4>3
    <3> QED BY <3>1, <3>2
  <2> HIDE DEF start, next, S
  <2> QED BY <1>6, <2>1
<1>9. read = [n \in 0..N |-> IF n = 0 THEN start ELSE pump_byte(read[n - 1], w[n])]
  <2> HIDE DEF start
  <2> QED BY <1>8
<1> HIDE DEF read, next
<1> DEFINE Same == {n \in 0..N : read[n] = f[n]}
<1>10. N \in Same
  <2> HIDE DEF start, S
  <2>1. 0 \in Same
    BY <1>1, <1>6, <1>9
  <2>2. ASSUME NEW n \in 0..(N - 1), n \in Same PROVE n + 1 \in Same
    <3>1. n + 1 \in 0..N /\ (n + 1) - 1 = n /\ n + 1 # 0
      BY <1>1
    <3>2. \A i \in 0..N : i # 0 => /\ read[i] = pump_byte(read[i - 1], w[i])
                                   /\ f[i] = pump_byte(f[i - 1], w[i])
      BY <1>8, <1>9
    <3>3. read[n + 1] = pump_byte(read[n], w[n + 1]) /\ f[n + 1] = pump_byte(f[n], w[n + 1])
      BY <3>1, <3>2
    <3> QED BY <2>2, <3>1, <3>3
  <2> HIDE DEF Same
  <2>3. 0..N \subseteq Same
    BY <1>1, <2>1, <2>2, UpTo
  <2> QED BY <1>1, <2>3
<1>11. tty_pump(h) = IF read[N].esc = 1 THEN bare_escape([read[N] EXCEPT !.esc = 0]) ELSE read[N]
  BY DEF tty_pump, read, N, start
<1> QED BY <1>7, <1>10, <1>11 DEF N

\* tty_pump empties the wire into the queue, as far as there is room.
LEMMA TtyPump ==
  ASSUME Counts, IsTty, NEW h, Sources(h)
  PROVE  LET r == tty_pump(h) IN
         /\ Sources(r) /\ r.push = h.push /\ r.closed = h.closed /\ r.wire = << >>
         /\ h.eof => r.eof
         /\ r.ttyq = Room(h.ttyq \o Text(h.wire))
         /\ \A key \in Keys : r.until[key] \in {h.until[key], Hit}
<1> DEFINE r == tty_pump(h)
           text == h.ttyq \o Text(h.wire)
<1>1. /\ h \in Hals /\ Terminal(h) /\ Len(h.push) <= PushCap /\ Len(h.ttyq) <= TtyCap
      /\ h.ttyq \in Seq(Letters) /\ h.wire \in Seq(Bytes) /\ Len(h.wire) \in Nat
      /\ h.eof \in BOOLEAN /\ h.closed \in BOOLEAN
  BY DEF Sources, Hals
<1>2. h.peek = Nothing /\ h.esc = 0 /\ Whole(h.wire, h.closed) /\ (h.eof => h.closed /\ h.wire = << >>)
  BY <1>1 DEF Terminal
<1>3. h.wire = << >> => Room(text) = h.ttyq
  <2>1. Text(<< >>) = << >>
    BY <1>1, TextAppend, EmptySeq DEF Bytes
  <2>2. h.ttyq \o << >> = h.ttyq
    BY <1>1
  <2> QED BY <1>1, <2>1, <2>2 DEF Room
<1>4. text \in Seq(Letters)
  <2>1. Text(h.wire) \in Seq(Letters)
    BY <1>1, TextAppend DEF Bytes
  <2> QED BY <1>1, <2>1
<1> HIDE DEF text
<1>5. Room(text) \in Seq(Letters) /\ Len(Room(text)) <= TtyCap
  <2>1. TtyCap \in Nat /\ Len(text) \in Nat
    BY <1>4, ConsoleInputAssumption DEF ConsoleInputAssumption
  <2>2. Room(text) \in Seq(Letters) /\ Len(Room(text)) = IF Len(text) <= TtyCap THEN Len(text) ELSE TtyCap
    BY <1>4, RoomIs
  <2> QED BY <2>1, <2>2
<1>6. Whole(<< >>, h.closed)
  BY DEF Whole
<1>7. SUFFICES /\ r \in Hals /\ r.push = h.push /\ r.peek = h.peek /\ r.closed = h.closed
               /\ r.wire = << >> /\ r.esc = 0 /\ r.ttyq = Room(text)
               /\ h.eof => r.eof
               /\ r.eof => h.closed
               /\ \A key \in Keys : r.until[key] \in {h.until[key], Hit}
  <2> HIDE DEF r
  <2>1. r \in Hals /\ r.push = h.push /\ r.peek = h.peek /\ r.closed = h.closed
        /\ r.wire = << >> /\ r.esc = 0 /\ r.ttyq = Room(text) /\ (r.eof => h.closed)
        => Sources(r)
    BY <1>1, <1>2, <1>5, <1>6 DEF Sources, Terminal
  <2> QED BY <2>1 DEF r, text
<1>8. CASE h.eof
  <2>1. r = h
    BY <1>8 DEF tty_pump
  <2> HIDE DEF r
  <2> QED BY <1>1, <1>2, <1>3, <1>8, <2>1
<1>9. CASE ~h.eof /\ h.wire = << >>
  <2> DEFINE end == h.eof \/ (h.closed /\ host = "COOKED")
             s == [h EXCEPT !.eof = end]
  <2>1. r = s
    <3>1. tty_pump(h) = IF s.esc = 1 THEN bare_escape([s EXCEPT !.esc = 0]) ELSE s
      BY <1>9 DEF tty_pump
    <3>2. s.esc = h.esc
      BY <1>1 DEF Hals
    <3> HIDE DEF s
    <3> QED BY <1>2, <3>1, <3>2
  <2>2. end \in BOOLEAN /\ (end => h.closed)
    BY <1>1, <1>2
  <2> HIDE DEF r, end
  <2>3. /\ s \in Hals /\ s.push = h.push /\ s.peek = h.peek /\ s.closed = h.closed
        /\ s.wire = h.wire /\ s.esc = h.esc /\ s.ttyq = h.ttyq /\ s.eof = end /\ s.until = h.until
    BY <1>1, <2>2 DEF Hals
  <2> HIDE DEF s
  <2> QED BY <1>2, <1>3, <1>9, <2>1, <2>2, <2>3
<1>10. CASE ~h.eof /\ h.wire # << >>
  <2> DEFINE N == Len(h.wire)
             base == [h EXCEPT !.wire = << >>]
  <2>1. PICK q \in Progress(h, N) : r = IF q.esc = 1 THEN bare_escape([q EXCEPT !.esc = 0]) ELSE q
    BY <1>1, <1>2, <1>10, PumpAll
  <2>2. N \in Nat /\ N > 0 /\ N \in 1..N
    BY <1>1, <1>10
  <2>3. /\ q \in Hals /\ Kept(base, q) /\ q.esc = EscapeAt(h.wire, N)
        /\ q.eof = (h.eof \/ (N > 0 /\ h.wire[N] = CtrlD))
        /\ q.ttyq = Room(h.ttyq \o Text(SubSeq(h.wire, 1, N)))
    BY DEF Progress
  <2>4. q.ttyq = Room(text)
    <3>1. SubSeq(h.wire, 1, Len(h.wire)) = h.wire
      BY <1>1, SubSeqFull
    <3> QED BY <2>3, <3>1 DEF text
  <2>5. q.eof => h.closed
    BY <1>10, <2>2, <2>3, <1>2 DEF Whole
  <2>6. q.esc # 2
    <3>1. h.wire[N] # "["
      BY <1>2, <2>2 DEF Whole
    <3> QED BY <2>2, <2>3, <3>1 DEF EscapeAt
  <2>7. q.esc \in 0..2
    BY <2>3 DEF Hals
  <2>8. Kept(q, r) /\ r.esc = 0 /\ r.eof = q.eof /\ r.ttyq = q.ttyq
    <3>1. CASE q.esc = 1
      <4>1. r = bare_escape([q EXCEPT !.esc = 0])
        BY <2>1, <3>1
      <4> HIDE DEF r
      <4> QED BY <2>3, <4>1, LoneEscape
    <3>2. CASE q.esc # 1
      <4>1. r = q
        BY <2>1, <3>2
      <4> HIDE DEF r
      <4> QED BY <2>3, <2>6, <2>7, <3>2, <4>1 DEF Kept
    <3> QED BY <3>1, <3>2
  <2> HIDE DEF r
  <2>9. Kept(base, r)
    BY <2>3, <2>8, KeptTwice
  <2>10. /\ base.push = h.push /\ base.peek = h.peek /\ base.closed = h.closed
         /\ base.wire = << >> /\ base.until = h.until
    BY <1>1 DEF Hals
  <2> HIDE DEF base
  <2> QED BY <1>10, <2>4, <2>5, <2>8, <2>9, <2>10 DEF Kept
<1> QED BY <1>8, <1>9, <1>10

\* tty_pump returns at once when there is no terminal.
LEMMA FileUnpumped == ASSUME ~IsTty, NEW h PROVE tty_pump(h) = h
  BY DEF tty_pump

---------------------------------------------------------------------------
(* What has been read and what waits.                                      *)

\* One answer of hal_con_in more has been read.
LEMMA HeardAppend ==
  ASSUME NEW g \in Seq(Reads), NEW b \in Reads
  PROVE  /\ Heard(<< >>) = << >> /\ Heard(g) \in Seq(Bytes)
         /\ Append(g, b) \in Seq(Reads)
         /\ Heard(Append(g, b)) = Heard(g) \o (IF b.from = "HOST" THEN <<b.byte>> ELSE << >>)
<1> DEFINE X == Bytes
           One(x) == IF x.from = "HOST" THEN <<x.byte>> ELSE << >>
           Ls(x) == [i \in 1..Len(x) |-> One(x[i])]
           t == Append(g, b)
<1>1. /\ t \in Seq(Reads) /\ Len(t) = Len(g) + 1 /\ t[Len(g) + 1] = b /\ Len(g) \in Nat
      /\ \A i \in 1..Len(g) : t[i] = g[i] /\ g[i] \in Reads
  BY AppendProperties
<1> HIDE DEF t
<1>2. ASSUME NEW x \in Reads PROVE One(x) \in Seq(X)
  <2>1. x.from = "HOST" => x.byte \in X
    BY DEF Reads
  <2> HIDE DEF X
  <2> QED BY <2>1
<1> HIDE DEF X
<1>3. Ls(g) \in Seq(Seq(X)) /\ Ls(t) = Append(Ls(g), One(b))
  <2>1. Ls(g) \in Seq(Seq(X)) /\ Len(Ls(g)) = Len(g)
    <3> HIDE DEF One
    <3> QED BY <1>1, <1>2
  <2>2. Ls(t) \in Seq(Seq(X)) /\ Len(Ls(t)) = Len(g) + 1
    <3>1. \A i \in 1..Len(t) : t[i] \in Reads
      BY <1>1
    <3> HIDE DEF One
    <3> QED BY <1>1, <1>2, <3>1
  <2> DEFINE u == Append(Ls(g), One(b))
  <2>3. /\ u \in Seq(Seq(X)) /\ Len(u) = Len(g) + 1 /\ u[Len(g) + 1] = One(b)
        /\ \A i \in 1..Len(g) : u[i] = One(g[i])
    <3>1. \A i \in 1..Len(g) : Ls(g)[i] = One(g[i])
      OBVIOUS
    <3> HIDE DEF Ls, One
    <3> QED BY <1>2, <2>1, <3>1, AppendProperties
  <2>4. ASSUME NEW i \in 1..(Len(g) + 1) PROVE Ls(t)[i] = u[i]
    <3>1. Ls(t)[i] = One(t[i])
      BY <1>1
    <3> HIDE DEF Ls, u, One
    <3>2. CASE i \in 1..Len(g)
      BY <1>1, <2>3, <3>1, <3>2
    <3>3. CASE i = Len(g) + 1
      BY <1>1, <2>3, <3>1, <3>3
    <3> QED BY <1>1, <3>2, <3>3
  <2> HIDE DEF Ls, u, One
  <2>5. Ls(t) = u
    BY <2>2, <2>3, <2>4, SeqEqual
  <2> QED BY <2>1, <2>5 DEF u
<1>4. /\ FlattenSeq(Ls(g)) \in Seq(X)
      /\ FlattenSeq(Ls(t)) = FlattenSeq(Ls(g)) \o One(b)
  <2> HIDE DEF Ls, One
  <2> QED BY <1>2, <1>3, FlattenAppend
<1>5. FlattenSeq(Ls(<< >>)) = << >>
  BY FlattenEmpty
<1>6. Heard(<< >>) = FlattenSeq(Ls(<< >>)) /\ Heard(g) = FlattenSeq(Ls(g)) /\ Heard(t) = FlattenSeq(Ls(t))
  BY DEF Heard
<1> HIDE DEF Ls
<1> QED BY <1>1, <1>4, <1>5, <1>6 DEF t, X

\* The value for no byte read ahead is not a byte.
LEMMA NothingIsNoByte == Nothing \notin Bytes
  BY DEF Nothing, Bytes, Letters, CtrlD

\* What waits, by host.
LEMMA UnreadIs ==
  ASSUME NEW h, Sources(h)
  PROVE  /\ Unread(h) \in Seq(Bytes) /\ h \in Hals
         /\ IsTty => Unread(h) = h.ttyq \o Text(h.wire) /\ Unread(h) \in Seq(Letters)
         /\ ~IsTty => Unread(h) = (IF h.peek = Nothing THEN << >> ELSE <<h.peek>>) \o h.wire
<1> DEFINE first == IF h.peek = Nothing THEN << >> ELSE <<h.peek>>
<1>1. h \in Hals /\ h.ttyq \in Seq(Letters) /\ h.wire \in Seq(Bytes) /\ Letters \subseteq Bytes
  BY DEF Sources, Hals, Bytes
<1>2. first \in Seq(Bytes)
  <2>1. h.peek = Nothing \/ h.peek \in Bytes
    BY <1>1 DEF Hals
  <2> QED BY <2>1
<1>3. "ESC" \in Bytes
  BY DEF Bytes
<1>4. CASE IsTty
  <2>1. first = << >>
    BY <1>4 DEF Sources, Terminal
  <2>2. Text(h.wire) \in Seq(Letters)
    BY <1>1, <1>3, <1>4, TextAppend
  <2>3. h.ttyq \o Text(h.wire) \in Seq(Letters)
    BY <1>1, <2>2
  <2>4. << >> \o h.ttyq = h.ttyq
    BY <1>1
  <2>5. Unread(h) = h.ttyq \o Text(h.wire)
    BY <2>1, <2>4 DEF Unread
  <2>6. h.ttyq \o Text(h.wire) \in Seq(Bytes)
    BY <1>1, <2>3, SeqMonotonic
  <2> QED BY <1>1, <1>4, <2>3, <2>5, <2>6
<1>5. CASE ~IsTty
  <2>1. h.ttyq = << >>
    BY <1>5 DEF Sources, File
  <2>2. Text(h.wire) = h.wire
    BY <1>1, <1>3, <1>5, TextAppend
  <2> HIDE DEF first
  <2>3. first \o << >> = first /\ first \o h.wire \in Seq(Bytes)
    BY <1>1, <1>2
  <2>4. Unread(h) = (first \o h.ttyq) \o Text(h.wire)
    BY DEF Unread, first
  <2>5. Unread(h) = first \o h.wire
    BY <2>1, <2>2, <2>3, <2>4
  <2> QED BY <1>1, <1>5, <2>3, <2>5 DEF first
<1> QED BY <1>4, <1>5


---------------------------------------------------------------------------
(* The calls of the HAL.                                                   *)

\* What is left to be read after a call that went from h to r, the byte it returned included.
Offered(h, r) == IF IsTty /\ r.wire # h.wire THEN Room(Unread(h)) ELSE Unread(h)

\* A call takes the HAL from h to r.
Moved(h, r) ==
  /\ Sources(r) /\ r.closed = h.closed /\ (Ended(h) => Ended(r))
  /\ \A key \in Keys : r.until[key] \in {h.until[key], Hit}

\* Pumping a terminal is a move in which nothing that waits changes place.
LEMMA PumpMoves ==
  ASSUME Counts, IsTty, NEW h, Sources(h)
  PROVE  Moved(h, tty_pump(h)) /\ Unread(tty_pump(h)) = Offered(h, tty_pump(h))
         /\ tty_pump(h).push = h.push
<1> DEFINE r == tty_pump(h)
<1>1. /\ Sources(r) /\ r.push = h.push /\ r.closed = h.closed /\ r.wire = << >>
      /\ r.ttyq = Room(h.ttyq \o Text(h.wire))
      /\ \A key \in Keys : r.until[key] \in {h.until[key], Hit}
  BY TtyPump
<1> HIDE DEF r
<1>2. Unread(h) = h.ttyq \o Text(h.wire) /\ Unread(r) = r.ttyq \o Text(r.wire) /\ h \in Hals /\ r \in Hals
  BY <1>1, UnreadIs
<1>3. "ESC" \in Bytes /\ h.ttyq \in Seq(Letters) /\ r.ttyq \in Seq(Letters)
  BY <1>2 DEF Bytes, Hals
<1>4. Text(<< >>) = << >>
  BY <1>3, TextAppend, EmptySeq
<1>5. r.ttyq \o << >> = r.ttyq /\ h.ttyq \o << >> = h.ttyq
  BY <1>3
<1>6. Unread(r) = Room(Unread(h))
  BY <1>1, <1>2, <1>4, <1>5
<1>7. Unread(r) = Offered(h, r)
  <2>1. CASE r.wire # h.wire
    BY <1>6, <2>1 DEF Offered
  <2>2. CASE r.wire = h.wire
    <3>1. Unread(h) = h.ttyq
      BY <1>1, <1>2, <1>4, <1>5, <2>2
    <3>2. Room(h.ttyq) = h.ttyq
      BY DEF Room, Sources
    <3> QED BY <1>6, <2>2, <3>1, <3>2 DEF Offered
  <2> QED BY <2>1, <2>2
<1>8. ~Ended(h)
  BY DEF Ended, IsTty
<1> QED BY <1>1, <1>7, <1>8 DEF r, Moved

\* So is doing nothing.
LEMMA StayMoves ==
  ASSUME NEW h, Sources(h)
  PROVE  Moved(h, h) /\ Unread(h) = Offered(h, h)
  BY DEF Moved, Offered, Sources, Hals

\* A pipe is read one byte ahead.
LEMMA PipeFillPeek ==
  ASSUME host = "PIPE", NEW h, Sources(h), ~Blocks(h), h.push = << >>
  PROVE  LET r == pipe_fill_peek(h) IN
         /\ Moved(h, r) /\ r.push = h.push /\ Unread(r) = Unread(h)
         /\ r.peek # Nothing \/ r.eof
<1> DEFINE r == pipe_fill_peek(h)
<1>1. /\ h \in Hals /\ ~IsTty /\ File(h) /\ h.wire \in Seq(Bytes) /\ h.ttyq = << >> /\ h.esc = 0
      /\ h.until = [key \in Keys |-> 0]
      /\ h.eof => h.closed /\ h.wire = << >> /\ h.peek = Nothing
      /\ h.eof \in BOOLEAN
  <2>1. ~IsTty
    BY DEF IsTty
  <2>2. h \in Hals /\ File(h)
    BY <2>1 DEF Sources
  <2> QED BY <2>1, <2>2 DEF File, Hals
<1>2. CASE h.peek # Nothing \/ h.eof
  <2>1. r = h
    BY <1>2 DEF pipe_fill_peek
  <2>2. Moved(h, h)
    BY StayMoves
  <2> HIDE DEF r
  <2> QED BY <1>2, <2>1, <2>2 DEF r
<1>3. CASE ~(h.peek # Nothing \/ h.eof) /\ h.wire = << >>
  <2>1. r = [h EXCEPT !.eof = TRUE]
    BY <1>3 DEF pipe_fill_peek
  <2>2. h.closed
    BY <1>3 DEF Blocks
  <2> HIDE DEF r
  <2>3. /\ r \in Hals /\ r.push = h.push /\ r.peek = h.peek /\ r.closed = h.closed
        /\ r.wire = h.wire /\ r.until = h.until /\ r.ttyq = h.ttyq /\ r.esc = h.esc /\ r.eof = TRUE
    BY <1>1, <2>1 DEF Hals
  <2>4. Sources(r)
    BY <1>1, <1>3, <2>2, <2>3 DEF Sources, File
  <2> QED BY <1>1, <2>3, <2>4 DEF Moved, Ended, Unread, r
<1>4. CASE ~(h.peek # Nothing \/ h.eof) /\ h.wire # << >>
  <2> DEFINE first == Head(h.wire)
             rest == Tail(h.wire)
  <2>1. r = [h EXCEPT !.peek = first, !.wire = rest]
    BY <1>1, <1>4 DEF pipe_fill_peek, Hals
  <2>2. first \in Bytes /\ rest \in Seq(Bytes) /\ <<first>> \o rest = h.wire
    BY <1>1, <1>4
  <2> HIDE DEF r, first, rest
  <2>3. /\ r \in Hals /\ r.push = h.push /\ r.peek = first /\ r.closed = h.closed
        /\ r.wire = rest /\ r.until = h.until /\ r.ttyq = h.ttyq /\ r.esc = h.esc /\ r.eof = h.eof
    BY <1>1, <2>1, <2>2 DEF Hals
  <2>4. first # Nothing
    BY <2>2, NothingIsNoByte
  <2>5. Sources(r)
    BY <1>1, <1>4, <2>3, <2>4 DEF Sources, File
  <2>6. Unread(r) = <<first>> \o rest /\ Unread(h) = << >> \o h.wire
    BY <1>1, <1>4, <2>3, <2>4, <2>5, UnreadIs
  <2>7. << >> \o h.wire = h.wire
    BY <1>1
  <2>8. ~Ended(h)
    BY <1>4 DEF Ended
  <2> QED BY <1>1, <2>2, <2>3, <2>4, <2>5, <2>6, <2>7, <2>8 DEF Moved, r
<1> QED BY <1>2, <1>3, <1>4


\* Where the answers of hal_con_in come from.
LEMMA ResultTypes ==
  /\ \A ch \in 1..MaxPushes : PushedByte(ch) \in Reads /\ PushedByte(ch).from = "PUSH"
  /\ \A ch \in Bytes : /\ HostByte(ch) \in Reads /\ HostByte(ch).from = "HOST"
                       /\ HostByte(ch).byte = ch
  /\ NoByte.from = "NOTHING" /\ EndOfInput.from = "EOF"
  /\ \A b \in Reads : b.from \in {"PUSH", "HOST"}
  BY DEF PushedByte, HostByte, NoByte, EndOfInput, Reads

\* The byte of the host that a result is, if it is one.
One(b) == IF b.from = "HOST" THEN <<b.byte>> ELSE << >>

\* hal_con_in went from h to r with result b.
Took(h, r, b) ==
  /\ Moved(h, r) /\ b \in Reads \cup {NoByte, EndOfInput}
  /\ One(b) \o Unread(r) = Offered(h, r)
  /\ Answers(h) => b # NoByte
  /\ b = EndOfInput /\ ~IsTty => Ended(r)

\* Nothing is returned: the call only went from h to r.
LEMMA TakeNothing ==
  ASSUME NEW h, NEW r, Moved(h, r), Unread(r) = Offered(h, r), NEW b \in {NoByte, EndOfInput},
         b = NoByte => ~Answers(h), b = EndOfInput /\ ~IsTty => Ended(r)
  PROVE  Took(h, r, b)
<1>1. One(b) = << >>
  BY ResultTypes DEF One
<1>2. Unread(r) \in Seq(Bytes)
  BY UnreadIs DEF Moved
<1>3. << >> \o Unread(r) = Unread(r)
  <2> HIDE DEF Unread
  <2> QED BY <1>2
<1> QED BY <1>1, <1>3 DEF Took

\* The push queue, which hal_con_in asks first.
LEMMA TakePushed ==
  ASSUME NEW h, Sources(h), h.push # << >>
  PROVE  LET r == [h EXCEPT !.push = Tail(@)] IN
         /\ hal_con_in(h) = Answer(r, PushedByte(Head(h.push)))
         /\ Took(h, r, PushedByte(Head(h.push)))
         /\ Unread(r) = Unread(h) /\ Answers(h) /\ r.push = Tail(h.push)
<1> DEFINE r == [h EXCEPT !.push = Tail(@)]
           b == PushedByte(Head(h.push))
<1>1. h \in Hals /\ h.push \in Seq(1..MaxPushes) /\ Len(h.push) <= PushCap /\ PushCap \in Nat
  BY ConsoleInputAssumption DEF Sources, Hals, ConsoleInputAssumption
<1>2. /\ Head(h.push) \in 1..MaxPushes /\ Tail(h.push) \in Seq(1..MaxPushes)
      /\ Len(Tail(h.push)) <= PushCap
  <2> DEFINE s == h.push
  <2>1. s \in Seq(1..MaxPushes) /\ s # << >> /\ Len(s) \in Nat
    BY <1>1
  <2> HIDE DEF s
  <2>2. Head(s) \in 1..MaxPushes /\ Tail(s) \in Seq(1..MaxPushes) /\ Len(Tail(s)) = Len(s) - 1
    BY <2>1, HeadTailProperties
  <2> QED BY <1>1, <2>1, <2>2 DEF s
<1>3. b \in Reads /\ b.from = "PUSH" /\ b # NoByte /\ b # EndOfInput
  BY <1>2, ResultTypes
<1>4. hal_con_in(h) = Answer(r, b)
  BY DEF hal_con_in
<1> HIDE DEF b
<1> DEFINE rest == Tail(h.push)
<1>5. r = [h EXCEPT !.push = rest]
  BY <1>1 DEF Hals
<1> HIDE DEF r, rest
<1>6. /\ r \in Hals /\ r.push = rest /\ r.peek = h.peek /\ r.closed = h.closed
      /\ r.wire = h.wire /\ r.until = h.until /\ r.ttyq = h.ttyq /\ r.esc = h.esc /\ r.eof = h.eof
  BY <1>1, <1>2, <1>5 DEF Hals, rest
<1>7. Sources(r)
  BY <1>2, <1>6 DEF Sources, Terminal, File, rest
<1>8. Moved(h, r) /\ Unread(r) = Unread(h) /\ Offered(h, r) = Unread(h)
  BY <1>6, <1>7 DEF Moved, Ended, Unread, Offered
<1>9. One(b) = << >> /\ Unread(r) \in Seq(Bytes)
  BY <1>3, <1>7, UnreadIs DEF One
<1>10. << >> \o Unread(r) = Unread(r)
  <2> HIDE DEF Unread
  <2> QED BY <1>9
<1>11. Took(h, r, b)
  BY <1>3, <1>8, <1>9, <1>10 DEF Took
<1> QED BY <1>4, <1>6, <1>8, <1>11 DEF Answers, r, b, rest

\* A byte read ahead.
LEMMA TakePeeked ==
  ASSUME host = "PIPE", NEW h, Sources(h), h.peek # Nothing
  PROVE  /\ Took(h, TakePeek(h).hal, TakePeek(h).result)
         /\ TakePeek(h).result \in Reads
<1> DEFINE r == [h EXCEPT !.peek = Nothing]
           b == HostByte(h.peek)
<1>1. /\ h \in Hals /\ ~IsTty /\ File(h) /\ h.peek \in Bytes /\ h.wire \in Seq(Bytes)
  <2>1. ~IsTty
    BY DEF IsTty
  <2> QED BY <2>1 DEF Sources, Hals
<1>2. TakePeek(h).hal = r /\ TakePeek(h).result = b
  BY DEF TakePeek, Answer
<1>3. b \in Reads /\ b.from = "HOST" /\ b.byte = h.peek /\ b # NoByte /\ b # EndOfInput
  BY <1>1, ResultTypes
<1> HIDE DEF b
<1>4. /\ r \in Hals /\ r.push = h.push /\ r.peek = Nothing /\ r.closed = h.closed
      /\ r.wire = h.wire /\ r.until = h.until /\ r.ttyq = h.ttyq /\ r.esc = h.esc /\ r.eof = h.eof
  BY <1>1 DEF Hals
<1> HIDE DEF r
<1>5. Sources(r)
  BY <1>1, <1>4 DEF Sources, File
<1>6. Unread(r) = << >> \o h.wire /\ Unread(h) = <<h.peek>> \o h.wire
  BY <1>1, <1>4, <1>5, UnreadIs
<1>7. << >> \o h.wire = h.wire
  BY <1>1
<1>8. Moved(h, r) /\ Offered(h, r) = Unread(h)
  BY <1>1, <1>4, <1>5 DEF Moved, Ended, Offered
<1>9. Took(h, r, b)
  BY <1>3, <1>6, <1>7, <1>8 DEF Took, One
<1> QED BY <1>2, <1>3, <1>9

\* The script.
LEMMA TakeScripted ==
  ASSUME host = "SCRIPT", NEW h, Sources(h)
  PROVE  Took(h, TakeScript(h).hal, TakeScript(h).result)
<1>1. /\ h \in Hals /\ ~IsTty /\ File(h) /\ h.wire \in Seq(Bytes) /\ h.peek = Nothing
  <2>1. ~IsTty
    BY DEF IsTty
  <2>2. h \in Hals /\ File(h)
    BY <2>1 DEF Sources
  <2> QED BY <2>1, <2>2 DEF File, Hals
<1>2. CASE h.wire = << >>
  <2>1. TakeScript(h).hal = h /\ TakeScript(h).result = EndOfInput
    BY <1>2 DEF TakeScript, Answer
  <2>2. Ended(h) /\ EndOfInput # NoByte
    BY <1>1, <1>2, ResultTypes DEF Ended
  <2> QED BY <2>1, <2>2, StayMoves, TakeNothing
<1>3. CASE h.wire # << >>
  <2> DEFINE first == Head(h.wire)
             rest == Tail(h.wire)
             r == [h EXCEPT !.wire = rest]
             b == HostByte(first)
  <2>1. TakeScript(h).hal = r /\ TakeScript(h).result = b
    BY <1>1, <1>3 DEF TakeScript, Answer, Hals
  <2>2. first \in Bytes /\ rest \in Seq(Bytes) /\ <<first>> \o rest = h.wire
    BY <1>1, <1>3
  <2> HIDE DEF first, rest
  <2>3. b \in Reads /\ b.from = "HOST" /\ b.byte = first /\ b # NoByte /\ b # EndOfInput
    BY <2>2, ResultTypes
  <2> HIDE DEF b
  <2>4. /\ r \in Hals /\ r.push = h.push /\ r.peek = h.peek /\ r.closed = h.closed
        /\ r.wire = rest /\ r.until = h.until /\ r.ttyq = h.ttyq /\ r.esc = h.esc /\ r.eof = h.eof
    BY <1>1, <2>2 DEF Hals
  <2> HIDE DEF r
  <2>5. Sources(r)
    BY <1>1, <2>4 DEF Sources, File
  <2>6. Unread(r) = << >> \o rest /\ Unread(h) = << >> \o h.wire
    BY <1>1, <2>4, <2>5, UnreadIs
  <2>7. << >> \o h.wire = h.wire /\ << >> \o rest = rest
    BY <1>1, <2>2
  <2>8. Moved(h, r) /\ Offered(h, r) = Unread(h)
    BY <1>1, <1>3, <2>4, <2>5 DEF Moved, Ended, Offered
  <2>9. Took(h, r, b)
    BY <2>2, <2>3, <2>6, <2>7, <2>8 DEF Took, One
  <2> QED BY <2>1, <2>9
<1> QED BY <1>2, <1>3


\* The queue of a terminal that has been pumped.
LEMMA TakeTerminal ==
  ASSUME IsTty, NEW h, NEW p, Sources(h), Moved(h, p), Unread(p) = Offered(h, p),
         Answers(h) => p.ttyq # << >> \/ p.eof
  PROVE  Took(h, TakeTty(p).hal, TakeTty(p).result)
<1>1. /\ p \in Hals /\ Sources(p) /\ Terminal(p) /\ Len(p.ttyq) <= TtyCap /\ TtyCap \in Nat
      /\ p.ttyq \in Seq(Letters) /\ p.wire \in Seq(Bytes)
  BY ConsoleInputAssumption DEF Moved, Sources, Hals, ConsoleInputAssumption
<1>2. CASE p.ttyq = << >>
  <2> DEFINE b == IF p.eof THEN EndOfInput ELSE NoByte
  <2>1. TakeTty(p).hal = p /\ TakeTty(p).result = b
    BY <1>2 DEF TakeTty, Answer
  <2>2. b \in {NoByte, EndOfInput} /\ (b = NoByte => ~p.eof)
    BY ResultTypes
  <2> HIDE DEF b
  <2>3. b = NoByte => ~Answers(h)
    BY <1>2, <2>2
  <2> QED BY <2>1, <2>2, <2>3, TakeNothing
<1>3. CASE p.ttyq # << >>
  <2> DEFINE first == Head(p.ttyq)
             rest == Tail(p.ttyq)
             r == [p EXCEPT !.ttyq = rest]
             b == HostByte(first)
  <2>1. TakeTty(p).hal = r /\ TakeTty(p).result = b
    BY <1>1, <1>3 DEF TakeTty, Answer, Hals
  <2>2. /\ first \in Letters /\ rest \in Seq(Letters) /\ <<first>> \o rest = p.ttyq
        /\ Len(rest) <= TtyCap
    <3> DEFINE s == p.ttyq
    <3>1. s \in Seq(Letters) /\ s # << >> /\ Len(s) \in Nat
      BY <1>1, <1>3
    <3> HIDE DEF s
    <3>2. /\ Head(s) \in Letters /\ Tail(s) \in Seq(Letters) /\ Len(Tail(s)) = Len(s) - 1
      BY <3>1, HeadTailProperties
    <3>3. <<Head(s)>> \o Tail(s) = s
      BY <3>1
    <3> QED BY <1>1, <3>1, <3>2, <3>3 DEF s
  <2> HIDE DEF first, rest
  <2>3. b \in Reads /\ b.from = "HOST" /\ b.byte = first /\ b # NoByte /\ b # EndOfInput
    <3>1. first \in Bytes
      BY <2>2 DEF Bytes
    <3> QED BY <3>1, ResultTypes
  <2> HIDE DEF b
  <2>4. /\ r \in Hals /\ r.push = p.push /\ r.peek = p.peek /\ r.closed = p.closed
        /\ r.wire = p.wire /\ r.until = p.until /\ r.ttyq = rest /\ r.esc = p.esc /\ r.eof = p.eof
    BY <1>1, <2>2 DEF Hals
  <2> HIDE DEF r
  <2>5. Sources(r)
    BY <1>1, <2>2, <2>4 DEF Sources, Terminal
  <2>6. Unread(r) = rest \o Text(p.wire) /\ Unread(p) = p.ttyq \o Text(p.wire)
    BY <1>1, <2>4, <2>5, UnreadIs
  <2>7. Text(p.wire) \in Seq(Letters)
    <3>1. "ESC" \in Bytes
      BY DEF Bytes
    <3> QED BY <1>1, <3>1, TextAppend
  <2>8. <<first>> \o (rest \o Text(p.wire)) = p.ttyq \o Text(p.wire)
    <3> DEFINE t == Text(p.wire)
    <3>1. <<first>> \in Seq(Letters) /\ rest \in Seq(Letters) /\ t \in Seq(Letters)
      BY <2>2, <2>7
    <3> HIDE DEF t
    <3>3. <<first>> \o (rest \o t) = (<<first>> \o rest) \o t
      BY <3>1, ConcatThrice, Zenon
    <3> QED BY <2>2, <3>3 DEF t
  <2>9. Moved(h, r) /\ Offered(h, r) = Offered(h, p)
    <3>1. ~Ended(h)
      BY DEF Ended, IsTty
    <3> QED BY <2>4, <2>5, <3>1 DEF Moved, Offered
  <2>10. Took(h, r, b)
    BY <2>3, <2>6, <2>8, <2>9 DEF Took, One
  <2> QED BY <2>1, <2>10
<1> QED BY <1>2, <1>3

\* What was in the queue still is.
LEMMA PumpKeeps ==
  ASSUME Counts, IsTty, NEW h, Sources(h)
  PROVE  LET p == tty_pump(h) IN
         Answers(h) => p.push # << >> \/ p.ttyq # << >> \/ p.eof
<1> DEFINE p == tty_pump(h)
           text == h.ttyq \o Text(h.wire)
<1>1. p.push = h.push /\ p.ttyq = Room(text) /\ (h.eof => p.eof)
  BY TtyPump
<1>2. h.ttyq \in Seq(Letters) /\ Text(h.wire) \in Seq(Letters) /\ h.peek = Nothing
  <2>1. h.wire \in Seq(Bytes) /\ h.ttyq \in Seq(Letters) /\ h.peek = Nothing /\ "ESC" \in Bytes
    BY DEF Sources, Hals, Bytes, Terminal
  <2> QED BY <2>1, TextAppend
<1>3. TtyCap \in Nat /\ TtyCap > 0
  BY ConsoleInputAssumption DEF ConsoleInputAssumption
<1>4. text \in Seq(Letters) /\ Len(text) \in Nat /\ (h.ttyq # << >> => Len(text) > 0)
  <2>1. Len(text) = Len(h.ttyq) + Len(Text(h.wire)) /\ text \in Seq(Letters)
    BY <1>2, ConcatProperties
  <2>2. Len(h.ttyq) \in Nat /\ Len(Text(h.wire)) \in Nat /\ (h.ttyq # << >> => Len(h.ttyq) > 0)
    <3> DEFINE t == Text(h.wire)
    <3>1. t \in Seq(Letters)
      BY <1>2
    <3> HIDE DEF t
    <3> QED BY <1>2, <3>1 DEF t
  <2> DEFINE a == Len(h.ttyq)
             b == Len(Text(h.wire))
             c == Len(text)
  <2>3. c = a + b /\ a \in Nat /\ b \in Nat /\ (h.ttyq # << >> => a > 0)
    BY <2>1, <2>2
  <2> HIDE DEF a, b, c
  <2>4. c \in Nat /\ (h.ttyq # << >> => c > 0)
    BY <2>3
  <2> QED BY <2>1, <2>4 DEF c
<1> HIDE DEF text
<1>5. h.ttyq # << >> => Len(Room(text)) > 0
  <2>1. Len(Room(text)) = IF Len(text) <= TtyCap THEN Len(text) ELSE TtyCap
    BY <1>4, RoomIs
  <2> QED BY <1>3, <1>4, <2>1
<1>6. h.ttyq # << >> => p.ttyq # << >>
  <2>1. Len(<< >>) = 0
    OBVIOUS
  <2> QED BY <1>1, <1>5, <2>1
<1>7. host # "SCRIPT"
  BY DEF IsTty
<1> QED BY <1>1, <1>2, <1>6, <1>7 DEF Answers

\* hal_con_in: what it takes is the next of what there is, and it takes something if it can.
LEMMA HalConIn ==
  ASSUME Counts, NEW h, Sources(h), ~Blocks(h)
  PROVE  Took(h, hal_con_in(h).hal, hal_con_in(h).result)
<1>1. CASE h.push # << >>
  <2> DEFINE r == [h EXCEPT !.push = Tail(@)]
             b == PushedByte(Head(h.push))
  <2>1. hal_con_in(h) = Answer(r, b) /\ Took(h, r, b)
    BY <1>1, TakePushed
  <2> HIDE DEF r, b
  <2>2. hal_con_in(h).hal = r /\ hal_con_in(h).result = b
    BY <2>1 DEF Answer
  <2> QED BY <2>1, <2>2
<1>2. CASE h.push = << >> /\ host = "SCRIPT"
  BY <1>2, TakeScripted DEF hal_con_in
<1>3. CASE h.push = << >> /\ host = "EMBEDDED"
  <2>1. hal_con_in(h).hal = h /\ hal_con_in(h).result = NoByte
    BY <1>3 DEF hal_con_in, Answer
  <2>2. ~Answers(h) /\ NoByte # EndOfInput
    BY <1>3, ResultTypes DEF Answers
  <2> QED BY <2>1, <2>2, StayMoves, TakeNothing
<1>4. CASE h.push = << >> /\ host = "PIPE"
  <2> DEFINE p == pipe_fill_peek(h)
  <2>1. ~IsTty
    BY <1>4 DEF IsTty
  <2>2. Moved(h, p) /\ Unread(p) = Unread(h) /\ (p.peek # Nothing \/ p.eof) /\ p.push = h.push
    BY <1>4, PipeFillPeek
  <2>3. hal_con_in(h) = IF p.peek # Nothing THEN TakePeek(p) ELSE Answer(p, EndOfInput)
    <3>1. CASE h.peek # Nothing
      <4>1. p = h /\ hal_con_in(h) = TakePeek(h)
        BY <1>4, <3>1 DEF pipe_fill_peek, hal_con_in
      <4> QED BY <3>1, <4>1
    <3>2. CASE h.peek = Nothing /\ h.eof
      <4>1. p = h /\ hal_con_in(h) = Answer(h, EndOfInput)
        BY <1>4, <3>2 DEF pipe_fill_peek, hal_con_in
      <4> QED BY <3>2, <4>1
    <3>3. CASE h.peek = Nothing /\ ~h.eof
      BY <1>4, <2>1, <3>3 DEF hal_con_in, TakePipe
    <3> QED BY <3>1, <3>2, <3>3
  <2> HIDE DEF p
  <2>4. Sources(p) /\ Offered(h, p) = Unread(h)
    BY <2>1, <2>2 DEF Moved, Offered
  <2>5. CASE p.peek # Nothing
    <3> DEFINE r == TakePeek(p).hal
               b == TakePeek(p).result
    <3>1. Took(p, r, b) /\ b \in Reads
      BY <1>4, <2>4, <2>5, TakePeeked
    <3> HIDE DEF r, b
    <3>2. Moved(h, r)
      <4>1. \A key \in Keys : r.until[key] \in {p.until[key], Hit} /\ p.until[key] \in {h.until[key], Hit}
        BY <2>2, <3>1 DEF Moved, Took
      <4> QED BY <2>2, <3>1, <4>1 DEF Moved, Took
    <3>3. Offered(h, r) = Offered(p, r)
      BY <2>1, <2>2 DEF Offered
    <3>4. b # NoByte /\ b # EndOfInput
      BY <3>1, ResultTypes
    <3>5. Took(h, r, b)
      BY <3>1, <3>2, <3>3, <3>4 DEF Took
    <3> QED BY <2>3, <2>5, <3>5 DEF r, b
  <2>6. CASE p.peek = Nothing
    <3>1. hal_con_in(h).hal = p /\ hal_con_in(h).result = EndOfInput
      BY <2>3, <2>6 DEF Answer
    <3>2. Ended(p)
      BY <1>4, <2>1, <2>2, <2>4, <2>6 DEF Ended, Sources, File
    <3>3. EndOfInput # NoByte
      BY ResultTypes
    <3>4. Unread(p) = Offered(h, p)
      BY <2>2, <2>4
    <3> QED BY <2>2, <3>1, <3>2, <3>3, <3>4, TakeNothing
  <2> QED BY <2>5, <2>6
<1>5. CASE h.push = << >> /\ IsTty
  <2>1. h.peek = Nothing /\ host # "SCRIPT" /\ host # "EMBEDDED"
    BY <1>5 DEF Sources, Terminal, IsTty
  <2>2. CASE h.eof
    <3>1. hal_con_in(h).hal = h /\ hal_con_in(h).result = EndOfInput
      BY <1>5, <2>1, <2>2 DEF hal_con_in, Answer
    <3>2. EndOfInput # NoByte
      BY ResultTypes
    <3> QED BY <1>5, <3>1, <3>2, StayMoves, TakeNothing
  <2>3. CASE ~h.eof
    <3> DEFINE p == tty_pump(h)
    <3>1. hal_con_in(h) = TakeTty(p)
      BY <1>5, <2>1, <2>3 DEF hal_con_in
    <3>2. Moved(h, p) /\ Unread(p) = Offered(h, p) /\ p.push = h.push
      BY <1>5, PumpMoves
    <3>3. Answers(h) => p.ttyq # << >> \/ p.eof
      BY <1>5, <3>2, PumpKeeps
    <3> HIDE DEF p
    <3> QED BY <1>5, <3>1, <3>2, <3>3, TakeTerminal
  <2> QED BY <2>2, <2>3
<1>6. host \in {"RAW", "COOKED", "PIPE", "SCRIPT", "EMBEDDED"}
  BY ConsoleInputAssumption DEF Counts, AllHosts, ConsoleInputAssumption
<1> QED BY <1>1, <1>2, <1>3, <1>4, <1>5, <1>6 DEF IsTty

\* hal_con_in_ready: when it says yes, hal_con_in has something.
LEMMA HalConInReady ==
  ASSUME Counts, NEW h, Sources(h), ~Blocks(h)
  PROVE  LET r == hal_con_in_ready(h).hal IN
         /\ Moved(h, r) /\ Unread(r) = Offered(h, r)
         /\ hal_con_in_ready(h).result \in BOOLEAN
         /\ hal_con_in_ready(h).result => Answers(r)
<1> DEFINE r == hal_con_in_ready(h).hal
           b == hal_con_in_ready(h).result
<1>1. CASE h.push # << >> \/ host \in {"SCRIPT", "EMBEDDED"} \/ h.peek # Nothing \/ h.eof
  <2>1. r = h /\ b = (h.push # << >> \/ host = "SCRIPT"
                      \/ (host # "EMBEDDED" /\ (h.peek # Nothing \/ h.eof)))
    <3>1. CASE h.push # << >> \/ host = "SCRIPT"
      BY <3>1 DEF hal_con_in_ready, Answer
    <3>2. CASE ~(h.push # << >> \/ host = "SCRIPT") /\ host = "EMBEDDED"
      BY <3>2 DEF hal_con_in_ready, Answer
    <3>3. CASE ~(h.push # << >> \/ host = "SCRIPT") /\ host # "EMBEDDED"
      BY <1>1, <3>3 DEF hal_con_in_ready, Answer
    <3> QED BY <3>1, <3>2, <3>3
  <2>2. b \in BOOLEAN /\ (b => Answers(h))
    BY <2>1 DEF Answers
  <2> HIDE DEF r, b
  <2> QED BY <2>1, <2>2, StayMoves DEF r, b
<1>2. CASE /\ ~(h.push # << >> \/ host \in {"SCRIPT", "EMBEDDED"} \/ h.peek # Nothing \/ h.eof)
           /\ IsTty
  <2> DEFINE p == tty_pump(h)
  <2>1. r = p /\ b = (p.ttyq # << >> \/ p.eof)
    BY <1>2 DEF hal_con_in_ready, Answer
  <2>2. Moved(h, p) /\ Unread(p) = Offered(h, p)
    BY <1>2, PumpMoves
  <2> HIDE DEF p, r, b
  <2> QED BY <1>2, <2>1, <2>2 DEF Answers, r, b
<1>3. CASE /\ ~(h.push # << >> \/ host \in {"SCRIPT", "EMBEDDED"} \/ h.peek # Nothing \/ h.eof)
           /\ ~IsTty
  <2> DEFINE p == pipe_fill_peek(h)
  <2>1. host = "PIPE"
    BY <1>3, ConsoleInputAssumption DEF Counts, AllHosts, ConsoleInputAssumption, IsTty
  <2>2. r = p /\ b = TRUE
    BY <1>3 DEF hal_con_in_ready, Answer
  <2>3. Moved(h, p) /\ Unread(p) = Unread(h) /\ (p.peek # Nothing \/ p.eof)
    BY <1>3, <2>1, PipeFillPeek
  <2> HIDE DEF p, r, b
  <2>4. Offered(h, p) = Unread(h)
    BY <1>3 DEF Offered
  <2> QED BY <2>1, <2>2, <2>3, <2>4 DEF Answers, r, b
<1> QED BY <1>1, <1>2, <1>3


---------------------------------------------------------------------------
(* The text that was typed, across a call and across a keystroke.          *)

\* A full queue lost text between h and r.
Spilt(h, r) == IsTty /\ r.wire # h.wire /\ Len(h.ttyq) + Len(Text(h.wire)) > TtyCap

\* A call from h to r added more to what was read, g, which is k now.
ReadsOn(g, k, more, h, r) ==
  /\ g \in Seq(Reads) /\ k \in Seq(Reads) /\ more \in Seq(Bytes)
  /\ Heard(k) = Heard(g) \o more /\ Sources(h) /\ Moved(h, r)
  /\ more \o Unread(r) = Offered(h, r)

\* What was told stays so when a byte that waited is read or a full queue loses some.
LEMMA ToldOn ==
  ASSUME NEW g, NEW k, NEW more, NEW h, NEW r, ReadsOn(g, k, more, h, r),
         NEW s, s \in Seq(Bytes), NEW gone, Told(g, h, s, gone),
         NEW after, ~after => ~gone /\ ~Spilt(h, r)
  PROVE  Told(k, r, s, after)
<1> SUFFICES ASSUME g \in Seq(Reads), k \in Seq(Reads), more \in Seq(Bytes),
                    Heard(k) = Heard(g) \o more, Sources(h), Moved(h, r),
                    more \o Unread(r) = Offered(h, r)
             PROVE  Told(k, r, s, after)
  BY DEF ReadsOn
<1> DEFINE A == Heard(g)
           U == Unread(h)
           V == Unread(r)
           O == Offered(h, r)
<1>1. A \in Seq(Bytes) /\ U \in Seq(Bytes) /\ V \in Seq(Bytes)
  <2>1. A \in Seq(Bytes)
    <3>1. << >> \in Seq(Reads) /\ (g = << >> \/ g # << >>)
      OBVIOUS
    <3>2. \A b \in Reads : Heard(g) \in Seq(Bytes)
      BY HeardAppend
    <3>3. HostByte("w") \in Reads
      BY ResultTypes DEF Bytes, Letters
    <3> QED BY <3>2, <3>3
  <2> QED BY <2>1, UnreadIs DEF Moved
<1>2. Heard(k) \o V = A \o O
  <2> HIDE DEF A, V, O
  <2>2. (A \o more) \o V = A \o (more \o V)
    BY <1>1, ConcatThrice, Zenon
  <2> QED BY <2>2 DEF A, V, O
<1>3. Inside(A \o U, s) /\ (~gone => A \o U = s)
  BY DEF Told
<1> HIDE DEF A, U, V, O
<1>4. CASE O = U
  BY <1>2, <1>3, <1>4 DEF Told, V
<1>5. CASE O # U
  <2>1. IsTty /\ r.wire # h.wire /\ O = Room(U)
    BY <1>5 DEF Offered, O, U
  <2>2. U \in Seq(Letters) /\ U = h.ttyq \o Text(h.wire)
    BY <2>1, UnreadIs DEF U
  <2>3. Len(U) = Len(h.ttyq) + Len(Text(h.wire))
    <3>1. h.ttyq \in Seq(Letters) /\ h.wire \in Seq(Bytes) /\ "ESC" \in Bytes
      BY DEF Sources, Hals, Bytes
    <3>2. Text(h.wire) \in Seq(Letters)
      BY <2>1, <3>1, TextAppend
    <3> QED BY <2>2, <3>1, <3>2, ConcatProperties
  <2>4. /\ O \in Seq(Letters) /\ Len(O) = (IF Len(U) <= TtyCap THEN Len(U) ELSE TtyCap)
        /\ \A i \in 1..Len(O) : O[i] = U[i]
    BY <2>1, <2>2, RoomIs
  <2>5. Len(U) \in Nat /\ TtyCap \in Nat /\ Len(O) \in Nat /\ Len(O) <= Len(U) /\ ~(Len(U) <= TtyCap)
    <3>1. Len(U) \in Nat /\ TtyCap \in Nat
      <4>1. U \in Seq(Letters)
        BY <2>2
      <4>2. TtyCap \in Nat
        BY ConsoleInputAssumption DEF ConsoleInputAssumption
      <4> QED BY <4>1, <4>2
    <3>2. ~(Len(U) <= TtyCap)
      BY <1>5, <2>1 DEF Room
    <3> QED BY <2>4, <3>1, <3>2
  <2>6. Spilt(h, r)
    <3> DEFINE n == Len(h.ttyq) + Len(Text(h.wire))
    <3> HIDE DEF n
    <3>1. n = Len(U)
      BY <2>3 DEF n
    <3>2. n > TtyCap
      BY <2>5, <3>1
    <3> QED BY <2>1, <3>2 DEF Spilt, n
  <2>7. Inside(A \o O, s)
    <3>1. O \in Seq(Bytes)
      BY <2>4, SeqMonotonic DEF Bytes
    <3>2. /\ A \o U \in Seq(Bytes) /\ Len(A \o U) = Len(A) + Len(U)
          /\ \A i \in 1..(Len(A) + Len(U)) : (A \o U)[i] = IF i <= Len(A) THEN A[i] ELSE U[i - Len(A)]
      BY <1>1, ConcatProperties
    <3>3. /\ A \o O \in Seq(Bytes) /\ Len(A \o O) = Len(A) + Len(O)
          /\ \A i \in 1..(Len(A) + Len(O)) : (A \o O)[i] = IF i <= Len(A) THEN A[i] ELSE O[i - Len(A)]
      BY <1>1, <3>1, ConcatProperties
    <3> DEFINE a == Len(A)
               u == Len(U)
               o == Len(O)
               AU == A \o U
               AO == A \o O
    <3>4. a \in Nat
      BY <1>1
    <3> HIDE DEF a, u, o, AU, AO
    <3>5. ASSUME NEW i \in 1..(a + o) PROVE AO[i] = AU[i]
      <4>1. i \in 1..(a + u) /\ u \in Nat /\ o \in Nat /\ o <= u
        BY <2>5, <3>4 DEF u, o
      <4>2. CASE i <= a
        BY <3>2, <3>3, <4>1, <4>2 DEF a, u, o, AU, AO
      <4>3. CASE ~(i <= a)
        <5>1. i - a \in 1..o
          BY <3>4, <4>1, <4>3
        <5>2. O[i - a] = U[i - a]
          BY <2>4, <5>1 DEF o
        <5> QED BY <3>2, <3>3, <4>1, <4>3, <5>2 DEF a, u, o, AU, AO
      <4> QED BY <4>2, <4>3
    <3>6. Len(AO) = a + o /\ Len(AU) = a + u /\ AO \in Seq(Bytes) /\ AU \in Seq(Bytes)
      BY <3>2, <3>3 DEF a, o, u, AU, AO
    <3>7. Len(AO) <= Len(AU) /\ \A i \in 1..Len(AO) : AO[i] = AU[i]
      <4>1. u \in Nat /\ o \in Nat /\ o <= u
        BY <2>5 DEF u, o
      <4> QED BY <3>4, <3>5, <3>6, <4>1
    <3>8. Inside(AU, s)
      BY <1>3 DEF AU
    <3>9. Inside(AO, s)
      BY <3>6, <3>7, <3>8, InsideFewer
    <3> QED BY <3>9 DEF AO
  <2> QED BY <1>2, <2>6, <2>7 DEF Told, V
<1> QED BY <1>4, <1>5

\* One keystroke, or one byte of a pipe.
LEMMA TextStroke ==
  ASSUME NEW w \in Seq(Bytes), NEW stroke,
         IF IsTty THEN stroke \in Strokes ELSE \E ch \in Letters : stroke = <<ch>>
  PROVE  /\ stroke \in Seq(Bytes) /\ w \o stroke \in Seq(Bytes) /\ Text(stroke) \in Seq(Bytes)
         /\ Text(w \o stroke) = Text(w) \o Text(stroke)
<1>1. ASSUME NEW ch \in Letters \cup {"ESC"}
      PROVE  /\ <<ch>> \in Seq(Bytes) /\ w \o <<ch>> \in Seq(Bytes)
             /\ Text(<<ch>>) = IF IsTty THEN Letter(ch) ELSE <<ch>>
             /\ IsTty => Text(w \o <<ch>>) = Text(w) \o Letter(ch)
             /\ ~IsTty => Text(w \o <<ch>>) = w \o <<ch>> /\ Text(w) = w
  <2>1. ch \in Bytes
    BY DEF Bytes
  <2>2. w \o <<ch>> = Append(w, ch) /\ <<ch>> = Append(<< >>, ch) /\ <<ch>> \in Seq(Bytes)
    BY <2>1
  <2>3. /\ Append(w, ch) \in Seq(Bytes)
        /\ IsTty => Text(Append(w, ch)) = Text(w) \o Letter(ch)
        /\ ~IsTty => Text(Append(w, ch)) = Append(w, ch) /\ Text(w) = w
    BY <2>1, TextAppend
  <2>4. /\ Text(<< >>) = << >> /\ Append(<< >>, ch) \in Seq(Bytes)
        /\ IsTty => Text(Append(<< >>, ch)) = Text(<< >>) \o Letter(ch)
        /\ ~IsTty => Text(Append(<< >>, ch)) = Append(<< >>, ch)
    <3>1. << >> \in Seq(Bytes)
      OBVIOUS
    <3> QED BY <2>1, <3>1, TextAppend
  <2>5. << >> \o Letter(ch) = Letter(ch)
    BY LetterType, ConcatEmptySeq
  <2> QED BY <2>2, <2>3, <2>4, <2>5
<1>2. ASSUME NEW x \in {"A", "C"}, IsTty
      PROVE  LET seq == <<"ESC", "[", x>> IN
             /\ seq \in Seq(Bytes) /\ w \o seq \in Seq(Bytes)
             /\ Text(seq) = << >> /\ Text(w \o seq) = Text(w)
  <2>1. /\ "ESC" \in Bytes /\ "[" \in Bytes /\ x \in Bytes
        /\ Letter("ESC") = << >> /\ Letter("[") = << >> /\ Letter(x) = << >>
    BY DEF Bytes, Letter, Letters
  <2>2. ASSUME NEW v \in Seq(Bytes)
        PROVE  LET t == Append(Append(Append(v, "ESC"), "["), x) IN
               t \in Seq(Bytes) /\ Text(t) = Text(v)
    <3>1. ASSUME NEW u \in Seq(Bytes), NEW ch \in Bytes, Letter(ch) = << >>
          PROVE  Append(u, ch) \in Seq(Bytes) /\ Text(Append(u, ch)) = Text(u)
      <4>1. /\ Append(u, ch) \in Seq(Bytes) /\ Text(u) \in Seq(Letters)
            /\ Text(Append(u, ch)) = Text(u) \o << >>
        BY <1>2, <3>1, TextAppend
      <4> QED BY <4>1, ConcatEmptySeq
    <3>2. Append(v, "ESC") \in Seq(Bytes) /\ Text(Append(v, "ESC")) = Text(v)
      BY <2>1, <3>1
    <3> DEFINE v1 == Append(v, "ESC")
    <3> HIDE DEF v1
    <3>3. Append(v1, "[") \in Seq(Bytes) /\ Text(Append(v1, "[")) = Text(v1)
      BY <2>1, <3>1, <3>2 DEF v1
    <3> DEFINE v2 == Append(v1, "[")
    <3> HIDE DEF v2
    <3>4. Append(v2, x) \in Seq(Bytes) /\ Text(Append(v2, x)) = Text(v2)
      BY <2>1, <3>1, <3>3 DEF v2
    <3> QED BY <3>2, <3>3, <3>4 DEF v1, v2
  <2>3. w \o <<"ESC", "[", x>> = Append(Append(Append(w, "ESC"), "["), x)
    BY <2>1
  <2>4. <<"ESC", "[", x>> = Append(Append(Append(<< >>, "ESC"), "["), x)
    OBVIOUS
  <2>5. << >> \in Seq(Bytes) /\ Text(<< >>) = << >>
    BY <2>1, TextAppend, EmptySeq
  <2>6. Append(Append(Append(<< >>, "ESC"), "["), x) \in Seq(Bytes)
        /\ Text(Append(Append(Append(<< >>, "ESC"), "["), x)) = Text(<< >>)
    BY <2>2, <2>5
  <2>7. Append(Append(Append(w, "ESC"), "["), x) \in Seq(Bytes)
        /\ Text(Append(Append(Append(w, "ESC"), "["), x)) = Text(w)
    BY <2>2
  <2> QED BY <2>3, <2>4, <2>5, <2>6, <2>7
<1>3. CASE \E ch \in Letters \cup {"ESC"} : stroke = <<ch>> /\ (~IsTty => ch \in Letters)
  <2>1. PICK ch \in Letters \cup {"ESC"} : stroke = <<ch>>
    BY <1>3
  <2>2. Letter(ch) \in Seq(Bytes) /\ <<ch>> \in Seq(Bytes)
    <3>1. Letter(ch) \in Seq(Letters) /\ Letters \subseteq Bytes
      BY LetterType DEF Bytes
    <3> QED BY <1>1, <3>1, SeqMonotonic
  <2> QED BY <1>1, <2>1, <2>2
<1>4. CASE IsTty /\ \E x \in {"A", "C"} : stroke = <<"ESC", "[", x>>
  <2>1. PICK x \in {"A", "C"} : stroke = <<"ESC", "[", x>>
    BY <1>4
  <2> DEFINE seq == <<"ESC", "[", x>>
  <2>2. seq \in Seq(Bytes) /\ w \o seq \in Seq(Bytes) /\ Text(seq) = << >> /\ Text(w \o seq) = Text(w)
    BY <1>2, <1>4
  <2> HIDE DEF seq
  <2>3. Text(w) \o << >> = Text(w)
    <3>1. Text(w) \in Seq(Bytes)
      <4>1. "ESC" \in Bytes
        BY DEF Bytes
      <4> QED BY <4>1, TextAppend
    <3> QED BY <3>1, ConcatEmptySeq
  <2>4. << >> \in Seq(Bytes)
    OBVIOUS
  <2> QED BY <2>1, <2>2, <2>3, <2>4 DEF seq
<1>5. \/ \E ch \in Letters \cup {"ESC"} : stroke = <<ch>> /\ (~IsTty => ch \in Letters)
      \/ IsTty /\ \E x \in {"A", "C"} : stroke = <<"ESC", "[", x>>
  <2>1. CASE IsTty
    BY <2>1 DEF Strokes, EscapeSequences
  <2>2. CASE ~IsTty
    BY <2>2
  <2> QED BY <2>1, <2>2
<1> QED BY <1>3, <1>4, <1>5


\* HeardAppend, when nothing is appended.
LEMMA HeardType == ASSUME NEW g \in Seq(Reads) PROVE Heard(g) \in Seq(Bytes)
<1>1. \A b \in Reads : Heard(g) \in Seq(Bytes)
  BY HeardAppend
<1>2. HostByte("w") \in Reads
  BY ResultTypes DEF Bytes, Letters
<1> QED BY <1>1, <1>2

\* More of the text waits, and more was sent.
LEMMA ToldMore ==
  ASSUME NEW g \in Seq(Reads), NEW h, NEW r, Sources(h), NEW t \in Seq(Bytes),
         Unread(r) = Unread(h) \o t, NEW s \in Seq(Bytes), NEW gone \in BOOLEAN,
         Told(g, h, s, gone)
  PROVE  Told(g, r, s \o t, gone)
<1> DEFINE A == Heard(g)
           U == Unread(h)
<1>1. A \in Seq(Bytes) /\ U \in Seq(Bytes)
  BY HeardType, UnreadIs
<1>2. A \o Unread(r) = (A \o U) \o t
  <2> HIDE DEF A, U
  <2>2. (A \o U) \o t = A \o (U \o t)
    BY <1>1, ConcatThrice, Zenon
  <2> QED BY <2>2 DEF A, U
<1>3. Inside(A \o U, s) /\ (~gone => A \o U = s)
  BY DEF Told
<1> HIDE DEF A, U
<1>4. A \o U \in Seq(Bytes)
  BY <1>1
<1>5. Inside((A \o U) \o t, s \o t)
  <2> DEFINE AU == A \o U
  <2>1. AU \in Seq(Bytes) /\ Inside(AU, s)
    BY <1>3, <1>4
  <2> HIDE DEF AU
  <2>2. Inside(AU \o t, s \o t)
    BY <2>1, InsideLonger
  <2> QED BY <2>2 DEF AU
<1> QED BY <1>2, <1>3, <1>5 DEF Told, A

\* What is typed comes whole.
LEMMA WholeLonger ==
  ASSUME NEW w \in Seq(Bytes), Whole(w, FALSE), NEW stroke \in Strokes
  PROVE  Whole(w \o stroke, FALSE)
<1> DEFINE l == Len(w)
           m == Len(stroke)
           u == w \o stroke
<1>1. \/ /\ m = 1 /\ stroke[1] \in Letters \cup {"ESC"}
      \/ /\ m = 3 /\ stroke[1] = "ESC" /\ stroke[2] = "[" /\ stroke[3] \in {"A", "C"}
  BY DEF Strokes, EscapeSequences
<1>2. stroke \in Seq(Bytes)
  <2>1. \/ \E ch \in Letters \cup {"ESC"} : stroke = <<ch>>
        \/ \E x \in {"A", "C"} : stroke = <<"ESC", "[", x>>
    BY DEF Strokes, EscapeSequences
  <2>2. ASSUME NEW ch \in Letters \cup {"ESC"} PROVE <<ch>> \in Seq(Bytes)
    <3>1. ch \in Bytes
      BY DEF Bytes
    <3> QED BY <3>1
  <2>3. ASSUME NEW x \in {"A", "C"} PROVE <<"ESC", "[", x>> \in Seq(Bytes)
    <3>1. "ESC" \in Bytes /\ "[" \in Bytes /\ x \in Bytes
      BY DEF Bytes
    <3> QED BY <3>1
  <2> QED BY <2>1, <2>2, <2>3
<1>3. /\ l \in Nat /\ Len(u) = l + m
      /\ \A i \in 1..(l + m) : u[i] = IF i <= l THEN w[i] ELSE stroke[i - l]
  BY <1>2, ConcatProperties
<1>4. \A i \in 1..l : /\ w[i] = "[" => i > 1 /\ w[i - 1] = "ESC" /\ i < l /\ w[i + 1] \in {"A", "C"}
                      /\ w[i] \in {"A", "C"} => i > 1 /\ w[i - 1] = "["
                      /\ w[i] # CtrlD
  BY DEF Whole
<1> HIDE DEF l, m, u
<1>5. SUFFICES ASSUME NEW i \in 1..(l + m)
               PROVE  /\ u[i] = "[" => i > 1 /\ u[i - 1] = "ESC" /\ i < l + m /\ u[i + 1] \in {"A", "C"}
                      /\ u[i] \in {"A", "C"} => i > 1 /\ u[i - 1] = "["
                      /\ u[i] # CtrlD
  <2>1. Len(u) = l + m
    BY <1>3
  <2> QED BY <2>1 DEF Whole, u
<1>6. m \in Nat
  BY <1>1
<1>7. CASE i <= l
  <2>1. i \in 1..l /\ u[i] = w[i]
    BY <1>3, <1>6, <1>7
  <2>2. i > 1 => u[i - 1] = w[i - 1]
    <3>1. i > 1 => i - 1 \in 1..(l + m) /\ i - 1 <= l
      BY <1>3, <1>6, <1>7
    <3> QED BY <1>3, <3>1
  <2>3. i < l => u[i + 1] = w[i + 1] /\ i < l + m
    <3>1. i < l => i + 1 \in 1..(l + m) /\ i + 1 <= l /\ i < l + m
      BY <1>3, <1>6, <1>7
    <3> QED BY <1>3, <3>1
  <2> QED BY <1>4, <2>1, <2>2, <2>3
<1>8. CASE ~(i <= l)
  <2>1. u[i] = stroke[i - l] /\ i - l \in 1..m
    BY <1>3, <1>6, <1>8
  <2>2. CASE m = 1
    <3>1. u[i] \in Letters \cup {"ESC"}
      <4>1. i - l = 1
        BY <1>3, <1>6, <2>1, <2>2
      <4> QED BY <1>1, <2>1, <2>2, <4>1
    <3> QED BY <3>1 DEF Letters, CtrlD
  <2>3. CASE m = 3
    <3>1. stroke[1] = "ESC" /\ stroke[2] = "[" /\ stroke[3] \in {"A", "C"}
      BY <1>1, <2>3
    <3>2. i - l = 1 \/ i - l = 2 \/ i - l = 3
      BY <1>3, <1>6, <2>1, <2>3
    <3>3. CASE i - l = 1
      BY <2>1, <3>1, <3>3 DEF CtrlD
    <3>4. CASE i - l = 2
      <4>1. /\ i = l + 2 /\ i > 1 /\ i < l + m /\ i - 1 \in 1..(l + m) /\ ~(i - 1 <= l)
            /\ (i - 1) - l = 1 /\ i + 1 \in 1..(l + m) /\ ~(i + 1 <= l) /\ (i + 1) - l = 3
        BY <1>3, <2>3, <3>4
      <4>2. u[i - 1] = "ESC" /\ u[i + 1] \in {"A", "C"} /\ u[i] = "["
        BY <1>3, <2>1, <3>1, <3>4, <4>1
      <4> QED BY <4>1, <4>2 DEF CtrlD
    <3>5. CASE i - l = 3
      <4>1. /\ i > 1 /\ i - 1 \in 1..(l + m) /\ ~(i - 1 <= l) /\ (i - 1) - l = 2
        BY <1>3, <2>3, <3>5
      <4>2. u[i - 1] = "[" /\ u[i] \in {"A", "C"}
        BY <1>3, <2>1, <3>1, <3>5, <4>1
      <4> QED BY <4>1, <4>2 DEF CtrlD
    <3> QED BY <3>2, <3>3, <3>4, <3>5
  <2> QED BY <1>1, <2>2, <2>3
<1> QED BY <1>7, <1>8

\* The user or the writer of a pipe sends something.
LEMMA TypeMoves ==
  ASSUME Counts, host \notin {"SCRIPT", "EMBEDDED"}, NEW h, Sources(h), ~h.closed, NEW stroke,
         IF IsTty THEN stroke \in Strokes ELSE \E ch \in Letters : stroke = <<ch>>
  PROVE  LET r == [h EXCEPT !.wire = @ \o stroke] IN
         /\ Sources(r) /\ Unread(r) = Unread(h) \o Text(stroke)
         /\ Answers(h) => Answers(r)
         /\ r.until = h.until
<1> DEFINE w == h.wire \o stroke
           r == [h EXCEPT !.wire = w]
           first == IF h.peek = Nothing THEN << >> ELSE <<h.peek>>
<1>1. h \in Hals /\ h.wire \in Seq(Bytes) /\ h.ttyq \in Seq(Letters) /\ h.closed = FALSE
  BY DEF Sources, Hals
<1>2. /\ stroke \in Seq(Bytes) /\ w \in Seq(Bytes) /\ Text(stroke) \in Seq(Bytes)
      /\ Text(w) = Text(h.wire) \o Text(stroke)
  BY <1>1, TextStroke
<1>3. [h EXCEPT !.wire = @ \o stroke] = r
  BY <1>1 DEF Hals
<1>4. IsTty => Whole(w, h.closed)
  <2> SUFFICES ASSUME IsTty PROVE Whole(w, h.closed)
    OBVIOUS
  <2>1. Whole(h.wire, h.closed)
    BY DEF Sources, Terminal
  <2>2. Whole(h.wire, FALSE)
    BY <1>1, <2>1, Zenon
  <2>3. Whole(w, FALSE)
    BY <1>1, <2>2, WholeLonger
  <2> QED BY <1>1, <2>3, Zenon
<1>5. Text(h.wire) \in Seq(Bytes)
  <2>1. "ESC" \in Bytes
    BY DEF Bytes
  <2> QED BY <1>1, <2>1, TextAppend
<1> HIDE DEF w, r
<1>6. /\ r \in Hals /\ r.push = h.push /\ r.peek = h.peek /\ r.closed = h.closed
      /\ r.wire = w /\ r.until = h.until /\ r.ttyq = h.ttyq /\ r.esc = h.esc /\ r.eof = h.eof
  BY <1>1, <1>2 DEF Hals, r
<1>7. Sources(r)
  BY <1>1, <1>4, <1>6 DEF Sources, Terminal, File
<1>8. Unread(r) = Unread(h) \o Text(stroke)
  <2> DEFINE a == first \o h.ttyq
             b == Text(h.wire)
             c == Text(stroke)
  <2>1. a \in Seq(Bytes)
    <3>1. first \in Seq(Bytes) /\ h.ttyq \in Seq(Bytes)
      <4>1. h.peek = Nothing \/ h.peek \in Bytes
        BY <1>1 DEF Hals
      <4>2. h.ttyq \in Seq(Bytes)
        BY <1>1, SeqMonotonic DEF Bytes
      <4> QED BY <4>1, <4>2
    <3> HIDE DEF first
    <3> QED BY <3>1
  <2>2. b \in Seq(Bytes) /\ c \in Seq(Bytes)
    BY <1>2, <1>5
  <2>3. Unread(r) = a \o (b \o c) /\ Unread(h) = a \o b
    BY <1>2, <1>6 DEF Unread
  <2> HIDE DEF a, b, c
  <2>5. a \o (b \o c) = (a \o b) \o c
    BY <2>1, <2>2, ConcatThrice, Zenon
  <2> QED BY <2>3, <2>5 DEF c
<1>9. Answers(h) => Answers(r)
  BY <1>6 DEF Answers
<1> QED BY <1>3, <1>6, <1>7, <1>8, <1>9

\* The end of what is sent.
LEMMA CloseMoves ==
  ASSUME Counts, NEW h, Sources(h), ~h.closed, host = "PIPE" \/ IsTty
  PROVE  LET r == [h EXCEPT !.closed = TRUE,
                            !.wire = IF host = "RAW" THEN Append(@, CtrlD) ELSE @] IN
         /\ Sources(r) /\ Unread(r) = Unread(h) /\ r.until = h.until
         /\ Answers(h) => Answers(r)
<1> DEFINE w == IF host = "RAW" THEN Append(h.wire, CtrlD) ELSE h.wire
           r == [h EXCEPT !.closed = TRUE, !.wire = w]
<1>1. h \in Hals /\ h.wire \in Seq(Bytes) /\ CtrlD \in Bytes /\ ~h.eof /\ h.closed = FALSE
  BY DEF Sources, Hals, Bytes, Terminal, File
<1>2. [h EXCEPT !.closed = TRUE, !.wire = IF host = "RAW" THEN Append(@, CtrlD) ELSE @] = r
  BY <1>1 DEF Hals
<1>3. Letter(CtrlD) = << >>
  BY DEF Letter, Letters, CtrlD
<1>4. w \in Seq(Bytes) /\ Text(w) = Text(h.wire)
  <2>1. CASE host = "RAW"
    <3>1. IsTty
      BY <2>1 DEF IsTty
    <3>2. /\ Append(h.wire, CtrlD) \in Seq(Bytes) /\ Text(h.wire) \in Seq(Letters)
          /\ Text(Append(h.wire, CtrlD)) = Text(h.wire) \o << >>
      BY <1>1, <1>3, <3>1, TextAppend
    <3> QED BY <2>1, <3>2, ConcatEmptySeq
  <2>2. CASE host # "RAW"
    BY <1>1, <2>2
  <2> QED BY <2>1, <2>2
<1>5. IsTty => Whole(w, TRUE)
  <2> SUFFICES ASSUME IsTty PROVE Whole(w, TRUE)
    OBVIOUS
  <2>1. Whole(h.wire, FALSE)
    <3>1. Whole(h.wire, h.closed)
      BY DEF Sources, Terminal
    <3> QED BY <1>1, <3>1, Zenon
  <2>2. CASE host = "RAW"
    <3> DEFINE l == Len(h.wire)
    <3>1. /\ l \in Nat /\ Len(w) = l + 1 /\ w[l + 1] = CtrlD
          /\ \A i \in 1..l : w[i] = h.wire[i]
      BY <1>1, <2>2, AppendProperties
    <3>2. \A i \in 1..l :
            /\ h.wire[i] = "[" => i > 1 /\ h.wire[i - 1] = "ESC" /\ i < l /\ h.wire[i + 1] \in {"A", "C"}
            /\ h.wire[i] \in {"A", "C"} => i > 1 /\ h.wire[i - 1] = "["
            /\ h.wire[i] # CtrlD
      BY <2>1 DEF Whole
    <3> HIDE DEF w, l
    <3>3. ASSUME NEW i \in 1..(l + 1)
          PROVE  /\ w[i] = "[" => i > 1 /\ w[i - 1] = "ESC" /\ i < l + 1 /\ w[i + 1] \in {"A", "C"}
                 /\ w[i] \in {"A", "C"} => i > 1 /\ w[i - 1] = "["
                 /\ w[i] = CtrlD => i = l + 1
      <4>1. CASE i \in 1..l
        <5>1. w[i] = h.wire[i] /\ (i > 1 => i - 1 \in 1..l) /\ (i < l => i + 1 \in 1..l /\ i < l + 1)
          BY <3>1, <4>1
        <5>2. (i > 1 => w[i - 1] = h.wire[i - 1]) /\ (i < l => w[i + 1] = h.wire[i + 1])
          BY <3>1, <5>1
        <5> QED BY <3>2, <4>1, <5>1, <5>2
      <4>2. CASE i = l + 1
        BY <3>1, <4>2 DEF CtrlD
      <4> QED BY <3>1, <4>1, <4>2
    <3> QED BY <2>2, <3>1, <3>3 DEF Whole
  <2>3. CASE host # "RAW"
    BY <2>1, <2>3 DEF Whole
  <2> QED BY <2>2, <2>3
<1> HIDE DEF w, r
<1>6. /\ r \in Hals /\ r.push = h.push /\ r.peek = h.peek /\ r.closed = TRUE
      /\ r.wire = w /\ r.until = h.until /\ r.ttyq = h.ttyq /\ r.esc = h.esc /\ r.eof = h.eof
  BY <1>1, <1>4 DEF Hals, r
<1>7. Sources(r)
  <2>1. host # "EMBEDDED"
    BY DEF IsTty
  <2> QED BY <1>1, <1>5, <1>6, <2>1 DEF Sources, Terminal, File
<1>8. Unread(r) = Unread(h)
  BY <1>4, <1>6 DEF Unread
<1>9. Answers(h) => Answers(r)
  BY <1>6 DEF Answers
<1> QED BY <1>2, <1>6, <1>7, <1>8, <1>9

\* A byte is pushed.
LEMMA PushMoves ==
  ASSUME NEW h, Sources(h), NEW ch \in 1..MaxPushes
  PROVE  LET r == hal_con_push(h, ch) IN
         /\ Sources(r) /\ Unread(r) = Unread(h) /\ r.until = h.until
         /\ (Answers(h) => Answers(r)) /\ (Ended(h) => Ended(r))
<1> DEFINE r == hal_con_push(h, ch)
           q == Append(h.push, ch)
<1>1. h \in Hals /\ h.push \in Seq(1..MaxPushes) /\ Len(h.push) <= PushCap
  BY DEF Sources, Hals
<1>2. CASE Len(h.push) >= PushCap
  <2>1. r = h
    BY <1>2 DEF hal_con_push
  <2> HIDE DEF r
  <2> QED BY <2>1 DEF r
<1>3. CASE ~(Len(h.push) >= PushCap)
  <2>1. r = [h EXCEPT !.push = q]
    BY <1>1, <1>3 DEF hal_con_push, Hals
  <2>2. q \in Seq(1..MaxPushes) /\ Len(q) = Len(h.push) + 1 /\ q # << >>
    <3> DEFINE s == h.push
    <3>1. s \in Seq(1..MaxPushes)
      BY <1>1
    <3> HIDE DEF s
    <3>2. Append(s, ch) \in Seq(1..MaxPushes) /\ Len(Append(s, ch)) = Len(s) + 1
      BY <3>1, AppendProperties
    <3>3. Append(s, ch) # << >>
      BY <3>1
    <3> QED BY <3>2, <3>3 DEF s
  <2>3. Len(q) <= PushCap
    <3> DEFINE l == Len(h.push)
    <3>1. PushCap \in Nat
      BY ConsoleInputAssumption DEF ConsoleInputAssumption
    <3>2. l \in Nat /\ ~(l >= PushCap) /\ Len(q) = l + 1
      BY <1>1, <1>3, <2>2
    <3> HIDE DEF l, q
    <3> QED BY <3>1, <3>2
  <2> HIDE DEF q, r
  <2>4. /\ r \in Hals /\ r.push = q /\ r.peek = h.peek /\ r.closed = h.closed
        /\ r.wire = h.wire /\ r.until = h.until /\ r.ttyq = h.ttyq /\ r.esc = h.esc /\ r.eof = h.eof
    BY <1>1, <2>1, <2>2 DEF Hals
  <2>5. Sources(r)
    BY <2>3, <2>4 DEF Sources, Terminal, File
  <2> QED BY <2>2, <2>4, <2>5 DEF Unread, Answers, Ended, r
<1> QED BY <1>2, <1>3


\* api_drain_pushed: pushed bytes are taken and nothing else is.
Without(h, n) ==
  {r \in Hals : /\ Sources(r) /\ Len(r.push) = Len(h.push) - n /\ r.until = h.until
                /\ Unread(r) = Unread(h) /\ (Ended(h) => Ended(r))}

\* One turn of api_drain_pushed takes from the push queue only.
LEMMA DrainOne ==
  ASSUME NEW h, Sources(h), NEW n \in 0..(Len(h.push) - 1), NEW r \in Without(h, n)
  PROVE  hal_con_in(r).hal \in Without(h, n + 1)
<1> DEFINE s == [r EXCEPT !.push = Tail(@)]
           b == PushedByte(Head(r.push))
<1>1. /\ r \in Hals /\ Sources(r) /\ Len(r.push) = Len(h.push) - n /\ r.until = h.until
      /\ Unread(r) = Unread(h) /\ (Ended(h) => Ended(r))
  BY DEF Without
<1>2. Len(h.push) \in Nat /\ n \in Nat /\ n < Len(h.push)
  BY DEF Sources, Hals
<1>3. r.push \in Seq(1..MaxPushes) /\ r.push # << >>
  <2>1. r.push \in Seq(1..MaxPushes)
    BY <1>1 DEF Hals
  <2>2. Len(<< >>) = 0 /\ Len(r.push) > 0
    BY <1>1, <1>2
  <2> QED BY <2>1, <2>2
<1>4. /\ hal_con_in(r) = Answer(s, b) /\ Took(r, s, b) /\ Unread(s) = Unread(r)
      /\ s.push = Tail(r.push)
  BY <1>1, <1>3, TakePushed
<1>5. s.until = r.until
  BY <1>1 DEF Hals
<1> HIDE DEF s, b
<1>6. hal_con_in(r).hal = s
  BY <1>4 DEF Answer
<1>7. Len(s.push) = Len(h.push) - (n + 1)
  <2> DEFINE q == r.push
  <2>1. q \in Seq(1..MaxPushes) /\ q # << >>
    BY <1>3
  <2> HIDE DEF q
  <2>2. Len(Tail(q)) = Len(q) - 1
    BY <2>1, HeadTailProperties
  <2>3. Len(q) = Len(h.push) - n /\ s.push = Tail(q)
    BY <1>1, <1>4 DEF q
  <2> QED BY <1>2, <2>2, <2>3
<1>8. Sources(s) /\ s \in Hals /\ (Ended(r) => Ended(s))
  BY <1>4 DEF Took, Moved, Sources
<1> QED BY <1>1, <1>4, <1>5, <1>6, <1>7, <1>8 DEF Without

\* And so do all of them, for it turns no more often than the queue is long.
LEMMA DrainAll ==
  ASSUME NEW h, Sources(h), NEW N \in 0..Len(h.push)
  PROVE  Drained(h, N) \in Without(h, N)
<1> DEFINE after[i \in 0..N] == IF i = 0 THEN h ELSE hal_con_in(after[i - 1]).hal
           S == UNION {Without(h, n) : n \in 0..N}
           next == [n \in 1..N |-> [r \in S |-> IF r \in Without(h, n - 1) THEN hal_con_in(r).hal
                                                ELSE h]]
<1>1. N \in Nat /\ Len(h.push) \in Nat /\ N <= Len(h.push)
  BY DEF Sources, Hals
<1>2. h \in Without(h, 0)
  <2>1. h \in Hals /\ Len(h.push) = Len(h.push) - 0
    BY <1>1 DEF Sources
  <2> QED BY <2>1 DEF Without
<1>3. ASSUME NEW n \in 1..N, NEW r \in Without(h, n - 1)
      PROVE  hal_con_in(r).hal \in Without(h, n)
  <2>1. n - 1 \in 0..(Len(h.push) - 1) /\ (n - 1) + 1 = n
    BY <1>1
  <2>2. hal_con_in(r).hal \in Without(h, (n - 1) + 1)
    BY <2>1, DrainOne
  <2> QED BY <2>1, <2>2
<1>4. next \in [1..N -> [S -> S]] /\ h \in S
  <2>1. h \in S
    BY <1>1, <1>2
  <2>2. ASSUME NEW n \in 1..N, NEW r \in S
        PROVE  (IF r \in Without(h, n - 1) THEN hal_con_in(r).hal ELSE h) \in S
    <3>1. n \in 0..N
      BY <1>1
    <3> QED BY <1>3, <2>1, <3>1
  <2> HIDE DEF S
  <2> QED BY <2>1, <2>2
<1>5. PICK f : IsRun(f, S, h, N, next)
  <2> HIDE DEF S, next
  <2> QED BY <1>1, <1>4, Iteration
<1>6. f \in [0..N -> S] /\ f[0] = h /\ \A n \in 1..N : f[n] = next[n][f[n - 1]]
  BY <1>5 DEF IsRun
<1> DEFINE Good == {n \in 0..N : f[n] \in Without(h, n)}
<1>7. N \in Good /\ \A n \in 0..N : n \in Good
  <2>1. 0 \in Good
    BY <1>1, <1>2, <1>6
  <2>2. ASSUME NEW n \in 0..(N - 1), n \in Good PROVE n + 1 \in Good
    <3>1. n + 1 \in 1..N /\ (n + 1) - 1 = n /\ n + 1 \in 0..N /\ n \in 0..N
      BY <1>1
    <3>2. f[n + 1] = next[n + 1][f[n]] /\ f[n] \in S /\ f[n] \in Without(h, n)
      BY <1>6, <2>2, <3>1
    <3>3. next[n + 1][f[n]] = hal_con_in(f[n]).hal
      BY <3>1, <3>2
    <3>4. hal_con_in(f[n]).hal \in Without(h, n + 1)
      BY <1>3, <3>1, <3>2
    <3> QED BY <3>1, <3>2, <3>3, <3>4
  <2> HIDE DEF Good
  <2>3. 0..N \subseteq Good
    BY <1>1, <2>1, <2>2, UpTo
  <2> QED BY <1>1, <2>3
<1>8. f = [n \in 0..N |-> IF n = 0 THEN h ELSE hal_con_in(f[n - 1]).hal]
  <2>1. ASSUME NEW n \in 0..N PROVE f[n] = IF n = 0 THEN h ELSE hal_con_in(f[n - 1]).hal
    <3>1. CASE n = 0
      BY <1>6, <3>1
    <3>2. CASE n # 0
      <4>1. n \in 1..N /\ n - 1 \in 0..N
        BY <1>1, <3>2
      <4>2. f[n] = next[n][f[n - 1]] /\ f[n - 1] \in S /\ f[n - 1] \in Without(h, n - 1)
        BY <1>6, <1>7, <4>1
      <4>3. next[n][f[n - 1]] = hal_con_in(f[n - 1]).hal
        BY <4>1, <4>2
      <4> QED BY <3>2, <4>2, <4>3
    <3> QED BY <3>1, <3>2
  <2> HIDE DEF next, S
  <2> QED BY <1>6, <2>1
<1>9. after = [n \in 0..N |-> IF n = 0 THEN h ELSE hal_con_in(after[n - 1]).hal]
  BY <1>8
<1> HIDE DEF after, next
<1> DEFINE Same == {n \in 0..N : after[n] = f[n]}
<1>10. N \in Same
  <2> HIDE DEF S
  <2>1. 0 \in Same
    BY <1>1, <1>6, <1>9
  <2>2. ASSUME NEW n \in 0..(N - 1), n \in Same PROVE n + 1 \in Same
    <3>1. n + 1 \in 0..N /\ (n + 1) - 1 = n /\ n + 1 # 0
      BY <1>1
    <3>2. \A i \in 0..N : i # 0 => /\ after[i] = hal_con_in(after[i - 1]).hal
                                   /\ f[i] = hal_con_in(f[i - 1]).hal
      BY <1>8, <1>9
    <3>3. after[n + 1] = hal_con_in(after[n]).hal /\ f[n + 1] = hal_con_in(f[n]).hal
      BY <3>1, <3>2
    <3> QED BY <2>2, <3>1, <3>3
  <2> HIDE DEF Same
  <2>3. 0..N \subseteq Same
    BY <1>1, <2>1, <2>2, UpTo
  <2> QED BY <1>1, <2>3
<1>11. Drained(h, N) = after[N]
  BY DEF Drained, after
<1> QED BY <1>7, <1>10, <1>11

---------------------------------------------------------------------------
(* The invariant of console input is inductive.                            *)

\* No action changes the host.
LEMMA SameHost ==
  ASSUME host' = host
  PROVE  /\ Sources(hal)' <=> Sources(hal')
         /\ Answers(hal)' <=> Answers(hal')
         /\ Ended(hal)' <=> Ended(hal')
         /\ Told(got, hal, sent, lost)' <=> Told(got', hal', sent', lost')
         /\ IsTty' <=> IsTty
<1>1. IsTty' <=> IsTty
  BY DEF IsTty
<1>2. Sources(hal)' <=> Sources(hal')
  BY <1>1 DEF Sources, Terminal, File, Whole
<1>3. Answers(hal)' <=> Answers(hal')
  BY <1>1 DEF Answers
<1>4. Ended(hal)' <=> Ended(hal')
  BY DEF Ended
<1>5. Unread(hal)' = Unread(hal')
  BY <1>1 DEF Unread, Text
<1>6. Told(got, hal, sent, lost)' <=> Told(got', hal', sent', lost')
  BY <1>5 DEF Told
<1> QED BY <1>1, <1>2, <1>3, <1>4, <1>6

\* InputInv of the next state, from its parts.
LEMMA InvStep ==
  ASSUME host' = host, Counts', Sources(hal'), got' \in Seq(Reads),
         promised' => Answers(hal'),
         ~IsTty => ~lost' /\ (sawEof' => Ended(hal')),
         Told(got', hal', sent', lost')
  PROVE  InputInv'
  BY SameHost DEF InputInv


\* What the history says of a call keeps its types.
LEMMA PumpedTypes ==
  ASSUME Counts, NEW h, NEW r, Pumped(h, r)
  PROVE  pressed' \in [Keys -> -1..MaxMs] /\ lost' = (lost \/ Spilt(h, r)) /\ lost' \in BOOLEAN
<1>1. pressed' = [key \in Keys |-> IF IsTty /\ r.until[key] # h.until[key] THEN elapsed
                                   ELSE pressed[key]]
  BY DEF Pumped
<1>2. MaxMs \in Nat /\ elapsed \in -1..MaxMs /\ pressed \in [Keys -> -1..MaxMs]
  <2>1. MaxMs \in Nat
    BY ConsoleInputAssumption DEF ConsoleInputAssumption
  <2> QED BY <2>1 DEF Counts
<1>3. pressed' \in [Keys -> -1..MaxMs]
  BY <1>1, <1>2
<1>4. lost' = (lost \/ Spilt(h, r))
  BY DEF Pumped, Spilt
<1> QED BY <1>3, <1>4

\* A call of the HAL.
LEMMA CallStep ==
  ASSUME InputInv, host' = host, Moved(hal, hal'), Pumped(hal, hal'),
         got' \in Seq(Reads), NEW more \in Seq(Bytes), Heard(got') = Heard(got) \o more,
         more \o Unread(hal') = Offered(hal, hal'),
         promised' \in BOOLEAN, promised' => Answers(hal'),
         sawEof' \in BOOLEAN, ~IsTty => (sawEof' => Ended(hal')),
         UNCHANGED <<clock, elapsed, pushedTotal, pushes, typed, sent>>
  PROVE  InputInv'
<1>1. /\ Counts /\ Sources(hal) /\ got \in Seq(Reads) /\ (~IsTty => ~lost)
      /\ Told(got, hal, sent, lost) /\ sent \in Seq(Bytes) /\ lost \in BOOLEAN
  BY DEF InputInv, Counts
<1>2. pressed' \in [Keys -> -1..MaxMs] /\ lost' = (lost \/ Spilt(hal, hal')) /\ lost' \in BOOLEAN
  BY <1>1, PumpedTypes
<1>3. Counts'
  BY <1>1, <1>2 DEF Counts
<1>4. Told(got', hal', sent, lost')
  <2>1. Told(got, hal, sent, lost) /\ sent \in Seq(Bytes)
    BY <1>1
  <2>2. ReadsOn(got, got', more, hal, hal')
    BY <1>1 DEF ReadsOn
  <2>3. ~lost' => ~lost /\ ~Spilt(hal, hal')
    BY <1>2
  <2> QED BY <2>1, <2>2, <2>3, ToldOn
<1>5. Told(got', hal', sent', lost')
  BY <1>4, Zenon
<1>6. Sources(hal')
  BY DEF Moved
<1>7. ~IsTty => ~lost'
  BY <1>1, <1>2 DEF Spilt
<1> QED BY <1>3, <1>5, <1>6, <1>7, InvStep

\* hal_keys, of a program or of kernel_step, keeps the invariant.
LEMMA PollKeysKeeps == InputInv /\ PollKeys => InputInv'
<1> SUFFICES ASSUME InputInv, PollKeys PROVE InputInv'
  OBVIOUS
<1>1. /\ Counts /\ Sources(hal) /\ got \in Seq(Reads) /\ promised \in BOOLEAN /\ sawEof \in BOOLEAN
      /\ (promised => Answers(hal)) /\ (~IsTty => (sawEof => Ended(hal)))
  BY DEF InputInv, Counts
<1>2. /\ hal' = tty_pump(hal) /\ Pumped(hal, hal') /\ host' = host /\ got' = got
      /\ promised' = promised /\ sawEof' = sawEof
      /\ UNCHANGED <<clock, elapsed, pushedTotal, pushes, typed, sent>>
  BY DEF PollKeys
<1>3. Moved(hal, hal') /\ Unread(hal') = Offered(hal, hal')
  <2>1. CASE IsTty
    BY <1>1, <1>2, <2>1, PumpMoves
  <2>2. CASE ~IsTty
    <3>1. hal' = hal
      BY <1>2, <2>2, FileUnpumped
    <3> QED BY <1>1, <3>1, StayMoves
  <2> QED BY <2>1, <2>2
<1>4. promised => Answers(hal')
  <2>1. CASE IsTty
    <3>1. Answers(hal) => hal'.push # << >> \/ hal'.ttyq # << >> \/ hal'.eof
      BY <1>1, <1>2, <2>1, PumpKeeps
    <3> QED BY <1>1, <2>1, <3>1 DEF Answers, IsTty
  <2>2. CASE ~IsTty
    <3>1. hal' = hal
      BY <1>2, <2>2, FileUnpumped
    <3> QED BY <1>1, <3>1
  <2> QED BY <2>1, <2>2
<1>5. << >> \in Seq(Bytes) /\ Heard(got') = Heard(got) \o << >> /\ << >> \o Unread(hal') = Offered(hal, hal')
  <2>1. Heard(got) \in Seq(Bytes) /\ Unread(hal') \in Seq(Bytes)
    <3>1. Sources(hal')
      BY <1>3 DEF Moved
    <3> QED BY <1>1, <3>1, HeardType, UnreadIs
  <2> QED BY <1>2, <1>3, <2>1, ConcatEmptySeq
<1>6. ~IsTty => (sawEof' => Ended(hal'))
  BY <1>1, <1>2, <1>3 DEF Moved
<1>7. promised' \in BOOLEAN /\ sawEof' \in BOOLEAN /\ (promised' => Answers(hal')) /\ got' \in Seq(Reads)
  BY <1>1, <1>2, <1>4
<1> QED BY <1>2, <1>3, <1>5, <1>6, <1>7, CallStep

\* hal_con_in_ready keeps the invariant: what it promises, hal_con_in has.
LEMMA ReadyKeeps == InputInv /\ Ready => InputInv'
<1> SUFFICES ASSUME InputInv, Ready PROVE InputInv'
  OBVIOUS
<1>1. /\ Counts /\ Sources(hal) /\ got \in Seq(Reads) /\ sawEof \in BOOLEAN
      /\ (~IsTty => (sawEof => Ended(hal)))
  BY DEF InputInv, Counts
<1>2. /\ ~Blocks(hal) /\ hal' = hal_con_in_ready(hal).hal /\ promised' = hal_con_in_ready(hal).result
      /\ Pumped(hal, hal') /\ host' = host /\ got' = got /\ sawEof' = sawEof
      /\ UNCHANGED <<clock, elapsed, pushedTotal, pushes, typed, sent>>
  BY DEF Ready
<1>3. /\ Moved(hal, hal') /\ Unread(hal') = Offered(hal, hal')
      /\ promised' \in BOOLEAN /\ (promised' => Answers(hal'))
  BY <1>1, <1>2, HalConInReady
<1>4. << >> \in Seq(Bytes) /\ Heard(got') = Heard(got) \o << >> /\ << >> \o Unread(hal') = Offered(hal, hal')
  <2>1. Heard(got) \in Seq(Bytes) /\ Unread(hal') \in Seq(Bytes)
    <3>1. Sources(hal')
      BY <1>3 DEF Moved
    <3> QED BY <1>1, <3>1, HeardType, UnreadIs
  <2> QED BY <1>2, <1>3, <2>1, ConcatEmptySeq
<1>5. ~IsTty => (sawEof' => Ended(hal'))
  BY <1>1, <1>2, <1>3 DEF Moved
<1>6. sawEof' \in BOOLEAN /\ got' \in Seq(Reads)
  BY <1>1, <1>2
<1> QED BY <1>2, <1>3, <1>4, <1>5, <1>6, CallStep

\* hal_con_in keeps the invariant: it reads the next of what waits, or the end of it.
LEMMA ReadKeeps == InputInv /\ Read => InputInv'
<1> SUFFICES ASSUME InputInv, Read PROVE InputInv'
  OBVIOUS
<1> DEFINE b == hal_con_in(hal).result
<1>1. /\ Counts /\ Sources(hal) /\ got \in Seq(Reads) /\ sawEof \in BOOLEAN
      /\ (~IsTty => (sawEof => Ended(hal)))
  BY DEF InputInv, Counts
<1>2. /\ ~Blocks(hal) /\ hal' = hal_con_in(hal).hal /\ promised' = FALSE
      /\ got' = (IF b.from \in {"PUSH", "HOST"} THEN Append(got, b) ELSE got)
      /\ sawEof' = (sawEof \/ b.from = "EOF")
      /\ Pumped(hal, hal') /\ host' = host
      /\ UNCHANGED <<clock, elapsed, pushedTotal, pushes, typed, sent>>
  BY DEF Read
<1>3. Took(hal, hal', b)
  BY <1>1, <1>2, HalConIn
<1> HIDE DEF b
<1>4. /\ Moved(hal, hal') /\ b \in Reads \cup {NoByte, EndOfInput}
      /\ One(b) \o Unread(hal') = Offered(hal, hal')
      /\ (b = EndOfInput /\ ~IsTty => Ended(hal'))
  BY <1>3 DEF Took
<1>5. CASE b \in Reads
  <2>1. b.from \in {"PUSH", "HOST"} /\ b.from # "EOF"
    BY <1>5, ResultTypes
  <2>2. /\ Append(got, b) \in Seq(Reads) /\ Heard(Append(got, b)) = Heard(got) \o One(b)
    BY <1>1, <1>5, HeardAppend DEF One
  <2>3. One(b) \in Seq(Bytes)
    <3>1. b.from = "HOST" => b.byte \in Bytes
      BY <1>5 DEF Reads
    <3> QED BY <3>1 DEF One
  <2>4. got' = Append(got, b) /\ sawEof' = sawEof
    BY <1>1, <1>2, <2>1
  <2>5. ~IsTty => (sawEof' => Ended(hal'))
    BY <1>1, <1>4, <2>4 DEF Moved
  <2>6. promised' \in BOOLEAN /\ ~promised' /\ sawEof' \in BOOLEAN
    BY <1>1, <1>2, <2>4
  <2> QED BY <1>2, <1>4, <2>2, <2>3, <2>4, <2>5, <2>6, CallStep
<1>6. CASE b \in {NoByte, EndOfInput}
  <2>1. b.from \notin {"PUSH", "HOST"} /\ (b.from = "EOF" => b = EndOfInput)
    BY <1>6, ResultTypes
  <2>2. One(b) = << >> /\ got' = got
    BY <1>2, <2>1 DEF One
  <2>3. Heard(got) \in Seq(Bytes) /\ << >> \in Seq(Bytes)
    BY <1>1, HeardType
  <2>4. Heard(got') = Heard(got) \o << >> /\ << >> \o Unread(hal') = Offered(hal, hal')
    BY <1>4, <2>2, <2>3, ConcatEmptySeq
  <2>5. ~IsTty => (sawEof' => Ended(hal'))
    BY <1>1, <1>2, <1>4, <2>1 DEF Moved
  <2>6. promised' \in BOOLEAN /\ ~promised' /\ sawEof' \in BOOLEAN
    BY <1>1, <1>2
  <2>7. got' \in Seq(Reads)
    BY <1>1, <2>2
  <2> QED BY <1>2, <1>4, <2>3, <2>4, <2>5, <2>6, <2>7, CallStep
<1> QED BY <1>4, <1>5, <1>6

\* So does a keystroke, or a byte written to the pipe.
LEMMA SendKeeps == InputInv /\ Send => InputInv'
<1> SUFFICES ASSUME InputInv, Send PROVE InputInv'
  OBVIOUS
<1>1. /\ Counts /\ Sources(hal) /\ got \in Seq(Reads) /\ (promised => Answers(hal))
      /\ (~IsTty => ~lost /\ (sawEof => Ended(hal))) /\ Told(got, hal, sent, lost)
      /\ sent \in Seq(Bytes) /\ lost \in BOOLEAN
  BY DEF InputInv, Counts
<1>2. PICK stroke : /\ IF IsTty THEN stroke \in Strokes ELSE \E ch \in Letters : stroke = <<ch>>
                    /\ Type(stroke)
  <2>1. CASE IsTty
    BY <2>1 DEF Send
  <2>2. CASE ~IsTty
    BY <2>2 DEF Send
  <2> QED BY <2>1, <2>2
<1>3. /\ host \notin {"SCRIPT", "EMBEDDED"} /\ ~hal.closed /\ typed < MaxTyped
      /\ hal' = [hal EXCEPT !.wire = @ \o stroke] /\ sent' = sent \o Text(stroke)
      /\ typed' = typed + 1 /\ host' = host /\ got' = got /\ promised' = promised
      /\ sawEof' = sawEof /\ lost' = lost
      /\ UNCHANGED <<clock, elapsed, pushedTotal, pushes, pressed>>
  BY <1>2 DEF Type
<1>4. /\ Sources(hal') /\ Unread(hal') = Unread(hal) \o Text(stroke)
      /\ (Answers(hal) => Answers(hal'))
  BY <1>1, <1>2, <1>3, TypeMoves
<1>5. Text(stroke) \in Seq(Bytes)
  <2>1. hal.wire \in Seq(Bytes)
    BY <1>1 DEF Sources, Hals
  <2> QED BY <1>2, <2>1, TextStroke
<1>6. Told(got, hal', sent \o Text(stroke), lost)
  BY <1>1, <1>4, <1>5, ToldMore
<1>7. sent' \in Seq(Bytes)
  BY <1>1, <1>3, <1>5, ConcatProperties
<1>8. typed' \in 0..MaxTyped
  <2>1. MaxTyped \in Nat
    BY ConsoleInputAssumption DEF ConsoleInputAssumption
  <2>2. typed \in 0..MaxTyped
    BY <1>1 DEF Counts
  <2> QED BY <1>3, <2>1, <2>2
<1>9. Counts'
  BY <1>1, <1>3, <1>7, <1>8 DEF Counts
<1>10. ~IsTty => ~lost' /\ (sawEof' => Ended(hal'))
  <2>1. ~IsTty => ~Ended(hal)
    BY <1>3 DEF Ended
  <2> QED BY <1>1, <1>3, <2>1
<1>11. Told(got', hal', sent', lost')
  BY <1>3, <1>6
<1> QED BY <1>1, <1>3, <1>4, <1>9, <1>10, <1>11, InvStep

\* So does the end of what is sent.
LEMMA CloseKeeps == InputInv /\ Close => InputInv'
<1> SUFFICES ASSUME InputInv, Close PROVE InputInv'
  OBVIOUS
<1>1. /\ Counts /\ Sources(hal) /\ got \in Seq(Reads) /\ (promised => Answers(hal))
      /\ (~IsTty => ~lost /\ (sawEof => Ended(hal))) /\ Told(got, hal, sent, lost)
  BY DEF InputInv
<1>2. /\ ~hal.closed /\ (host = "PIPE" \/ IsTty)
      /\ hal' = [hal EXCEPT !.closed = TRUE,
                            !.wire = IF host = "RAW" THEN Append(@, CtrlD) ELSE @]
      /\ host' = host /\ got' = got /\ promised' = promised /\ sent' = sent
      /\ sawEof' = sawEof /\ lost' = lost
      /\ UNCHANGED <<clock, elapsed, pushedTotal, pushes, pressed, typed>>
  BY DEF Close
<1>3. Sources(hal') /\ Unread(hal') = Unread(hal) /\ (Answers(hal) => Answers(hal'))
  BY <1>1, <1>2, CloseMoves
<1>4. Counts'
  BY <1>1, <1>2 DEF Counts
<1>5. ~IsTty => ~lost' /\ (sawEof' => Ended(hal'))
  <2>1. ~IsTty => ~Ended(hal)
    BY <1>2 DEF Ended
  <2> QED BY <1>1, <1>2, <2>1
<1>6. Told(got', hal', sent', lost')
  BY <1>1, <1>2, <1>3 DEF Told
<1> QED BY <1>1, <1>2, <1>3, <1>4, <1>5, <1>6, InvStep

\* So does time.
LEMMA ElapseKeeps == InputInv /\ Elapse => InputInv'
<1> SUFFICES ASSUME InputInv, Elapse PROVE InputInv'
  OBVIOUS
<1>1. /\ Counts /\ Sources(hal) /\ got \in Seq(Reads) /\ (promised => Answers(hal))
      /\ (~IsTty => ~lost /\ (sawEof => Ended(hal))) /\ Told(got, hal, sent, lost)
  BY DEF InputInv
<1>2. /\ elapsed < MaxMs /\ clock' = (clock + 1) % TimeMod /\ elapsed' = elapsed + 1
      /\ UNCHANGED <<host, hal, promised, pushedTotal, pushes, typed, sent, got, sawEof,
                     pressed, lost>>
  BY DEF Elapse
<1>3. clock' \in 0..(TimeMod - 1) /\ elapsed' \in 0..MaxMs
  <2>1. TimeMod \in Nat /\ TimeMod > 0 /\ MaxMs \in Nat
    BY ConsoleInputAssumption DEF ConsoleInputAssumption
  <2>2. clock + 1 \in Nat /\ elapsed \in 0..MaxMs
    BY <1>1, <2>1 DEF Counts
  <2>3. (clock + 1) % TimeMod \in 0..(TimeMod - 1)
    BY <2>1, <2>2
  <2> QED BY <1>2, <2>1, <2>2, <2>3
<1>4. Counts'
  BY <1>1, <1>2, <1>3 DEF Counts
<1> QED BY <1>1, <1>2, <1>4, InvStep

\* So does tos_con_push.
LEMMA PushKeeps == InputInv /\ Push => InputInv'
<1> SUFFICES ASSUME InputInv, Push PROVE InputInv'
  OBVIOUS
<1>1. /\ Counts /\ Sources(hal) /\ got \in Seq(Reads) /\ (promised => Answers(hal))
      /\ (~IsTty => ~lost /\ (sawEof => Ended(hal))) /\ Told(got, hal, sent, lost)
  BY DEF InputInv
<1>2. /\ pushes < MaxPushes /\ hal' = hal_con_push(hal, pushes + 1)
      /\ pushes' = pushes + 1 /\ pushedTotal' = pushedTotal + 1
      /\ UNCHANGED <<host, clock, elapsed, promised, typed, sent, got, sawEof, pressed, lost>>
  BY DEF Push
<1>3. /\ pushes + 1 \in 1..MaxPushes /\ pushes' \in 0..MaxPushes /\ pushedTotal' \in 0..pushes'
  <2>1. MaxPushes \in Nat
    BY ConsoleInputAssumption DEF ConsoleInputAssumption
  <2> QED BY <1>1, <1>2, <2>1 DEF Counts
<1>4. /\ Sources(hal') /\ Unread(hal') = Unread(hal)
      /\ (Answers(hal) => Answers(hal')) /\ (Ended(hal) => Ended(hal'))
  BY <1>1, <1>2, <1>3, PushMoves
<1>5. Counts'
  BY <1>1, <1>2, <1>3 DEF Counts
<1>6. Told(got', hal', sent', lost')
  BY <1>1, <1>2, <1>4 DEF Told
<1> QED BY <1>1, <1>2, <1>4, <1>5, <1>6, InvStep

\* So does api_drain_pushed, which presses no key.
LEMMA DrainKeeps == InputInv /\ Drain => InputInv' /\ hal'.until = hal.until
<1> SUFFICES ASSUME InputInv, Drain PROVE InputInv' /\ hal'.until = hal.until
  OBVIOUS
<1>1. /\ Counts /\ Sources(hal) /\ got \in Seq(Reads)
      /\ (~IsTty => ~lost /\ (sawEof => Ended(hal))) /\ Told(got, hal, sent, lost)
  BY DEF InputInv
<1>2. /\ hal' = Drained(hal, Taken(hal)) /\ pushedTotal' = 0 /\ promised' = FALSE
      /\ UNCHANGED <<host, clock, elapsed, pushes, typed, sent, got, sawEof, pressed, lost>>
  BY DEF Drain
<1>3. Taken(hal) \in 0..Len(hal.push) /\ 0 \in 0..pushes'
  <2>1. Len(hal.push) \in Nat
    BY <1>1 DEF Sources, Hals
  <2>2. MaxPushes \in Nat
    BY ConsoleInputAssumption DEF ConsoleInputAssumption
  <2>3. pushedTotal \in Nat /\ pushes \in Nat
    BY <1>1, <2>2 DEF Counts
  <2> QED BY <1>2, <2>1, <2>3 DEF Taken
<1>4. /\ Sources(hal') /\ Unread(hal') = Unread(hal) /\ (Ended(hal) => Ended(hal'))
      /\ hal'.until = hal.until
  BY <1>1, <1>2, <1>3, DrainAll DEF Without
<1>5. Counts'
  BY <1>1, <1>2, <1>3 DEF Counts
<1>6. Told(got', hal', sent', lost')
  BY <1>1, <1>2, <1>4 DEF Told
<1> QED BY <1>1, <1>2, <1>4, <1>5, <1>6, InvStep


\* A step of the console is one of these for its input.
LEMMA InputSteps ==
  [Next]_<<inputVars, outputVars>> =>
    \/ Send \/ Close \/ Elapse \/ Push \/ PollKeys \/ Ready \/ Read \/ Drain
    \/ UNCHANGED inputVars
  BY DEF Next, User, StepAndPrint, StepSilently, Seek

\* The console starts with nothing read, and all of a script waiting.
LEMMA InputInvInit == Init => InputInv
<1> SUFFICES ASSUME Init PROVE InputInv
  OBVIOUS
<1>1. PICK script : /\ script \in IF host = "SCRIPT" THEN [1..MaxTyped -> Letters] ELSE {<< >>}
                    /\ hal = Initial(script) /\ sent = script
  BY DEF Init, InputInit
<1>2. /\ host \in Hosts /\ clock \in Starts /\ elapsed = 0 /\ promised = FALSE /\ pushedTotal = 0
      /\ pushes = 0 /\ typed = 0 /\ got = << >> /\ sawEof = FALSE /\ lost = FALSE
      /\ pressed = [key \in Keys |-> -1]
  BY DEF Init, InputInit
<1>3. /\ MaxMs \in Nat /\ MaxTyped \in Nat /\ MaxPushes \in Nat /\ TtyCap \in Nat /\ PushCap \in Nat
      /\ TimeMod \in Nat /\ TimeMod >= 2 /\ Starts \subseteq 0..(TimeMod - 1)
  BY ConsoleInputAssumption DEF ConsoleInputAssumption
<1>4. script \in Seq(Bytes) /\ (host # "SCRIPT" => script = << >>)
  <2>1. CASE host = "SCRIPT"
    <3>1. script \in Seq(Letters)
      BY <1>1, <1>3, <2>1
    <3> QED BY <2>1, <3>1, SeqMonotonic DEF Bytes
  <2>2. CASE host # "SCRIPT"
    BY <1>1, <2>2
  <2> QED BY <2>1, <2>2
<1>5. Counts
  <2>1. pressed \in [Keys -> -1..MaxMs]
    BY <1>2, <1>3
  <2>2. elapsed \in 0..MaxMs /\ pushes \in 0..MaxPushes /\ pushedTotal \in 0..pushes /\ typed \in 0..MaxTyped
    BY <1>2, <1>3
  <2>3. clock \in 0..(TimeMod - 1)
    BY <1>2, <1>3
  <2> QED BY <1>1, <1>2, <1>4, <2>1, <2>2, <2>3 DEF Counts
<1>6. /\ hal.push = << >> /\ hal.ttyq = << >> /\ hal.peek = Nothing /\ hal.eof = FALSE
      /\ hal.esc = 0 /\ hal.until = [key \in Keys |-> 0] /\ hal.wire = script /\ hal.closed = FALSE
  BY <1>1 DEF Initial
<1>7. hal \in Hals
  <2>1. << >> \in Seq(1..MaxPushes) /\ << >> \in Seq(Letters) /\ 0 \in 0..2
    OBVIOUS
  <2>2. [key \in Keys |-> 0] \in [Keys -> 0..(TimeMod - 1)]
    BY <1>3
  <2> QED BY <1>1, <1>4, <2>1, <2>2 DEF Initial, Hals
<1>8. Sources(hal)
  <2>1. Len(hal.push) <= PushCap /\ Len(hal.ttyq) <= TtyCap
    BY <1>3, <1>6
  <2>2. IsTty => Terminal(hal)
    <3>1. IsTty => hal.wire = << >>
      BY <1>4, <1>6 DEF IsTty
    <3> QED BY <1>6, <3>1 DEF Terminal, Whole
  <2>3. ~IsTty => File(hal)
    BY <1>4, <1>6 DEF File
  <2> QED BY <1>7, <2>1, <2>2, <2>3 DEF Sources
<1>9. got \in Seq(Reads) /\ Heard(got) = << >>
  <2>1. Heard(<< >>) = << >>
    BY FlattenEmpty DEF Heard
  <2> QED BY <1>2, <2>1
<1>10. Unread(hal) = script
  <2>1. CASE IsTty
    <3>1. Text(<< >>) = << >>
      BY <1>7, TextAppend, EmptySeq DEF Bytes
    <3>2. script = << >>
      BY <1>4, <2>1 DEF IsTty
    <3> QED BY <1>6, <3>1, <3>2, ConcatEmptySeq, EmptySeq DEF Unread
  <2>2. CASE ~IsTty
    <3>1. Unread(hal) = << >> \o hal.wire
      BY <1>6, <1>8, <2>2, UnreadIs
    <3> QED BY <1>4, <1>6, <3>1, ConcatEmptySeq
  <2> QED BY <2>1, <2>2
<1>11. Told(got, hal, sent, lost)
  <2>1. << >> \o script = script
    BY <1>4, ConcatEmptySeq
  <2>2. Inside(script, script)
    BY <1>4, InsideItself
  <2> QED BY <1>1, <1>9, <1>10, <2>1, <2>2 DEF Told
<1> QED BY <1>2, <1>5, <1>8, <1>9, <1>11 DEF InputInv

\* Every step of the console keeps the invariant.
LEMMA InputInvNext == InputInv /\ [Next]_<<inputVars, outputVars>> => InputInv'
<1> SUFFICES ASSUME InputInv, [Next]_<<inputVars, outputVars>> PROVE InputInv'
  OBVIOUS
<1>1. CASE UNCHANGED inputVars
  <2>1. /\ Counts /\ Sources(hal) /\ got \in Seq(Reads) /\ (promised => Answers(hal))
        /\ (~IsTty => ~lost /\ (sawEof => Ended(hal))) /\ Told(got, hal, sent, lost)
    BY DEF InputInv
  <2>2. UNCHANGED <<host, hal, clock, elapsed, promised, pushedTotal, pushes, typed, sent, got, sawEof,
                    pressed, lost>>
    BY <1>1 DEF inputVars
  <2>3. Counts'
    BY <2>1, <2>2 DEF Counts
  <2> QED BY <2>1, <2>2, <2>3, InvStep
<1> QED BY <1>1, InputSteps, SendKeeps, CloseKeeps, ElapseKeeps, PushKeeps, PollKeysKeeps,
           ReadyKeeps, ReadKeeps, DrainKeeps

\* The invariant the others rest on: what has been read of the host and what waits in the
\* byte read ahead, the queue and the descriptor is together what was sent (hal_posix.c:656-693),
\* and whatever hal_con_in_ready promised is still there.
THEOREM ConsoleInputInvariant == Spec => []InputInv
<1>1. Init => InputInv
  BY InputInvInit
<1>2. InputInv /\ [Next]_<<inputVars, outputVars>> => InputInv'
  BY InputInvNext
<1> QED BY <1>1, <1>2, PTL DEF Spec

\* The state of the HAL stays in its types: the push queue and the queue of the terminal never
\* hold more than they have room for (hal_posix.c:367, 552), and the escape parser knows three
\* states (433).
THEOREM InputTyped == Spec => []InputTypeOK
<1>1. InputInv => InputTypeOK
  <2> SUFFICES ASSUME InputInv PROVE InputTypeOK
    OBVIOUS
  <2>1. MaxPushes \in Nat
    BY ConsoleInputAssumption DEF ConsoleInputAssumption
  <2>2. pushedTotal \in 0..MaxPushes
    BY <2>1 DEF InputInv, Counts
  <2> QED BY <2>2 DEF InputInv, Counts, Sources, Hals, InputTypeOK
<1> QED BY <1>1, ConsoleInputInvariant, PTL

\* Text is read in order, once and without escape sequences (api.c:110), whatever the queues
\* hold and however pushes, pumps and takings back interleave; only a full terminal queue
\* (hal_posix.c:369) loses any.
THEOREM TextStaysIntact == Spec => []TextIntact
<1>1. InputInv => TextIntact
  <2> SUFFICES ASSUME InputInv PROVE TextIntact
    OBVIOUS
  <2> DEFINE text == Heard(got) \o Unread(hal)
  <2>1. /\ Sources(hal) /\ got \in Seq(Reads) /\ Inside(text, sent) /\ (~lost => text = sent)
        /\ sent \in Seq(Bytes)
    BY DEF InputInv, Told, Counts
  <2>2. text \in Seq(Bytes)
    <3>1. Heard(got) \in Seq(Bytes) /\ Unread(hal) \in Seq(Bytes)
      BY <2>1, HeardType, UnreadIs
    <3> QED BY <3>1, ConcatProperties
  <2>3. FromHost \o Waiting = text
    BY DEF FromHost, Waiting, Heard, Unread
  <2> HIDE DEF text
  <2>4. IsPartOf(text, sent)
    BY <2>1, <2>2, InsideIsPart
  <2> QED BY <2>1, <2>3, <2>4 DEF TextIntact
<1> QED BY <1>1, ConsoleInputInvariant, PTL

\* A byte or an end of input that hal_con_in_ready() promised (hal.h:19) is there when
\* hal_con_in() is called, so a call parked for input is not dispatched in vain.
THEOREM ReadyStaysTrue == Spec => []ReadyTrue
<1>1. InputInv => ReadyTrue
  <2> SUFFICES ASSUME InputInv, promised PROVE hal_con_in(hal).result.from # "NOTHING"
    BY DEF ReadyTrue
  <2> DEFINE b == hal_con_in(hal).result
  <2>1. Counts /\ Sources(hal) /\ Answers(hal)
    BY DEF InputInv
  <2>2. ~Blocks(hal)
    BY <2>1 DEF Blocks, Answers, IsTty
  <2>3. Took(hal, hal_con_in(hal).hal, b)
    BY <2>1, <2>2, HalConIn
  <2> HIDE DEF b
  <2>4. b \in Reads \/ b = EndOfInput
    BY <2>1, <2>3 DEF Took
  <2>5. b.from \in {"PUSH", "HOST", "EOF"}
    BY <2>4, ResultTypes
  <2> QED BY <2>5 DEF b
<1> QED BY <1>1, ConsoleInputInvariant, PTL

\* A pipe and a script answer the end of input only when all of it was read, the byte that
\* pipe_fill_peek has read ahead included (hal_posix.c:578, 610; docs/languages.md:62).
THEOREM FileEofIsLast == Spec => []FileEofLast
<1>1. InputInv => FileEofLast
  <2> SUFFICES ASSUME InputInv, ~IsTty, sawEof PROVE FromHost = sent
    BY DEF FileEofLast, EofLast
  <2>1. Sources(hal) /\ got \in Seq(Reads) /\ Ended(hal) /\ Heard(got) \o Unread(hal) = sent
    BY DEF InputInv, Told
  <2>2. Unread(hal) = << >> \o << >>
    BY <2>1, UnreadIs DEF Ended
  <2>3. << >> \o << >> = << >> /\ Heard(got) \o << >> = Heard(got)
    BY <2>1, HeardType, ConcatEmptySeq, EmptySeq
  <2> QED BY <2>1, <2>2, <2>3 DEF FromHost, Heard
<1> QED BY <1>1, ConsoleInputInvariant, PTL


---------------------------------------------------------------------------
(* Keys.                                                                   *)

\* The clock comes round to a key that was pressed, and is never pressed again, after half its
\* range: KeysHeld is about behaviours that end before.
NoWrap == HoldMs + 1 < TimeMod \div 2 /\ MaxMs <= TimeMod \div 2

\* A number less than one modulus away from a remainder has that remainder.
LEMMA ModIs ==
  ASSUME NEW M \in Nat, M > 0, NEW d \in 0..(M - 1), NEW x \in {d - M, d, d + M}
  PROVE  x % M = d
  OBVIOUS

\* Half the range of the clock.
LEMMA HalfIs ==
  /\ TimeMod \in Nat /\ TimeMod >= 2 /\ TimeMod \div 2 \in Nat
  /\ 2 * (TimeMod \div 2) <= TimeMod /\ TimeMod <= 2 * (TimeMod \div 2) + 1
<1>1. TimeMod \in Nat /\ TimeMod >= 2
  BY ConsoleInputAssumption DEF ConsoleInputAssumption
<1> QED BY <1>1

\* The time until which a key pressed now is down.
LEMMA HitIs ==
  ASSUME Counts, NoWrap
  PROVE  /\ Hit # 0
         /\ \E end \in {clock + HoldMs, clock + HoldMs + 1} : Hit \in {end - TimeMod, end}
<1>1. HoldMs \in Nat /\ HoldMs > 0
  BY ConsoleInputAssumption DEF ConsoleInputAssumption
<1>2. /\ clock \in 0..(TimeMod - 1) /\ TimeMod \in Nat /\ TimeMod >= 2 /\ HoldMs < TimeMod
  BY HalfIs, <1>1 DEF Counts, NoWrap
<1> DEFINE sum == clock + HoldMs
           d == IF sum < TimeMod THEN sum ELSE sum - TimeMod
<1>3. d \in 0..(TimeMod - 1) /\ sum \in {d - TimeMod, d, d + TimeMod} /\ (d = 0 => sum = TimeMod)
  BY <1>1, <1>2
<1>4. sum % TimeMod = d
  <2> HIDE DEF sum, d
  <2> QED BY <1>2, <1>3, ModIs
<1>5. Hit = IF d = 0 THEN 1 ELSE d
  BY <1>4 DEF Hit
<1> HIDE DEF d
<1>6. CASE d = 0
  BY <1>2, <1>3, <1>5, <1>6
<1>7. CASE d # 0
  <2>1. d = sum \/ d = sum - TimeMod
    BY DEF d
  <2> QED BY <1>2, <1>5, <1>7, <2>1
<1> QED BY <1>6, <1>7


\* KeyTime, of a time u and a press at p.
TimeIs(u, p, now, spent) ==
  IF p = -1 THEN u = 0
  ELSE /\ p <= spent /\ u # 0
       /\ \E end \in {now + HoldMs - (spent - p), now + HoldMs - (spent - p) + 1} :
            u \in {end - TimeMod, end, end + TimeMod}

\* KeyInv, in terms of the variables it is about.
LEMMA KeyInvIs ==
  /\ KeyInv <=> \A key \in Keys : TimeIs(hal.until[key], pressed[key], clock, elapsed)
  /\ KeyInv' <=> \A key \in Keys : TimeIs(hal'.until[key], pressed'[key], clock', elapsed')
  BY DEF KeyInv, KeyTime, TimeIs, Since

\* A call pumped the terminal, or did not.
LEMMA KeyCall ==
  ASSUME Counts, NoWrap, KeyInv, Sources(hal), Moved(hal, hal'), Pumped(hal, hal'),
         UNCHANGED <<clock, elapsed>>
  PROVE  KeyInv'
<1>1. pressed' = [key \in Keys |-> IF IsTty /\ hal'.until[key] # hal.until[key] THEN elapsed
                                   ELSE pressed[key]]
  BY DEF Pumped
<1>2. ASSUME NEW key \in Keys
      PROVE  TimeIs(hal'.until[key], pressed'[key], clock, elapsed)
  <2>1. TimeIs(hal.until[key], pressed[key], clock, elapsed)
    BY KeyInvIs
  <2>2. CASE hal'.until[key] = hal.until[key]
    BY <1>1, <2>1, <2>2
  <2>3. CASE hal'.until[key] # hal.until[key]
    <3>1. IsTty
      <4>1. Sources(hal')
        BY DEF Moved
      <4>2. ~IsTty => hal.until = [k \in Keys |-> 0] /\ hal'.until = [k \in Keys |-> 0]
        BY <4>1 DEF Sources, File
      <4> QED BY <2>3, <4>2
    <3>2. hal'.until[key] = Hit /\ pressed'[key] = elapsed
      BY <1>1, <2>3, <3>1 DEF Moved
    <3>3. /\ Hit # 0
          /\ \E end \in {clock + HoldMs, clock + HoldMs + 1} : Hit \in {end - TimeMod, end}
      BY HitIs
    <3> DEFINE u == Hit
    <3>4. u # 0 /\ \E end \in {clock + HoldMs, clock + HoldMs + 1} : u \in {end - TimeMod, end}
      BY <3>3
    <3> HIDE DEF u
    <3>5. elapsed \in Nat /\ clock \in Nat /\ HoldMs \in Nat /\ TimeMod \in Nat
      BY HalfIs, ConsoleInputAssumption DEF Counts, ConsoleInputAssumption
    <3>6. TimeIs(u, elapsed, clock, elapsed)
      BY <3>4, <3>5 DEF TimeIs
    <3> QED BY <3>2, <3>6 DEF u
  <2> QED BY <2>2, <2>3
<1> QED BY <1>2, KeyInvIs

\* No key is pressed and no time goes by.
LEMMA KeyStays ==
  ASSUME KeyInv, hal'.until = hal.until, UNCHANGED <<pressed, clock, elapsed>>
  PROVE  KeyInv'
  BY KeyInvIs

\* A millisecond later.
LEMMA KeyElapse ==
  ASSUME Counts, NoWrap, KeyInv, Sources(hal), Elapse
  PROVE  KeyInv'
<1>1. /\ elapsed < MaxMs /\ clock' = (clock + 1) % TimeMod /\ elapsed' = elapsed + 1
      /\ hal' = hal /\ pressed' = pressed
  BY DEF Elapse
<1>2. /\ TimeMod \in Nat /\ TimeMod >= 2 /\ HoldMs \in Nat /\ MaxMs \in Nat /\ MaxMs < TimeMod
      /\ HoldMs > 0
  BY HalfIs, ConsoleInputAssumption DEF NoWrap, ConsoleInputAssumption
<1>3. clock \in 0..(TimeMod - 1) /\ elapsed \in 0..MaxMs
  BY DEF Counts
<1>4. clock' = IF clock + 1 = TimeMod THEN 0 ELSE clock + 1
  <2> DEFINE d == IF clock + 1 = TimeMod THEN 0 ELSE clock + 1
             x == clock + 1
  <2>1. d \in 0..(TimeMod - 1) /\ x \in {d - TimeMod, d, d + TimeMod}
    BY <1>2, <1>3
  <2> HIDE DEF d, x
  <2>2. x % TimeMod = d
    BY <1>2, <2>1, ModIs
  <2> QED BY <1>1, <2>2 DEF d, x
<1>5. ASSUME NEW key \in Keys
      PROVE  TimeIs(hal.until[key], pressed[key], clock', elapsed')
  <2> DEFINE u == hal.until[key]
             p == pressed[key]
  <2>1. TimeIs(u, p, clock, elapsed)
    BY KeyInvIs
  <2>2. u \in 0..(TimeMod - 1) /\ p \in -1..MaxMs
    BY DEF Sources, Hals, Counts
  <2> HIDE DEF u, p
  <2>3. CASE p = -1
    BY <2>1, <2>3 DEF TimeIs, u, p
  <2>4. CASE p # -1
    <3>1. PICK e \in {0, 1} :
            /\ p <= elapsed /\ u # 0
            /\ u \in {((clock + HoldMs - (elapsed - p)) + e) - TimeMod,
                      (clock + HoldMs - (elapsed - p)) + e,
                      ((clock + HoldMs - (elapsed - p)) + e) + TimeMod}
      <4>1. p <= elapsed /\ u # 0
        BY <2>1, <2>4 DEF TimeIs
      <4>2. PICK end \in {clock + HoldMs - (elapsed - p), clock + HoldMs - (elapsed - p) + 1} :
              u \in {end - TimeMod, end, end + TimeMod}
        BY <2>1, <2>4 DEF TimeIs
      <4>3. CASE end = clock + HoldMs - (elapsed - p)
        BY <1>2, <1>3, <2>2, <4>1, <4>2, <4>3
      <4>4. CASE end = clock + HoldMs - (elapsed - p) + 1
        BY <1>2, <1>3, <2>2, <4>1, <4>2, <4>4
      <4> QED BY <4>2, <4>3, <4>4
    <3> DEFINE end == (clock' + HoldMs - (elapsed' - p)) + e
    <3>2. p <= elapsed' /\ p \in Nat
      BY <1>1, <1>3, <2>2, <2>4, <3>1
    <3>3. u \in {end - TimeMod, end, end + TimeMod}
      <4>1. CASE clock + 1 = TimeMod
        <5>1. clock' = 0 /\ end = ((HoldMs - (elapsed + 1)) + p) + e
          BY <1>1, <1>2, <1>3, <1>4, <3>2, <4>1
        <5> HIDE DEF end
        <5>2. u # ((clock + HoldMs - (elapsed - p)) + e) + TimeMod
          BY <1>2, <1>3, <2>2, <3>1, <3>2, <4>1
        <5> QED BY <1>2, <1>3, <2>2, <3>1, <3>2, <4>1, <5>1, <5>2
      <4>2. CASE clock + 1 # TimeMod
        <5>1. end = (clock + HoldMs - (elapsed - p)) + e
          BY <1>1, <1>2, <1>3, <1>4, <3>2, <4>2
        <5> HIDE DEF end
        <5> QED BY <3>1, <5>1
      <4> QED BY <4>1, <4>2
    <3>4. end \in {clock' + HoldMs - (elapsed' - p), clock' + HoldMs - (elapsed' - p) + 1}
      <4>1. clock' \in Nat /\ elapsed' \in Nat
        BY <1>1, <1>2, <1>3, <1>4
      <4> QED BY <1>2, <3>1, <3>2, <4>1
    <3> HIDE DEF end
    <3>5. TimeIs(u, p, clock', elapsed')
      BY <2>4, <3>1, <3>2, <3>3, <3>4 DEF TimeIs
    <3> QED BY <3>5 DEF u, p
  <2> QED BY <2>3, <2>4 DEF u, p
<1> QED BY <1>1, <1>5, KeyInvIs

\* Every step of the console keeps the times of the keys right.
LEMMA KeyInvNext ==
  ASSUME NoWrap, InputInv, KeyInv, [Next]_<<inputVars, outputVars>>
  PROVE  KeyInv'
<1>1. Counts /\ Sources(hal)
  BY DEF InputInv
<1>2. CASE Send
  <2>1. PICK stroke : Type(stroke)
    BY <1>2 DEF Send
  <2>2. hal' = [hal EXCEPT !.wire = @ \o stroke] /\ UNCHANGED <<pressed, clock, elapsed>>
    BY <2>1 DEF Type
  <2>3. hal'.until = hal.until
    BY <1>1, <2>2 DEF Sources, Hals
  <2> QED BY <2>2, <2>3, KeyStays
<1>3. CASE Close
  <2>1. /\ hal' = [hal EXCEPT !.closed = TRUE,
                              !.wire = IF host = "RAW" THEN Append(@, CtrlD) ELSE @]
        /\ UNCHANGED <<pressed, clock, elapsed>>
    BY <1>3 DEF Close
  <2>2. hal'.until = hal.until
    BY <1>1, <2>1 DEF Sources, Hals
  <2> QED BY <2>1, <2>2, KeyStays
<1>4. CASE Elapse
  BY <1>1, <1>4, KeyElapse
<1>5. CASE Push
  <2>1. /\ hal' = hal_con_push(hal, pushes + 1) /\ UNCHANGED <<pressed, clock, elapsed>>
    BY <1>5 DEF Push
  <2>2. hal'.until = hal.until
    BY <1>1, <2>1 DEF hal_con_push, Sources, Hals
  <2> QED BY <2>1, <2>2, KeyStays
<1>6. CASE PollKeys
  <2>1. hal' = tty_pump(hal) /\ Pumped(hal, hal') /\ UNCHANGED <<clock, elapsed>>
    BY <1>6 DEF PollKeys
  <2>2. Moved(hal, hal')
    <3>1. CASE IsTty
      BY <1>1, <2>1, <3>1, PumpMoves
    <3>2. CASE ~IsTty
      <4>1. hal' = hal
        BY <2>1, <3>2, FileUnpumped
      <4> QED BY <1>1, <4>1, StayMoves
    <3> QED BY <3>1, <3>2
  <2> QED BY <1>1, <2>1, <2>2, KeyCall
<1>7. CASE Ready
  <2>1. /\ ~Blocks(hal) /\ hal' = hal_con_in_ready(hal).hal /\ Pumped(hal, hal')
        /\ UNCHANGED <<clock, elapsed>>
    BY <1>7 DEF Ready
  <2>2. Moved(hal, hal')
    BY <1>1, <2>1, HalConInReady
  <2> QED BY <1>1, <2>1, <2>2, KeyCall
<1>8. CASE Read
  <2>1. /\ ~Blocks(hal) /\ hal' = hal_con_in(hal).hal /\ Pumped(hal, hal')
        /\ UNCHANGED <<clock, elapsed>>
    BY <1>8 DEF Read
  <2>2. Moved(hal, hal')
    BY <1>1, <2>1, HalConIn DEF Took
  <2> QED BY <1>1, <2>1, <2>2, KeyCall
<1>9. CASE Drain
  <2>1. UNCHANGED <<pressed, clock, elapsed>>
    BY <1>9 DEF Drain
  <2>2. hal'.until = hal.until
    BY <1>9, DrainKeeps
  <2> QED BY <2>1, <2>2, KeyStays
<1>10. CASE UNCHANGED inputVars
  <2>1. UNCHANGED <<hal, pressed, clock, elapsed>>
    BY <1>10 DEF inputVars
  <2> QED BY <2>1, KeyStays
<1> QED BY <1>2, <1>3, <1>4, <1>5, <1>6, <1>7, <1>8, <1>9, <1>10, InputSteps

\* And with them right, hal_keys (hal_posix.c:531) answers by the difference to the clock,
\* which tells before from after within half its range.
LEMMA KeysAreHeld ==
  ASSUME NoWrap, Counts, Sources(hal), KeyInv
  PROVE  KeysHeld
<1>1. /\ TimeMod \in Nat /\ TimeMod >= 2 /\ HoldMs \in Nat /\ MaxMs \in Nat /\ HoldMs > 0
  BY HalfIs, ConsoleInputAssumption DEF ConsoleInputAssumption
<1>2. clock \in 0..(TimeMod - 1) /\ elapsed \in 0..MaxMs
  BY DEF Counts
<1> DEFINE half == TimeMod \div 2
<1>3. /\ half \in Nat /\ 2 * half <= TimeMod /\ TimeMod <= 2 * half + 1
      /\ HoldMs + 1 < half /\ MaxMs <= half
  BY HalfIs DEF NoWrap
<1> HIDE DEF half
<1>4. ASSUME NEW key \in Keys
      PROVE  /\ key \in KeysDown(hal) => pressed[key] # -1 /\ Since(key) <= HoldMs
             /\ pressed[key] # -1 /\ Since(key) < HoldMs => key \in KeysDown(hal)
  <2> DEFINE u == hal.until[key]
             p == pressed[key]
             d == (u - clock) % TimeMod
  <2>1. TimeIs(u, p, clock, elapsed)
    BY KeyInvIs
  <2>2. u \in 0..(TimeMod - 1) /\ p \in -1..MaxMs
    BY DEF Sources, Hals, Counts
  <2>3. key \in KeysDown(hal) <=> u # 0 /\ d > 0 /\ d < half
    BY DEF KeysDown, Later, half
  <2> HIDE DEF u, p
  <2>4. CASE p = -1
    <3>1. u = 0
      BY <2>1, <2>4 DEF TimeIs
    <3> QED BY <2>3, <2>4, <3>1 DEF p
  <2>5. CASE p # -1
    <3> DEFINE since == elapsed - p
    <3>1. p <= elapsed /\ u # 0 /\ since \in 0..MaxMs
      <4>1. p <= elapsed /\ u # 0
        BY <2>1, <2>5 DEF TimeIs
      <4> QED BY <1>1, <1>2, <2>2, <2>5, <4>1
    <3>2. PICK e \in {0, 1} :
            u \in {(((clock + HoldMs) - since) + e) - TimeMod,
                   ((clock + HoldMs) - since) + e,
                   (((clock + HoldMs) - since) + e) + TimeMod}
      <4>2. PICK end \in {clock + HoldMs - (elapsed - p), clock + HoldMs - (elapsed - p) + 1} :
              u \in {end - TimeMod, end, end + TimeMod}
        BY <2>1, <2>5 DEF TimeIs
      <4>3. CASE end = clock + HoldMs - (elapsed - p)
        BY <1>1, <1>2, <2>2, <3>1, <4>2, <4>3
      <4>4. CASE end = clock + HoldMs - (elapsed - p) + 1
        BY <1>1, <1>2, <2>2, <3>1, <4>2, <4>4
      <4> QED BY <4>2, <4>3, <4>4
    <3>3. Since(key) = since
      BY DEF Since, p
    <3> HIDE DEF since
    <3> DEFINE left == (HoldMs - since) + e
               m == IF left >= 0 THEN left ELSE left + TimeMod
               x == u - clock
    <3>4. m \in 0..(TimeMod - 1) /\ (m > 0 /\ m < half <=> left > 0)
      BY <1>1, <1>3, <3>1, <3>2
    <3>5. x \in {left - TimeMod, left, left + TimeMod} /\ x \in (1 - TimeMod)..(TimeMod - 1)
      BY <1>1, <1>2, <2>2, <3>1, <3>2
    <3>6. x \in {m - TimeMod, m, m + TimeMod}
      <4>1. left \in (1 - TimeMod)..(TimeMod - 1)
        BY <1>1, <1>3, <3>1, <3>2
      <4> HIDE DEF left, x
      <4> QED BY <1>1, <3>5, <4>1
    <3>7. d = m
      <4> HIDE DEF m, x, left
      <4>1. x % TimeMod = m
        BY <1>1, <3>4, <3>6, ModIs
      <4> QED BY <4>1 DEF x
    <3>8. key \in KeysDown(hal) <=> left > 0
      <4> HIDE DEF m, d, left
      <4> QED BY <2>3, <3>1, <3>4, <3>7
    <3>9. (left > 0 => since <= HoldMs) /\ (since < HoldMs => left > 0)
      BY <1>1, <3>1, <3>2
    <3> HIDE DEF left
    <3> QED BY <2>5, <3>3, <3>8, <3>9 DEF p
  <2> QED BY <2>4, <2>5
<1> QED BY <1>4 DEF KeysHeld

\* A key reads as down for HoldMs after it was pressed and as up after that, wherever the clock
\* starts and when it wraps between (hal_posix.c:522-536; docs/architecture.md:218), within half
\* the range of the clock.  Past that it does not: a time is never cleared.
THEOREM KeysStayHeld ==
  ASSUME NoWrap
  PROVE  Spec => []KeysHeld
<1>1. Init => KeyInv
  BY DEF Init, InputInit, KeyInv, KeyTime, Initial
<1>2. Init => InputInv
  BY InputInvInit
<1>3. InputInv /\ KeyInv /\ [Next]_<<inputVars, outputVars>> => (InputInv /\ KeyInv)'
  BY InputInvNext, KeyInvNext
<1>4. InputInv /\ KeyInv => KeysHeld
  BY KeysAreHeld DEF InputInv
<1> QED BY <1>1, <1>2, <1>3, <1>4, PTL DEF Spec

---------------------------------------------------------------------------
(* Where printed bytes go.  First the two ends of a sequence.              *)

Newest(s, c) == IF Len(s) <= c THEN s ELSE SubSeq(s, (Len(s) - c) + 1, Len(s))
Oldest(s, c) == IF Len(s) <= c THEN s ELSE SubSeq(s, 1, c)

\* The newest elements are the last ones, up to c of them.
LEMMA NewestIs ==
  ASSUME NEW X, NEW s \in Seq(X), NEW c \in Nat
  PROVE  /\ Newest(s, c) \in Seq(X)
         /\ Len(Newest(s, c)) = IF Len(s) <= c THEN Len(s) ELSE c
         /\ \A i \in 1..Len(Newest(s, c)) : Newest(s, c)[i] = s[(Len(s) - Len(Newest(s, c))) + i]
<1> DEFINE n == Len(s)
           m == (n - c) + 1
           u == SubSeq(s, m, n)
<1>1. n \in Nat /\ \A i \in 1..n : s[i] \in X
  OBVIOUS
<1>2. CASE n <= c
  BY <1>1, <1>2 DEF Newest
<1>3. CASE ~(n <= c)
  <2>1. Newest(s, c) = u
    BY <1>3 DEF Newest
  <2> HIDE DEF n
  <2>2. m \in Int /\ n \in Int /\ \A i \in m..n : s[i] \in X
    BY <1>1, <1>3
  <2>3. u \in Seq(X) /\ Len(u) = (IF m <= n THEN (n - m) + 1 ELSE 0) /\ \A i \in 1..((n - m) + 1) : u[i] = s[(m + i) - 1]
    <3> HIDE DEF m
    <3> QED BY <2>2, SubSeqProperties
  <2>4. Len(u) = c
    <3> HIDE DEF u
    <3> QED BY <1>1, <1>3, <2>3
  <2>5. \A i \in 1..c : u[i] = s[(n - c) + i]
    <3>1. (n - m) + 1 = c /\ \A i \in 1..c : (m + i) - 1 = (n - c) + i
      BY <1>1
    <3> HIDE DEF u, m
    <3> QED BY <2>3, <3>1
  <2> HIDE DEF u
  <2> QED BY <1>3, <2>1, <2>3, <2>4, <2>5 DEF n
<1> QED BY <1>2, <1>3

\* A ring of c elements that drops its oldest keeps the newest.
LEMMA NewestAppend ==
  ASSUME NEW X, NEW s \in Seq(X), NEW c \in Nat \ {0}, NEW b \in X
  PROVE  Newest(Append(s, b), c)
           = Append(IF Len(Newest(s, c)) < c THEN Newest(s, c) ELSE Tail(Newest(s, c)), b)
<1> DEFINE t == Append(s, b)
           r == Newest(s, c)
           q == Newest(t, c)
           k == IF Len(r) < c THEN r ELSE Tail(r)
           u == Append(k, b)
<1>1. Len(s) \in Nat /\ c \in Nat
  OBVIOUS
<1>2. t \in Seq(X) /\ Len(t) = Len(s) + 1 /\ t[Len(s) + 1] = b /\ \A i \in 1..Len(s) : t[i] = s[i]
  BY AppendProperties
<1>3. /\ r \in Seq(X) /\ Len(r) = IF Len(s) <= c THEN Len(s) ELSE c
      /\ \A i \in 1..Len(r) : r[i] = s[(Len(s) - Len(r)) + i]
  BY NewestIs
<1> HIDE DEF t
<1>4. /\ q \in Seq(X) /\ Len(q) = IF Len(t) <= c THEN Len(t) ELSE c
      /\ \A i \in 1..Len(q) : q[i] = t[(Len(t) - Len(q)) + i]
  <2>1. t \in Seq(X)
    BY <1>2
  <2> QED BY <1>1, <2>1, NewestIs, Zenon
<1> HIDE DEF q, r
<1>5. CASE Len(r) < c
  <2>1. k = r /\ Len(s) <= c /\ Len(r) = Len(s)
    BY <1>1, <1>3, <1>5
  <2>2. u \in Seq(X) /\ Len(u) = Len(r) + 1 /\ u[Len(r) + 1] = b /\ \A i \in 1..Len(r) : u[i] = r[i]
    BY <1>3, <2>1, AppendProperties
  <2> HIDE DEF u
  <2>3. Len(q) = Len(u) /\ \A i \in 1..Len(q) : q[i] = u[i]
    <3>0. Len(s) < c
      BY <1>5, <2>1
    <3>4. Len(q) = Len(s) + 1
      BY <1>1, <1>2, <1>4, <3>0
    <3>1. Len(q) = Len(s) + 1 /\ \A i \in 1..(Len(s) + 1) : q[i] = t[i]
      <4>1. Len(t) - Len(q) = 0 /\ \A i \in 1..(Len(s) + 1) : 0 + i = i
        BY <1>1, <1>2, <3>4
      <4> QED BY <1>4, <3>4, <4>1
    <3> QED BY <1>1, <1>2, <1>3, <2>1, <2>2, <3>1
  <2> QED BY <1>4, <2>2, <2>3, SeqEqual DEF q, u, t, r
<1>6. CASE ~(Len(r) < c)
  <2>1. k = Tail(r) /\ Len(r) = c /\ c <= Len(s) /\ r # << >>
    <3>1. Len(r) > 0
      BY <1>1, <1>3, <1>6
    <3>2. r # << >>
      BY <3>1
    <3> QED BY <1>1, <1>3, <1>6, <3>2
  <2>2. k \in Seq(X) /\ Len(k) = c - 1 /\ \A i \in 1..(c - 1) : k[i] = r[i + 1]
    BY <1>3, <2>1, HeadTailProperties
  <2> HIDE DEF k
  <2>3. u \in Seq(X) /\ Len(u) = Len(k) + 1 /\ u[Len(k) + 1] = b /\ \A i \in 1..Len(k) : u[i] = k[i]
    BY <2>2, AppendProperties
  <2> HIDE DEF u
  <2>4. Len(q) = c /\ Len(u) = c
    BY <1>1, <1>2, <1>4, <2>1, <2>2, <2>3
  <2>5. ASSUME NEW i \in 1..c PROVE q[i] = u[i]
    <3>1. q[i] = t[((Len(s) + 1) - c) + i]
      BY <1>2, <1>4, <2>4
    <3>2. CASE i = c
      <4>1. ((Len(s) + 1) - c) + i = Len(s) + 1 /\ i = Len(k) + 1
        BY <1>1, <2>2, <3>2
      <4> QED BY <1>2, <2>3, <3>1, <4>1
    <3>3. CASE i # c
      <4>1. i \in 1..(c - 1) /\ i + 1 \in 1..c /\ ((Len(s) + 1) - c) + i \in 1..Len(s)
            /\ ((Len(s) + 1) - c) + i = (Len(s) - c) + (i + 1)
        BY <1>1, <2>1, <3>3
      <4>2. u[i] = r[i + 1] /\ r[i + 1] = s[(Len(s) - c) + (i + 1)]
        BY <1>3, <2>1, <2>2, <2>3, <4>1
      <4>3. q[i] = s[((Len(s) + 1) - c) + i]
        BY <1>2, <3>1, <4>1
      <4> QED BY <4>1, <4>2, <4>3
    <3> QED BY <3>2, <3>3
  <2> QED BY <1>4, <2>3, <2>4, <2>5, SeqEqual DEF q, u, t, r, k
<1> QED BY <1>5, <1>6

\* The oldest elements are the first ones, up to c of them.
LEMMA OldestIs ==
  ASSUME NEW X, NEW s \in Seq(X), NEW c \in Nat
  PROVE  /\ Oldest(s, c) \in Seq(X)
         /\ Len(Oldest(s, c)) = IF Len(s) <= c THEN Len(s) ELSE c
         /\ \A i \in 1..Len(Oldest(s, c)) : Oldest(s, c)[i] = s[i]
<1>1. Len(s) \in Nat /\ c \in Nat
  OBVIOUS
<1>2. CASE Len(s) <= c
  BY <1>1, <1>2 DEF Oldest
<1>3. CASE ~(Len(s) <= c)
  <2>1. \A i \in 1..c : s[i] \in X
    BY <1>1, <1>3
  <2>2. /\ SubSeq(s, 1, c) \in Seq(X) /\ Len(SubSeq(s, 1, c)) = c
        /\ \A i \in 1..c : SubSeq(s, 1, c)[i] = s[i]
    BY <1>1, <1>3, <2>1
  <2> QED BY <1>3, <2>2 DEF Oldest
<1> QED BY <1>2, <1>3

\* A buffer of c elements that takes no more keeps the oldest.
LEMMA OldestAppend ==
  ASSUME NEW X, NEW s \in Seq(X), NEW c \in Nat, NEW b \in X
  PROVE  Oldest(Append(s, b), c)
           = IF Len(Oldest(s, c)) < c THEN Append(Oldest(s, c), b) ELSE Oldest(s, c)
<1> DEFINE t == Append(s, b)
           r == Oldest(s, c)
           q == Oldest(t, c)
           u == IF Len(r) < c THEN Append(r, b) ELSE r
<1>1. Len(s) \in Nat /\ c \in Nat
  OBVIOUS
<1>2. t \in Seq(X) /\ Len(t) = Len(s) + 1 /\ t[Len(s) + 1] = b /\ \A i \in 1..Len(s) : t[i] = s[i]
  BY AppendProperties
<1>3. /\ r \in Seq(X) /\ Len(r) = (IF Len(s) <= c THEN Len(s) ELSE c)
      /\ \A i \in 1..Len(r) : r[i] = s[i]
  BY OldestIs
<1> HIDE DEF t
<1>4. /\ q \in Seq(X) /\ Len(q) = (IF Len(t) <= c THEN Len(t) ELSE c)
      /\ \A i \in 1..Len(q) : q[i] = t[i]
  BY <1>2, OldestIs
<1> HIDE DEF q, r
<1>5. CASE Len(r) < c
  <2>1. Len(s) <= c /\ Len(r) = Len(s) /\ u = Append(r, b)
    BY <1>1, <1>3, <1>5
  <2>2. u \in Seq(X) /\ Len(u) = Len(r) + 1 /\ u[Len(r) + 1] = b /\ \A i \in 1..Len(r) : u[i] = r[i]
    BY <1>3, <2>1, AppendProperties
  <2> HIDE DEF u
  <2>3. Len(q) = Len(u) /\ \A i \in 1..Len(q) : q[i] = u[i]
    <3>1. Len(s) < c
      BY <1>5, <2>1
    <3>2. Len(q) = Len(s) + 1
      BY <1>1, <1>2, <1>4, <3>1
    <3>3. Len(u) = Len(s) + 1
      BY <2>1, <2>2
    <3> QED BY <1>1, <1>2, <1>3, <1>4, <2>1, <2>2, <3>2, <3>3
  <2> QED BY <1>4, <2>2, <2>3, SeqEqual DEF q, u, t, r
<1>6. CASE ~(Len(r) < c)
  <2>1. u = r /\ Len(r) = c /\ c <= Len(s)
    BY <1>1, <1>3, <1>6
  <2>2. Len(q) = c /\ \A i \in 1..c : q[i] = r[i]
    BY <1>1, <1>2, <1>3, <1>4, <2>1
  <2> QED BY <1>3, <1>4, <2>1, <2>2, SeqEqual DEF q, u, t, r
<1> QED BY <1>5, <1>6

\* The part of a sequence that has been gone through.
LEMMA PrefixIs ==
  ASSUME NEW X, NEW s \in Seq(X), NEW n \in 0..(Len(s) - 1)
  PROVE  /\ SubSeq(s, 1, n) \in Seq(X) /\ s[n + 1] \in X
         /\ SubSeq(s, 1, n + 1) = Append(SubSeq(s, 1, n), s[n + 1])
<1>1. Len(s) \in Nat /\ n \in Nat /\ n + 1 \in 1..Len(s) /\ n <= Len(s)
  OBVIOUS
<1>2. s[n + 1] \in X /\ \A i \in 1..(n + 1) : s[i] \in X
  BY <1>1
<1>3. /\ SubSeq(s, 1, n) \in Seq(X) /\ Len(SubSeq(s, 1, n)) = n
      /\ \A i \in 1..n : SubSeq(s, 1, n)[i] = s[i]
  BY <1>1, <1>2
<1>4. /\ SubSeq(s, 1, n + 1) \in Seq(X) /\ Len(SubSeq(s, 1, n + 1)) = n + 1
      /\ \A i \in 1..(n + 1) : SubSeq(s, 1, n + 1)[i] = s[i]
  BY <1>1, <1>2
<1> DEFINE p == SubSeq(s, 1, n)
           t == SubSeq(s, 1, n + 1)
           u == Append(p, s[n + 1])
<1>5. u \in Seq(X) /\ Len(u) = n + 1 /\ u[n + 1] = s[n + 1] /\ \A i \in 1..n : u[i] = p[i]
  <2> HIDE DEF p
  <2>1. p \in Seq(X) /\ Len(p) = n
    BY <1>3 DEF p
  <2> QED BY <1>2, <2>1, AppendProperties
<1> HIDE DEF p, t, u
<1>6. \A i \in 1..(n + 1) : t[i] = u[i]
  BY <1>1, <1>3, <1>4, <1>5 DEF p, t
<1>7. t = u
  BY <1>4, <1>5, <1>6, SeqEqual DEF t
<1> QED BY <1>2, <1>3, <1>7 DEF p, t, u

\* The shortest and the longest prefix.
LEMMA PrefixEnds ==
  ASSUME NEW X, NEW s \in Seq(X)
  PROVE  SubSeq(s, 1, 0) = << >> /\ SubSeq(s, 1, Len(s)) = s
  BY SubSeqEmpty, SubSeqFull

\* What is appended last goes behind what was concatenated.
LEMMA ConcatAppend ==
  ASSUME NEW X, NEW s \in Seq(X), NEW t \in Seq(X), NEW b \in X
  PROVE  s \o Append(t, b) = Append(s \o t, b)
<1>1. <<b>> \in Seq(X) /\ s \o t \in Seq(X)
  BY ConcatProperties
<1>2. Append(t, b) = t \o <<b>> /\ Append(s \o t, b) = (s \o t) \o <<b>>
  BY <1>1, AppendIsConcat
<1>3. (s \o t) \o <<b>> = s \o (t \o <<b>>)
  BY <1>1, ConcatAssociative
<1> QED BY <1>2, <1>3

\* What is inside a sequence is inside what that is inside of.
LEMMA InsideTrans ==
  ASSUME NEW X, NEW s \in Seq(X), NEW t \in Seq(X), NEW u \in Seq(X), Inside(u, t), Inside(t, s)
  PROVE  Inside(u, s)
<1>1. PICK d : /\ d \in [1..Len(u) -> 1..Len(t)] /\ \A i, j \in 1..Len(u) : i < j => d[i] < d[j]
               /\ \A i \in 1..Len(u) : t[d[i]] = u[i]
  BY DEF Inside, Places
<1>2. PICK e : /\ e \in [1..Len(t) -> 1..Len(s)] /\ \A i, j \in 1..Len(t) : i < j => e[i] < e[j]
               /\ \A i \in 1..Len(t) : s[e[i]] = t[i]
  BY DEF Inside, Places
<1> DEFINE f == [i \in 1..Len(u) |-> e[d[i]]]
<1>3. f \in [1..Len(u) -> 1..Len(s)] /\ \A i \in 1..Len(u) : s[f[i]] = u[i]
  BY <1>1, <1>2
<1>4. \A i, j \in 1..Len(u) : i < j => f[i] < f[j]
  BY <1>1, <1>2
<1> HIDE DEF f
<1>5. Places(f, u, s)
  BY <1>3, <1>4 DEF Places
<1> QED BY <1>5 DEF Inside

\* The same in front of both.
LEMMA InsideFront ==
  ASSUME NEW X, NEW s \in Seq(X), NEW t \in Seq(X), Inside(t, s), NEW u \in Seq(X)
  PROVE  Inside(u \o t, u \o s)
<1>1. PICK e : /\ e \in [1..Len(t) -> 1..Len(s)] /\ \A i, j \in 1..Len(t) : i < j => e[i] < e[j]
               /\ \A i \in 1..Len(t) : s[e[i]] = t[i]
  BY DEF Inside, Places
<1> DEFINE l == Len(s)
           k == Len(t)
           n == Len(u)
           d == [i \in 1..(n + k) |-> IF i <= n THEN i ELSE e[i - n] + n]
<1>2. l \in Nat /\ k \in Nat /\ n \in Nat
  OBVIOUS
<1>3. /\ u \o t \in Seq(X) /\ Len(u \o t) = n + k
      /\ \A i \in 1..(n + k) : (u \o t)[i] = IF i <= n THEN u[i] ELSE t[i - n]
  BY ConcatProperties
<1>4. /\ u \o s \in Seq(X) /\ Len(u \o s) = n + l
      /\ \A i \in 1..(n + l) : (u \o s)[i] = IF i <= n THEN u[i] ELSE s[i - n]
  BY ConcatProperties
<1>5. /\ e \in [1..k -> 1..l] /\ \A i, j \in 1..k : i < j => e[i] < e[j]
      /\ \A i \in 1..k : s[e[i]] = t[i]
  BY <1>1
<1> HIDE DEF l, k, n
<1>6. ASSUME NEW i \in 1..(n + k)
      PROVE  d[i] \in 1..(n + l) /\ (u \o s)[d[i]] = (u \o t)[i]
  <2>1. CASE i <= n
    <3>1. d[i] = i /\ i \in 1..(n + l)
      BY <1>2, <2>1
    <3> QED BY <1>3, <1>4, <2>1, <3>1
  <2>2. CASE ~(i <= n)
    <3>1. d[i] = e[i - n] + n /\ i - n \in 1..k
      BY <1>2, <2>2
    <3>2. e[i - n] \in 1..l /\ s[e[i - n]] = t[i - n]
      BY <1>5, <3>1
    <3> HIDE DEF d
    <3>3. d[i] \in 1..(n + l) /\ ~(d[i] <= n) /\ d[i] - n = e[i - n]
      <4> DEFINE c == e[i - n]
      <4>1. c \in 1..l /\ d[i] = c + n /\ n \in Nat /\ l \in Nat
        BY <1>2, <3>1, <3>2
      <4> HIDE DEF c
      <4>2. c + n \in 1..(n + l) /\ ~(c + n <= n) /\ (c + n) - n = c
        BY <4>1
      <4> QED BY <4>1, <4>2 DEF c
    <3>4. (u \o s)[d[i]] = s[e[i - n]]
      BY <1>4, <3>3
    <3> QED BY <1>3, <2>2, <3>2, <3>3, <3>4
  <2> QED BY <2>1, <2>2
<1>7. ASSUME NEW i \in 1..(n + k), NEW j \in 1..(n + k), i < j PROVE d[i] < d[j]
  <2>1. CASE j <= n
    BY <1>2, <1>7, <2>1
  <2>2. CASE ~(j <= n) /\ i <= n
    <3>1. d[i] = i /\ d[j] = e[j - n] + n /\ j - n \in 1..k
      BY <1>2, <2>2
    <3>2. e[j - n] \in 1..l
      BY <1>5, <3>1
    <3> HIDE DEF d
    <3> QED BY <1>2, <2>2, <3>1, <3>2
  <2>3. CASE ~(j <= n) /\ ~(i <= n)
    <3>1. d[i] = e[i - n] + n /\ d[j] = e[j - n] + n /\ i - n \in 1..k /\ j - n \in 1..k /\ i - n < j - n
      BY <1>2, <1>7, <2>3
    <3>2. e[i - n] < e[j - n] /\ e[i - n] \in 1..l /\ e[j - n] \in 1..l
      BY <1>5, <3>1
    <3> HIDE DEF d
    <3> QED BY <1>2, <3>1, <3>2
  <2> QED BY <2>1, <2>2, <2>3
<1>8. d \in [1..(n + k) -> 1..(n + l)]
  BY <1>6
<1> HIDE DEF d
<1>9. Places(d, u \o t, u \o s)
  BY <1>3, <1>4, <1>6, <1>7, <1>8 DEF Places
<1> QED BY <1>9 DEF Inside

\* The newest elements are inside.
LEMMA InsideNewest ==
  ASSUME NEW X, NEW s \in Seq(X), NEW c \in Nat
  PROVE  Inside(Newest(s, c), s)
<1> DEFINE r == Newest(s, c)
           e == [i \in 1..Len(r) |-> (Len(s) - Len(r)) + i]
<1>1. /\ r \in Seq(X) /\ Len(r) = (IF Len(s) <= c THEN Len(s) ELSE c)
      /\ \A i \in 1..Len(r) : r[i] = s[(Len(s) - Len(r)) + i]
  BY NewestIs
<1>2. Len(s) \in Nat /\ Len(r) \in Nat /\ Len(r) <= Len(s)
  <2> HIDE DEF r
  <2> QED BY <1>1
<1> HIDE DEF r
<1>3. \A i \in 1..Len(r) : (Len(s) - Len(r)) + i \in 1..Len(s)
  BY <1>2
<1>4. e \in [1..Len(r) -> 1..Len(s)]
  BY <1>3
<1>5. \A i, j \in 1..Len(r) : i < j => e[i] < e[j]
  BY <1>2
<1>6. \A i \in 1..Len(r) : s[e[i]] = r[i]
  BY <1>1
<1>7. Places(e, r, s)
  BY <1>4, <1>5, <1>6 DEF Places
<1> HIDE DEF e
<1> QED BY <1>7 DEF Inside, r

\* The oldest elements are inside.
LEMMA InsideOldest ==
  ASSUME NEW X, NEW s \in Seq(X), NEW c \in Nat
  PROVE  Inside(Oldest(s, c), s)
<1> DEFINE r == Oldest(s, c)
<1>1. /\ r \in Seq(X) /\ Len(r) = (IF Len(s) <= c THEN Len(s) ELSE c)
      /\ \A i \in 1..Len(r) : r[i] = s[i]
  BY OldestIs
<1> HIDE DEF r
<1>2. Len(s) \in Nat /\ Len(r) <= Len(s)
  BY <1>1
<1>3. Inside(s, s)
  BY InsideItself
<1> QED BY <1>1, <1>2, <1>3, InsideFewer DEF r

\* Both end with the same element, or both are empty.
Ends(t, s) == IF s = << >> THEN t = << >> ELSE t # << >> /\ t[Len(t)] = s[Len(s)]

\* The same in front of both, or behind both, and they still end alike.
LEMMA EndsConcat ==
  ASSUME NEW X, NEW s \in Seq(X), NEW t \in Seq(X), Ends(t, s), NEW u \in Seq(X)
  PROVE  Ends(u \o t, u \o s) /\ Ends(t \o u, s \o u)
<1>1. /\ Len(s) \in Nat /\ Len(t) \in Nat /\ Len(u) \in Nat
      /\ (s = << >> <=> Len(s) = 0) /\ (t = << >> <=> Len(t) = 0) /\ (u = << >> <=> Len(u) = 0)
  BY EmptySeq
<1>2. \A v, w \in Seq(X) :
        /\ v \o w \in Seq(X) /\ Len(v \o w) = Len(v) + Len(w)
        /\ Len(w) > 0 => (v \o w)[Len(v \o w)] = w[Len(w)]
        /\ v \o << >> = v /\ << >> \o v = v
  <2> SUFFICES ASSUME NEW v \in Seq(X), NEW w \in Seq(X)
               PROVE  /\ v \o w \in Seq(X) /\ Len(v \o w) = Len(v) + Len(w)
                      /\ Len(w) > 0 => (v \o w)[Len(v \o w)] = w[Len(w)]
                      /\ v \o << >> = v /\ << >> \o v = v
    OBVIOUS
  <2>1. Len(v) \in Nat /\ Len(w) \in Nat
    OBVIOUS
  <2>2. /\ v \o w \in Seq(X) /\ Len(v \o w) = Len(v) + Len(w)
        /\ \A i \in 1..(Len(v) + Len(w)) : (v \o w)[i] = IF i <= Len(v) THEN v[i] ELSE w[i - Len(v)]
    BY ConcatProperties
  <2>3. ASSUME Len(w) > 0 PROVE (v \o w)[Len(v) + Len(w)] = w[Len(w)]
    <3>1. /\ Len(v) + Len(w) \in 1..(Len(v) + Len(w)) /\ ~(Len(v) + Len(w) <= Len(v))
          /\ (Len(v) + Len(w)) - Len(v) = Len(w)
      BY <2>1, <2>3
    <3> QED BY <2>2, <3>1
  <2> QED BY <2>2, <2>3, ConcatEmptySeq
<1>3. Ends(u \o t, u \o s)
  <2>1. CASE s = << >>
    <3>1. t = << >>
      BY <2>1 DEF Ends
    <3> QED BY <2>1, <3>1 DEF Ends
  <2>2. CASE s # << >>
    <3>1. t # << >> /\ t[Len(t)] = s[Len(s)] /\ Len(t) > 0 /\ Len(s) > 0
      BY <1>1, <2>2 DEF Ends
    <3>2. Len(u \o t) > 0 /\ Len(u \o s) > 0 /\ Len(<< >>) = 0
      BY <1>1, <1>2, <3>1
    <3>3. (u \o t)[Len(u \o t)] = (u \o s)[Len(u \o s)]
      BY <1>2, <3>1
    <3>4. u \o t # << >>
      BY <3>2
    <3>5. u \o s # << >>
      BY <3>2
    <3> QED BY <3>3, <3>4, <3>5 DEF Ends
  <2> QED BY <2>1, <2>2
<1>4. Ends(t \o u, s \o u)
  <2>1. CASE u = << >>
    <3>1. t \o u = t /\ s \o u = s
      BY <1>2, <2>1
    <3> QED BY <3>1
  <2>2. CASE u # << >>
    <3>1. Len(u) > 0
      BY <1>1, <2>2
    <3>2. Len(t \o u) > 0 /\ Len(s \o u) > 0 /\ Len(<< >>) = 0
      BY <1>1, <1>2, <3>1
    <3>3. (t \o u)[Len(t \o u)] = (s \o u)[Len(s \o u)]
      BY <1>2, <3>1
    <3>4. t \o u # << >>
      BY <3>2
    <3>5. s \o u # << >>
      BY <3>2
    <3> QED BY <3>3, <3>4, <3>5 DEF Ends
  <2> QED BY <2>1, <2>2
<1> QED BY <1>3, <1>4

\* The newest elements end like all of them.
LEMMA EndsNewest ==
  ASSUME NEW X, NEW s \in Seq(X), NEW c \in Nat \ {0}
  PROVE  Ends(Newest(s, c), s)
<1> DEFINE r == Newest(s, c)
<1>1. c \in Nat /\ c > 0 /\ Len(s) \in Nat /\ (s = << >> <=> Len(s) = 0)
  BY EmptySeq
<1>2. /\ r \in Seq(X) /\ Len(r) = (IF Len(s) <= c THEN Len(s) ELSE c)
      /\ \A i \in 1..Len(r) : r[i] = s[(Len(s) - Len(r)) + i]
  BY <1>1, NewestIs
<1> HIDE DEF r
<1>3. r = << >> <=> Len(r) = 0
  BY <1>2, EmptySeq
<1>4. CASE s = << >>
  BY <1>1, <1>2, <1>3, <1>4 DEF Ends, r
<1>5. CASE s # << >>
  <2>1. Len(r) > 0 /\ Len(r) \in 1..Len(r) /\ (Len(s) - Len(r)) + Len(r) = Len(s)
    BY <1>1, <1>2, <1>5
  <2>2. r[Len(r)] = s[Len(s)]
    BY <1>2, <2>1
  <2>3. r # << >>
    BY <1>3, <2>1
  <2> QED BY <1>5, <2>2, <2>3 DEF Ends, r
<1> QED BY <1>4, <1>5

---------------------------------------------------------------------------
(* Printed bytes on their way.                                             *)

\* A byte is known by its step and its number; Effects are the values of Here and what steps make of it.
Printed == Nat \X Nat
Effects == [bios : Seq(Printed), ring : Seq(Printed), pending : Seq(Printed), stdout : Seq(Printed)]

\* What is in front of the same bytes is the same.
LEMMA SameFront ==
  ASSUME NEW s \in Seq(Printed), NEW t \in Seq(Printed), NEW u \in Seq(Printed), s \o u = t \o u
  PROVE  s = t
<1>1. Len(s) \in Nat /\ Len(t) \in Nat /\ Len(u) \in Nat
  OBVIOUS
<1>2. Len(s \o u) = Len(s) + Len(u) /\ Len(t \o u) = Len(t) + Len(u)
  OBVIOUS
<1>3. Len(s) = Len(t)
  <2> DEFINE x == s \o u
             y == t \o u
  <2>1. Len(x) = Len(s) + Len(u) /\ Len(y) = Len(t) + Len(u) /\ x = y
    BY <1>2
  <2> HIDE DEF x, y
  <2> QED BY <1>1, <2>1
<1>4. \A i \in 1..Len(s) : s[i] = (s \o u)[i] /\ t[i] = (t \o u)[i]
  BY <1>1, <1>3
<1> QED BY <1>3, <1>4, SeqEqual

\* Output is known by its four parts.
LEMMA SameEffects ==
  \A x, y \in Effects :
    x.bios = y.bios /\ x.ring = y.ring /\ x.pending = y.pending /\ x.stdout = y.stdout => x = y
<1> SUFFICES ASSUME NEW x \in Effects, NEW y \in Effects, x.bios = y.bios, x.ring = y.ring,
                    x.pending = y.pending, x.stdout = y.stdout
             PROVE  x = y
  OBVIOUS
<1>1. x = [x EXCEPT !.bios = y.bios]
  BY DEF Effects
<1>2. y = [x EXCEPT !.bios = y.bios]
  BY DEF Effects
<1> QED BY <1>1, <1>2

\* The capacities are counts.
LEMMA Capacities == BiosCap \in Nat \ {0} /\ ApiCap \in Nat \ {0} /\ Interval \in Nat \ {0}
  BY ConsoleOutputAssumption

\* What the library says of sequences, for printed bytes.
LEMMA PrintedConcat ==
  /\ << >> \in Seq(Printed) /\ \A b \in Printed : <<b>> \in Seq(Printed)
  /\ \A s \in Seq(Printed) : s \o << >> = s /\ << >> \o s = s /\ Len(s) \in Nat
  /\ \A s, t \in Seq(Printed) : s \o t \in Seq(Printed) /\ Len(s \o t) = Len(s) + Len(t)
  /\ \A s, t, u \in Seq(Printed) : (s \o t) \o u = s \o (t \o u)
  /\ \A s, t \in Seq(Printed), b \in Printed : s \o Append(t, b) = Append(s \o t, b)
<1>1. << >> \in Seq(Printed) /\ \A b \in Printed : <<b>> \in Seq(Printed)
  OBVIOUS
<1>2. \A s \in Seq(Printed) : s \o << >> = s /\ << >> \o s = s /\ Len(s) \in Nat
  BY ConcatEmptySeq, LenProperties
<1>3. \A s, t \in Seq(Printed) : s \o t \in Seq(Printed) /\ Len(s \o t) = Len(s) + Len(t)
  BY ConcatProperties
<1>4. \A s, t, u \in Seq(Printed) : (s \o t) \o u = s \o (t \o u)
  OBVIOUS
<1>5. \A s, t \in Seq(Printed), b \in Printed : s \o Append(t, b) = Append(s \o t, b)
  <2> TAKE s \in Seq(Printed), t \in Seq(Printed), b \in Printed
  <2>1. Append(t, b) = t \o <<b>> /\ Append(s \o t, b) = (s \o t) \o <<b>>
    BY <1>3, AppendIsConcat
  <2> QED BY <1>1, <1>4, <2>1
<1> QED BY <1>1, <1>2, <1>3, <1>4, <1>5

\* The two ends of what was printed, one byte later.
LEMMA PrintedEnds ==
  \A s \in Seq(Printed), b \in Printed, c \in Nat \ {0} :
    /\ Newest(s, c) \in Seq(Printed) /\ Oldest(s, c) \in Seq(Printed)
    /\ Newest(Append(s, b), c)
         = Append(IF Len(Newest(s, c)) < c THEN Newest(s, c) ELSE Tail(Newest(s, c)), b)
    /\ Oldest(Append(s, b), c)
         = IF Len(Oldest(s, c)) < c THEN Append(Oldest(s, c), b) ELSE Oldest(s, c)
<1> TAKE s \in Seq(Printed), b \in Printed, c \in Nat \ {0}
<1>1. c \in Nat
  OBVIOUS
<1>2. Newest(s, c) \in Seq(Printed) /\ Oldest(s, c) \in Seq(Printed)
  BY <1>1, NewestIs, OldestIs, Zenon
<1>3. Newest(Append(s, b), c)
         = Append(IF Len(Newest(s, c)) < c THEN Newest(s, c) ELSE Tail(Newest(s, c)), b)
  BY NewestAppend, Zenon
<1>4. Oldest(Append(s, b), c)
         = IF Len(Oldest(s, c)) < c THEN Append(Oldest(s, c), b) ELSE Oldest(s, c)
  BY <1>1, OldestAppend, Zenon
<1> QED BY <1>2, <1>3, <1>4

\* One byte into the ring of the BIOS: it is behind what was printed, and nothing is lost.
LEMMA OutByte ==
  ASSUME NEW e \in Effects, NEW b \in Printed
  PROVE  LET k == IF Len(e.bios) < BiosCap THEN e.bios ELSE Tail(e.bios)
             r == out_byte(e, b)
         IN  /\ r \in Effects /\ r.bios = Append(k, b)
             /\ r.stdout \o r.bios = Append(e.stdout \o e.bios, b)
             /\ r.ring = e.ring /\ r.pending = e.pending
<1>1. BiosCap \in Nat \ {0} /\ e.bios \in Seq(Printed) /\ e.stdout \in Seq(Printed) /\ Len(e.bios) \in Nat
  BY Capacities DEF Effects
<1>2. CASE Len(e.bios) < BiosCap
  <2>1. out_byte(e, b) = [e EXCEPT !.bios = Append(@, b)]
    BY <1>2 DEF out_byte
  <2>2. Append(e.bios, b) \in Seq(Printed)
    BY <1>1, AppendProperties
  <2>3. /\ out_byte(e, b) \in Effects /\ out_byte(e, b).bios = Append(e.bios, b)
        /\ out_byte(e, b).stdout = e.stdout /\ out_byte(e, b).ring = e.ring
        /\ out_byte(e, b).pending = e.pending
    BY <2>1, <2>2 DEF Effects
  <2>4. e.stdout \o Append(e.bios, b) = Append(e.stdout \o e.bios, b)
    BY <1>1, PrintedConcat
  <2> QED BY <1>2, <2>3, <2>4
<1>3. CASE ~(Len(e.bios) < BiosCap)
  <2> DEFINE h == Head(e.bios)
             t == Tail(e.bios)
  <2>1. out_byte(e, b) = [[e EXCEPT !.stdout = Append(@, h)] EXCEPT !.bios = Append(Tail(@), b)]
    BY <1>3 DEF out_byte, ToHal
  <2>2. e.bios # << >>
    <3>1. Len(e.bios) > 0
      BY <1>1, <1>3
    <3> QED BY <3>1
  <2>3. h \in Printed /\ t \in Seq(Printed) /\ <<h>> \in Seq(Printed) /\ e.bios = <<h>> \o t
    <3>1. h \in Printed /\ t \in Seq(Printed) /\ <<h>> \o t = e.bios
      BY <1>1, <2>2
    <3> QED BY <3>1
  <2>4. Append(t, b) \in Seq(Printed) /\ Append(e.stdout, h) \in Seq(Printed)
    BY <1>1, <2>3, AppendProperties
  <2> HIDE DEF h
  <2>5. /\ out_byte(e, b) \in Effects /\ out_byte(e, b).bios = Append(t, b)
        /\ out_byte(e, b).stdout = Append(e.stdout, h) /\ out_byte(e, b).ring = e.ring
        /\ out_byte(e, b).pending = e.pending
    BY <2>1, <2>4 DEF Effects
  <2> HIDE DEF t
  <2>6. Append(e.stdout, h) = e.stdout \o <<h>>
    BY <1>1, <2>3, AppendIsConcat
  <2>7. (e.stdout \o <<h>>) \o Append(t, b) = Append((e.stdout \o <<h>>) \o t, b)
    <3>1. e.stdout \o <<h>> \in Seq(Printed)
      BY <1>1, <2>3, ConcatProperties
    <3> QED BY <2>3, <3>1, PrintedConcat
  <2>8. (e.stdout \o <<h>>) \o t = e.stdout \o e.bios
    <3>1. (e.stdout \o <<h>>) \o t = e.stdout \o (<<h>> \o t)
      <4>1. e.stdout \in Seq(Printed) /\ <<h>> \in Seq(Printed) /\ t \in Seq(Printed)
        BY <1>1, <2>3
      <4> QED BY <4>1, PrintedConcat
    <3> QED BY <2>3, <3>1
  <2> QED BY <1>3, <2>5, <2>6, <2>7, <2>8 DEF t
<1> QED BY <1>2, <1>3

\* The bytes of a step into an empty ring of the BIOS.
LEMMA OutBytes ==
  ASSUME NEW e \in Effects, e.bios = << >>, NEW s \in Seq(Printed)
  PROVE  LET r == out_bytes(e, s)
         IN  /\ r \in Effects /\ r.bios = Newest(s, BiosCap) /\ r.stdout \o r.bios = e.stdout \o s
             /\ r.ring = e.ring /\ r.pending = e.pending
<1> DEFINE N == Len(s)
           p(i) == SubSeq(s, 1, i)
           G == [i \in 0..N |-> {x \in Effects : /\ x.bios = Newest(p(i), BiosCap)
                                                 /\ x.stdout \o x.bios = e.stdout \o p(i)
                                                 /\ x.ring = e.ring /\ x.pending = e.pending}]
           step == [i \in 1..N |-> [x \in Effects |-> out_byte(x, s[i])]]
           after[i \in 0..N] == IF i = 0 THEN e ELSE out_byte(after[i - 1], s[i])
<1>1. N \in Nat /\ BiosCap \in Nat \ {0} /\ e.stdout \in Seq(Printed)
  BY Capacities DEF Effects
<1>2. out_bytes(e, s) = after[N]
  BY DEF out_bytes
<1>3. p(N) = s /\ p(0) = << >>
  BY PrefixEnds
<1>4. \A n \in 1..N : /\ p(n - 1) \in Seq(Printed) /\ s[n] \in Printed
                      /\ p(n) = Append(p(n - 1), s[n])
  <2> SUFFICES ASSUME NEW n \in 1..N
               PROVE  p(n - 1) \in Seq(Printed) /\ s[n] \in Printed /\ p(n) = Append(p(n - 1), s[n])
    OBVIOUS
  <2>1. n - 1 \in 0..(Len(s) - 1) /\ (n - 1) + 1 = n
    BY <1>1
  <2> QED BY <2>1, PrefixIs
<1> HIDE DEF p, N, after
<1>5. e \in G[0]
  <2>1. 0 \in 0..N /\ Newest(<< >>, BiosCap) = << >>
    BY <1>1 DEF Newest
  <2> QED BY <1>3, <2>1
<1>6. ASSUME NEW n \in 1..N, NEW x \in G[n - 1] PROVE step[n][x] \in G[n]
  <2>0. n - 1 \in 0..N /\ n \in 0..N
    BY <1>1
  <2>1. /\ x \in Effects /\ x.bios = Newest(p(n - 1), BiosCap)
        /\ x.stdout \o x.bios = e.stdout \o p(n - 1) /\ x.ring = e.ring /\ x.pending = e.pending
    BY <1>6, <2>0
  <2> DEFINE y == out_byte(x, s[n])
  <2>2. /\ y \in Effects /\ y.bios = Append(IF Len(x.bios) < BiosCap THEN x.bios ELSE Tail(x.bios), s[n])
        /\ y.stdout \o y.bios = Append(x.stdout \o x.bios, s[n])
        /\ y.ring = x.ring /\ y.pending = x.pending
    BY <1>4, <2>1, OutByte
  <2> HIDE DEF y
  <2>3. y.bios = Newest(p(n), BiosCap)
    <3>1. Newest(Append(p(n - 1), s[n]), BiosCap)
            = Append(IF Len(Newest(p(n - 1), BiosCap)) < BiosCap THEN Newest(p(n - 1), BiosCap)
                     ELSE Tail(Newest(p(n - 1), BiosCap)), s[n])
      BY <1>1, <1>4, PrintedEnds, Zenon
    <3> QED BY <1>4, <2>1, <2>2, <3>1, Zenon
  <2>4. y.stdout \o y.bios = e.stdout \o p(n)
    <3>1. e.stdout \o Append(p(n - 1), s[n]) = Append(e.stdout \o p(n - 1), s[n])
      <4>1. e.stdout \in Seq(Printed) /\ p(n - 1) \in Seq(Printed) /\ s[n] \in Printed
        BY <1>1, <1>4
      <4>2. \A u, v \in Seq(Printed), b \in Printed : u \o Append(v, b) = Append(u \o v, b)
        BY PrintedConcat
      <4> QED BY <4>1, <4>2, Zenon
    <3> QED BY <1>4, <2>1, <2>2, <3>1, Zenon
  <2>5. step[n][x] = y
    BY <2>1 DEF y
  <2> HIDE DEF step
  <2> QED BY <2>0, <2>1, <2>2, <2>3, <2>4, <2>5
<1>7. G \in [0..N -> SUBSET Effects]
  OBVIOUS
<1>8. PICK f : /\ f \in [0..N -> Effects] /\ f[0] = e /\ \A n \in 0..N : f[n] \in G[n]
               /\ \A n \in 1..N : f[n] = step[n][f[n - 1]]
  <2> HIDE DEF G, step
  <2>1. Leads(step, N, Effects, G, e)
    BY <1>1, <1>5, <1>6, <1>7 DEF Leads
  <2>2. PICK f : Takes(f, step, N, Effects, G, e)
    BY <2>1, FoldIn
  <2> QED BY <2>2 DEF Takes
<1>9. \A n \in 1..N : n - 1 \in 0..N /\ f[n] = out_byte(f[n - 1], s[n])
  <2> SUFFICES ASSUME NEW n \in 1..N PROVE n - 1 \in 0..N /\ f[n] = out_byte(f[n - 1], s[n])
    OBVIOUS
  <2>1. n - 1 \in 0..N
    BY <1>1
  <2>2. f[n - 1] \in Effects /\ f[n] = step[n][f[n - 1]]
    BY <1>8, <2>1
  <2> HIDE DEF G
  <2> QED BY <2>1, <2>2
<1> HIDE DEF step
<1>10. after = [n \in 0..N |-> IF n = 0 THEN e ELSE out_byte(after[n - 1], s[n])]
  <2>1. \A n \in 0..N : f[n] = IF n = 0 THEN e ELSE out_byte(f[n - 1], s[n])
    <3>1. \A n \in 0..N : n # 0 => n \in 1..N
      BY <1>1
    <3> HIDE DEF G
    <3> QED BY <1>8, <1>9, <3>1
  <2>2. f = [n \in 0..N |-> IF n = 0 THEN e ELSE out_byte(f[n - 1], s[n])]
    <3> HIDE DEF G
    <3> QED BY <1>8, <2>1
  <2> HIDE DEF G
  <2> QED BY <2>2 DEF after
<1>11. after[N] = f[N]
  <2>1. after[0] = e /\ \A n \in 1..N : n \in 0..N /\ n # 0 /\ after[n] = out_byte(after[n - 1], s[n])
    <3>1. 0 \in 0..N /\ \A n \in 1..N : n \in 0..N /\ n # 0
      BY <1>1
    <3> QED BY <1>10, <3>1
  <2> HIDE DEF G
  <2>2. \A n \in 1..N : after[n - 1] = f[n - 1] => after[n] = f[n]
    BY <1>9, <2>1
  <2>3. after[0] = f[0]
    BY <1>8, <2>1
  <2> QED BY <1>1, <2>2, <2>3, Alike
<1>12. f[N] \in G[N] /\ N \in 0..N
  <2> HIDE DEF G
  <2> QED BY <1>1, <1>8
<1> QED BY <1>2, <1>3, <1>11, <1>12

\* What emitting and what draining the bytes s makes of e; in a drain all bytes are of step n.
Emitted(e, s) == [e EXCEPT !.ring = Newest(@ \o s, ApiCap), !.stdout = @ \o s]
BurstOut(e, s, n, seen) ==
  [bios    |-> << >>,
   ring    |-> IF seen = -1 THEN Newest(e.ring \o s, ApiCap) ELSE e.ring,
   pending |-> IF seen = -1 \/ n <= seen THEN e.pending ELSE Oldest(e.pending \o s, ApiCap),
   stdout  |-> IF seen = -1 THEN e.stdout \o s ELSE e.stdout]
Fits(e) == Len(e.ring) <= ApiCap /\ Len(e.pending) <= ApiCap

\* Of nothing, and of one byte more.
LEMMA EmittedTurns ==
  ASSUME NEW e \in Effects, Fits(e)
  PROVE  /\ Emitted(e, << >>) = e
         /\ \A s \in Seq(Printed), b \in Printed :
              Emitted(e, s) \in Effects /\ Emitted(e, Append(s, b)) = api_emit(Emitted(e, s), b)
<1>1. /\ e.ring \in Seq(Printed) /\ e.stdout \in Seq(Printed) /\ Len(e.ring) \in Nat /\ Len(e.ring) <= ApiCap
      /\ ApiCap \in Nat \ {0}
  BY Capacities DEF Effects, Fits
<1>2. Emitted(e, << >>) = e
  <2>1. e.ring \o << >> = e.ring /\ e.stdout \o << >> = e.stdout
    BY <1>1, PrintedConcat
  <2>2. Newest(e.ring \o << >>, ApiCap) = e.ring
    BY <1>1, <2>1 DEF Newest
  <2> QED BY <2>1, <2>2 DEF Emitted, Effects
<1>3. ASSUME NEW s \in Seq(Printed), NEW b \in Printed
      PROVE  Emitted(e, s) \in Effects /\ Emitted(e, Append(s, b)) = api_emit(Emitted(e, s), b)
  <2> DEFINE r == e.ring \o s
             q == Newest(r, ApiCap)
  <2>1. /\ r \in Seq(Printed) /\ e.ring \o Append(s, b) = Append(r, b)
        /\ e.stdout \o s \in Seq(Printed) /\ e.stdout \o Append(s, b) = Append(e.stdout \o s, b)
    BY <1>1, PrintedConcat
  <2> HIDE DEF r
  <2>2. /\ q \in Seq(Printed)
        /\ Newest(Append(r, b), ApiCap) = Append(IF Len(q) < ApiCap THEN q ELSE Tail(q), b)
    BY <1>1, <2>1, PrintedEnds, Zenon
  <2> HIDE DEF q
  <2>3. Len(q) \in Nat /\ (Len(q) >= ApiCap <=> ~(Len(q) < ApiCap))
    BY <1>1, <2>2
  <2>4. Emitted(e, s) = [e EXCEPT !.ring = q, !.stdout = @ \o s]
    BY DEF Emitted, q, r
  <2>5. Emitted(e, s) \in Effects
    BY <2>1, <2>2, <2>4 DEF Effects
  <2>6. api_emit(Emitted(e, s), b)
          = [e EXCEPT !.ring = Append(IF Len(q) >= ApiCap THEN Tail(q) ELSE q, b), !.stdout = Append(e.stdout \o s, b)]
    BY <2>4 DEF api_emit, ToHal, Effects
  <2>7. Append(IF Len(q) >= ApiCap THEN Tail(q) ELSE q, b) = Newest(e.ring \o Append(s, b), ApiCap)
    BY <2>1, <2>2, <2>3
  <2>8. Emitted(e, Append(s, b)) = [e EXCEPT !.ring = Newest(e.ring \o Append(s, b), ApiCap), !.stdout = e.stdout \o Append(s, b)]
    BY DEF Emitted
  <2> QED BY <2>1, <2>5, <2>6, <2>7, <2>8
<1> QED BY <1>2, <1>3

\* The same of a drain, where all bytes are of the step n: kernel.c:69, api.c:94.
LEMMA BurstTurns ==
  ASSUME NEW e \in Effects, Fits(e), NEW n \in Nat, NEW seen \in Nat \cup {-1}
  PROVE  /\ BurstOut(e, << >>, n, seen) = [e EXCEPT !.bios = << >>]
         /\ \A s \in Seq(Printed), b \in Printed :
              b[1] = n => /\ BurstOut(e, s, n, seen) \in Effects
                          /\ BurstOut(e, Append(s, b), n, seen) = api_con_out(BurstOut(e, s, n, seen), b, seen)
<1>1. /\ e.ring \in Seq(Printed) /\ e.stdout \in Seq(Printed) /\ e.pending \in Seq(Printed)
      /\ ApiCap \in Nat \ {0} /\ Len(e.ring) <= ApiCap /\ Len(e.pending) <= ApiCap
      /\ Len(e.ring) \in Nat /\ Len(e.pending) \in Nat /\ << >> \in Seq(Printed)
  BY Capacities, PrintedConcat DEF Effects, Fits
<1>2. BurstOut(e, << >>, n, seen) = [e EXCEPT !.bios = << >>]
  <2>1. e.ring \o << >> = e.ring /\ e.stdout \o << >> = e.stdout /\ e.pending \o << >> = e.pending
    BY <1>1, PrintedConcat
  <2>2. Newest(e.ring \o << >>, ApiCap) = e.ring /\ Oldest(e.pending \o << >>, ApiCap) = e.pending
    BY <1>1, <2>1 DEF Newest, Oldest
  <2> QED BY <2>1, <2>2 DEF BurstOut, Effects
<1>3. ASSUME NEW s \in Seq(Printed), NEW b \in Printed, b[1] = n
      PROVE  /\ BurstOut(e, s, n, seen) \in Effects
             /\ BurstOut(e, Append(s, b), n, seen) = api_con_out(BurstOut(e, s, n, seen), b, seen)
  <2>1. /\ e.ring \o s \in Seq(Printed) /\ e.stdout \o s \in Seq(Printed) /\ e.pending \o s \in Seq(Printed)
        /\ e.pending \o Append(s, b) = Append(e.pending \o s, b)
    BY <1>1, PrintedConcat
  <2>2. Newest(e.ring \o s, ApiCap) \in Seq(Printed) /\ Oldest(e.pending \o s, ApiCap) \in Seq(Printed)
    BY <1>1, <2>1, PrintedEnds, Zenon
  <2>3. BurstOut(e, s, n, seen) \in Effects
    BY <1>1, <2>1, <2>2 DEF BurstOut, Effects
  <2>4. CASE seen = -1
    <3> DEFINE d == [e EXCEPT !.bios = << >>]
    <3>1. d \in Effects /\ Fits(d)
      BY <1>1 DEF Effects, Fits
    <3>2. \A t \in Seq(Printed) : BurstOut(e, t, n, seen) = Emitted(d, t)
      <4> TAKE t \in Seq(Printed)
      <4>1. BurstOut(e, t, n, seen) = [bios |-> << >>, ring |-> Newest(e.ring \o t, ApiCap),
                                      pending |-> e.pending, stdout |-> e.stdout \o t]
        BY <2>4 DEF BurstOut
      <4>2. /\ d.ring = e.ring /\ d.stdout = e.stdout /\ d.bios = << >> /\ d.pending = e.pending
        BY DEF Effects
      <4>3. Newest(e.ring \o t, ApiCap) \in Seq(Printed) /\ e.stdout \o t \in Seq(Printed)
        BY <1>1, <3>1, PrintedConcat, PrintedEnds DEF Effects
      <4> HIDE DEF d
      <4>4. /\ Emitted(d, t) \in Effects /\ Emitted(d, t).ring = Newest(e.ring \o t, ApiCap)
            /\ Emitted(d, t).stdout = e.stdout \o t
            /\ Emitted(d, t).bios = << >> /\ Emitted(d, t).pending = e.pending
        BY <3>1, <4>2, <4>3 DEF Emitted, Effects
      <4>5. BurstOut(e, t, n, seen) \in Effects
        BY <1>1, <4>1, <4>3 DEF Effects
      <4> QED BY <4>1, <4>4, <4>5, SameEffects
    <3>3. api_con_out(BurstOut(e, s, n, seen), b, seen) = api_emit(BurstOut(e, s, n, seen), b)
      BY <2>4 DEF api_con_out
    <3>4. Append(s, b) \in Seq(Printed)
      BY AppendProperties
    <3> HIDE DEF d
    <3>5. Emitted(d, Append(s, b)) = api_emit(Emitted(d, s), b)
      BY <3>1, EmittedTurns
    <3> QED BY <2>3, <3>2, <3>3, <3>4, <3>5
  <2>5. CASE seen # -1 /\ n <= seen
    BY <1>3, <2>3, <2>5 DEF api_con_out, BurstOut
  <2>6. CASE seen # -1 /\ ~(n <= seen)
    <3> DEFINE q == Oldest(e.pending \o s, ApiCap)
               x == BurstOut(e, s, n, seen)
    <3>1. Oldest(e.pending \o Append(s, b), ApiCap) = IF Len(q) < ApiCap THEN Append(q, b) ELSE q
      <4>1. Oldest(Append(e.pending \o s, b), ApiCap) = IF Len(q) < ApiCap THEN Append(q, b) ELSE q
        <5> DEFINE r == e.pending \o s
        <5>1. r \in Seq(Printed)
          BY <2>1
        <5> HIDE DEF r
        <5> QED BY <1>1, <5>1, PrintedEnds, Zenon DEF r
      <4> HIDE DEF q
      <4> QED BY <2>1, <4>1
    <3> HIDE DEF q
    <3>2. x = [bios |-> << >>, ring |-> e.ring, pending |-> q, stdout |-> e.stdout]
      BY <2>6 DEF BurstOut, q
    <3>3. api_con_out(x, b, seen) = IF Len(x.pending) < ApiCap THEN [x EXCEPT !.pending = Append(@, b)] ELSE x
      BY <1>3, <2>6 DEF api_con_out, Hold
    <3> HIDE DEF x
    <3>4. api_con_out(x, b, seen) = [bios |-> << >>, ring |-> e.ring, stdout |-> e.stdout,
                                     pending |-> IF Len(q) < ApiCap THEN Append(q, b) ELSE q]
      BY <3>2, <3>3
    <3>5. BurstOut(e, Append(s, b), n, seen) = [bios |-> << >>, ring |-> e.ring, stdout |-> e.stdout,
                                               pending |-> Oldest(e.pending \o Append(s, b), ApiCap)]
      BY <2>6 DEF BurstOut
    <3> QED BY <2>3, <3>1, <3>4, <3>5 DEF x
  <2> QED BY <2>4, <2>5, <2>6
<1> QED BY <1>2, <1>3

\* k_drain_output, of bytes that are all of one step.
LEMMA DrainIs ==
  ASSUME NEW e \in Effects, Fits(e), NEW n \in Nat, NEW seen \in Nat \cup {-1},
         \A i \in 1..Len(e.bios) : e.bios[i][1] = n
  PROVE  k_drain_output(e, seen) = BurstOut(e, e.bios, n, seen)
<1> DEFINE s == e.bios
           N == Len(s)
           p(i) == SubSeq(s, 1, i)
           a == [e EXCEPT !.bios = << >>]
           after[i \in 0..N] == IF i = 0 THEN a ELSE api_con_out(after[i - 1], s[i], seen)
           D(t) == BurstOut(e, t, n, seen)
           f == [i \in 0..N |-> D(p(i))]
<1>1. k_drain_output(e, seen) = after[N]
  BY DEF k_drain_output
<1>2. s \in Seq(Printed)
  BY DEF Effects
<1>3. \A i \in 1..N : s[i][1] = n
  OBVIOUS
<1> HIDE DEF s
<1>4. N \in Nat /\ p(N) = s /\ p(0) = << >>
  BY <1>2, PrefixEnds
<1>5. \A i \in 1..N : /\ p(i - 1) \in Seq(Printed) /\ s[i] \in Printed
                      /\ p(i) = Append(p(i - 1), s[i])
  <2> SUFFICES ASSUME NEW i \in 1..N
               PROVE  p(i - 1) \in Seq(Printed) /\ s[i] \in Printed /\ p(i) = Append(p(i - 1), s[i])
    OBVIOUS
  <2>1. i - 1 \in 0..(Len(s) - 1) /\ (i - 1) + 1 = i
    BY <1>4
  <2> QED BY <1>2, <2>1, PrefixIs
<1>6. D(<< >>) = a
  BY BurstTurns
<1>7. \A t \in Seq(Printed), b \in Printed : b[1] = n => D(Append(t, b)) = api_con_out(D(t), b, seen)
  BY BurstTurns
<1> HIDE DEF p, N, after, D, a
<1>8. 0 \in 0..N /\ \A i \in 1..N : i - 1 \in 0..N /\ i \in 0..N /\ i # 0
  BY <1>4
<1>9. f[0] = a /\ \A i \in 1..N : f[i] = api_con_out(f[i - 1], s[i], seen)
  <2>1. f[0] = a
    BY <1>4, <1>6, <1>8
  <2>2. ASSUME NEW i \in 1..N PROVE f[i] = api_con_out(f[i - 1], s[i], seen)
    <3>1. f[i] = D(p(i)) /\ f[i - 1] = D(p(i - 1))
      BY <1>8
    <3>2. D(Append(p(i - 1), s[i])) = api_con_out(D(p(i - 1)), s[i], seen)
      BY <1>3, <1>5, <1>7
    <3> QED BY <1>5, <3>1, <3>2
  <2> QED BY <2>1, <2>2
<1>10. after = [i \in 0..N |-> IF i = 0 THEN a ELSE api_con_out(after[i - 1], s[i], seen)]
  <2>1. f = [i \in 0..N |-> IF i = 0 THEN a ELSE api_con_out(f[i - 1], s[i], seen)]
    <3> DEFINE g == [i \in 0..N |-> IF i = 0 THEN a ELSE api_con_out(f[i - 1], s[i], seen)]
    <3>1. ASSUME NEW i \in 0..N PROVE f[i] = IF i = 0 THEN a ELSE api_con_out(f[i - 1], s[i], seen)
      <4>1. i = 0 \/ i \in 1..N
        BY <1>4
      <4> HIDE DEF f
      <4> QED BY <1>8, <1>9, <4>1
    <3>2. \A i \in 0..N : f[i] = g[i]
      <4> HIDE DEF f
      <4> QED BY <3>1
    <3> QED BY <3>2
  <2> HIDE DEF f
  <2> QED BY <2>1 DEF after
<1>11. after[N] = f[N]
  <2> HIDE DEF f
  <2>1. after[0] = a /\ \A i \in 1..N : after[i] = api_con_out(after[i - 1], s[i], seen)
    BY <1>8, <1>10
  <2>2. \A i \in 1..N : after[i - 1] = f[i - 1] => after[i] = f[i]
    BY <1>9, <2>1
  <2> QED BY <1>4, <1>9, <2>1, <2>2, Alike
<1>12. f[N] = D(s)
  BY <1>4
<1> QED BY <1>1, <1>11, <1>12 DEF D, s

\* Released, at the end of a seek.
LEMMA ReleasedIs ==
  ASSUME NEW e \in Effects, Fits(e)
  PROVE  Released(e) = Emitted(e, e.pending)
<1> DEFINE s == e.pending
           N == Len(s)
           p(i) == SubSeq(s, 1, i)
           after[i \in 0..N] == IF i = 0 THEN e ELSE api_emit(after[i - 1], s[i])
           D(t) == Emitted(e, t)
           f == [i \in 0..N |-> D(p(i))]
<1>1. Released(e) = after[N]
  BY DEF Released
<1>2. s \in Seq(Printed)
  BY DEF Effects
<1> HIDE DEF s
<1>4. N \in Nat /\ p(N) = s /\ p(0) = << >>
  BY <1>2, PrefixEnds
<1>5. \A i \in 1..N : /\ p(i - 1) \in Seq(Printed) /\ s[i] \in Printed
                      /\ p(i) = Append(p(i - 1), s[i])
  <2> SUFFICES ASSUME NEW i \in 1..N
               PROVE  p(i - 1) \in Seq(Printed) /\ s[i] \in Printed /\ p(i) = Append(p(i - 1), s[i])
    OBVIOUS
  <2>1. i - 1 \in 0..(Len(s) - 1) /\ (i - 1) + 1 = i
    BY <1>4
  <2> QED BY <1>2, <2>1, PrefixIs
<1>6. D(<< >>) = e
  BY EmittedTurns
<1>7. \A t \in Seq(Printed), b \in Printed : D(Append(t, b)) = api_emit(D(t), b)
  BY EmittedTurns
<1> HIDE DEF p, N, after, D
<1>8. 0 \in 0..N /\ \A i \in 1..N : i - 1 \in 0..N /\ i \in 0..N /\ i # 0
  BY <1>4
<1>9. f[0] = e /\ \A i \in 1..N : f[i] = api_emit(f[i - 1], s[i])
  <2>1. f[0] = e
    BY <1>4, <1>6, <1>8
  <2>2. ASSUME NEW i \in 1..N PROVE f[i] = api_emit(f[i - 1], s[i])
    <3>1. f[i] = D(p(i)) /\ f[i - 1] = D(p(i - 1))
      BY <1>8
    <3>2. D(Append(p(i - 1), s[i])) = api_emit(D(p(i - 1)), s[i])
      BY <1>5, <1>7
    <3> QED BY <1>5, <3>1, <3>2
  <2> QED BY <2>1, <2>2
<1>10. after = [i \in 0..N |-> IF i = 0 THEN e ELSE api_emit(after[i - 1], s[i])]
  <2>1. f = [i \in 0..N |-> IF i = 0 THEN e ELSE api_emit(f[i - 1], s[i])]
    <3> DEFINE g == [i \in 0..N |-> IF i = 0 THEN e ELSE api_emit(f[i - 1], s[i])]
    <3>1. ASSUME NEW i \in 0..N PROVE f[i] = IF i = 0 THEN e ELSE api_emit(f[i - 1], s[i])
      <4>1. i = 0 \/ i \in 1..N
        BY <1>4
      <4> HIDE DEF f
      <4> QED BY <1>8, <1>9, <4>1
    <3>2. \A i \in 0..N : f[i] = g[i]
      <4> HIDE DEF f
      <4> QED BY <3>1
    <3> QED BY <3>2
  <2> HIDE DEF f
  <2> QED BY <2>1 DEF after
<1>11. after[N] = f[N]
  <2> HIDE DEF f
  <2>1. after[0] = e /\ \A i \in 1..N : after[i] = api_emit(after[i - 1], s[i])
    BY <1>8, <1>10
  <2>2. \A i \in 1..N : after[i - 1] = f[i - 1] => after[i] = f[i]
    BY <1>9, <2>1
  <2> QED BY <1>4, <1>9, <2>1, <2>2, Alike
<1>12. f[N] = D(s)
  BY <1>4
<1> QED BY <1>1, <1>11, <1>12 DEF D, s

\* The bytes a step prints.
LEMMA BurstIs ==
  ASSUME printer \in Seq(Nat), NEW n \in 1..Len(printer)
  PROVE  /\ printer[n] \in Nat /\ Burst(n) \in Seq(Printed) /\ Len(Burst(n)) = printer[n]
         /\ \A i \in 1..Len(Burst(n)) : Burst(n)[i][1] = n
<1>1. printer[n] \in Nat /\ n \in Nat
  OBVIOUS
<1>2. ASSUME NEW i \in 1..printer[n] PROVE <<n, i>> \in Printed /\ <<n, i>>[1] = n
  BY <1>1 DEF Printed
<1>3. Burst(n) \in Seq(Printed) /\ Len(Burst(n)) = printer[n]
  BY <1>1, <1>2 DEF Burst
<1> QED BY <1>1, <1>2, <1>3 DEF Burst

\* What the step n makes of e: in a seek nothing is given to the HAL unless the step overruns
\* the ring of the BIOS.
StepMakes(e, n, seen, r) ==
  LET b == Newest(Burst(n), BiosCap)
  IN  /\ r \in Effects /\ r.bios = << >> /\ Fits(r)
      /\ seen = -1 => /\ r.stdout = e.stdout \o Burst(n) /\ r.pending = e.pending
                      /\ r.ring = Newest(e.ring \o b, ApiCap)
      /\ seen # -1 => /\ r.ring = e.ring /\ (printer[n] <= BiosCap => r.stdout = e.stdout)
                      /\ r.pending = IF n <= seen THEN e.pending ELSE Oldest(e.pending \o b, ApiCap)

\* A step, in a seek and outside.
LEMMA KernelStepIs ==
  ASSUME NEW e \in Effects, e.bios = << >>, Fits(e), printer \in Seq(Nat), NEW n \in 1..Len(printer),
         NEW seen \in Nat \cup {-1}
  PROVE  StepMakes(e, n, seen, kernel_step(e, n, seen))
<1> DEFINE o == out_bytes(e, Burst(n))
           r == kernel_step(e, n, seen)
           b == Newest(Burst(n), BiosCap)
<1>1. /\ Burst(n) \in Seq(Printed) /\ Len(Burst(n)) = printer[n] /\ printer[n] \in Nat /\ n \in Nat
      /\ BiosCap \in Nat /\ ApiCap \in Nat
      /\ \A i \in 1..Len(Burst(n)) : Burst(n)[i][1] = n
  BY BurstIs, Capacities
<1>2. /\ o \in Effects /\ o.bios = b /\ o.stdout \o b = e.stdout \o Burst(n)
      /\ o.ring = e.ring /\ o.pending = e.pending
  BY <1>1, OutBytes
<1>3. /\ b \in Seq(Printed) /\ Len(b) <= Len(Burst(n)) /\ \A i \in 1..Len(b) : b[i][1] = n
      /\ printer[n] <= BiosCap => b = Burst(n)
  <2>1. /\ b \in Seq(Printed) /\ Len(b) = IF Len(Burst(n)) <= BiosCap THEN Len(Burst(n)) ELSE BiosCap
        /\ \A i \in 1..Len(b) : b[i] = Burst(n)[(Len(Burst(n)) - Len(b)) + i]
    BY <1>1, NewestIs, Zenon
  <2>2. printer[n] <= BiosCap => b = Burst(n)
    BY <1>1 DEF Newest
  <2> HIDE DEF b
  <2>3. Len(b) <= Len(Burst(n)) /\ Len(b) \in Nat
    BY <1>1, <2>1
  <2>4. ASSUME NEW i \in 1..Len(b) PROVE b[i][1] = n
    <3>1. (Len(Burst(n)) - Len(b)) + i \in 1..Len(Burst(n))
      BY <1>1, <2>3
    <3> QED BY <1>1, <2>1, <3>1
  <2> QED BY <2>1, <2>2, <2>3, <2>4
<1>4. Fits(o)
  BY <1>2 DEF Fits
<1>5. r = BurstOut(o, b, n, seen)
  <2>1. r = k_drain_output(o, seen)
    BY DEF kernel_step
  <2> HIDE DEF o, b
  <2> QED BY <1>1, <1>2, <1>3, <1>4, <2>1, DrainIs
<1> HIDE DEF o, b, r
<1>6. /\ e.stdout \in Seq(Printed) /\ o.stdout \in Seq(Printed) /\ e.ring \in Seq(Printed)
      /\ e.pending \in Seq(Printed) /\ Len(e.ring) <= ApiCap /\ Len(e.pending) <= ApiCap
  BY <1>2 DEF Effects, Fits
<1>7. CASE seen = -1
  <2>1. r = [bios |-> << >>, ring |-> Newest(e.ring \o b, ApiCap), pending |-> e.pending,
             stdout |-> e.stdout \o Burst(n)]
    BY <1>2, <1>5, <1>7 DEF BurstOut
  <2>2. /\ e.stdout \o Burst(n) \in Seq(Printed) /\ e.ring \o b \in Seq(Printed) /\ << >> \in Seq(Printed)
    BY <1>1, <1>3, <1>6, PrintedConcat
  <2> DEFINE q == e.ring \o b
             t == Newest(q, ApiCap)
  <2>3. t \in Seq(Printed) /\ Len(t) <= ApiCap
    <3>1. q \in Seq(Printed)
      BY <2>2
    <3> HIDE DEF q
    <3>2. t \in Seq(Printed) /\ Len(t) = IF Len(q) <= ApiCap THEN Len(q) ELSE ApiCap
      BY <1>1, <3>1, NewestIs, Zenon
    <3> HIDE DEF t
    <3> QED BY <1>1, <3>1, <3>2
  <2> HIDE DEF q, t
  <2>4. r = [bios |-> << >>, ring |-> t, pending |-> e.pending, stdout |-> e.stdout \o Burst(n)]
    BY <2>1 DEF t, q
  <2>5. r \in Effects /\ Fits(r)
    BY <1>6, <2>2, <2>3, <2>4 DEF Effects, Fits
  <2> QED BY <1>7, <2>1, <2>5 DEF StepMakes, r, b
<1>8. CASE seen # -1
  <2> DEFINE q == e.pending \o b
             t == IF n <= seen THEN e.pending ELSE Oldest(q, ApiCap)
  <2>1. r = [bios |-> << >>, ring |-> e.ring, pending |-> t, stdout |-> o.stdout]
    BY <1>2, <1>5, <1>8 DEF BurstOut
  <2>2. q \in Seq(Printed) /\ << >> \in Seq(Printed)
    BY <1>3, <1>6, PrintedConcat
  <2>3. t \in Seq(Printed) /\ Len(t) <= ApiCap
    <3> HIDE DEF q
    <3> DEFINE u == Oldest(q, ApiCap)
    <3>1. u \in Seq(Printed) /\ Len(u) = IF Len(q) <= ApiCap THEN Len(q) ELSE ApiCap
      BY <1>1, <2>2, OldestIs, Zenon
    <3> HIDE DEF u
    <3>2. u \in Seq(Printed) /\ Len(u) <= ApiCap
      BY <1>1, <2>2, <3>1
    <3>3. t = IF n <= seen THEN e.pending ELSE u
      BY DEF u
    <3> HIDE DEF t
    <3> QED BY <1>6, <3>2, <3>3
  <2>4. printer[n] <= BiosCap => o.stdout = e.stdout
    <3> SUFFICES ASSUME printer[n] <= BiosCap PROVE o.stdout = e.stdout
      OBVIOUS
    <3>1. o.stdout \o b = e.stdout \o b
      BY <1>2, <1>3
    <3> QED BY <1>3, <1>6, <3>1, SameFront
  <2> HIDE DEF t, q
  <2>5. r \in Effects /\ Fits(r)
    BY <1>6, <2>1, <2>2, <2>3 DEF Effects, Fits
  <2> QED BY <1>8, <2>1, <2>4, <2>5 DEF StepMakes, r, b, t, q
<1> QED BY <1>7, <1>8

\* Of no steps, nothing is printed.
LEMMA NothingPrinted ==
  ASSUME NEW from \in Nat, NEW to \in Nat, to <= from
  PROVE  Bursts(from, to) = << >>
<1> DEFINE n == to - from
<1>1. 1..n = {}
  OBVIOUS
<1> HIDE DEF n
<1>2. [i \in 1..n |-> Burst(from + i)] = << >>
  BY <1>1
<1> QED BY <1>2, FlattenEmpty DEF Bursts, n

\* What steps print, one step more.
LEMMA BurstsGrow ==
  ASSUME printer \in Seq(Nat), NEW from \in Nat, NEW to \in Nat, to < Len(printer)
  PROVE  from <= to => /\ Bursts(from, to) \in Seq(Printed)
                       /\ Bursts(from, to + 1) = Bursts(from, to) \o Burst(to + 1)
<1> DEFINE Steps(n) == [i \in 1..n |-> Burst(from + i)]
<1>1. \A n \in Int : Bursts(from, from + n) = FlattenSeq(Steps(n))
  <2> TAKE n \in Int
  <2>1. (from + n) - from = n
    OBVIOUS
  <2> QED BY <2>1 DEF Bursts
<1>3. ASSUME from <= to
      PROVE  Bursts(from, to) \in Seq(Printed) /\ Bursts(from, to + 1) = Bursts(from, to) \o Burst(to + 1)
  <2> DEFINE n == to - from
             ss == Steps(n)
             t == Burst(to + 1)
  <2>1. n \in Nat /\ from + n = to /\ from + (n + 1) = to + 1 /\ n + 1 \in Int
    BY <1>3
  <2>2. \A i \in 1..(n + 1) : Burst(from + i) \in Seq(Printed)
    <3> TAKE i \in 1..(n + 1)
    <3>1. from + i \in 1..Len(printer)
      BY <1>3
    <3> QED BY <3>1, BurstIs
  <2>3. t \in Seq(Printed)
    <3>1. n + 1 \in 1..(n + 1)
      BY <2>1
    <3> QED BY <2>1, <2>2, <3>1
  <2> HIDE DEF n, t
  <2>4. ss \in Seq(Seq(Printed)) /\ Len(ss) = n /\ Steps(n + 1) \in Seq(Seq(Printed)) /\ Len(Steps(n + 1)) = n + 1
    BY <2>1, <2>2
  <2>5. Append(ss, t) \in Seq(Seq(Printed)) /\ Len(Append(ss, t)) = n + 1 /\ Append(ss, t)[n + 1] = t
        /\ \A i \in 1..n : Append(ss, t)[i] = ss[i]
    <3> HIDE DEF ss
    <3> QED BY <2>3, <2>4, AppendProperties
  <2>6. Steps(n + 1) = Append(ss, t)
    <3>1. \A i \in 1..(n + 1) : Steps(n + 1)[i] = Append(ss, t)[i]
      <4> TAKE i \in 1..(n + 1)
      <4>1. i = n + 1 \/ i \in 1..n
        BY <2>1
      <4>2. CASE i = n + 1
        <5>1. Steps(n + 1)[i] = Burst(from + i) /\ Burst(from + i) = t
          BY <2>1, <4>2 DEF t
        <5> HIDE DEF Steps, ss
        <5> QED BY <2>5, <4>2, <5>1
      <4>3. CASE i \in 1..n
        <5>1. ss[i] = Burst(from + i) /\ Steps(n + 1)[i] = Burst(from + i)
          BY <4>3
        <5> HIDE DEF Steps, ss
        <5> QED BY <2>5, <4>3, <5>1
      <4> QED BY <4>1, <4>2, <4>3
    <3> HIDE DEF Steps, ss
    <3> QED BY <2>4, <2>5, <3>1, SeqEqual
  <2> HIDE DEF Steps, ss
  <2>7. FlattenSeq(ss) \in Seq(Printed) /\ FlattenSeq(Append(ss, t)) = FlattenSeq(ss) \o t
    BY <2>3, <2>4, FlattenAppend
  <2>8. Bursts(from, from + n) = FlattenSeq(Steps(n))
    BY <1>1, <2>1
  <2>9. Bursts(from, from + (n + 1)) = FlattenSeq(Steps(n + 1))
    BY <1>1, <2>1
  <2> QED BY <2>1, <2>6, <2>7, <2>8, <2>9 DEF ss, t
<1> QED BY <1>3

\* What a seek holds of the bytes w it is to print: pend.
Holds(pend, w, overrun) ==
  /\ Inside(pend, w) /\ Len(pend) <= Len(w)
  /\ Len(w) <= ApiCap => Ends(pend, w)
  /\ Len(w) <= ApiCap /\ ~overrun => pend = w

\* Ending alike goes through what is between.
LEMMA EndsTrans ==
  ASSUME NEW s, NEW t, NEW u, Ends(u, t), Ends(t, s)
  PROVE  Ends(u, s)
  BY DEF Ends

\* One step more of a seek.
LEMMA HoldsTurn ==
  ASSUME NEW w \in Seq(Printed), NEW pend \in Seq(Printed), NEW overrun \in BOOLEAN, Holds(pend, w, overrun),
         NEW s \in Seq(Printed)
  PROVE  Holds(Oldest(pend \o Newest(s, BiosCap), ApiCap), w \o s, overrun \/ Len(s) > BiosCap)
<1> DEFINE b == Newest(s, BiosCap)
           q == pend \o b
           r == Oldest(q, ApiCap)
           v == w \o s
<1>1. BiosCap \in Nat \ {0} /\ BiosCap \in Nat /\ ApiCap \in Nat
  BY Capacities
<1>2. /\ Inside(pend, w) /\ Len(pend) <= Len(w) /\ (Len(w) <= ApiCap => Ends(pend, w))
      /\ (Len(w) <= ApiCap /\ ~overrun => pend = w)
  BY DEF Holds
<1>3. /\ b \in Seq(Printed) /\ Len(b) = IF Len(s) <= BiosCap THEN Len(s) ELSE BiosCap
      /\ Inside(b, s) /\ Ends(b, s)
  BY <1>1, NewestIs, InsideNewest, EndsNewest, Zenon
<1>4. ~(Len(s) > BiosCap) => b = s
  <2>1. Len(s) \in Nat
    BY PrintedConcat
  <2> QED BY <1>1, <2>1 DEF Newest
<1> HIDE DEF b
<1>5. /\ q \in Seq(Printed) /\ v \in Seq(Printed) /\ w \o b \in Seq(Printed)
      /\ Len(q) = Len(pend) + Len(b) /\ Len(v) = Len(w) + Len(s)
      /\ Len(w) \in Nat /\ Len(s) \in Nat /\ Len(pend) \in Nat /\ Len(b) \in Nat
  BY <1>3, PrintedConcat
<1>6. Inside(q, v)
  <2>1. Inside(q, w \o b)
    BY <1>2, <1>3, InsideLonger
  <2>2. Inside(w \o b, v)
    BY <1>3, InsideFront
  <2> HIDE DEF q, v
  <2> QED BY <1>5, <2>1, <2>2, InsideTrans, Zenon
<1>7. Len(w) <= ApiCap => Ends(q, v)
  <2> SUFFICES ASSUME Len(w) <= ApiCap PROVE Ends(q, v)
    OBVIOUS
  <2>1. Ends(q, w \o b)
    BY <1>2, <1>3, EndsConcat
  <2>2. Ends(w \o b, v)
    BY <1>3, EndsConcat
  <2> QED BY <2>1, <2>2, EndsTrans
<1> HIDE DEF q, v
<1>8. /\ r \in Seq(Printed) /\ Len(r) = IF Len(q) <= ApiCap THEN Len(q) ELSE ApiCap
      /\ Inside(r, q)
  BY <1>1, <1>5, OldestIs, InsideOldest, Zenon
<1>9. Len(q) <= ApiCap => r = q
  BY DEF Oldest
<1> HIDE DEF r
<1>10. Len(b) <= Len(s)
  BY <1>1, <1>3, <1>5
<1>11. Len(q) <= Len(v) /\ Len(r) <= Len(v) /\ (Len(v) <= ApiCap => Len(w) <= ApiCap /\ Len(q) <= ApiCap)
  BY <1>1, <1>2, <1>5, <1>8, <1>10
<1>12. Inside(r, v)
  BY <1>5, <1>6, <1>8, InsideTrans, Zenon
<1>13. Len(v) <= ApiCap => Ends(r, v)
  BY <1>7, <1>9, <1>11
<1>14. Len(v) <= ApiCap /\ ~(overrun \/ Len(s) > BiosCap) => r = v
  <2> SUFFICES ASSUME Len(v) <= ApiCap, ~overrun, ~(Len(s) > BiosCap) PROVE r = v
    OBVIOUS
  <2>1. pend = w /\ b = s /\ r = q
    BY <1>2, <1>4, <1>9, <1>11
  <2> QED BY <2>1 DEF q, v
<1> QED BY <1>11, <1>12, <1>13, <1>14 DEF Holds, r, q, v, b

\* The snapshot a seek starts from is not behind its target, nor behind what was reached.
LEMMA NearestIs ==
  ASSUME reached \in Nat, NEW target \in Nat
  PROVE  Nearest(target) \in 0..target /\ Nearest(target) <= reached
<1> DEFINE m == IF target < reached THEN target ELSE reached
<1>1. m \in Nat /\ m <= target /\ m <= reached /\ Interval \in Nat \ {0}
  BY Capacities
<1> HIDE DEF m
<1>2. (m \div Interval) * Interval \in 0..m
  BY <1>1
<1>3. Nearest(target) = (m \div Interval) * Interval
  BY DEF Nearest, m
<1> HIDE DEF m
<1> QED BY <1>1, <1>2, <1>3

\* What a replay of target up to step to makes of e.
ReplayMakes(e, target, to, seen, r) ==
  LET start == Larger(seen, Nearest(target))
  IN  /\ r \in Effects /\ r.bios = << >> /\ Fits(r) /\ r.ring = e.ring
      /\ ~Overruns(Nearest(target) + 1..to) => r.stdout = e.stdout
      /\ Holds(r.pending, Bursts(start, to), Overruns(start + 1..to))
      /\ Bursts(start, to) \in Seq(Printed)

\* A replay from the snapshot: what it holds is what the steps past seen print, what it gives the
\* HAL is nothing unless a step overran the ring of the BIOS, and the ring of the host is as it was.
LEMMA ReplayedIs ==
  ASSUME printer \in Seq(Nat), reached \in Nat, NEW target \in Nat, NEW seen \in Nat,
         NEW to \in Nearest(target)..Len(printer),
         NEW e \in Effects, e.bios = << >>, e.pending = << >>, Fits(e)
  PROVE  ReplayMakes(e, target, to, seen, Replayed(e, target, to, seen))
<1> DEFINE first == Nearest(target)
           start == Larger(seen, first)
           N == to - first
           w(n) == Bursts(start, first + n)
           Runs(x, n) == /\ x.bios = << >> /\ Fits(x) /\ x.ring = e.ring
                         /\ ~Overruns(first + 1..first + n) => x.stdout = e.stdout
                         /\ Holds(x.pending, w(n), Overruns(start + 1..first + n))
                         /\ w(n) \in Seq(Printed)
           G == [n \in 0..N |-> {x \in Effects : Runs(x, n)}]
           step == [n \in 1..N |-> [x \in Effects |-> kernel_step(x, first + n, seen)]]
           after[n \in 0..N] == IF n = 0 THEN e ELSE kernel_step(after[n - 1], first + n, seen)
<1>1. Replayed(e, target, to, seen) = after[N]
  BY DEF Replayed
<1>2. first \in Nat
  BY NearestIs
<1> HIDE DEF first
<1>3. /\ to \in first..Len(printer) /\ Len(printer) \in Nat
  BY DEF first
<1>4. N \in Nat /\ first + N = to /\ start \in Nat /\ first <= start /\ seen <= start
      /\ (start = seen \/ start = first)
  BY <1>2, <1>3 DEF Larger
<1> HIDE DEF N, start, after
<1>5. \A n \in 1..N : /\ n - 1 \in 0..N /\ n \in 0..N /\ n # 0 /\ first + n \in 1..Len(printer)
                      /\ (first + (n - 1)) + 1 = first + n /\ first + (n - 1) \in Nat
                      /\ first + (n - 1) < Len(printer)
  BY <1>2, <1>3, <1>4
<1>6. 0 \in 0..N /\ ~(0 \in 1..N)
  BY <1>4
<1>7. /\ << >> \in Seq(Printed) /\ Len(<< >>) = 0
      /\ e.ring \in Seq(Printed) /\ e.stdout \in Seq(Printed)
  BY PrintedConcat DEF Effects
<1>8. e \in G[0]
  <2>1. Bursts(start, first) = << >>
    BY <1>2, <1>4, NothingPrinted
  <2>2. Holds(<< >>, << >>, Overruns(start + 1..first))
    <3>1. Inside(<< >>, << >>)
      BY <1>7, InsideItself
    <3> QED BY <3>1, <1>7 DEF Holds, Ends
  <2>3. first + 0 = first
    BY <1>2
  <2>4. w(0) = << >>
    BY <2>1, <2>3
  <2> HIDE DEF w
  <2>5. Runs(e, 0)
    BY <1>7, <2>2, <2>3, <2>4
  <2> HIDE DEF Runs
  <2> QED BY <1>6, <2>5
<1>9. ASSUME NEW n \in 1..N, NEW x \in G[n - 1] PROVE step[n][x] \in G[n]
  <2> DEFINE m == first + n
             k == first + (n - 1)
             y == kernel_step(x, m, seen)
             s == Burst(m)
             b == Newest(s, BiosCap)
  <2>1. x \in Effects /\ Runs(x, n - 1)
    <3> HIDE DEF Runs
    <3> QED BY <1>5, <1>9
  <2>2. /\ x.bios = << >> /\ Fits(x) /\ x.ring = e.ring
        /\ ~Overruns(first + 1..k) => x.stdout = e.stdout
        /\ Holds(x.pending, Bursts(start, k), Overruns(start + 1..k))
        /\ Bursts(start, k) \in Seq(Printed)
    BY <2>1
  <2>3. /\ m \in 1..Len(printer) /\ k \in Nat /\ k + 1 = m /\ k < Len(printer) /\ m \in Nat
    BY <1>5
  <2>0. step[n][x] = y
    BY <2>1
  <2> HIDE DEF m, k, step
  <2>4. /\ s \in Seq(Printed) /\ printer[m] \in Nat /\ Len(s) = printer[m]
    BY <2>3, BurstIs
  <2>5. /\ y \in Effects /\ y.bios = << >> /\ Fits(y) /\ y.ring = x.ring
        /\ printer[m] <= BiosCap => y.stdout = x.stdout
        /\ y.pending = IF m <= seen THEN x.pending ELSE Oldest(x.pending \o b, ApiCap)
    <3>1. seen # -1 /\ seen \in Nat \cup {-1}
      OBVIOUS
    <3>2. StepMakes(x, m, seen, y)
      BY <2>1, <2>2, <2>3, <3>1, KernelStepIs
    <3> HIDE DEF y
    <3> QED BY <3>1, <3>2 DEF StepMakes
  <2>6. BiosCap \in Nat
    BY Capacities
  <2>7. ~Overruns(first + 1..m) => y.stdout = e.stdout
    <3> SUFFICES ASSUME ~Overruns(first + 1..m) PROVE y.stdout = e.stdout
      OBVIOUS
    <3>1. first + 1..k \subseteq first + 1..m /\ m \in first + 1..m
      BY <1>2, <1>5, <2>3 DEF m, k
    <3>2. ~Overruns(first + 1..k) /\ ~(printer[m] > BiosCap)
      BY <3>1 DEF Overruns
    <3>3. printer[m] <= BiosCap
      BY <2>4, <2>6, <3>2
    <3> QED BY <2>2, <2>5, <3>2, <3>3
  <2>8. Holds(y.pending, Bursts(start, m), Overruns(start + 1..m)) /\ Bursts(start, m) \in Seq(Printed)
    <3>1. CASE m <= seen
      <4>1. m <= start /\ k <= start
        BY <1>4, <2>3, <3>1
      <4>2. Bursts(start, k) = << >>
        BY <1>4, <2>3, <4>1, NothingPrinted
      <4>3. Bursts(start, m) = << >>
        BY <1>4, <2>3, <4>1, NothingPrinted
      <4>4. Overruns(start + 1..m) = Overruns(start + 1..k)
        <5>1. start + 1..m = {} /\ start + 1..k = {}
          BY <1>4, <2>3, <4>1
        <5> QED BY <5>1
      <4>5. y.pending = x.pending
        BY <2>5, <3>1
      <4> QED BY <2>2, <4>2, <4>3, <4>4, <4>5
    <3>2. CASE ~(m <= seen)
      <4>1. start <= k
        BY <1>2, <1>4, <1>5, <2>3, <3>2 DEF m, k
      <4>2. Bursts(start, m) = Bursts(start, k) \o s
        <5>1. Bursts(start, k + 1) = Bursts(start, k) \o Burst(k + 1)
          BY <1>4, <2>3, <4>1, BurstsGrow
        <5> QED BY <2>3, <5>1
      <4>3. Bursts(start, m) \in Seq(Printed)
        BY <2>2, <2>4, <4>2, PrintedConcat
      <4>4. Overruns(start + 1..m) = (Overruns(start + 1..k) \/ Len(s) > BiosCap)
        <5>1. start + 1..m = (start + 1..k) \cup {m}
          BY <1>4, <2>3, <4>1
        <5> HIDE DEF s
        <5> QED BY <2>4, <5>1 DEF Overruns
      <4>5. Overruns(start + 1..k) \in BOOLEAN
        BY DEF Overruns
      <4>6. x.pending \in Seq(Printed)
        BY <2>1 DEF Effects
      <4> DEFINE o == Overruns(start + 1..k)
                 u == Bursts(start, k)
                 p == x.pending
      <4>7. o \in BOOLEAN /\ u \in Seq(Printed) /\ p \in Seq(Printed) /\ Holds(p, u, o)
        BY <2>2, <4>5, <4>6
      <4> HIDE DEF o, u, p, s
      <4>8. Holds(Oldest(p \o b, ApiCap), u \o s, o \/ Len(s) > BiosCap)
        BY <2>4, <4>7, HoldsTurn
      <4> QED BY <2>5, <3>2, <4>2, <4>3, <4>4, <4>8 DEF o, u, p
    <3> QED BY <3>1, <3>2
  <2>9. y.ring = e.ring
    BY <2>2, <2>5
  <2> HIDE DEF y
  <2>10. Runs(y, n)
    BY <2>5, <2>7, <2>8, <2>9 DEF m
  <2> HIDE DEF Runs
  <2> QED BY <1>5, <2>0, <2>5, <2>10
<1> HIDE DEF Runs
<1>10. G \in [0..N -> SUBSET Effects]
  OBVIOUS
<1>11. PICK f : /\ f \in [0..N -> Effects] /\ f[0] = e /\ \A n \in 0..N : f[n] \in G[n]
                /\ \A n \in 1..N : f[n] = step[n][f[n - 1]]
  <2> HIDE DEF G, step
  <2>1. N \in Nat
    BY <1>4
  <2>2. Leads(step, N, Effects, G, e)
    BY <1>8, <1>9, <1>10, <2>1 DEF Leads
  <2>3. PICK f : Takes(f, step, N, Effects, G, e)
    BY <2>2, FoldIn
  <2> QED BY <2>3 DEF Takes
<1>12. \A n \in 1..N : f[n] = kernel_step(f[n - 1], first + n, seen)
  <2> TAKE n \in 1..N
  <2>1. f[n - 1] \in Effects /\ f[n] = step[n][f[n - 1]]
    BY <1>5, <1>11
  <2> HIDE DEF G
  <2> QED BY <2>1
<1>13. f[N] \in Effects /\ Runs(f[N], N)
  <2>1. N \in 0..N
    BY <1>4
  <2> QED BY <1>11, <2>1
<1> HIDE DEF G, step
<1>14. after = [n \in 0..N |-> IF n = 0 THEN e ELSE kernel_step(after[n - 1], first + n, seen)]
  <2> DEFINE g == [n \in 0..N |-> IF n = 0 THEN e ELSE kernel_step(f[n - 1], first + n, seen)]
  <2>1. ASSUME NEW n \in 0..N PROVE f[n] = IF n = 0 THEN e ELSE kernel_step(f[n - 1], first + n, seen)
    <3>1. n = 0 \/ n \in 1..N
      BY <1>4
    <3> QED BY <1>5, <1>11, <1>12, <3>1
  <2>2. f = g
    <3>1. \A n \in 0..N : f[n] = g[n]
      BY <2>1
    <3> QED BY <1>11, <3>1
  <2>3. f = [n \in 0..N |-> IF n = 0 THEN e ELSE kernel_step(f[n - 1], first + n, seen)]
    BY <2>2
  <2> QED BY <2>3 DEF after
<1>15. after[N] = f[N]
  <2>1. after[0] = e /\ \A n \in 1..N : after[n] = kernel_step(after[n - 1], first + n, seen)
    BY <1>5, <1>6, <1>14
  <2>2. \A n \in 1..N : after[n - 1] = f[n - 1] => after[n] = f[n]
    BY <1>12, <2>1
  <2>3. after[0] = f[0] /\ N \in Nat
    BY <1>4, <1>11, <2>1
  <2> QED BY <2>2, <2>3, Alike
<1> QED BY <1>1, <1>4, <1>13, <1>15 DEF ReplayMakes, Runs, start, first

\* The bytes b, all of s that is left, went into the ring of the host, which is now r.
Emits(pop, ring, show, b, s, r) ==
  /\ r \in Seq(Printed) /\ Len(r) <= ApiCap
  /\ Inside(pop \o r, show \o s)
  /\ Ends(pop \o ring, show) /\ Ends(b, s) => Ends(pop \o r, show \o s)
  /\ pop \o ring = show /\ b = s /\ Len(ring) + Len(s) <= ApiCap => pop \o r = show \o s

\* What the ring of the host keeps of them.
LEMMA EmitKeeps ==
  ASSUME NEW pop \in Seq(Printed), NEW ring \in Seq(Printed), NEW show \in Seq(Printed),
         NEW b \in Seq(Printed), NEW s \in Seq(Printed), Inside(b, s), Inside(pop \o ring, show)
  PROVE  Emits(pop, ring, show, b, s, Newest(ring \o b, ApiCap))
<1> DEFINE q == ring \o b
           r == Newest(q, ApiCap)
           k == pop \o ring
           x == k \o b
           y == show \o b
           z == show \o s
<1>1. ApiCap \in Nat \ {0} /\ ApiCap \in Nat
  BY Capacities
<1>2. /\ q \in Seq(Printed) /\ k \in Seq(Printed) /\ x \in Seq(Printed) /\ y \in Seq(Printed)
      /\ z \in Seq(Printed) /\ pop \o q = x /\ Len(q) = Len(ring) + Len(b)
  BY PrintedConcat
<1>3. Inside(x, y) /\ Inside(y, z)
  <2>1. Inside(x, y)
    <3>1. k \in Seq(Printed) /\ Inside(k, show)
      BY <1>2
    <3> HIDE DEF k
    <3> QED BY <3>1, InsideLonger
  <2>2. Inside(y, z)
    BY InsideFront
  <2> QED BY <2>1, <2>2
<1>4. Ends(k, show) /\ Ends(b, s) => Ends(x, y) /\ Ends(y, z)
  <2> SUFFICES ASSUME Ends(k, show), Ends(b, s) PROVE Ends(x, y) /\ Ends(y, z)
    OBVIOUS
  <2>1. Ends(x, y)
    <3>1. k \in Seq(Printed) /\ Ends(k, show)
      BY <1>2
    <3> HIDE DEF k
    <3> QED BY <3>1, EndsConcat
  <2>2. Ends(y, z)
    BY EndsConcat
  <2> QED BY <2>1, <2>2
<1>5. Len(q) <= ApiCap => r = q
  BY DEF Newest
<1>6. /\ r \in Seq(Printed) /\ Len(r) = IF Len(q) <= ApiCap THEN Len(q) ELSE ApiCap
      /\ Inside(r, q) /\ Ends(r, q)
  <2> HIDE DEF q
  <2> QED BY <1>1, <1>2, NewestIs, InsideNewest, EndsNewest, Zenon
<1>7. /\ pop \o r \in Seq(Printed) /\ Inside(pop \o r, x) /\ Ends(pop \o r, x)
  <2> HIDE DEF r, q, x
  <2>1. pop \o r \in Seq(Printed)
    BY <1>6, PrintedConcat
  <2>2. Inside(pop \o r, pop \o q)
    BY <1>2, <1>6, InsideFront
  <2>3. Ends(pop \o r, pop \o q)
    BY <1>2, <1>6, EndsConcat
  <2> QED BY <1>2, <2>1, <2>2, <2>3
<1>8. Len(r) <= ApiCap
  <2>1. Len(q) \in Nat
    BY <1>2, PrintedConcat
  <2> HIDE DEF q, r
  <2> QED BY <1>1, <1>6, <2>1
<1> HIDE DEF x, y, z, r
<1>9. Inside(pop \o r, z)
  <2> DEFINE v == pop \o r
  <2>1. v \in Seq(Printed) /\ Inside(v, x)
    BY <1>7
  <2> HIDE DEF v
  <2>2. Inside(v, y)
    BY <1>2, <1>3, <2>1, InsideTrans, Zenon
  <2>3. Inside(v, z)
    BY <1>2, <1>3, <2>1, <2>2, InsideTrans, Zenon
  <2> QED BY <2>3 DEF v
<1>10. Ends(k, show) /\ Ends(b, s) => Ends(pop \o r, z)
  <2> HIDE DEF k
  <2> QED BY <1>4, <1>7, EndsTrans
<1>11. k = show /\ b = s /\ Len(ring) + Len(s) <= ApiCap => pop \o r = z
  <2> SUFFICES ASSUME k = show, b = s, Len(ring) + Len(s) <= ApiCap PROVE pop \o r = z
    OBVIOUS
  <2>1. r = q
    BY <1>2, <1>5
  <2>2. pop \o q = x /\ x = show \o s
    BY <1>2 DEF x
  <2> QED BY <2>1, <2>2 DEF z
<1> QED BY <1>6, <1>8, <1>9, <1>10, <1>11 DEF Emits, r, z

---------------------------------------------------------------------------
(* The output invariant: what the host got and the HAL got of what was     *)
(* printed, as far as nothing overran.                                     *)

OutputTyped ==
  /\ printer \in Seq(Nat) /\ reached \in 0..Len(printer) /\ at \in 0..reached
  /\ out = [bios |-> << >>, ring |-> out.ring, pending |-> << >>]
  /\ out.ring \in Seq(Printed) /\ Len(out.ring) <= ApiCap
  /\ stdout \in Seq(Printed) /\ popped \in Seq(Printed) /\ shown \in Seq(Printed)
  /\ spilled \in [api : BOOLEAN, held : BOOLEAN, again : BOOLEAN]

\* What the host has popped and can pop, of what was shown.
HostGets(gets, all, flags) ==
  /\ Inside(gets, all)
  /\ ~flags.held => Ends(gets, all)
  /\ ~flags.held /\ ~flags.api => gets = all

OutputInv ==
  /\ OutputTyped /\ HostGets(popped \o out.ring, shown, spilled)
  /\ ~spilled.held /\ ~spilled.again => stdout = shown

\* The machine and the rings start empty.
LEMMA OutputInitially == OutputInit => OutputInv
<1> SUFFICES ASSUME OutputInit PROVE OutputInv
  OBVIOUS
<1> USE DEF OutputInit
<1>1. printer \in Seq(Nat)
  BY ConsoleOutputAssumption
<1>2. << >> \in Seq(Printed) /\ << >> \o << >> = << >> /\ Len(<< >>) = 0 /\ ApiCap \in Nat
  BY PrintedConcat, Capacities
<1>3. OutputTyped
  BY <1>1, <1>2 DEF OutputTyped
<1>4. Inside(<< >>, << >>)
  BY <1>2, InsideItself
<1>5. HostGets(<< >>, << >>, spilled)
  BY <1>4 DEF HostGets, Ends
<1> QED BY <1>2, <1>3, <1>5 DEF OutputInv

\* Between calls, Here is output a call can start from.
LEMMA HereIs ==
  ASSUME OutputTyped
  PROVE  /\ Here \in Effects /\ Here.bios = << >> /\ Here.pending = << >> /\ Fits(Here)
         /\ Here.ring = out.ring /\ Here.stdout = stdout /\ out.ring \in Seq(Printed)
         /\ [Here EXCEPT !.pending = << >>] = Here
<1>1. /\ out.bios = << >> /\ out.pending = << >> /\ out.ring \in Seq(Printed) /\ Len(out.ring) <= ApiCap
      /\ stdout \in Seq(Printed) /\ << >> \in Seq(Printed) /\ Len(<< >>) = 0 /\ ApiCap \in Nat \ {0}
  BY PrintedConcat, Capacities DEF OutputTyped
<1>2. Here = [bios |-> << >>, ring |-> out.ring, pending |-> << >>, stdout |-> stdout]
  BY <1>1 DEF Here
<1>3. Here \in Effects /\ Fits(Here)
  BY <1>1, <1>2 DEF Effects, Fits
<1>4. [Here EXCEPT !.pending = << >>] = Here
  BY <1>2
<1> QED BY <1>1, <1>2, <1>3, <1>4

\* tos_step: what the step prints goes to the HAL whole, and to the host as far as the rings hold it.
LEMMA StepKeepsOutput == OutputInv /\ Step => OutputInv'
<1> SUFFICES ASSUME OutputInv, Step PROVE OutputInv'
  OBVIOUS
<1> DEFINE n == at + 1
           s == Burst(n)
           b == Newest(s, BiosCap)
           r == kernel_step(Here, n, -1)
<1>1. /\ at < Len(printer) /\ Becomes(r) /\ at' = n /\ reached' = Larger(n, reached)
      /\ shown' = shown \o s
      /\ spilled' = [spilled EXCEPT !.api = @ \/ Overruns({n}) \/ Len(out.ring) + printer[n] > ApiCap]
      /\ printer' = printer /\ popped' = popped
  BY DEF Step
<1>2. /\ printer \in Seq(Nat) /\ reached \in 0..Len(printer) /\ at \in 0..reached
      /\ stdout \in Seq(Printed) /\ popped \in Seq(Printed) /\ shown \in Seq(Printed)
      /\ spilled \in [api : BOOLEAN, held : BOOLEAN, again : BOOLEAN]
      /\ HostGets(popped \o out.ring, shown, spilled) /\ OutputTyped
      /\ (~spilled.held /\ ~spilled.again => stdout = shown)
  BY DEF OutputInv, OutputTyped
<1>3. /\ Here \in Effects /\ Here.bios = << >> /\ Here.pending = << >> /\ Fits(Here)
      /\ Here.ring = out.ring /\ Here.stdout = stdout /\ out.ring \in Seq(Printed)
  BY <1>2, HereIs
<1>4. n \in 1..Len(printer) /\ Len(printer) \in Nat
  BY <1>1, <1>2
<1> HIDE DEF n
<1>5. s \in Seq(Printed) /\ printer[n] \in Nat /\ Len(s) = printer[n]
  BY <1>2, <1>4, BurstIs
<1>6. /\ r \in Effects /\ r.bios = << >> /\ Fits(r) /\ r.stdout = stdout \o s /\ r.pending = << >>
      /\ r.ring = Newest(out.ring \o b, ApiCap)
  <2>1. -1 \in Nat \cup {-1}
    OBVIOUS
  <2>2. StepMakes(Here, n, -1, r)
    BY <1>2, <1>3, <1>4, <2>1, KernelStepIs
  <2> HIDE DEF r
  <2> QED BY <1>3, <2>2 DEF StepMakes
<1>7. /\ out' = [bios |-> << >>, ring |-> r.ring, pending |-> << >>] /\ stdout' = stdout \o s
  BY <1>1, <1>6 DEF Becomes
<1> HIDE DEF s, r
<1>8. /\ b \in Seq(Printed) /\ Inside(b, s) /\ Ends(b, s)
  BY <1>5, Capacities, NewestIs, InsideNewest, EndsNewest
<1>9. BiosCap \in Nat /\ ApiCap \in Nat
  BY Capacities
<1>10. ~Overruns({n}) => b = s
  BY <1>5, <1>9 DEF Overruns, Newest
<1> HIDE DEF b
<1>11. /\ r.ring \in Seq(Printed) /\ Len(r.ring) <= ApiCap
       /\ Inside(popped \o r.ring, shown \o s)
       /\ (Ends(popped \o out.ring, shown) => Ends(popped \o r.ring, shown \o s))
       /\ (popped \o out.ring = shown /\ b = s /\ Len(out.ring) + Len(s) <= ApiCap
             => popped \o r.ring = shown \o s)
  <2>1. Inside(popped \o out.ring, shown)
    BY <1>2 DEF HostGets
  <2>2. Emits(popped, out.ring, shown, b, s, Newest(out.ring \o b, ApiCap))
    BY <1>2, <1>3, <1>5, <1>8, <2>1, EmitKeeps
  <2>3. Emits(popped, out.ring, shown, b, s, r.ring)
    BY <1>6, <2>2
  <2> QED BY <1>8, <2>3 DEF Emits
<1>12. /\ spilled' \in [api : BOOLEAN, held : BOOLEAN, again : BOOLEAN]
       /\ spilled'.held = spilled.held /\ spilled'.again = spilled.again
       /\ (~spilled'.api => ~spilled.api /\ ~Overruns({n}) /\ ~(Len(out.ring) + printer[n] > ApiCap))
  BY <1>1, <1>2 DEF Overruns
<1>13. HostGets(popped \o r.ring, shown \o s, spilled')
  <2>1. ~spilled'.held => Ends(popped \o r.ring, shown \o s)
    BY <1>2, <1>11, <1>12 DEF HostGets
  <2>2. ASSUME ~spilled'.held, ~spilled'.api PROVE popped \o r.ring = shown \o s
    <3>1. Len(out.ring) \in Nat
      BY <1>3, PrintedConcat
    <3>2. Len(out.ring) + Len(s) <= ApiCap
      BY <1>5, <1>9, <1>12, <2>2, <3>1
    <3>3. popped \o out.ring = shown /\ b = s
      BY <1>2, <1>10, <1>12, <2>2 DEF HostGets
    <3> QED BY <1>11, <3>2, <3>3
  <2> QED BY <1>11, <2>1, <2>2 DEF HostGets
<1>14. OutputTyped'
  <2>1. reached' \in 0..Len(printer) /\ at' \in 0..reached'
    BY <1>1, <1>2, <1>4 DEF Larger, n
  <2>2. stdout' \in Seq(Printed) /\ shown' \in Seq(Printed)
    BY <1>1, <1>2, <1>5, <1>7, PrintedConcat
  <2>3. /\ out' = [bios |-> << >>, ring |-> out'.ring, pending |-> << >>]
        /\ out'.ring \in Seq(Printed) /\ Len(out'.ring) <= ApiCap
    BY <1>7, <1>11
  <2> QED BY <1>1, <1>2, <1>12, <2>1, <2>2, <2>3 DEF OutputTyped
<1>15. HostGets(popped \o out.ring, shown, spilled)'
  <2>1. popped' \o out'.ring = popped \o r.ring /\ shown' = shown \o s
    BY <1>1, <1>7
  <2> QED BY <1>13, <2>1 DEF HostGets
<1>16. ~spilled'.held /\ ~spilled'.again => stdout' = shown'
  BY <1>1, <1>2, <1>7, <1>12
<1> QED BY <1>14, <1>15, <1>16 DEF OutputInv

\* tos_con_pop: the byte the host takes was the oldest of the ring.
LEMMA PopKeepsOutput == OutputInv /\ Pop => OutputInv'
<1> SUFFICES ASSUME OutputInv, Pop PROVE OutputInv'
  OBVIOUS
<1> DEFINE h == Head(out.ring)
           t == Tail(out.ring)
<1>1. /\ out.ring # << >> /\ popped' = Append(popped, h) /\ out' = [out EXCEPT !.ring = t]
      /\ printer' = printer /\ at' = at /\ reached' = reached /\ stdout' = stdout
      /\ shown' = shown /\ spilled' = spilled
  BY DEF Pop
<1>2. /\ OutputTyped /\ out = [bios |-> << >>, ring |-> out.ring, pending |-> << >>]
      /\ out.ring \in Seq(Printed) /\ popped \in Seq(Printed) /\ Len(out.ring) <= ApiCap
      /\ Len(out.ring) \in Nat /\ ApiCap \in Nat
  BY PrintedConcat, Capacities DEF OutputInv, OutputTyped
<1>3. h \in Printed /\ t \in Seq(Printed) /\ <<h>> \o t = out.ring /\ Len(t) = Len(out.ring) - 1
  BY <1>1, <1>2
<1> HIDE DEF h, t
<1>4. popped' = popped \o <<h>> /\ popped' \in Seq(Printed)
  <2>1. popped' \in Seq(Printed)
    BY <1>1, <1>2, <1>3, AppendProperties
  <2> QED BY <1>1, <1>2, <1>3, <2>1, AppendIsConcat
<1>5. popped' \o t = popped \o out.ring
  <2>1. popped \in Seq(Printed) /\ <<h>> \in Seq(Printed) /\ t \in Seq(Printed)
    BY <1>2, <1>3
  <2>2. (popped \o <<h>>) \o t = popped \o (<<h>> \o t)
    BY <2>1, PrintedConcat
  <2> QED BY <1>3, <1>4, <2>2
<1>6. out' = [bios |-> << >>, ring |-> t, pending |-> << >>] /\ Len(t) <= ApiCap
  BY <1>1, <1>2, <1>3
<1>7. OutputTyped'
  BY <1>1, <1>2, <1>3, <1>4, <1>6 DEF OutputTyped
<1>8. popped' \o out'.ring = popped \o out.ring
  BY <1>5, <1>6
<1> QED BY <1>1, <1>7, <1>8 DEF OutputInv, HostGets

\* A seek that succeeds gives the host what it held, which is what the steps past at printed.
LEMMA SeekDoneKeepsOutput ==
  ASSUME OutputInv, NEW target \in 0..Len(printer), SeekDone(target), UNCHANGED <<printer, popped>>
  PROVE  OutputInv'
<1> DEFINE near == Nearest(target)
           r == Replayed(Here, target, target, at)
           start == Larger(at, near)
           w == Bursts(start, target)
           u == Released(r)
           fits == Len(w) <= ApiCap
           over == Overruns(start + 1..target)
<1>1. /\ printer \in Seq(Nat) /\ reached \in 0..Len(printer) /\ at \in 0..reached
      /\ stdout \in Seq(Printed) /\ popped \in Seq(Printed) /\ shown \in Seq(Printed)
      /\ spilled \in [api : BOOLEAN, held : BOOLEAN, again : BOOLEAN]
      /\ HostGets(popped \o out.ring, shown, spilled) /\ OutputTyped
      /\ (~spilled.held /\ ~spilled.again => stdout = shown)
      /\ Len(printer) \in Nat /\ reached \in Nat /\ at \in Nat /\ target \in Nat /\ target <= Len(printer)
  BY DEF OutputInv, OutputTyped
<1>2. /\ Here \in Effects /\ Here.bios = << >> /\ Here.pending = << >> /\ Fits(Here)
      /\ Here.ring = out.ring /\ Here.stdout = stdout /\ out.ring \in Seq(Printed)
      /\ [Here EXCEPT !.pending = << >>] = Here
  BY <1>1, HereIs
<1>3. near \in 0..target
  BY <1>1, NearestIs
<1>4. start \in Nat /\ near <= start
  BY <1>1, <1>3 DEF Larger
<1>5. target <= start => w = << >>
  <2> HIDE DEF start
  <2> QED BY <1>1, <1>4, NothingPrinted
<1>6. /\ Becomes([u EXCEPT !.pending = << >>]) /\ at' = target /\ reached' = Larger(target, reached)
      /\ shown' = shown \o w
      /\ spilled' = [api   |-> spilled.api \/ Len(out.ring) + Len(w) > ApiCap \/ over,
                     held  |-> spilled.held \/ Len(w) > ApiCap,
                     again |-> spilled.again \/ Overruns(near + 1..target)]
      /\ printer' = printer /\ popped' = popped
  <2>1. (IF target > start THEN w ELSE << >>) = w
    <3> HIDE DEF start, w
    <3> QED BY <1>1, <1>4, <1>5
  <2> HIDE DEF w
  <2> QED BY <1>2, <2>1 DEF SeekDone, w
<1> HIDE DEF start, w, near
<1>7. /\ r \in Effects /\ r.bios = << >> /\ Fits(r) /\ r.ring = out.ring
      /\ (~Overruns(near + 1..target) => r.stdout = stdout)
      /\ Holds(r.pending, w, over) /\ w \in Seq(Printed)
  <2>1. target \in Nearest(target)..Len(printer)
    BY <1>1, <1>3 DEF near
  <2>2. ReplayMakes(Here, target, target, at, r)
    BY <1>1, <1>2, <2>1, ReplayedIs
  <2> HIDE DEF r
  <2> QED BY <1>2, <2>2 DEF ReplayMakes, near, start, w
<1> HIDE DEF r, over
<1>8. /\ r.pending \in Seq(Printed) /\ r.stdout \in Seq(Printed) /\ Inside(r.pending, w)
      /\ (Len(w) <= ApiCap => Ends(r.pending, w))
      /\ (Len(w) <= ApiCap /\ ~over => r.pending = w)
  BY <1>7 DEF Effects, Holds
<1>9. u = [r EXCEPT !.ring = Newest(out.ring \o r.pending, ApiCap), !.stdout = @ \o r.pending]
  BY <1>7, ReleasedIs DEF Emitted
<1> DEFINE q == Newest(out.ring \o r.pending, ApiCap)
<1>10. Emits(popped, out.ring, shown, r.pending, w, q)
  <2>1. Inside(popped \o out.ring, shown)
    BY <1>1 DEF HostGets
  <2> DEFINE p == r.pending
  <2>2. p \in Seq(Printed) /\ Inside(p, w)
    BY <1>8
  <2> HIDE DEF p
  <2>3. Emits(popped, out.ring, shown, p, w, Newest(out.ring \o p, ApiCap))
    BY <1>1, <1>2, <1>7, <2>1, <2>2, EmitKeeps
  <2> QED BY <2>3 DEF p
<1> HIDE DEF q, u
<1>11. /\ out' = [bios |-> << >>, ring |-> q, pending |-> << >>] /\ stdout' = r.stdout \o r.pending
  <2>1. /\ u.bios = << >> /\ u.ring = q /\ u.stdout = r.stdout \o r.pending
        /\ u \in [bios : Seq(Printed), ring : {q}, pending : Seq(Printed), stdout : {r.stdout \o r.pending}]
    BY <1>7, <1>9 DEF Effects, q
  <2> QED BY <1>6, <2>1 DEF Becomes
<1>12. /\ q \in Seq(Printed) /\ Len(q) <= ApiCap
       /\ Inside(popped \o q, shown \o w)
       /\ (Ends(popped \o out.ring, shown) /\ Ends(r.pending, w) => Ends(popped \o q, shown \o w))
       /\ (popped \o out.ring = shown /\ r.pending = w /\ Len(out.ring) + Len(w) <= ApiCap
             => popped \o q = shown \o w)
  BY <1>10 DEF Emits
<1>13. /\ Len(out.ring) \in Nat /\ Len(w) \in Nat /\ ApiCap \in Nat
  BY <1>2, <1>7, PrintedConcat, Capacities
<1>14. /\ spilled' \in [api : BOOLEAN, held : BOOLEAN, again : BOOLEAN]
       /\ (~spilled'.api => ~spilled.api /\ ~over /\ Len(out.ring) + Len(w) <= ApiCap)
       /\ (~spilled'.held => ~spilled.held /\ Len(w) <= ApiCap)
       /\ (~spilled'.again => ~spilled.again /\ ~Overruns(near + 1..target))
  <2>1. over \in BOOLEAN /\ Overruns(near + 1..target) \in BOOLEAN
    BY DEF Overruns, over
  <2>2. /\ spilled'.api = (spilled.api \/ Len(out.ring) + Len(w) > ApiCap \/ over)
        /\ spilled'.held = (spilled.held \/ Len(w) > ApiCap)
        /\ spilled'.again = (spilled.again \/ Overruns(near + 1..target))
    BY <1>6
  <2>3. spilled.api \in BOOLEAN /\ spilled.held \in BOOLEAN /\ spilled.again \in BOOLEAN
    BY <1>1
  <2> DEFINE api == spilled.api \/ Len(out.ring) + Len(w) > ApiCap \/ over
             held == spilled.held \/ Len(w) > ApiCap
             again == spilled.again \/ Overruns(near + 1..target)
  <2>4. api \in BOOLEAN /\ held \in BOOLEAN /\ again \in BOOLEAN
    BY <2>1, <2>3, Zenon
  <2>5. spilled' = [api |-> api, held |-> held, again |-> again]
    BY <1>6
  <2> HIDE DEF api, held, again
  <2>6. spilled' \in [api : BOOLEAN, held : BOOLEAN, again : BOOLEAN]
    BY <2>4, <2>5
  <2>7. Len(out.ring) + Len(w) > ApiCap \/ Len(out.ring) + Len(w) <= ApiCap
    BY <1>13
  <2>8. Len(w) > ApiCap \/ Len(w) <= ApiCap
    BY <1>13
  <2> QED BY <2>2, <2>6, <2>7, <2>8, Zenon
<1>15. ~Overruns(near + 1..target) => ~over
  <2>1. start + 1..target \subseteq near + 1..target
    BY <1>1, <1>3, <1>4
  <2> QED BY <2>1 DEF Overruns, over
<1>16. HostGets(popped \o q, shown \o w, spilled')
  <2>1. ~spilled'.held => Ends(popped \o q, shown \o w)
    BY <1>1, <1>8, <1>12, <1>14 DEF HostGets
  <2>2. ~spilled'.held /\ ~spilled'.api => popped \o q = shown \o w
    BY <1>1, <1>8, <1>12, <1>14 DEF HostGets
  <2> QED BY <1>12, <2>1, <2>2 DEF HostGets
<1>17. OutputTyped'
  <2>1. reached' \in 0..Len(printer) /\ at' \in 0..reached'
    BY <1>1, <1>6 DEF Larger
  <2>2. stdout' \in Seq(Printed) /\ shown' \in Seq(Printed)
    BY <1>1, <1>6, <1>7, <1>8, <1>11, PrintedConcat
  <2>3. /\ out' = [bios |-> << >>, ring |-> out'.ring, pending |-> << >>]
        /\ out'.ring \in Seq(Printed) /\ Len(out'.ring) <= ApiCap
    BY <1>11, <1>12
  <2> QED BY <1>1, <1>6, <1>14, <2>1, <2>2, <2>3 DEF OutputTyped
<1>18. HostGets(popped \o out.ring, shown, spilled)'
  <2>1. popped' \o out'.ring = popped \o q /\ shown' = shown \o w
    BY <1>6, <1>11
  <2> QED BY <1>16, <2>1 DEF HostGets
<1>19. ~spilled'.held /\ ~spilled'.again => stdout' = shown'
  BY <1>1, <1>6, <1>7, <1>8, <1>11, <1>14, <1>15
<1> QED BY <1>17, <1>18, <1>19 DEF OutputInv

\* A seek that fails gives the host nothing.
LEMMA SeekFailedKeepsOutput ==
  ASSUME OutputInv, NEW target \in 0..Len(printer), NEW stop \in Nearest(target)..target,
         SeekFailed(target, stop), UNCHANGED <<printer, popped>>
  PROVE  OutputInv'
<1> DEFINE near == Nearest(target)
           r == Replayed(Here, target, stop, at)
           cut == [r EXCEPT !.pending = << >>]
           back == Replayed(cut, at, at, at)
           moved == stop # at
           last == IF moved THEN back ELSE r
<1>1. /\ printer \in Seq(Nat) /\ reached \in 0..Len(printer) /\ at \in 0..reached
      /\ stdout \in Seq(Printed) /\ popped \in Seq(Printed) /\ shown \in Seq(Printed)
      /\ spilled \in [api : BOOLEAN, held : BOOLEAN, again : BOOLEAN]
      /\ HostGets(popped \o out.ring, shown, spilled) /\ OutputTyped
      /\ (~spilled.held /\ ~spilled.again => stdout = shown)
      /\ Len(printer) \in Nat /\ reached \in Nat /\ at \in Nat /\ target \in Nat /\ target <= Len(printer)
  BY DEF OutputInv, OutputTyped
<1>2. /\ Here \in Effects /\ Here.bios = << >> /\ Here.pending = << >> /\ Fits(Here)
      /\ Here.ring = out.ring /\ Here.stdout = stdout /\ out.ring \in Seq(Printed)
      /\ [Here EXCEPT !.pending = << >>] = Here
  BY <1>1, HereIs
<1>3. near \in 0..target /\ Nearest(at) \in 0..at
  BY <1>1, NearestIs
<1>4. stop \in Nat /\ stop <= Len(printer) /\ stop \in Nearest(target)..Len(printer) /\ at \in Nearest(at)..Len(printer)
  BY <1>1, <1>3
<1>5. /\ Becomes([last EXCEPT !.pending = << >>])
      /\ spilled' = [spilled EXCEPT !.again = @ \/ Overruns(near + 1..stop)
                                                \/ (moved /\ Overruns(Nearest(at) + 1..at))]
      /\ reached' = Larger(stop, reached) /\ at' = at /\ shown' = shown
      /\ printer' = printer /\ popped' = popped
  BY <1>2 DEF SeekFailed
<1>6. /\ r \in Effects /\ r.bios = << >> /\ Fits(r) /\ r.ring = out.ring
      /\ (~Overruns(near + 1..stop) => r.stdout = stdout)
  <2>1. ReplayMakes(Here, target, stop, at, r)
    BY <1>1, <1>2, <1>4, ReplayedIs
  <2> HIDE DEF r
  <2> QED BY <1>2, <2>1 DEF ReplayMakes
<1> HIDE DEF r, near
<1>7. /\ cut \in Effects /\ cut.bios = << >> /\ cut.pending = << >> /\ Fits(cut)
      /\ cut.ring = r.ring /\ cut.stdout = r.stdout
  <2>1. << >> \in Seq(Printed) /\ Len(<< >>) = 0 /\ ApiCap \in Nat
    BY PrintedConcat, Capacities
  <2> QED BY <1>6, <2>1 DEF Effects, Fits
<1> HIDE DEF cut
<1>8. /\ back \in Effects /\ back.bios = << >> /\ Fits(back) /\ back.ring = cut.ring
      /\ (~Overruns(Nearest(at) + 1..at) => back.stdout = cut.stdout)
  <2>1. ReplayMakes(cut, at, at, at, back)
    BY <1>1, <1>4, <1>7, ReplayedIs
  <2> HIDE DEF back
  <2> QED BY <2>1 DEF ReplayMakes
<1> HIDE DEF back
<1>9. /\ last \in Effects /\ last.bios = << >> /\ last.ring = out.ring
      /\ (~Overruns(near + 1..stop) /\ (moved => ~Overruns(Nearest(at) + 1..at)) => last.stdout = stdout)
  BY <1>6, <1>7, <1>8
<1> HIDE DEF last
<1>10. out' = [bios |-> << >>, ring |-> out.ring, pending |-> << >>] /\ stdout' = last.stdout
  BY <1>5, <1>9 DEF Becomes, Effects
<1>11. /\ spilled' \in [api : BOOLEAN, held : BOOLEAN, again : BOOLEAN]
       /\ spilled'.api = spilled.api /\ spilled'.held = spilled.held
       /\ (~spilled'.again => /\ ~spilled.again /\ ~Overruns(near + 1..stop)
                              /\ (moved => ~Overruns(Nearest(at) + 1..at)))
  BY <1>1, <1>5 DEF Overruns
<1>12. OutputTyped'
  <2>1. reached' \in 0..Len(printer) /\ at' \in 0..reached'
    BY <1>1, <1>4, <1>5 DEF Larger
  <2>2. stdout' \in Seq(Printed)
    BY <1>9, <1>10 DEF Effects
  <2>3. /\ out' = [bios |-> << >>, ring |-> out'.ring, pending |-> << >>]
        /\ out'.ring \in Seq(Printed) /\ Len(out'.ring) <= ApiCap
    BY <1>1, <1>10 DEF OutputTyped
  <2> QED BY <1>1, <1>5, <1>11, <2>1, <2>2, <2>3 DEF OutputTyped
<1>13. HostGets(popped \o out.ring, shown, spilled)'
  <2>1. popped' \o out'.ring = popped \o out.ring /\ shown' = shown
    BY <1>5, <1>10
  <2> QED BY <1>1, <1>11, <2>1 DEF HostGets
<1>14. ~spilled'.held /\ ~spilled'.again => stdout' = shown'
  BY <1>1, <1>5, <1>9, <1>10, <1>11
<1> QED BY <1>12, <1>13, <1>14 DEF OutputInv

\* Whatever is stepped, popped and sought, the host has what was printed as far as no ring overran,
\* in order, and the HAL has all of it as far as no seek overran: kernel_step, tos_con_pop, tos_seek.
THEOREM ConsoleOutputInvariant == OutputSpec => []OutputInv
<1>1. OutputInv /\ [OutputNext]_outputVars => OutputInv'
  <2> SUFFICES ASSUME OutputInv, [OutputNext]_outputVars PROVE OutputInv'
    OBVIOUS
  <2>1. CASE Step
    BY <2>1, StepKeepsOutput
  <2>2. CASE Pop
    BY <2>2, PopKeepsOutput
  <2>3. ASSUME NEW target \in 0..Len(printer), tos_seek(target) PROVE OutputInv'
    <3>1. UNCHANGED <<printer, popped>>
      BY <2>3 DEF tos_seek
    <3>2. CASE SeekDone(target)
      BY <3>1, <3>2, SeekDoneKeepsOutput
    <3>3. ASSUME NEW stop \in Nearest(target)..target, SeekFailed(target, stop) PROVE OutputInv'
      BY <3>1, <3>3, SeekFailedKeepsOutput
    <3> QED BY <2>3, <3>2, <3>3 DEF tos_seek
  <2>4. CASE UNCHANGED outputVars
    BY <2>4 DEF outputVars, OutputInv, OutputTyped, HostGets
  <2> QED BY <2>1, <2>2, <2>3, <2>4 DEF OutputNext
<1> QED BY <1>1, OutputInitially, PTL DEF OutputSpec

\* bios.c:67: for every program, every size of the rings and every interval between snapshots, what
\* hal_con_out was given is what was printed for the first time, in order, unless a replay overran.
THEOREM StdoutStaysFaithful == OutputSpec => []StdoutFaithful
<1>1. OutputInv => StdoutFaithful
  BY DEF OutputInv, StdoutFaithful
<1> QED BY <1>1, ConsoleOutputInvariant, PTL

\* api.c:88, 101: for every size of the rings, what the host popped and can pop is what was printed,
\* in order; some of it is left out only when a ring or g_pending was full.
THEOREM HostStaysFaithful == OutputSpec => []HostFaithful
<1>1. OutputInv => HostFaithful
  <2> SUFFICES ASSUME OutputInv PROVE HostFaithful
    OBVIOUS
  <2> DEFINE gets == popped \o out.ring
  <2>1. gets \in Seq(Printed) /\ shown \in Seq(Printed) /\ HostGets(gets, shown, spilled)
    BY PrintedConcat DEF OutputInv, OutputTyped
  <2> HIDE DEF gets
  <2>2. IsPartOf(gets, shown)
    BY <2>1, InsideIsPart DEF HostGets
  <2> QED BY <2>1, <2>2 DEF HostFaithful, HostGets, gets
<1> QED BY <1>1, ConsoleOutputInvariant, PTL

\* api.c:89: for every size of the rings, the last byte printed is there for the host, whatever the
\* ring dropped, unless a seek held more than g_pending takes.
THEOREM NewestStaysKept == OutputSpec => []NewestKept
<1>1. OutputInv => NewestKept
  BY DEF OutputInv, HostGets, Ends, NewestKept, Last
<1> QED BY <1>1, ConsoleOutputInvariant, PTL
=============================================================================
