------------------------------ MODULE Induction ------------------------------
(***************************************************************************)
(* Induction over the natural numbers, in the form the proofs need it: the *)
(* property is a set, and what is iterated is a function.                  *)
(***************************************************************************)
EXTENDS Integers, TLAPS, WellFoundedInduction

\* A non-empty set of numbers has a least one.
LEMMA NatMinimum ==
  ASSUME NEW S, S \subseteq Nat, S # {}
  PROVE  \E b \in S : \A c \in S : b <= c
<1>1. \E b \in S : \A c \in S : ~ (<<c, b>> \in OpToRel(<, Nat))
  BY NatLessThanWellFounded, WFMin
<1>2. PICK b \in S : \A c \in S : ~ (<<c, b>> \in OpToRel(<, Nat))
  BY <1>1
<1>3. ASSUME NEW c \in S PROVE b <= c
  <2>1. b \in Nat /\ c \in Nat
    OBVIOUS
  <2>2. ~ (c < b)
    BY <1>2, <2>1 DEF OpToRel
  <2> QED BY <2>1, <2>2
<1> QED BY <1>3

\* A non-empty set of numbers with a bound has a greatest one.
LEMMA NatMaximum ==
  ASSUME NEW S, S \subseteq Nat, S # {}, NEW bound \in Nat, \A c \in S : c <= bound
  PROVE  \E b \in S : \A c \in S : c <= b
<1> DEFINE Gaps == {bound - c : c \in S}
<1>1. Gaps \subseteq Nat /\ Gaps # {}
  <2>1. ASSUME NEW c \in S PROVE bound - c \in Nat
    <3>1. c \in Nat /\ c <= bound
      OBVIOUS
    <3> QED BY <3>1
  <2> QED BY <2>1
<1>2. PICK g \in Gaps : \A h \in Gaps : g <= h
  BY <1>1, NatMinimum
<1>3. PICK b \in S : g = bound - b
  OBVIOUS
<1>4. ASSUME NEW c \in S PROVE c <= b
  <2>1. g <= bound - c
    BY <1>2
  <2>2. b \in Nat /\ c \in Nat
    OBVIOUS
  <2> QED BY <1>3, <2>1, <2>2
<1> QED BY <1>4

\* A set that holds 0 and, with a number below N, its successor, holds 0..N.
LEMMA UpTo ==
  ASSUME NEW N \in Nat, NEW Good, 0 \in Good,
         \A n \in 0..(N - 1) : n \in Good => n + 1 \in Good
  PROVE  0..N \subseteq Good
<1> DEFINE Bad == (0..N) \ Good
<1> SUFFICES ASSUME Bad # {} PROVE FALSE
  OBVIOUS
<1>1. Bad \subseteq Nat
  OBVIOUS
<1>2. PICK b \in Bad : \A c \in Bad : b <= c
  BY <1>1, NatMinimum
<1>3. b \in 1..N
  BY <1>2
<1>4. b - 1 \in Good
  <2>1. b - 1 \in 0..N
    BY <1>3
  <2>2. b - 1 \notin Bad
    BY <1>2, <1>3
  <2> QED BY <2>1, <2>2
<1>5. b - 1 \in 0..(N - 1) /\ (b - 1) + 1 = b
  BY <1>3
<1>6. b \in Good
  BY <1>4, <1>5
<1> QED BY <1>2, <1>6

\* f is what the steps step[1], step[2], ... lead through from a.
IsRun(f, S, a, N, step) ==
  f \in [0..N -> S] /\ f[0] = a /\ \A n \in 1..N : f[n] = step[n][f[n - 1]]

\* From a, the steps step[1], step[2], ... lead through a sequence of states.
LEMMA Iteration ==
  ASSUME NEW S, NEW a \in S, NEW N \in Nat, NEW step \in [1..N -> [S -> S]]
  PROVE  \E f : IsRun(f, S, a, N, step)
<1> DEFINE Runs(n) == {f \in [0..n -> S] : f[0] = a /\ \A i \in 1..n : f[i] = step[i][f[i - 1]]}
           Good == {n \in Nat : Runs(n) # {}}
<1>1. 0 \in Good
  <2>1. [i \in 0..0 |-> a] \in Runs(0)
    OBVIOUS
  <2> QED BY <2>1
<1>2. ASSUME NEW n \in 0..(N - 1), n \in Good PROVE n + 1 \in Good
  <2>1. PICK f \in [0..n -> S] : f[0] = a /\ \A i \in 1..n : f[i] = step[i][f[i - 1]]
    BY <1>2
  <2>2. n \in 0..n /\ n + 1 \in 1..N /\ n + 1 \in Nat /\ (n + 1) - 1 = n
    OBVIOUS
  <2>3. step[n + 1][f[n]] \in S
    BY <2>2
  <2> DEFINE g == [i \in 0..(n + 1) |-> IF i <= n THEN f[i] ELSE step[n + 1][f[n]]]
  <2>4. g \in [0..(n + 1) -> S]
    BY <2>3
  <2>5. g[0] = a
    BY <2>1
  <2>6. ASSUME NEW i \in 1..(n + 1) PROVE g[i] = step[i][g[i - 1]]
    <3>1. CASE i <= n
      <4>1. i \in 1..n /\ i - 1 \in 0..(n + 1) /\ i - 1 <= n
        BY <3>1
      <4>2. g[i] = f[i] /\ g[i - 1] = f[i - 1]
        BY <3>1, <4>1
      <4> QED BY <2>1, <4>1, <4>2
    <3>2. CASE ~(i <= n)
      <4>1. i = n + 1
        BY <3>2
      <4>2. g[n] = f[n] /\ g[n + 1] = step[n + 1][f[n]]
        BY <2>2
      <4> QED BY <2>2, <4>1, <4>2
    <3> QED BY <3>1, <3>2
  <2>7. g \in Runs(n + 1)
    BY <2>4, <2>5, <2>6
  <2> QED BY <2>2, <2>7
<1> HIDE DEF Good
<1>3. 0..N \subseteq Good
  BY <1>1, <1>2, UpTo
<1>4. N \in Good
  BY <1>3
<1> QED BY <1>4 DEF Good, IsRun

\* The turns of step lead from one of the sets G to the next, and f takes them all, from a.
Leads(step, N, S, G, a) ==
  /\ N \in Nat /\ G \in [0..N -> SUBSET S] /\ a \in G[0]
  /\ \A n \in 1..N : \A x \in G[n - 1] : step[n][x] \in G[n]
Takes(f, step, N, S, G, a) ==
  /\ f \in [0..N -> S] /\ f[0] = a
  /\ \A n \in 0..N : f[n] \in G[n]
  /\ \A n \in 1..N : f[n] = step[n][f[n - 1]]

\* A recursive function whose turns lead from one set to the next ends in the last of them.
LEMMA FoldIn ==
  ASSUME NEW N, NEW S, NEW G, NEW a, NEW step, Leads(step, N, S, G, a)
  PROVE  \E f : Takes(f, step, N, S, G, a)
<1>0. /\ N \in Nat /\ G \in [0..N -> SUBSET S] /\ a \in G[0]
      /\ \A n \in 1..N : \A x \in G[n - 1] : step[n][x] \in G[n]
  BY DEF Leads
<1> DEFINE next == [n \in 1..N |-> [x \in S |-> IF x \in G[n - 1] THEN step[n][x] ELSE a]]
<1>1. a \in S /\ \A n \in 1..N : n - 1 \in 0..N /\ n \in 0..N
  <2>1. 0 \in 0..N
    BY <1>0
  <2> QED BY <1>0, <2>1
<1>2. next \in [1..N -> [S -> S]]
  <2>1. ASSUME NEW n \in 1..N, NEW x \in S PROVE (IF x \in G[n - 1] THEN step[n][x] ELSE a) \in S
    <3>1. n \in 0..N
      BY <1>1
    <3> QED BY <1>0, <1>1, <3>1
  <2> QED BY <2>1
<1>3. PICK f : IsRun(f, S, a, N, next)
  <2> HIDE DEF next
  <2> QED BY <1>0, <1>1, <1>2, Iteration
<1>4. f \in [0..N -> S] /\ f[0] = a /\ \A n \in 1..N : f[n] = next[n][f[n - 1]]
  BY <1>3 DEF IsRun
<1>5. ASSUME NEW n \in 1..N, f[n - 1] \in G[n - 1] PROVE f[n] = step[n][f[n - 1]] /\ f[n] \in G[n]
  <2>1. f[n - 1] \in S /\ f[n] = next[n][f[n - 1]]
    BY <1>1, <1>4
  <2>2. f[n] = step[n][f[n - 1]]
    BY <1>5, <2>1
  <2> QED BY <1>0, <1>5, <2>2
<1> DEFINE Good == {n \in 0..N : f[n] \in G[n]}
<1>6. 0 \in Good
  BY <1>0, <1>4
<1>7. ASSUME NEW n \in 0..(N - 1), n \in Good PROVE n + 1 \in Good
  <2>1. n + 1 \in 1..N /\ (n + 1) - 1 = n /\ n + 1 \in 0..N
    BY <1>0
  <2>2. f[(n + 1) - 1] \in G[(n + 1) - 1]
    BY <1>7, <2>1
  <2> QED BY <1>5, <2>1, <2>2
<1>8. 0..N \subseteq Good
  <2> HIDE DEF Good
  <2> QED BY <1>0, <1>6, <1>7, UpTo
<1>9. \A n \in 0..N : f[n] \in G[n]
  BY <1>8
<1>10. \A n \in 1..N : f[n] = step[n][f[n - 1]]
  BY <1>1, <1>5, <1>9
<1> QED BY <1>4, <1>9, <1>10 DEF Takes

\* Functions that begin alike and go on alike end alike.
LEMMA Alike ==
  ASSUME NEW N \in Nat, NEW f, NEW g, f[0] = g[0],
         \A n \in 1..N : f[n - 1] = g[n - 1] => f[n] = g[n]
  PROVE  f[N] = g[N]
<1> DEFINE Good == {n \in 0..N : f[n] = g[n]}
<1>1. 0 \in Good
  OBVIOUS
<1>2. ASSUME NEW n \in 0..(N - 1), n \in Good PROVE n + 1 \in Good
  <2>1. n + 1 \in 1..N /\ (n + 1) - 1 = n /\ n + 1 \in 0..N
    OBVIOUS
  <2>2. f[(n + 1) - 1] = g[(n + 1) - 1]
    BY <1>2, <2>1
  <2> QED BY <2>1, <2>2
<1>3. 0..N \subseteq Good
  <2> HIDE DEF Good
  <2> QED BY <1>1, <1>2, UpTo
<1> QED BY <1>3
=============================================================================
