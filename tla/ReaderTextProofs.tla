-------------------------- MODULE ReaderTextProofs --------------------------
(***************************************************************************)
(* The reader on any text: what a task may rely on in the text it gets,    *)
(* that an error stops all calls, that a file of directives is read as     *)
(* these directives, and that the reader accepts no other file.            *)
(***************************************************************************)
EXTENDS ReaderText, SequenceTheorems, WellFoundedInduction, TLAPS

\* A set of numbers that is not empty has a least one.
LEMMA Least ==
  ASSUME NEW T, T \subseteq Nat, T # {}
  PROVE  \E x \in T : \A y \in T : x <= y
<1> DEFINE R == OpToRel(<, Nat)
<1>1. IsWellFoundedOn(R, Nat)
  BY NatLessThanWellFounded
<1>2. \A x, y \in Nat : <<y, x>> \in R <=> y < x
  BY DEF OpToRel
<1> HIDE DEF R
<1>3. PICK x \in T : \A y \in T : <<y, x>> \notin R
  BY <1>1, WFMin
<1>4. ASSUME NEW y \in T PROVE x <= y
  <2>1. x \in Nat /\ y \in Nat /\ ~(y < x)
    BY <1>2, <1>3
  <2> QED BY <2>1
<1> QED BY <1>4

\* A value for each position of a text, each from the one before it.
Along(g, N, z, F) == g[0] = z /\ \A i \in 1..N : g[i] = F[i][g[i - 1]]
StepsIn(F, N, X) == \A i \in 1..N, x \in X : F[i][x] \in X

\* There is such a function ...
LEMMA Unfolds ==
  ASSUME NEW N \in Nat, NEW X, NEW z \in X, NEW F, StepsIn(F, N, X)
  PROVE  \E g \in [0..N -> X] : Along(g, N, z, F)
<1> DEFINE Solves(g, n) == g \in [0..n -> X] /\ g[0] = z /\ \A i \in 1..n : g[i] = F[i][g[i - 1]]
           T == {n \in 0..N : ~\E g : Solves(g, n)}
<1>1. ASSUME T # {} PROVE FALSE
  <2>1. PICK n \in T : \A m \in T : n <= m
    <3>1. T \subseteq Nat
      OBVIOUS
    <3> HIDE DEF T
    <3> QED BY <1>1, <3>1, Least
  <2>2. n \in 0..N /\ n \in Nat /\ ~\E g : Solves(g, n)
    OBVIOUS
  <2>3. CASE n = 0
    <3>1. Solves([i \in 0..0 |-> z], 0)
      OBVIOUS
    <3> HIDE DEF Solves
    <3> QED BY <2>2, <2>3, <3>1
  <2>4. CASE n # 0
    <3>1. n - 1 \in 0..N /\ ~(n <= n - 1)
      BY <2>2, <2>4
    <3>2. PICK g : Solves(g, n - 1)
      <4> HIDE DEF Solves
      <4> QED BY <2>1, <3>1
    <3> DEFINE e == [i \in 0..n |-> IF i < n THEN g[i] ELSE F[n][g[n - 1]]]
    <3>3. \A i \in 0..n - 1 : e[i] = g[i]
      BY <2>2
    <3>4. n \in 1..N /\ n - 1 \in 0..n - 1 /\ g[n - 1] \in X
      BY <2>2, <2>4, <3>2
    <3>5. e[n] = F[n][e[n - 1]] /\ e[n] \in X
      BY <2>2, <3>3, <3>4 DEF StepsIn
    <3>6. e \in [0..n -> X]
      <4>1. \A i \in 0..n - 1 : e[i] \in X
        BY <3>2, <3>3
      <4>2. \A i \in 0..n : i \in 0..n - 1 \/ i = n
        BY <2>2
      <4>3. \A i \in 0..n : e[i] \in X
        <5> HIDE DEF e
        <5> QED BY <3>5, <4>1, <4>2
      <4> QED BY <4>3
    <3>7. ASSUME NEW i \in 1..n PROVE e[i] = F[i][e[i - 1]]
      <4>1. CASE i = n
        BY <3>5, <4>1
      <4>2. CASE i # n
        <5>1. i \in 1..n - 1 /\ i \in 0..n - 1 /\ i - 1 \in 0..n - 1
          BY <2>2, <4>2
        <5> HIDE DEF e
        <5> QED BY <3>2, <3>3, <5>1
      <4> QED BY <4>1, <4>2
    <3>8. e[0] = z
      <4>1. 0 \in 0..n - 1
        BY <3>1
      <4> HIDE DEF e
      <4> QED BY <3>2, <3>3, <4>1
    <3> HIDE DEF e
    <3> QED BY <2>2, <3>6, <3>7, <3>8
  <2> QED BY <2>3, <2>4
<1>2. N \in 0..N
  OBVIOUS
<1>3. \E g : Solves(g, N)
  <2> HIDE DEF Solves
  <2> QED BY <1>1, <1>2
<1> QED BY <1>3 DEF Along

\* ... and only one: a longer text changes nothing of it.
LEMMA Agrees ==
  ASSUME NEW N \in Nat, NEW z, NEW F, NEW f, NEW g, Along(f, N, z, F), Along(g, N, z, F)
  PROVE  \A i \in 0..N : f[i] = g[i]
<1> DEFINE T == {i \in 0..N : f[i] # g[i]}
<1> SUFFICES ASSUME T # {} PROVE FALSE
  OBVIOUS
<1>1. T \subseteq Nat
  OBVIOUS
<1>2. PICK n \in T : \A m \in T : n <= m
  <2> HIDE DEF T
  <2> QED BY <1>1, Least
<1>3. n \in 1..N /\ n - 1 \in 0..N /\ ~(n <= n - 1)
  BY DEF Along
<1>4. f[n - 1] = g[n - 1]
  BY <1>2, <1>3
<1> QED BY <1>2, <1>3, <1>4 DEF Along

-----------------------------------------------------------------------------
(* Escapes and Braces unfolded, and what one more character adds to them. *)

EscapeStep(t) == [i \in 1..Len(t) + 1 |-> [e \in BOOLEAN |-> i > 1 /\ t[i - 1] = "backslash" /\ ~e]]

\* Whether a character is escaped depends on the one before it.
LEMMA EscapesFacts ==
  ASSUME NEW t \in Seq(Symbol)
  PROVE  /\ Escapes(t) \in [0..Len(t) + 1 -> BOOLEAN]
         /\ Along(Escapes(t), Len(t) + 1, FALSE, EscapeStep(t))
<1> DEFINE Rest(g) == [i \in 0..Len(t) + 1 |-> i > 1 /\ t[i - 1] = "backslash" /\ ~g[i - 1]]
           e == CHOOSE g : g = Rest(g)
<1>1. StepsIn(EscapeStep(t), Len(t) + 1, BOOLEAN) /\ Len(t) + 1 \in Nat /\ FALSE \in BOOLEAN
  BY DEF EscapeStep, StepsIn
<1>2. PICK g \in [0..Len(t) + 1 -> BOOLEAN] : Along(g, Len(t) + 1, FALSE, EscapeStep(t))
  BY <1>1, Unfolds
<1>3. \A i \in 1..Len(t) + 1 : g[i] = (i > 1 /\ t[i - 1] = "backslash" /\ ~g[i - 1])
  <2> SUFFICES ASSUME NEW i \in 1..Len(t) + 1 PROVE g[i] = (i > 1 /\ t[i - 1] = "backslash" /\ ~g[i - 1])
    OBVIOUS
  <2>1. g[i - 1] \in BOOLEAN
    BY <1>2
  <2> QED BY <1>2, <2>1 DEF EscapeStep, Along
<1>4. g = Rest(g)
  <2>1. \A i \in 0..Len(t) + 1 : i = 0 \/ i \in 1..Len(t) + 1
    OBVIOUS
  <2>2. \A i \in 0..Len(t) + 1 : g[i] = Rest(g)[i]
    BY <1>2, <1>3, <2>1 DEF Along
  <2> QED BY <1>2, <2>2
<1>5. e = Rest(e)
  BY <1>4
<1>6. Escapes(t) = e
  BY DEF Escapes
<1>7. \A i \in 0..Len(t) + 1 : e[i] = (i > 1 /\ t[i - 1] = "backslash" /\ ~e[i - 1])
  <2> HIDE DEF e
  <2> QED BY <1>5
<1> HIDE DEF e
<1>8. e \in [0..Len(t) + 1 -> BOOLEAN]
  BY <1>5
<1>9. ASSUME NEW i \in 1..Len(t) + 1 PROVE e[i] = EscapeStep(t)[i][e[i - 1]]
  <2>1. e[i - 1] \in BOOLEAN
    BY <1>8
  <2> QED BY <1>7, <2>1 DEF EscapeStep
<1>10. e[0] = FALSE
  <2>1. 0 \in 0..Len(t) + 1 /\ ~(0 > 1)
    OBVIOUS
  <2>2. e[0] = (0 > 1 /\ t[0 - 1] = "backslash" /\ ~e[0 - 1])
    BY <1>7, <2>1
  <2> QED BY <2>1, <2>2, Zenon
<1> QED BY <1>6, <1>8, <1>9, <1>10 DEF Along

LEMMA EscapesGrow ==
  ASSUME NEW t \in Seq(Symbol), NEW c \in Symbol, NEW u, u = Append(t, c)
  PROVE  /\ \A i \in 0..Len(t) + 1 : Escapes(u)[i] = Escapes(t)[i]
         /\ Escapes(u)[Len(u) + 1] <=> c = "backslash" /\ ~Escapes(t)[Len(t) + 1]
<1>1. u \in Seq(Symbol) /\ Len(t) \in Nat /\ Len(u) = Len(t) + 1 /\ u[Len(u)] = c
      /\ Len(u) \in Nat /\ \A i \in 1..Len(t) : u[i] = t[i]
  OBVIOUS
<1>2. \A i \in 1..Len(t) + 1 : i \in 1..Len(u) + 1 /\ EscapeStep(u)[i] = EscapeStep(t)[i]
  <2> SUFFICES ASSUME NEW i \in 1..Len(t) + 1
               PROVE  i \in 1..Len(u) + 1 /\ EscapeStep(u)[i] = EscapeStep(t)[i]
    OBVIOUS
  <2>1. i \in 1..Len(u) + 1 /\ (i > 1 => i - 1 \in 1..Len(t))
    BY <1>1
  <2>2. i > 1 => u[i - 1] = t[i - 1]
    BY <1>1, <2>1
  <2> QED BY <2>1, <2>2 DEF EscapeStep
<1>3. PICK f : f = Escapes(u)
  OBVIOUS
<1>4. PICK g : g = Escapes(t)
  OBVIOUS
<1>5. f \in [0..Len(u) + 1 -> BOOLEAN] /\ Along(f, Len(u) + 1, FALSE, EscapeStep(u))
  BY <1>1, <1>3, EscapesFacts
<1>6. Along(g, Len(t) + 1, FALSE, EscapeStep(t))
  BY <1>4, EscapesFacts
<1>7. Along(f, Len(t) + 1, FALSE, EscapeStep(t))
  BY <1>2, <1>5, Zenon DEF Along
<1>8. \A i \in 0..Len(t) + 1 : f[i] = g[i]
  <2>1. PICK n \in Nat : n = Len(t) + 1
    BY <1>1
  <2>2. PICK z : z = FALSE
    OBVIOUS
  <2>3. PICK F : F = EscapeStep(t)
    OBVIOUS
  <2>4. Along(g, n, z, F) /\ Along(f, n, z, F)
    BY <1>6, <1>7, <2>1, <2>2, <2>3, Zenon
  <2>5. \A i \in 0..n : f[i] = g[i]
    BY <2>1, <2>4, Agrees
  <2> QED BY <2>1, <2>5
<1>9. f[Len(u) + 1] <=> c = "backslash" /\ ~g[Len(t) + 1]
  <2>1. Len(u) + 1 \in 1..Len(u) + 1 /\ Len(u) + 1 > 1 /\ Len(u) + 1 - 1 = Len(u)
    BY <1>1
  <2>2. f[Len(u)] = g[Len(t) + 1] /\ f[Len(u)] \in BOOLEAN
    <3>1. Len(t) + 1 \in 0..Len(t) + 1 /\ Len(u) = Len(t) + 1 /\ Len(u) \in 0..Len(u) + 1
      BY <1>1
    <3>2. f[Len(t) + 1] = g[Len(t) + 1]
      BY <1>8, <3>1, Zenon
    <3>3. f[Len(u)] \in BOOLEAN
      BY <1>5, <3>1, Zenon
    <3> QED BY <3>1, <3>2, <3>3, Zenon
  <2>3. f[Len(u) + 1] = EscapeStep(u)[Len(u) + 1][f[Len(u)]]
    BY <1>5, <2>1 DEF Along
  <2>4. EscapeStep(u)[Len(u) + 1][f[Len(u)]] = (u[Len(u)] = "backslash" /\ ~f[Len(u)])
    BY <2>1, <2>2 DEF EscapeStep
  <2> QED BY <1>1, <2>2, <2>3, <2>4
<1> QED BY <1>3, <1>4, <1>8, <1>9

\* Nothing escapes the first character.
LEMMA EscapesEmpty == ASSUME NEW t, t = <<>> PROVE ~Escapes(t)[Len(t) + 1]
<1>1. t \in Seq(Symbol) /\ Len(t) + 1 = 1 /\ 1 \in 1..Len(t) + 1 /\ 1 - 1 = 0
  OBVIOUS
<1>2. Escapes(t)[1] = EscapeStep(t)[1][Escapes(t)[0]] /\ Escapes(t)[0] = FALSE
  BY <1>1, EscapesFacts DEF Along
<1>3. EscapeStep(t)[1][FALSE] = FALSE
  <2>1. FALSE \in BOOLEAN /\ ~(1 > 1)
    OBVIOUS
  <2>2. PICK x : x = FALSE
    OBVIOUS
  <2>3. EscapeStep(t)[1][x] = (1 > 1 /\ t[1 - 1] = "backslash" /\ ~x)
    BY <1>1, <2>1, <2>2, Zenon DEF EscapeStep
  <2> QED BY <2>1, <2>2, <2>3, Zenon
<1> QED BY <1>1, <1>2, <1>3, Zenon

\* What a character, and the one at i, adds to the depth.
Weighs(c) == CASE c = "open" -> 1 [] c = "close" -> -1 [] OTHER -> 0
Adds(t, i) == IF Escapes(t)[i] THEN 0 ELSE Weighs(t[i])
BraceStep(t) == [i \in 1..Len(t) |-> [x \in Int |-> x + Adds(t, i)]]

LEMMA AddsType == ASSUME NEW t, NEW i PROVE Adds(t, i) \in Int
<1>1. CASE t[i] = "open"
  BY <1>1 DEF Adds, Weighs
<1>2. CASE t[i] = "close"
  BY <1>2 DEF Adds, Weighs
<1>3. CASE t[i] \notin {"open", "close"}
  BY <1>3 DEF Adds, Weighs
<1> QED BY <1>1, <1>2, <1>3

LEMMA BracesFacts ==
  ASSUME NEW t \in Seq(Symbol)
  PROVE  Braces(t) \in [0..Len(t) -> Int] /\ Along(Braces(t), Len(t), 0, BraceStep(t))
<1> DEFINE Rest(g) == [i \in 0..Len(t) |-> IF i = 0 THEN 0 ELSE g[i - 1] + Adds(t, i)]
           d == CHOOSE g : g = Rest(g)
<1>1. StepsIn(BraceStep(t), Len(t), Int) /\ Len(t) \in Nat /\ 0 \in Int
  BY AddsType DEF BraceStep, StepsIn
<1>2. PICK g \in [0..Len(t) -> Int] : Along(g, Len(t), 0, BraceStep(t))
  BY <1>1, Unfolds
<1>3. \A i \in 1..Len(t) : g[i] = g[i - 1] + Adds(t, i)
  <2> SUFFICES ASSUME NEW i \in 1..Len(t) PROVE g[i] = g[i - 1] + Adds(t, i)
    OBVIOUS
  <2>1. g[i - 1] \in Int
    BY <1>2
  <2> QED BY <1>2, <2>1 DEF BraceStep, Along
<1>4. g = Rest(g)
  <2>1. \A i \in 0..Len(t) : i = 0 \/ (i \in 1..Len(t) /\ i # 0)
    OBVIOUS
  <2>2. \A i \in 0..Len(t) : g[i] = Rest(g)[i]
    BY <1>2, <1>3, <2>1 DEF Along
  <2> QED BY <1>2, <2>2
<1>5. d = Rest(d)
  BY <1>4
<1>6. Braces(t) = d
  BY DEF Braces, Adds, Weighs
<1>7. \A i \in 0..Len(t) : d[i] = IF i = 0 THEN 0 ELSE d[i - 1] + Adds(t, i)
  <2> HIDE DEF d
  <2> QED BY <1>5
<1> HIDE DEF d
<1>8. d \in [0..Len(t) -> Int]
  <2> DEFINE T == {i \in 0..Len(t) : d[i] \notin Int}
  <2>1. ASSUME T # {} PROVE FALSE
    <3>1. T \subseteq Nat
      OBVIOUS
    <3>2. PICK n \in T : \A m \in T : n <= m
      <4> HIDE DEF T
      <4> QED BY <2>1, <3>1, Least
    <3>3. n # 0
      BY <1>7
    <3>4. n - 1 \in 0..Len(t) /\ ~(n <= n - 1)
      BY <3>3
    <3>5. d[n - 1] \in Int
      BY <3>2, <3>4
    <3> QED BY <1>7, <3>3, <3>5, AddsType
  <2> QED BY <1>5, <2>1
<1>9. ASSUME NEW i \in 1..Len(t) PROVE d[i] = BraceStep(t)[i][d[i - 1]]
  <2>1. d[i - 1] \in Int /\ i \in 0..Len(t) /\ i # 0
    BY <1>8
  <2> QED BY <1>7, <2>1 DEF BraceStep
<1>10. d[0] = 0
  BY <1>1, <1>7
<1> QED BY <1>6, <1>8, <1>9, <1>10 DEF Along

LEMMA BracesGrow ==
  ASSUME NEW t \in Seq(Symbol), NEW c \in Symbol, NEW u, u = Append(t, c)
  PROVE  /\ \A i \in 0..Len(t) : Braces(u)[i] = Braces(t)[i] /\ Braces(t)[i] \in Int
         /\ Braces(u)[Len(u)] = Braces(t)[Len(t)] +
              (IF Escapes(t)[Len(t) + 1] THEN 0 ELSE Weighs(c))
<1>1. u \in Seq(Symbol) /\ Len(t) \in Nat /\ Len(u) = Len(t) + 1 /\ u[Len(u)] = c
      /\ Len(u) \in Nat /\ \A i \in 1..Len(t) : u[i] = t[i]
  OBVIOUS
<1>2. \A i \in 0..Len(t) + 1 : Escapes(u)[i] = Escapes(t)[i]
  <2>1. u = Append(t, c) /\ t \in Seq(Symbol) /\ c \in Symbol
    OBVIOUS
  <2> QED BY <2>1, EscapesGrow, Zenon
<1>3. ASSUME NEW i \in 1..Len(t) PROVE i \in 1..Len(u) /\ BraceStep(u)[i] = BraceStep(t)[i]
  <2>1. i \in 1..Len(u) /\ Escapes(u)[i] = Escapes(t)[i] /\ u[i] = t[i]
    BY <1>1, <1>2
  <2>2. Adds(u, i) = Adds(t, i)
    BY <2>1 DEF Adds
  <2> QED BY <2>1, <2>2 DEF BraceStep
<1>4. PICK f : f = Braces(u)
  OBVIOUS
<1>5. PICK g : g = Braces(t)
  OBVIOUS
<1>6. f \in [0..Len(u) -> Int] /\ Along(f, Len(u), 0, BraceStep(u))
  BY <1>1, <1>4, BracesFacts
<1>7. g \in [0..Len(t) -> Int] /\ Along(g, Len(t), 0, BraceStep(t))
  BY <1>5, BracesFacts
<1>8. Along(f, Len(t), 0, BraceStep(t))
  BY <1>3, <1>6, Zenon DEF Along
<1>9. \A i \in 0..Len(t) : f[i] = g[i] /\ g[i] \in Int
  BY <1>1, <1>7, <1>8, Agrees
<1>10. f[Len(u)] = g[Len(t)] + Adds(u, Len(u))
  <2>1. Len(u) \in 1..Len(u) /\ Len(u) - 1 = Len(t) /\ Len(t) \in 0..Len(t)
    BY <1>1
  <2>2. f[Len(t)] = g[Len(t)] /\ f[Len(t)] \in Int
    BY <1>9, <2>1
  <2>3. f[Len(u)] = BraceStep(u)[Len(u)][f[Len(t)]]
    BY <1>6, <2>1 DEF Along
  <2> QED BY <2>1, <2>2, <2>3 DEF BraceStep
<1>11. Adds(u, Len(u)) = IF Escapes(t)[Len(t) + 1] THEN 0 ELSE Weighs(c)
  <2>1. Len(t) + 1 \in 0..Len(t) + 1
    BY <1>1
  <2>2. Escapes(u)[Len(u)] = Escapes(t)[Len(t) + 1]
    BY <1>1, <1>2, <2>1
  <2> QED BY <1>1, <2>2 DEF Adds
<1> QED BY <1>4, <1>5, <1>9, <1>10, <1>11

LEMMA BracesEmpty == ASSUME NEW t, t = <<>> PROVE Len(t) = 0 /\ Braces(t)[Len(t)] = 0
<1>1. t \in Seq(Symbol) /\ Len(t) = 0
  OBVIOUS
<1> QED BY <1>1, BracesFacts DEF Along

\* What the loops have read by the next turn.
LEMMA SpanGrows ==
  ASSUME NEW t \in Seq(Symbol), NEW a \in Nat, NEW q \in Nat, 1 <= a, a <= q, q <= Len(t)
  PROVE  /\ SubSeq(t, a, q - 1) \in Seq(Symbol)
         /\ SubSeq(t, a, q) = Append(SubSeq(t, a, q - 1), t[q])
         /\ t[q] \in Symbol
<1>1. t[q] \in Symbol
  OBVIOUS
<1>2. a \in 1..Len(t) + 1 /\ q - 1 \in a - 1..Len(t) /\ q \in a - 1..Len(t)
  OBVIOUS
<1>3. SubSeq(t, a, q - 1) \in Seq(Symbol) /\ SubSeq(t, a, q) \in Seq(Symbol)
  BY <1>2, SubSeqProperties
<1>4. Len(SubSeq(t, a, q - 1)) = q - a /\ Len(SubSeq(t, a, q)) = q - a + 1
  BY <1>2
<1> DEFINE u == SubSeq(t, a, q) v == Append(SubSeq(t, a, q - 1), t[q])
<1>5. v \in Seq(Symbol) /\ Len(v) = q - a + 1
  BY <1>1, <1>3, <1>4
<1>6. ASSUME NEW i \in 1..q - a + 1 PROVE u[i] = v[i]
  <2>1. u[i] = t[a + i - 1]
    BY <1>2
  <2>2. CASE i = q - a + 1
    BY <1>1, <1>3, <1>4, <2>1, <2>2
  <2>3. CASE i # q - a + 1
    <3>1. i \in 1..q - a
      BY <2>3
    <3>2. v[i] = SubSeq(t, a, q - 1)[i]
      BY <1>3, <1>4, <3>1
    <3>3. SubSeq(t, a, q - 1)[i] = t[a + i - 1]
      BY <1>2, <3>1
    <3> QED BY <2>1, <3>2, <3>3
  <2> QED BY <2>2, <2>3
<1>7. u = v
  <2> HIDE DEF u, v
  <2>1. u \in Seq(Symbol) /\ Len(u) = q - a + 1
    BY <1>3, <1>4 DEF u
  <2> QED BY <1>5, <1>6, <2>1
<1> QED BY <1>1, <1>3, <1>7
-----------------------------------------------------------------------------
(* The inductive invariant. *)

Handlers == {"name", "line", "block", "context"}

Types ==
  /\ content \in Seq(Symbol) /\ Len(content) \in Nat /\ p \in 1..Len(content) + 1
  /\ name \in Seq(Symbol)
  /\ start \in 0..p /\ end \in 0..p /\ depth \in Int /\ level \in Int /\ level >= -1
  /\ error \in BOOLEAN /\ at \in 0..p /\ tested \in BOOLEAN
  /\ input \in Signals \cup Handlers \cup {"call"} \cup Final
  /\ calls \in Seq(Calling)
  /\ input \in {"name", "line", "block"} => status \in 0..3
  /\ input \in Handlers => type \in Directive
  /\ input = "name" => type \in {"defdir", "noextend", "undefdir", "unnoextend"}
  /\ input = "context" => status \in {0, 1}
  /\ level = -1 => \/ input \in Final
                   \/ input = "NEWCONTEXT" /\ p = 1 /\ calls = <<>> /\ ~error
  /\ input = "END" => p = Len(content) + 1
  /\ tested => input \in Signals

\* The text between start and p, while a block or a line is read.
Span == SubSeq(content, start, p - 1)

\* The braces of the text read are those depth counts behind the brace that opens the
\* block; state 3 of both tables is the one behind a backslash that escapes.
InBlock(t, d, state) ==
  /\ d >= 1 /\ Braces(t)[Len(t)] = d - 1
  /\ \A i \in 1..Len(t) : Braces(t)[i] >= 0
  /\ Escapes(t)[Len(t) + 1] <=> state = 3

InLine(t, state) ==
  /\ \A i \in DOMAIN t : t[i] \in {"newline", "comment"} => Escapes(t)[i]
  /\ Escapes(t)[Len(t) + 1] <=> state = 3

SpanInv ==
  /\ input \in {"name", "line"} => depth = 0
  /\ input = "block" /\ status \in {0, 1} => depth = 0
  /\ input = "block" /\ status \in {2, 3} => start >= 1 /\ InBlock(Span, depth, status)
  /\ input = "line" /\ status \in {2, 3} => start >= 1 /\ InLine(Span, status)

ReaderInv == Types /\ SpanInv /\ SpansFit
-----------------------------------------------------------------------------
(* One character, and what the tables say of it. *)

LEMMA CharFacts ==
  ASSUME Types
  PROVE  /\ Char \in Symbol \cup {"nul"} /\ (Char = "nul" <=> p = Len(content) + 1)
         /\ Char # "nul" => p \in 1..Len(content) /\ content[p] = Char /\ Char \in Symbol
<1>1. p \in 1..Len(content) + 1 /\ content \in Seq(Symbol) /\ Len(content) \in Nat
  BY DEF Types
<1>2. "nul" \notin Symbol
  BY DEF Symbol, NameChars, Directive
<1>3. CASE p <= Len(content)
  <2>1. p \in 1..Len(content) /\ content[p] \in Symbol
    BY <1>1, <1>3
  <2> QED BY <1>1, <1>2, <1>3, <2>1 DEF Char
<1>4. CASE ~(p <= Len(content))
  <2>1. p = Len(content) + 1
    BY <1>1, <1>4
  <2> QED BY <1>4, <2>1 DEF Char
<1> QED BY <1>3, <1>4

LEMMA BlockTurn ==
  ASSUME status \in 0..3, NEW next, next = Look(BlockTrans, BlockColumn)
  PROVE  /\ next \in 0..4
         /\ Char = "nul" => next = 4
         /\ status = 0 /\ next = 2 => Char = "open"
         /\ status = 1 => next \in {0, 1, 4}
         /\ status = 0 => next \in {0, 1, 2, 4}
         /\ status = 2 => next \in {2, 3, 4} /\ (next = 3 <=> Char = "backslash")
         /\ status = 3 => next \in {2, 4}
<1>1. BlockColumn \in 0..7 /\ (Char = "nul" => BlockColumn = 5)
      /\ (BlockColumn = 3 => Char = "open") /\ (BlockColumn = 6 <=> Char = "backslash")
  BY DEF BlockColumn
<1>2. PICK c \in 0..7 : c = BlockColumn
  BY <1>1
<1>3. c \in {0, 1, 2, 3, 4, 5, 6, 7} /\ status \in {0, 1, 2, 3}
  BY <1>2
<1>4. next = BlockTrans[status + 1][c + 1]
  BY <1>2 DEF Look
<1>5. CASE status = 0
  BY <1>1, <1>2, <1>3, <1>4, <1>5 DEF BlockTrans
<1>6. CASE status = 1
  BY <1>1, <1>2, <1>3, <1>4, <1>6 DEF BlockTrans
<1>7. CASE status = 2
  BY <1>1, <1>2, <1>3, <1>4, <1>7 DEF BlockTrans
<1>8. CASE status = 3
  BY <1>1, <1>2, <1>3, <1>4, <1>8 DEF BlockTrans
<1> QED BY <1>3, <1>5, <1>6, <1>7, <1>8

LEMMA LineTurn ==
  ASSUME status \in 0..3, NEW next, next = Look(LineTrans, LineColumn)
  PROVE  /\ next \in 0..6
         /\ Char = "nul" => next = 6
         /\ status = 0 => next \in {0, 1, 2, 5, 6}
         /\ status = 0 /\ next = 2 => Char \in NameChars \cup {"colon"}
         /\ status = 1 => next \in {0, 1, 6}
         /\ status = 2 => next \in {2, 3, 4, 6} /\ (next = 3 <=> Char = "backslash")
                          /\ (next = 4 <=> Char \in {"newline", "comment"})
         /\ status = 3 => next \in {2, 6}
<1>1. LineColumn \in 0..8 /\ (Char = "nul" => LineColumn = 6)
      /\ (LineColumn = 5 <=> Char = "backslash") /\ (LineColumn = 4 <=> Char = "colon")
      /\ (LineColumn \in {0, 1} <=> Char \in {"newline", "comment"})
      /\ (LineColumn = 7 => Char \in NameChars)
  BY DEF LineColumn, NameChars, Directive
<1>2. PICK c \in 0..8 : c = LineColumn
  BY <1>1
<1>3. c \in {0, 1, 2, 3, 4, 5, 6, 7, 8} /\ status \in {0, 1, 2, 3}
  BY <1>2
<1>4. next = LineTrans[status + 1][c + 1]
  BY <1>2 DEF Look
<1>5. CASE status = 0
  BY <1>1, <1>2, <1>3, <1>4, <1>5 DEF LineTrans
<1>6. CASE status = 1
  BY <1>1, <1>2, <1>3, <1>4, <1>6 DEF LineTrans
<1>7. CASE status = 2
  BY <1>1, <1>2, <1>3, <1>4, <1>7 DEF LineTrans
<1>8. CASE status = 3
  BY <1>1, <1>2, <1>3, <1>4, <1>8 DEF LineTrans
<1> QED BY <1>3, <1>5, <1>6, <1>7, <1>8

LEMMA NameTurn ==
  ASSUME status \in 0..3, NEW next, next = IF NameColumn = 4 THEN 5 ELSE Look(NameTrans, NameColumn)
  PROVE  /\ next \in 0..5 /\ (Char = "nul" => NameColumn = 4)
         /\ NameColumn = 4 => next = 5
<1>1. NameColumn \in 0..4 /\ (Char = "nul" => NameColumn = 4)
  BY DEF NameColumn, NameChars, Directive
<1>2. CASE NameColumn = 4
  BY <1>1, <1>2
<1>3. CASE NameColumn # 4
  <2>1. PICK c \in 0..3 : c = NameColumn
    BY <1>1, <1>3
  <2>2. c \in {0, 1, 2, 3} /\ status \in {0, 1, 2, 3}
    BY <2>1
  <2>3. next = NameTrans[status + 1][c + 1]
    BY <1>3, <2>1 DEF Look
  <2> QED BY <1>1, <1>3, <2>2, <2>3 DEF NameTrans
<1> QED BY <1>2, <1>3

LEMMA ContextTurn ==
  ASSUME status \in {0, 1}, NEW next, next = Look(ContextTrans, ContextColumn)
  PROVE  next \in 0..3 /\ (Char = "nul" => next = 3)
<1>1. ContextColumn \in 0..5 /\ (Char = "nul" => ContextColumn = 4)
  BY DEF ContextColumn
<1>2. PICK c \in 0..5 : c = ContextColumn
  BY <1>1
<1>3. c \in {0, 1, 2, 3, 4, 5}
  BY <1>2
<1>4. next = ContextTrans[status + 1][c + 1]
  BY <1>2 DEF Look
<1> QED BY <1>1, <1>2, <1>3, <1>4 DEF ContextTrans
-----------------------------------------------------------------------------
(* Types.  What every step keeps: the text, and the calls made so far. *)

Kept ==
  /\ content' = content /\ p' \in p..Len(content) + 1
  /\ calls' \in Seq(Calling) /\ Len(calls) \in Nat /\ Len(calls') \in Nat /\ Len(calls') >= Len(calls)
  /\ \A k \in 1..Len(calls) : calls'[k] = calls[k]

\* The call that block_handler makes.
Made(last) == [what |-> type, name |-> name', at |-> at, start |-> start', end |-> last]

LEMMA OneCall ==
  ASSUME Types, NEW r \in Calling, calls' = Append(calls, r)
  PROVE  /\ calls' \in Seq(Calling) /\ Len(calls) \in Nat /\ Len(calls') = Len(calls) + 1
         /\ \A k \in 1..Len(calls) : calls'[k] = calls[k]
         /\ calls'[Len(calls')] = r
BY DEF Types

LEMMA SameCalls ==
  ASSUME Types, calls' = calls
  PROVE  calls' \in Seq(Calling) /\ Len(calls) \in Nat /\ Len(calls') = Len(calls)
BY DEF Types

\* The contexts that are open are ended.
EndCall(q) == [what |-> "end", at |-> q]
EndCalls(n) == [i \in 1..n |-> EndCall(p)]

LEMMA AllEnd ==
  ASSUME Types, calls' = calls \o EndCalls(level + 1)
  PROVE  /\ calls' \in Seq(Calling) /\ Len(calls) \in Nat /\ Len(calls') = Len(calls) + level + 1
         /\ \A k \in 1..Len(calls) : calls'[k] = calls[k]
         /\ \A k \in Len(calls) + 1..Len(calls') : calls'[k] = EndCall(p)
<1>1. level \in Int /\ level + 1 \in Nat /\ EndCall(p) \in Calling
  <2>1. p \in Nat /\ level \in Int /\ level >= -1
    BY DEF Types
  <2> QED BY <2>1 DEF Calling, EndCall
<1>2. PICK e : e = EndCalls(level + 1)
  OBVIOUS
<1>3. e \in Seq(Calling) /\ Len(e) = level + 1 /\ \A i \in 1..level + 1 : e[i] = EndCall(p)
  BY <1>1, <1>2 DEF EndCalls
<1>4. PICK c \in Seq(Calling) : c = calls /\ Len(c) \in Nat
  BY DEF Types
<1>5. PICK d : d = c \o e
  OBVIOUS
<1>6. d \in Seq(Calling) /\ Len(d) = Len(c) + Len(e)
  <2>1. e \in Seq(Calling) /\ c \in Seq(Calling)
    BY <1>3, <1>4
  <2>2. d \in Seq(Calling) /\ Len(d) = Len(c) + Len(e)
    BY <1>5, <2>1, ConcatProperties, Zenon
  <2> QED BY <2>2
<1>7. \A k \in 1..Len(c) : d[k] = c[k]
  BY <1>3, <1>4, <1>5
<1>8. ASSUME NEW k \in Len(c) + 1..Len(d) PROVE d[k] = EndCall(p)
  <2>1. k - Len(c) \in 1..level + 1 /\ k \in 1..Len(c) + Len(e) /\ ~(k <= Len(c))
    BY <1>1, <1>3, <1>4, <1>6
  <2>2. d[k] = e[k - Len(c)]
    BY <1>3, <1>4, <1>5, <2>1
  <2> QED BY <1>3, <2>1, <2>2
<1>9. d = calls' /\ c = calls
  BY <1>2, <1>4, <1>5
<1>10. Len(d) = Len(c) + level + 1
  BY <1>1, <1>3, <1>4, <1>6
<1> QED BY <1>4, <1>6, <1>7, <1>8, <1>9, <1>10

\* What start acts on is the signal, and tested.
LEMMA SignalFacts ==
  ASSUME Types
  PROVE  \A x \in Signals : Signal = x => input = x /\ tested
BY DEF Signal, Signals

\* Where a comment ends.
LineEnd == Min({i \in p..(Len(content) + 1) : i = Len(content) + 1 \/ content[i] = "newline"})

LEMMA LineEndFacts ==
  ASSUME Types
  PROVE  /\ LineEnd \in p..Len(content) + 1
         /\ LineEnd # Len(content) + 1 => content[LineEnd] = "newline"
         /\ \A i \in p..LineEnd - 1 : content[i] # "newline"
<1> DEFINE T == {i \in p..(Len(content) + 1) : i = Len(content) + 1 \/ content[i] = "newline"}
<1>1. T \subseteq Nat /\ Len(content) + 1 \in T
  BY DEF Types
<1>2. PICK q : q = LineEnd
  OBVIOUS
<1>3. q \in T /\ \A y \in T : q <= y
  <2>1. q = Min(T)
    BY <1>2 DEF LineEnd
  <2> HIDE DEF T
  <2> QED BY <1>1, <2>1, Least DEF Min
<1>4. ASSUME NEW i \in p..q - 1 PROVE content[i] # "newline"
  <2>1. i \in p..Len(content) + 1 /\ ~(q <= i)
    BY <1>3 DEF Types
  <2> QED BY <1>3, <2>1
<1> QED BY <1>2, <1>3, <1>4

\* A name is cut out of the text.
LEMMA NameIsCut == ASSUME Types, ReadName PROVE name' \in Seq(Symbol)
<1> DEFINE next == IF NameColumn = 4 THEN 5 ELSE Look(NameTrans, NameColumn)
           from == IF status = 1 /\ next = 2 THEN p ELSE start
           to == IF status = 2 /\ next \in {3, 4} THEN p ELSE end
           named == next = 4 /\ from # 0 /\ to # 0
<1>1. name' = IF named THEN SubSeq(content, from, to - 1) ELSE <<>>
  BY DEF ReadName
<1>2. CASE named
  <2>1. NameColumn # 4
    BY <1>2
  <2>2. Char # "nul"
    BY <2>1 DEF NameColumn, NameChars, Directive
  <2>3. p \in 1..Len(content) /\ content \in Seq(Symbol) /\ Len(content) \in Nat
    BY <2>2, CharFacts DEF Types
  <2>4. from \in 1..Len(content) /\ to \in 1..Len(content)
    BY <1>2, <2>3 DEF Types
  <2> HIDE DEF from, to, named
  <2>5. PICK a \in 1..Len(content), b \in 1..Len(content) : a = from /\ b = to
    BY <2>4
  <2>6. SubSeq(content, a, b - 1) \in Seq(Symbol)
    BY <2>3, <2>5
  <2> QED BY <1>1, <1>2, <2>5, <2>6
<1>3. CASE ~named
  <2> HIDE DEF named
  <2>1. name' = <<>>
    BY <1>1, <1>3
  <2> QED BY <2>1
<1> QED BY <1>2, <1>3

LEMMA KeptNext == ASSUME Types, Next PROVE Kept
<1> USE SameCalls, CharFacts DEF Kept
<1>0. p \in Nat /\ Len(content) \in Nat /\ p <= Len(content) + 1 /\ p >= 1
  BY DEF Types
<1>1. CASE NewContext
  <2>1. CASE level = -1
    BY <1>0, <1>1, <2>1 DEF NewContext
  <2>2. CASE level # -1
    <3>1. input = "NEWCONTEXT"
      BY <1>1, SignalFacts DEF NewContext, Signals
    <3>2. PICK r : r = [what |-> "context", name |-> name, at |-> at, start |-> start, end |-> p - 1]
      OBVIOUS
    <3>3. r \in Calling
      BY <1>0, <3>2 DEF Calling, Named, Types, Directive
    <3> QED BY <1>0, <1>1, <2>2, <3>2, <3>3, OneCall DEF NewContext, Called
  <2> QED BY <2>1, <2>2
<1>2. CASE Read
  BY <1>0, <1>2 DEF Read
<1>3. CASE EndContext
  <2>1. CASE level = 0
    BY <1>0, <1>3, <2>1 DEF EndContext
  <2>2. CASE level # 0
    <3>1. p - 1 \in Nat
      BY <1>0
    <3>2. PICK r \in Calling : r = [what |-> "end", at |-> p - 1]
      BY <3>1 DEF Calling
    <3> QED BY <1>0, <1>3, <2>2, <3>2, OneCall DEF EndContext
  <2> QED BY <2>1, <2>2
<1>4. CASE Finish
  <2>1. CASE calls' = calls
    BY <1>0, <1>4, <2>1 DEF Finish
  <2>2. CASE calls' # calls
    <3>1. level \in Int /\ level >= -1
      BY DEF Types
    <3>2. calls' = calls \o EndCalls(level + 1)
      BY <1>4, <2>2 DEF Finish, EndCalls, EndCall
    <3> QED BY <1>0, <1>4, <2>2, <3>1, <3>2, AllEnd DEF Finish
  <2> QED BY <2>1, <2>2
<1>5. CASE Comment
  <2>1. LineEnd \in p..Len(content) + 1
    BY LineEndFacts
  <2>2. p' = IF LineEnd = Len(content) + 1 THEN LineEnd ELSE LineEnd + 1
    BY <1>5 DEF Comment, LineEnd
  <2> QED BY <1>0, <1>5, <2>1, <2>2 DEF Comment
<1>6. CASE ReadOrder
  BY <1>0, <1>6 DEF ReadOrder, Directive
<1> DEFINE Handled == /\ name' \in Seq(Symbol) /\ start' \in Nat /\ at \in Nat /\ type \in Directive
                      /\ \E l \in Nat : calls' = calls \/ calls' = Append(calls, Made(l))
<1>7. ASSUME Handled PROVE /\ calls' \in Seq(Calling) /\ Len(calls) \in Nat /\ Len(calls') \in Nat
                           /\ Len(calls') >= Len(calls) /\ \A k \in 1..Len(calls) : calls'[k] = calls[k]
  <2>1. CASE calls' = calls
    BY <2>1
  <2>2. CASE calls' # calls
    <3>1. PICK l \in Nat : calls' = Append(calls, Made(l))
      BY <1>7, <2>2
    <3>2. Made(l) \in Calling
      BY <1>7, <3>1 DEF Made, Calling, Named
    <3>3. PICK r \in Calling : r = Made(l)
      BY <3>2
    <3> QED BY <3>1, <3>3, OneCall
  <2> QED BY <2>1, <2>2
<1>8. CASE ReadName
  <2>1. p' \in p..Len(content) + 1
    <3>1. CASE NameColumn = 4
      BY <1>0, <1>8, <3>1 DEF ReadName
    <3>2. CASE NameColumn # 4
      <4>1. Char # "nul"
        BY <3>2 DEF NameColumn, NameChars, Directive
      <4> QED BY <1>0, <1>8, <3>2, <4>1 DEF ReadName
    <3> QED BY <3>1, <3>2
  <2>2. Handled
    <3>1. name' \in Seq(Symbol)
      BY <1>8, NameIsCut
    <3>2. start' \in Nat /\ at \in Nat /\ type \in Directive
      BY <1>0, <1>8 DEF ReadName, Types, Handlers
    <3>3. \E l \in Nat : calls' = calls \/ calls' = Append(calls, Made(l))
      <4>1. p' - 1 \in Nat
        <5>1. \A q \in p..Len(content) + 1 : q - 1 \in Nat
          BY <1>0
        <5> QED BY <2>1, <5>1, Zenon
      <4>2. calls' = calls \/ calls' = Append(calls, Made(p' - 1))
        BY <1>8 DEF ReadName, Decides, Made
      <4> QED BY <4>1, <4>2
    <3> QED BY <3>1, <3>2, <3>3
  <2> QED BY <1>7, <1>8, <2>1, <2>2 DEF ReadName
<1>9. CASE Line
  <2>1. p' \in p..Len(content) + 1
    <3>1. PICK next : next = Look(LineTrans, LineColumn)
      OBVIOUS
    <3>2. Char = "nul" => next = 6
      BY <1>9, <3>1, LineTurn DEF Line, Types
    <3>3. p' = p \/ (p' = p + 1 /\ next # 6)
      BY <1>9, <3>1 DEF Line
    <3> QED BY <1>0, <3>2, <3>3
  <2>2. start' \in Nat /\ end' \in Nat
    BY <1>0, <1>9 DEF Line, Types
  <2>3. calls' = calls \/ calls' = Append(calls, Made(end'))
    BY <1>9 DEF Line, Decides, Made
  <2>4. Handled
    BY <1>0, <1>9, <2>2, <2>3 DEF Line, Types, Handlers
  <2> QED BY <1>7, <1>9, <2>1, <2>4 DEF Line
<1>10. CASE Block
  <2>1. p' \in p..Len(content) + 1
    BY <1>0, <1>10, BlockTurn DEF Block, Types
  <2>2. start' \in Nat
    BY <1>0, <1>10 DEF Block, Types
  <2>3. calls' = calls \/ calls' = Append(calls, Made(p))
    BY <1>10 DEF Block, Decides, Made
  <2>4. Handled
    BY <1>0, <1>10, <2>2, <2>3 DEF Block, Types, Handlers
  <2> QED BY <1>7, <1>10, <2>1, <2>4 DEF Block
<1>11. CASE Context
  BY <1>0, <1>11, ContextTurn DEF Context, Types
<1>12. CASE Test \/ Call \/ Report \/ Stopped
  BY <1>0, <1>12 DEF Test, Call, Report, Stopped, vars
<1> QED BY <1>1, <1>2, <1>3, <1>4, <1>5, <1>6, <1>8, <1>9, <1>10, <1>11, <1>12 DEF Next

\* What block_handler returns is a signal.
LEMMA CallsReturn ==
  ASSUME Types, NEW l, Decides(l)
  PROVE  /\ input' \in {"call", "ERROR"} /\ error' \in BOOLEAN
         /\ input' = "call" => calls' = Append(calls, Made(l))
         /\ input' = "ERROR" => calls' = calls
BY DEF Decides, Returns, Made, Types

LEMMA TypesInit == ASSUME Init PROVE Types
<1>1. content \in Seq(Symbol)
  BY ContentAssumption DEF Init
<1>2. Len(content) \in Nat
  BY <1>1
<1>3. p \in 1..Len(content) + 1 /\ start \in 0..p /\ end \in 0..p /\ at \in 0..p /\ depth \in Int
      /\ level \in Int /\ level >= -1
  BY <1>2 DEF Init
<1>4. calls \in Seq(Calling) /\ name \in Seq(Symbol)
  BY DEF Init
<1> QED BY <1>1, <1>2, <1>3, <1>4 DEF Init, Types, Signals, Handlers, Final

LEMMA TestedNext == ASSUME Types, Next PROVE tested' \in BOOLEAN /\ (tested' => input' \in Signals)
<1>1. CASE NewContext \/ Read \/ EndContext \/ Finish \/ Comment \/ ReadOrder
  BY <1>1 DEF NewContext, Read, EndContext, Finish, Comment, ReadOrder
<1>2. CASE Test
  BY <1>2 DEF Test, Signals
<1>3. CASE ReadName \/ Line \/ Block \/ Context \/ Call
  <2>1. input \notin Signals /\ tested' = tested
    BY <1>3 DEF ReadName, Line, Block, Context, Call, Signals
  <2> QED BY <2>1 DEF Types
<1>4. CASE Report \/ Stopped
  BY <1>4 DEF Report, Stopped, vars, Types
<1> QED BY <1>1, <1>2, <1>3, <1>4 DEF Next

LEMMA TypesNext == ASSUME Types, Next PROVE Types'
<1> USE KeptNext
<1>0. /\ p \in Nat /\ Len(content) \in Nat /\ p <= Len(content) + 1 /\ p >= 1
      /\ \A q \in p..Len(content) + 1 : q \in Nat /\ p <= q /\ 1 <= q
      /\ content' = content /\ p' \in p..Len(content) + 1
      /\ content' \in Seq(Symbol) /\ Len(content') \in Nat /\ p' \in 1..Len(content') + 1
      /\ calls' \in Seq(Calling)
  <2>1. p \in Nat /\ Len(content) \in Nat /\ p <= Len(content) + 1 /\ p >= 1 /\ content \in Seq(Symbol)
    BY DEF Types
  <2> QED BY <2>1 DEF Kept
<1>1. ASSUME NEW x \in 0..p PROVE x \in 0..p'
  BY <1>0
<1> DEFINE Rest ==
      /\ name' \in Seq(Symbol) /\ start' \in 0..p' /\ end' \in 0..p' /\ depth' \in Int
      /\ level' \in Int /\ level' >= -1 /\ error' \in BOOLEAN /\ at' \in 0..p'
           Input ==
      /\ input' \in Signals \cup Handlers \cup {"call"} \cup Final
      /\ input' \in {"name", "line", "block"} => status' \in 0..3
      /\ input' \in Handlers => type' \in Directive
      /\ input' = "name" => type' \in {"defdir", "noextend", "undefdir", "unnoextend"}
      /\ input' = "context" => status' \in {0, 1}
      /\ level' = -1 => \/ input' \in Final
                        \/ input' = "NEWCONTEXT" /\ p' = 1 /\ calls' = <<>> /\ ~error'
      /\ input' = "END" => p' = Len(content) + 1
<1>2. ASSUME Rest, Input PROVE Types'
  BY <1>0, <1>2, TestedNext DEF Types
<1>3. ASSUME UNCHANGED handler, error' \in BOOLEAN, level' \in Int, level' >= -1 PROVE Rest
  BY <1>1, <1>3 DEF handler, Types
<1>l. ASSUME level' = level, input \notin Final, input # "NEWCONTEXT" PROVE level' # -1
  BY <1>l DEF Types
<1>s. ASSUME NEW x \in Signals \ {"ERROR"}, Signal = x PROVE input = x
  BY <1>s, SignalFacts
<1>4. CASE NewContext
  BY <1>2, <1>3, <1>4 DEF NewContext, Types, Signals, Handlers
<1>5. CASE Read
  <2>1. input' \in Signals /\ input' \notin Handlers
    BY <1>5 DEF Read, SignalOf, Signals, Handlers
  <2>l. level' # -1
    BY <1>l, <1>s, <1>5 DEF Read, Signals, Final
  <2>2. input' = "END" => p' = Len(content) + 1
    <3>1. input' = "END" => Char = "nul"
      BY <1>5, CharFacts DEF Read, SignalOf
    <3> QED BY <1>5, <3>1, CharFacts DEF Read
  <2> QED BY <2>l, <1>2, <1>3, <1>5, <2>1, <2>2 DEF Read, Types, Handlers
<1>6. CASE EndContext
  <2>1. input = "ENDCONTEXT"
    BY <1>6, SignalFacts DEF EndContext, Signals
  <2>2. level \in Int /\ level >= -1 /\ level # -1
    BY <2>1 DEF Types, Final
  <2>3. level' \in Int /\ level' >= -1
    BY <1>6, <2>2 DEF EndContext
  <2>4. level' # -1
    BY <1>6, <2>2 DEF EndContext
  <2> QED BY <1>2, <1>3, <1>6, <2>3, <2>4 DEF EndContext, Types, Signals, Handlers
<1>7. CASE Finish
  <2>1. level' \in Int /\ level' >= -1
    BY <1>7 DEF Finish, Types
  <2>2. input' \in Final /\ input' \notin Handlers
    BY <1>7 DEF Finish, Final, Handlers
  <2> QED BY <1>2, <1>3, <1>7, <2>1, <2>2 DEF Finish, Types, Handlers
<1>8. CASE Comment
  <2>1. input' \in {"END", "READ"}
    BY <1>8 DEF Comment
  <2>l. level' # -1
    BY <1>l, <1>s, <1>8 DEF Comment, Signals, Final
  <2>2. input' = "END" => p' = Len(content) + 1
    BY <1>8 DEF Comment
  <2> QED BY <2>l, <1>2, <1>3, <1>8, <2>1, <2>2 DEF Comment, Types, Signals, Handlers
<1>9. CASE ReadOrder
  <2>1. Rest
    BY <1>0, <1>9 DEF ReadOrder, Types
  <2>2. type' \in Directive
    BY <1>9 DEF ReadOrder, Directive
  <2>3. level' # -1
    BY <1>l, <1>s, <1>9 DEF ReadOrder, Signals, Final
  <2>4. Input
    BY <1>9, <2>2, <2>3 DEF ReadOrder, Directive, Signals, Handlers, Final
  <2> QED BY <1>2, <2>1, <2>4
<1>10. CASE ReadName
  <2>1. status \in 0..3 /\ type \in Directive /\ type' = type
        /\ type \in {"defdir", "noextend", "undefdir", "unnoextend"}
    BY <1>10 DEF ReadName, Types, Handlers
  <2>2. name' \in Seq(Symbol)
    BY <1>10, NameIsCut
  <2>3. start' \in 0..p' /\ end' \in 0..p'
    BY <1>0, <1>1, <1>10 DEF ReadName, Types
  <2>4. PICK next : next = IF NameColumn = 4 THEN 5 ELSE Look(NameTrans, NameColumn)
    OBVIOUS
  <2>5. next \in 0..5 /\ status' = (IF next \in {4, 5} THEN 0 ELSE next)
    BY <1>10, <2>1, <2>4, NameTurn DEF ReadName
  <2>6. status' \in 0..3
    BY <2>5
  <2>7. input' \in {"name", "block", "call", "ERROR"} /\ error' \in BOOLEAN
    BY <1>10 DEF ReadName, Returns, Decides, Types
  <2>l. level' # -1
    BY <1>l, <1>10 DEF ReadName, Final
  <2> QED BY <2>l, <1>1, <1>2, <1>10, <2>1, <2>2, <2>3, <2>6, <2>7
             DEF ReadName, Types, Signals, Handlers
<1>11. CASE Line
  <2>1. status \in 0..3 /\ type \in Directive
    BY <1>11 DEF Line, Types, Handlers
  <2>2. PICK next : next = Look(LineTrans, LineColumn)
    OBVIOUS
  <2>3. /\ next \in 0..6
        /\ status = 0 /\ next = 2 => Char \in NameChars \cup {"colon"}
        /\ next = 4 => status = 2
    BY <2>1, <2>2, LineTurn
  <2>4. start' \in 0..p'
    <3>1. CASE status = 0 /\ next = 2
      <4>1. p' = p + 1 /\ start' \in {p, p + 1}
        BY <1>11, <2>2, <3>1 DEF Line
      <4> QED BY <1>0, <4>1
    <3>2. CASE ~(status = 0 /\ next = 2)
      <4>1. start' \in {0, start}
        BY <1>11, <2>2, <3>2 DEF Line
      <4> QED BY <1>0, <1>1, <4>1 DEF Types
    <3> QED BY <3>1, <3>2
  <2>5. end' \in 0..p'
    <3>1. end' \in {p, end}
      BY <1>11 DEF Line
    <3> QED BY <1>0, <1>1, <3>1 DEF Types
  <2>6. input' \in {"line", "block", "call", "ERROR"} /\ error' \in BOOLEAN
    BY <1>11 DEF Line, Returns, Decides, Types
  <2>7. input' \in {"line", "block"} => status' \in 0..3
    <3>1. status' = IF next = 5 THEN 0 ELSE next
      BY <1>11, <2>2 DEF Line
    <3>2. next \in {4, 6} => input' \in {"call", "ERROR"}
      BY <1>11, <2>2 DEF Line, Decides, Returns
    <3> QED BY <2>3, <3>1, <3>2
  <2>l. level' # -1
    BY <1>l, <1>11 DEF Line, Final
  <2> QED BY <2>l, <1>1, <1>2, <1>11, <2>1, <2>4, <2>5, <2>6, <2>7
             DEF Line, Types, Signals, Handlers
<1>12. CASE Block
  <2>1. status \in 0..3 /\ type \in Directive /\ depth \in Int
    BY <1>12 DEF Block, Types, Handlers
  <2>2. PICK next : next = Look(BlockTrans, BlockColumn)
    OBVIOUS
  <2>3. next \in 0..4
    BY <2>1, <2>2, BlockTurn
  <2>4. start' \in 0..p'
    <3>1. CASE status = 0 /\ next = 2
      <4>1. p' = p + 1 /\ start' = p + 1
        BY <1>12, <2>2, <3>1 DEF Block
      <4> QED BY <1>0, <4>1
    <3>2. CASE ~(status = 0 /\ next = 2)
      <4>1. start' = start
        BY <1>12, <2>2, <3>2 DEF Block
      <4> QED BY <1>0, <1>1, <4>1 DEF Types
    <3> QED BY <3>1, <3>2
  <2>5. end' \in 0..p'
    <3>1. end' \in {p, end}
      BY <1>12 DEF Block
    <3> QED BY <1>0, <1>1, <3>1 DEF Types
  <2>6. input' \in {"block", "call", "ERROR"} /\ error' \in BOOLEAN
    BY <1>12 DEF Block, Returns, Decides, Types
  <2>7. input' = "block" => status' \in 0..3
    <3>1. status' = next
      BY <1>12, <2>2 DEF Block
    <3>2. next = 4 => input' \in {"call", "ERROR"}
      BY <1>12, <2>2 DEF Block, Decides, Returns
    <3> QED BY <2>3, <3>1, <3>2
  <2>8. depth' \in Int
    BY <1>12, <2>1 DEF Block
  <2>l. level' # -1
    BY <1>l, <1>12 DEF Block, Final
  <2> QED BY <2>l, <1>1, <1>2, <1>12, <2>1, <2>4, <2>5, <2>6, <2>7, <2>8
             DEF Block, Types, Signals, Handlers
<1>13. CASE Context
  <2>1. status \in {0, 1} /\ type \in Directive
    BY <1>13 DEF Context, Types, Handlers
  <2>2. PICK next : next = Look(ContextTrans, ContextColumn)
    OBVIOUS
  <2>3. next \in 0..3
    BY <2>1, <2>2, ContextTurn
  <2>4. input' \in {"context", "NEWCONTEXT", "ERROR"} /\ error' \in BOOLEAN
        /\ (input' = "context" => next \notin {2, 3}) /\ status' = next
    BY <1>13, <2>2 DEF Context, Returns, Types
  <2>l. level' # -1
    BY <1>l, <1>13 DEF Context, Final
  <2> QED BY <2>l, <1>1, <1>2, <1>13, <2>1, <2>3, <2>4 DEF Context, Types, Signals, Handlers
<1>14. CASE Report
  <2>1. level # -1
    <3>1. calls # <<>>
      BY <1>14 DEF Report, CallsMade
    <3> QED BY <1>14, <3>1 DEF Report, Types
  <2> QED BY <1>2, <1>3, <1>14, <2>1 DEF Report, Types, handler
<1>15. CASE Stopped
  BY <1>2, <1>3, <1>15 DEF Stopped, Types, handler, vars
<1>16. CASE Test
  <2>1. input' \in {input, "ERROR"} /\ input' \in Signals /\ input' \notin Handlers
    BY <1>16 DEF Test, Signals, Handlers
  <2>2. level = -1 => input' = input
    BY <1>16 DEF Test, Types, Signals, Final
  <2> QED BY <1>2, <1>3, <1>16, <2>1, <2>2 DEF Test, Types, Handlers
<1>17. CASE Call
  <2>1. level # -1
    BY <1>17 DEF Call, Types, Final
  <2> QED BY <1>2, <1>3, <1>17, <2>1 DEF Call, Types, Signals, Handlers
<1> QED BY <1>4, <1>5, <1>6, <1>7, <1>8, <1>9, <1>10, <1>11, <1>12, <1>13, <1>14, <1>15, <1>16, <1>17
        DEF Next
-----------------------------------------------------------------------------
(* The texts of the tasks. *)

LEMMA InBlockEmpty == ASSUME NEW t, t = <<>> PROVE InBlock(t, 1, 2)
BY EscapesEmpty, BracesEmpty DEF InBlock

LEMMA InLineEmpty == ASSUME NEW t, t = <<>> PROVE InLine(t, 2)
<1>1. DOMAIN t = {}
  OBVIOUS
<1>2. ~Escapes(t)[Len(t) + 1]
  BY EscapesEmpty
<1> QED BY <1>1, <1>2 DEF InLine

\* What one turn of the loop for a block does inside of it.
Deeper(d, state, c) ==
  d + (IF state = 2 /\ c = "open" THEN 1 ELSE IF state = 2 /\ c = "close" THEN -1 ELSE 0)
Behind(state, c) == IF state = 2 /\ c = "backslash" THEN 3 ELSE 2

LEMMA InBlockGrows ==
  ASSUME NEW t \in Seq(Symbol), NEW c \in Symbol, NEW u, u = Append(t, c), NEW d \in Int,
         NEW st \in {2, 3}, InBlock(t, d, st), NEW e, e = Deeper(d, st, c), e >= 1,
         NEW to, to = Behind(st, c)
  PROVE  InBlock(u, e, to)
<1> USE DEF Deeper, Behind
<1>1. Len(t) \in Nat /\ Len(u) = Len(t) + 1
  OBVIOUS
<1>2. Escapes(t)[Len(t) + 1] <=> st = 3
  BY DEF InBlock
<1>3. Escapes(u)[Len(u) + 1] <=> c = "backslash" /\ ~Escapes(t)[Len(t) + 1]
  BY EscapesGrow, Zenon
<1>4. /\ \A i \in 0..Len(t) : Braces(u)[i] = Braces(t)[i]
      /\ Braces(u)[Len(u)] = Braces(t)[Len(t)] +
           (IF Escapes(t)[Len(t) + 1] THEN 0 ELSE Weighs(c))
  <2>1. u = Append(t, c) /\ t \in Seq(Symbol) /\ c \in Symbol
    OBVIOUS
  <2>2. \A i \in 0..Len(t) : Braces(u)[i] = Braces(t)[i]
    BY <2>1, BracesGrow, Zenon
  <2> QED BY <2>1, <2>2, BracesGrow, Zenon
<1>5. Braces(u)[Len(u)] = e - 1
  <2>1. Braces(t)[Len(t)] = d - 1
    BY DEF InBlock
  <2>2. CASE st = 3
    BY <1>2, <1>4, <2>1, <2>2
  <2>3. CASE st = 2
    <3>1. ~Escapes(t)[Len(t) + 1]
      BY <1>2, <2>3
    <3>2. CASE c = "open"
      BY <1>4, <2>1, <2>3, <3>1, <3>2 DEF Weighs
    <3>3. CASE c = "close"
      BY <1>4, <2>1, <2>3, <3>1, <3>3 DEF Weighs
    <3>4. CASE c \notin {"open", "close"}
      BY <1>4, <2>1, <2>3, <3>1, <3>4 DEF Weighs
    <3> QED BY <3>2, <3>3, <3>4
  <2> QED BY <2>2, <2>3
<1>6. e \in Int
  OBVIOUS
<1>7. ASSUME NEW i \in 1..Len(u) PROVE Braces(u)[i] >= 0
  <2>1. CASE i = Len(u)
    BY <1>5, <1>6, <2>1
  <2>2. CASE i # Len(u)
    <3>1. i \in 1..Len(t) /\ i \in 0..Len(t)
      BY <1>1, <2>2
    <3> QED BY <1>4, <3>1 DEF InBlock
  <2> QED BY <2>1, <2>2
<1>8. Escapes(u)[Len(u) + 1] <=> to = 3
  BY <1>2, <1>3
<1> QED BY <1>5, <1>7, <1>8 DEF InBlock

\* One turn of the loop for a line.
LEMMA InLineGrows ==
  ASSUME NEW t \in Seq(Symbol), NEW c \in Symbol, NEW u, u = Append(t, c),
         NEW st \in {2, 3}, InLine(t, st), st = 2 => c \notin {"newline", "comment"},
         NEW to, to = Behind(st, c)
  PROVE  InLine(u, to)
<1> USE DEF Behind
<1>1. Len(t) \in Nat /\ Len(u) = Len(t) + 1 /\ u[Len(u)] = c /\ DOMAIN u = 1..Len(u)
      /\ \A i \in 1..Len(t) : u[i] = t[i]
  OBVIOUS
<1>2. Escapes(t)[Len(t) + 1] <=> st = 3
  BY DEF InLine
<1>3. /\ \A i \in 0..Len(t) + 1 : Escapes(u)[i] = Escapes(t)[i]
      /\ Escapes(u)[Len(u) + 1] <=> c = "backslash" /\ ~Escapes(t)[Len(t) + 1]
  <2>0. u = Append(t, c) /\ t \in Seq(Symbol) /\ c \in Symbol
    OBVIOUS
  <2> QED BY <2>0, EscapesGrow, Zenon
<1>4. ASSUME NEW i \in DOMAIN u, u[i] \in {"newline", "comment"} PROVE Escapes(u)[i]
  <2>1. i \in 0..Len(t) + 1
    BY <1>1
  <2>2. Escapes(u)[i] <=> Escapes(t)[i]
    BY <1>3, <2>1, Zenon
  <2>3. CASE i = Len(u)
    BY <1>1, <1>2, <1>4, <2>2, <2>3
  <2>4. CASE i # Len(u)
    <3>1. i \in DOMAIN t /\ u[i] = t[i]
      BY <1>1, <2>4
    <3> QED BY <1>4, <2>2, <3>1 DEF InLine
  <2> QED BY <2>3, <2>4
<1>5. Escapes(u)[Len(u) + 1] <=> to = 3
  BY <1>2, <1>3
<1> QED BY <1>4, <1>5 DEF InLine

\* What SpansFit asks of a call.
Fits(c) ==
  /\ 1 <= c.start /\ c.start <= c.end /\ c.end <= Len(content)
  /\ \/ content[c.end] = "close" /\ Balanced(TextOf(c))
     \/ content[c.end] \in {"newline", "comment"} /\ ForLine(TextOf(c))

LEMMA SpansFitIs ==
  SpansFit <=> /\ p \in 1..(Len(content) + 1)
               /\ \A k \in DOMAIN calls : calls[k].what \in Blocked => Fits(calls[k])
BY DEF SpansFit, Fits

\* A block ends at the brace that closes it.
LEMMA BlockFits ==
  ASSUME Types, SpanInv, Block, calls' # calls, NEW c, c = Made(p)
  PROVE  Fits(c)
<1>1. PICK next : next = Look(BlockTrans, BlockColumn)
  OBVIOUS
<1>2. status \in 0..3 /\ depth \in Int /\ p \in Nat /\ start \in 0..p
  BY DEF Block, Types
<1>3. next = 2 /\ depth' = 0 /\ input = "block"
  BY <1>1 DEF Block
<1>4. status = 2 /\ Char = "close" /\ depth = 1
  <2>1. depth' = IF status = 0 /\ next = 2 THEN depth + 1
                 ELSE depth + (IF status = 2 /\ next = 2 /\ Char = "open" THEN 1
                               ELSE IF status = 2 /\ next = 2 /\ Char = "close" THEN -1 ELSE 0)
    BY <1>1 DEF Block
  <2>2. CASE status \in {0, 1}
    <3>1. depth = 0 /\ status # 1
      BY <1>1, <1>2, <1>3, <2>2, BlockTurn DEF SpanInv
    <3> QED BY <1>3, <2>1, <2>2, <3>1
  <2>3. CASE status \in {2, 3}
    <3>1. depth >= 1
      BY <1>3, <2>3 DEF SpanInv, InBlock
    <3> QED BY <1>2, <1>3, <2>1, <3>1
  <2> QED BY <1>2, <2>2, <2>3
<1>5. p \in 1..Len(content) /\ content[p] = "close"
  BY <1>4, CharFacts
<1>6. start >= 1 /\ InBlock(Span, depth, status) /\ start' = start
  BY <1>3, <1>4 DEF SpanInv, Block
<1>7. c.start = start /\ c.end = p /\ TextOf(c) = Span
  BY <1>6 DEF Made, TextOf, Span
<1>8. PICK t : t = Span
  OBVIOUS
<1>9. Braces(t)[Len(t)] = 0 /\ (\A i \in 1..Len(t) : Braces(t)[i] >= 0) /\ ForBlock(t)
  BY <1>4, <1>6, <1>8 DEF InBlock, ForBlock
<1>10. 1 <= start /\ start <= p /\ p <= Len(content)
  BY <1>2, <1>5, <1>6
<1> QED BY <1>5, <1>7, <1>8, <1>9, <1>10 DEF Fits, Balanced

\* A line ends at its newline or comment.
LEMMA LineFits ==
  ASSUME Types, SpanInv, Line, calls' # calls, NEW c, c = Made(end')
  PROVE  Fits(c)
<1>1. PICK next : next = Look(LineTrans, LineColumn)
  OBVIOUS
<1>2. status \in 0..3 /\ p \in Nat /\ start \in 0..p /\ input = "line"
  BY DEF Line, Types
<1>3. next = 4
  BY <1>1 DEF Line
<1>4. status = 2 /\ Char \in {"newline", "comment"}
  BY <1>1, <1>2, <1>3, LineTurn
<1>5. p \in 1..Len(content) /\ content[p] \in {"newline", "comment"}
  BY <1>4, CharFacts
<1>6. start >= 1 /\ InLine(Span, status) /\ start' = start /\ end' = p
  BY <1>1, <1>2, <1>3, <1>4 DEF SpanInv, Line
<1>7. c.start = start /\ c.end = p /\ TextOf(c) = Span
  BY <1>6 DEF Made, TextOf, Span
<1>8. PICK t : t = Span
  OBVIOUS
<1>9. ForLine(t)
  BY <1>4, <1>6, <1>8 DEF InLine, ForLine, ForBlock
<1>10. 1 <= start /\ start <= p /\ p <= Len(content)
  BY <1>2, <1>5, <1>6
<1> QED BY <1>5, <1>7, <1>8, <1>9, <1>10 DEF Fits

\* A record of a call, and what the text under it is, does not change with the reader.
LEMMA FitsStays == ASSUME content' = content, NEW c, Fits(c) PROVE Fits(c)'
BY DEF Fits, TextOf

\* What block_handler calls.
LEMMA MadeType ==
  ASSUME Types, Next, ReadName \/ Line \/ Block, NEW l \in Nat
  PROVE  Made(l) \in Calling
<1>1. type \in Directive /\ at \in Nat
  BY DEF ReadName, Line, Block, Types, Handlers
<1>2. name' \in Seq(Symbol) /\ start' \in 0..p' /\ p' \in Nat
  BY TypesNext DEF Types
<1>3. start' \in Nat
  BY <1>2
<1> QED BY <1>1, <1>2, <1>3 DEF Made, Calling, Named

\* No step but the loops for a line and a block starts a task.
LEMMA OthersCall ==
  ASSUME Types, Next, ~Block, ~Line, NEW k \in 1..Len(calls'), k \notin 1..Len(calls)
  PROVE  calls'[k].what \notin Blocked
<1>0. calls' # calls /\ Len(calls) \in Nat /\ Kept
  BY KeptNext DEF Types
<1> DEFINE New == /\ \A r \in Calling : calls' = Append(calls, r) => r = calls'[k]
<1>1. New
  <2> SUFFICES ASSUME NEW r \in Calling, calls' = Append(calls, r) PROVE r = calls'[k]
    OBVIOUS
  <2>1. Len(calls') = Len(calls) + 1 /\ calls'[Len(calls')] = r
    BY OneCall
  <2> QED BY <1>0, <2>1
<1>2. CASE NewContext
  <2>1. PICK r : r = [what |-> "context", name |-> name, at |-> at, start |-> start, end |-> p - 1]
    OBVIOUS
  <2>2. r \in Calling
    BY <2>1 DEF Calling, Named, Types, Directive
  <2>3. calls' = Append(calls, r)
    BY <1>0, <1>2, <2>1 DEF NewContext, Called
  <2> QED BY <1>1, <2>1, <2>2, <2>3 DEF Blocked
<1>3. CASE EndContext
  <2>0. p - 1 \in Nat
    BY DEF Types
  <2>1. PICK r : r = [what |-> "end", at |-> p - 1]
    OBVIOUS
  <2>2. r \in Calling /\ calls' = Append(calls, r)
    BY <1>0, <1>3, <2>0, <2>1 DEF EndContext, Calling
  <2> QED BY <1>1, <2>1, <2>2 DEF Blocked
<1>4. CASE Finish
  <2>1. calls' = calls \o EndCalls(level + 1)
    BY <1>0, <1>4 DEF Finish, EndCalls, EndCall
  <2>2. k \in Len(calls) + 1..Len(calls')
    BY <1>0, <2>1, AllEnd DEF Kept
  <2>3. calls'[k] = EndCall(p)
    BY <2>1, <2>2, AllEnd
  <2> QED BY <2>3 DEF Blocked, EndCall
<1>5. CASE ReadName
  <2>1. type \in {"undefdir", "unnoextend"} /\ calls' = Append(calls, Made(p' - 1))
    BY <1>0, <1>5 DEF ReadName, Decides, Types, Made
  <2>2. p' - 1 \in Nat
    <3>1. p \in 1..Len(content) + 1 /\ Len(content) \in Nat
      BY DEF Types
    <3>2. \A q \in p..Len(content) + 1 : q - 1 \in Nat
      BY <3>1
    <3> QED BY <1>0, <3>2, Zenon DEF Kept
  <2>3. PICK r \in Calling : r = Made(p' - 1)
    BY <1>5, <2>2, MadeType
  <2>4. calls' = Append(calls, r) /\ r.what = type
    BY <2>1, <2>3 DEF Made
  <2>5. r = calls'[k]
    BY <1>1, <2>3, <2>4
  <2> QED BY <2>1, <2>4, <2>5 DEF Blocked
<1>6. CASE Read \/ Comment \/ ReadOrder \/ Context \/ Test \/ Call \/ Report \/ Stopped
  BY <1>0, <1>6 DEF Read, Comment, ReadOrder, Context, Test, Call, Report, Stopped, vars
<1> QED BY <1>2, <1>3, <1>4, <1>5, <1>6 DEF Next

LEMMA FitNext == ASSUME Types, SpanInv, SpansFit, Next PROVE SpansFit'
<1>1. Types' /\ Kept
  BY TypesNext, KeptNext
<1>2. p' \in 1..(Len(content') + 1)
  BY <1>1 DEF Types
<1>3. ASSUME NEW k \in DOMAIN calls', calls'[k].what \in Blocked PROVE Fits(calls[k])'
  <2>1. content' = content /\ Len(calls) \in Nat /\ k \in 1..Len(calls') /\ DOMAIN calls = 1..Len(calls)
    BY <1>1 DEF Kept, Types
  <2>2. PICK c : c = calls'[k]
    OBVIOUS
  <2>3. CASE k \in 1..Len(calls)
    <3>1. c = calls[k]
      BY <1>1, <2>2, <2>3 DEF Kept
    <3>2. Fits(c)
      BY <1>3, <2>1, <2>2, <2>3, <3>1, SpansFitIs
    <3>3. Fits(c)'
      BY <2>1, <3>2, FitsStays
    <3> QED BY <2>2, <3>3 DEF Fits, TextOf
  <2>4. CASE k \notin 1..Len(calls)
    <3>1. calls' # calls
      BY <2>1, <2>4
    <3>2. ASSUME Block PROVE Fits(c)
      <4>1. calls' = Append(calls, Made(p)) /\ Made(p) \in Calling
        <5>1. calls' = Append(calls, Made(p))
          BY <3>1, <3>2 DEF Block, Decides, Made
        <5>2. p \in Nat
          BY DEF Types
        <5> QED BY <3>2, <5>1, <5>2, MadeType
      <4>2. c = Made(p)
        BY <2>1, <2>2, <2>4, <4>1, OneCall
      <4> QED BY <3>1, <3>2, <4>2, BlockFits
    <3>3. ASSUME Line PROVE Fits(c)
      <4>1. calls' = Append(calls, Made(end')) /\ Made(end') \in Calling
        <5>1. calls' = Append(calls, Made(end'))
          BY <3>1, <3>3 DEF Line, Decides, Made
        <5>2. end' \in 0..p' /\ p' \in Nat
          BY <1>1 DEF Types
        <5>3. end' \in Nat
          BY <5>2
        <5> QED BY <3>3, <5>1, <5>3, MadeType
      <4>2. c = Made(end')
        BY <2>1, <2>2, <2>4, <4>1, OneCall
      <4> QED BY <3>1, <3>3, <4>2, LineFits
    <3>4. ASSUME ~Block, ~Line PROVE FALSE
      BY <1>3, <2>1, <2>2, <2>4, <3>1, <3>4, OthersCall
    <3>5. Fits(c)
      BY <3>2, <3>3, <3>4
    <3>6. Fits(c)'
      BY <2>1, <3>5, FitsStays
    <3> QED BY <2>2, <3>6 DEF Fits, TextOf
  <2> QED BY <2>3, <2>4
<1>4. \A k \in DOMAIN calls' : calls'[k].what \in Blocked => Fits(calls[k])'
  BY <1>3
<1>5. SpansFit' <=> /\ p' \in 1..(Len(content') + 1)
                    /\ \A k \in DOMAIN calls' : calls'[k].what \in Blocked => Fits(calls[k])'
  BY DEF SpansFit, Fits, TextOf
<1> QED BY <1>2, <1>4, <1>5

\* Where a text begins it is empty, and a turn adds its character.
LEMMA SpanStarts ==
  ASSUME start' = p', p' \in Nat
  PROVE  Span' = <<>>
<1>1. PICK q \in Nat : q = p'
  OBVIOUS
<1>2. PICK t : t = content'
  OBVIOUS
<1>3. SubSeq(t, q, q - 1) = <<>>
  OBVIOUS
<1> QED BY <1>1, <1>2, <1>3 DEF Span

LEMMA SpanReads ==
  ASSUME Types, Char # "nul", start >= 1, start' = start, p' = p + 1, content' = content
  PROVE  Span \in Seq(Symbol) /\ Span' = Append(Span, Char) /\ Char \in Symbol
<1>1. /\ content \in Seq(Symbol) /\ start \in Nat /\ p \in Nat
      /\ 1 <= start /\ start <= p /\ p <= Len(content) /\ content[p] = Char
  BY CharFacts DEF Types
<1>2. Span' = SubSeq(content, start, p)
  <2>1. p' - 1 = p
    BY <1>1
  <2> QED BY <2>1 DEF Span
<1> QED BY <1>1, <1>2, SpanGrows DEF Span

LEMMA BlockSpan == ASSUME Types, SpanInv, Block PROVE SpanInv'
<1>1. PICK next : next = Look(BlockTrans, BlockColumn)
  OBVIOUS
<1>2. status \in 0..3 /\ depth \in Int /\ p \in Nat /\ p >= 1 /\ start \in 0..p /\ input = "block"
      /\ content' = content
  BY DEF Block, Types
<1>3. /\ depth' = IF status = 0 /\ next = 2 THEN depth + 1
                  ELSE depth + (IF status = 2 /\ next = 2 /\ Char = "open" THEN 1
                                ELSE IF status = 2 /\ next = 2 /\ Char = "close" THEN -1 ELSE 0)
      /\ start' = IF status = 0 /\ next = 2 THEN p + 1 ELSE start
      /\ p' = IF next = 4 THEN p ELSE p + 1
      /\ status' = next
      /\ input' = "block" <=> ~(next = 2 /\ depth' = 0) /\ next # 4
      /\ input' \in {"block", "call", "ERROR"}
  BY <1>1, <1>2 DEF Block, Decides, Returns
<1>4. CASE input' # "block"
  BY <1>3, <1>4 DEF SpanInv
<1>5. CASE input' = "block"
  <2>1. next # 4 /\ p' = p + 1
    BY <1>3, <1>5
  <2>2. CASE status \in {0, 1}
    <3>1. depth = 0
      BY <1>2, <2>2 DEF SpanInv
    <3>2. CASE next = 2
      <4>1. status = 0
        BY <1>1, <1>2, <2>2, <3>2, BlockTurn
      <4>2. depth' = 1 /\ start' = p'
        BY <1>3, <2>1, <3>1, <3>2, <4>1
      <4>3. Span' = <<>> /\ start' >= 1
        BY <1>2, <2>1, <4>2, SpanStarts
      <4>4. PICK t : t = Span'
        OBVIOUS
      <4>5. InBlock(t, 1, 2)
        BY <4>3, <4>4, InBlockEmpty
      <4> QED BY <1>3, <1>5, <3>2, <4>2, <4>3, <4>4, <4>5 DEF SpanInv, InBlock
    <3>3. CASE next # 2
      <4>1. next \in {0, 1}
        BY <1>1, <1>2, <2>1, <2>2, <3>3, BlockTurn
      <4>2. depth' = 0
        BY <1>3, <3>1, <3>3
      <4> QED BY <1>3, <1>5, <4>1, <4>2 DEF SpanInv
    <3> QED BY <3>2, <3>3
  <2>3. CASE status \in {2, 3}
    <3>1. start >= 1 /\ InBlock(Span, depth, status)
      BY <1>2, <2>3 DEF SpanInv
    <3>2. Char # "nul" /\ next \in {2, 3} /\ (status = 3 => next = 2)
          /\ (status = 2 => (next = 3 <=> Char = "backslash"))
      BY <1>1, <1>2, <2>1, <2>3, BlockTurn
    <3>3. start' = start
      BY <1>3, <2>3
    <3>4. PICK t : t = Span
      OBVIOUS
    <3>5. PICK u : u = Span'
      OBVIOUS
    <3>6. t \in Seq(Symbol) /\ u = Append(t, Char) /\ Char \in Symbol
      BY <1>2, <2>1, <3>1, <3>2, <3>3, <3>4, <3>5, SpanReads
    <3>7. PICK e : e = depth'
      OBVIOUS
    <3>8. e = depth + (IF status = 2 /\ Char = "open" THEN 1
                       ELSE IF status = 2 /\ Char = "close" THEN -1 ELSE 0)
      <4>1. CASE next = 2
        BY <1>3, <2>3, <3>7, <4>1
      <4>2. CASE next = 3
        BY <1>3, <2>3, <3>2, <3>7, <4>2
      <4> QED BY <3>2, <4>1, <4>2
    <3>9. e >= 1
      <4>1. depth >= 1
        BY <3>1 DEF InBlock
      <4>2. next = 2 => e # 0
        BY <1>3, <1>5, <3>7
      <4>3. next = 3 => e = depth
        BY <1>2, <2>3, <3>2, <3>8
      <4> QED BY <1>2, <3>2, <3>8, <4>1, <4>2, <4>3
    <3>10. next = IF status = 2 /\ Char = "backslash" THEN 3 ELSE 2
      BY <2>3, <3>2
    <3>11. InBlock(u, e, next)
      <4>1. PICK c \in Symbol : c = Char
        BY <3>6
      <4>2. PICK st \in {2, 3} : st = status
        BY <2>3
      <4>3. PICK d \in Int : d = depth
        BY <1>2
      <4>4. InBlock(t, d, st) /\ u = Append(t, c)
            /\ e = Deeper(d, st, c) /\ next = Behind(st, c)
        BY <3>1, <3>4, <3>6, <3>8, <3>10, <4>1, <4>2, <4>3 DEF Deeper, Behind
      <4> QED BY <3>6, <3>9, <4>1, <4>2, <4>3, <4>4, InBlockGrows
    <3> QED BY <1>3, <1>5, <3>1, <3>2, <3>3, <3>5, <3>7, <3>11 DEF SpanInv, InBlock
  <2> QED BY <1>2, <2>2, <2>3
<1> QED BY <1>4, <1>5

LEMMA LineSpan == ASSUME Types, SpanInv, Line PROVE SpanInv'
<1>1. PICK next : next = Look(LineTrans, LineColumn)
  OBVIOUS
<1>2. status \in 0..3 /\ p \in Nat /\ p >= 1 /\ start \in 0..p /\ input = "line"
      /\ content' = content /\ depth' = depth /\ depth = 0
  BY DEF Line, Types, SpanInv
<1>3. /\ start' = (IF status = 0 /\ next = 2 THEN (IF Char = "colon" THEN p + 1 ELSE p)
                   ELSE IF next = 5 THEN 0 ELSE start)
      /\ next \notin {4, 5, 6} => p' = p + 1
      /\ status' = IF next = 5 THEN 0 ELSE next
      /\ input' = "block" <=> next = 5
      /\ input' = "line" <=> next \notin {4, 5, 6}
      /\ input' \in {"line", "block", "call", "ERROR"}
  BY <1>1, <1>2 DEF Line, Decides, Returns
<1>4. CASE input' # "line"
  BY <1>2, <1>3, <1>4 DEF SpanInv
<1>5. CASE input' = "line"
  <2>1. p' = p + 1 /\ next \notin {4, 5, 6} /\ status' = next
    BY <1>3, <1>5
  <2>2. next \in 0..6 /\ Char # "nul"
    BY <1>1, <1>2, <2>1, LineTurn
  <2>3. CASE next \in {0, 1}
    BY <1>2, <1>3, <1>5, <2>1, <2>3 DEF SpanInv
  <2>4. CASE next \in {2, 3} /\ status \in {2, 3}
    <3>1. start >= 1 /\ InLine(Span, status)
      BY <1>2, <2>4 DEF SpanInv
    <3>2. /\ status = 3 => next = 2
          /\ status = 2 => (next = 3 <=> Char = "backslash") /\ Char \notin {"newline", "comment"}
      BY <1>1, <1>2, <2>1, <2>4, LineTurn
    <3>3. start' = start
      BY <1>3, <2>1, <2>4
    <3>4. PICK t : t = Span
      OBVIOUS
    <3>5. PICK u : u = Span'
      OBVIOUS
    <3>6. t \in Seq(Symbol) /\ u = Append(t, Char) /\ Char \in Symbol
      BY <1>2, <2>1, <2>2, <3>1, <3>3, <3>4, <3>5, SpanReads
    <3>7. next = IF status = 2 /\ Char = "backslash" THEN 3 ELSE 2
      BY <2>4, <3>2
    <3>8. InLine(u, next)
      <4>1. PICK c \in Symbol : c = Char
        BY <3>6
      <4>2. PICK st \in {2, 3} : st = status
        BY <2>4
      <4>3. InLine(t, st) /\ u = Append(t, c) /\ (st = 2 => c \notin {"newline", "comment"})
            /\ next = Behind(st, c)
        BY <3>1, <3>2, <3>4, <3>6, <3>7, <4>1, <4>2 DEF Behind
      <4> QED BY <3>6, <4>1, <4>2, <4>3, InLineGrows
    <3> QED BY <1>2, <1>5, <2>1, <2>4, <3>1, <3>3, <3>5, <3>8 DEF SpanInv, InLine
  <2>5. CASE next \in {2, 3} /\ status \in {0, 1}
    <3>1. status = 0 /\ next = 2 /\ Char \in NameChars \cup {"colon"}
      BY <1>1, <1>2, <2>1, <2>5, LineTurn
    <3>2. CASE Char = "colon"
      <4>1. start' = p'
        BY <1>3, <2>1, <3>1, <3>2
      <4>2. Span' = <<>> /\ start' >= 1
        BY <1>2, <2>1, <4>1, SpanStarts
      <4>3. PICK t : t = Span'
        OBVIOUS
      <4>4. InLine(t, 2)
        BY <4>2, <4>3, InLineEmpty
      <4> QED BY <1>2, <1>5, <2>1, <3>1, <4>2, <4>3, <4>4 DEF SpanInv, InLine
    <3>3. CASE Char # "colon"
      <4>1. start' = p /\ Char \in NameChars
        BY <1>3, <2>1, <3>1, <3>3
      <4>2. content \in Seq(Symbol) /\ p <= Len(content) /\ content[p] = Char
        BY <2>2, CharFacts DEF Types
      <4>3. PICK t : t = SubSeq(content, p, p - 1)
        OBVIOUS
      <4>4. PICK u : u = Span'
        OBVIOUS
      <4>5. u = SubSeq(content, p, p)
        <5>1. p' - 1 = p
          BY <1>2, <2>1
        <5> QED BY <1>2, <4>1, <4>4, <5>1 DEF Span
      <4>6. t = <<>>
        <5>1. p - 1 < p
          BY <1>2
        <5> QED BY <1>2, <4>3, <5>1
      <4>7. t \in Seq(Symbol) /\ u = Append(t, Char) /\ Char \in Symbol
        <5>1. p \in Nat /\ 1 <= p /\ p <= p /\ p <= Len(content)
          BY <1>2, <4>2
        <5>2. /\ SubSeq(content, p, p - 1) \in Seq(Symbol)
              /\ SubSeq(content, p, p) = Append(SubSeq(content, p, p - 1), content[p])
              /\ content[p] \in Symbol
          BY <4>2, <5>1, SpanGrows
        <5> QED BY <4>2, <4>3, <4>5, <5>2, Zenon
      <4>8. InLine(t, 2)
        BY <4>6, InLineEmpty
      <4>9. Char \notin {"newline", "comment", "backslash"}
        BY <4>1 DEF NameChars, Directive
      <4>10. InLine(u, 2)
        <5>1. PICK c \in Symbol : c = Char
          BY <4>7
        <5>2. PICK st \in {2, 3} : st = 2
          OBVIOUS
        <5>3. PICK to : to = 2
          OBVIOUS
        <5>4. InLine(t, st) /\ u = Append(t, c) /\ (st = 2 => c \notin {"newline", "comment"})
              /\ to = Behind(st, c)
          BY <4>7, <4>8, <4>9, <5>1, <5>2, <5>3 DEF Behind
        <5>5. InLine(u, to)
          BY <4>7, <5>1, <5>2, <5>4, InLineGrows
        <5> QED BY <5>3, <5>5
      <4> QED BY <1>2, <1>5, <2>1, <3>1, <4>1, <4>4, <4>10 DEF SpanInv, InLine
    <3> QED BY <3>2, <3>3
  <2>6. next \in {0, 1, 2, 3}
    BY <2>1, <2>2
  <2> QED BY <1>2, <2>3, <2>4, <2>5, <2>6
<1> QED BY <1>4, <1>5

LEMMA SpanNext == ASSUME Types, SpanInv, Next PROVE SpanInv'
<1>1. CASE Block
  BY <1>1, BlockSpan
<1>2. CASE Line
  BY <1>2, LineSpan
<1>3. CASE ReadOrder
  BY <1>3 DEF ReadOrder, SpanInv, Directive
<1>4. CASE ReadName
  <2>1. depth' = 0 /\ input = "name"
    BY <1>4 DEF ReadName, SpanInv
  <2>2. CASE input' = "block"
    <3>1. PICK next : next = IF NameColumn = 4 THEN 5 ELSE Look(NameTrans, NameColumn)
      OBVIOUS
    <3>2. next \in {4, 5}
      <4>1. ASSUME next \notin {4, 5} PROVE FALSE
        <5>1. input' = input
          BY <1>4, <3>1, <4>1 DEF ReadName
        <5> QED BY <2>1, <2>2, <4>1, <5>1
      <4> QED BY <4>1
    <3>3. status' = 0
      BY <1>4, <3>1, <3>2 DEF ReadName
    <3> QED BY <2>1, <2>2, <3>3 DEF SpanInv
  <2>3. CASE input' # "block"
    <3>1. input' \in {"name", "call", "ERROR"}
      BY <1>4, <2>1, <2>3 DEF ReadName, Decides, Returns
    <3> QED BY <2>1, <2>3, <3>1 DEF SpanInv
  <2> QED BY <2>2, <2>3
<1>5. CASE NewContext \/ Read \/ EndContext \/ Finish \/ Comment \/ Context \/ Test \/ Call
  <2>1. input' \notin {"name", "line", "block"}
    BY <1>5 DEF NewContext, Read, SignalOf, EndContext, Finish, Comment, Context, Returns, Test,
                Signals, Call
  <2> QED BY <2>1 DEF SpanInv
<1>6. CASE Report \/ Stopped
  BY <1>6 DEF Report, Stopped, vars, handler, SpanInv, Span
<1> QED BY <1>1, <1>2, <1>3, <1>4, <1>5, <1>6 DEF Next
-----------------------------------------------------------------------------
(* The theorems. *)

LEMMA ReaderInit == Init => ReaderInv
<1> SUFFICES ASSUME Init PROVE ReaderInv
  OBVIOUS
<1>1. Types
  BY TypesInit
<1>2. SpanInv
  BY DEF Init, SpanInv
<1>4. SpansFit
  <2>1. p \in 1..(Len(content) + 1) /\ DOMAIN calls = {}
    BY <1>1 DEF Init, Types
  <2> QED BY <2>1 DEF SpansFit
<1> QED BY <1>1, <1>2, <1>4 DEF ReaderInv

LEMMA ReaderNext == ReaderInv /\ [Next]_vars => ReaderInv'
<1> SUFFICES ASSUME ReaderInv, [Next]_vars PROVE ReaderInv'
  OBVIOUS
<1>1. CASE Next
  BY <1>1, TypesNext, SpanNext, FitNext DEF ReaderInv
<1>2. CASE UNCHANGED vars
  <2>1. Types'
    BY <1>2 DEF ReaderInv, Types, vars
  <2>2. SpanInv'
    BY <1>2 DEF ReaderInv, SpanInv, Span, vars
  <2>4. SpansFit'
    BY <1>2 DEF ReaderInv, SpansFit, TextOf, vars
  <2> QED BY <2>1, <2>2, <2>4 DEF ReaderInv
<1> QED BY <1>1, <1>2

LEMMA ReaderAlways == Spec => []ReaderInv
BY ReaderInit, ReaderNext, PTL DEF Spec

\* For every text of any length: the pointer of the reader never passes the '\0', and
\* block_handler gives a task a text within the file: a line up to its first end that is not
\* escaped, or a block in which the braces that are not escaped are balanced, those in
\* comments and quotes counted, up to the brace that closes it.
THEOREM TasksGetTheirText == Spec => []SpansFit
<1>1. ReaderInv => SpansFit
  BY DEF ReaderInv
<1> QED BY <1>1, ReaderAlways, PTL

\* A decision or a signal that has passed the test of the flag in front of an error is
\* from where the reader stood when the error came.
StillThere ==
  /\ error /\ input = "call" => p = reportedAt
  /\ error /\ tested => input = "ERROR" \/ p = reportedAt

LEMMA StillThereNext == ASSUME Types, StillThere, Next PROVE StillThere'
<1>1. CASE NewContext \/ Read \/ EndContext \/ Finish \/ Comment \/ ReadOrder
  <2>1. tested' = FALSE
    BY <1>1 DEF NewContext, Read, EndContext, Finish, Comment, ReadOrder
  <2>2. input' # "call"
    BY <1>1 DEF NewContext, Read, SignalOf, EndContext, Finish, Comment, ReadOrder
  <2> QED BY <2>1, <2>2 DEF StillThere
<1>2. CASE ReadName \/ Line \/ Block \/ Context
  <2>1. tested' = FALSE
    BY <1>2 DEF ReadName, Line, Block, Context, Types, Signals
  <2>2. input' = "call" => ~error'
    BY <1>2 DEF ReadName, Line, Block, Context, Decides, Returns
  <2> QED BY <2>1, <2>2 DEF StillThere
<1>3. CASE Call
  BY <1>3 DEF Call, StillThere, Types, Signals
<1>4. CASE Test
  BY <1>4 DEF Test, StillThere, Signals
<1>5. CASE Report \/ Stopped
  BY <1>5 DEF Report, Stopped, vars, StillThere
<1> QED BY <1>1, <1>2, <1>3, <1>4, <1>5 DEF Next

LEMMA CallsNothingNew ==
  ASSUME Types, StillThere, Next, NEW k \in (CallsMade + 1)..CallsMade', error, calls'[k].what # "end"
  PROVE  p = reportedAt
<1>0. Len(calls) \in Nat /\ Len(calls') \in Nat
  BY KeptNext DEF Kept
<1>1. CASE NewContext
  BY <1>1, SignalFacts DEF NewContext, StillThere, Signals
<1>2. CASE Call
  BY <1>2 DEF Call, StillThere
<1>3. CASE EndContext
  <2>1. input = "ENDCONTEXT" /\ CallsMade = Len(calls) /\ CallsMade' = Len(calls')
    BY <1>3, SignalFacts DEF EndContext, CallsMade, Signals
  <2>2. calls' # calls
    BY <1>0, <2>1
  <2>3. p - 1 \in Nat
    BY DEF Types
  <2>4. PICK r \in Calling : r = [what |-> "end", at |-> p - 1]
    BY <2>3 DEF Calling
  <2>5. calls' = Append(calls, r)
    BY <1>3, <2>2, <2>4 DEF EndContext
  <2>6. Len(calls') = Len(calls) + 1 /\ calls'[Len(calls')] = r
    BY <2>5, OneCall
  <2>7. k = Len(calls')
    BY <1>0, <2>1, <2>6
  <2> QED BY <2>4, <2>6, <2>7
<1>4. CASE Finish
  <2>1. input \in {"ERROR", "END"} /\ CallsMade = Len(calls) /\ CallsMade' = Len(calls')
    BY <1>4, SignalFacts DEF Finish, CallsMade, Signals
  <2>2. calls' # calls
    BY <1>0, <2>1
  <2>3. calls' = calls \o EndCalls(level + 1)
    BY <1>4, <2>2 DEF Finish, EndCalls, EndCall
  <2>4. calls'[k] = EndCall(p)
    BY <2>1, <2>3, AllEnd
  <2> QED BY <2>4 DEF EndCall
<1>5. CASE Test \/ Read \/ Comment \/ ReadOrder \/ ReadName \/ Line \/ Block \/ Context \/ Report \/ Stopped
  <2>1. CASE Read \/ Comment \/ ReadOrder
    <3>1. calls' = calls /\ input' # "call"
      BY <2>1 DEF Read, SignalOf, Comment, ReadOrder
    <3>2. input # "call"
      BY <2>1, SignalFacts DEF Read, Comment, ReadOrder, Signals
    <3> QED BY <1>0, <3>1, <3>2 DEF CallsMade
  <2>2. CASE ReadName \/ Line \/ Block \/ Context
    <3>1. calls' = calls /\ input' # "call"
      BY <2>2 DEF ReadName, Line, Block, Context, Decides, Returns
    <3>2. input # "call"
      BY <2>2 DEF ReadName, Line, Block, Context
    <3> QED BY <1>0, <3>1, <3>2 DEF CallsMade
  <2>3. CASE Test \/ Report \/ Stopped
    <3>1. calls' = calls /\ (input' = "call" <=> input = "call")
      BY <2>3 DEF Test, Signals, Report, Stopped, vars
    <3> QED BY <1>0, <3>1 DEF CallsMade
  <2> QED BY <1>5, <2>1, <2>2, <2>3
<1> QED BY <1>1, <1>2, <1>3, <1>4, <1>5 DEF Next

\* Once a task has reported an error the reader ends contexts and makes at most the call of
\* the directive it had read to its end at that moment, also when the error comes between
\* its test of the flag and the call: it reads no other directive.
THEOREM ErrorEndsTheReading == Spec => NothingReadAfterError
<1> DEFINE Step == \A k \in (CallsMade + 1)..CallsMade' :
                     error /\ calls'[k].what # "end" => p = reportedAt
<1>1. Init => ReaderInv /\ StillThere
  BY ReaderInit DEF Init, StillThere
<1>2. ReaderInv /\ StillThere /\ [Next]_vars => (ReaderInv /\ StillThere)'
  <2> SUFFICES ASSUME ReaderInv, StillThere, [Next]_vars PROVE (ReaderInv /\ StillThere)'
    OBVIOUS
  <2>1. ReaderInv'
    BY ReaderNext
  <2>2. CASE Next
    BY <2>1, <2>2, StillThereNext DEF ReaderInv
  <2>3. CASE UNCHANGED vars
    BY <2>1, <2>3 DEF StillThere, vars
  <2> QED BY <2>2, <2>3
<1>3. ReaderInv /\ StillThere /\ [Next]_vars => [Step]_vars
  BY CallsNothingNew DEF ReaderInv
<1>4. [][Step]_vars => NothingReadAfterError
  BY PTL DEF NothingReadAfterError
<1> QED BY <1>1, <1>2, <1>3, <1>4, PTL DEF Spec

-----------------------------------------------------------------------------
(* A file of directives.  The reader follows the marks of the file: as     *)
(* many of them are behind it as it has made calls, and where it stands in *)
(* front of the next, or within it, is what its automaton knows.           *)

Laid(m) == m \in Seq(Mark) /\ Len(m) \in Nat /\ Layout(content, m)

NextAt(m, k) == IF k < Len(m) THEN m[k + 1].at ELSE Len(content) + 1

\* The calls made are those of the directives behind.
FollowCalls(m) ==
  /\ Len(calls) <= Len(m)
  /\ \A i \in 1..Len(calls) : calls[i] = m[i].call
  /\ \A i \in 0..Len(calls) : Depth(m)[i] >= 0
  /\ IF level = -1 THEN Len(calls) = 0 ELSE level = Depth(m)[Len(calls)]

\* Between the brackets of a name, and what is behind them.
NameStage(c, l, a, b, j) ==
  /\ c.at < l /\ l < a /\ a <= b /\ b <= j /\ j <= c.to
  /\ NameAt(content, c.at + 1, l, a, b, j)
  /\ \/ /\ type \in {"undefdir", "unnoextend"} /\ j = c.to /\ a < b
        /\ Says(c, type, SubSeq(content, a, b - 1), 0, c.to)
     \/ /\ type \in {"defdir", "noextend"}
        /\ \E s \in j + 2..c.to : /\ BlockAt(content, j + 1, s, c.to)
                                  /\ Says(c, type, SubSeq(content, a, b - 1), s, c.to)
  /\ status = 0 => p \in c.at + 1..l /\ start = 0 /\ end = 0
  /\ status = 1 => p \in l + 1..a /\ start = 0 /\ end = 0
  /\ status = 2 => p \in a + 1..b /\ start = a /\ end = 0 /\ a < b
  /\ status = 3 => p \in b + 1..j /\ start = a /\ end = b /\ a < b

\* In front of h the tables' state 1 is the one in a comment.
Ahead(lo, h) == p \in lo..h /\ (status = 1 <=> InComment(content, lo, p))

BlockStage(c, lo, s) ==
  /\ lo < s /\ s <= c.to /\ type \in Blocked
  /\ BlockAt(content, lo, s, c.to) /\ Says(c, type, name, s, c.to)
  /\ status \in {0, 1} => Ahead(lo, s - 1)
  /\ status \in {2, 3} => start = s /\ p \in s..c.to

LineStage(c, lo, h, s, e) ==
  /\ lo <= h /\ type \in {"raw", "make"} /\ name = <<>>
  /\ status \in {0, 1} => Ahead(lo, h)
  /\ \/ /\ LineAt(content, lo, h, s, e) /\ Says(c, type, <<>>, s, e)
        /\ h <= s /\ s <= e /\ e <= Len(content)
        /\ c.to = IF content[e] = "newline" THEN e ELSE e - 1
        /\ status \in {2, 3} => start = s /\ p \in s..e
     \/ /\ h = s - 1 /\ s <= c.to /\ status \in {0, 1}
        /\ BlockAt(content, lo, s, c.to) /\ Says(c, type, <<>>, s, c.to)

Places == 1..Len(content)

InMark(c) ==
  /\ at = c.at
  /\ input = "name" => \E l, a, b, j \in Places : NameStage(c, l, a, b, j)
  /\ input = "block" => \E lo, s \in Places : BlockStage(c, lo, s)
  /\ input = "line" => \E lo, h, s, e \in Places : LineStage(c, lo, h, s, e)
  /\ input \in {"context", "NEWCONTEXT"} => ContextMark(content, c) /\ name = <<>> /\ start = 0
  /\ input = "context" => Ahead(c.at + 1, c.to)
  /\ input = "NEWCONTEXT" => p = c.to + 1

\* Behind the first k directives.
FollowText(m, k) ==
  /\ input \in {"READ", "call"} => /\ p \in To(m, k) + 1..NextAt(m, k)
                                 /\ ~InComment(content, To(m, k) + 1, p)
  /\ input = "COMMENT" => /\ p - 1 \in To(m, k) + 1..NextAt(m, k) - 1
                          /\ content[p - 1] = "comment"
  /\ input = "END" => k = Len(m)
  /\ input = "NAME_CHAR" => k < Len(m) /\ p = m[k + 1].at /\ content[p] \in NameChars
  /\ input = "ENDCONTEXT" => k < Len(m) /\ EndMark(content, m[k + 1]) /\ p = m[k + 1].to + 1
  /\ input \in Handlers \/ (input = "NEWCONTEXT" /\ level # -1) =>
       k < Len(m) /\ InMark(m[k + 1])

Following(m) ==
  /\ ~error
  /\ CASE input \in {"ERROR", "stopped", "abort"} -> ~Nested(m)
       [] input = "done" -> ReadAs(m) /\ Nested(m)
       [] OTHER -> FollowCalls(m) /\ FollowText(m, Len(calls))

FollowInv == ~faulty => \A f \in Written : f.text = content => Following(f.marks)

-----------------------------------------------------------------------------
(* What the layout of a file is made of. *)

LEMMA InCommentGrows ==
  ASSUME NEW t, NEW i \in Int, NEW k \in Int, i <= k
  PROVE  InComment(t, i, k + 1) <=> t[k] # "newline" /\ (InComment(t, i, k) \/ t[k] = "comment")
<1>1. k + 1 - 1 = k /\ k \in i..k
  OBVIOUS
<1>2. ASSUME InComment(t, i, k + 1) PROVE t[k] # "newline" /\ (InComment(t, i, k) \/ t[k] = "comment")
  <2>1. PICK c \in i..k : t[c] = "comment" /\ \A l \in c..k : t[l] # "newline"
    BY <1>1, <1>2 DEF InComment
  <2>2. t[k] # "newline"
    BY <1>1, <2>1
  <2>3. CASE c = k
    BY <2>1, <2>2, <2>3
  <2>4. CASE c # k
    <3>1. c \in i..k - 1 /\ \A l \in c..k - 1 : l \in c..k
      BY <2>4
    <3> QED BY <2>1, <2>2, <3>1 DEF InComment
  <2> QED BY <2>3, <2>4
<1>3. ASSUME t[k] # "newline", InComment(t, i, k) PROVE InComment(t, i, k + 1)
  <2>1. PICK c \in i..k - 1 : t[c] = "comment" /\ \A l \in c..k - 1 : t[l] # "newline"
    BY <1>3 DEF InComment
  <2>2. c \in i..k /\ \A l \in c..k : l \in c..k - 1 \/ l = k
    BY <2>1
  <2>3. \A l \in c..k : t[l] # "newline"
    BY <1>3, <2>1, <2>2
  <2> QED BY <1>1, <2>1, <2>2, <2>3 DEF InComment
<1>4. ASSUME t[k] # "newline", t[k] = "comment" PROVE InComment(t, i, k + 1)
  <2>1. \A l \in k..k : l = k
    OBVIOUS
  <2> QED BY <1>1, <1>4, <2>1 DEF InComment
<1> QED BY <1>2, <1>3, <1>4

LEMMA InCommentEmpty == ASSUME NEW t, NEW i \in Int PROVE ~InComment(t, i, i)
<1>1. i..i - 1 = {}
  OBVIOUS
<1> QED BY <1>1 DEF InComment

\* Where a text is cut changes nothing of what is in front of the cut.
LEMMA Cuts ==
  ASSUME NEW t \in Seq(Symbol), NEW s \in Nat, NEW q \in Nat, NEW e \in Nat,
         1 <= s, s <= q, q <= e, e <= Len(t) + 1,
         NEW u, u = SubSeq(t, s, q - 1), NEW w, w = SubSeq(t, s, e - 1)
  PROVE  /\ u \in Seq(Symbol) /\ Len(u) = q - s /\ w \in Seq(Symbol) /\ Len(w) = e - s
         /\ \A i \in 1..Len(u) : w[i] = u[i]
         /\ q < e => w[q - s + 1] = t[q]
<1>1. s \in 1..Len(t) + 1 /\ q - 1 \in s - 1..Len(t) /\ e - 1 \in s - 1..Len(t)
  OBVIOUS
<1>2. u \in Seq(Symbol) /\ w \in Seq(Symbol)
  BY <1>1, SubSeqProperties
<1>3. Len(u) = q - s /\ Len(w) = e - s
  BY <1>1
<1>4. ASSUME NEW i \in 1..q - s PROVE w[i] = u[i]
  BY <1>1
<1>5. q < e => w[q - s + 1] = t[q]
  BY <1>1
<1> QED BY <1>2, <1>3, <1>4, <1>5

LEMMA EscapesCut ==
  ASSUME NEW u \in Seq(Symbol), NEW w \in Seq(Symbol), Len(u) <= Len(w),
         \A i \in 1..Len(u) : w[i] = u[i]
  PROVE  \A i \in 0..Len(u) + 1 : Escapes(w)[i] = Escapes(u)[i]
<1>1. Len(u) \in Nat /\ Len(w) \in Nat /\ Len(u) <= Len(w)
  OBVIOUS
<1>2. ASSUME NEW i \in 1..Len(u) + 1
      PROVE  i \in 1..Len(w) + 1 /\ EscapeStep(w)[i] = EscapeStep(u)[i]
  <2>1. i \in 1..Len(w) + 1 /\ (i > 1 => i - 1 \in 1..Len(u))
    BY <1>1
  <2>2. i > 1 => w[i - 1] = u[i - 1]
    BY <2>1
  <2> QED BY <2>1, <2>2 DEF EscapeStep
<1>3. PICK f : f = Escapes(w)
  OBVIOUS
<1>4. PICK g : g = Escapes(u)
  OBVIOUS
<1>5. PICK n \in Nat : n = Len(u) + 1
  BY <1>1
<1>51. PICK F : F = EscapeStep(u)
  OBVIOUS
<1>52. PICK z : z = FALSE
  OBVIOUS
<1>6. Along(g, n, z, F)
  BY <1>4, <1>5, <1>51, <1>52, EscapesFacts
<1>7. Along(f, Len(w) + 1, FALSE, EscapeStep(w))
  BY <1>3, EscapesFacts
<1>8. Along(f, n, z, F)
  BY <1>2, <1>5, <1>51, <1>52, <1>7 DEF Along
<1>9. \A i \in 0..n : f[i] = g[i]
  BY <1>6, <1>8, Agrees
<1> QED BY <1>3, <1>4, <1>5, <1>9

LEMMA BracesCut ==
  ASSUME NEW u \in Seq(Symbol), NEW w \in Seq(Symbol), Len(u) <= Len(w),
         \A i \in 1..Len(u) : w[i] = u[i]
  PROVE  \A i \in 0..Len(u) : Braces(w)[i] = Braces(u)[i]
<1>1. Len(u) \in Nat /\ Len(w) \in Nat /\ Len(u) <= Len(w)
  OBVIOUS
<1>2. ASSUME NEW i \in 1..Len(u)
      PROVE  i \in 1..Len(w) /\ BraceStep(w)[i] = BraceStep(u)[i]
  <2>1. i \in 1..Len(w) /\ i \in 0..Len(u) + 1
    BY <1>1
  <2>2. Escapes(w)[i] = Escapes(u)[i] /\ w[i] = u[i]
    BY <2>1, EscapesCut
  <2>3. Adds(w, i) = Adds(u, i)
    BY <2>2 DEF Adds
  <2> QED BY <2>1, <2>3 DEF BraceStep
<1>3. PICK f : f = Braces(w)
  OBVIOUS
<1>4. PICK g : g = Braces(u)
  OBVIOUS
<1>5. PICK n \in Nat : n = Len(u)
  BY <1>1
<1>51. PICK F : F = BraceStep(u)
  OBVIOUS
<1>52. PICK z : z = 0
  OBVIOUS
<1>6. Along(g, n, z, F)
  BY <1>4, <1>5, <1>51, <1>52, BracesFacts
<1>7. Along(f, Len(w), 0, BraceStep(w))
  BY <1>3, BracesFacts
<1>8. Along(f, n, z, F)
  BY <1>2, <1>5, <1>51, <1>52, <1>7 DEF Along
<1>9. \A i \in 0..n : f[i] = g[i]
  BY <1>6, <1>8, Agrees
<1> QED BY <1>3, <1>4, <1>5, <1>9

\* The depth behind a directive is told by the one in front of it.
DepthStep(m) == [i \in 1..Len(m) |-> [x \in Int |-> x + Opens(m[i])]]

LEMMA OpensType == ASSUME NEW c PROVE Opens(c) \in {-1, 0, 1}
<1>1. CASE c.call.what = "context"
  BY <1>1 DEF Opens
<1>2. CASE c.call.what = "end"
  BY <1>2 DEF Opens
<1>3. CASE c.call.what \notin {"context", "end"}
  BY <1>3 DEF Opens
<1> QED BY <1>1, <1>2, <1>3

LEMMA DepthFacts ==
  ASSUME NEW m, Len(m) \in Nat
  PROVE  /\ Depth(m)[0] = 0
         /\ \A i \in 0..Len(m) : Depth(m)[i] \in Int
         /\ \A i \in 1..Len(m) : Depth(m)[i] = Depth(m)[i - 1] + Opens(m[i])
<1> DEFINE Rest(g) == [i \in 0..Len(m) |-> IF i = 0 THEN 0 ELSE g[i - 1] + Opens(m[i])]
           d == CHOOSE g : g = Rest(g)
<1>0. \A i : Opens(m[i]) \in Int
  BY OpensType
<1>1. StepsIn(DepthStep(m), Len(m), Int) /\ 0 \in Int
  BY <1>0 DEF DepthStep, StepsIn
<1>2. PICK g \in [0..Len(m) -> Int] : Along(g, Len(m), 0, DepthStep(m))
  BY <1>1, Unfolds
<1>3. ASSUME NEW i \in 1..Len(m) PROVE g[i] = g[i - 1] + Opens(m[i])
  <2>1. g[i - 1] \in Int
    BY <1>2
  <2> QED BY <1>2, <2>1 DEF DepthStep, Along
<1>4. g = Rest(g)
  <2>1. \A i \in 0..Len(m) : i = 0 \/ (i \in 1..Len(m) /\ i # 0)
    OBVIOUS
  <2>2. \A i \in 0..Len(m) : g[i] = Rest(g)[i]
    BY <1>2, <1>3, <2>1 DEF Along
  <2> QED BY <1>2, <2>2
<1>5. d = Rest(d)
  BY <1>4
<1>6. Depth(m) = d
  BY DEF Depth
<1>7. \A i \in 0..Len(m) : d[i] = IF i = 0 THEN 0 ELSE d[i - 1] + Opens(m[i])
  <2> HIDE DEF d
  <2> QED BY <1>5
<1> HIDE DEF d
<1>8. ASSUME {i \in 0..Len(m) : d[i] \notin Int} # {} PROVE FALSE
  <2> DEFINE T == {i \in 0..Len(m) : d[i] \notin Int}
  <2>1. T \subseteq Nat
    OBVIOUS
  <2>2. PICK n \in T : \A k \in T : n <= k
    <3> HIDE DEF T
    <3> QED BY <1>8, <2>1, Least DEF T
  <2>3. n # 0
    BY <1>7
  <2>4. n - 1 \in 0..Len(m) /\ ~(n <= n - 1)
    BY <2>3
  <2>5. d[n - 1] \in Int
    BY <2>2, <2>4
  <2> QED BY <1>0, <1>7, <2>3, <2>5
<1>9. \A i \in 0..Len(m) : d[i] \in Int
  BY <1>8
<1>10. d[0] = 0 /\ \A i \in 1..Len(m) : i \in 0..Len(m) /\ i # 0
  BY <1>7
<1> QED BY <1>6, <1>7, <1>9, <1>10

-----------------------------------------------------------------------------
(* The marks of a file, one by one. *)

\* A blank and a comment move the reader ahead; in state 1 of a table it is in a comment.
Moves(lo, h) ==
  /\ content[p] \in {"space", "newline", "comment"} \/ InComment(content, lo, p)
  /\ content[p] # "newline" /\ (InComment(content, lo, p) \/ content[p] = "comment") <=>
       InComment(content, lo, p + 1)
  /\ p + 1 \in lo..h

LEMMA GapMoves ==
  ASSUME NEW lo \in Int, NEW h \in Int, p \in lo..h, p # h, Skipped(content, lo, h - 1)
  PROVE  Moves(lo, h)
<1>1. p \in lo..h - 1 /\ p \in Int /\ lo <= p /\ p + 1 \in lo..h
  OBVIOUS
<1> QED BY <1>1, InCommentGrows DEF Skipped, Moves

\* What begins at a character.
LEMMA MarkHead ==
  ASSUME NEW t, NEW c, IsMark(t, c)
  PROVE  /\ c.at \in 1..Len(t) /\ c.to \in c.at..Len(t)
         /\ t[c.at] \in NameChars \cup {"close"}
         /\ t[c.at] = "close" => EndMark(t, c)
         /\ t[c.at] = "context" => ContextMark(t, c)
         /\ t[c.at] \in {"undefdir", "unnoextend"} => UndefMark(t, c)
         /\ t[c.at] \in {"defdir", "noextend"} => DefMark(t, c)
         /\ t[c.at] \in {"raw", "make"} => BlockMark(t, c) \/ LineMark(t, c)
         /\ t[c.at] \in NameChars \ Directive => LineMark(t, c)
<1>1. c.at \in 1..Len(t) /\ c.to \in c.at..Len(t)
  BY DEF IsMark
<1>2. CASE EndMark(t, c)
  BY <1>1, <1>2 DEF EndMark, NameChars, Directive
<1>3. CASE ContextMark(t, c)
  BY <1>1, <1>3 DEF ContextMark, NameChars, Directive
<1>4. CASE UndefMark(t, c)
  <2>1. t[c.at] \in {"undefdir", "unnoextend"}
    BY <1>4 DEF UndefMark
  <2> QED BY <1>1, <1>4, <2>1 DEF NameChars, Directive
<1>5. CASE DefMark(t, c)
  <2>1. t[c.at] \in {"defdir", "noextend"}
    BY <1>5 DEF DefMark
  <2> QED BY <1>1, <1>5, <2>1 DEF NameChars, Directive
<1>6. CASE BlockMark(t, c)
  <2>1. t[c.at] \in {"raw", "make"}
    BY <1>6 DEF BlockMark
  <2> QED BY <1>1, <1>6, <2>1 DEF NameChars, Directive
<1>7. CASE LineMark(t, c)
  <2>1. t[c.at] \in {"raw", "make", "name"}
    BY <1>7 DEF LineMark, NameChars, Directive
  <2> QED BY <1>1, <1>7, <2>1 DEF NameChars, Directive
<1> QED BY <1>2, <1>3, <1>4, <1>5, <1>6, <1>7 DEF IsMark

LEMMA MarkTypes ==
  ASSUME NEW m, Laid(m), NEW i \in 1..Len(m), NEW c, c = m[i]
  PROVE  c.call \in Calling /\ c.at \in Nat /\ c.to \in Nat
<1>1. c \in Mark
  BY DEF Laid
<1> QED BY <1>1 DEF Mark

\* Behind the first k directives there is a gap, and then the next.
LEMMA LaidFacts ==
  ASSUME Types, NEW m, Laid(m), NEW k \in 0..Len(m)
  PROVE  /\ To(m, k) \in 0..Len(content) /\ NextAt(m, k) \in To(m, k) + 1..Len(content) + 1
         /\ Skipped(content, To(m, k) + 1, NextAt(m, k) - 1)
         /\ k < Len(m) => /\ IsMark(content, m[k + 1]) /\ To(m, k + 1) = m[k + 1].to
                          /\ NextAt(m, k) = m[k + 1].at
                          /\ ~InComment(content, To(m, k) + 1, NextAt(m, k))
         /\ k = Len(m) => NextAt(m, k) = Len(content) + 1
<1>1. Len(content) \in Nat /\ Len(m) \in Nat /\ k \in Nat
  BY DEF Types, Laid
<1>2. \A i \in 1..Len(m) : /\ IsMark(content, m[i]) /\ To(m, i - 1) < m[i].at
                           /\ Gap(content, To(m, i - 1) + 1, m[i].at - 1)
  BY DEF Laid, Layout
<1>3. Skipped(content, To(m, Len(m)) + 1, Len(content))
  BY DEF Laid, Layout
<1>4. To(m, k) \in 0..Len(content)
  <2>1. CASE k = 0
    BY <1>1, <2>1 DEF To
  <2>2. CASE k # 0
    <3>1. k \in 1..Len(m)
      BY <1>1, <2>2
    <3>2. m[k].at \in 1..Len(content) /\ m[k].to \in m[k].at..Len(content)
      BY <1>2, <3>1, MarkHead
    <3> QED BY <1>1, <2>2, <3>2 DEF To
  <2> QED BY <2>1, <2>2
<1>5. CASE k = Len(m)
  <2>1. NextAt(m, k) = Len(content) + 1 /\ ~(k < Len(m))
    BY <1>1, <1>5 DEF NextAt
  <2>2. NextAt(m, k) - 1 = Len(content)
    BY <1>1, <2>1
  <2> QED BY <1>1, <1>3, <1>4, <1>5, <2>1, <2>2
<1>6. CASE k # Len(m)
  <2>1. k < Len(m) /\ k + 1 \in 1..Len(m) /\ k + 1 - 1 = k /\ k + 1 # 0
    BY <1>1, <1>6
  <2>2. PICK c : c = m[k + 1]
    OBVIOUS
  <2>3. IsMark(content, c) /\ To(m, k) < c.at /\ Gap(content, To(m, k) + 1, c.at - 1)
    BY <1>2, <2>1, <2>2
  <2>4. c.at \in 1..Len(content) /\ NextAt(m, k) = c.at /\ c.at - 1 + 1 = c.at
    BY <2>1, <2>2, <2>3, MarkHead DEF NextAt
  <2>5. Skipped(content, To(m, k) + 1, c.at - 1) /\ ~InComment(content, To(m, k) + 1, c.at)
    BY <2>3, <2>4 DEF Gap
  <2>6. c.at \in To(m, k) + 1..Len(content) + 1
    BY <1>1, <1>4, <2>3, <2>4
  <2>7. To(m, k + 1) = c.to
    BY <2>1, <2>2 DEF To
  <2> QED BY <1>4, <1>6, <2>1, <2>2, <2>3, <2>4, <2>5, <2>6, <2>7
<1> QED BY <1>5, <1>6

\* The tables, as far as a file of directives takes them.
LEMMA NameRows ==
  ASSUME status \in 0..3, NEW next, next = IF NameColumn = 4 THEN 5 ELSE Look(NameTrans, NameColumn)
  PROVE  /\ Char \in NameChars \cup {"space", "lparen", "rparen"} => NameColumn # 4
         /\ status = 0 /\ Char = "space" => next = 0
         /\ status = 0 /\ Char = "lparen" => next = 1
         /\ status = 1 /\ Char = "space" => next = 1
         /\ status \in {1, 2} /\ Char \in NameChars => next = 2
         /\ status \in {1, 2, 3} /\ Char = "rparen" => next = 4
         /\ status \in {2, 3} /\ Char = "space" => next = 3
<1>1. /\ Char = "lparen" => NameColumn = 0
      /\ Char = "rparen" => NameColumn = 1
      /\ Char = "space" => NameColumn = 2
      /\ Char \in NameChars => NameColumn = 3
  BY DEF NameColumn, NameChars, Directive
<1>2. Char \in NameChars \cup {"space", "lparen", "rparen"} => NameColumn # 4
  BY <1>1
<1>3. status \in {0, 1, 2, 3}
  OBVIOUS
<1>4. NameColumn # 4 => next = NameTrans[status + 1][NameColumn + 1]
  BY DEF Look
<1>5. CASE Char = "lparen"
  BY <1>1, <1>3, <1>4, <1>5 DEF NameTrans, NameChars, Directive
<1>6. CASE Char = "rparen"
  BY <1>1, <1>3, <1>4, <1>6 DEF NameTrans, NameChars, Directive
<1>7. CASE Char = "space"
  BY <1>1, <1>3, <1>4, <1>7 DEF NameTrans, NameChars, Directive
<1>8. CASE Char \in NameChars
  <2>1. Char \notin {"lparen", "rparen", "space"} /\ NameColumn = 3
    BY <1>1, <1>8 DEF NameChars, Directive
  <2> QED BY <1>3, <1>4, <1>8, <2>1 DEF NameTrans
<1> QED BY <1>2, <1>5, <1>6, <1>7, <1>8

\* In front of a brace or a line all three tables are the same.
Skips(next) ==
  /\ status = 0 /\ Char \in {"space", "newline"} => next = 0
  /\ status = 0 /\ Char = "comment" => next = 1
  /\ status = 1 /\ Char = "newline" => next = 0
  /\ status = 1 /\ Char \notin {"newline", "nul"} => next = 1

LEMMA ContextRows ==
  ASSUME status \in {0, 1}, NEW next, next = Look(ContextTrans, ContextColumn)
  PROVE  Skips(next) /\ (status = 0 /\ Char = "open" => next = 2)
<1>1. /\ ContextColumn \in 0..5
      /\ ContextColumn = 0 <=> Char = "newline"
      /\ ContextColumn = 1 <=> Char = "comment"
      /\ ContextColumn = 2 <=> Char = "space"
      /\ ContextColumn = 3 <=> Char = "open"
      /\ ContextColumn = 4 <=> Char = "nul"
  BY DEF ContextColumn
<1>2. PICK c \in 0..5 : c = ContextColumn
  BY <1>1
<1>3. c \in {0, 1, 2, 3, 4, 5} /\ next = ContextTrans[status + 1][c + 1]
  BY <1>2 DEF Look
<1> QED BY <1>1, <1>2, <1>3 DEF ContextTrans, Skips

LEMMA BlockRows ==
  ASSUME status \in 0..3, NEW next, next = Look(BlockTrans, BlockColumn)
  PROVE  /\ Skips(next)
         /\ status = 0 /\ Char = "open" => next = 2
         /\ status \in {2, 3} /\ Char # "nul" => next \in {2, 3}
         /\ status \in {2, 3} /\ Char = "close" => next = 2
<1>1. /\ BlockColumn \in 0..7
      /\ BlockColumn = 0 <=> Char = "space"
      /\ BlockColumn = 1 <=> Char = "newline"
      /\ BlockColumn = 2 <=> Char = "comment"
      /\ BlockColumn = 3 <=> Char = "open"
      /\ BlockColumn = 4 <=> Char = "close"
      /\ BlockColumn = 5 <=> Char = "nul"
  BY DEF BlockColumn
<1>2. PICK c \in 0..7 : c = BlockColumn
  BY <1>1
<1>3. c \in {0, 1, 2, 3, 4, 5, 6, 7} /\ next = BlockTrans[status + 1][c + 1] /\ status \in {0, 1, 2, 3}
  BY <1>2 DEF Look
<1>4. CASE status \in {0, 1}
  BY <1>1, <1>2, <1>3, <1>4 DEF BlockTrans, Skips
<1>5. CASE status \in {2, 3}
  BY <1>1, <1>2, <1>3, <1>5 DEF BlockTrans, Skips
<1> QED BY <1>3, <1>4, <1>5

LEMMA LineRows ==
  ASSUME status \in 0..3, NEW next, next = Look(LineTrans, LineColumn)
  PROVE  /\ Skips(next)
         /\ status = 0 /\ Char = "open" => next = 5
         /\ status = 0 /\ Char \in NameChars \cup {"colon"} => next = 2
         /\ status \in {2, 3} /\ Char # "nul" => next \in {2, 3, 4}
         /\ status = 2 /\ Char \in {"newline", "comment"} => next = 4
         /\ status = 2 /\ Char \notin {"newline", "comment"} => next # 4
<1>1. /\ LineColumn \in 0..8
      /\ LineColumn = 0 <=> Char = "newline"
      /\ LineColumn = 1 <=> Char = "comment"
      /\ LineColumn = 2 <=> Char = "space"
      /\ LineColumn = 3 <=> Char = "open"
      /\ LineColumn = 4 <=> Char = "colon"
      /\ LineColumn = 5 <=> Char = "backslash"
      /\ LineColumn = 6 <=> Char = "nul"
      /\ LineColumn = 7 <=> Char \in NameChars
  BY DEF LineColumn, NameChars, Directive
<1>2. PICK c \in 0..8 : c = LineColumn
  BY <1>1
<1>3. c \in {0, 1, 2, 3, 4, 5, 6, 7, 8} /\ next = LineTrans[status + 1][c + 1] /\ status \in {0, 1, 2, 3}
  BY <1>2 DEF Look
<1>4. CASE status \in {0, 1}
  BY <1>1, <1>2, <1>3, <1>4 DEF LineTrans, Skips
<1>5. CASE status \in {2, 3}
  BY <1>1, <1>2, <1>3, <1>5 DEF LineTrans, Skips
<1> QED BY <1>3, <1>4, <1>5

-----------------------------------------------------------------------------
(* Each step follows the marks. *)

\* While start waits or a handler runs, the calls and the place are those of the marks.
LEMMA FollowsText ==
  ASSUME NEW m, Following(m), input \notin Final \cup {"ERROR"}
  PROVE  ~error /\ FollowCalls(m) /\ FollowText(m, Len(calls))
<1>1. input \notin {"ERROR", "stopped", "abort", "done"}
  BY DEF Final
<1> QED BY <1>1 DEF Following

\* A step without a call stays in front of the same directive.
LEMMA CallsFollow ==
  ASSUME NEW m, FollowCalls(m), calls' = calls, level' = level
  PROVE  FollowCalls(m)' /\ Len(calls)' = Len(calls)
BY DEF FollowCalls

LEMMA StaysFollowing ==
  ASSUME NEW m, FollowCalls(m), calls' = calls, level' = level, ~error',
         input' \notin Final \cup {"ERROR"},
         NEW k, k = Len(calls), FollowText(m, k)'
  PROVE  Following(m)'
<1>1. FollowCalls(m)' /\ Len(calls') = k
  BY CallsFollow
<1>2. input' \notin {"ERROR", "stopped", "abort", "done"}
  BY DEF Final
<1>3. FollowText(m, Len(calls))'
  BY <1>1 DEF FollowText
<1> QED BY <1>1, <1>2, <1>3 DEF Following

\* A step with the call of the next directive is behind it.
LEMMA Passes ==
  ASSUME Types, NEW m, Laid(m), FollowCalls(m), NEW k, k = Len(calls), k < Len(m),
         NEW c, c = m[k + 1], calls' = Append(calls, c.call), c.call \in Calling,
         p' = c.to + 1, content' = content, input' \in {"READ", "call"}, ~error',
         level' = Depth(m)[k + 1], level' >= 0
  PROVE  Following(m)'
<1>1. k \in Nat /\ Len(m) \in Nat /\ k + 1 \in 0..Len(m) /\ k \in 0..Len(m) /\ k + 1 # 0
  BY DEF Types, Laid
<1>2. PICK r \in Calling : r = c.call
  OBVIOUS
<1>3. /\ Len(calls') = k + 1 /\ calls'[k + 1] = r
      /\ \A i \in 1..k : calls'[i] = calls[i]
  BY <1>2, OneCall
<1>4. PICK n : n = k + 1
  OBVIOUS
<1>5. n \in 0..Len(m) /\ n <= Len(m) /\ n \in Nat /\ Len(calls') = n
  BY <1>1, <1>3, <1>4
<1>6. ASSUME NEW i \in 1..n PROVE calls'[i] = m[i].call
  <2>1. i \in 1..k \/ i = k + 1
    BY <1>1, <1>4
  <2> QED BY <1>2, <1>3, <2>1 DEF FollowCalls
<1>7. ASSUME NEW i \in 0..n PROVE Depth(m)[i] >= 0
  <2>1. i \in 0..k \/ i = k + 1
    BY <1>1, <1>4
  <2> QED BY <2>1 DEF FollowCalls
<1>8. level' # -1 /\ level' = Depth(m)[n]
  <2>1. Depth(m)[k + 1] \in Int
    BY <1>1, DepthFacts
  <2> QED BY <1>4, <2>1
<1>9. FollowCalls(m)'
  BY <1>5, <1>6, <1>7, <1>8 DEF FollowCalls
<1>10. To(m, n) = c.to /\ To(m, n) \in Int /\ NextAt(m, n) \in To(m, n) + 1..Len(content) + 1
  BY <1>1, <1>4, <1>5, LaidFacts DEF To
<1>11. NextAt(m, n)' = NextAt(m, n)
  BY DEF NextAt
<1>12. PICK lo \in Int : lo = c.to + 1
  BY <1>10
<1>13. p' \in To(m, n) + 1..NextAt(m, n)' /\ ~InComment(content', To(m, n) + 1, p')
  <2>1. p' = lo /\ To(m, n) + 1 = lo /\ lo \in lo..NextAt(m, n) /\ ~InComment(content', lo, lo)
    BY <1>10, <1>12, InCommentEmpty DEF Types
  <2> QED BY <1>11, <2>1
<1>14. FollowText(m, n)'
  BY <1>13 DEF FollowText, Handlers
<1>15. FollowText(m, Len(calls))'
  BY <1>5, <1>14 DEF FollowText
<1> QED BY <1>9, <1>15 DEF Following

LEMMA NewContextFollows ==
  ASSUME Types, NEW m, Laid(m), Following(m), NewContext
  PROVE  Following(m)'
<1>1. input = "NEWCONTEXT" /\ Signal = "NEWCONTEXT"
  BY SignalFacts DEF NewContext, Signals
<1>2. ~error /\ FollowCalls(m) /\ FollowText(m, Len(calls))
  BY <1>1, FollowsText DEF Final
<1>3. /\ content' = content /\ p' = p /\ error' = error /\ input' = "READ" /\ level' = level + 1
      /\ level \in Int /\ level >= -1
  BY DEF NewContext, Types
<1>4. PICK k : k = Len(calls)
  OBVIOUS
<1>5. CASE level = -1
  <2>1. calls' = calls /\ k = 0 /\ Len(calls') = 0 /\ p = 1 /\ level' = 0
    BY <1>1, <1>2, <1>3, <1>4, <1>5 DEF NewContext, FollowCalls, Types, Final
  <2>2. Len(m) \in Nat /\ Depth(m)[0] = 0 /\ 0 \in 0..Len(m)
    BY DepthFacts DEF Laid
  <2>3. FollowCalls(m)'
    BY <1>2, <2>1, <2>2 DEF FollowCalls
  <2>4. NextAt(m, 0) \in 1..Len(content) + 1 /\ To(m, 0) = 0 /\ NextAt(m, 0)' = NextAt(m, 0)
    BY <1>3, <2>2, LaidFacts DEF To, NextAt
  <2>5. ~InComment(content, 1, 1)
    BY InCommentEmpty
  <2>6. FollowText(m, 0)'
    <3>1. To(m, 0) + 1 = 1 /\ 1 \in 1..NextAt(m, 0)
      BY <2>4 DEF Types
    <3> QED BY <1>3, <2>1, <2>4, <2>5, <3>1 DEF FollowText, Handlers
  <2>7. FollowText(m, Len(calls))'
    BY <2>1, <2>6 DEF FollowText
  <2> QED BY <1>2, <1>3, <2>3, <2>7 DEF Following
<1>6. CASE level # -1
  <2>1. PICK c : c = m[k + 1]
    OBVIOUS
  <2>2. k < Len(m) /\ at = c.at /\ ContextMark(content, c) /\ name = <<>> /\ start = 0 /\ p = c.to + 1
    BY <1>1, <1>2, <1>4, <1>6, <2>1 DEF FollowText, InMark
  <2>3. k \in Nat /\ Len(m) \in Nat /\ k + 1 \in 1..Len(m) /\ k \in 0..Len(m) /\ k + 1 - 1 = k
    BY <1>4, <2>2 DEF Types, Laid
  <2>4. c.call \in Calling /\ c.to \in Nat
    BY <2>1, <2>3, MarkTypes
  <2>5. c.call = [what |-> "context", name |-> <<>>, at |-> c.at, start |-> 0, end |-> c.to]
    BY <2>2 DEF ContextMark, Says
  <2>6. calls' = Append(calls, c.call)
    <3>1. p - 1 = c.to
      BY <2>2, <2>4
    <3> QED BY <1>6, <2>2, <2>5, <3>1 DEF NewContext, Called
  <2>7. level' = Depth(m)[k + 1] /\ level' >= 0
    <3>1. Depth(m)[k + 1] = Depth(m)[k] + Opens(c) /\ Depth(m)[k] \in Int
      BY <2>1, <2>3, DepthFacts
    <3>2. Opens(c) = 1
      BY <2>5 DEF Opens
    <3>3. level = Depth(m)[k]
      BY <1>2, <1>4, <1>6 DEF FollowCalls
    <3> QED BY <1>3, <1>6, <3>1, <3>2, <3>3
  <2> QED BY <1>2, <1>3, <1>4, <2>1, <2>2, <2>4, <2>6, <2>7, Passes
<1> QED BY <1>5, <1>6

LEMMA EndContextFollows ==
  ASSUME Types, NEW m, Laid(m), Following(m), EndContext
  PROVE  Following(m)'
<1>1. input = "ENDCONTEXT"
  BY SignalFacts DEF EndContext, Signals
<1>2. ~error /\ FollowCalls(m) /\ FollowText(m, Len(calls))
  BY <1>1, FollowsText DEF Final
<1>3. /\ content' = content /\ p' = p /\ error' = error /\ level \in Int /\ level >= 0
  BY <1>1 DEF EndContext, Types, Final
<1>4. PICK k : k = Len(calls)
  OBVIOUS
<1>5. PICK c : c = m[k + 1]
  OBVIOUS
<1>6. k < Len(m) /\ EndMark(content, c) /\ p = c.to + 1
  BY <1>1, <1>2, <1>4, <1>5 DEF FollowText
<1>7. k \in Nat /\ Len(m) \in Nat /\ k + 1 \in 1..Len(m) /\ k \in 0..Len(m) /\ k + 1 - 1 = k
  BY <1>4, <1>6 DEF Types, Laid
<1>8. Depth(m)[k + 1] = level - 1
  <2>1. Depth(m)[k + 1] = Depth(m)[k] + Opens(c) /\ Depth(m)[k] \in Int
    BY <1>5, <1>7, DepthFacts
  <2>2. c.call.what = "end"
    BY <1>6 DEF EndMark
  <2>3. Opens(c) = -1
    BY <2>2 DEF Opens
  <2>4. level = Depth(m)[k]
    BY <1>2, <1>3, <1>4 DEF FollowCalls
  <2> QED BY <1>3, <2>1, <2>3, <2>4
<1>9. CASE level = 0
  <2>1. Depth(m)[k + 1] = -1 /\ k + 1 \in 0..Len(m)
    BY <1>7, <1>8, <1>9
  <2>2. ~Nested(m)
    BY <2>1 DEF Nested
  <2> QED BY <1>2, <1>3, <1>9, <2>2 DEF EndContext, Following
<1>10. CASE level # 0
  <2>1. c.call \in Calling /\ c.call = [what |-> "end", at |-> p - 1]
    <3>1. c.call \in Calling /\ c.call = [what |-> "end", at |-> c.at] /\ c.to = c.at /\ c.to \in Nat
      BY <1>5, <1>6, <1>7, MarkTypes DEF EndMark
    <3> QED BY <1>6, <3>1
  <2>2. input' = "READ" /\ level' = level - 1 /\ calls' = Append(calls, c.call) /\ level - 1 >= 0
    BY <1>3, <1>10, <2>1 DEF EndContext
  <2> QED BY <1>2, <1>3, <1>4, <1>5, <1>6, <1>8, <2>1, <2>2, Passes
<1> QED BY <1>9, <1>10

LEMMA FinishFollows ==
  ASSUME Types, NEW m, Laid(m), Following(m), Finish
  PROVE  Following(m)'
<1>0. ~error /\ error' = error /\ content' = content
  BY DEF Finish, Following
<1>1. input \in {"ERROR", "END"} /\ Signal = input
  BY <1>0 DEF Finish, Signal
<1>2. CASE input = "ERROR"
  <2>1. input' = "stopped" /\ ~Nested(m)
    BY <1>1, <1>2 DEF Finish, Following
  <2> QED BY <1>0, <2>1 DEF Following
<1>3. CASE input = "END"
  <2>1. FollowCalls(m) /\ FollowText(m, Len(calls))
    BY <1>3, FollowsText DEF Final
  <2>2. Len(calls) = Len(m) /\ Len(m) \in Nat /\ level \in Int /\ level >= 0
    BY <1>3, <2>1 DEF FollowText, Laid, Types, Final
  <2>3. level = Depth(m)[Len(m)]
    BY <2>1, <2>2 DEF FollowCalls
  <2>4. CASE level > 0
    <3>1. input' = "abort" /\ ~Nested(m)
      BY <1>1, <1>3, <2>2, <2>3, <2>4 DEF Finish, Nested
    <3> QED BY <1>0, <3>1 DEF Following
  <2>5. CASE level = 0
    <3>1. Nested(m)
      BY <2>1, <2>2, <2>3, <2>5 DEF Nested, FollowCalls
    <3>2. input' = "done" /\ calls' = calls \o EndCalls(level + 1)
      BY <1>1, <1>3, <2>5 DEF Finish, EndCalls, EndCall
    <3>3. /\ calls' \in Seq(Calling) /\ Len(calls') = Len(m) + 1
          /\ \A i \in 1..Len(m) : calls'[i] = calls[i]
          /\ calls'[Len(m) + 1] = EndCall(p)
      <4>1. Len(m) + 1 \in Len(calls) + 1..Len(calls')
        BY <2>2, <2>5, <3>2, AllEnd
      <4> QED BY <2>2, <2>5, <3>2, <4>1, AllEnd
    <3>4. PICK r : r = [i \in DOMAIN m |-> m[i].call]
      OBVIOUS
    <3>5. r \in Seq(Calling) /\ Len(r) = Len(m) /\ \A i \in 1..Len(m) : r[i] = m[i].call
      <4>1. \A i \in 1..Len(m) : m[i].call \in Calling
        BY MarkTypes
      <4>2. DOMAIN m = 1..Len(m) /\ Len(m) \in Nat
        BY DEF Laid
      <4> QED BY <3>4, <4>1, <4>2
    <3>6. PICK e \in Calling : e = EndCall(p) /\ e = [what |-> "end", at |-> Len(content) + 1]
      <4>1. p \in Nat /\ p = Len(content) + 1
        BY <1>3 DEF Types
      <4> QED BY <4>1 DEF Calling, EndCall
    <3>7. PICK s : s = Append(r, e)
      OBVIOUS
    <3>8. /\ s \in Seq(Calling) /\ Len(s) = Len(m) + 1 /\ s[Len(m) + 1] = e
          /\ \A i \in 1..Len(m) : s[i] = r[i]
      BY <2>2, <3>5, <3>7
    <3>9. ASSUME NEW i \in 1..Len(m) + 1 PROVE calls'[i] = s[i]
      <4>1. i \in 1..Len(m) \/ i = Len(m) + 1
        BY <2>2
      <4> QED BY <2>1, <2>2, <3>3, <3>5, <3>6, <3>8, <4>1 DEF FollowCalls
    <3>10. calls' = s
      <4>1. PICK d \in Seq(Calling) : d = calls'
        BY <3>3
      <4>2. Len(d) = Len(s) /\ \A i \in 1..Len(d) : d[i] = s[i]
        BY <3>3, <3>8, <3>9, <4>1
      <4> QED BY <3>8, <4>1, <4>2
    <3>11. ReadAs(m)'
      BY <1>0, <3>1, <3>2, <3>4, <3>6, <3>7, <3>10 DEF ReadAs
    <3> QED BY <1>0, <3>1, <3>2, <3>11 DEF Following
  <2> QED BY <2>2, <2>4, <2>5
<1> QED BY <1>1, <1>2, <1>3

LEMMA StaysInMark ==
  ASSUME Types, NEW m, FollowCalls(m), calls' = calls, level' = level, ~error', level # -1,
         input' \in Handlers \cup {"NEWCONTEXT"},
         NEW k, k = Len(calls), k < Len(m), NEW c, c = m[k + 1], InMark(c)'
  PROVE  Following(m)'
<1>1. input' \notin Final \cup {"ERROR"} /\ input' \notin {"READ", "call", "COMMENT", "END", "NAME_CHAR", "ENDCONTEXT"}
  BY DEF Final, Handlers
<1>2. FollowText(m, k)'
  BY <1>1 DEF FollowText
<1> QED BY <1>1, <1>2, StaysFollowing

LEMMA ReadFollows ==
  ASSUME Types, NEW m, Laid(m), Following(m), Read
  PROVE  Following(m)'
<1>1. input = "READ"
  BY SignalFacts DEF Read, Signals
<1>2. ~error /\ FollowCalls(m) /\ FollowText(m, Len(calls))
  BY <1>1, FollowsText DEF Final
<1>3. /\ content' = content /\ error' = error /\ level' = level /\ calls' = calls
      /\ input' = SignalOf(Char) /\ level # -1
      /\ p' = IF Char = "nul" \/ input' \in {"NAME_CHAR", "ERROR"} THEN p ELSE p + 1
  BY <1>1 DEF Read, Types, Final
<1>4. PICK k : k = Len(calls)
  OBVIOUS
<1>5. PICK lo : lo = To(m, k) + 1
  OBVIOUS
<1>6. PICK h : h = NextAt(m, k)
  OBVIOUS
<1>7. p \in lo..h /\ ~InComment(content, lo, p)
  BY <1>1, <1>2, <1>4, <1>5, <1>6 DEF FollowText
<1>8. k \in 0..Len(m) /\ k \in Nat /\ Len(m) \in Nat
  BY <1>2, <1>4 DEF FollowCalls, Types, Laid
<1>9. lo \in Int /\ h \in Int /\ lo >= 1 /\ h <= Len(content) + 1 /\ Skipped(content, lo, h - 1)
  BY <1>5, <1>6, <1>8, LaidFacts DEF Types
<1>10. NextAt(m, k)' = h
  BY <1>3, <1>6 DEF NextAt
<1>11. CASE p # h
  <2>1. Moves(lo, h)
    BY <1>7, <1>9, <1>11, GapMoves
  <2>2. Char = content[p] /\ Char \in {"space", "newline", "comment"}
    <3>1. p <= Len(content)
      BY <1>7, <1>9, <1>11 DEF Types
    <3> QED BY <1>7, <2>1, <3>1 DEF Moves, Char
  <2>3. CASE Char = "comment"
    <3>1. input' = "COMMENT" /\ p' = p + 1
      BY <1>3, <2>3 DEF SignalOf, NameChars, Directive
    <3>2. p' - 1 = p /\ p \in lo..h - 1 /\ content[p] = "comment"
      BY <1>7, <1>9, <1>11, <2>2, <2>3, <3>1
    <3>3. FollowText(m, k)'
      BY <1>3, <1>5, <1>10, <3>1, <3>2 DEF FollowText, Handlers
    <3> QED BY <1>2, <1>3, <1>4, <3>1, <3>3, StaysFollowing DEF Final
  <2>4. CASE Char # "comment"
    <3>1. input' = "READ" /\ p' = p + 1
      BY <1>3, <2>2, <2>4 DEF SignalOf, NameChars, Directive
    <3>2. p' \in lo..h /\ ~InComment(content, lo, p')
      BY <1>7, <2>1, <2>2, <2>4, <3>1 DEF Moves
    <3>3. FollowText(m, k)'
      BY <1>3, <1>5, <1>10, <3>1, <3>2 DEF FollowText, Handlers
    <3> QED BY <1>2, <1>3, <1>4, <3>1, <3>3, StaysFollowing DEF Final
  <2> QED BY <2>3, <2>4
<1>12. CASE p = h /\ k = Len(m)
  <2>1. Char = "nul"
    BY <1>6, <1>8, <1>12, LaidFacts, CharFacts
  <2>2. input' = "END"
    BY <1>3, <2>1 DEF SignalOf, NameChars, Directive
  <2>3. FollowText(m, k)'
    BY <1>12, <2>2 DEF FollowText, Handlers
  <2> QED BY <1>2, <1>3, <1>4, <2>2, <2>3, StaysFollowing DEF Final
<1>13. CASE p = h /\ k # Len(m)
  <2>1. k < Len(m)
    BY <1>8, <1>13
  <2>2. PICK c : c = m[k + 1]
    OBVIOUS
  <2>3. IsMark(content, c) /\ p = c.at
    BY <1>6, <1>8, <1>13, <2>1, <2>2, LaidFacts
  <2>4. p \in 1..Len(content) /\ content[p] \in NameChars \cup {"close"} /\ c.to \in p..Len(content)
        /\ (content[p] = "close" => EndMark(content, c))
    BY <2>3, MarkHead
  <2>5. Char = content[p]
    BY <2>4 DEF Char
  <2>6. CASE Char = "close"
    <3>1. input' = "ENDCONTEXT" /\ p' = p + 1
      BY <1>3, <2>6 DEF SignalOf, NameChars, Directive
    <3>2. EndMark(content, c) /\ p' = c.to + 1
      BY <2>3, <2>4, <2>5, <2>6, <3>1 DEF EndMark
    <3>3. FollowText(m, k)'
      BY <1>3, <2>1, <2>2, <3>1, <3>2 DEF FollowText, Handlers
    <3> QED BY <1>2, <1>3, <1>4, <3>1, <3>3, StaysFollowing DEF Final
  <2>7. CASE Char # "close"
    <3>1. input' = "NAME_CHAR" /\ p' = p
      BY <1>3, <2>4, <2>5, <2>7 DEF SignalOf, NameChars, Directive
    <3>2. FollowText(m, k)'
      BY <1>3, <2>1, <2>2, <2>3, <2>4, <2>5, <2>7, <3>1 DEF FollowText, Handlers
    <3> QED BY <1>2, <1>3, <1>4, <3>1, <3>2, StaysFollowing DEF Final
  <2> QED BY <2>6, <2>7
<1> QED BY <1>11, <1>12, <1>13

LEMMA CommentFollows ==
  ASSUME Types, NEW m, Laid(m), Following(m), Comment
  PROVE  Following(m)'
<1>1. input = "COMMENT"
  BY SignalFacts DEF Comment, Signals
<1>2. ~error /\ FollowCalls(m) /\ FollowText(m, Len(calls))
  BY <1>1, FollowsText DEF Final
<1>3. /\ content' = content /\ error' = error /\ level' = level /\ calls' = calls
      /\ IF LineEnd = Len(content) + 1 THEN p' = LineEnd /\ input' = "END"
                                       ELSE p' = LineEnd + 1 /\ input' = "READ"
  BY DEF Comment, LineEnd
<1>4. PICK k : k = Len(calls)
  OBVIOUS
<1>5. PICK lo : lo = To(m, k) + 1
  OBVIOUS
<1>6. PICK h : h = NextAt(m, k)
  OBVIOUS
<1>7. p - 1 \in lo..h - 1 /\ content[p - 1] = "comment"
  BY <1>1, <1>2, <1>4, <1>5, <1>6 DEF FollowText
<1>8. k \in 0..Len(m) /\ k \in Nat /\ Len(m) \in Nat
  BY <1>2, <1>4 DEF FollowCalls, Types, Laid
<1>9. /\ lo \in Int /\ h \in Int /\ lo >= 1 /\ h <= Len(content) + 1 /\ p \in Int
      /\ k < Len(m) => ~InComment(content, lo, h)
      /\ k = Len(m) => h = Len(content) + 1
  BY <1>5, <1>6, <1>8, LaidFacts DEF Types
<1>10. NextAt(m, k)' = h
  BY <1>3, <1>6 DEF NextAt
<1>11. PICK q : q = LineEnd
  OBVIOUS
<1>12. /\ q \in p..Len(content) + 1
       /\ q # Len(content) + 1 => content[q] = "newline"
       /\ \A i \in p..q - 1 : content[i] # "newline"
  BY <1>11, LineEndFacts
\* The comment does not reach the next directive.
<1>13. k < Len(m) => q < h
  <2>1. SUFFICES ASSUME k < Len(m), ~(q < h) PROVE FALSE
    OBVIOUS
  <2>2. p - 1 \in lo..h - 1 /\ \A i \in p - 1..h - 1 : i = p - 1 \/ i \in p..q - 1
    BY <1>7, <1>9, <1>12, <2>1 DEF Types
  <2>3. \A i \in p - 1..h - 1 : content[i] # "newline"
    BY <1>7, <1>12, <2>2
  <2> QED BY <1>7, <1>9, <2>1, <2>2, <2>3 DEF InComment
<1>14. CASE q = Len(content) + 1
  <2>1. input' = "END" /\ k = Len(m)
    BY <1>3, <1>8, <1>9, <1>11, <1>13, <1>14 DEF Types
  <2>2. FollowText(m, k)'
    BY <2>1 DEF FollowText, Handlers
  <2> QED BY <1>2, <1>3, <1>4, <2>1, <2>2, StaysFollowing DEF Final
<1>15. CASE q # Len(content) + 1
  <2>1. input' = "READ" /\ p' = q + 1 /\ content[q] = "newline"
    BY <1>3, <1>11, <1>12, <1>15
  <2>2. q < h /\ lo <= q /\ q \in Int
    BY <1>7, <1>8, <1>9, <1>12, <1>13, <1>15 DEF Types
  <2>3. q + 1 \in lo..h /\ ~InComment(content, lo, q + 1)
    <3>1. q + 1 \in lo..h
      BY <1>9, <2>2
    <3>2. InComment(content, lo, q + 1) => content[q] # "newline"
      BY <1>9, <2>2, InCommentGrows
    <3> QED BY <2>1, <3>1, <3>2
  <2>4. FollowText(m, k)'
    BY <1>3, <1>5, <1>10, <2>1, <2>3 DEF FollowText, Handlers
  <2> QED BY <1>2, <1>3, <1>4, <2>1, <2>4, StaysFollowing DEF Final
<1> QED BY <1>14, <1>15

LEMMA ContextFollows ==
  ASSUME Types, NEW m, Laid(m), Following(m), Context
  PROVE  Following(m)'
<1>1. input = "context"
  BY DEF Context
<1>2. ~error /\ FollowCalls(m) /\ FollowText(m, Len(calls))
  BY <1>1, FollowsText DEF Final
<1>3. PICK next : next = Look(ContextTrans, ContextColumn)
  OBVIOUS
<1>4. /\ content' = content /\ level' = level /\ calls' = calls /\ at' = at /\ name' = name
      /\ start' = start /\ status' = next /\ p' = (IF next = 3 THEN p ELSE p + 1)
      /\ level # -1 /\ status \in {0, 1} /\ content \in Seq(Symbol)
      /\ next = 2 => input' = "NEWCONTEXT" /\ error' = error
      /\ next \notin {2, 3} => input' = input /\ error' = error
  BY <1>1, <1>2, <1>3 DEF Context, Types, Final, Returns
<1>5. PICK k : k = Len(calls)
  OBVIOUS
<1>6. PICK c : c = m[k + 1]
  OBVIOUS
<1>7. k < Len(m) /\ InMark(c)
  BY <1>1, <1>2, <1>5, <1>6 DEF FollowText, Handlers
<1>8. at = c.at /\ ContextMark(content, c) /\ name = <<>> /\ start = 0 /\ Ahead(c.at + 1, c.to)
  BY <1>1, <1>7 DEF InMark
<1>9. k + 1 \in 1..Len(m)
  BY <1>5, <1>7 DEF Types, Laid
<1>10. IsMark(content, c)
  BY <1>6, <1>9 DEF Laid, Layout
<1>11. PICK lo : lo = c.at + 1
  OBVIOUS
<1>12. PICK h : h = c.to
  OBVIOUS
<1>13. /\ lo \in Int /\ h \in Int /\ lo >= 1 /\ h <= Len(content) /\ h - 1 + 1 = h /\ lo <= h
       /\ Skipped(content, lo, h - 1) /\ ~InComment(content, lo, h) /\ content[h] = "open"
  BY <1>8, <1>10, <1>11, <1>12, MarkHead DEF ContextMark, Gap
<1>14. p \in lo..h /\ (status = 1 <=> InComment(content, lo, p)) /\ p \in Int
  BY <1>8, <1>11, <1>12 DEF Ahead, Types
<1>15. Char = content[p] /\ Char # "nul"
  <2>1. p <= Len(content)
    BY <1>13, <1>14
  <2> QED BY <2>1, CharFacts DEF Char, Types
<1>16. CASE p # h
  <2>1. Moves(lo, h)
    BY <1>13, <1>14, <1>16, GapMoves
  <2>2. next \in {0, 1} /\ (next = 1 <=> InComment(content, lo, p + 1))
    BY <1>3, <1>4, <1>14, <1>15, <2>1, ContextRows DEF Moves, Skips
  <2>3. p' = p + 1 /\ p + 1 \in lo..h /\ input' = "context" /\ ~error'
    BY <1>1, <1>2, <1>4, <2>1, <2>2 DEF Moves
  <2>4. Ahead(lo, h)'
    BY <1>4, <2>2, <2>3 DEF Ahead
  <2>5. ContextMark(content, c)'
    BY <1>4, <1>8 DEF ContextMark
  <2>6. InMark(c)'
    BY <1>4, <1>8, <1>11, <1>12, <2>3, <2>4, <2>5 DEF InMark
  <2> QED BY <1>2, <1>4, <1>5, <1>6, <1>7, <2>3, <2>6, StaysInMark DEF Handlers
<1>17. CASE p = h
  <2>1. next = 2
    BY <1>3, <1>4, <1>13, <1>14, <1>15, <1>17, ContextRows
  <2>2. p' = c.to + 1 /\ input' = "NEWCONTEXT" /\ ~error'
    BY <1>2, <1>4, <1>12, <1>17, <2>1
  <2>3. ContextMark(content, c)'
    BY <1>4, <1>8 DEF ContextMark
  <2>4. InMark(c)'
    BY <1>4, <1>8, <2>2, <2>3 DEF InMark
  <2> QED BY <1>2, <1>4, <1>5, <1>6, <1>7, <2>2, <2>4, StaysInMark DEF Handlers
<1> QED BY <1>16, <1>17

\* The directive that is next, and its head.
LEMMA NextMark ==
  ASSUME Types, NEW m, Laid(m), FollowText(m, Len(calls)), NEW k, k = Len(calls), k < Len(m),
         NEW c, c = m[k + 1]
  PROVE  /\ k \in 0..Len(m) /\ k + 1 \in 1..Len(m) /\ k + 1 - 1 = k
         /\ IsMark(content, c) /\ c.at \in 1..Len(content) /\ c.to \in c.at..Len(content)
         /\ c.at \in Nat /\ c.to \in Nat /\ c.call \in Calling /\ Len(content) \in Nat
<1>1. k \in 0..Len(m) /\ k + 1 \in 1..Len(m) /\ k + 1 - 1 = k
  BY DEF Types, Laid
<1>2. IsMark(content, c)
  BY <1>1 DEF Laid, Layout
<1>3. c.at \in 1..Len(content) /\ c.to \in c.at..Len(content)
  BY <1>2, MarkHead
<1> QED BY <1>1, <1>2, <1>3, MarkTypes DEF Types

LEMMA ReadOrderFollows ==
  ASSUME Types, NEW m, Laid(m), Following(m), ReadOrder
  PROVE  Following(m)'
<1>1. input = "NAME_CHAR"
  BY SignalFacts DEF ReadOrder, Signals
<1>2. ~error /\ FollowCalls(m) /\ FollowText(m, Len(calls))
  BY <1>1, FollowsText DEF Final
<1>3. /\ content' = content /\ error' = error /\ level' = level /\ calls' = calls /\ level # -1
      /\ type' = (IF Char \in Directive THEN Char ELSE "raw")
      /\ p' = (IF Char \in Directive THEN p + 1 ELSE p)
      /\ at' = p /\ name' = <<>> /\ start' = 0 /\ end' = 0 /\ status' = 0
  BY <1>1 DEF ReadOrder, Types, Final
<1>4. /\ type' \in {"raw", "make"} => input' = "line"
      /\ type' = "context" => input' = "context"
      /\ type' \in {"defdir", "noextend", "undefdir", "unnoextend"} => input' = "name"
  BY DEF ReadOrder
<1>5. PICK k : k = Len(calls)
  OBVIOUS
<1>6. PICK c : c = m[k + 1]
  OBVIOUS
<1>7. k < Len(m) /\ p = c.at /\ content[p] \in NameChars
  BY <1>1, <1>2, <1>5, <1>6 DEF FollowText
<1>8. /\ IsMark(content, c) /\ c.at \in 1..Len(content) /\ c.to \in c.at..Len(content)
      /\ c.at \in Nat /\ c.to \in Nat /\ Len(content) \in Nat
  BY <1>2, <1>5, <1>6, <1>7, NextMark
<1>9. Char = content[c.at] /\ Char \in NameChars
  BY <1>7, <1>8 DEF Char
<1>10. at' = c.at
  BY <1>3, <1>7
<1>11. SUFFICES input' \in Handlers /\ InMark(c)'
  BY <1>2, <1>3, <1>5, <1>6, <1>7, StaysInMark
<1>12. CASE Char \in {"undefdir", "unnoextend"}
  <2>1. type' = Char /\ p' = c.at + 1 /\ input' = "name"
    BY <1>3, <1>4, <1>7, <1>12 DEF Directive
  <2>2. UndefMark(content, c)
    BY <1>8, <1>9, <1>12, MarkHead
  <2>3. PICK l \in c.at + 1..c.to : \E a \in l + 1..c.to : \E b \in a..c.to :
          /\ NameAt(content, c.at + 1, l, a, b, c.to) /\ a < b
          /\ Says(c, content[c.at], SubSeq(content, a, b - 1), 0, c.to)
    BY <2>2 DEF UndefMark
  <2>4. PICK a \in l + 1..c.to : \E b \in a..c.to :
          /\ NameAt(content, c.at + 1, l, a, b, c.to) /\ a < b
          /\ Says(c, content[c.at], SubSeq(content, a, b - 1), 0, c.to)
    BY <2>3
  <2>5. PICK b \in a..c.to :
          /\ NameAt(content, c.at + 1, l, a, b, c.to) /\ a < b
          /\ Says(c, content[c.at], SubSeq(content, a, b - 1), 0, c.to)
    BY <2>4
  <2>6. PICK j : j = c.to
    OBVIOUS
  <2>7. /\ l \in Places /\ a \in Places /\ b \in Places /\ j \in Places
        /\ c.at < l /\ l < a /\ a <= b /\ b <= j /\ j <= c.to /\ c.at + 1 \in c.at + 1..l
    BY <1>8, <2>5, <2>6 DEF Places
  <2>8. NameStage(c, l, a, b, j)'
    BY <1>3, <1>9, <1>12, <2>1, <2>5, <2>6, <2>7 DEF NameStage
  <2> QED BY <1>3, <1>10, <2>1, <2>7, <2>8 DEF InMark, Handlers, Places
<1>13. CASE Char \in {"defdir", "noextend"}
  <2>1. type' = Char /\ p' = c.at + 1 /\ input' = "name"
    BY <1>3, <1>4, <1>7, <1>13 DEF Directive
  <2>2. DefMark(content, c)
    BY <1>8, <1>9, <1>13, MarkHead
  <2> DEFINE Rest(l, a, b, j) ==
        /\ NameAt(content, c.at + 1, l, a, b, j)
        /\ \E s \in j + 2..c.to :
             BlockAt(content, j + 1, s, c.to) /\ Says(c, content[c.at], SubSeq(content, a, b - 1), s, c.to)
  <2>3. \E l \in c.at + 1..c.to : \E a \in l + 1..c.to : \E b \in a..c.to : \E j \in b..c.to : Rest(l, a, b, j)
    BY <2>2 DEF DefMark
  <2> HIDE DEF Rest
  <2>31. PICK l \in c.at + 1..c.to : \E a \in l + 1..c.to : \E b \in a..c.to : \E j \in b..c.to : Rest(l, a, b, j)
    BY <2>3
  <2>32. PICK a \in l + 1..c.to : \E b \in a..c.to : \E j \in b..c.to : Rest(l, a, b, j)
    BY <2>31
  <2>33. PICK b \in a..c.to : \E j \in b..c.to : Rest(l, a, b, j)
    BY <2>32
  <2>4. PICK j \in b..c.to : Rest(l, a, b, j)
    BY <2>33
  <2>5. /\ l \in Places /\ a \in Places /\ b \in Places /\ j \in Places
        /\ c.at < l /\ l < a /\ a <= b /\ b <= j /\ j <= c.to /\ c.at + 1 \in c.at + 1..l
    BY <1>8 DEF Places
  <2>6. NameStage(c, l, a, b, j)'
    BY <1>3, <1>9, <1>13, <2>1, <2>4, <2>5 DEF NameStage, Rest
  <2> QED BY <1>3, <1>10, <2>1, <2>5, <2>6 DEF InMark, Handlers, Places
<1>14. CASE Char = "context"
  <2>1. p' = c.at + 1 /\ input' = "context"
    BY <1>3, <1>4, <1>7, <1>14 DEF Directive
  <2>2. ContextMark(content, c) /\ c.at < c.to
    BY <1>8, <1>9, <1>14, MarkHead DEF ContextMark
  <2>3. ~InComment(content, c.at + 1, c.at + 1) /\ c.at + 1 \in c.at + 1..c.to
    BY <1>8, <2>2, InCommentEmpty
  <2>4. Ahead(c.at + 1, c.to)'
    BY <1>3, <2>1, <2>3 DEF Ahead
  <2>5. ContextMark(content, c)'
    BY <1>3, <2>2 DEF ContextMark
  <2> QED BY <1>3, <1>10, <2>1, <2>4, <2>5 DEF InMark, Handlers
<1>15. CASE Char \in {"raw", "make", "name"}
  <2>1. PICK lo \in Nat : lo = IF Char \in Directive THEN c.at + 1 ELSE c.at
    BY <1>8
  <2>2. type' \in {"raw", "make"} /\ p' = lo /\ input' = "line" /\ lo \in 1..Len(content) + 1
    BY <1>3, <1>4, <1>7, <1>8, <1>15, <2>1 DEF Directive
  <2>3. ~InComment(content, lo, lo)
    BY <2>1, InCommentEmpty
  <2>4. CASE LineMark(content, c)
    <3> DEFINE Rest(h, s, e) ==
          /\ LineAt(content, lo, h, s, e) /\ Says(c, type', <<>>, s, e)
          /\ c.to = IF content[e] = "newline" THEN e ELSE e - 1
    <3>1. \E h \in lo..Len(content) : \E s \in h..h + 1 : \E e \in s..Len(content) : Rest(h, s, e)
      <4>1. type' = IF content[c.at] = "make" THEN "make" ELSE "raw"
        BY <1>3, <1>9, <1>15 DEF Directive
      <4> QED BY <1>9, <2>1, <2>4, <4>1 DEF LineMark
    <3> HIDE DEF Rest
    <3>21. PICK h \in lo..Len(content) : \E s \in h..h + 1 : \E e \in s..Len(content) : Rest(h, s, e)
      BY <3>1
    <3>22. PICK s \in h..h + 1 : \E e \in s..Len(content) : Rest(h, s, e)
      BY <3>21
    <3>2. PICK e \in s..Len(content) : Rest(h, s, e)
      BY <3>22
    <3>3. /\ lo \in Places /\ h \in Places /\ s \in Places /\ e \in Places
          /\ lo <= h /\ h <= s /\ s <= e /\ e <= Len(content) /\ lo \in lo..h
      BY <1>8, <2>1, <2>2 DEF Places
    <3>4. Ahead(lo, h)'
      BY <1>3, <2>2, <2>3, <3>3 DEF Ahead
    <3>5. LineStage(c, lo, h, s, e)'
      BY <1>3, <2>2, <3>2, <3>3, <3>4 DEF LineStage, Rest
    <3> QED BY <1>3, <1>10, <2>2, <3>3, <3>5 DEF InMark, Handlers, Places
  <2>5. CASE BlockMark(content, c)
    <3>1. content[c.at] \in {"raw", "make"}
      BY <2>5 DEF BlockMark
    <3>2. lo = c.at + 1 /\ type' = content[c.at]
      BY <1>3, <1>9, <2>1, <3>1 DEF Directive
    <3>3. PICK s \in lo + 1..c.to : BlockAt(content, lo, s, c.to) /\ Says(c, type', <<>>, s, c.to)
      BY <1>8, <2>5, <3>2 DEF BlockMark
    <3>4. PICK h : h = s - 1
      OBVIOUS
    <3>5. /\ lo \in Places /\ h \in Places /\ s \in Places
          /\ lo <= h /\ s <= c.to /\ lo \in lo..h
      BY <1>8, <2>2, <3>2, <3>4 DEF Places
    <3>6. Ahead(lo, h)'
      BY <1>3, <2>2, <2>3, <3>5 DEF Ahead
    <3>7. LineStage(c, lo, h, s, s)'
      BY <1>3, <2>2, <3>3, <3>4, <3>5, <3>6 DEF LineStage
    <3> QED BY <1>3, <1>10, <2>2, <3>5, <3>7 DEF InMark, Handlers, Places
  <2>6. LineMark(content, c) \/ BlockMark(content, c)
    BY <1>8, <1>9, <1>15, MarkHead DEF NameChars, Directive
  <2> QED BY <2>4, <2>5, <2>6
<1>16. Char \in {"undefdir", "unnoextend", "defdir", "noextend", "context", "raw", "make", "name"}
  BY <1>9 DEF NameChars, Directive
<1> QED BY <1>12, <1>13, <1>14, <1>15, <1>16

\* A call of block_handler for the directive that is next.
LEMMA CallFollows ==
  ASSUME Types, NEW m, Laid(m), FollowCalls(m), FollowText(m, Len(calls)),
         NEW k, k = Len(calls), k < Len(m), NEW c, c = m[k + 1],
         level # -1, level' = level, content' = content, ~error, NEW last, Decides(last),
         p' = c.to + 1, c.call = Made(last), type \in Directive \ {"context"}
  PROVE  Following(m)'
<1>1. k + 1 \in 1..Len(m) /\ k \in 0..Len(m) /\ k + 1 - 1 = k /\ c.call \in Calling
  BY NextMark
<1>2. calls' = Append(calls, c.call) /\ input' = "call" /\ ~error'
  BY DEF Decides, Returns, Made
<1>3. Opens(c) = 0
  BY DEF Opens, Made, Directive
<1>4. Depth(m)[k + 1] = Depth(m)[k] + Opens(c) /\ Depth(m)[k] \in Int /\ Depth(m)[k] >= 0
      /\ level = Depth(m)[k]
  <2>1. Len(m) \in Nat
    BY DEF Laid
  <2> QED BY <1>1, <2>1, DepthFacts DEF FollowCalls
<1> QED BY <1>1, <1>2, <1>3, <1>4, Passes

LEMMA ReadNameFollows ==
  ASSUME Types, NEW m, Laid(m), Following(m), ReadName
  PROVE  Following(m)'
<1>1. input = "name"
  BY DEF ReadName
<1>2. ~error /\ FollowCalls(m) /\ FollowText(m, Len(calls))
  BY <1>1, FollowsText DEF Final
<1>3. PICK k : k = Len(calls)
  OBVIOUS
<1>4. PICK c : c = m[k + 1]
  OBVIOUS
<1>5. k < Len(m) /\ at = c.at /\ InMark(c)
  BY <1>1, <1>2, <1>3, <1>4 DEF FollowText, Handlers, InMark
<1>6. /\ c.at \in 1..Len(content) /\ c.to \in c.at..Len(content) /\ c.at \in Nat /\ c.to \in Nat
      /\ Len(content) \in Nat
  BY <1>2, <1>3, <1>4, <1>5, NextMark
<1>7. PICK l \in Places, a \in Places, b \in Places, j \in Places : NameStage(c, l, a, b, j)
  BY <1>1, <1>5 DEF InMark
<1>8. /\ c.at < l /\ l < a /\ a <= b /\ b <= j /\ j <= c.to
      /\ l \in Nat /\ a \in Nat /\ b \in Nat /\ j \in Nat
      /\ NameAt(content, c.at + 1, l, a, b, j)
  BY <1>6, <1>7 DEF NameStage, Places
<1>9. /\ status = 0 => p \in c.at + 1..l /\ start = 0 /\ end = 0
      /\ status = 1 => p \in l + 1..a /\ start = 0 /\ end = 0
      /\ status = 2 => p \in a + 1..b /\ start = a /\ end = 0 /\ a < b
      /\ status = 3 => p \in b + 1..j /\ start = a /\ end = b /\ a < b
  BY <1>7 DEF NameStage
<1>10. status \in 0..3 /\ level # -1 /\ type \in Directive \ {"context"} /\ p \in Nat /\ content \in Seq(Symbol)
  BY <1>1 DEF Types, Final, Directive
<1>11. PICK next : next = IF NameColumn = 4 THEN 5 ELSE Look(NameTrans, NameColumn)
  OBVIOUS
<1>12. PICK from : from = IF status = 1 /\ next = 2 THEN p ELSE start
  OBVIOUS
<1>13. PICK to : to = IF status = 2 /\ next \in {3, 4} THEN p ELSE end
  OBVIOUS
<1>14. PICK named \in BOOLEAN : named <=> (next = 4 /\ from # 0 /\ to # 0)
  OBVIOUS
<1>15. /\ p' = IF NameColumn = 4 THEN p ELSE p + 1
       /\ name' = IF named THEN SubSeq(content, from, to - 1) ELSE <<>>
       /\ start' = IF next \in {4, 5} THEN 0 ELSE from
       /\ end' = IF next \in {4, 5} THEN 0 ELSE to
       /\ status' = IF next \in {4, 5} THEN 0 ELSE next
       /\ content' = content /\ type' = type /\ level' = level /\ at' = at
  BY <1>11, <1>12, <1>13, <1>14 DEF ReadName
<1>16. /\ next \notin {4, 5} => input' = input /\ error' = error /\ calls' = calls
       /\ next = 4 /\ type \in {"undefdir", "unnoextend"} /\ named => Decides(p' - 1)
       /\ next = 4 /\ type \in {"defdir", "noextend"} => input' = "block" /\ error' = error /\ calls' = calls
  <2>1. /\ CASE next \notin {4, 5} -> UNCHANGED <<input, error, calls>>
             [] next = 5 \/ (next = 4 /\ type \in {"undefdir", "unnoextend"} /\ ~named) ->
                  Returns("ERROR") /\ UNCHANGED calls
             [] next = 4 /\ type \in {"defdir", "noextend"} ->
                  input' = "block" /\ UNCHANGED <<error, calls>>
             [] OTHER -> Decides(p' - 1)
    BY <1>11, <1>12, <1>13, <1>14 DEF ReadName
  <2>2. CASE next \notin {4, 5}
    BY <2>1, <2>2
  <2>3. CASE next = 4 /\ type \in {"undefdir", "unnoextend"} /\ named
    BY <2>1, <2>3
  <2>4. CASE next = 4 /\ type \in {"defdir", "noextend"}
    BY <2>1, <2>4
  <2> QED BY <2>2, <2>3, <2>4
\* The characters up to the closing bracket.
<1>17. /\ p \in c.at + 1..j /\ Char = content[p]
       /\ status = 0 /\ p # l => Char = "space"
       /\ status = 0 /\ p = l => Char = "lparen"
       /\ status = 1 /\ p # a => Char = "space"
       /\ status = 1 /\ p = a /\ a < b => Char \in NameChars
       /\ status = 2 /\ p # b => Char \in NameChars
       /\ status \in {2, 3} /\ p \in b..j - 1 => Char = "space"
       /\ p = j => Char = "rparen"
  <2>1. p \in c.at + 1..j
    BY <1>6, <1>8, <1>9, <1>10
  <2>2. p <= Len(content)
    BY <1>6, <1>8, <2>1
  <2>3. Char = content[p]
    BY <2>2 DEF Char
  <2>4. /\ content[l] = "lparen" /\ content[j] = "rparen"
        /\ \A i \in c.at + 1..l - 1 : content[i] = "space"
        /\ \A i \in l + 1..a - 1 : content[i] = "space"
        /\ \A i \in b..j - 1 : content[i] = "space"
        /\ \A i \in a..b - 1 : content[i] \in NameChars
    BY <1>8 DEF NameAt, Spaces
  <2>5. /\ status = 0 /\ p # l => p \in c.at + 1..l - 1
        /\ status = 1 /\ p # a => p \in l + 1..a - 1
        /\ status = 1 /\ p = a /\ a < b => p \in a..b - 1
        /\ status = 2 /\ p # b => p \in a..b - 1
    BY <1>8, <1>9
  <2> QED BY <2>1, <2>3, <2>4, <2>5
<1>18. a = b => a = j
  BY <1>8 DEF NameAt
<1>19. CASE p # j
  <2>1. /\ next \in 0..3 /\ NameColumn # 4
        /\ status = 0 => next = IF p = l THEN 1 ELSE 0
        /\ status = 1 => next = IF p = a THEN 2 ELSE 1
        /\ status = 2 => next = IF p = b THEN 3 ELSE 2
        /\ status = 3 => next = 3
    <3>1. status = 1 /\ p = a => a < b
      BY <1>8, <1>18, <1>19
    <3>2. status = 2 /\ p = b => p \in b..j - 1
      BY <1>8, <1>17, <1>19
    <3>3. status = 3 => p \in b..j - 1
      BY <1>8, <1>9, <1>19
    <3>4. Char \in NameChars \cup {"space", "lparen", "rparen"}
      BY <1>10, <1>17, <3>1, <3>2, <3>3
    <3>5. NameColumn # 4
      BY <1>10, <1>11, <3>4, NameRows
    <3>6. status = 0 => next = IF p = l THEN 1 ELSE 0
      BY <1>10, <1>11, <1>17, NameRows
    <3>7. status = 1 => next = IF p = a THEN 2 ELSE 1
      BY <1>10, <1>11, <1>17, <3>1, NameRows
    <3>8. status = 2 => next = IF p = b THEN 3 ELSE 2
      BY <1>10, <1>11, <1>17, <3>2, NameRows
    <3>9. status = 3 => next = 3
      BY <1>10, <1>11, <1>17, <3>3, NameRows
    <3> QED BY <1>10, <3>5, <3>6, <3>7, <3>8, <3>9
  <2>2. /\ p' = p + 1 /\ start' = from /\ end' = to /\ status' = next
        /\ input' = "name" /\ error' = error /\ calls' = calls
    BY <1>1, <1>15, <1>16, <2>1
  <2>3. /\ next = 0 => p + 1 \in c.at + 1..l /\ from = 0 /\ to = 0
        /\ next = 1 => p + 1 \in l + 1..a /\ from = 0 /\ to = 0
        /\ next = 2 => p + 1 \in a + 1..b /\ from = a /\ to = 0 /\ a < b
        /\ next = 3 => p + 1 \in b + 1..j /\ from = a /\ to = b /\ a < b
    <3>1. CASE status = 0
      <4>1. p \in c.at + 1..l /\ from = 0 /\ to = 0
        BY <1>9, <1>12, <1>13, <3>1
      <4>2. CASE p = l
        BY <1>8, <2>1, <3>1, <4>1, <4>2
      <4>3. CASE p # l
        BY <1>6, <1>8, <1>10, <2>1, <3>1, <4>1, <4>3
      <4> QED BY <4>2, <4>3
    <3>2. CASE status = 1
      BY <1>8, <1>9, <1>12, <1>13, <1>18, <1>19, <2>1, <3>2
    <3>3. CASE status = 2
      BY <1>8, <1>9, <1>12, <1>13, <1>19, <2>1, <3>3
    <3>4. CASE status = 3
      BY <1>8, <1>9, <1>12, <1>13, <1>19, <2>1, <3>4
    <3> QED BY <1>10, <3>1, <3>2, <3>3, <3>4
  <2>4. NameStage(c, l, a, b, j)'
    BY <1>7, <1>15, <2>2, <2>3 DEF NameStage
  <2>5. Places' = Places
    BY <1>15 DEF Places
  <2>6. InMark(c)'
    BY <1>5, <1>15, <2>2, <2>4, <2>5 DEF InMark
  <2> QED BY <1>2, <1>3, <1>4, <1>5, <1>10, <1>15, <2>2, <2>6, StaysInMark DEF Handlers
<1>20. CASE p = j
  <2>1. Char = "rparen" /\ status # 0
    BY <1>8, <1>9, <1>17, <1>20
  <2>2. next = 4 /\ NameColumn # 4
    BY <1>10, <1>11, <2>1, NameRows
  <2>3. /\ p' = j + 1 /\ start' = 0 /\ status' = 0
    BY <1>15, <1>20, <2>2
  <2>4. name' = SubSeq(content, a, b - 1) /\ (a < b => named)
    <3>1. CASE status = 1
      <4>1. a = b /\ from = 0 /\ ~named
        BY <1>8, <1>9, <1>12, <1>14, <1>20, <2>2, <3>1
      <4>2. SubSeq(content, a, b - 1) = <<>>
        BY <1>8, <1>10, <4>1
      <4> QED BY <1>8, <1>15, <4>1, <4>2
    <3>2. CASE status = 2
      <4>1. from = a /\ to = b /\ named
        BY <1>8, <1>9, <1>12, <1>13, <1>14, <1>20, <2>2, <3>2
      <4> QED BY <1>15, <4>1
    <3>3. CASE status = 3
      <4>1. from = a /\ to = b /\ named
        BY <1>8, <1>9, <1>12, <1>13, <1>14, <1>20, <2>2, <3>3
      <4> QED BY <1>15, <4>1
    <3> QED BY <1>10, <2>1, <3>1, <3>2, <3>3
  <2>5. CASE type \in {"undefdir", "unnoextend"}
    <3>1. j = c.to /\ a < b /\ Says(c, type, SubSeq(content, a, b - 1), 0, c.to)
      BY <1>7, <2>5 DEF NameStage
    <3>2. Decides(p' - 1) /\ p' - 1 = c.to
      BY <1>8, <1>16, <2>2, <2>3, <2>4, <2>5, <3>1
    <3>3. c.call = Made(p' - 1)
      BY <1>5, <2>3, <2>4, <3>1, <3>2 DEF Says, Made
    <3> QED BY <1>2, <1>3, <1>4, <1>5, <1>10, <1>15, <2>3, <3>1, <3>2, <3>3, CallFollows
  <2>6. CASE type \in {"defdir", "noextend"}
    <3>1. PICK s \in j + 2..c.to : /\ BlockAt(content, j + 1, s, c.to)
                                   /\ Says(c, type, SubSeq(content, a, b - 1), s, c.to)
      BY <1>7, <2>6 DEF NameStage
    <3>2. input' = "block" /\ error' = error /\ calls' = calls
      BY <1>16, <2>2, <2>6
    <3>3. PICK lo \in Int : lo = j + 1
      BY <1>8
    <3>4. lo \in Places /\ s \in Places /\ lo < s /\ s <= c.to /\ lo \in lo..s - 1
      BY <1>6, <1>8, <3>1, <3>3 DEF Places
    <3>5. ~InComment(content, lo, lo)
      BY <3>3, InCommentEmpty
    <3>6. Ahead(lo, s - 1)'
      BY <1>15, <2>3, <3>3, <3>4, <3>5 DEF Ahead
    <3>61. BlockAt(content', lo, s, c.to) /\ Says(c, type', name', s, c.to)
      BY <1>15, <2>4, <3>1, <3>3
    <3>7. BlockStage(c, lo, s)'
      BY <3>61, <1>15, <2>3, <2>4, <2>6, <3>1, <3>3, <3>4, <3>6 DEF BlockStage, Blocked
    <3>8. InMark(c)'
      BY <1>5, <1>15, <3>2, <3>4, <3>7 DEF InMark, Places
    <3> QED BY <1>2, <1>3, <1>4, <1>5, <1>10, <1>15, <3>2, <3>8, StaysInMark DEF Handlers
  <2> QED BY <1>1, <2>5, <2>6 DEF Types
<1> QED BY <1>19, <1>20

\* A brace inside of a balanced text does not close the block.
LEMMA NotClosed ==
  ASSUME NEW t \in Seq(Symbol), NEW s \in Nat, NEW q \in Nat, NEW e \in Nat,
         1 <= s, s <= q, q < e, e <= Len(t), Balanced(SubSeq(t, s, e - 1)),
         InBlock(SubSeq(t, s, q - 1), 1, 2), t[q] = "close"
  PROVE  FALSE
<1>1. PICK u : u = SubSeq(t, s, q - 1)
  OBVIOUS
<1>2. PICK w : w = SubSeq(t, s, e - 1)
  OBVIOUS
<1>3. PICK v : v = SubSeq(t, s, q)
  OBVIOUS
<1>4. u \in Seq(Symbol) /\ v = Append(u, "close") /\ "close" \in Symbol /\ Len(u) \in Nat
  BY <1>1, <1>3, SpanGrows
<1>5. Braces(u)[Len(u)] = 0 /\ ~Escapes(u)[Len(u) + 1]
  BY <1>1 DEF InBlock
<1>6. Braces(v)[Len(v)] = -1
  <2>1. Braces(v)[Len(v)] = Braces(u)[Len(u)] + (IF Escapes(u)[Len(u) + 1] THEN 0 ELSE Weighs("close"))
    <3>1. PICK d \in Symbol : d = "close"
      BY <1>4
    <3>2. v = Append(u, d)
      BY <1>4, <3>1
    <3> QED BY <1>4, <3>1, <3>2, BracesGrow, Zenon
  <2>2. Weighs("close") = -1
    BY DEF Weighs
  <2> QED BY <1>5, <2>1, <2>2
<1>7. /\ v \in Seq(Symbol) /\ Len(v) = q + 1 - s /\ w \in Seq(Symbol) /\ Len(w) = e - s
      /\ \A i \in 1..Len(v) : w[i] = v[i]
  <2>1. q + 1 - 1 = q /\ q + 1 \in Nat /\ s <= q + 1 /\ q + 1 <= e /\ e <= Len(t) + 1
    OBVIOUS
  <2>2. PICK r \in Nat : r = q + 1
    OBVIOUS
  <2>3. v = SubSeq(t, s, r - 1) /\ s <= r /\ r <= e
    BY <1>3, <2>1, <2>2
  <2> QED BY <1>2, <2>1, <2>2, <2>3, Cuts
<1>8. Len(v) <= Len(w) /\ Len(v) \in 1..Len(w) /\ Len(v) \in 0..Len(v)
  BY <1>7
<1>9. Braces(w)[Len(v)] = Braces(v)[Len(v)]
  BY <1>7, <1>8, BracesCut
<1>10. Braces(w)[Len(v)] >= 0
  BY <1>2, <1>8 DEF Balanced
<1> QED BY <1>6, <1>9, <1>10

LEMMA BlockFollows ==
  ASSUME Types, SpanInv, NEW m, Laid(m), Following(m), Block
  PROVE  Following(m)'
<1>1. input = "block"
  BY DEF Block
<1>2. ~error /\ FollowCalls(m) /\ FollowText(m, Len(calls))
  BY <1>1, FollowsText DEF Final
<1>3. PICK k : k = Len(calls)
  OBVIOUS
<1>4. PICK c : c = m[k + 1]
  OBVIOUS
<1>5. k < Len(m) /\ at = c.at /\ InMark(c)
  BY <1>1, <1>2, <1>3, <1>4 DEF FollowText, Handlers, InMark
<1>6. c.to \in 1..Len(content) /\ c.to \in Nat /\ Len(content) \in Nat
  <2>1. c.at \in 1..Len(content) /\ c.to \in c.at..Len(content) /\ c.to \in Nat /\ Len(content) \in Nat
    BY <1>2, <1>3, <1>4, <1>5, NextMark
  <2> QED BY <2>1
<1>7. PICK lo \in Places, s \in Places : BlockStage(c, lo, s)
  BY <1>1, <1>5 DEF InMark
<1>8. /\ lo < s /\ s <= c.to /\ type \in Blocked /\ lo \in Nat /\ s \in Nat /\ 1 <= lo
      /\ BlockAt(content, lo, s, c.to) /\ Says(c, type, name, s, c.to)
      /\ status \in {0, 1} => Ahead(lo, s - 1)
      /\ status \in {2, 3} => start = s /\ p \in s..c.to
  BY <1>6, <1>7 DEF BlockStage, Places
<1>9. /\ Skipped(content, lo, s - 1 - 1) /\ ~InComment(content, lo, s - 1) /\ content[s - 1] = "open"
      /\ content[c.to] = "close" /\ Balanced(SubSeq(content, s, c.to - 1)) /\ s - 1 \in Int
  <2>1. s - 2 + 1 = s - 1 /\ s - 1 - 1 = s - 2 /\ s - 1 \in Int
    BY <1>8
  <2> QED BY <1>8, <2>1 DEF BlockAt, Gap
<1>10. status \in 0..3 /\ level # -1 /\ p \in Nat /\ content \in Seq(Symbol) /\ depth \in Int
       /\ type \in Directive \ {"context"}
  BY <1>1, <1>8 DEF Types, Final, Blocked, Directive
<1>11. PICK next : next = Look(BlockTrans, BlockColumn)
  OBVIOUS
<1>12. PICK closed \in BOOLEAN : closed <=> next = 2 /\ depth' = 0
  OBVIOUS
<1>13. /\ depth' = IF status = 0 /\ next = 2 THEN depth + 1
                   ELSE depth + (IF status = 2 /\ next = 2 /\ Char = "open" THEN 1
                                 ELSE IF status = 2 /\ next = 2 /\ Char = "close" THEN -1 ELSE 0)
       /\ start' = IF status = 0 /\ next = 2 THEN p + 1 ELSE start
       /\ p' = IF next = 4 THEN p ELSE p + 1
       /\ status' = next /\ name' = name /\ content' = content /\ type' = type /\ level' = level /\ at' = at
       /\ closed => Decides(p)
       /\ ~closed /\ next # 4 => input' = "block" /\ error' = error /\ calls' = calls
  BY <1>1, <1>11, <1>12 DEF Block
<1>14. p <= Len(content) /\ Char = content[p] /\ Char # "nul"
  <2>1. p <= Len(content)
    BY <1>6, <1>8, <1>10 DEF Ahead
  <2> QED BY <2>1, CharFacts DEF Char, Types
<1>15. ASSUME ~closed, next # 4, BlockStage(c, lo, s)' PROVE Following(m)'
  <2>1. input' = "block" /\ ~error' /\ calls' = calls /\ Places' = Places
    BY <1>2, <1>13, <1>15 DEF Places
  <2>2. InMark(c)'
    BY <1>5, <1>7, <1>13, <1>15, <2>1 DEF InMark
  <2> QED BY <1>2, <1>3, <1>4, <1>5, <1>10, <1>13, <2>1, <2>2, StaysInMark DEF Handlers
<1>16. BlockAt(content', lo, s, c.to) /\ Says(c, type', name', s, c.to)
  BY <1>8, <1>13
<1>17. CASE status \in {0, 1}
  <2>1. p \in lo..s - 1 /\ (status = 1 <=> InComment(content, lo, p)) /\ depth = 0
    BY <1>1, <1>8, <1>17 DEF Ahead, SpanInv
  <2>2. CASE p # s - 1
    <3>1. Moves(lo, s - 1)
      BY <1>8, <1>9, <2>1, <2>2, GapMoves
    <3>2. next \in {0, 1} /\ (next = 1 <=> InComment(content, lo, p + 1))
      BY <1>10, <1>11, <1>14, <1>17, <2>1, <3>1, BlockRows DEF Moves, Skips
    <3>3. p' = p + 1 /\ p + 1 \in lo..s - 1 /\ ~closed
      BY <1>12, <1>13, <3>1, <3>2 DEF Moves
    <3>4. Ahead(lo, s - 1)'
      BY <1>13, <3>2, <3>3 DEF Ahead
    <3>5. BlockStage(c, lo, s)'
      BY <1>8, <1>13, <1>16, <3>2, <3>4 DEF BlockStage
    <3> QED BY <1>15, <3>2, <3>3, <3>5
  <2>3. CASE p = s - 1
    <3>1. status = 0 /\ next = 2
      BY <1>9, <1>10, <1>11, <1>14, <1>17, <2>1, <2>3, BlockRows
    <3>2. depth' = 1 /\ ~closed /\ start' = s /\ p' = s /\ status' = 2
      BY <1>8, <1>12, <1>13, <2>1, <2>3, <3>1
    <3>3. BlockStage(c, lo, s)'
      BY <1>6, <1>8, <1>13, <1>16, <3>2 DEF BlockStage
    <3> QED BY <1>15, <3>1, <3>2, <3>3
  <2> QED BY <2>2, <2>3
<1>18. CASE status \in {2, 3}
  <2>1. start = s /\ p \in s..c.to /\ InBlock(SubSeq(content, s, p - 1), depth, status) /\ depth >= 1
    BY <1>1, <1>8, <1>18 DEF SpanInv, Span, InBlock
  <2>2. next \in {2, 3} /\ (Char = "close" => next = 2)
    BY <1>10, <1>11, <1>14, <1>18, BlockRows
  <2>3. CASE p # c.to
    <3>1. ASSUME closed PROVE FALSE
      <4>1. status = 2 /\ Char = "close" /\ depth = 1
        BY <1>10, <1>12, <1>13, <1>18, <2>1, <3>1
      <4>2. InBlock(SubSeq(content, s, p - 1), 1, 2) /\ content[p] = "close"
        BY <1>14, <2>1, <4>1
      <4>3. 1 <= s /\ s <= p /\ p < c.to /\ c.to <= Len(content)
        BY <1>6, <1>8, <2>1, <2>3
      <4> QED BY <1>6, <1>8, <1>9, <1>10, <4>2, <4>3, NotClosed
    <3>2. p' = p + 1 /\ start' = s /\ status' = next /\ p + 1 \in s..c.to
      BY <1>6, <1>8, <1>13, <1>18, <2>1, <2>2, <2>3
    <3>3. BlockStage(c, lo, s)'
      BY <1>8, <1>13, <1>16, <2>2, <3>2 DEF BlockStage
    <3> QED BY <1>15, <2>2, <3>1, <3>3
  <2>4. CASE p = c.to
    <3>1. PICK u : u = SubSeq(content, s, p - 1)
      OBVIOUS
    <3>2. Braces(u)[Len(u)] = 0 /\ ~Escapes(u)[Len(u) + 1]
      BY <1>9, <2>4, <3>1 DEF Balanced, ForBlock
    <3>3. depth = 1 /\ status = 2
      <4>1. InBlock(u, depth, status)
        BY <2>1, <3>1
      <4>2. Braces(u)[Len(u)] = depth - 1 /\ (Escapes(u)[Len(u) + 1] <=> status = 3)
        BY <4>1 DEF InBlock
      <4> QED BY <1>10, <1>18, <3>2, <4>2
    <3>4. Char = "close" /\ next = 2 /\ closed
      BY <1>9, <1>12, <1>13, <1>14, <2>2, <2>4, <3>3
    <3>5. Decides(p) /\ start' = s /\ p' = c.to + 1
      BY <1>13, <2>1, <2>4, <3>3, <3>4
    <3>6. c.call = Made(p)
      BY <1>5, <1>8, <1>13, <2>4, <3>5 DEF Says, Made
    <3> QED BY <1>2, <1>3, <1>4, <1>5, <1>10, <1>13, <3>5, <3>6, CallFollows
  <2> QED BY <2>3, <2>4
<1> QED BY <1>10, <1>17, <1>18

\* A newline inside of a line's text, or a comment, is escaped.
LEMMA NotEnded ==
  ASSUME NEW t \in Seq(Symbol), NEW s \in Nat, NEW q \in Nat, NEW e \in Nat,
         1 <= s, s <= q, q < e, e <= Len(t), ForLine(SubSeq(t, s, e - 1)),
         InLine(SubSeq(t, s, q - 1), 2)
  PROVE  t[q] \notin {"newline", "comment"}
<1>1. PICK u : u = SubSeq(t, s, q - 1)
  OBVIOUS
<1>2. PICK w : w = SubSeq(t, s, e - 1)
  OBVIOUS
<1>3. /\ u \in Seq(Symbol) /\ w \in Seq(Symbol) /\ Len(u) = q - s /\ Len(w) = e - s
      /\ \A i \in 1..Len(u) : w[i] = u[i]
      /\ w[q - s + 1] = t[q]
  BY <1>1, <1>2, Cuts
<1>4. /\ Len(u) <= Len(w) /\ Len(u) + 1 = q - s + 1 /\ Len(u) + 1 \in 1..Len(w)
      /\ Len(u) + 1 \in 0..Len(u) + 1 /\ DOMAIN w = 1..Len(w)
  BY <1>3
<1>5. Escapes(w)[Len(u) + 1] = Escapes(u)[Len(u) + 1]
  BY <1>3, <1>4, EscapesCut
<1>6. ~Escapes(u)[Len(u) + 1]
  BY <1>1 DEF InLine
<1>7. \A i \in DOMAIN w : w[i] \in {"newline", "comment"} => Escapes(w)[i]
  BY <1>2 DEF ForLine
<1> QED BY <1>3, <1>4, <1>5, <1>6, <1>7

LEMMA LineFollows ==
  ASSUME Types, SpanInv, NEW m, Laid(m), Following(m), Line
  PROVE  Following(m)'
<1>1. input = "line"
  BY DEF Line
<1>2. ~error /\ FollowCalls(m) /\ FollowText(m, Len(calls))
  BY <1>1, FollowsText DEF Final
<1>3. PICK k : k = Len(calls)
  OBVIOUS
<1>4. PICK c : c = m[k + 1]
  OBVIOUS
<1>5. k < Len(m) /\ at = c.at /\ InMark(c)
  BY <1>1, <1>2, <1>3, <1>4 DEF FollowText, Handlers, InMark
<1>6. c.to \in 1..Len(content) /\ c.to \in Nat /\ Len(content) \in Nat
  <2>1. c.at \in 1..Len(content) /\ c.to \in c.at..Len(content) /\ c.to \in Nat /\ Len(content) \in Nat
    BY <1>2, <1>3, <1>4, <1>5, NextMark
  <2> QED BY <2>1
<1>7. PICK lo \in Places, h \in Places, s \in Places, e \in Places : LineStage(c, lo, h, s, e)
  BY <1>1, <1>5 DEF InMark
<1>8. /\ lo <= h /\ h <= Len(content) /\ type \in {"raw", "make"} /\ name = <<>>
      /\ lo \in Nat /\ h \in Nat /\ s \in Nat /\ e \in Nat /\ 1 <= lo /\ 1 <= s /\ e <= Len(content)
      /\ status \in {0, 1} => Ahead(lo, h)
  BY <1>6, <1>7 DEF LineStage, Places
<1> DEFINE OnLine == /\ LineAt(content, lo, h, s, e) /\ Says(c, type, <<>>, s, e)
                     /\ h <= s /\ s <= e
                     /\ c.to = IF content[e] = "newline" THEN e ELSE e - 1
           OnBlock == /\ h = s - 1 /\ s <= c.to
                      /\ BlockAt(content, lo, s, c.to) /\ Says(c, type, <<>>, s, c.to)
<1>9. \/ OnLine /\ (status \in {2, 3} => start = s /\ p \in s..e)
      \/ OnBlock /\ status \in {0, 1}
  BY <1>7 DEF LineStage
<1>10. status \in 0..3 /\ level # -1 /\ p \in Nat /\ content \in Seq(Symbol)
       /\ type \in Directive \ {"context"}
  BY <1>1, <1>8 DEF Types, Final, Directive
<1>11. PICK next : next = Look(LineTrans, LineColumn)
  OBVIOUS
<1>12. /\ start' = IF status = 0 /\ next = 2 THEN (IF Char = "colon" THEN p + 1 ELSE p)
                   ELSE IF next = 5 THEN 0 ELSE start
       /\ end' = IF status = 2 /\ next = 4 THEN p ELSE end
       /\ p' = IF next \in {5, 6} \/ (next = 4 /\ Char = "comment") THEN p ELSE p + 1
       /\ status' = IF next = 5 THEN 0 ELSE next
       /\ name' = name /\ content' = content /\ type' = type /\ level' = level /\ at' = at
  BY <1>11 DEF Line, PassesEnd
<1>13. /\ next = 4 => Decides(end')
       /\ next = 5 => input' = "block" /\ error' = error /\ calls' = calls
       /\ next \in 0..3 => input' = "line" /\ error' = error /\ calls' = calls
  BY <1>1, <1>11 DEF Line
<1>14. p <= Len(content) /\ Char = content[p] /\ Char # "nul"
  <2>1. p <= Len(content)
    BY <1>8, <1>9, <1>10 DEF Ahead
  <2> QED BY <2>1, CharFacts DEF Char, Types
<1>15. ASSUME next \in 0..3, LineStage(c, lo, h, s, e)' PROVE Following(m)'
  <2>1. input' = "line" /\ ~error' /\ calls' = calls /\ Places' = Places
    BY <1>2, <1>12, <1>13, <1>15 DEF Places
  <2>2. InMark(c)'
    BY <1>5, <1>7, <1>12, <1>15, <2>1 DEF InMark
  <2> QED BY <1>2, <1>3, <1>4, <1>5, <1>10, <1>12, <2>1, <2>2, StaysInMark DEF Handlers
<1>16. CASE status \in {0, 1}
  <2>1. p \in lo..h /\ (status = 1 <=> InComment(content, lo, p))
    BY <1>8, <1>16 DEF Ahead
  <2>2. Skipped(content, lo, h - 1) /\ ~InComment(content, lo, h) /\ h - 1 + 1 = h
    <3>1. OnLine => Gap(content, lo, h - 1)
      BY DEF LineAt
    <3>2. OnBlock => Gap(content, lo, h - 1)
      <4>1. h = s - 1 => h - 1 = s - 2
        BY <1>8
      <4> QED BY <4>1 DEF BlockAt
    <3>3. h - 1 + 1 = h
      BY <1>8
    <3> QED BY <1>9, <3>1, <3>2, <3>3 DEF Gap
  <2>3. CASE p # h
    <3>1. Moves(lo, h)
      BY <1>8, <2>1, <2>2, <2>3, GapMoves
    <3>2. next \in {0, 1} /\ (next = 1 <=> InComment(content, lo, p + 1))
      BY <1>10, <1>11, <1>14, <1>16, <2>1, <3>1, LineRows DEF Moves, Skips
    <3>3. p' = p + 1 /\ p + 1 \in lo..h /\ status' = next
      BY <1>12, <3>1, <3>2 DEF Moves
    <3>4. Ahead(lo, h)'
      BY <1>12, <3>2, <3>3 DEF Ahead
    <3>5. LineStage(c, lo, h, s, e)'
      BY <1>8, <1>9, <1>12, <3>2, <3>3, <3>4 DEF LineStage
    <3> QED BY <1>15, <3>2, <3>5
  <2>4. CASE p = h /\ OnLine
    <3>1. status = 0
      BY <1>16, <2>1, <2>2, <2>4
    <3>2. \/ content[h] = "colon" /\ s = h + 1
          \/ content[h] \in NameChars /\ s = h
      BY <2>4 DEF LineAt
    <3>3. next = 2
      BY <1>10, <1>11, <1>14, <2>4, <3>1, <3>2, LineRows
    <3>4. start' = s /\ p' = h + 1 /\ status' = 2
      <4>1. "colon" \notin NameChars
        BY DEF NameChars, Directive
      <4> QED BY <1>12, <1>14, <2>4, <3>1, <3>2, <3>3, <4>1
    <3>5. h + 1 \in s..e
      <4>1. content[e] \in {"newline", "comment"}
        BY <2>4 DEF LineAt
      <4>2. content[e] \notin NameChars
        BY <4>1 DEF NameChars, Directive
      <4>3. e # h \/ s = h + 1
        BY <3>2, <4>2
      <4> QED BY <1>8, <2>4, <3>2, <4>3
    <3>6. LineStage(c, lo, h, s, e)'
      BY <1>8, <1>12, <2>4, <3>4, <3>5 DEF LineStage
    <3> QED BY <1>15, <3>3, <3>6
  <2>5. CASE p = h /\ OnBlock
    <3>1. status = 0 /\ content[h] = "open"
      BY <1>16, <2>1, <2>2, <2>5 DEF BlockAt
    <3>2. next = 5
      BY <1>10, <1>11, <1>14, <2>5, <3>1, LineRows
    <3>3. p' = h /\ status' = 0 /\ input' = "block" /\ ~error' /\ calls' = calls
      BY <1>2, <1>12, <1>13, <2>5, <3>2
    <3>4. Ahead(lo, s - 1)'
      BY <1>8, <1>12, <2>2, <2>5, <3>3 DEF Ahead
    <3>5. BlockStage(c, lo, s)'
      BY <1>8, <1>12, <2>5, <3>3, <3>4 DEF BlockStage, Blocked
    <3>6. InMark(c)'
      BY <1>5, <1>7, <1>12, <3>3, <3>5 DEF InMark, Places
    <3> QED BY <1>2, <1>3, <1>4, <1>5, <1>10, <1>12, <3>3, <3>6, StaysInMark DEF Handlers
  <2> QED BY <1>9, <2>3, <2>4, <2>5
<1>17. CASE status \in {2, 3}
  <2>1. OnLine /\ start = s /\ p \in s..e
    BY <1>9, <1>17
  <2>2. content[e] \in {"newline", "comment"} /\ ForLine(SubSeq(content, s, e - 1))
    BY <2>1 DEF LineAt
  <2>3. InLine(SubSeq(content, s, p - 1), status)
    BY <1>1, <1>17, <2>1 DEF SpanInv, Span
  <2>4. CASE p # e
    <3>1. status = 2 => Char \notin {"newline", "comment"}
      <4>1. 1 <= s /\ s <= p /\ p < e /\ e <= Len(content)
        BY <1>8, <2>1, <2>4
      <4> QED BY <1>8, <1>10, <1>14, <2>2, <2>3, <4>1, NotEnded
    <3>2. next \in {2, 3}
      <4>1. next \in {2, 3, 4} /\ (status = 3 => next # 4)
        BY <1>10, <1>11, <1>14, <1>17, LineRows, LineTurn
      <4>2. status = 2 => next # 4
        BY <1>10, <1>11, <3>1, LineRows
      <4> QED BY <1>17, <4>1, <4>2
    <3>3. p' = p + 1 /\ start' = s /\ status' = next /\ p + 1 \in s..e
      BY <1>8, <1>12, <1>17, <2>1, <2>4, <3>2
    <3>4. LineStage(c, lo, h, s, e)'
      BY <1>8, <1>12, <2>1, <3>2, <3>3 DEF LineStage
    <3> QED BY <1>15, <3>2, <3>4
  <2>5. CASE p = e
    <3>1. PICK u : u = SubSeq(content, s, p - 1)
      OBVIOUS
    <3>2. ~Escapes(u)[Len(u) + 1] /\ (Escapes(u)[Len(u) + 1] <=> status = 3)
      BY <2>2, <2>3, <2>5, <3>1 DEF ForLine, ForBlock, InLine
    <3>3. status = 2 /\ Char \in {"newline", "comment"}
      BY <1>14, <1>17, <2>2, <2>5, <3>2
    <3>4. next = 4
      BY <1>10, <1>11, <3>3, LineRows
    <3>5. end' = e /\ start' = s /\ Decides(end')
      BY <1>12, <1>13, <2>1, <2>5, <3>3, <3>4
    <3>6. p' = c.to + 1
      BY <1>8, <1>12, <1>14, <2>1, <2>5, <3>3, <3>4
    <3>7. c.call = Made(end')
      BY <1>5, <1>8, <1>12, <2>1, <3>5 DEF Says, Made
    <3> QED BY <1>2, <1>3, <1>4, <1>5, <1>10, <1>12, <3>5, <3>6, <3>7, CallFollows
  <2> QED BY <2>4, <2>5
<1> QED BY <1>10, <1>16, <1>17

LEMMA FollowingNext ==
  ASSUME Types, SpanInv, ~faulty, NEW m, Laid(m), Following(m), Next
  PROVE  Following(m)'
<1>1. ~Report
  BY DEF Report
<1>2. CASE Stopped
  <2>1. /\ input \in {"done", "stopped", "abort"} /\ input' = input /\ error' = error
        /\ calls' = calls /\ content' = content
    BY <1>2 DEF Stopped, Final, vars
  <2>2. ReadAs(m) => ReadAs(m)'
    BY <2>1 DEF ReadAs
  <2> QED BY <2>1, <2>2 DEF Following
<1>3. CASE Test \/ Call
  <2>1. CASE input \in {"ERROR", "stopped", "abort", "done"}
    <3>1. /\ input' = input /\ error' = error /\ calls' = calls /\ content' = content
      BY <1>3, <2>1 DEF Test, Call, Signals
    <3>2. ReadAs(m) => ReadAs(m)'
      BY <3>1 DEF ReadAs
    <3> QED BY <2>1, <3>1, <3>2 DEF Following
  <2>2. CASE input \notin {"ERROR", "stopped", "abort", "done"}
    <3>1. ~error /\ FollowCalls(m) /\ FollowText(m, Len(calls))
      BY <2>2 DEF Following
    <3>2. /\ content' = content /\ p' = p /\ level' = level /\ calls' = calls /\ error' = error
          /\ UNCHANGED <<status, type, name, start, end, at>>
      BY <1>3 DEF Test, Call, handler
    <3>3. CASE Test
      <4>1. input' = input
        BY <3>1, <3>3 DEF Test
      <4>2. FollowText(m, Len(calls))'
        BY <3>1, <3>2, <4>1 DEF FollowText, InMark, NameStage, BlockStage, LineStage, Ahead, Places,
                                NextAt
      <4>3. FollowCalls(m)'
        BY <3>1, <3>2 DEF FollowCalls
      <4> QED BY <2>2, <3>1, <3>2, <4>1, <4>2, <4>3 DEF Following
    <3>4. CASE Call
      <4>1. input = "call" /\ input' = "READ"
        BY <3>4 DEF Call
      <4>2. FollowText(m, Len(calls))'
        BY <3>1, <3>2, <4>1 DEF FollowText, NextAt, Handlers
      <4>3. FollowCalls(m)'
        BY <3>1, <3>2 DEF FollowCalls
      <4> QED BY <3>1, <3>2, <4>1, <4>2, <4>3 DEF Following
    <3> QED BY <1>3, <3>3, <3>4
  <2> QED BY <2>1, <2>2
<1> QED BY <1>1, <1>2, <1>3, NewContextFollows, ReadFollows, EndContextFollows, FinishFollows, CommentFollows,
           ReadOrderFollows, ReadNameFollows, LineFollows, BlockFollows, ContextFollows DEF Next

LEMMA FollowingInit == ASSUME Init, NEW m, Laid(m) PROVE Following(m)
<1>1. Len(m) \in Nat /\ Depth(m)[0] = 0
  BY DepthFacts DEF Laid
<1>2. /\ input = "NEWCONTEXT" /\ error = FALSE /\ level = -1 /\ Len(calls) = 0
  BY DEF Init
<1>3. FollowCalls(m)
  BY <1>1, <1>2 DEF FollowCalls
<1>4. FollowText(m, Len(calls))
  BY <1>2 DEF FollowText, Handlers
<1> QED BY <1>2, <1>3, <1>4 DEF Following

\* The file of a run does not change, nor whether a task finds an error in it.
LEMMA SameFile == ASSUME Next PROVE content' = content /\ faulty' = faulty
BY DEF Next, NewContext, Read, EndContext, Finish, Comment, ReadOrder, ReadName, Line, Block,
       Context, Test, Call, Report, Stopped, handler, vars

LEMMA WrittenLaid == ASSUME NEW f \in Written, f.text = content PROVE Laid(f.marks)
BY WrittenAssumption DEF Laid

LEMMA FollowInit == Init => FollowInv
BY FollowingInit, WrittenLaid DEF FollowInv

LEMMA FollowNext == ReaderInv /\ FollowInv /\ [Next]_vars => FollowInv'
<1> SUFFICES ASSUME ReaderInv, FollowInv, [Next]_vars, ~faulty', NEW f \in Written, f.text = content'
             PROVE  Following(f.marks)'
  BY DEF FollowInv
<1>1. CASE Next
  <2>1. ~faulty /\ f.text = content
    BY <1>1, SameFile
  <2>2. PICK m : m = f.marks
    OBVIOUS
  <2>3. Laid(m) /\ Following(m)
    BY <2>1, <2>2, WrittenLaid DEF FollowInv
  <2>4. Following(m)'
    BY <1>1, <2>1, <2>3, FollowingNext DEF ReaderInv
  <2> QED BY <2>2, <2>4
<1>2. CASE UNCHANGED vars
  <2>1. Following(f.marks)
    BY <1>2 DEF FollowInv, vars
  <2>2. PICK m : m = f.marks
    OBVIOUS
  <2>3. Following(m)'
    <3>1. /\ FollowCalls(m)' = FollowCalls(m) /\ ReadAs(m)' = ReadAs(m)
          /\ FollowText(m, Len(calls))' = FollowText(m, Len(calls))
      BY <1>2 DEF FollowCalls, ReadAs, FollowText, InMark, NameStage, BlockStage, LineStage, Ahead,
                  Places, NextAt, vars
    <3> QED BY <1>2, <2>1, <2>2, <3>1 DEF Following, vars
  <2> QED BY <2>2, <2>3
<1> QED BY <1>1, <1>2

\* For every file of directives of any length in which no task finds an error: the reader
\* makes the calls the directives stand for, each with its name and its text and in their
\* order, and accepts the file, exactly when the contexts are nested.
THEOREM FilesAreRead == Spec => []MeansFile
<1>1. FollowInv => MeansFile
  <2> SUFFICES ASSUME FollowInv, input \in Final, ~faulty, NEW f \in Written, f.text = content
               PROVE  ReadAs(f.marks)
    BY DEF MeansFile
  <2>1. Following(f.marks)
    BY DEF FollowInv
  <2>2. CASE input = "done"
    BY <2>1, <2>2 DEF Following
  <2>3. CASE input # "done"
    <3>1. input \in {"ERROR", "stopped", "abort"}
      BY <2>3 DEF Final
    <3> QED BY <2>1, <2>3, <3>1 DEF Following, ReadAs
  <2> QED BY <2>2, <2>3
<1> QED BY <1>1, FollowInit, FollowNext, ReaderAlways, PTL DEF Spec

-----------------------------------------------------------------------------
(* The text behind the reader.  What it has read is laid out as the        *)
(* directives of its calls, and what it reads now is the beginning of the  *)
(* next.                                                                   *)

\* Where the text behind the last of n calls begins.
RestFrom(t, cs, n) == To(MarksOf(t, cs, n), n) + 1

\* The first n calls are of directives that are laid out, and leave l contexts open.
LaidUpTo(t, cs, n, l) ==
  LET m == MarksOf(t, cs, n)
  IN /\ \A k \in 1..n : /\ IsMark(t, m[k]) /\ To(m, k - 1) < m[k].at
                        /\ Gap(t, To(m, k - 1) + 1, m[k].at - 1)
     /\ \A i \in 0..n : Depth(m)[i] >= 0
     /\ Depth(m)[n] = l

Spots == 1..Len(content) + 1

\* The name, as far as it is read; its bracket is open at l.
NameSoFar(l) ==
  /\ at < l
  /\ status = 0 => l = p /\ Spaces(content, at + 1, p - 1) /\ start = 0 /\ end = 0
  /\ status # 0 => l < p /\ Spaces(content, at + 1, l - 1) /\ content[l] = "lparen"
  /\ status = 1 => Spaces(content, l + 1, p - 1) /\ start = 0 /\ end = 0
  /\ status \in {2, 3} => l < start /\ Spaces(content, l + 1, start - 1)
  /\ status = 2 => /\ start < p /\ end = 0 /\ \A i \in start..p - 1 : content[i] \in NameChars
  /\ status = 3 => /\ start < end /\ end < p /\ Spaces(content, end, p - 1)
                   /\ \A i \in start..end - 1 : content[i] \in NameChars

\* What is in front of the text of the directive is read, up to lo.
HeadRead(lo) ==
  \/ /\ type \in {"raw", "make"} /\ name = <<>>
     /\ lo = IF content[at] \in Directive THEN at + 1 ELSE at
  \/ /\ type \in {"defdir", "noextend"}
     /\ \E l, a, b \in Places : /\ at < l /\ l < a /\ a <= b /\ b < lo
                                /\ NameAt(content, at + 1, l, a, b, lo - 1)
                                /\ name = SubSeq(content, a, b - 1)

\* Blanks and comments behind lo are passed.
Passed(lo) ==
  lo <= p /\ Skipped(content, lo, p - 1) /\ (status = 1 <=> InComment(content, lo, p))

BlockSoFar(lo) ==
  /\ content[at] \in Directive /\ HeadRead(lo)
  /\ status \in {0, 1} => Passed(lo)
  /\ status \in {2, 3} => /\ lo < start /\ start <= p /\ Gap(content, lo, start - 2)
                          /\ content[start - 1] = "open"

LineSoFar(lo, h) ==
  /\ type \in {"raw", "make"} /\ HeadRead(lo)
  /\ status \in {0, 1} => Passed(lo) /\ (content[at] \notin Directive => p = at)
  /\ status \in {2, 3} => /\ lo <= h /\ h < p /\ start <= p /\ Gap(content, lo, h - 1)
                          /\ \/ content[h] = "colon" /\ start = h + 1
                             \/ content[h] \in NameChars /\ start = h

\* Of the directive at `at` the reader has read this.
InDirective ==
  /\ at \in Places /\ content[at] \in NameChars
  /\ type = IF content[at] \in Directive THEN content[at] ELSE "raw"
  /\ input = "name" => \E l \in Spots : NameSoFar(l)
  /\ input = "block" => \E lo \in Spots : BlockSoFar(lo)
  /\ input = "line" => \E lo, h \in Spots : LineSoFar(lo, h)
  /\ input \in {"context", "NEWCONTEXT"} => type = "context" /\ name = <<>> /\ start = 0
  /\ input = "context" => Passed(at + 1)
  /\ input = "NEWCONTEXT" => /\ at < p - 1 /\ Gap(content, at + 1, p - 2)
                             /\ content[p - 1] = "open"

\* The reader stands behind the directives, in the text from lo on.
TextBehind(lo) ==
  /\ input \in {"READ", "call"} => lo <= p /\ Gap(content, lo, p - 1)
  /\ input = "COMMENT" => /\ lo < p /\ Skipped(content, lo, p - 1) /\ content[p - 1] = "comment"
  /\ input = "END" => p = Len(content) + 1 /\ Skipped(content, lo, Len(content))
  /\ input = "NAME_CHAR" => /\ lo <= p /\ p <= Len(content) /\ Gap(content, lo, p - 1)
                            /\ content[p] \in NameChars
  /\ input = "ENDCONTEXT" => lo < p /\ Gap(content, lo, p - 2) /\ content[p - 1] = "close"
  /\ input \in Handlers \cup {"NEWCONTEXT"} => lo <= at /\ Gap(content, lo, at - 1) /\ InDirective

LaidInv ==
  /\ AcceptsFiles
  /\ input \notin Final \cup {"ERROR"} =>
       IF level = -1 THEN input = "NEWCONTEXT" /\ p = 1 /\ calls = <<>>
       ELSE /\ TextBehind(RestFrom(content, calls, Len(calls)))
            /\ LaidUpTo(content, calls, Len(calls), level)

-----------------------------------------------------------------------------
(* A file with one more directive. *)

LEMMA MarksAre ==
  ASSUME NEW t, NEW cs, NEW n \in Nat, NEW m, m = MarksOf(t, cs, n)
  PROVE  Len(m) = n /\ \A k \in 1..n : m[k] = MarkOf(t, cs[k])
BY DEF MarksOf

\* The depth behind a directive does not depend on what follows.
LEMMA DepthCut ==
  ASSUME NEW u, NEW w, Len(u) \in Nat, Len(w) \in Nat, Len(u) <= Len(w),
         \A i \in 1..Len(u) : w[i] = u[i]
  PROVE  \A i \in 0..Len(u) : Depth(w)[i] = Depth(u)[i]
<1>1. PICK f : f = Depth(w)
  OBVIOUS
<1>2. PICK g : g = Depth(u)
  OBVIOUS
<1>3. PICK n \in Nat : n = Len(u)
  OBVIOUS
<1>4. PICK F : F = DepthStep(u)
  OBVIOUS
<1>5. PICK z : z = 0
  OBVIOUS
<1>6. /\ g[0] = 0 /\ \A i \in 0..n : g[i] \in Int
      /\ \A i \in 1..n : g[i] = g[i - 1] + Opens(u[i])
  BY <1>2, <1>3, DepthFacts
<1>7. /\ f[0] = 0 /\ \A i \in 0..n : f[i] \in Int
      /\ \A i \in 1..n : f[i] = f[i - 1] + Opens(u[i])
  <2>1. /\ f[0] = 0 /\ \A i \in 0..Len(w) : f[i] \in Int
        /\ \A i \in 1..Len(w) : f[i] = f[i - 1] + Opens(w[i])
    BY <1>1, DepthFacts
  <2>2. \A i \in 0..n : i \in 0..Len(w)
    BY <1>3
  <2>3. \A i \in 1..n : i \in 1..Len(w) /\ w[i] = u[i]
    BY <1>3
  <2> QED BY <2>1, <2>2, <2>3
<1>8. ASSUME NEW h, h[0] = 0 /\ \A i \in 0..n : h[i] \in Int,
             \A i \in 1..n : h[i] = h[i - 1] + Opens(u[i])
      PROVE  Along(h, n, z, F)
  <2>1. ASSUME NEW i \in 1..n PROVE h[i] = F[i][h[i - 1]]
    <3>1. i - 1 \in 0..n /\ i \in 1..Len(u)
      BY <1>3
    <3>2. h[i - 1] \in Int
      BY <1>8, <3>1
    <3> QED BY <1>4, <1>8, <3>1, <3>2 DEF DepthStep
  <2> QED BY <1>5, <1>8, <2>1 DEF Along
<1>9. Along(f, n, z, F)
  BY <1>7, <1>8
<1>10. Along(g, n, z, F)
  BY <1>6, <1>8
<1>11. \A i \in 0..n : f[i] = g[i]
  BY <1>9, <1>10, Agrees
<1> QED BY <1>1, <1>2, <1>3, <1>11

\* The text behind the directives begins within the text or at its end.
LEMMA RestIs ==
  ASSUME NEW t \in Seq(Symbol), NEW cs, NEW n \in Nat, NEW l, LaidUpTo(t, cs, n, l)
  PROVE  RestFrom(t, cs, n) \in 1..Len(t) + 1
<1>0. Len(t) \in Nat
  OBVIOUS
<1>1. PICK m : m = MarksOf(t, cs, n)
  OBVIOUS
<1>2. CASE n = 0
  BY <1>0, <1>1, <1>2 DEF RestFrom, To
<1>3. CASE n # 0
  <2>1. n \in 1..n
    BY <1>3
  <2>2. IsMark(t, m[n])
    BY <1>1, <2>1 DEF LaidUpTo
  <2>3. m[n].at \in 1..Len(t) /\ m[n].to \in m[n].at..Len(t)
    BY <2>2 DEF IsMark
  <2>4. RestFrom(t, cs, n) = m[n].to + 1
    BY <1>1, <1>3 DEF RestFrom, To
  <2> QED BY <1>0, <2>3, <2>4
<1> QED BY <1>2, <1>3

\* A directive is laid out behind the others.
LEMMA LaidGrows ==
  ASSUME NEW t \in Seq(Symbol), NEW cs, NEW n \in Nat, NEW l \in Int, LaidUpTo(t, cs, n, l),
         NEW ds, \A k \in 1..n : ds[k] = cs[k], NEW x, x = MarkOf(t, ds[n + 1]), IsMark(t, x),
         NEW lo, lo = RestFrom(t, cs, n), lo <= x.at, Gap(t, lo, x.at - 1), l + Opens(x) >= 0
  PROVE  LaidUpTo(t, ds, n + 1, l + Opens(x)) /\ RestFrom(t, ds, n + 1) = x.to + 1
<1>0. x.at \in 1..Len(t) /\ x.at \in Nat /\ lo \in 1..Len(t) + 1 /\ Opens(x) \in Int
  <2>1. x.at \in 1..Len(t) /\ Len(t) \in Nat
    BY DEF IsMark
  <2> QED BY <2>1, RestIs, OpensType
<1>1. PICK m : m = MarksOf(t, cs, n)
  OBVIOUS
<1>2. PICK w : w = MarksOf(t, ds, n + 1)
  OBVIOUS
<1>3. Len(m) = n /\ \A k \in 1..n : m[k] = MarkOf(t, cs[k])
  BY <1>1, MarksAre
<1>4. n + 1 \in Nat /\ Len(w) = n + 1 /\ \A k \in 1..n + 1 : w[k] = MarkOf(t, ds[k])
  BY <1>2, MarksAre
<1>5. w[n + 1] = x /\ \A k \in 1..n : w[k] = m[k]
  <2>1. n + 1 \in 1..n + 1 /\ \A k \in 1..n : k \in 1..n + 1
    OBVIOUS
  <2> QED BY <1>3, <1>4, <2>1
<1>6. \A k \in 0..n : To(w, k) = To(m, k)
  BY <1>5 DEF To
<1>7. To(w, n) + 1 = lo /\ To(w, n + 1) = x.to /\ To(w, n) \in Int
  <2>1. To(m, n) \in Int
    <3>1. CASE n = 0
      BY <3>1 DEF To
    <3>2. CASE n # 0
      <4>1. n \in 1..n
        BY <3>2
      <4>2. IsMark(t, m[n])
        BY <1>1, <4>1 DEF LaidUpTo
      <4>3. m[n].at \in 1..Len(t) /\ m[n].to \in m[n].at..Len(t)
        BY <4>2 DEF IsMark
      <4> QED BY <3>2, <4>3 DEF To
    <3> QED BY <3>1, <3>2
  <2>2. n \in 0..n /\ n + 1 # 0
    OBVIOUS
  <2> QED BY <1>1, <1>5, <1>6, <2>1, <2>2 DEF RestFrom, To
<1>8. ASSUME NEW k \in 1..n + 1
      PROVE  /\ IsMark(t, w[k]) /\ To(w, k - 1) < w[k].at
             /\ Gap(t, To(w, k - 1) + 1, w[k].at - 1)
  <2>1. CASE k = n + 1
    <3>1. To(w, n) < x.at
      BY <1>0, <1>7
    <3>2. k - 1 = n
      BY <2>1
    <3> QED BY <1>5, <1>7, <2>1, <3>1, <3>2
  <2>2. CASE k # n + 1
    <3>1. k \in 1..n /\ k - 1 \in 0..n
      BY <2>2
    <3>2. To(w, k - 1) = To(m, k - 1) /\ w[k] = m[k]
      BY <1>5, <1>6, <3>1
    <3>3. IsMark(t, m[k]) /\ To(m, k - 1) < m[k].at /\ Gap(t, To(m, k - 1) + 1, m[k].at - 1)
      BY <1>1, <3>1 DEF LaidUpTo
    <3> QED BY <3>2, <3>3
  <2> QED BY <2>1, <2>2
<1>9. \A i \in 0..n : Depth(w)[i] = Depth(m)[i]
  BY <1>3, <1>4, <1>5, DepthCut
<1>10. \A i \in 0..n : Depth(w)[i] >= 0
  BY <1>1, <1>9 DEF LaidUpTo
<1>11. Depth(w)[n + 1] = l + Opens(x)
  <2>1. Depth(w)[n + 1] = Depth(w)[n + 1 - 1] + Opens(w[n + 1])
    <3>1. n + 1 \in 1..Len(w) /\ Len(w) \in Nat
      BY <1>4
    <3> QED BY <3>1, DepthFacts
  <2>2. n + 1 - 1 = n /\ n \in 0..n
    OBVIOUS
  <2>3. Depth(w)[n] = l
    BY <1>1, <1>9, <2>2 DEF LaidUpTo
  <2> QED BY <1>5, <2>1, <2>2, <2>3
<1>12. \A i \in 0..n + 1 : Depth(w)[i] >= 0
  <2>1. \A i \in 0..n + 1 : i \in 0..n \/ i = n + 1
    OBVIOUS
  <2> QED BY <1>10, <1>11, <2>1
<1>13. LaidUpTo(t, ds, n + 1, l + Opens(x))
  BY <1>2, <1>8, <1>11, <1>12 DEF LaidUpTo
<1> QED BY <1>2, <1>7, <1>13 DEF RestFrom

-----------------------------------------------------------------------------
(* What a turn of a table says of the character: nothing else leads there. *)

Blank(next) ==
  next \in {0, 1} => /\ Char # "nul" /\ status \in {0, 1}
                     /\ status = 1 \/ Char \in {"space", "newline", "comment"}
                     /\ next = 1 <=> Char # "newline" /\ (status = 1 \/ Char = "comment")

LEMMA ContextOnly ==
  ASSUME status \in {0, 1}, NEW next, next = Look(ContextTrans, ContextColumn)
  PROVE  Blank(next) /\ (next = 2 => status = 0 /\ Char = "open")
<1>1. /\ ContextColumn \in 0..5
      /\ ContextColumn = 0 => Char = "newline"
      /\ ContextColumn = 1 <=> Char = "comment"
      /\ ContextColumn = 2 <=> Char = "space"
      /\ ContextColumn = 3 <=> Char = "open"
      /\ ContextColumn = 4 <=> Char = "nul"
      /\ ContextColumn = 0 <=> Char = "newline"
  BY DEF ContextColumn
<1>2. PICK c \in 0..5 : c = ContextColumn
  BY <1>1
<1>3. c \in {0, 1, 2, 3, 4, 5} /\ next = ContextTrans[status + 1][c + 1]
  BY <1>2 DEF Look
<1> QED BY <1>1, <1>2, <1>3 DEF ContextTrans, Blank

LEMMA BlockOnly ==
  ASSUME status \in 0..3, NEW next, next = Look(BlockTrans, BlockColumn)
  PROVE  /\ Blank(next) /\ (next # 4 => Char # "nul")
         /\ status \in {0, 1} /\ next \notin {0, 1, 4} => next = 2 /\ status = 0 /\ Char = "open"
         /\ status \in {2, 3} => next \in {2, 3, 4}
         /\ status \in {2, 3} /\ next = 3 => Char = "backslash"
<1>1. /\ BlockColumn \in 0..7
      /\ BlockColumn = 0 <=> Char = "space"
      /\ BlockColumn = 1 <=> Char = "newline"
      /\ BlockColumn = 2 <=> Char = "comment"
      /\ BlockColumn = 3 <=> Char = "open"
      /\ BlockColumn = 5 <=> Char = "nul"
      /\ BlockColumn = 6 <=> Char = "backslash"
  BY DEF BlockColumn
<1>2. PICK c \in 0..7 : c = BlockColumn
  BY <1>1
<1>3. c \in {0, 1, 2, 3, 4, 5, 6, 7} /\ next = BlockTrans[status + 1][c + 1] /\ status \in {0, 1, 2, 3}
  BY <1>2 DEF Look
<1>4. CASE status \in {0, 1}
  BY <1>1, <1>2, <1>3, <1>4 DEF BlockTrans, Blank
<1>5. CASE status \in {2, 3}
  BY <1>1, <1>2, <1>3, <1>5 DEF BlockTrans, Blank
<1> QED BY <1>3, <1>4, <1>5

LEMMA LineOnly ==
  ASSUME status \in 0..3, NEW next, next = Look(LineTrans, LineColumn)
  PROVE  /\ Blank(next) /\ (next # 6 => Char # "nul")
         /\ status \in {0, 1} /\ next \notin {0, 1, 6} =>
              status = 0 /\ ((next = 2 /\ Char \in NameChars \cup {"colon"}) \/ (next = 5 /\ Char = "open"))
         /\ status \in {2, 3} => next \in {2, 3, 4, 6}
         /\ next = 4 => status = 2 /\ Char \in {"newline", "comment"}
<1>1. /\ LineColumn \in 0..8
      /\ LineColumn = 0 <=> Char = "newline"
      /\ LineColumn = 1 <=> Char = "comment"
      /\ LineColumn = 2 <=> Char = "space"
      /\ LineColumn = 3 <=> Char = "open"
      /\ LineColumn = 4 <=> Char = "colon"
      /\ LineColumn = 5 <=> Char = "backslash"
      /\ LineColumn = 6 <=> Char = "nul"
      /\ LineColumn = 7 <=> Char \in NameChars
  BY DEF LineColumn, NameChars, Directive
<1>2. PICK c \in 0..8 : c = LineColumn
  BY <1>1
<1>3. c \in {0, 1, 2, 3, 4, 5, 6, 7, 8} /\ next = LineTrans[status + 1][c + 1] /\ status \in {0, 1, 2, 3}
  BY <1>2 DEF Look
<1>4. CASE status \in {0, 1}
  BY <1>1, <1>2, <1>3, <1>4 DEF LineTrans, Blank
<1>5. CASE status \in {2, 3}
  BY <1>1, <1>2, <1>3, <1>5 DEF LineTrans, Blank
<1> QED BY <1>3, <1>4, <1>5

LEMMA NameOnly ==
  ASSUME status \in 0..3, NEW next, next = IF NameColumn = 4 THEN 5 ELSE Look(NameTrans, NameColumn)
  PROVE  /\ next # 5 => NameColumn # 4 /\ Char # "nul"
         /\ status = 0 => next \in {0, 1, 5}
         /\ status = 1 => next \in {1, 2, 4, 5}
         /\ status = 2 => next \in {2, 3, 4, 5}
         /\ status = 3 => next \in {3, 4, 5}
         /\ next = 0 => Char = "space"
         /\ next = 1 => IF status = 0 THEN Char = "lparen" ELSE Char = "space"
         /\ next = 2 => Char \in NameChars
         /\ next = 3 => Char = "space"
         /\ next = 4 => Char = "rparen"
<1>1. /\ NameColumn \in 0..4
      /\ NameColumn = 0 => Char = "lparen"
      /\ NameColumn = 1 => Char = "rparen"
      /\ NameColumn = 2 => Char = "space"
      /\ NameColumn = 3 => Char \in NameChars
      /\ Char = "nul" => NameColumn = 4
  BY DEF NameColumn, NameChars, Directive
<1>2. CASE NameColumn = 4
  BY <1>2
<1>3. CASE NameColumn # 4
  <2>1. PICK c \in 0..3 : c = NameColumn
    BY <1>1, <1>3
  <2>2. c \in {0, 1, 2, 3} /\ status \in {0, 1, 2, 3} /\ next = NameTrans[status + 1][c + 1]
    BY <1>3, <2>1 DEF Look
  <2>3. CASE status \in {0, 1}
    BY <1>1, <1>3, <2>1, <2>2, <2>3 DEF NameTrans
  <2>4. CASE status \in {2, 3}
    BY <1>1, <1>3, <2>1, <2>2, <2>4 DEF NameTrans
  <2> QED BY <2>2, <2>3, <2>4
<1> QED BY <1>2, <1>3

-----------------------------------------------------------------------------
(* Each step keeps the text behind the reader laid out. *)

\* A step makes no call, or that of a directive that begins behind the others.
Stays(lo) == calls' = calls /\ level' = level /\ TextBehind(lo)'
Grows(lo) ==
  \E c \in Calling : \E x :
     /\ calls' = Append(calls, c) /\ x = MarkOf(content, c)
     /\ IsMark(content, x) /\ lo <= x.at /\ Gap(content, lo, x.at - 1)
     /\ level' = level + Opens(x) /\ TextBehind(x.to + 1)'
Moved(lo) == input' \in Final \cup {"ERROR"} \/ Stays(lo) \/ Grows(lo)

LEMMA SkippedGrows ==
  ASSUME NEW t, NEW i \in Int, NEW k \in Int, Skipped(t, i, k - 1),
         t[k] \in {"space", "newline", "comment"} \/ InComment(t, i, k)
  PROVE  Skipped(t, i, k)
<1>1. \A l \in i..k : l \in i..k - 1 \/ l = k
  OBVIOUS
<1> QED BY <1>1 DEF Skipped

\* In front of a place there is nothing to skip.
LEMMA GapEmpty == ASSUME NEW t, NEW i \in Int PROVE Gap(t, i, i - 1) /\ Skipped(t, i, i - 1)
<1>1. i..i - 1 = {} /\ i - 1 + 1 = i
  OBVIOUS
<1> QED BY <1>1, InCommentEmpty DEF Gap, Skipped

LEMMA LaidStep ==
  ASSUME Types, Types', content' = content, level # -1, level' # -1,
         LaidUpTo(content, calls, Len(calls), level),
         NEW lo, lo = RestFrom(content, calls, Len(calls)),
         Stays(lo) \/ Grows(lo)
  PROVE  /\ TextBehind(RestFrom(content, calls, Len(calls)))'
         /\ LaidUpTo(content, calls, Len(calls), level)'
<1>1. CASE Stays(lo)
  BY <1>1 DEF Stays
<1>2. CASE Grows(lo)
  <2>1. PICK c \in Calling : \E x :
           /\ calls' = Append(calls, c) /\ x = MarkOf(content, c)
           /\ IsMark(content, x) /\ lo <= x.at /\ Gap(content, lo, x.at - 1)
           /\ level' = level + Opens(x) /\ TextBehind(x.to + 1)'
    BY <1>2 DEF Grows
  <2>2. PICK x :
           /\ calls' = Append(calls, c) /\ x = MarkOf(content, c)
           /\ IsMark(content, x) /\ lo <= x.at /\ Gap(content, lo, x.at - 1)
           /\ level' = level + Opens(x) /\ TextBehind(x.to + 1)'
    BY <2>1
  <2>3. /\ IsMark(content, x) /\ lo <= x.at /\ Gap(content, lo, x.at - 1)
        /\ level' = level + Opens(x) /\ TextBehind(x.to + 1)'
    BY <2>2
  <2>4. PICK n \in Nat : n = Len(calls)
    BY DEF Types
  <2>5. PICK ds : ds = calls'
    OBVIOUS
  <2>6. Len(ds) = n + 1 /\ ds[n + 1] = c /\ \A k \in 1..n : ds[k] = calls[k]
    BY <2>2, <2>4, <2>5, OneCall
  <2>7. content \in Seq(Symbol) /\ level \in Int /\ level' \in Int /\ level' >= 0
    <3>1. level' \in Int /\ level' >= -1 /\ content \in Seq(Symbol) /\ level \in Int
      BY DEF Types
    <3> QED BY <3>1
  <2>8. x = MarkOf(content, ds[n + 1]) /\ level + Opens(x) >= 0
    BY <2>2, <2>3, <2>6, <2>7
  <2>9. PICK l \in Int : l = level
    BY <2>7
  <2>10. PICK t \in Seq(Symbol) : t = content
    BY <2>7
  <2>11. PICK cs : cs = calls
    OBVIOUS
  <2>12. /\ LaidUpTo(t, cs, n, l) /\ \A k \in 1..n : ds[k] = cs[k]
         /\ x = MarkOf(t, ds[n + 1]) /\ IsMark(t, x) /\ lo = RestFrom(t, cs, n)
         /\ lo <= x.at /\ Gap(t, lo, x.at - 1) /\ l + Opens(x) >= 0
    BY <2>3, <2>4, <2>6, <2>8, <2>9, <2>10, <2>11
  <2>13. LaidUpTo(t, ds, n + 1, l + Opens(x)) /\ RestFrom(t, ds, n + 1) = x.to + 1
    BY <2>12, LaidGrows
  <2>14. LaidUpTo(content', calls', Len(calls'), level') /\ RestFrom(content', calls', Len(calls')) = x.to + 1
    BY <2>3, <2>5, <2>6, <2>9, <2>10, <2>13
  <2> QED BY <2>3, <2>14
<1> QED BY <1>1, <1>2

\* start

LEMMA ReadMoves ==
  ASSUME Types, NEW lo \in Nat, lo >= 1, TextBehind(lo), Read
  PROVE  Moved(lo)
<1>1. input = "READ"
  BY SignalFacts DEF Read, Signals
<1>2. lo <= p /\ p \in Nat /\ Gap(content, lo, p - 1) /\ Skipped(content, lo, p - 1) /\ ~InComment(content, lo, p)
  <2>1. p \in Nat /\ p - 1 + 1 = p
    BY DEF Types
  <2> QED BY <1>1, <2>1 DEF TextBehind, Gap
<1>3. /\ content' = content /\ calls' = calls /\ level' = level /\ input' = SignalOf(Char)
      /\ p' = IF Char = "nul" \/ input' \in {"NAME_CHAR", "ERROR"} THEN p ELSE p + 1
  BY DEF Read
<1>4. SUFFICES ASSUME input' # "ERROR" PROVE TextBehind(lo)'
  BY <1>3 DEF Moved, Stays
<1>5. CASE Char \in {"newline", "space"}
  <2>0. input' = "READ" /\ Char # "nul"
    BY <1>3, <1>5 DEF SignalOf, NameChars, Directive
  <2>1. input' = "READ" /\ p' = p + 1 /\ content[p] = Char
    BY <1>3, <2>0, CharFacts
  <2>2. Skipped(content, lo, p)
    BY <1>2, <1>5, <2>1, SkippedGrows
  <2>3. ~InComment(content, lo, p + 1)
    BY <1>2, <1>5, <2>1, InCommentGrows
  <2>4. lo <= p + 1 /\ p + 1 - 1 = p
    BY <1>2
  <2>5. Gap(content', lo, p' - 1) /\ lo <= p'
    BY <1>3, <2>1, <2>2, <2>3, <2>4 DEF Gap
  <2> QED BY <2>1, <2>5 DEF TextBehind, Handlers
<1>6. CASE Char = "close"
  <2>0. input' = "ENDCONTEXT" /\ Char # "nul"
    BY <1>3, <1>6 DEF SignalOf, NameChars, Directive
  <2>1. input' = "ENDCONTEXT" /\ p' = p + 1 /\ content[p] = Char
    BY <1>3, <2>0, CharFacts
  <2>2. p' - 1 = p /\ p' - 2 = p - 1 /\ lo < p'
    BY <1>2, <2>1
  <2> QED BY <1>2, <1>3, <1>6, <2>1, <2>2 DEF TextBehind, Handlers
<1>7. CASE Char = "nul"
  <2>1. input' = "END" /\ p' = p /\ p = Len(content) + 1
    BY <1>3, <1>7, CharFacts DEF SignalOf, NameChars, Directive
  <2>2. Len(content) = p - 1
    BY <2>1 DEF Types
  <2> QED BY <1>2, <1>3, <2>1, <2>2 DEF TextBehind, Handlers
<1>8. CASE Char = "comment"
  <2>0. input' = "COMMENT" /\ Char # "nul"
    BY <1>3, <1>8 DEF SignalOf, NameChars, Directive
  <2>1. input' = "COMMENT" /\ p' = p + 1 /\ content[p] = Char
    BY <1>3, <2>0, CharFacts
  <2>2. Skipped(content, lo, p)
    BY <1>2, <1>8, <2>1, SkippedGrows
  <2>3. p' - 1 = p /\ lo < p'
    BY <1>2, <2>1
  <2> QED BY <1>3, <1>8, <2>1, <2>2, <2>3 DEF TextBehind, Handlers
<1>9. CASE Char \in NameChars
  <2>1. input' = "NAME_CHAR" /\ p' = p /\ content[p] = Char /\ p <= Len(content)
    <3>1. Char # "nul" /\ input' = "NAME_CHAR"
      BY <1>3, <1>9 DEF SignalOf, NameChars, Directive
    <3>2. p \in 1..Len(content) /\ content[p] = Char
      BY <3>1, CharFacts
    <3> QED BY <1>3, <3>1, <3>2
  <2> QED BY <1>2, <1>3, <1>9, <2>1 DEF TextBehind, Handlers
<1>10. CASE Char \notin {"newline", "space", "close", "nul", "comment"} \cup NameChars
  BY <1>3, <1>4, <1>10 DEF SignalOf
<1> QED BY <1>5, <1>6, <1>7, <1>8, <1>9, <1>10

LEMMA CommentMoves ==
  ASSUME Types, NEW lo \in Nat, lo >= 1, TextBehind(lo), Comment
  PROVE  Moved(lo)
<1>1. input = "COMMENT"
  BY SignalFacts DEF Comment, Signals
<1>2. lo < p /\ p \in Nat /\ Skipped(content, lo, p - 1) /\ content[p - 1] = "comment"
  BY <1>1 DEF TextBehind, Types
<1>3. PICK q : q = LineEnd
  OBVIOUS
<1>4. /\ content' = content /\ calls' = calls /\ level' = level
      /\ IF q = Len(content) + 1 THEN p' = q /\ input' = "END" ELSE p' = q + 1 /\ input' = "READ"
  BY <1>3 DEF Comment, LineEnd
<1>5. /\ q \in p..Len(content) + 1 /\ q \in Nat /\ Len(content) \in Nat
      /\ q # Len(content) + 1 => content[q] = "newline"
      /\ \A i \in p..q - 1 : content[i] # "newline"
  <2>1. q \in p..Len(content) + 1 /\ Len(content) \in Nat
    BY <1>3, LineEndFacts DEF Types
  <2> QED BY <1>2, <1>3, <2>1, LineEndFacts
<1>6. ASSUME NEW k \in p..q PROVE InComment(content, lo, k)
  <2>1. p - 1 \in lo..k - 1
    BY <1>2, <1>5
  <2>2. \A l \in p - 1..k - 1 : l = p - 1 \/ l \in p..q - 1
    BY <1>2, <1>5
  <2>3. \A l \in p - 1..k - 1 : content[l] # "newline"
    BY <1>2, <1>5, <2>2
  <2> QED BY <1>2, <2>1, <2>3 DEF InComment
<1>7. Skipped(content, lo, q)
  <2>1. \A k \in lo..q : k \in lo..p - 1 \/ k \in p..q
    BY <1>2, <1>5
  <2> QED BY <1>2, <1>6, <2>1 DEF Skipped
<1>8. CASE q = Len(content) + 1
  <2>1. Skipped(content, lo, Len(content))
    <3>1. \A k \in lo..Len(content) : k \in lo..q
      BY <1>8
    <3> QED BY <1>7, <3>1 DEF Skipped
  <2> QED BY <1>4, <1>8, <2>1 DEF Moved, Stays, TextBehind, Handlers
<1>9. CASE q # Len(content) + 1
  <2>1. content[q] = "newline" /\ p' = q + 1 /\ input' = "READ" /\ q + 1 - 1 = q /\ lo <= q /\ lo <= q + 1
    BY <1>2, <1>4, <1>5, <1>9
  <2>2. ~InComment(content, lo, q + 1)
    <3>1. lo \in Int /\ q \in Int /\ lo <= q /\ content[q] = "newline"
      BY <1>5, <2>1
    <3> QED BY <3>1, InCommentGrows
  <2>3. Gap(content', lo, p' - 1) /\ lo <= p'
    <3>1. p' - 1 = q
      BY <1>5, <2>1
    <3> QED BY <1>4, <1>7, <2>1, <2>2, <3>1 DEF Gap
  <2> QED BY <1>4, <2>1, <2>3 DEF Moved, Stays, TextBehind, Handlers
<1> QED BY <1>8, <1>9

LEMMA EndContextMoves ==
  ASSUME Types, NEW lo \in Nat, lo >= 1, TextBehind(lo), EndContext
  PROVE  Moved(lo)
<1>1. input = "ENDCONTEXT"
  BY SignalFacts DEF EndContext, Signals
<1>2. CASE level = 0
  BY <1>2 DEF EndContext, Moved
<1>3. CASE level # 0
  <2>1. /\ content' = content /\ p' = p /\ input' = "READ" /\ level' = level - 1
        /\ calls' = Append(calls, [what |-> "end", at |-> p - 1])
    BY <1>3 DEF EndContext
  <2>2. lo < p /\ Gap(content, lo, p - 2) /\ content[p - 1] = "close" /\ p \in Nat
        /\ Len(content) \in Nat /\ p <= Len(content) + 1 /\ level \in Int
    BY <1>1 DEF TextBehind, Types
  <2>3. PICK q \in Nat : q = p - 1
    BY <2>2
  <2>4. q + 1 = p /\ q \in 1..Len(content) /\ q - 1 = p - 2 /\ lo <= q /\ q \in q..Len(content)
    <3>1. lo >= 0 /\ q >= lo /\ content[q] = "close"
      BY <2>2, <2>3
    <3> QED BY <2>2, <2>3, <3>1
  <2>5. PICK c \in Calling : c = [what |-> "end", at |-> q]
    BY DEF Calling
  <2>6. PICK x : x = MarkOf(content, c)
    OBVIOUS
  <2>7. x = [at |-> q, call |-> c, to |-> q]
    BY <2>5, <2>6 DEF MarkOf
  <2>8. IsMark(content, x) /\ Opens(x) = -1
    BY <2>2, <2>3, <2>4, <2>5, <2>7 DEF IsMark, EndMark, Opens
  <2>9. level' = level + Opens(x)
    BY <2>1, <2>2, <2>8
  <2>10. TextBehind(x.to + 1)'
    <3>1. x.to + 1 = p /\ Gap(content, p, p - 1) /\ p <= p
      BY <2>2, <2>4, <2>7, GapEmpty
    <3> QED BY <2>1, <3>1 DEF TextBehind, Handlers
  <2>11. lo <= x.at /\ Gap(content, lo, x.at - 1)
    BY <2>2, <2>4, <2>7
  <2>12. calls' = Append(calls, c)
    BY <2>1, <2>3, <2>5
  <2>13. Grows(lo)
    BY <2>6, <2>8, <2>9, <2>10, <2>11, <2>12 DEF Grows
  <2> QED BY <2>13 DEF Moved
<1> QED BY <1>2, <1>3

\* A handler goes on with its directive.
LEMMA GoesOn ==
  ASSUME NEW lo, TextBehind(lo), input \in Handlers, content' = content, calls' = calls,
         level' = level, at' = at, input' \in Handlers \cup {"NEWCONTEXT"}, InDirective'
  PROVE  Moved(lo)
<1>1. lo <= at /\ Gap(content, lo, at - 1)
  BY DEF TextBehind
<1> QED BY <1>1 DEF Moved, Stays, TextBehind, Handlers

\* ... over a blank or a character of a comment.
LEMMA PassedMoves ==
  ASSUME Types, NEW lo \in Nat, Passed(lo), NEW next, Blank(next), next \in {0, 1},
         content' = content, p' = p + 1, status' = next
  PROVE  Passed(lo)'
<1>1. lo <= p /\ p \in Nat /\ Skipped(content, lo, p - 1) /\ (status = 1 <=> InComment(content, lo, p))
  BY DEF Passed, Types
<1>2. /\ Char = content[p] /\ status \in {0, 1}
      /\ status = 1 \/ content[p] \in {"space", "newline", "comment"}
      /\ next = 1 <=> content[p] # "newline" /\ (status = 1 \/ content[p] = "comment")
  BY CharFacts DEF Blank
<1>3. Skipped(content, lo, p)
  BY <1>1, <1>2, SkippedGrows
<1>4. next = 1 <=> InComment(content, lo, p + 1)
  BY <1>1, <1>2, InCommentGrows
<1>5. p' - 1 = p /\ lo <= p'
  BY <1>1
<1>6. Skipped(content', lo, p' - 1)
  BY <1>3, <1>5
<1>7. status' = 1 <=> InComment(content', lo, p')
  BY <1>4
<1> QED BY <1>5, <1>6, <1>7 DEF Passed

\* Outside of a comment there is a gap behind.
LEMMA PassedGap ==
  ASSUME Types, NEW lo \in Nat, Passed(lo), status = 0
  PROVE  lo <= p /\ Gap(content, lo, p - 1)
<1>1. p - 1 + 1 = p
  BY DEF Types
<1> QED BY <1>1 DEF Passed, Gap

LEMMA PassedStarts == ASSUME NEW lo \in Nat, p = lo, status = 0 PROVE Passed(lo)
BY GapEmpty, InCommentEmpty DEF Passed

LEMMA ContextMoves ==
  ASSUME Types, NEW lo \in Nat, lo >= 1, level # -1, TextBehind(lo), Context
  PROVE  Moved(lo)
<1>1. input = "context" /\ status \in {0, 1}
  BY DEF Context, Types
<1>2. /\ InDirective /\ type = "context" /\ name = <<>> /\ start = 0 /\ Passed(at + 1)
      /\ at \in Places /\ at \in Nat /\ at + 1 \in Nat
  BY <1>1 DEF TextBehind, Handlers, InDirective, Types
<1>3. PICK next : next = Look(ContextTrans, ContextColumn)
  OBVIOUS
<1>4. /\ p' = (IF next = 3 THEN p ELSE p + 1) /\ status' = next
      /\ next = 2 => input' = "NEWCONTEXT"
      /\ next = 3 => input' = "ERROR"
      /\ next \notin {2, 3} => input' = input
      /\ content' = content /\ type' = type /\ name' = name /\ start' = start /\ level' = level
      /\ at' = at /\ calls' = calls
  BY <1>3 DEF Context, Returns
<1>5. next \in 0..3 /\ (Char = "nul" => next = 3) /\ Blank(next) /\ (next = 2 => status = 0 /\ Char = "open")
  BY <1>1, <1>3, ContextTurn, ContextOnly
<1>6. CASE next \in {0, 1}
  <2>1. Passed(at + 1)'
    <3>1. p' = p + 1
      BY <1>4, <1>6
    <3>2. PICK l \in Nat : l = at + 1
      BY <1>2
    <3>3. Passed(l)'
      BY <1>2, <1>4, <1>5, <1>6, <3>1, <3>2, PassedMoves
    <3> QED BY <1>4, <3>2, <3>3
  <2>2. input' = "context" /\ InDirective'
    BY <1>1, <1>2, <1>4, <1>6, <2>1 DEF InDirective, Places
  <2> QED BY <1>1, <1>4, <2>2, GoesOn DEF Handlers
<1>7. CASE next = 2
  <2>1. status = 0 /\ Char = "open" /\ p' = p + 1 /\ input' = "NEWCONTEXT"
    BY <1>4, <1>5, <1>7
  <2>2. content[p] = "open" /\ p \in Nat
    BY <2>1, CharFacts DEF Types
  <2>3. at + 1 <= p /\ Gap(content, at + 1, p - 1)
    BY <1>2, <2>1, PassedGap
  <2>4. p' - 1 = p /\ p' - 2 = p - 1 /\ at < p' - 1
    BY <1>2, <2>1, <2>2, <2>3
  <2>5. InDirective'
    BY <1>2, <1>4, <2>1, <2>2, <2>3, <2>4 DEF InDirective, Places
  <2> QED BY <1>1, <1>4, <2>1, <2>5, GoesOn DEF Handlers
<1>8. CASE next = 3
  BY <1>4, <1>8 DEF Moved
<1> QED BY <1>5, <1>6, <1>7, <1>8

LEMMA NewContextMoves ==
  ASSUME Types, NEW lo \in Nat, lo >= 1, level # -1, TextBehind(lo), NewContext
  PROVE  Moved(lo)
<1>1. input = "NEWCONTEXT"
  BY SignalFacts DEF NewContext, Signals
<1>2. /\ lo <= at /\ Gap(content, lo, at - 1) /\ at \in Places
      /\ type = (IF content[at] \in Directive THEN content[at] ELSE "raw")
      /\ type = "context" /\ name = <<>> /\ start = 0
      /\ at < p - 1 /\ Gap(content, at + 1, p - 2) /\ content[p - 1] = "open"
  BY <1>1 DEF TextBehind, InDirective
<1>3. content[at] = "context"
  BY <1>2
<1>4. /\ content' = content /\ p' = p /\ input' = "READ" /\ level' = level + 1
      /\ calls' = Append(calls, [what |-> type, name |-> name, at |-> at, start |-> start, end |-> p - 1])
  BY <1>2 DEF NewContext, Called
<1>5. /\ p \in Nat /\ p <= Len(content) + 1 /\ Len(content) \in Nat /\ at \in Nat
      /\ at \in 1..Len(content) /\ level \in Int
  BY <1>2 DEF Types, Places
<1>6. PICK q \in Nat : q = p - 1
  BY <1>2, <1>5
<1>7. q + 1 = p /\ q \in at..Len(content) /\ at < q /\ q - 1 = p - 2
  BY <1>2, <1>5, <1>6
<1>8. PICK c : c = [what |-> "context", name |-> <<>>, at |-> at, start |-> 0, end |-> q]
  OBVIOUS
<1>9. c \in Calling
  BY <1>5, <1>8 DEF Calling, Named, Directive
<1>10. PICK x : x = MarkOf(content, c)
  OBVIOUS
<1>11. x.at = at /\ x.to = q /\ x.call = c
  BY <1>2, <1>6, <1>8, <1>10 DEF MarkOf
<1>12. ContextMark(content, x)
  BY <1>2, <1>3, <1>6, <1>7, <1>8, <1>11 DEF ContextMark, Says
<1>13. IsMark(content, x) /\ Opens(x) = 1
  BY <1>5, <1>7, <1>8, <1>11, <1>12 DEF IsMark, Opens
<1>14. TextBehind(x.to + 1)'
  <2>1. x.to + 1 = p /\ Gap(content, p, p - 1) /\ p <= p
    BY <1>5, <1>7, <1>11, GapEmpty
  <2> QED BY <1>4, <2>1 DEF TextBehind, Handlers
<1>15. calls' = Append(calls, c)
  BY <1>2, <1>4, <1>6, <1>8
<1>16. Grows(lo)
  BY <1>2, <1>4, <1>9, <1>10, <1>11, <1>13, <1>14, <1>15 DEF Grows
<1> QED BY <1>16 DEF Moved

LEMMA ReadOrderMoves ==
  ASSUME Types, NEW lo \in Nat, lo >= 1, level # -1, TextBehind(lo), ReadOrder
  PROVE  Moved(lo)
<1>1. input = "NAME_CHAR"
  BY SignalFacts DEF ReadOrder, Signals
<1>2. lo <= p /\ p <= Len(content) /\ Gap(content, lo, p - 1) /\ content[p] \in NameChars
      /\ p \in Nat /\ p >= 1 /\ Len(content) \in Nat
  BY <1>1 DEF TextBehind, Types
<1>3. Char = content[p]
  BY <1>2 DEF Char
<1>4. /\ content' = content /\ calls' = calls /\ level' = level /\ at' = p /\ name' = <<>>
      /\ start' = 0 /\ end' = 0 /\ status' = 0 /\ depth' = 0
      /\ type' = (IF content[p] \in Directive THEN content[p] ELSE "raw")
      /\ p' = (IF content[p] \in Directive THEN p + 1 ELSE p)
      /\ input' = CASE type' \in {"raw", "make"} -> "line" [] type' = "context" -> "context"
                    [] OTHER -> "name"
  BY <1>3 DEF ReadOrder
<1>5. type' \in Directive
  BY <1>4 DEF Directive
<1>6. input' \in Handlers
  BY <1>4 DEF Handlers
<1>7. p' \in Spots' /\ p \in Places' /\ p + 1 \in Spots' /\ p' \in Nat
  <2>1. p' \in Nat /\ p' \in 1..Len(content) + 1 /\ p \in 1..Len(content) /\ p + 1 \in 1..Len(content) + 1
    BY <1>2, <1>4
  <2> QED BY <1>4, <2>1 DEF Spots, Places
<1>q. PICK q \in Nat : q = p'
  BY <1>7
<1>p. Passed(q)'
  <2>1. /\ q <= q /\ Skipped(content, q, q - 1) /\ ~InComment(content, q, q)
    BY GapEmpty, InCommentEmpty
  <2> QED BY <1>4, <1>q, <2>1 DEF Passed
<1>8. CASE type' \in {"raw", "make"}
  <2>1. input' = "line"
    BY <1>4, <1>8
  <2>2. HeadRead(q)'
    BY <1>4, <1>8, <1>q DEF HeadRead
  <2>3. content[p] \notin Directive => p' = at'
    BY <1>4
  <2>4. LineSoFar(q, q)'
    BY <1>4, <1>p, <1>8, <2>2, <2>3 DEF LineSoFar
  <2>5. InDirective'
    <3>1. \E a, b \in Spots' : LineSoFar(a, b)'
      BY <1>7, <1>q, <2>4
    <3> QED BY <1>2, <1>4, <1>7, <2>1, <3>1 DEF InDirective
  <2> QED BY <1>2, <1>4, <1>6, <2>1, <2>5 DEF Moved, Stays, TextBehind, Handlers
<1>9. CASE type' = "context"
  <2>1. input' = "context" /\ p' = p + 1 /\ content[p] = "context"
    BY <1>4, <1>9 DEF Directive
  <2>2. Passed(at + 1)'
    BY <1>4, <1>p, <1>q, <2>1
  <2>3. InDirective'
    BY <1>2, <1>4, <1>7, <1>9, <2>1, <2>2 DEF InDirective
  <2> QED BY <1>2, <1>4, <1>6, <2>1, <2>3 DEF Moved, Stays, TextBehind, Handlers
<1>10. CASE type' \notin {"raw", "make", "context"}
  <2>1. input' = "name" /\ p' = p + 1 /\ content[p] \in Directive
    BY <1>4, <1>10
  <2>2. NameSoFar(q)'
    <3>1. Spaces(content, q, q - 1) /\ p < q /\ at' = p /\ p + 1 = q
      <4>1. q..q - 1 = {} /\ p < q /\ p + 1 = q
        BY <1>2, <1>q, <2>1
      <4> QED BY <1>4, <4>1 DEF Spaces
    <3> QED BY <1>4, <1>q, <3>1 DEF NameSoFar
  <2>3. InDirective'
    <3>1. \E l \in Spots' : NameSoFar(l)'
      BY <1>7, <1>q, <2>2
    <3> QED BY <1>2, <1>4, <1>7, <2>1, <3>1 DEF InDirective
  <2> QED BY <1>2, <1>4, <1>6, <2>1, <2>3 DEF Moved, Stays, TextBehind, Handlers
<1> QED BY <1>8, <1>9, <1>10

\* A handler comes to the end of its directive.
LEMMA CallGrows ==
  ASSUME Types, NEW lo \in Nat, TextBehind(lo), input \in Handlers, content' = content, level' = level,
         NEW last, Decides(last), NEW c \in Calling, c = Made(last), type \notin {"context", "end"},
         NEW x, x = MarkOf(content, c), IsMark(content, x), p' = x.to + 1
  PROVE  Moved(lo)
<1>1. CASE error
  BY <1>1 DEF Decides, Returns, Moved
<1>2. CASE ~error
  <2>1. input' = "call" /\ calls' = Append(calls, c)
    BY <1>2 DEF Decides, Returns, Made
  <2>2. x.at = at /\ x.call = c /\ x.call.what = type
    BY DEF MarkOf, Made
  <2>3. lo <= x.at /\ Gap(content, lo, x.at - 1)
    BY <2>2 DEF TextBehind
  <2>4. Opens(x) = 0 /\ level' = level + Opens(x)
    <3>1. Opens(x) = 0
      BY <2>2 DEF Opens
    <3> QED BY <3>1 DEF Types
  <2>5. TextBehind(x.to + 1)'
    <3>1. PICK q : q = x.to + 1
      OBVIOUS
    <3>2. q \in Nat
      BY <3>1 DEF IsMark, Types
    <3>3. q <= q /\ Gap(content, q, q - 1)
      BY <3>2, GapEmpty
    <3>4. TextBehind(q)'
      BY <2>1, <3>1, <3>3 DEF TextBehind, Handlers
    <3> QED BY <3>1, <3>4
  <2>6. Grows(lo)
    BY <2>1, <2>3, <2>4, <2>5 DEF Grows
  <2> QED BY <2>6 DEF Moved
<1> QED BY <1>1, <1>2

LEMMA SpacesGrow ==
  ASSUME NEW t, NEW i \in Int, NEW k \in Int, Spaces(t, i, k - 1), t[k] = "space"
  PROVE  Spaces(t, i, k)
<1>1. \A l \in i..k : l \in i..k - 1 \/ l = k
  OBVIOUS
<1> QED BY <1>1 DEF Spaces

LEMMA NoSpaces == ASSUME NEW t, NEW i \in Int PROVE Spaces(t, i, i - 1)
<1>1. i..i - 1 = {}
  OBVIOUS
<1> QED BY <1>1 DEF Spaces

\* Within the brackets.
LEMMA NameGoesOn ==
  ASSUME Types, NEW l \in Nat, NameSoFar(l), status \in 0..3,
         NEW next, next = IF NameColumn = 4 THEN 5 ELSE Look(NameTrans, NameColumn), next \notin {4, 5},
         content' = content, p' = p + 1, at' = at, status' = next,
         start' = IF status = 1 /\ next = 2 THEN p ELSE start,
         end' = IF status = 2 /\ next = 3 THEN p ELSE end
  PROVE  \E k \in Spots' : NameSoFar(k)'
<1>0. p \in Nat /\ p >= 1 /\ content[p] = Char /\ p <= Len(content) /\ at \in Nat /\ start \in Nat
      /\ end \in Nat /\ Len(content) \in Nat /\ at < l /\ p + 1 - 1 = p /\ p < p + 1
      /\ l <= p
  <2>1. p \in 1..Len(content) /\ content[p] = Char
    BY NameOnly, CharFacts
  <2> QED BY <2>1 DEF Types, NameSoFar
<1>3. p + 1 \in Spots' /\ l \in Spots'
  BY <1>0 DEF Spots
<1>1. ASSUME status = 0, next = 0 PROVE \E k \in Spots' : NameSoFar(k)'
  <2>1. Spaces(content, at + 1, p) /\ start = 0 /\ end = 0 /\ at < p + 1
    BY <1>0, <1>1, NameOnly, SpacesGrow DEF NameSoFar
  <2>2. PICK k : k = p + 1
    OBVIOUS
  <2>3. NameSoFar(k)'
    BY <1>0, <1>1, <2>1, <2>2 DEF NameSoFar
  <2> QED BY <1>3, <2>2, <2>3
<1>2. ASSUME ~(status = 0 /\ next = 0) PROVE NameSoFar(l)'
  <2>1. CASE status = 0
    <3>1. next = 1 /\ content[p] = "lparen" /\ l = p /\ Spaces(content, at + 1, p - 1) /\ start = 0 /\ end = 0
      BY <1>0, <1>2, <2>1, NameOnly DEF NameSoFar
    <3>2. Spaces(content, l + 1, p' - 1)
      <4>1. p' - 1 = l + 1 - 1 /\ l + 1 \in Int
        BY <1>0, <3>1
      <4> QED BY <4>1, NoSpaces
    <3> QED BY <1>0, <2>1, <3>1, <3>2 DEF NameSoFar
  <2>2. CASE status = 1
    <3>1. /\ l < p /\ Spaces(content, at + 1, l - 1) /\ content[l] = "lparen"
          /\ Spaces(content, l + 1, p - 1) /\ start = 0 /\ end = 0
      BY <2>2 DEF NameSoFar
    <3>2. CASE next = 1
      <4>1. Spaces(content, l + 1, p)
        BY <1>0, <2>2, <3>1, <3>2, NameOnly, SpacesGrow
      <4> QED BY <1>0, <2>2, <3>1, <3>2, <4>1 DEF NameSoFar
    <3>3. CASE next = 2
      <4>1. content[p] \in NameChars /\ \A i \in p..p' - 1 : i = p
        BY <1>0, <3>3, NameOnly
      <4> QED BY <1>0, <2>2, <3>1, <3>3, <4>1 DEF NameSoFar
    <3> QED BY <2>2, <3>2, <3>3, NameOnly
  <2>3. CASE status = 2
    <3>1. /\ l < p /\ Spaces(content, at + 1, l - 1) /\ content[l] = "lparen"
          /\ l < start /\ Spaces(content, l + 1, start - 1)
          /\ start < p /\ end = 0 /\ \A i \in start..p - 1 : content[i] \in NameChars
      BY <2>3 DEF NameSoFar
    <3>2. CASE next = 2
      <4>1. content[p] \in NameChars /\ \A i \in start..p' - 1 : i = p \/ i \in start..p - 1
        BY <1>0, <3>2, NameOnly
      <4> QED BY <1>0, <2>3, <3>1, <3>2, <4>1 DEF NameSoFar
    <3>3. CASE next = 3
      <4>1. content[p] = "space" /\ Spaces(content, p, p - 1)
        BY <1>0, <3>3, NameOnly, NoSpaces
      <4>2. Spaces(content, p, p)
        BY <1>0, <4>1, SpacesGrow
      <4> QED BY <1>0, <2>3, <3>1, <3>3, <4>2 DEF NameSoFar
    <3> QED BY <2>3, <3>2, <3>3, NameOnly
  <2>4. CASE status = 3
    <3>1. /\ l < p /\ Spaces(content, at + 1, l - 1) /\ content[l] = "lparen"
          /\ l < start /\ Spaces(content, l + 1, start - 1)
          /\ start < end /\ end < p /\ Spaces(content, end, p - 1)
          /\ \A i \in start..end - 1 : content[i] \in NameChars
      BY <2>4 DEF NameSoFar
    <3>2. next = 3 /\ content[p] = "space"
      BY <1>0, <2>4, NameOnly
    <3>3. Spaces(content, end, p)
      BY <1>0, <3>1, <3>2, SpacesGrow
    <3> QED BY <1>0, <2>4, <3>1, <3>2, <3>3 DEF NameSoFar
  <2> QED BY <2>1, <2>2, <2>3, <2>4
<1> QED BY <1>1, <1>2, <1>3

\* At the closing bracket.
LEMMA NameEnds ==
  ASSUME Types, NEW l \in Nat, NameSoFar(l), status \in 1..3, content[p] = "rparen", p <= Len(content),
         NEW to, to = IF status = 2 THEN p ELSE end,
         NEW n, IF start # 0 /\ to # 0 THEN n = SubSeq(content, start, to - 1) ELSE n = <<>>
  PROVE  \E a, b \in Places : /\ l < a /\ a <= b /\ b <= p /\ NameAt(content, at + 1, l, a, b, p)
                              /\ n = SubSeq(content, a, b - 1) /\ (start # 0 /\ to # 0 <=> a < b)
<1>0. p \in Nat /\ p >= 1 /\ at \in Nat /\ start \in Nat /\ end \in Nat /\ Len(content) \in Nat /\ at < l
      /\ l < p /\ Spaces(content, at + 1, l - 1) /\ content[l] = "lparen" /\ content \in Seq(Symbol)
      /\ p \in Places
  BY DEF Types, NameSoFar, Places
<1>1. CASE status = 1
  <2>1. Spaces(content, l + 1, p - 1) /\ start = 0 /\ Spaces(content, p, p - 1)
    BY <1>0, <1>1, NoSpaces DEF NameSoFar
  <2>2. \A k \in p..p - 1 : content[k] \in NameChars
    BY <1>0
  <2>3. NameAt(content, at + 1, l, p, p, p)
    BY <1>0, <2>1, <2>2 DEF NameAt
  <2>4. SubSeq(content, p, p - 1) = <<>>
    BY <1>0
  <2>5. n = SubSeq(content, p, p - 1) /\ ~(start # 0 /\ to # 0) /\ p <= p /\ ~(p < p)
    BY <1>0, <2>1, <2>4
  <2> QED BY <1>0, <2>3, <2>5
<1>2. CASE status = 2
  <2>1. /\ l < start /\ Spaces(content, l + 1, start - 1)
        /\ start < p /\ \A i \in start..p - 1 : content[i] \in NameChars
    BY <1>2 DEF NameSoFar
  <2>2. Spaces(content, p, p - 1) /\ start \in Places /\ start # p /\ start # 0 /\ p # 0
    BY <1>0, <2>1, NoSpaces DEF Places
  <2>3. NameAt(content, at + 1, l, start, p, p)
    BY <1>0, <2>1, <2>2 DEF NameAt
  <2>4. start # 0 /\ to # 0 /\ n = SubSeq(content, start, p - 1) /\ p <= p /\ start <= p
    BY <1>0, <1>2, <2>1, <2>2
  <2> QED BY <1>0, <2>1, <2>2, <2>3, <2>4
<1>3. CASE status = 3
  <2>1. /\ l < start /\ Spaces(content, l + 1, start - 1)
        /\ start < end /\ end < p /\ Spaces(content, end, p - 1)
        /\ \A i \in start..end - 1 : content[i] \in NameChars
    BY <1>3 DEF NameSoFar
  <2>2. start \in Places /\ end \in Places /\ start # end /\ start # 0 /\ end # 0
    BY <1>0, <2>1 DEF Places
  <2>3. NameAt(content, at + 1, l, start, end, p)
    BY <1>0, <2>1, <2>2 DEF NameAt
  <2>4. start # 0 /\ to # 0 /\ n = SubSeq(content, start, end - 1) /\ end <= p /\ start <= end
    BY <1>0, <1>3, <2>1, <2>2
  <2> QED BY <1>0, <2>1, <2>2, <2>3, <2>4
<1>4. status = 1 \/ status = 2 \/ status = 3
  OBVIOUS
<1> QED BY <1>1, <1>2, <1>3, <1>4

LEMMA ReadNameMoves ==
  ASSUME Types, NEW lo \in Nat, lo >= 1, level # -1, TextBehind(lo), ReadName
  PROVE  Moved(lo)
<1>1. input = "name" /\ status \in 0..3 /\ type \in {"defdir", "noextend", "undefdir", "unnoextend"}
  BY DEF ReadName, Types
<1>2. /\ InDirective /\ at \in Places /\ at \in 1..Len(content) /\ at \in Nat
      /\ type = (IF content[at] \in Directive THEN content[at] ELSE "raw")
  BY <1>1 DEF TextBehind, Handlers, InDirective, Places
<1>3. PICK l \in Nat : NameSoFar(l)
  <2>1. PICK l \in Spots : NameSoFar(l)
    BY <1>1, <1>2 DEF InDirective
  <2>2. l \in Nat
    BY DEF Spots, Types
  <2> QED BY <2>1, <2>2
<1>4. PICK next : next = IF NameColumn = 4 THEN 5 ELSE Look(NameTrans, NameColumn)
  OBVIOUS
<1>5. PICK from : from = IF status = 1 /\ next = 2 THEN p ELSE start
  OBVIOUS
<1>6. PICK to : to = IF status = 2 /\ next \in {3, 4} THEN p ELSE end
  OBVIOUS
<1>7. PICK n : n = IF next = 4 /\ from # 0 /\ to # 0 THEN SubSeq(content, from, to - 1) ELSE <<>>
  OBVIOUS
<1>8. /\ p' = (IF NameColumn = 4 THEN p ELSE p + 1) /\ name' = n
      /\ start' = (IF next \in {4, 5} THEN 0 ELSE from)
      /\ end' = (IF next \in {4, 5} THEN 0 ELSE to)
      /\ status' = (IF next \in {4, 5} THEN 0 ELSE next)
      /\ next \notin {4, 5} => input' = input /\ error' = error /\ calls' = calls
      /\ next = 5 => input' = "ERROR"
      /\ next = 4 => IF type \in {"undefdir", "unnoextend"}
                     THEN IF from # 0 /\ to # 0 THEN Decides(p' - 1) ELSE input' = "ERROR"
                     ELSE input' = "block" /\ calls' = calls
      /\ content' = content /\ type' = type /\ level' = level /\ at' = at
  BY <1>1, <1>4, <1>5, <1>6, <1>7 DEF ReadName, Returns
<1>9. next # 5 => NameColumn # 4 /\ Char # "nul"
  BY <1>1, <1>4, NameOnly
<1>10. CASE next = 5
  BY <1>8, <1>10 DEF Moved
<1>11. CASE next \notin {4, 5}
  <2>1. p' = p + 1 /\ status' = next /\ input' = "name" /\ calls' = calls
    BY <1>1, <1>8, <1>9, <1>11
  <2>2. \E k \in Spots' : NameSoFar(k)'
    BY <1>1, <1>3, <1>4, <1>5, <1>6, <1>8, <1>11, <2>1, NameGoesOn
  <2>3. InDirective'
    BY <1>1, <1>2, <1>8, <2>1, <2>2 DEF InDirective, Places
  <2> QED BY <1>1, <1>8, <2>1, <2>3, GoesOn DEF Handlers
<1>12. CASE next = 4
  <2>1. /\ p' = p + 1 /\ content[p] = "rparen" /\ p \in 1..Len(content) /\ p \in Nat /\ p + 1 - 1 = p
        /\ p <= Len(content) /\ status \in 1..3 /\ Len(content) \in Nat
    <3>1. Char = "rparen" /\ status \in 1..3
      BY <1>1, <1>4, <1>12, NameOnly
    <3>2. p \in 1..Len(content) /\ content[p] = "rparen"
      BY <3>1, CharFacts
    <3> QED BY <1>8, <1>9, <1>12, <3>1, <3>2 DEF Types
  <2>2. from = start /\ to = IF status = 2 THEN p ELSE end
    BY <1>5, <1>6, <1>12
  <2>3. n = IF from # 0 /\ to # 0 THEN SubSeq(content, from, to - 1) ELSE <<>>
    BY <1>7, <1>12
  <2>4. \E a, b \in Places : /\ l < a /\ a <= b /\ b <= p /\ NameAt(content, at + 1, l, a, b, p)
                             /\ n = SubSeq(content, a, b - 1) /\ (from # 0 /\ to # 0 <=> a < b)
    <3>1. IF start # 0 /\ to # 0 THEN n = SubSeq(content, start, to - 1) ELSE n = <<>>
      BY <2>2, <2>3
    <3>2. to = IF status = 2 THEN p ELSE end
      BY <2>2
    <3>3. \E a, b \in Places : /\ l < a /\ a <= b /\ b <= p /\ NameAt(content, at + 1, l, a, b, p)
                               /\ n = SubSeq(content, a, b - 1) /\ (start # 0 /\ to # 0 <=> a < b)
      BY <1>3, <2>1, <3>1, <3>2, NameEnds
    <3> QED BY <2>2, <3>3
  <2>5. PICK a \in Places : \E b \in Places :
                             /\ l < a /\ a <= b /\ b <= p /\ NameAt(content, at + 1, l, a, b, p)
                             /\ n = SubSeq(content, a, b - 1) /\ (from # 0 /\ to # 0 <=> a < b)
    BY <2>4
  <2>6. PICK b \in Places :  /\ l < a /\ a <= b /\ b <= p /\ NameAt(content, at + 1, l, a, b, p)
                             /\ n = SubSeq(content, a, b - 1) /\ (from # 0 /\ to # 0 <=> a < b)
    BY <2>5
  <2>7. at < l /\ a \in Nat /\ b \in Nat /\ l \in Places /\ l \in at + 1..p /\ a \in l + 1..p /\ b \in a..p
        /\ p \in at..Len(content) /\ p \in b..p
    <3>1. at < l /\ a \in Nat /\ b \in Nat
      BY <1>3, <2>1 DEF NameSoFar, Places
    <3> QED BY <1>2, <2>1, <2>6, <3>1 DEF Places
  <2>8. CASE type \in {"undefdir", "unnoextend"}
    <3>1. CASE ~(from # 0 /\ to # 0)
      BY <1>8, <1>12, <2>8, <3>1 DEF Moved
    <3>2. CASE from # 0 /\ to # 0
      <4>1. Decides(p) /\ start' = 0 /\ a < b
        BY <1>8, <1>12, <2>1, <2>6, <2>8, <3>2
      <4>2. PICK c : c = Made(p)
        OBVIOUS
      <4>3. c \in Calling
        <5>1. n \in Seq(Symbol)
          BY <1>8, NameIsCut
        <5> QED BY <1>1, <1>2, <1>8, <2>1, <4>1, <4>2, <5>1 DEF Made, Calling, Named, Directive
      <4>4. PICK x : x = MarkOf(content, c)
        OBVIOUS
      <4>5. x.at = at /\ x.to = p /\ x.call = c
        BY <1>1, <2>1, <4>2, <4>4 DEF Made, MarkOf
      <4>6. content[at] = type /\ Says(x, type, SubSeq(content, a, b - 1), 0, p)
        BY <1>1, <1>2, <1>8, <2>6, <4>1, <4>2, <4>5 DEF Made, Says
      <4>7. UndefMark(content, x)
        BY <2>6, <2>7, <2>8, <4>1, <4>5, <4>6 DEF UndefMark
      <4>8. IsMark(content, x)
        BY <1>2, <2>7, <4>5, <4>7 DEF IsMark
      <4>9. p' = x.to + 1
        BY <2>1, <4>5
      <4> QED BY <1>1, <1>8, <4>1, <4>2, <4>3, <4>4, <4>8, <4>9, CallGrows DEF Handlers
    <3> QED BY <3>1, <3>2
  <2>9. CASE type \in {"defdir", "noextend"}
    <3>1. input' = "block" /\ calls' = calls /\ status' = 0 /\ start' = 0
      BY <1>8, <1>12, <2>9
    <3>2. PICK q \in Nat : q = p + 1 /\ q - 1 = p
      BY <2>1
    <3>3. Passed(q)'
      <4>1. q <= q /\ Skipped(content, q, q - 1) /\ ~InComment(content, q, q)
        BY GapEmpty, InCommentEmpty
      <4> QED BY <1>8, <2>1, <3>1, <3>2, <4>1 DEF Passed
    <3>4. HeadRead(q)'
      <4>1. l \in Places' /\ a \in Places' /\ b \in Places' /\ b < q
        BY <1>8, <2>6, <2>7, <3>2 DEF Places
      <4>2. NameAt(content', at' + 1, l, a, b, q - 1) /\ name' = SubSeq(content', a, b - 1)
        BY <1>8, <2>6, <3>2
      <4> QED BY <1>8, <2>6, <2>7, <2>9, <4>1, <4>2 DEF HeadRead
    <3>5. BlockSoFar(q)'
      <4>1. content[at] \in Directive
        BY <1>2, <2>9
      <4> QED BY <1>8, <3>1, <3>3, <3>4, <4>1 DEF BlockSoFar
    <3>6. InDirective'
      <4>1. q \in Spots'
        BY <1>8, <2>1, <3>2 DEF Spots
      <4> QED BY <1>2, <1>8, <3>1, <3>5, <4>1 DEF InDirective, Places
    <3> QED BY <1>1, <1>8, <3>1, <3>6, GoesOn DEF Handlers
  <2> QED BY <1>1, <2>8, <2>9
<1> QED BY <1>10, <1>11, <1>12

\* The brace that closes a block is not escaped.
LEMMA BlockCloses ==
  ASSUME Types, SpanInv, Block, NEW next, next = Look(BlockTrans, BlockColumn), next = 2, depth' = 0
  PROVE  status = 2 /\ Char = "close" /\ depth = 1
<1>1. status \in 0..3 /\ depth \in Int /\ input = "block"
  BY DEF Block, Types
<1>2. depth' = IF status = 0 /\ next = 2 THEN depth + 1
               ELSE depth + (IF status = 2 /\ next = 2 /\ Char = "open" THEN 1
                             ELSE IF status = 2 /\ next = 2 /\ Char = "close" THEN -1 ELSE 0)
  BY DEF Block
<1>3. CASE status \in {0, 1}
  <2>1. depth = 0 /\ status # 1
    BY <1>1, <1>3, BlockTurn DEF SpanInv
  <2> QED BY <1>2, <1>3, <2>1
<1>4. CASE status \in {2, 3}
  <2>1. depth >= 1
    BY <1>1, <1>4 DEF SpanInv, InBlock
  <2> QED BY <1>1, <1>2, <2>1
<1> QED BY <1>1, <1>3, <1>4

\* The text of a block is read, and with it the directive.
LEMMA BlockIsMark ==
  ASSUME Types, NEW lo \in Nat, BlockSoFar(lo), InDirective, status = 2,
         NEW c, c = Made(p), Fits(c), content[p] = "close", start' = start, name' = name,
         NEW x, x = MarkOf(content, c)
  PROVE  IsMark(content, x) /\ x.to = p /\ c \in Calling
<1>1. /\ content[at] \in Directive /\ HeadRead(lo) /\ type = content[at] /\ at \in 1..Len(content)
      /\ lo < start /\ start <= p /\ Gap(content, lo, start - 2) /\ content[start - 1] = "open"
  BY DEF BlockSoFar, InDirective, Places
<1>2. x.at = at /\ x.to = p /\ x.call = c /\ c.start = start /\ c.end = p
  BY <1>1 DEF Made, MarkOf, Directive
<1>3. Says(x, type, name, start, p)
  BY <1>2 DEF Made, Says
<1>4. p <= Len(content) /\ Balanced(SubSeq(content, start, p - 1))
  BY <1>2 DEF Fits, TextOf
<1>5. BlockAt(content, lo, start, p)
  BY <1>1, <1>4 DEF BlockAt
<1>6. p \in Nat /\ start \in Nat /\ at \in Nat /\ Len(content) \in Nat /\ name \in Seq(Symbol)
  BY <1>1 DEF Types
<1>7. c \in Calling
  BY <1>1, <1>6 DEF Made, Calling, Named
<1>8. CASE type \in {"raw", "make"}
  <2>1. lo = at + 1 /\ name = <<>>
    BY <1>1, <1>8 DEF HeadRead
  <2>2. start \in at + 2..p /\ p \in at..Len(content)
    BY <1>1, <1>4, <1>6, <2>1
  <2>3. BlockMark(content, x)
    BY <1>1, <1>2, <1>3, <1>5, <1>8, <2>1, <2>2 DEF BlockMark
  <2> QED BY <1>1, <1>2, <1>7, <2>2, <2>3 DEF IsMark
<1>9. CASE type \notin {"raw", "make"}
  <2>1. type \in {"defdir", "noextend"}
    BY <1>1, <1>9 DEF HeadRead
  <2>2. PICK l \in Places : \E a, b \in Places :
           /\ at < l /\ l < a /\ a <= b /\ b < lo
           /\ NameAt(content, at + 1, l, a, b, lo - 1) /\ name = SubSeq(content, a, b - 1)
    BY <1>1, <1>9 DEF HeadRead
  <2>3. PICK a \in Places : \E b \in Places :
           /\ at < l /\ l < a /\ a <= b /\ b < lo
           /\ NameAt(content, at + 1, l, a, b, lo - 1) /\ name = SubSeq(content, a, b - 1)
    BY <2>2
  <2>4. PICK b \in Places :
           /\ at < l /\ l < a /\ a <= b /\ b < lo
           /\ NameAt(content, at + 1, l, a, b, lo - 1) /\ name = SubSeq(content, a, b - 1)
    BY <2>3
  <2>5. PICK j \in Nat : j = lo - 1
    BY <2>4 DEF Places
  <2>6. l \in at + 1..p /\ a \in l + 1..p /\ b \in a..p /\ j \in b..p /\ start \in j + 2..p
        /\ p \in at..Len(content) /\ j + 1 = lo
    BY <1>1, <1>4, <1>6, <2>4, <2>5 DEF Places
  <2>7. NameAt(content, at + 1, l, a, b, j) /\ BlockAt(content, j + 1, start, p)
        /\ Says(x, content[at], SubSeq(content, a, b - 1), start, p)
    BY <1>1, <1>3, <1>5, <2>4, <2>5, <2>6
  <2>8. DefMark(content, x)
    BY <1>1, <1>2, <2>1, <2>6, <2>7 DEF DefMark
  <2> QED BY <1>1, <1>2, <1>7, <2>6, <2>8 DEF IsMark
<1> QED BY <1>8, <1>9

LEMMA BlockMoves ==
  ASSUME Types, SpanInv, NEW lo \in Nat, lo >= 1, level # -1, TextBehind(lo), Block
  PROVE  Moved(lo)
<1>1. input = "block" /\ status \in 0..3
  BY DEF Block, Types
<1>2. InDirective /\ at \in Places
  BY <1>1 DEF TextBehind, Handlers, InDirective
<1>3. PICK b \in Spots : BlockSoFar(b)
  BY <1>1, <1>2 DEF InDirective
<1>4. b \in Nat /\ p \in Nat /\ Len(content) \in Nat /\ b \in 1..Len(content) + 1 /\ start \in Nat
  BY <1>3 DEF Spots, Types
<1>5. PICK next : next = Look(BlockTrans, BlockColumn)
  OBVIOUS
<1>6. PICK closed \in BOOLEAN : closed <=> next = 2 /\ depth' = 0
  OBVIOUS
<1>7. /\ start' = (IF status = 0 /\ next = 2 THEN p + 1 ELSE start)
      /\ p' = (IF next = 4 THEN p ELSE p + 1) /\ status' = next /\ name' = name
      /\ closed => Decides(p)
      /\ ~closed /\ next = 4 => input' = "ERROR"
      /\ ~closed /\ next # 4 => input' = input /\ calls' = calls
      /\ content' = content /\ type' = type /\ level' = level /\ at' = at
  BY <1>5, <1>6 DEF Block, Returns
<1>8. /\ next \in 0..4 /\ Blank(next) /\ (next # 4 => Char # "nul")
      /\ status \in {0, 1} /\ next \notin {0, 1, 4} => next = 2 /\ status = 0 /\ Char = "open"
      /\ status \in {2, 3} => next \in {2, 3, 4}
  BY <1>1, <1>5, BlockTurn, BlockOnly
<1>9. CASE next = 4
  BY <1>6, <1>7, <1>9 DEF Moved
<1>10. CASE closed
  <2>1. next = 2 /\ status = 2 /\ Char = "close" /\ p' = p + 1 /\ start' = start
    <3>1. next = 2 /\ depth' = 0
      BY <1>6, <1>10
    <3>2. status = 2 /\ Char = "close"
      BY <1>5, <3>1, BlockCloses
    <3> QED BY <1>7, <3>1, <3>2
  <2>2. Decides(p)
    BY <1>7, <1>10
  <2>3. CASE error
    BY <2>2, <2>3 DEF Decides, Returns, Moved
  <2>4. CASE ~error
    <3>1. PICK c : c = Made(p)
      OBVIOUS
    <3>2. calls' # calls
      <4>1. calls' = Append(calls, c)
        BY <2>2, <2>4, <3>1 DEF Decides, Made
      <4>2. Len(calls') = Len(calls) + 1 /\ Len(calls) \in Nat
        BY <4>1 DEF Types
      <4> QED BY <4>2
    <3>3. Fits(c)
      BY <3>1, <3>2, BlockFits
    <3>4. content[p] = "close"
      BY <2>1, CharFacts
    <3>5. PICK x : x = MarkOf(content, c)
      OBVIOUS
    <3>6. IsMark(content, x) /\ x.to = p /\ c \in Calling
      BY <1>2, <1>3, <1>4, <1>7, <2>1, <3>1, <3>3, <3>4, <3>5, BlockIsMark
    <3>7. type \notin {"context", "end"}
      BY <1>3 DEF BlockSoFar, HeadRead
    <3> QED BY <1>1, <1>7, <2>1, <2>2, <3>1, <3>5, <3>6, <3>7, CallGrows DEF Handlers
  <2> QED BY <2>3, <2>4
<1>11. CASE ~closed /\ next # 4
  <2>1. input' = "block" /\ calls' = calls /\ p' = p + 1 /\ content[p] = Char /\ p <= Len(content)
    <3>1. p \in 1..Len(content) /\ content[p] = Char
      BY <1>8, <1>11, CharFacts
    <3> QED BY <1>1, <1>7, <1>11, <3>1
  <2>2. HeadRead(b)' /\ content'[at'] \in Directive
    <3>1. HeadRead(b) /\ content[at] \in Directive
      BY <1>3 DEF BlockSoFar
    <3> QED BY <1>7, <3>1 DEF HeadRead, Places
  <2>3. BlockSoFar(b)'
    <3>1. CASE status \in {0, 1} /\ next \in {0, 1}
      <4>1. Passed(b)
        BY <1>3, <3>1 DEF BlockSoFar
      <4>2. Passed(b)'
        BY <1>4, <1>7, <1>8, <2>1, <3>1, <4>1, PassedMoves
      <4> QED BY <1>7, <2>2, <3>1, <4>2 DEF BlockSoFar
    <3>2. CASE status \in {0, 1} /\ next \notin {0, 1}
      <4>1. next = 2 /\ status = 0 /\ content[p] = "open" /\ start' = p + 1
        BY <1>7, <1>8, <1>11, <2>1, <3>2
      <4>2. b <= p /\ Gap(content, b, p - 1)
        <5>1. Passed(b)
          BY <1>3, <3>2 DEF BlockSoFar
        <5> QED BY <1>4, <4>1, <5>1, PassedGap
      <4>3. start' - 1 = p /\ start' - 2 = p - 1 /\ b < start' /\ start' <= p'
        BY <1>4, <2>1, <4>1, <4>2
      <4>4. status' = 2 /\ content'[start' - 1] = "open" /\ Gap(content', b, start' - 2)
        BY <1>7, <4>1, <4>2, <4>3
      <4> QED BY <2>2, <4>3, <4>4 DEF BlockSoFar
    <3>3. CASE status \in {2, 3}
      <4>1. next \in {2, 3} /\ start' = start
        BY <1>7, <1>8, <1>11, <3>3
      <4>2. b < start /\ start <= p /\ Gap(content, b, start - 2) /\ content[start - 1] = "open"
        BY <1>3, <3>3 DEF BlockSoFar
      <4>3. start <= p + 1
        BY <1>4, <4>2
      <4> QED BY <1>7, <2>1, <2>2, <4>1, <4>2, <4>3 DEF BlockSoFar
    <3> QED BY <1>1, <3>1, <3>2, <3>3
  <2>4. InDirective'
    <3>1. b \in Spots'
      BY <1>3, <1>7 DEF Spots
    <3>2. /\ at' \in Places' /\ content'[at'] \in NameChars
          /\ type' = IF content'[at'] \in Directive THEN content'[at'] ELSE "raw"
      BY <1>2, <1>7 DEF InDirective, Places
    <3> QED BY <2>1, <2>3, <3>1, <3>2 DEF InDirective
  <2> QED BY <1>1, <1>2, <1>7, <2>1, <2>4, GoesOn DEF Handlers
<1> QED BY <1>9, <1>10, <1>11

\* The rest of a line is read, and with it the directive.
LEMMA LineIsMark ==
  ASSUME Types, NEW lo \in Nat, NEW h \in Nat, LineSoFar(lo, h), InDirective, status = 2,
         NEW c, c = Made(p), Fits(c), content[p] \in {"newline", "comment"}, start' = start, name' = name,
         NEW x, x = MarkOf(content, c)
  PROVE  IsMark(content, x) /\ x.to = (IF content[p] = "newline" THEN p ELSE p - 1) /\ c \in Calling
<1>1. /\ type \in {"raw", "make"} /\ name = <<>> /\ at \in 1..Len(content)
      /\ type = (IF content[at] \in Directive THEN content[at] ELSE "raw")
      /\ content[at] \in NameChars
      /\ lo = IF content[at] \in Directive THEN at + 1 ELSE at
      /\ lo <= h /\ h < p /\ start <= p /\ Gap(content, lo, h - 1)
      /\ (content[h] = "colon" /\ start = h + 1) \/ (content[h] \in NameChars /\ start = h)
  BY DEF LineSoFar, HeadRead, InDirective, Places
<1>2. x.at = at /\ x.call = c /\ c.start = start /\ c.end = p
      /\ x.to = (IF content[p] = "newline" THEN p ELSE p - 1)
  BY <1>1 DEF Made, MarkOf
<1>3. Says(x, type, <<>>, start, p)
  BY <1>1, <1>2 DEF Made, Says
<1>4. p <= Len(content) /\ ForLine(SubSeq(content, start, p - 1))
  BY <1>2 DEF Fits, TextOf
<1>5. LineAt(content, lo, h, start, p)
  BY <1>1, <1>4 DEF LineAt
<1>6. p \in Nat /\ start \in Nat /\ at \in Nat /\ Len(content) \in Nat
  BY <1>1 DEF Types
<1>7. c \in Calling
  BY <1>1, <1>6 DEF Made, Calling, Named, Directive
<1>8. h \in lo..Len(content) /\ start \in h..h + 1 /\ p \in start..Len(content) /\ x.to \in at..Len(content)
  <2>1. h \in lo..Len(content) /\ start \in h..h + 1 /\ p \in start..Len(content)
    BY <1>1, <1>4, <1>6
  <2>2. at <= p - 1
    BY <1>1, <1>6
  <2>3. p \in at..Len(content) /\ p - 1 \in at..Len(content)
    BY <1>4, <1>6, <2>2
  <2> QED BY <1>2, <2>1, <2>3
<1>9. content[at] \in {"raw", "make"} \cup (NameChars \ Directive)
      /\ type = IF content[at] = "make" THEN "make" ELSE "raw"
  BY <1>1 DEF Directive
<1>10. LineMark(content, x)
  <2>1. PICK from : from = IF content[at] \in Directive THEN at + 1 ELSE at
    OBVIOUS
  <2>2. from = lo
    BY <1>1, <2>1
  <2> QED BY <1>2, <1>3, <1>5, <1>8, <1>9, <2>1, <2>2 DEF LineMark
<1> QED BY <1>1, <1>2, <1>7, <1>8, <1>10 DEF IsMark

LEMMA LineMoves ==
  ASSUME Types, SpanInv, NEW lo \in Nat, lo >= 1, level # -1, TextBehind(lo), Line
  PROVE  Moved(lo)
<1>1. input = "line" /\ status \in 0..3
  BY DEF Line, Types
<1>2. InDirective /\ at \in Places /\ content[at] \in NameChars
  BY <1>1 DEF TextBehind, Handlers, InDirective
<1>3. PICK b \in Spots : \E h \in Spots : LineSoFar(b, h)
  BY <1>1, <1>2 DEF InDirective
<1>4. PICK h \in Spots : LineSoFar(b, h)
  BY <1>3
<1>5. b \in Nat /\ h \in Nat /\ p \in Nat /\ Len(content) \in Nat /\ b \in 1..Len(content) + 1 /\ start \in Nat
  BY <1>3, <1>4 DEF Spots, Types
<1>6. PICK next : next = Look(LineTrans, LineColumn)
  OBVIOUS
<1>7. /\ start' = (IF status = 0 /\ next = 2 THEN (IF Char = "colon" THEN p + 1 ELSE p)
                   ELSE IF next = 5 THEN 0 ELSE start)
      /\ end' = (IF status = 2 /\ next = 4 THEN p ELSE end)
      /\ p' = (IF next \in {5, 6} \/ (next = 4 /\ Char = "comment") THEN p ELSE p + 1)
      /\ status' = (IF next = 5 THEN 0 ELSE next)
      /\ next = 4 => Decides(end')
      /\ next = 5 => input' = "block" /\ calls' = calls
      /\ next = 6 => input' = "ERROR"
      /\ next \notin {4, 5, 6} => input' = input /\ calls' = calls
      /\ content' = content /\ type' = type /\ level' = level /\ at' = at /\ name' = name
  BY <1>6 DEF Line, Returns, PassesEnd
<1>8. /\ next \in 0..6 /\ Blank(next) /\ (next # 6 => Char # "nul")
      /\ status \in {0, 1} /\ next \notin {0, 1, 6} =>
           status = 0 /\ ((next = 2 /\ Char \in NameChars \cup {"colon"}) \/ (next = 5 /\ Char = "open"))
      /\ status \in {2, 3} => next \in {2, 3, 4, 6}
      /\ next = 4 => status = 2 /\ Char \in {"newline", "comment"}
  BY <1>1, <1>6, LineTurn, LineOnly
<1>9. CASE next = 6
  BY <1>7, <1>9 DEF Moved
<1>10. CASE next = 4
  <2>1. status = 2 /\ content[p] \in {"newline", "comment"} /\ content[p] = Char /\ start' = start /\ end' = p
    <3>1. status = 2 /\ Char \in {"newline", "comment"}
      BY <1>8, <1>10
    <3> QED BY <1>7, <1>10, <3>1, CharFacts
  <2>2. Decides(p)
    BY <1>7, <1>10, <2>1
  <2>3. CASE error
    BY <2>2, <2>3 DEF Decides, Returns, Moved
  <2>4. CASE ~error
    <3>1. PICK c : c = Made(p)
      OBVIOUS
    <3>2. calls' # calls
      <4>1. calls' = Append(calls, c)
        BY <2>2, <2>4, <3>1 DEF Decides, Made
      <4>2. Len(calls') = Len(calls) + 1 /\ Len(calls) \in Nat
        BY <4>1 DEF Types
      <4> QED BY <4>2
    <3>3. Fits(c)
      BY <2>1, <3>1, <3>2, LineFits
    <3>4. PICK x : x = MarkOf(content, c)
      OBVIOUS
    <3>5. IsMark(content, x) /\ x.to = (IF content[p] = "newline" THEN p ELSE p - 1) /\ c \in Calling
      BY <1>2, <1>4, <1>5, <1>7, <2>1, <3>1, <3>3, <3>4, LineIsMark
    <3>6. p' = x.to + 1
      <4>1. CASE content[p] = "newline"
        BY <1>7, <1>10, <2>1, <3>5, <4>1
      <4>2. CASE content[p] = "comment"
        BY <1>5, <1>7, <1>10, <2>1, <3>5, <4>2
      <4> QED BY <2>1, <4>1, <4>2
    <3>7. type \notin {"context", "end"}
      BY <1>4 DEF LineSoFar
    <3> QED BY <1>1, <1>7, <2>2, <3>1, <3>4, <3>5, <3>6, <3>7, CallGrows DEF Handlers
  <2> QED BY <2>3, <2>4
<1>11. HeadRead(b)' /\ type' \in {"raw", "make"} /\ type \in {"raw", "make"}
  <2>1. HeadRead(b) /\ type \in {"raw", "make"}
    BY <1>4 DEF LineSoFar
  <2> QED BY <1>7, <2>1 DEF HeadRead, Places
<1>12. /\ at' \in Places' /\ content'[at'] \in NameChars /\ b \in Spots' /\ h \in Spots'
       /\ type' = IF content'[at'] \in Directive THEN content'[at'] ELSE "raw"
  BY <1>2, <1>3, <1>4, <1>7 DEF InDirective, Places, Spots
<1>13. next # 6 => content[p] = Char /\ p \in 1..Len(content)
  BY <1>8, CharFacts
\* A line that begins with its text has nothing to pass.
<1>14. ASSUME status \in {0, 1}, content[at] \notin Directive PROVE status = 0 /\ p = at /\ next \notin {0, 1, 5}
  <2>1. p = at /\ b = at /\ Passed(b)
    BY <1>4, <1>11, <1>14 DEF LineSoFar, HeadRead
  <2>2. status = 0
    BY <1>5, <1>14, <2>1, InCommentEmpty DEF Passed
  <2>3. Char \in NameChars
    <3>1. p <= Len(content)
      BY <1>2, <2>1 DEF Places
    <3> QED BY <1>2, <2>1, <3>1 DEF Char
  <2>4. Char \notin {"space", "newline", "comment", "open"}
    BY <2>3 DEF NameChars, Directive
  <2> QED BY <1>8, <2>1, <2>2, <2>4 DEF Blank
<1>15. CASE next = 5
  <2>1. status = 0 /\ status' = 0 /\ p' = p /\ input' = "block" /\ calls' = calls /\ content[at] \in Directive
    BY <1>1, <1>7, <1>8, <1>14, <1>15
  <2>2. Passed(b)
    BY <1>4, <2>1 DEF LineSoFar
  <2>3. BlockSoFar(b)'
    BY <1>7, <1>11, <2>1, <2>2 DEF BlockSoFar, Passed
  <2>4. InDirective'
    BY <1>12, <2>1, <2>3 DEF InDirective
  <2> QED BY <1>1, <1>2, <1>7, <2>1, <2>4, GoesOn DEF Handlers
<1>16. CASE next \in 0..3
  <2>1. input' = "line" /\ calls' = calls /\ p' = p + 1 /\ content[p] = Char /\ status' = next
    BY <1>1, <1>7, <1>13, <1>16
  <2>2. \E k \in Spots' : LineSoFar(b, k)'
    <3>1. CASE status \in {0, 1} /\ next \in {0, 1}
      <4>1. Passed(b) /\ content[at] \in Directive
        BY <1>4, <1>14, <3>1 DEF LineSoFar
      <4>2. Passed(b)'
        BY <1>5, <1>7, <1>8, <2>1, <3>1, <4>1, PassedMoves
      <4>3. LineSoFar(b, h)'
        BY <1>7, <1>11, <2>1, <3>1, <4>1, <4>2 DEF LineSoFar
      <4> QED BY <1>12, <4>3
    <3>2. CASE status \in {0, 1} /\ next \notin {0, 1}
      <4>1. next = 2 /\ status = 0 /\ content[p] \in NameChars \cup {"colon"}
            /\ start' = IF content[p] = "colon" THEN p + 1 ELSE p
        BY <1>7, <1>8, <1>16, <2>1, <3>2
      <4>2. b <= p /\ Gap(content, b, p - 1)
        <5>1. Passed(b)
          BY <1>4, <3>2 DEF LineSoFar
        <5> QED BY <1>5, <4>1, <5>1, PassedGap
      <4>3. p < p' /\ start' <= p'
        BY <1>5, <2>1, <4>1
      <4>4. (content[p] = "colon" /\ start' = p + 1) \/ (content[p] \in NameChars /\ start' = p)
        BY <4>1
      <4>5. PICK k : k = p
        OBVIOUS
      <4>6. LineSoFar(b, k)'
        BY <1>7, <1>11, <2>1, <4>1, <4>2, <4>3, <4>4, <4>5 DEF LineSoFar
      <4>7. k \in Spots'
        BY <1>7, <4>5 DEF Types, Spots
      <4> QED BY <4>6, <4>7
    <3>3. CASE status \in {2, 3}
      <4>1. next \in {2, 3} /\ start' = start
        BY <1>7, <1>8, <1>16, <3>3
      <4>2. /\ b <= h /\ h < p /\ start <= p /\ Gap(content, b, h - 1)
            /\ (content[h] = "colon" /\ start = h + 1) \/ (content[h] \in NameChars /\ start = h)
        BY <1>4, <3>3 DEF LineSoFar
      <4>3. start <= p + 1 /\ h < p + 1
        BY <1>5, <4>2
      <4>4. LineSoFar(b, h)'
        BY <1>7, <1>11, <2>1, <4>1, <4>2, <4>3 DEF LineSoFar
      <4> QED BY <1>12, <4>4
    <3> QED BY <1>1, <3>1, <3>2, <3>3
  <2>3. InDirective'
    BY <1>12, <2>1, <2>2 DEF InDirective
  <2> QED BY <1>1, <1>2, <1>7, <2>1, <2>3, GoesOn DEF Handlers
<1>17. next \in 0..3 \/ next = 4 \/ next = 5 \/ next = 6
  BY <1>8
<1> QED BY <1>9, <1>10, <1>15, <1>16, <1>17

\* At the end of the text the contexts are closed, and the text behind is the whole file.
LEMMA FinishAccepts ==
  ASSUME Types, LaidInv, Finish
  PROVE  AcceptsFiles'
<1> SUFFICES ASSUME input' = "done" PROVE AcceptsFiles'
  BY DEF AcceptsFiles
<1>1. input = "END" /\ Signal = "END" /\ ~(level > 0) /\ content' = content
      /\ calls' = calls \o EndCalls(level + 1)
  <2>1. Signal = "END"
    BY DEF Finish
  <2> QED BY <2>1, SignalFacts DEF Finish, EndCalls, EndCall, Signals
<1>2. level = 0
  BY <1>1 DEF Types, Final
<1>3. PICK n \in Nat : n = Len(calls)
  BY DEF Types
<1>4. Len(calls') = n + 1 /\ \A k \in 1..n : calls'[k] = calls[k]
  BY <1>1, <1>2, <1>3, AllEnd
<1>5. PICK m : m = MarksOf(content, calls, n)
  OBVIOUS
<1>6. MarksOf(content', calls', Len(calls') - 1) = m
  <2>1. Len(calls') - 1 = n
    BY <1>4
  <2>2. MarksOf(content, calls', n) = m
    BY <1>4, <1>5 DEF MarksOf
  <2> QED BY <1>1, <2>1, <2>2
<1>7. Len(m) = n
  BY <1>5, MarksAre
<1>8. LaidUpTo(content, calls, n, 0) /\ TextBehind(RestFrom(content, calls, n))
  BY <1>1, <1>2, <1>3 DEF LaidInv, Final
<1>9. Skipped(content, To(m, n) + 1, Len(content))
  BY <1>1, <1>5, <1>8 DEF TextBehind, RestFrom
<1>10. Layout(content, m)
  BY <1>5, <1>7, <1>8, <1>9 DEF Layout, LaidUpTo
<1>11. Nested(m)
  BY <1>5, <1>7, <1>8 DEF Nested, LaidUpTo
<1> QED BY <1>1, <1>6, <1>10, <1>11 DEF AcceptsFiles

LEMMA LaidInit == ASSUME Init PROVE LaidInv
BY DEF Init, LaidInv, AcceptsFiles

\* The first step opens the root context.
LEMMA LaidStarts ==
  ASSUME Types, LaidInv, NewContext, level = -1
  PROVE  LaidInv'
<1>1. input = "NEWCONTEXT"
  BY SignalFacts DEF NewContext, Signals
<1>2. p = 1 /\ calls = <<>>
  BY <1>1 DEF LaidInv, Final
<1>3. content' = content /\ p' = 1 /\ input' = "READ" /\ level' = 0 /\ calls' = <<>>
  BY <1>2 DEF NewContext
<1>4. PICK m : m = MarksOf(content, <<>>, 0)
  OBVIOUS
<1>5. Len(m) = 0
  BY <1>4, MarksAre
<1>6. Depth(m)[0] = 0
  BY <1>5, DepthFacts
<1>7. LaidUpTo(content, <<>>, 0, 0) /\ RestFrom(content, <<>>, 0) = 1
  <2>1. \A i \in 0..0 : i = 0
    OBVIOUS
  <2> QED BY <1>4, <1>6, <2>1 DEF LaidUpTo, RestFrom, To
<1>8. TextBehind(1)'
  BY <1>3, GapEmpty DEF TextBehind, Handlers
<1>9. Len(calls') = 0
  BY <1>3
<1> QED BY <1>3, <1>7, <1>8, <1>9 DEF LaidInv, AcceptsFiles, Final

LEMMA LaidNext ==
  ASSUME ReaderInv, ReaderInv', LaidInv, Next
  PROVE  LaidInv'
<1>1. Types /\ SpanInv /\ Types'
  BY DEF ReaderInv
<1>2. CASE Finish
  <2>1. input' \in Final
    BY <1>2 DEF Finish, Final
  <2>2. AcceptsFiles'
    BY <1>1, <1>2, FinishAccepts
  <2> QED BY <2>1, <2>2 DEF LaidInv
<1>3. CASE (Test /\ ~error) \/ Report \/ Stopped
  <2>1. /\ content' = content /\ p' = p /\ input' = input /\ level' = level /\ calls' = calls
        /\ status' = status /\ type' = type /\ name' = name /\ start' = start /\ at' = at /\ end' = end
    BY <1>3 DEF Test, Report, Stopped, vars, handler
  <2>2. AcceptsFiles'
    BY <2>1 DEF LaidInv, AcceptsFiles
  <2>3. ASSUME TextBehind(RestFrom(content, calls, Len(calls)))
        PROVE  TextBehind(RestFrom(content, calls, Len(calls)))'
    BY <2>1, <2>3 DEF TextBehind, InDirective, NameSoFar, BlockSoFar, LineSoFar, HeadRead, Passed,
                      Places, Spots
  <2> QED BY <2>1, <2>2, <2>3 DEF LaidInv
<1>4. CASE NewContext /\ level = -1
  BY <1>1, <1>4, LaidStarts
<1>5. CASE /\ Read \/ EndContext \/ Comment \/ ReadOrder \/ ReadName \/ Line \/ Block \/ Context
                   \/ (NewContext /\ level # -1)
  <2>1. input \notin Final \cup {"ERROR"} /\ level # -1
    <3>1. CASE Read \/ EndContext \/ Comment \/ ReadOrder \/ (NewContext /\ level # -1)
      <4>1. \E x \in Signals \ {"ERROR"} : Signal = x
        BY <3>1 DEF NewContext, Read, EndContext, Comment, ReadOrder, Signals
      <4>2. input \in Signals \ {"ERROR"}
        BY <1>1, <4>1, SignalFacts
      <4>3. input = "NEWCONTEXT" => level # -1
        BY <1>1, <3>1, SignalFacts DEF Read, EndContext, Comment, ReadOrder, Signals
      <4> QED BY <1>1, <4>2, <4>3 DEF Types, Signals, Final
    <3>2. CASE ReadName \/ Line \/ Block \/ Context
      BY <1>1, <3>2 DEF ReadName, Line, Block, Context, Types, Final
    <3> QED BY <1>5, <3>1, <3>2
  <2>2. input' # "done"
    <3>1. CASE Read \/ EndContext \/ Comment \/ ReadOrder \/ NewContext \/ Context
      BY <3>1 DEF NewContext, Read, SignalOf, EndContext, Comment, ReadOrder, Context, Returns
    <3>2. CASE ReadName \/ Line \/ Block
      BY <3>2 DEF ReadName, Line, Block, Decides, Returns
    <3> QED BY <1>5, <3>1, <3>2
  <2>3. LaidUpTo(content, calls, Len(calls), level) /\ TextBehind(RestFrom(content, calls, Len(calls)))
    BY <2>1 DEF LaidInv
  <2>4. PICK lo : lo = RestFrom(content, calls, Len(calls))
    OBVIOUS
  <2>5. lo \in Nat /\ lo >= 1
    <3>1. lo \in 1..Len(content) + 1 /\ Len(content) \in Nat
      BY <1>1, <2>3, <2>4, RestIs DEF Types
    <3> QED BY <3>1
  <2>6. Moved(lo)
    BY <1>1, <1>5, <2>1, <2>3, <2>4, <2>5, ReadMoves, EndContextMoves, CommentMoves, ReadOrderMoves,
       ReadNameMoves, LineMoves, BlockMoves, ContextMoves, NewContextMoves
  <2>7. AcceptsFiles'
    BY <2>2 DEF AcceptsFiles
  <2>8. CASE input' \in Final \cup {"ERROR"}
    BY <2>7, <2>8 DEF LaidInv
  <2>9. CASE input' \notin Final \cup {"ERROR"}
    <3>1. level' # -1
      <4>1. CASE input' = "NEWCONTEXT"
        <5>1. Context
          <6>1. CASE Read \/ EndContext \/ Comment \/ ReadOrder \/ NewContext
            BY <4>1, <6>1 DEF NewContext, Read, SignalOf, EndContext, Comment, ReadOrder
          <6>2. CASE ReadName \/ Line \/ Block
            BY <1>1, <4>1, <6>2 DEF ReadName, Line, Block, Decides, Returns
          <6> QED BY <1>5, <6>1, <6>2
        <5> QED BY <2>1, <5>1 DEF Context
      <4>2. CASE input' # "NEWCONTEXT"
        BY <1>1, <2>9, <4>2 DEF Types
      <4> QED BY <4>1, <4>2
    <3>2. content' = content
      BY SameFile
    <3>3. Stays(lo) \/ Grows(lo)
      BY <2>6, <2>9 DEF Moved
    <3>4. /\ TextBehind(RestFrom(content, calls, Len(calls)))'
          /\ LaidUpTo(content, calls, Len(calls), level)'
      BY <1>1, <2>1, <2>3, <2>4, <3>1, <3>2, <3>3, LaidStep
    <3> QED BY <2>7, <2>9, <3>1, <3>4 DEF LaidInv
  <2> QED BY <2>8, <2>9
<1>6. CASE Test /\ error
  <2>1. input' = "ERROR"
    BY <1>6 DEF Test
  <2> QED BY <2>1 DEF LaidInv, AcceptsFiles
<1>7. CASE Call
  <2>1. /\ content' = content /\ p' = p /\ level' = level /\ calls' = calls
        /\ input = "call" /\ input' = "READ"
    BY <1>7 DEF Call
  <2>2. level # -1 /\ TextBehind(RestFrom(content, calls, Len(calls)))
        /\ LaidUpTo(content, calls, Len(calls), level)
    BY <2>1 DEF LaidInv, Final
  <2>3. TextBehind(RestFrom(content, calls, Len(calls)))'
    BY <2>1, <2>2 DEF TextBehind, Handlers
  <2> QED BY <2>1, <2>2, <2>3 DEF LaidInv, AcceptsFiles
<1> QED BY <1>2, <1>3, <1>4, <1>5, <1>6, <1>7 DEF Next

LEMMA LaidStutters == ASSUME LaidInv, UNCHANGED vars PROVE LaidInv'
<1>1. /\ content' = content /\ p' = p /\ input' = input /\ level' = level /\ calls' = calls
      /\ status' = status /\ type' = type /\ name' = name /\ start' = start /\ at' = at /\ end' = end
  BY DEF vars
<1> QED BY <1>1 DEF LaidInv, AcceptsFiles, TextBehind, InDirective, NameSoFar, BlockSoFar, LineSoFar,
                    HeadRead, Passed, Places, Spots

\* For every text of any length: a file the reader comes to the end of is a file of
\* directives, those of its calls, with nothing but blanks and comments between them, and
\* its contexts are nested.
THEOREM OnlyFilesAreAccepted == Spec => []AcceptsFiles
<1>1. ReaderInv /\ LaidInv /\ ReaderInv' /\ [Next]_vars => LaidInv'
  BY LaidNext, LaidStutters
<1>2. LaidInv => AcceptsFiles
  BY DEF LaidInv
<1> QED BY <1>1, <1>2, LaidInit, ReaderAlways, PTL DEF Spec
=============================================================================
