--------------------------- MODULE DictShelfProofs ---------------------------
(***************************************************************************)
(* Every operation on a shelf keeps its index sound, so the assertions of  *)
(* dicts.cpp cannot fail.  The one that needs an argument is the copy: the *)
(* packed vector has one position for each active entry, in their order.   *)
(* Before that, facts on what the shelves are kept in: stacks (std::stack  *)
(* in Reader, the contexts around one another, nested destructor calls)    *)
(* and sets of positions.                                                  *)
(***************************************************************************)
EXTENDS DictShelf, SequencesExt, FiniteSetTheorems, SequenceTheorems, WellFoundedInduction, TLAPS

\* The only natural number between 1 and 2 is 1.
LEMMA OneOrMore == ASSUME NEW n \in Nat, n >= 1 PROVE n = 1 \/ n >= 2
  OBVIOUS

\* What popping the stack leaves.
LEMMA FrontFacts ==
  ASSUME NEW S, NEW s \in Seq(S), Len(s) >= 1
  PROVE  /\ Front(s) \in Seq(S) /\ Len(Front(s)) = Len(s) - 1
         /\ \A i \in 1..Len(s) - 1 : Front(s)[i] = s[i]
<1>1. Len(s) \in Nat /\ Len(s) >= 1 /\ \A i \in 1..Len(s) - 1 : s[i] \in S
  OBVIOUS
<1>2. SubSeq(s, 1, Len(s) - 1) \in Seq(S)
  <2>1. 1 \in 1..Len(s) + 1 /\ Len(s) - 1 \in 1 - 1..Len(s)
    BY <1>1
  <2> QED BY <2>1, SubSeqProperties
<1>3. CASE Len(s) = 1
  <2>1. Len(s) - 1 = 0
    BY <1>3
  <2>2. SubSeq(s, 1, 0) = <<>>
    OBVIOUS
  <2> QED BY <1>2, <2>1, <2>2 DEF Front
<1>4. CASE Len(s) >= 2
  <2>1. 1 <= Len(s) - 1 /\ Len(s) - 1 \in Nat
    BY <1>1, <1>4
  <2>2. /\ Len(SubSeq(s, 1, Len(s) - 1)) = Len(s) - 1
        /\ \A i \in 1..Len(s) - 1 : SubSeq(s, 1, Len(s) - 1)[i] = s[i]
    BY <1>1, <2>1
  <2> QED BY <1>2, <2>2 DEF Front
<1>5. Len(s) = 1 \/ Len(s) >= 2
  BY <1>1, OneOrMore
<1> QED BY <1>3, <1>4, <1>5

\* What a push leaves.
LEMMA PushFacts ==
  ASSUME NEW S, NEW q \in Seq(S), NEW x \in S
  PROVE  /\ Append(q, x) \in Seq(S) /\ Len(Append(q, x)) = Len(q) + 1
         /\ \A i \in 1..Len(q) : Append(q, x)[i] = q[i]
         /\ Append(q, x)[Len(q) + 1] = x
  OBVIOUS

\* A stack that is not empty has a top.
LEMMA TopFacts ==
  ASSUME NEW S, NEW q \in Seq(S), q # <<>>
  PROVE  Len(q) \in Nat /\ Len(q) >= 1 /\ Last(q) = q[Len(q)] /\ Last(q) \in S
<1>1. Len(q) \in Nat /\ Len(q) >= 1
  OBVIOUS
<1> QED BY <1>1 DEF Last
-----------------------------------------------------------------------------
\* A set of numbers that is not empty has a least one.
LEMMA Least ==
  ASSUME NEW T, T \subseteq Nat, T # {}
  PROVE  \E x \in T : \A y \in T : x <= y
<1> DEFINE R == OpToRel(<, Nat)
<1>1. IsWellFoundedOn(R, Nat)
  BY NatLessThanWellFounded
<1>2. \A x, y \in Nat : <<y, x>> \in R <=> y < x
  BY DEF OpToRel
<1> HIDE DEF R
<1>3. PICK x \in T : \A y \in T : <<y, x>> \notin R
  BY <1>1, WFMin
<1>4. ASSUME NEW y \in T PROVE x <= y
  <2>1. x \in Nat /\ y \in Nat /\ ~(y < x)
    BY <1>2, <1>3
  <2> QED BY <2>1
<1> QED BY <1>4

\* A set of positions that is not empty has a greatest one.
LEMMA Greatest ==
  ASSUME NEW n \in Nat, NEW T, T \subseteq 1..n, T # {}
  PROVE  \E x \in T : \A y \in T : y <= x
<1>1. PICK U : U = {n - x : x \in T}
  OBVIOUS
<1>2. \A x \in T : x \in Int /\ x <= n
  OBVIOUS
<1>3. U \subseteq Nat /\ U # {}
  <2>1. \A x \in T : n - x \in Nat
    BY <1>2
  <2> QED BY <1>1, <2>1
<1>4. PICK u \in U : \A v \in U : u <= v
  BY <1>3, Least
<1>5. PICK x \in T : u = n - x
  BY <1>1
<1>6. ASSUME NEW y \in T PROVE y <= x
  <2>1. n - x <= n - y
    BY <1>1, <1>4, <1>5
  <2> QED BY <1>2, <2>1
<1> QED BY <1>6
-----------------------------------------------------------------------------
\* The positions of a shelf are a finite set, the active ones a part of it.
LEMMA ActiveFinite ==
  ASSUME NEW D, NEW N, NEW sh, IsShelf(sh, D, N)
  PROVE  /\ Active(sh) \subseteq 1..Len(sh.entry) /\ Len(sh.entry) \in Nat
         /\ IsFiniteSet(Active(sh)) /\ Cardinality(Active(sh)) \in Nat
<1>1. Active(sh) \subseteq 1..Len(sh.entry) /\ Len(sh.entry) \in Nat
  BY DEF Active, IsShelf
<1>2. IsFiniteSet(1..Len(sh.entry))
  BY <1>1, FS_Interval
<1> QED BY <1>1, <1>2, FS_Subset, FS_CardinalityType

\* asist numbers the active entries without a gap or a clash, in their order
\* (dicts.cpp:263-271).
LEMMA RankNumbers ==
  ASSUME NEW D, NEW N, NEW sh, IsShelf(sh, D, N)
  PROVE  /\ \A i \in Active(sh) : Rank(sh, i) \in 1..Cardinality(Active(sh))
         /\ \A i, j \in Active(sh) : i < j => Rank(sh, i) < Rank(sh, j)
         /\ \A r \in 1..Cardinality(Active(sh)) : \E i \in Active(sh) : Rank(sh, i) = r
<1> DEFINE A == Active(sh)
           upTo(i) == {j \in A : j <= i}
<1>1. A \subseteq Nat /\ IsFiniteSet(A) /\ Cardinality(A) \in Nat
  BY ActiveFinite
<1>2. ASSUME NEW i \in A
      PROVE  /\ IsFiniteSet(upTo(i)) /\ Rank(sh, i) = Cardinality(upTo(i))
             /\ Rank(sh, i) \in 1..Cardinality(A)
  <2>1. upTo(i) \subseteq A /\ i \in upTo(i)
    BY <1>1
  <2>2. IsFiniteSet(upTo(i)) /\ Cardinality(upTo(i)) <= Cardinality(A)
    BY <1>1, <2>1, FS_Subset
  <2>3. Cardinality(upTo(i)) \in Nat /\ Cardinality(upTo(i)) # 0
    BY <2>1, <2>2, FS_CardinalityType, FS_EmptySet
  <2> QED BY <1>1, <2>2, <2>3 DEF Rank
<1> HIDE DEF upTo
<1>3. ASSUME NEW i \in A, NEW j \in A, i < j
      PROVE  Rank(sh, i) < Rank(sh, j)
  <2>1. upTo(i) \subseteq upTo(j) /\ j \in upTo(j) /\ j \notin upTo(i)
    BY <1>1, <1>3 DEF upTo
  <2>2. upTo(i) \cup {j} \subseteq upTo(j)
    BY <2>1
  <2>3. IsFiniteSet(upTo(i)) /\ IsFiniteSet(upTo(j))
    BY <1>2
  <2>4. Cardinality(upTo(i) \cup {j}) = Cardinality(upTo(i)) + 1
    BY <2>1, <2>3, FS_AddElement
  <2>5. Cardinality(upTo(i) \cup {j}) <= Cardinality(upTo(j))
    BY <2>2, <2>3, FS_Subset
  <2>6. Cardinality(upTo(i)) \in Nat /\ Cardinality(upTo(j)) \in Nat
    BY <2>3, FS_CardinalityType
  <2>7. Cardinality(upTo(i)) < Cardinality(upTo(j))
    BY <2>4, <2>5, <2>6
  <2> QED BY <1>2, <2>7
<1>4. ASSUME NEW r \in 1..Cardinality(A) PROVE \E i \in A : Rank(sh, i) = r
  <2> DEFINE f == [i \in A |-> Rank(sh, i)]
  <2>1. ASSUME NEW i \in A, NEW j \in A, Rank(sh, i) = Rank(sh, j) PROVE i = j
    <3>1. Rank(sh, i) \in Nat /\ ~(i < j) /\ ~(j < i)
      BY <1>1, <1>2, <1>3, <2>1
    <3> QED BY <1>1, <3>1
  <2>2. f \in [A -> 1..Cardinality(A)] /\ \A i \in A : f[i] = Rank(sh, i)
    BY <1>2
  <2> HIDE DEF f
  <2>6. \A i, j \in A : f[i] = f[j] => i = j
    BY <2>1, <2>2
  <2>5. f \in Injection(A, 1..Cardinality(A))
    BY <2>2, <2>6 DEF Injection, IsInjective
  <2>3. IsFiniteSet(1..Cardinality(A)) /\ Cardinality(1..Cardinality(A)) = Cardinality(A)
    BY <1>1, FS_Interval
  <2>4. f \in Surjection(A, 1..Cardinality(A))
    BY <2>3, <2>5, FS_Injection
  <2> QED BY <2>2, <2>4 DEF Surjection
<1> QED BY <1>2, <1>3, <1>4

\* Entry i of the source is entry Rank(i) of the copy.
LEMMA PackedAt ==
  ASSUME NEW D, NEW N, NEW sh, IsShelf(sh, D, N),
         NEW E, \A i \in Active(sh) : sh.entry[i] \in E
  PROVE  /\ Packed(sh) \in Seq(E)
         /\ Len(Packed(sh)) = Cardinality(Active(sh))
         /\ \A i \in Active(sh) : /\ Rank(sh, i) \in 1..Len(Packed(sh))
                                  /\ Packed(sh)[Rank(sh, i)] = sh.entry[i]
<1> DEFINE A == Active(sh)
           pick(r) == CHOOSE i \in A : Rank(sh, i) = r
<1>1. Cardinality(A) \in Nat /\ A \subseteq Nat
  BY ActiveFinite
<1>2. \A r \in 1..Cardinality(A) : pick(r) \in A /\ Rank(sh, pick(r)) = r
  BY RankNumbers
<1>3. Packed(sh) = [r \in 1..Cardinality(A) |-> sh.entry[pick(r)]]
  BY DEF Packed
<1> HIDE DEF pick
<1>4. Packed(sh) \in [1..Cardinality(A) -> E]
  BY <1>2, <1>3
<1>5. Packed(sh) \in Seq(E) /\ Len(Packed(sh)) = Cardinality(A)
  BY <1>1, <1>4
<1>6. ASSUME NEW i \in A
      PROVE  Rank(sh, i) \in 1..Cardinality(A) /\ Packed(sh)[Rank(sh, i)] = sh.entry[i]
  <2>1. Rank(sh, i) \in 1..Cardinality(A)
    BY RankNumbers
  <2>2. pick(Rank(sh, i)) \in A /\ Rank(sh, pick(Rank(sh, i))) = Rank(sh, i)
    BY <1>2, <2>1
  <2>3. pick(Rank(sh, i)) = i
    BY <1>1, <2>1, <2>2, RankNumbers
  <2> QED BY <1>3, <2>1, <2>3
<1> QED BY <1>5, <1>6
----------------------------------------------------------------------------
\* A shelf of dictionaries of a set is one of dictionaries of any larger set.
LEMMA ShelfWidens ==
  ASSUME NEW D, NEW E, D \subseteq E, NEW N, NEW sh, IsShelf(sh, D, N)
  PROVE  IsShelf(sh, E, N)
<1> DEFINE R == [dict : D, name : N \cup {NoName}, state : BOOLEAN]
           S == [dict : E, name : N \cup {NoName}, state : BOOLEAN]
<1>1. R \subseteq S
  OBVIOUS
<1>2. sh.entry \in Seq(R) /\ DOMAIN sh.index \subseteq N
  BY DEF IsShelf
<1> HIDE DEF R, S
<1>3. sh.entry \in Seq(S)
  BY <1>1, <1>2
<1> QED BY <1>2, <1>3 DEF IsShelf, S

\* A new root context starts with a sound shelf.
LEMMA EmptySound ==
  ASSUME NEW D, NEW N
  PROVE  IsShelf(EmptyShelf, D, N) /\ IndexSound(EmptyShelf)
BY DEF EmptyShelf, IsShelf, IndexSound

\* defdir keeps the index sound (dicts.cpp:200-225).
LEMMA PutSound ==
  ASSUME NEW D, NEW N, NoName \notin N, NEW sh, IsShelf(sh, D, N), IndexSound(sh),
         NEW d \in D, NEW n \in N \cup {NoName}
  PROVE  IsShelf(Put(sh, d, n), D, N) /\ IndexSound(Put(sh, d, n))
<1> DEFINE e == [dict |-> d, name |-> n, state |-> TRUE]
           new == Put(sh, d, n)
           E == [dict : D, name : N \cup {NoName}, state : BOOLEAN]
<1>1. e \in E /\ e.name = n /\ e.state
  OBVIOUS
<1>2. /\ new.entry = Append(sh.entry, e)
      /\ new.index = [m \in DOMAIN sh.index \cup ({n} \ {NoName}) |->
                        IF m = n THEN Len(sh.entry) + 1 ELSE sh.index[m]]
  BY DEF Put
<1>3. sh.entry \in Seq(E) /\ DOMAIN sh.index \subseteq N
  BY DEF IsShelf
<1> HIDE DEF e, E, new
<1>4. /\ new.entry \in Seq(E) /\ Len(new.entry) = Len(sh.entry) + 1
      /\ \A i \in 1..Len(sh.entry) : new.entry[i] = sh.entry[i]
      /\ new.entry[Len(sh.entry) + 1] = e
      /\ Len(sh.entry) \in Nat
  BY <1>1, <1>2, <1>3
<1>5. IsShelf(new, D, N)
  BY <1>2, <1>3, <1>4 DEF IsShelf, E
<1>6. ASSUME NEW m \in DOMAIN new.index
      PROVE  m # NoName /\ new.index[m] \in Active(new) /\ new.entry[new.index[m]].name = m
  <2>1. CASE m = n
    BY <1>1, <1>2, <1>3, <1>4, <1>6, <2>1 DEF Active
  <2>2. CASE m # n
    <3>1. m \in DOMAIN sh.index /\ new.index[m] = sh.index[m]
      BY <1>2, <1>6, <2>2
    <3>2. m # NoName /\ sh.index[m] \in Active(sh) /\ sh.entry[sh.index[m]].name = m
      BY <3>1 DEF IndexSound
    <3>3. sh.index[m] \in 1..Len(sh.entry) /\ sh.entry[sh.index[m]].state
      BY <1>3, <3>2 DEF Active
    <3> QED BY <1>4, <3>1, <3>2, <3>3 DEF Active
  <2> QED BY <2>1, <2>2
<1> QED BY <1>5, <1>6 DEF IndexSound, new

\* undefdir keeps the index sound: the entry it switches off loses its only name
\* (dicts.cpp:288-302).
LEMMA DropSound ==
  ASSUME NEW D, NEW N, NEW sh, IsShelf(sh, D, N), IndexSound(sh), NEW n
  PROVE  IsShelf(Drop(sh, n), D, N) /\ IndexSound(Drop(sh, n))
<1>1. CASE n \notin DOMAIN sh.index
  BY <1>1 DEF Drop, Indexed
<1>2. CASE n \in DOMAIN sh.index
  <2> DEFINE new == Drop(sh, n)
             E == [dict : D, name : N \cup {NoName}, state : BOOLEAN]
             p == sh.index[n]
  <2>1. /\ new.entry = [sh.entry EXCEPT ![p].state = FALSE]
        /\ new.index = [m \in DOMAIN sh.index \ {n} |-> sh.index[m]]
    BY <1>2 DEF Drop, Indexed
  <2>2. sh.entry \in Seq(E) /\ DOMAIN sh.index \subseteq N /\ sh.entry[p].name = n
        /\ p \in 1..Len(sh.entry)
    BY <1>2 DEF IsShelf, IndexSound, Active
  <2> HIDE DEF new
  <2>3. /\ new.entry \in Seq(E) /\ DOMAIN new.entry = DOMAIN sh.entry
        /\ \A i \in 1..Len(sh.entry) : i # p => new.entry[i] = sh.entry[i]
    <3>1. [sh.entry[p] EXCEPT !.state = FALSE] \in E
      <4>1. sh.entry[p] \in E
        <5> HIDE DEF E
        <5> QED BY <2>2
      <4> QED BY <4>1
    <3>2. new.entry = [sh.entry EXCEPT ![p] = [sh.entry[p] EXCEPT !.state = FALSE]]
      BY <2>1
    <3> HIDE DEF E
    <3> QED BY <2>2, <3>1, <3>2
  <2>4. ASSUME NEW m \in DOMAIN new.index
        PROVE  m # NoName /\ new.index[m] \in Active(new) /\ new.entry[new.index[m]].name = m
    <3>1. m \in DOMAIN sh.index /\ m # n /\ new.index[m] = sh.index[m]
      BY <2>1, <2>4
    <3>2. m # NoName /\ sh.index[m] \in Active(sh) /\ sh.entry[sh.index[m]].name = m
      BY <3>1 DEF IndexSound
    <3>3. sh.index[m] # p
      BY <2>2, <3>1, <3>2
    <3>4. sh.index[m] \in DOMAIN sh.entry /\ sh.entry[sh.index[m]].state
          /\ DOMAIN sh.entry = 1..Len(sh.entry)
      BY <2>2, <3>2 DEF Active
    <3> QED BY <2>3, <3>1, <3>2, <3>3, <3>4 DEF Active
  <2>5. IsShelf(new, D, N)
    BY <2>1, <2>2, <2>3 DEF IsShelf
  <2> QED BY <2>4, <2>5 DEF IndexSound, new
<1> QED BY <1>1, <1>2

\* The copying constructor makes a sound shelf of a sound one (dicts.cpp:253-280).
LEMMA CopySound ==
  ASSUME NEW D, NEW N, NEW sh, IsShelf(sh, D, N), IndexSound(sh)
  PROVE  IsShelf(Copy(sh), D, N) /\ IndexSound(Copy(sh))
<1> DEFINE new == Copy(sh)
           E == [dict : D, name : N \cup {NoName}, state : BOOLEAN]
<1>1. new.entry = Packed(sh) /\ new.index = [m \in DOMAIN sh.index |-> Rank(sh, sh.index[m])]
  BY DEF Copy
<1>s. sh.entry \in Seq(E)
  BY DEF IsShelf
<1> HIDE DEF new, E
<1>2. \A i \in Active(sh) : sh.entry[i] \in E
  BY <1>s DEF Active
<1>3. /\ Packed(sh) \in Seq(E)
      /\ \A i \in Active(sh) : /\ Rank(sh, i) \in 1..Len(Packed(sh))
                               /\ Packed(sh)[Rank(sh, i)] = sh.entry[i]
  BY <1>2, PackedAt
<1>4. IsShelf(new, D, N)
  BY <1>1, <1>3 DEF IsShelf, E
<1>5. ASSUME NEW m \in DOMAIN new.index
      PROVE  m # NoName /\ new.index[m] \in Active(new) /\ new.entry[new.index[m]].name = m
  <2>1. m \in DOMAIN sh.index /\ new.index[m] = Rank(sh, sh.index[m])
    BY <1>1, <1>5
  <2>2. m # NoName /\ sh.index[m] \in Active(sh) /\ sh.entry[sh.index[m]].name = m
    BY <2>1 DEF IndexSound
  <2>3. sh.entry[sh.index[m]].state
    BY <2>2 DEF Active
  <2>4. new.index[m] \in 1..Len(new.entry) /\ new.entry[new.index[m]] = sh.entry[sh.index[m]]
    BY <1>1, <1>3, <2>1, <2>2
  <2>5. new.index[m] \in DOMAIN new.entry
    BY <1>1, <1>3, <2>4
  <2> QED BY <2>2, <2>3, <2>4, <2>5 DEF Active
<1> QED BY <1>4, <1>5 DEF IndexSound, new
----------------------------------------------------------------------------
\* Where the active entries go under each operation.

\* A definition comes last.
LEMMA PutRanks ==
  ASSUME NEW D, NEW N, NEW sh, IsShelf(sh, D, N), NEW d \in D, NEW n \in N \cup {NoName},
         NEW last, last = Len(sh.entry) + 1
  PROVE  /\ Active(Put(sh, d, n)) = Active(sh) \cup {last} /\ last \notin Active(sh)
         /\ \A i \in Active(sh) : /\ Put(sh, d, n).entry[i] = sh.entry[i]
                                  /\ Rank(Put(sh, d, n), i) = Rank(sh, i)
         /\ Put(sh, d, n).entry[last] = [dict |-> d, name |-> n, state |-> TRUE]
         /\ Rank(Put(sh, d, n), last) = Cardinality(Active(sh)) + 1
         /\ Cardinality(Active(Put(sh, d, n))) = Cardinality(Active(sh)) + 1
<1> DEFINE e == [dict |-> d, name |-> n, state |-> TRUE]
           new == Put(sh, d, n)
           E == [dict : D, name : N \cup {NoName}, state : BOOLEAN]
           A == Active(sh)
<1>1. e \in E /\ e.state /\ new.entry = Append(sh.entry, e) /\ sh.entry \in Seq(E)
  BY DEF Put, IsShelf
<1>2. A \subseteq 1..Len(sh.entry) /\ Len(sh.entry) \in Nat /\ IsFiniteSet(A)
  BY ActiveFinite
<1> HIDE DEF e, E, new, A
<1>3. /\ DOMAIN new.entry = 1..Len(sh.entry) + 1 /\ DOMAIN sh.entry = 1..Len(sh.entry)
      /\ \A i \in 1..Len(sh.entry) : new.entry[i] = sh.entry[i]
      /\ new.entry[last] = e
  BY <1>1
<1>4. Active(new) = A \cup {last} /\ last \notin A
  BY <1>1, <1>2, <1>3 DEF Active, A
<1>5. Cardinality(Active(new)) = Cardinality(A) + 1
  BY <1>2, <1>4, FS_AddElement
<1>6. ASSUME NEW i \in A PROVE Rank(new, i) = Rank(sh, i) /\ new.entry[i] = sh.entry[i]
  <2>1. {j \in Active(new) : j <= i} = {j \in A : j <= i}
    BY <1>2, <1>4
  <2>2. i \in Active(new)
    BY <1>4
  <2> QED BY <1>2, <1>3, <2>1, <2>2 DEF Rank, A
<1>7. Rank(new, last) = Cardinality(A) + 1
  <2>1. ASSUME NEW j \in Active(new) PROVE j <= last
    <3>1. j \in A \/ j = last
      BY <1>4, <2>1
    <3>2. last \in Nat
      BY <1>2
    <3>3. j \in A => j \in 1..Len(sh.entry)
      BY <1>2
    <3> QED BY <1>2, <3>1, <3>2, <3>3
  <2>2. {j \in Active(new) : j <= last} = Active(new)
    BY <2>1
  <2> QED BY <1>4, <1>5, <2>2 DEF Rank
<1> QED BY <1>3, <1>4, <1>5, <1>6, <1>7 DEF new, A, e

\* Behind an entry switched off, every other moves down by one.
LEMMA DropRanks ==
  ASSUME NEW D, NEW N, NEW sh, IsShelf(sh, D, N), IndexSound(sh), NEW n \in DOMAIN sh.index,
         NEW p, p = sh.index[n]
  PROVE  /\ p \in Active(sh) /\ Active(Drop(sh, n)) = Active(sh) \ {p}
         /\ \A i \in Active(sh) \ {p} :
              /\ Drop(sh, n).entry[i] = sh.entry[i]
              /\ Rank(Drop(sh, n), i) = IF i < p THEN Rank(sh, i) ELSE Rank(sh, i) - 1
         /\ Cardinality(Active(Drop(sh, n))) = Cardinality(Active(sh)) - 1
<1> DEFINE new == Drop(sh, n)
           A == Active(sh)
           upTo(i) == {j \in A : j <= i}
<1>1. /\ new.entry = [sh.entry EXCEPT ![p].state = FALSE]
      /\ p \in A /\ DOMAIN sh.entry = 1..Len(sh.entry)
  BY DEF Drop, Indexed, IndexSound, IsShelf
<1>2. A \subseteq 1..Len(sh.entry) /\ Len(sh.entry) \in Nat /\ IsFiniteSet(A)
  BY ActiveFinite
<1>3. /\ DOMAIN new.entry = DOMAIN sh.entry
      /\ \A i \in DOMAIN sh.entry : i # p => new.entry[i] = sh.entry[i]
      /\ ~new.entry[p].state
  <2>1. sh.entry[p] \in [dict : D, name : N \cup {NoName}, state : BOOLEAN]
    <3> DEFINE E == [dict : D, name : N \cup {NoName}, state : BOOLEAN]
    <3>1. sh.entry \in Seq(E)
      BY DEF IsShelf
    <3>2. sh.entry[p] \in E
      <4> HIDE DEF E
      <4> QED BY <1>1, <1>2, <3>1
    <3> QED BY <3>2
  <2>2. [sh.entry[p] EXCEPT !.state = FALSE].state = FALSE
    BY <2>1
  <2>3. new.entry = [sh.entry EXCEPT ![p] = [sh.entry[p] EXCEPT !.state = FALSE]]
    BY <1>1
  <2> QED BY <1>1, <1>2, <2>2, <2>3
<1> HIDE DEF new, A, upTo
<1>4. Active(new) = A \ {p}
  BY <1>3 DEF Active, A
<1>r. ASSUME NEW T, IsFiniteSet(T), p \in T PROVE Cardinality(T \ {p}) = Cardinality(T) - 1
  BY <1>r, FS_RemoveElement
<1>5. Cardinality(Active(new)) = Cardinality(A) - 1
  BY <1>1, <1>2, <1>4, <1>r
<1>6. ASSUME NEW i \in A \ {p}
      PROVE  Rank(new, i) = IF i < p THEN Rank(sh, i) ELSE Rank(sh, i) - 1
  <2>1. Rank(new, i) = Cardinality({j \in A \ {p} : j <= i}) /\ Rank(sh, i) = Cardinality(upTo(i))
    BY <1>4 DEF Rank, A, upTo
  <2>2. CASE i < p
    <3>1. {j \in A \ {p} : j <= i} = upTo(i)
      BY <1>2, <1>1, <2>2 DEF upTo
    <3> QED BY <2>1, <2>2, <3>1
  <2>3. CASE ~(i < p)
    <3>1. {j \in A \ {p} : j <= i} = upTo(i) \ {p} /\ p \in upTo(i)
      BY <1>1, <1>2, <2>3 DEF upTo
    <3>2. IsFiniteSet(upTo(i))
      BY <1>2, FS_Subset DEF upTo
    <3> QED BY <2>1, <2>3, <3>1, <3>2, <1>r
  <2> QED BY <2>2, <2>3
<1> QED BY <1>1, <1>3, <1>4, <1>5, <1>6 DEF new, A, Active

\* In a copy every entry is active and in its place.
LEMMA CopyRanks ==
  ASSUME NEW D, NEW N, NEW sh, IsShelf(sh, D, N), NEW k, k = Cardinality(Active(sh))
  PROVE  /\ Active(Copy(sh)) = 1..k /\ Cardinality(Active(Copy(sh))) = k
         /\ \A r \in 1..k : Rank(Copy(sh), r) = r
<1> DEFINE new == Copy(sh)
<1>1. new.entry = Packed(sh)
  BY DEF Copy
<1>2. PICK E : E = {e \in {sh.entry[i] : i \in Active(sh)} : e.state}
  OBVIOUS
<1>3. \A i \in Active(sh) : sh.entry[i] \in E
  BY <1>2 DEF Active
<1>p. Packed(sh) \in Seq(E) /\ Len(Packed(sh)) = k /\ k \in Nat
  BY <1>3, PackedAt, ActiveFinite
<1> HIDE DEF new
<1>4. \A r \in 1..k : new.entry[r].state
  BY <1>1, <1>2, <1>p
<1>5. Active(new) = 1..k
  BY <1>1, <1>p, <1>4 DEF Active
<1>6. ASSUME NEW r \in 1..k PROVE Rank(new, r) = r
  <2>1. {j \in Active(new) : j <= r} = 1..r
    BY <1>p, <1>5
  <2>2. Cardinality(1..r) = r
    BY <1>p, FS_Interval
  <2> QED BY <1>5, <2>1, <2>2 DEF Rank
<1> QED BY <1>p, <1>5, <1>6, FS_Interval DEF new
=============================================================================
