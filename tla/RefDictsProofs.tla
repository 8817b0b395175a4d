--------------------------- MODULE RefDictsProofs ---------------------------
(***************************************************************************)
(* The assertions of ref_prefix_dicts and ref_noextend_dicts hold for any  *)
(* sequence of definitions, removals and copies, over any names.           *)
(***************************************************************************)
EXTENDS RefDicts, DictShelfProofs

Good(sh) == IsShelf(sh, 1..MaxDicts, Name) /\ IndexSound(sh)

\* The inductive form of AllIndexSound: a stack, never empty, of good shelves.
GoodStack ==
  /\ \E S : shelves \in Seq(S)
  /\ Len(shelves) >= 1
  /\ \A i \in 1..Len(shelves) : Good(shelves[i])
  /\ holds \in Seq(SUBSET Word) /\ Len(holds) <= MaxDicts

\* Replacing the innermost shelf, or adding one, by a good shelf keeps the stack good.
LEMMA StackOps ==
  ASSUME GoodStack, NEW sh, Good(sh)
  PROVE  /\ shelves' = Append(Front(shelves), sh) \/ shelves' = Append(shelves, sh) =>
              /\ \E S : shelves' \in Seq(S)
              /\ Len(shelves') >= 1
              /\ \A i \in 1..Len(shelves') : Good(shelves'[i])
         /\ Good(Top)
<1>1. PICK S : shelves \in Seq(S)
  BY DEF GoodStack
<1>2. Len(shelves) \in Nat /\ Len(shelves) >= 1 /\ \A i \in 1..Len(shelves) : Good(shelves[i])
  BY <1>1 DEF GoodStack
<1>3. /\ Front(shelves) \in Seq(S) /\ Len(Front(shelves)) = Len(shelves) - 1
      /\ \A i \in 1..Len(Front(shelves)) : Front(shelves)[i] = shelves[i]
  BY <1>1, <1>2, FrontFacts
<1>4. ASSUME NEW s \in Seq(S), \A i \in 1..Len(s) : Good(s[i]), shelves' = Append(s, sh)
      PROVE  /\ shelves' \in Seq(S \cup {sh}) /\ Len(shelves') >= 1
             /\ \A i \in 1..Len(shelves') : Good(shelves'[i])
  <2>1. s \in Seq(S \cup {sh}) /\ sh \in S \cup {sh}
    OBVIOUS
  <2>2. /\ shelves' \in Seq(S \cup {sh}) /\ Len(shelves') = Len(s) + 1 /\ Len(s) \in Nat
        /\ \A i \in 1..Len(s) : shelves'[i] = s[i]
        /\ shelves'[Len(s) + 1] = sh
    BY <1>4, <2>1
  <2>3. ASSUME NEW i \in 1..Len(shelves') PROVE Good(shelves'[i])
    <3>1. i \in 1..Len(s) \/ i = Len(s) + 1
      BY <2>2
    <3> QED BY <1>4, <2>2, <3>1
  <2> QED BY <2>2, <2>3
<1>5. Good(Top)
  BY <1>2 DEF Top, Last
<1> QED BY <1>1, <1>2, <1>3, <1>4, <1>5

\* The stack starts good and stays good.
LEMMA GoodAlways == Spec => []GoodStack
<1>1. Init => GoodStack
  <2> SUFFICES ASSUME Init PROVE GoodStack
    OBVIOUS
  <2>1. shelves = <<EmptyShelf>> /\ holds = <<>>
    BY DEF Init
  <2>2. Good(EmptyShelf)
    BY EmptySound DEF Good
  <2>3. shelves \in Seq({EmptyShelf}) /\ Len(shelves) = 1 /\ shelves[1] = EmptyShelf
    BY <2>1
  <2>4. holds \in Seq(SUBSET Word) /\ Len(holds) <= MaxDicts
    BY <2>1, BoundAssumption
  <2> QED BY <2>2, <2>3, <2>4 DEF GoodStack
<1>2. GoodStack /\ [Next]_vars => GoodStack'
  <2> SUFFICES ASSUME GoodStack, [Next]_vars PROVE GoodStack'
    OBVIOUS
  <2>0. Good(Top)
    BY StackOps, EmptySound DEF Good
  <2>1. ASSUME NEW n \in Name \cup {NoName}, NEW ws \in SUBSET Word, Define(n, ws)
        PROVE  GoodStack'
    <3>1. Len(holds) + 1 \in 1..MaxDicts
      BY <2>1, BoundAssumption DEF Define, GoodStack
    <3>2. Good(Put(Top, Len(holds) + 1, n))
      BY <2>0, <3>1, PutSound, NameAssumption DEF Good
    <3>3. holds' \in Seq(SUBSET Word) /\ Len(holds') <= MaxDicts
      BY <2>1, BoundAssumption DEF Define, GoodStack
    <3> QED BY <2>1, <3>2, <3>3, StackOps DEF Define, TopBecomes, GoodStack
  <2>2. ASSUME NEW n \in Name, Forget(n) PROVE GoodStack'
    <3>1. Good(Drop(Top, n))
      BY <2>0, DropSound DEF Good
    <3> QED BY <2>2, <3>1, StackOps DEF Forget, TopBecomes, GoodStack
  <2>3. CASE Open
    <3>1. Good(Copy(Top))
      BY <2>0, CopySound DEF Good
    <3> QED BY <2>3, <3>1, StackOps DEF Open, GoodStack
  <2>4. CASE Close
    <3>1. PICK S : shelves \in Seq(S)
      BY DEF GoodStack
    <3>2. /\ shelves' \in Seq(S) /\ Len(shelves') = Len(shelves) - 1 /\ Len(shelves') >= 1
          /\ \A i \in 1..Len(shelves') : shelves'[i] = shelves[i] /\ i \in 1..Len(shelves)
      <4>1. Len(shelves) \in Nat /\ Len(shelves) > 1 /\ shelves' = Front(shelves)
        BY <2>4, <3>1 DEF Close
      <4> QED BY <3>1, <4>1, FrontFacts
    <3> QED BY <2>4, <3>2 DEF Close, GoodStack
  <2>5. ASSUME NEW x \in Word, Look(x) PROVE GoodStack'
    BY <2>5 DEF Look, GoodStack
  <2>6. CASE UNCHANGED vars
    BY <2>6 DEF vars, GoodStack
  <2> QED BY <2>1, <2>2, <2>3, <2>4, <2>5, <2>6 DEF Next
<1> QED BY <1>1, <1>2, PTL DEF Spec

\* Every assertion on a shelf holds in every state: see AllIndexSound.
THEOREM ShelfAssertions == Spec => []AllIndexSound
<1>1. GoodStack => AllIndexSound
  BY DEF GoodStack, AllIndexSound, Good
<1> QED BY <1>1, GoodAlways, PTL
----------------------------------------------------------------------------
\* The scope a shelf stands for.  Entry i of the shelf is in force at Rank(i).
Items == [dict : 1..MaxDicts, name : Name \cup {NoName}]
Item(e) == [dict |-> e.dict, name |-> e.name]
InForce(sh) == [r \in DOMAIN Packed(sh) |-> Item(Packed(sh)[r])]
Bound(sh) == [n \in DOMAIN sh.index |-> sh.entry[sh.index[n]].dict]

LEMMA ScopeIs == \A sh : ScopeOf(sh) = [force |-> InForce(sh), bound |-> Bound(sh)]
BY DEF ScopeOf, InForce, Bound, Item

LEMMA ForceAt ==
  ASSUME NEW sh, Good(sh)
  PROVE  /\ InForce(sh) \in Seq(Items) /\ Len(InForce(sh)) = Cardinality(Active(sh))
         /\ \A i \in Active(sh) : /\ Rank(sh, i) \in 1..Len(InForce(sh))
                                  /\ InForce(sh)[Rank(sh, i)] = Item(sh.entry[i])
<1> DEFINE P == Packed(sh)
           E == [dict : 1..MaxDicts, name : Name \cup {NoName}, state : BOOLEAN]
           k == Cardinality(Active(sh))
<1>1. /\ IsShelf(sh, 1..MaxDicts, Name) /\ sh.entry \in Seq(E) /\ k \in Nat
      /\ Active(sh) \subseteq 1..Len(sh.entry)
  BY ActiveFinite DEF Good, IsShelf
<1>2. \A e \in E : Item(e) \in Items
  BY DEF Item, Items
<1> HIDE DEF E, P, k
<1>3. \A i \in Active(sh) : sh.entry[i] \in E
  BY <1>1
<1>4. /\ P \in Seq(E) /\ Len(P) = k
      /\ \A i \in Active(sh) : Rank(sh, i) \in 1..k /\ P[Rank(sh, i)] = sh.entry[i]
  BY <1>1, <1>3, PackedAt DEF P, k
<1>5. InForce(sh) = [r \in 1..k |-> Item(P[r])]
  BY <1>4 DEF InForce, P
<1>6. InForce(sh) \in [1..k -> Items]
  BY <1>2, <1>4, <1>5
<1>7. InForce(sh) \in Seq(Items) /\ Len(InForce(sh)) = k
  BY <1>1, <1>6
<1> QED BY <1>4, <1>5, <1>7 DEF k

\* A sequence with every active entry at its rank is the one in force.
LEMMA ForceIs ==
  ASSUME NEW sh, Good(sh), NEW q \in Seq(Items), Len(q) = Cardinality(Active(sh)),
         \A i \in Active(sh) : q[Rank(sh, i)] = Item(sh.entry[i])
  PROVE  InForce(sh) = q
<1>1. \A r \in 1..Cardinality(Active(sh)) : \E i \in Active(sh) : Rank(sh, i) = r
  BY RankNumbers DEF Good
<1>2. \A r \in 1..Len(InForce(sh)) : InForce(sh)[r] = q[r]
  BY <1>1, ForceAt
<1> QED BY <1>2, ForceAt, SeqEqual

\* DictScope's operators on sequences are those of the library.
LEMMA SameOperators ==
  /\ \A q : Scopes!Front(q) = Front(q) /\ Scopes!Last(q) = Last(q) /\ Scopes!ToSet(q) = ToSet(q)
  /\ \A q, i : Scopes!RemoveAt(q, i) = RemoveAt(q, i)
  /\ \A S : Scopes!Max(S) = Max(S)
BY DEF Front, Last, ToSet, RemoveAt, Max,
       Scopes!Front, Scopes!Last, Scopes!ToSet, Scopes!RemoveAt, Scopes!Max

\* A definition enters the scope behind all others and takes the name.
LEMMA PutScope ==
  ASSUME NEW sh, Good(sh), NEW d \in 1..MaxDicts, NEW n \in Name \cup {NoName}
  PROVE  /\ Good(Put(sh, d, n))
         /\ InForce(Put(sh, d, n)) = Append(InForce(sh), [dict |-> d, name |-> n])
         /\ ScopeOf(Put(sh, d, n)) = Scopes!With(ScopeOf(sh), d, n)
<1> DEFINE new == Put(sh, d, n)
           f == [dict |-> d, name |-> n]
           q == Append(InForce(sh), f)
<1>1. Good(new)
  BY PutSound, NameAssumption DEF Good
<1>2. PICK last : last = Len(sh.entry) + 1
  OBVIOUS
<1>3. /\ Active(new) = Active(sh) \cup {last} /\ last \notin Active(sh)
      /\ \A i \in Active(sh) : new.entry[i] = sh.entry[i] /\ Rank(new, i) = Rank(sh, i)
      /\ new.entry[last] = [dict |-> d, name |-> n, state |-> TRUE]
      /\ Rank(new, last) = Cardinality(Active(sh)) + 1
      /\ Cardinality(Active(new)) = Cardinality(Active(sh)) + 1
  <2>1. PICK D : IsShelf(sh, D, Name) /\ d \in D
    BY DEF Good
  <2> QED BY <1>2, <2>1, PutRanks
<1>4. f \in Items /\ Item(new.entry[last]) = f
  BY <1>3 DEF Items, Item
<1>5. new.index = [m \in DOMAIN sh.index \cup ({n} \ {NoName}) |->
                     IF m = n THEN last ELSE sh.index[m]]
  BY <1>2 DEF Put
<1>6. \A m \in DOMAIN sh.index : sh.index[m] \in Active(sh)
  BY DEF Good, IndexSound
<1>7. new.entry[last].dict = d
  BY <1>3
<1> HIDE DEF new, f
<1>8. /\ q \in Seq(Items) /\ Len(q) = Len(InForce(sh)) + 1 /\ Len(InForce(sh)) \in Nat
      /\ \A r \in 1..Len(InForce(sh)) : q[r] = InForce(sh)[r]
      /\ q[Len(InForce(sh)) + 1] = f
  BY <1>4, ForceAt
<1> HIDE DEF q
<1>9. InForce(new) = q
  <2>1. \A i \in Active(new) : q[Rank(new, i)] = Item(new.entry[i])
    BY <1>3, <1>4, <1>8, ForceAt
  <2>2. Len(q) = Cardinality(Active(new))
    BY <1>3, <1>8, ForceAt
  <2>3. q \in Seq(Items)
    BY <1>8
  <2> QED BY <1>1, <2>1, <2>2, <2>3, ForceIs
<1>10. Bound(new) = [m \in DOMAIN Bound(sh) \cup ({n} \ {NoName}) |->
                       IF m = n THEN d ELSE Bound(sh)[m]]
  <2>1. DOMAIN Bound(sh) = DOMAIN sh.index /\ DOMAIN new.index = DOMAIN sh.index \cup ({n} \ {NoName})
    BY <1>5 DEF Bound
  <2>2. ASSUME NEW m \in DOMAIN new.index
        PROVE  new.entry[new.index[m]].dict = IF m = n THEN d ELSE Bound(sh)[m]
    BY <1>3, <1>5, <1>6, <1>7, <2>1 DEF Bound
  <2> QED BY <2>1, <2>2 DEF Bound
<1>11. ScopeOf(new) = Scopes!With(ScopeOf(sh), d, n)
  BY <1>9, <1>10, ScopeIs DEF Scopes!With, q, f
<1> QED BY <1>1, <1>9, <1>11 DEF new, q, f

\* What taking out an element leaves.
LEMMA RemoveAtFacts ==
  ASSUME NEW S, NEW q \in Seq(S), NEW i \in 1..Len(q)
  PROVE  /\ RemoveAt(q, i) \in Seq(S) /\ Len(RemoveAt(q, i)) = Len(q) - 1
         /\ \A r \in 1..Len(q) - 1 : RemoveAt(q, i)[r] = IF r < i THEN q[r] ELSE q[r + 1]
<1> DEFINE a == SubSeq(q, 1, i - 1)
           b == SubSeq(q, i + 1, Len(q))
<1>1. Len(q) \in Nat /\ i \in Nat /\ 1 <= i /\ i <= Len(q)
  OBVIOUS
<1>2. \A r \in 1..Len(q) : q[r] \in S
  OBVIOUS
<1>3. /\ a \in Seq(S) /\ Len(a) = i - 1
      /\ \A r \in 1..i - 1 : a[r] = q[r]
  <2>1. \A r \in 1..i - 1 : q[r] \in S
    BY <1>1, <1>2
  <2> QED BY <1>1, <2>1, SubSeqProperties
<1>4. /\ b \in Seq(S) /\ Len(b) = Len(q) - i
      /\ \A r \in 1..Len(q) - i : b[r] = q[i + r]
  <2>1. \A r \in i + 1..Len(q) : q[r] \in S
    BY <1>1, <1>2
  <2>2. /\ b \in Seq(S) /\ Len(b) = (IF i + 1 <= Len(q) THEN Len(q) - (i + 1) + 1 ELSE 0)
        /\ \A r \in 1..Len(q) - (i + 1) + 1 : b[r] = q[i + 1 + r - 1]
    BY <1>1, <2>1, SubSeqProperties
  <2> HIDE DEF b
  <2>3. Len(q) - (i + 1) + 1 = Len(q) - i /\ \A r \in 1..Len(q) - i : i + 1 + r - 1 = i + r
    BY <1>1
  <2>4. Len(b) = Len(q) - i
    <3>1. CASE i = Len(q)
      BY <1>1, <2>2, <3>1
    <3>2. CASE i < Len(q)
      <4>1. i + 1 <= Len(q)
        BY <1>1, <3>2
      <4> QED BY <2>2, <2>3, <4>1
    <3> QED BY <1>1, <3>1, <3>2
  <2>5. \A r \in 1..Len(q) - i : b[r] = q[i + r]
    BY <2>2, <2>3
  <2> QED BY <2>2, <2>4, <2>5
<1> HIDE DEF a, b
<1>5. /\ a \o b \in Seq(S) /\ Len(a \o b) = Len(q) - 1
      /\ \A r \in 1..Len(q) - 1 : (a \o b)[r] = IF r <= i - 1 THEN a[r] ELSE b[r - (i - 1)]
  <2>1. Len(a) + Len(b) = Len(q) - 1
    BY <1>1, <1>3, <1>4
  <2>2. /\ a \o b \in Seq(S) /\ Len(a \o b) = Len(a) + Len(b)
        /\ \A r \in 1..Len(a) + Len(b) : (a \o b)[r] = IF r <= Len(a) THEN a[r] ELSE b[r - Len(a)]
    BY <1>3, <1>4, ConcatProperties
  <2> QED BY <1>3, <2>1, <2>2
<1>6. ASSUME NEW r \in 1..Len(q) - 1 PROVE (a \o b)[r] = IF r < i THEN q[r] ELSE q[r + 1]
  <2>1. CASE r < i
    BY <1>1, <1>3, <1>5, <2>1
  <2>2. CASE ~(r < i)
    <3>1. r - (i - 1) \in 1..Len(q) - i /\ i + (r - (i - 1)) = r + 1 /\ ~(r <= i - 1)
      BY <1>1, <2>2
    <3>2. (a \o b)[r] = b[r - (i - 1)]
      BY <1>5, <3>1
    <3> QED BY <1>4, <2>2, <3>1, <3>2
  <2> QED BY <2>1, <2>2
<1> QED BY <1>5, <1>6 DEF RemoveAt, a, b

\* A removal takes the dictionary out of the scope, wherever it stands, and its name.
LEMMA DropScope ==
  ASSUME NEW sh, Good(sh), NEW n \in DOMAIN sh.index
  PROVE  /\ Good(Drop(sh, n))
         /\ \E i \in 1..Len(InForce(sh)) :
              /\ InForce(sh)[i] = [dict |-> Bound(sh)[n], name |-> n]
              /\ InForce(Drop(sh, n)) = RemoveAt(InForce(sh), i)
              /\ ScopeOf(Drop(sh, n)) = Scopes!Without(ScopeOf(sh), i, n)
<1> DEFINE new == Drop(sh, n)
<1>1. Good(new)
  BY DropSound DEF Good
<1>2. PICK p : p = sh.index[n]
  OBVIOUS
<1>3. /\ p \in Active(sh) /\ Active(new) = Active(sh) \ {p}
      /\ \A i \in Active(sh) \ {p} :
           /\ new.entry[i] = sh.entry[i]
           /\ Rank(new, i) = IF i < p THEN Rank(sh, i) ELSE Rank(sh, i) - 1
      /\ Cardinality(Active(new)) = Cardinality(Active(sh)) - 1
  BY <1>2, DropRanks DEF Good
<1>4. sh.entry[p].name = n /\ n # NoName
  BY <1>2 DEF Good, IndexSound
<1>5. new.index = [m \in DOMAIN sh.index \ {n} |-> sh.index[m]]
  BY DEF Drop, Indexed
<1>6. \A i, j \in Active(sh) : i \in Nat /\ j \in Nat /\ (i < j => Rank(sh, i) < Rank(sh, j))
  BY RankNumbers, ActiveFinite DEF Good
<1> HIDE DEF new
<1>7. PICK k : k = Rank(sh, p)
  OBVIOUS
<1>8. k \in 1..Len(InForce(sh)) /\ InForce(sh)[k] = Item(sh.entry[p]) /\ InForce(sh) \in Seq(Items)
  BY <1>3, <1>7, ForceAt
<1>9. InForce(sh)[k] = [dict |-> Bound(sh)[n], name |-> n]
  BY <1>2, <1>4, <1>8 DEF Item, Bound
<1>10. PICK q : q = RemoveAt(InForce(sh), k)
  OBVIOUS
<1>11. /\ q \in Seq(Items) /\ Len(q) = Len(InForce(sh)) - 1
       /\ \A r \in 1..Len(InForce(sh)) - 1 : q[r] = IF r < k THEN InForce(sh)[r] ELSE InForce(sh)[r + 1]
  BY <1>8, <1>10, RemoveAtFacts
<1>12. ASSUME NEW i \in Active(new) PROVE q[Rank(new, i)] = Item(new.entry[i])
  <2>1. i \in Active(sh) /\ i # p /\ i \in Nat /\ p \in Nat
    BY <1>3, <1>6, <1>12
  <2>2. Rank(sh, i) \in 1..Len(InForce(sh)) /\ InForce(sh)[Rank(sh, i)] = Item(new.entry[i])
    BY <1>3, <2>1, ForceAt
  <2>3. CASE i < p
    <3>1. Rank(new, i) = Rank(sh, i) /\ Rank(sh, i) < k
      BY <1>3, <1>6, <1>7, <2>1, <2>3
    <3>2. Rank(sh, i) \in 1..Len(InForce(sh)) - 1
      BY <1>8, <2>2, <3>1
    <3> QED BY <1>11, <2>2, <3>1, <3>2
  <2>4. CASE p < i
    <3>1. Rank(new, i) = Rank(sh, i) - 1 /\ k < Rank(sh, i)
      BY <1>3, <1>6, <1>7, <2>1, <2>4
    <3>2. /\ Rank(sh, i) - 1 \in 1..Len(InForce(sh)) - 1 /\ ~(Rank(sh, i) - 1 < k)
          /\ Rank(sh, i) - 1 + 1 = Rank(sh, i)
      BY <1>8, <2>2, <3>1
    <3> QED BY <1>11, <2>2, <3>1, <3>2
  <2> QED BY <2>1, <2>3, <2>4
<1>13. Len(q) = Cardinality(Active(new))
  BY <1>3, <1>11, ForceAt
<1>14. InForce(new) = q
  BY <1>1, <1>11, <1>12, <1>13, ForceIs
<1>15. Bound(new) = [m \in DOMAIN Bound(sh) \ {n} |-> Bound(sh)[m]]
  <2>1. DOMAIN Bound(sh) = DOMAIN sh.index /\ DOMAIN new.index = DOMAIN sh.index \ {n}
    BY <1>5 DEF Bound
  <2>2. ASSUME NEW m \in DOMAIN new.index
        PROVE  new.entry[new.index[m]].dict = Bound(sh)[m]
    <3>1. m \in DOMAIN sh.index /\ m # n /\ new.index[m] = sh.index[m]
      BY <1>5, <2>1
    <3>2. sh.index[m] \in Active(sh) /\ sh.entry[sh.index[m]].name = m
      BY <3>1 DEF Good, IndexSound
    <3>3. sh.index[m] # p
      BY <1>4, <3>1, <3>2
    <3> QED BY <1>3, <3>1, <3>2, <3>3 DEF Bound
  <2> QED BY <2>1, <2>2 DEF Bound
<1>16. ScopeOf(new) = Scopes!Without(ScopeOf(sh), k, n)
  BY <1>10, <1>14, <1>15, ScopeIs, SameOperators DEF Scopes!Without
<1> QED BY <1>1, <1>8, <1>9, <1>10, <1>14, <1>16 DEF new

\* A copy stands for the same scope.
LEMMA CopyScope ==
  ASSUME NEW sh, Good(sh)
  PROVE  /\ Good(Copy(sh)) /\ Active(Copy(sh)) = 1..Len(InForce(sh))
         /\ InForce(Copy(sh)) = InForce(sh) /\ ScopeOf(Copy(sh)) = ScopeOf(sh)
         /\ \A r \in 1..Len(InForce(sh)) : Copy(sh).entry[r].dict = InForce(sh)[r].dict
<1> DEFINE new == Copy(sh)
<1>1. Good(new)
  BY CopySound DEF Good
<1>2. PICK k : k = Cardinality(Active(sh))
  OBVIOUS
<1>3. /\ Active(new) = 1..k /\ Cardinality(Active(new)) = k
      /\ \A r \in 1..k : Rank(new, r) = r
  BY <1>2, CopyRanks DEF Good
<1>4. new.entry = Packed(sh) /\ new.index = [m \in DOMAIN sh.index |-> Rank(sh, sh.index[m])]
  BY DEF Copy
<1>5. \A i \in Active(sh) : Packed(sh)[Rank(sh, i)] = sh.entry[i]
  <2>1. PICK E : E = {sh.entry[i] : i \in Active(sh)}
    OBVIOUS
  <2>2. \A i \in Active(sh) : sh.entry[i] \in E
    BY <2>1
  <2> QED BY <2>2, PackedAt DEF Good
<1>6. InForce(sh) \in Seq(Items) /\ Len(InForce(sh)) = k /\ DOMAIN Packed(sh) = 1..k
  BY <1>2, ForceAt DEF Packed
<1> HIDE DEF new
<1>7. \A r \in 1..k : InForce(sh)[r] = Item(new.entry[r])
  BY <1>4, <1>6 DEF InForce
<1>8. InForce(new) = InForce(sh)
  <2>1. \A i \in Active(new) : InForce(sh)[Rank(new, i)] = Item(new.entry[i])
    BY <1>3, <1>7
  <2> QED BY <1>1, <1>3, <1>6, <2>1, ForceIs
<1>9. Bound(new) = Bound(sh)
  <2>1. \A m \in DOMAIN sh.index : new.entry[new.index[m]] = sh.entry[sh.index[m]]
    BY <1>4, <1>5 DEF Good, IndexSound
  <2>2. DOMAIN new.index = DOMAIN sh.index
    BY <1>4
  <2> QED BY <2>1, <2>2 DEF Bound
<1>10. \A r \in 1..k : new.entry[r].dict = InForce(sh)[r].dict
  <2>1. \A e : Item(e).dict = e.dict
    BY DEF Item
  <2> QED BY <1>7, <2>1
<1>11. ScopeOf(new) = ScopeOf(sh)
  BY <1>8, <1>9, ScopeIs
<1> QED BY <1>1, <1>3, <1>6, <1>8, <1>10, <1>11 DEF new
----------------------------------------------------------------------------
\* The stack of scopes.
ScopesOf(st) == [i \in DOMAIN st |-> ScopeOf(st[i])]

LEMMA ScopesAppend ==
  ASSUME NEW S, NEW st \in Seq(S), NEW sh
  PROVE  ScopesOf(Append(st, sh)) = Append(ScopesOf(st), ScopeOf(sh))
<1>1. PICK T : T = S \cup {sh}
  OBVIOUS
<1>2. st \in Seq(T) /\ sh \in T
  BY <1>1
<1>3. PICK q : q = Append(st, sh)
  OBVIOUS
<1>4. /\ DOMAIN q = 1..Len(st) + 1 /\ Len(st) \in Nat /\ DOMAIN st = 1..Len(st)
      /\ \A i \in 1..Len(st) : q[i] = st[i]
      /\ q[Len(st) + 1] = sh
  BY <1>2, <1>3
<1>5. PICK R : R = {ScopeOf(x) : x \in T}
  OBVIOUS
<1>6. /\ ScopesOf(st) \in Seq(R) /\ Len(ScopesOf(st)) = Len(st) /\ ScopeOf(sh) \in R
      /\ \A i \in 1..Len(st) : ScopesOf(st)[i] = ScopeOf(st[i])
  <2>1. ScopesOf(st) \in [1..Len(st) -> R]
    BY <1>2, <1>4, <1>5 DEF ScopesOf
  <2> QED BY <1>2, <1>4, <1>5, <2>1 DEF ScopesOf
<1>7. PICK p : p = Append(ScopesOf(st), ScopeOf(sh))
  OBVIOUS
<1>8. /\ DOMAIN p = 1..Len(st) + 1
      /\ \A i \in 1..Len(st) : p[i] = ScopeOf(st[i])
      /\ p[Len(st) + 1] = ScopeOf(sh)
      /\ p \in [1..Len(st) + 1 -> R]
  <2>1. /\ p \in Seq(R) /\ Len(p) = Len(st) + 1
        /\ \A i \in 1..Len(st) : p[i] = ScopesOf(st)[i]
        /\ p[Len(st) + 1] = ScopeOf(sh)
    BY <1>6, <1>7, PushFacts
  <2> QED BY <1>6, <2>1
<1>9. \A i \in 1..Len(st) + 1 : p[i] = ScopeOf(q[i])
  <2>1. \A i \in 1..Len(st) + 1 : i \in 1..Len(st) \/ i = Len(st) + 1
    BY <1>4
  <2> QED BY <1>4, <1>8, <2>1
<1>10. p = ScopesOf(q)
  BY <1>4, <1>8, <1>9 DEF ScopesOf
<1> QED BY <1>3, <1>7, <1>10

LEMMA ScopesFront ==
  ASSUME NEW S, NEW st \in Seq(S), Len(st) >= 1
  PROVE  /\ Len(ScopesOf(st)) = Len(st) /\ ScopesOf(st) # <<>>
         /\ Last(ScopesOf(st)) = ScopeOf(Last(st))
         /\ Front(ScopesOf(st)) = ScopesOf(Front(st))
         /\ st = Append(Front(st), Last(st))
<1>1. PICK R : R = {ScopeOf(x) : x \in S}
  OBVIOUS
<1>2. Len(st) \in Nat /\ DOMAIN st = 1..Len(st) /\ \A i \in 1..Len(st) : st[i] \in S
  OBVIOUS
<1>3. PICK f : f = ScopesOf(st)
  OBVIOUS
<1>4. /\ f \in Seq(R) /\ Len(f) = Len(st) /\ \A i \in 1..Len(st) : f[i] = ScopeOf(st[i])
  <2>1. f \in [1..Len(st) -> R]
    BY <1>1, <1>2, <1>3 DEF ScopesOf
  <2> QED BY <1>2, <1>3, <2>1 DEF ScopesOf
<1>5. f # <<>> /\ Last(f) = ScopeOf(Last(st))
  BY <1>2, <1>4 DEF Last
<1>6. /\ Front(f) \in Seq(R) /\ Len(Front(f)) = Len(st) - 1
      /\ \A i \in 1..Len(st) - 1 : Front(f)[i] = ScopeOf(st[i])
  <2>1. /\ Front(f) \in Seq(R) /\ Len(Front(f)) = Len(f) - 1
        /\ \A i \in 1..Len(f) - 1 : Front(f)[i] = f[i]
    BY <1>4, FrontFacts
  <2>2. \A i \in 1..Len(st) - 1 : i \in 1..Len(st)
    BY <1>2
  <2> QED BY <1>4, <2>1, <2>2
<1>7. /\ Front(st) \in Seq(S) /\ Len(Front(st)) = Len(st) - 1
      /\ \A i \in 1..Len(st) - 1 : Front(st)[i] = st[i]
  BY FrontFacts
<1>8. Front(f) = ScopesOf(Front(st))
  <2>1. DOMAIN Front(f) = 1..Len(st) - 1 /\ DOMAIN Front(st) = 1..Len(st) - 1
    BY <1>6, <1>7
  <2>2. \A i \in 1..Len(st) - 1 : Front(f)[i] = ScopeOf(Front(st)[i])
    BY <1>6, <1>7
  <2>3. Front(f) = [i \in 1..Len(st) - 1 |-> Front(f)[i]]
    BY <1>6, <2>1
  <2> QED BY <2>1, <2>2, <2>3 DEF ScopesOf
<1>9. st = Append(Front(st), Last(st))
  <2>1. Last(st) = st[Len(st)] /\ Last(st) \in S
    BY <1>2 DEF Last
  <2>2. PICK q : q = Append(Front(st), Last(st))
    OBVIOUS
  <2>3. PICK n : n = Len(st)
    OBVIOUS
  <2>4. /\ q \in Seq(S) /\ Len(q) = n - 1 + 1
        /\ \A i \in 1..n - 1 : q[i] = Front(st)[i]
        /\ q[n - 1 + 1] = Last(st)
    BY <1>7, <2>1, <2>2, <2>3, PushFacts
  <2>5. n - 1 + 1 = n /\ \A i \in 1..n : i \in 1..n - 1 \/ i = n
    <3>1. n \in Nat
      BY <1>2, <2>3
    <3> QED BY <3>1
  <2>6. \A i \in 1..n : q[i] = st[i]
    BY <1>7, <2>1, <2>3, <2>4, <2>5
  <2> QED BY <2>2, <2>3, <2>4, <2>5, <2>6, SeqEqual
<1> QED BY <1>3, <1>4, <1>5, <1>8, <1>9
----------------------------------------------------------------------------
\* The dictionaries in force are numbered as they were defined.
Rising(q, m) ==
  /\ \A r \in 1..Len(q) : q[r].dict \in 1..m
  /\ \A r, t \in 1..Len(q) : r < t => q[r].dict < q[t].dict

RisingInv == \A i \in 1..Len(shelves) : Rising(InForce(shelves[i]), Len(holds))

\* So the last entry that matches is the latest dictionary that does.
LEMMA FullIsLatest ==
  ASSUME NEW sh, Good(sh), NEW m \in Nat, Rising(InForce(sh), m), NEW D,
         NEW found,
         \A d : d \in found <=> \E r \in 1..Len(InForce(sh)) : d = InForce(sh)[r].dict /\ d \in D
  PROVE  Full(Copy(sh), D, NoDict) = IF found = {} THEN NoDict ELSE Max(found)
<1> DEFINE q == InForce(sh)
           H == Hits(Copy(sh), D)
<1>1. /\ q \in Seq(Items) /\ Len(q) \in Nat /\ DOMAIN q = 1..Len(q)
      /\ Active(Copy(sh)) = 1..Len(q)
      /\ \A r \in 1..Len(q) : Copy(sh).entry[r].dict = q[r].dict
  BY ForceAt, CopyScope
<1>2. H = {r \in 1..Len(q) : q[r].dict \in D}
  BY <1>1 DEF Hits
<1>3. found = {q[r].dict : r \in H}
  BY <1>2
<1>4. CASE H = {}
  BY <1>3, <1>4 DEF Full
<1>5. CASE H # {}
  <2>1. PICK r \in H : \A t \in H : t <= r
    <3>1. H \subseteq 1..Len(q)
      BY <1>2
    <3> QED BY <1>1, <1>5, <3>1, Greatest
  <2>2. \A t \in H : t \in 1..Len(q) /\ t \in Nat
    BY <1>1, <1>2
  <2>3. (CHOOSE i \in H : \A j \in H : j <= i) = r
    BY <2>1, <2>2
  <2>4. Full(Copy(sh), D, NoDict) = q[r].dict
    <3>1. Full(Copy(sh), D, NoDict) = Copy(sh).entry[r].dict
      BY <1>5, <2>3 DEF Full
    <3> QED BY <1>1, <2>2, <3>1
  <2>5. ASSUME NEW t \in H PROVE q[t].dict <= q[r].dict /\ q[t].dict \in Nat /\ q[r].dict \in Nat
    <3>1. t \in 1..Len(q) /\ r \in 1..Len(q) /\ t <= r
      BY <2>1, <2>2
    <3>2. q[t].dict \in 1..m /\ q[r].dict \in 1..m
      BY <3>1 DEF Rising
    <3>3. t = r \/ q[t].dict < q[r].dict
      BY <3>1 DEF Rising
    <3> QED BY <3>2, <3>3
  <2>6. q[r].dict \in found /\ \A d \in found : d <= q[r].dict /\ d \in Nat
    BY <1>3, <2>5
  <2>7. Max(found) = q[r].dict
    BY <2>6 DEF Max
  <2> QED BY <2>4, <2>6, <2>7
<1> QED BY <1>4, <1>5

\* A definition and a removal keep the order.
LEMMA RisingAppend ==
  ASSUME NEW q \in Seq(Items), NEW m \in Nat, Rising(q, m), NEW f \in Items, f.dict = m + 1
  PROVE  Rising(Append(q, f), m + 1) /\ Rising(q, m + 1)
<1>1. Len(q) \in Nat
  OBVIOUS
<1>2. PICK p : p = Append(q, f)
  OBVIOUS
<1>3. /\ Len(p) = Len(q) + 1 /\ p[Len(q) + 1] = f
      /\ \A r \in 1..Len(q) : p[r] = q[r]
  BY <1>2, PushFacts
<1>4. \A r \in 1..Len(q) : q[r].dict \in 1..m
  BY DEF Rising
<1>5. \A r \in 1..Len(p) : r \in 1..Len(q) \/ r = Len(q) + 1
  BY <1>1, <1>3
<1>6. \A r \in 1..Len(p) : p[r].dict \in 1..m + 1
  BY <1>1, <1>3, <1>4, <1>5
<1>7. ASSUME NEW r \in 1..Len(p), NEW t \in 1..Len(p), r < t PROVE p[r].dict < p[t].dict
  <2>1. r \in 1..Len(q)
    BY <1>1, <1>3, <1>7
  <2>2. CASE t \in 1..Len(q)
    BY <1>3, <1>7, <2>1, <2>2 DEF Rising
  <2>3. CASE t = Len(q) + 1
    BY <1>1, <1>3, <1>4, <2>1, <2>3
  <2> QED BY <1>5, <2>2, <2>3
<1>8. Rising(q, m + 1)
  BY <1>1, <1>4 DEF Rising
<1> QED BY <1>2, <1>6, <1>7, <1>8 DEF Rising

LEMMA RisingRemove ==
  ASSUME NEW q \in Seq(Items), NEW m, Rising(q, m), NEW i \in 1..Len(q)
  PROVE  Rising(RemoveAt(q, i), m)
<1>1. PICK n : n = Len(q)
  OBVIOUS
<1>2. PICK p : p = RemoveAt(q, i)
  OBVIOUS
<1>3. n \in Nat /\ i \in 1..n
  BY <1>1
<1>4. Len(p) = n - 1 /\ \A r \in 1..n - 1 : p[r] = IF r < i THEN q[r] ELSE q[r + 1]
  BY <1>1, <1>2, RemoveAtFacts
<1>5. PICK at : at = [r \in 1..n - 1 |-> IF r < i THEN r ELSE r + 1]
  OBVIOUS
<1>6. /\ \A r \in 1..n - 1 : at[r] \in 1..n
      /\ \A r, t \in 1..n - 1 : r < t => at[r] < at[t]
  BY <1>3, <1>5
<1>7. \A r \in 1..n - 1 : p[r] = q[at[r]]
  BY <1>4, <1>5
<1>8. /\ \A r \in 1..n : q[r].dict \in 1..m
      /\ \A r, t \in 1..n : r < t => q[r].dict < q[t].dict
  BY <1>1 DEF Rising
<1>9. Len(p) = n - 1 /\ \A r, t \in 1..n - 1 : r < t => p[r].dict < p[t].dict
  BY <1>4, <1>6, <1>7, <1>8
<1>10. \A r \in 1..n - 1 : p[r].dict \in 1..m
  BY <1>6, <1>7, <1>8
<1> QED BY <1>2, <1>9, <1>10 DEF Rising
----------------------------------------------------------------------------
\* Each step of the shelves is the step of the scopes they stand for.
Stand == GoodStack /\ RisingInv

LEMMA StandTop ==
  ASSUME Stand
  PROVE  /\ Good(Top) /\ Rising(InForce(Top), Len(holds)) /\ Len(holds) \in Nat
         /\ Len(shelves) \in Nat /\ Len(shelves) >= 1
         /\ Len(ScopesOf(shelves)) = Len(shelves)
         /\ Last(ScopesOf(shelves)) = ScopeOf(Top)
         /\ shelves = Append(Front(shelves), Top)
         /\ \A sh : ScopesOf(Append(Front(shelves), sh))
                      = Append(Front(ScopesOf(shelves)), ScopeOf(sh))
         /\ ScopesOf(Front(shelves)) = Front(ScopesOf(shelves))
         /\ \A sh : ScopesOf(Append(shelves, sh)) = Append(ScopesOf(shelves), ScopeOf(sh))
<1>1. PICK S : shelves \in Seq(S)
  BY DEF Stand, GoodStack
<1>2. Len(shelves) \in Nat /\ Len(shelves) >= 1
  BY <1>1 DEF Stand, GoodStack
<1>3. Front(shelves) \in Seq(S)
  BY <1>1, <1>2, FrontFacts
<1>4. Good(Top) /\ Rising(InForce(Top), Len(holds)) /\ Len(holds) \in Nat
  BY <1>2 DEF Stand, GoodStack, RisingInv, Top, Last
<1>5. \A sh : ScopesOf(Append(shelves, sh)) = Append(ScopesOf(shelves), ScopeOf(sh))
  BY <1>1, ScopesAppend
<1>6. \A sh : ScopesOf(Append(Front(shelves), sh)) = Append(ScopesOf(Front(shelves)), ScopeOf(sh))
  BY <1>3, ScopesAppend
<1>7. /\ Len(ScopesOf(shelves)) = Len(shelves)
      /\ Last(ScopesOf(shelves)) = ScopeOf(Top)
      /\ Front(ScopesOf(shelves)) = ScopesOf(Front(shelves))
      /\ shelves = Append(Front(shelves), Top)
  BY <1>1, <1>2, ScopesFront DEF Top
<1> QED BY <1>2, <1>4, <1>5, <1>6, <1>7

\* A stack changed at its top keeps the other shelves rising.
LEMMA RisingStack ==
  ASSUME Stand, NEW sh, NEW m, m = Len(holds'), Rising(InForce(sh), m),
         \A i \in 1..Len(shelves) : Rising(InForce(shelves[i]), m),
         shelves' = Append(Front(shelves), sh) \/ shelves' = Append(shelves, sh)
  PROVE  RisingInv'
<1>1. PICK S : shelves \in Seq(S)
  BY DEF Stand, GoodStack
<1>2. Len(shelves) \in Nat /\ Len(shelves) >= 1
  BY <1>1 DEF Stand, GoodStack
<1>3. /\ Front(shelves) \in Seq(S) /\ Len(Front(shelves)) = Len(shelves) - 1
      /\ \A i \in 1..Len(shelves) - 1 : Front(shelves)[i] = shelves[i]
  BY <1>1, <1>2, FrontFacts
<1>4. PICK T : T = S \cup {sh}
  OBVIOUS
<1>5. ASSUME NEW st \in Seq(T), \A i \in 1..Len(st) : Rising(InForce(st[i]), m),
             shelves' = Append(st, sh)
      PROVE  RisingInv'
  <2>1. /\ Len(shelves') = Len(st) + 1 /\ Len(st) \in Nat
        /\ \A i \in 1..Len(st) : shelves'[i] = st[i]
        /\ shelves'[Len(st) + 1] = sh
    BY <1>4, <1>5, PushFacts
  <2>2. \A i \in 1..Len(shelves') : i \in 1..Len(st) \/ i = Len(st) + 1
    BY <2>1
  <2> QED BY <1>5, <2>1, <2>2 DEF RisingInv
<1>6. shelves \in Seq(T) /\ Front(shelves) \in Seq(T)
  BY <1>1, <1>3, <1>4
<1>7. \A i \in 1..Len(Front(shelves)) : i \in 1..Len(shelves) /\ Front(shelves)[i] = shelves[i]
  BY <1>2, <1>3
<1> QED BY <1>5, <1>6, <1>7

\* A definition.
LEMMA DefineRefines ==
  ASSUME Stand, NEW n \in Name \cup {NoName}, NEW ws \in SUBSET Word, Define(n, ws)
  PROVE  RisingInv' /\ Scopes!Next
<1>0. PICK d : d = Len(holds) + 1
  OBVIOUS
<1>1. /\ d \in 1..MaxDicts /\ holds' = Append(holds, ws) /\ Len(holds') = d /\ answer' = answer
      /\ shelves' = Append(Front(shelves), Put(Top, d, n))
  BY <1>0, BoundAssumption DEF Define, TopBecomes, Stand, GoodStack
<1>2. PICK f : f = [dict |-> d, name |-> n]
  OBVIOUS
<1>3. /\ InForce(Put(Top, d, n)) = Append(InForce(Top), f)
      /\ ScopeOf(Put(Top, d, n)) = Scopes!With(ScopeOf(Top), d, n)
  BY <1>1, <1>2, StandTop, PutScope
<1>4. f \in Items /\ f.dict = d
  BY <1>1, <1>2 DEF Items
<1>5. RisingInv'
  <2>1. ASSUME NEW sh, Good(sh), Rising(InForce(sh), Len(holds))
        PROVE  Rising(Append(InForce(sh), f), d) /\ Rising(InForce(sh), d)
    BY <1>0, <1>4, <2>1, StandTop, ForceAt, RisingAppend
  <2>2. \A i \in 1..Len(shelves) : Rising(InForce(shelves[i]), d)
    BY <2>1 DEF Stand, GoodStack, RisingInv
  <2>3. Rising(InForce(Put(Top, d, n)), d)
    BY <1>3, <2>1, StandTop
  <2> QED BY <1>1, <2>2, <2>3, RisingStack
<1>6. Scopes!Define(n, ws)
  <2>1. PICK a, b : a = ScopesOf(shelves) /\ b = ScopesOf(shelves)'
    OBVIOUS
  <2>2. b = Append(Front(a), Scopes!With(Last(a), d, n))
    BY <1>1, <1>3, <2>1, StandTop
  <2> QED BY <1>0, <1>1, <2>1, <2>2, SameOperators
          DEF Scopes!Define, Scopes!Becomes, Scopes!Scope, ScopesOf, Define
<1> QED BY <1>5, <1>6 DEF Scopes!Next

\* A removal; a name that is not bound leaves the scope as it is.
LEMMA ForgetRefines ==
  ASSUME Stand, NEW n \in Name, Forget(n)
  PROVE  RisingInv' /\ [Scopes!Next]_(Scopes!vars)
<1>1. /\ holds' = holds /\ answer' = answer
      /\ shelves' = Append(Front(shelves), Drop(Top, n))
  BY DEF Forget, TopBecomes
<1>2. \A i \in 1..Len(shelves) : Rising(InForce(shelves[i]), Len(holds'))
  BY <1>1 DEF Stand, RisingInv
<1>3. CASE n \notin DOMAIN Top.index
  <2>1. Drop(Top, n) = Top
    BY <1>3 DEF Drop, Indexed
  <2>2. shelves' = shelves
    BY <1>1, <2>1, StandTop
  <2> QED BY <1>1, <2>2 DEF Stand, RisingInv, Scopes!vars
<1>4. CASE n \in DOMAIN Top.index
  <2>1. PICK i \in 1..Len(InForce(Top)) :
          /\ InForce(Top)[i] = [dict |-> Bound(Top)[n], name |-> n]
          /\ InForce(Drop(Top, n)) = RemoveAt(InForce(Top), i)
          /\ ScopeOf(Drop(Top, n)) = Scopes!Without(ScopeOf(Top), i, n)
    BY <1>4, StandTop, DropScope
  <2>2. InForce(Top) \in Seq(Items)
    BY StandTop, ForceAt
  <2>3. Rising(InForce(Drop(Top, n)), Len(holds'))
    BY <1>1, <2>1, <2>2, StandTop, RisingRemove
  <2>4. RisingInv'
    BY <1>1, <1>2, <2>3, RisingStack
  <2>5. PICK a, b : a = ScopesOf(shelves) /\ b = ScopesOf(shelves)'
    OBVIOUS
  <2>6. b = Append(Front(a), Scopes!Without(Last(a), i, n)) /\ Last(a) = ScopeOf(Top)
    BY <1>1, <2>1, <2>5, StandTop
  <2>7. /\ i \in DOMAIN Last(a).force /\ n \in DOMAIN Last(a).bound
        /\ Last(a).force[i] = [dict |-> Last(a).bound[n], name |-> n]
    <3>1. Last(a).force = InForce(Top) /\ Last(a).bound = Bound(Top)
      BY <2>6, ScopeIs
    <3>2. DOMAIN Bound(Top) = DOMAIN Top.index /\ DOMAIN InForce(Top) = 1..Len(InForce(Top))
      BY <2>2 DEF Bound
    <3> QED BY <1>4, <2>1, <3>1, <3>2
  <2>8. Scopes!Forget(n)
    BY <1>1, <2>5, <2>6, <2>7, SameOperators
       DEF Scopes!Forget, Scopes!Becomes, Scopes!Scope, ScopesOf
  <2> QED BY <2>4, <2>8 DEF Scopes!Next
<1> QED BY <1>3, <1>4

\* A context opens with a copy of the shelf, and ends.
LEMMA OpenRefines ==
  ASSUME Stand, Open
  PROVE  RisingInv' /\ Scopes!Next
<1>1. holds' = holds /\ answer' = answer /\ shelves' = Append(shelves, Copy(Top))
  BY DEF Open
<1>2. \A i \in 1..Len(shelves) : Rising(InForce(shelves[i]), Len(holds'))
  BY <1>1 DEF Stand, RisingInv
<1>3. ScopeOf(Copy(Top)) = ScopeOf(Top) /\ Rising(InForce(Copy(Top)), Len(holds'))
  BY <1>1, StandTop, CopyScope
<1>4. RisingInv'
  BY <1>1, <1>2, <1>3, RisingStack
<1>5. PICK a, b : a = ScopesOf(shelves) /\ b = ScopesOf(shelves)'
  OBVIOUS
<1>6. b = Append(a, Last(a))
  BY <1>1, <1>3, <1>5, StandTop
<1>7. Scopes!Open
  BY <1>1, <1>5, <1>6, SameOperators DEF Scopes!Open, Scopes!Scope, ScopesOf
<1> QED BY <1>4, <1>7 DEF Scopes!Next

LEMMA CloseRefines ==
  ASSUME Stand, Close
  PROVE  RisingInv' /\ Scopes!Next
<1>1. holds' = holds /\ answer' = answer /\ shelves' = Front(shelves) /\ Len(shelves) > 1
  BY DEF Close
<1>2. RisingInv'
  <2>1. PICK S : shelves \in Seq(S)
    BY DEF Stand, GoodStack
  <2>2. /\ Len(shelves') = Len(shelves) - 1
        /\ \A i \in 1..Len(shelves) - 1 : shelves'[i] = shelves[i] /\ i \in 1..Len(shelves)
    BY <1>1, <2>1, FrontFacts, StandTop
  <2> QED BY <1>1, <2>2 DEF Stand, RisingInv
<1>3. PICK a, b : a = ScopesOf(shelves) /\ b = ScopesOf(shelves)'
  OBVIOUS
<1>4. b = Front(a) /\ Len(a) > 1
  BY <1>1, <1>3, StandTop
<1>5. Scopes!Close
  BY <1>1, <1>3, <1>4, SameOperators DEF Scopes!Close, ScopesOf
<1> QED BY <1>2, <1>5 DEF Scopes!Next

\* A make block asks its copy for the prefix of a word.
LEMMA LookRefines ==
  ASSUME Stand, NEW x \in Word, Look(x)
  PROVE  RisingInv' /\ Scopes!Next
<1>1. UNCHANGED <<shelves, holds>> /\ answer' = Full(Copy(Top), Holding(x), NoDict)
  BY DEF Look
<1>2. RisingInv'
  BY <1>1 DEF Stand, RisingInv
<1>3. PICK q : q = InForce(Top)
  OBVIOUS
<1>4. PICK a : a = ScopesOf(shelves)
  OBVIOUS
<1>5. Last(a).force = q
  BY <1>3, <1>4, StandTop, ScopeIs
<1>6. PICK found : found = {f.dict : f \in {g \in ToSet(Last(a).force) : x \in holds[g.dict]}}
  OBVIOUS
<1>7. \A d : d \in found <=> \E r \in 1..Len(q) : d = q[r].dict /\ d \in Holding(x)
  <2>1. q \in Seq(Items) /\ DOMAIN holds = 1..Len(holds) /\ DOMAIN q = 1..Len(q)
    BY <1>3, StandTop, ForceAt DEF Stand, GoodStack
  <2>2. \A r \in 1..Len(q) : q[r].dict \in DOMAIN holds
    BY <1>3, <2>1, StandTop DEF Rising
  <2>3. \A g : g \in ToSet(q) <=> \E r \in 1..Len(q) : g = q[r]
    BY <2>1 DEF ToSet
  <2>4. \A d : d \in found <=> \E g \in ToSet(q) : x \in holds[g.dict] /\ d = g.dict
    BY <1>5, <1>6
  <2> QED BY <2>2, <2>3, <2>4 DEF Holding
<1>8. answer' = IF found = {} THEN NoDict ELSE Max(found)
  <2>1. PICK m, sh, D : m \in Nat /\ Good(sh) /\ Rising(InForce(sh), m) /\ sh = Top /\ D = Holding(x)
    BY StandTop
  <2>2. \A d : d \in found <=> \E r \in 1..Len(InForce(sh)) : d = InForce(sh)[r].dict /\ d \in D
    BY <1>3, <1>7, <2>1
  <2>3. Full(Copy(sh), D, NoDict) = IF found = {} THEN NoDict ELSE Max(found)
    BY <2>1, <2>2, FullIsLatest
  <2> QED BY <1>1, <2>1, <2>3
<1>9. Scopes!Look(x)
  BY <1>1, <1>4, <1>6, <1>8, SameOperators
     DEF Scopes!Look, Scopes!Scope, ScopesOf, NoDict, Scopes!NoDict
<1> QED BY <1>2, <1>9 DEF Scopes!Next

\* The shelves, with their vectors, positions, flags and remapping, implement scopes:
\* see ScopeSpec.
THEOREM ShelvesAreScopes == Spec => ScopeSpec
<1>1. Init => RisingInv /\ Scopes!Init
  <2> SUFFICES ASSUME Init PROVE RisingInv /\ Scopes!Init
    OBVIOUS
  <2>1. shelves = <<EmptyShelf>> /\ holds = <<>> /\ answer = NoDict
    BY DEF Init
  <2>2. Good(EmptyShelf)
    BY EmptySound DEF Good
  <2>3. Active(EmptyShelf) = {}
    BY DEF Active, EmptyShelf
  <2>4. InForce(EmptyShelf) \in Seq(Items) /\ Len(InForce(EmptyShelf)) = 0
    BY <2>2, <2>3, ForceAt, FS_EmptySet
  <2>5. InForce(EmptyShelf) = <<>>
    BY <2>4, EmptySeq
  <2>6. Bound(EmptyShelf) = <<>>
    BY DEF Bound, EmptyShelf
  <2>7. ScopeOf(EmptyShelf) = [force |-> <<>>, bound |-> <<>>]
    BY <2>5, <2>6, ScopeIs
  <2>8. ScopesOf(shelves) = <<[force |-> <<>>, bound |-> <<>>]>>
    BY <2>1, <2>7 DEF ScopesOf
  <2>9. RisingInv
    BY <2>1, <2>4 DEF RisingInv, Rising
  <2> QED BY <2>1, <2>8, <2>9 DEF Scopes!Init, ScopesOf, NoDict, Scopes!NoDict
<1>2. GoodStack /\ RisingInv /\ [Next]_vars => RisingInv' /\ [Scopes!Next]_(Scopes!vars)
  <2> SUFFICES ASSUME Stand, [Next]_vars PROVE RisingInv' /\ [Scopes!Next]_(Scopes!vars)
    BY DEF Stand
  <2>1. CASE UNCHANGED vars
    BY <2>1 DEF vars, Stand, RisingInv, Scopes!vars
  <2> QED BY <2>1, DefineRefines, ForgetRefines, OpenRefines, CloseRefines, LookRefines DEF Next
<1> QED BY <1>1, <1>2, GoodAlways, PTL DEF Spec, ScopeSpec, Scopes!Spec
=============================================================================
