------------------------------ MODULE RefDicts ------------------------------
(***************************************************************************)
(* The reference shelves of nested contexts (ref_prefix_dicts, and its     *)
(* twin ref_noextend_dicts, src/dicts.cpp) as the reader drives them: the  *)
(* innermost shelf is modified, a context copies it, a make block copies   *)
(* it and asks the copy.                                                   *)
(***************************************************************************)
EXTENDS DictShelf, SequencesExt

CONSTANTS Word, Name,
          MaxDicts,   \* bound: dictionaries ever defined
          MaxDepth    \* bound: shelves on the stack

ASSUME NameAssumption == NoName \notin Name
ASSUME BoundAssumption == MaxDicts \in Nat /\ MaxDepth \in Nat \ {0}

VARIABLES shelves,  \* the shelves of the open contexts, innermost last
          holds,    \* holds[d]: the words a pattern of dictionary d matches
          answer    \* the dictionary the last lookup found, or NoDict

vars == <<shelves, holds, answer>>

NoDict == 0
Top == Last(shelves)
TopBecomes(sh) == shelves' = Append(Front(shelves), sh)

\* ref_prefix_dicts() of the root context
Init == /\ shelves = <<EmptyShelf>>
        /\ holds = <<>>
        /\ answer = NoDict

\* Context::defdir: a new dictionary, put on the shelf.
Define(n, ws) ==
  /\ Len(holds) < MaxDicts
  /\ holds' = Append(holds, ws)
  /\ TopBecomes(Put(Top, Len(holds) + 1, n))
  /\ UNCHANGED answer

\* Context::undefdir
Forget(n) ==
  /\ TopBecomes(Drop(Top, n))
  /\ UNCHANGED <<holds, answer>>

\* Context(parent)
Open ==
  /\ Len(shelves) < MaxDepth
  /\ shelves' = Append(shelves, Copy(Top))
  /\ UNCHANGED <<holds, answer>>

\* the reader leaves the context
Close ==
  /\ Len(shelves) > 1
  /\ shelves' = Front(shelves)
  /\ UNCHANGED <<holds, answer>>

\* The dictionaries that match word x.
Holding(x) == {d \in DOMAIN holds : x \in holds[d]}

\* Context::make and full, for one word
Look(x) ==
  /\ answer' = Full(Copy(Top), Holding(x), NoDict)
  /\ UNCHANGED <<shelves, holds>>

Next == \/ \E n \in Name \cup {NoName}, ws \in SUBSET Word : Define(n, ws)
        \/ \E n \in Name : Forget(n)
        \/ Open \/ Close
        \/ \E x \in Word : Look(x)

Spec == Init /\ [][Next]_vars
----------------------------------------------------------------------------
\* Properties.

\* The assertions on a shelf never fail, in any sequence of definitions, removals
\* and copies (dicts.cpp:278, 296, 313).
AllIndexSound == \A i \in DOMAIN shelves : IndexSound(shelves[i])

\* The shelves implement scopes: vectors, positions, flags and remapping do what
\* a sequence of dictionaries and a binding of names do.
ScopeOf(sh) ==
  [force |-> [r \in DOMAIN Packed(sh) |->
               [dict |-> Packed(sh)[r].dict, name |-> Packed(sh)[r].name]],
   bound |-> [n \in DOMAIN sh.index |-> sh.entry[sh.index[n]].dict]]

Scopes == INSTANCE DictScope WITH
            scopes <- [i \in DOMAIN shelves |-> ScopeOf(shelves[i])]
ScopeSpec == Scopes!Spec
=============================================================================
