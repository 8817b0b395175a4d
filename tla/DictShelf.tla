----------------------------- MODULE DictShelf -----------------------------
(***************************************************************************)
(* The dictionary shelves of src/dicts.cpp as values.  prefix_dicts and    *)
(* noextend_dicts are the same container over two kinds of dictionary: a   *)
(* vector of (dict, state) and a map from a name to a position in it.      *)
(* Positions count from 1 here and from 0 in the code.                     *)
(***************************************************************************)
EXTENDS Integers, Sequences, FiniteSets

CONSTANT NoName  \* the empty name of an unnamed (DEFAULT_DICT) dictionary

\* A shelf: entry[i] is vector element i with the name of its dictionary,
\* index the name_index_map.
EmptyShelf == [entry |-> <<>>, index |-> <<>>]

Indexed(sh, n) == n \in DOMAIN sh.index

\* (mutant) a redefinition keeps the index on the older dictionary
PutKeepsIndex(sh, d, n) ==
  [entry |-> Append(sh.entry, [dict |-> d, name |-> n, state |-> TRUE]),
   index |-> [m \in DOMAIN sh.index \cup ({n} \ {NoName}) |->
                IF Indexed(sh, m) THEN sh.index[m] ELSE Len(sh.entry) + 1]]

\* prefix_dicts::defdir: push the dictionary; a name points at its last definition.
Put(sh, d, n) ==
  [entry |-> Append(sh.entry, [dict |-> d, name |-> n, state |-> TRUE]),
   index |-> [m \in DOMAIN sh.index \cup ({n} \ {NoName}) |->
                IF m = n THEN Len(sh.entry) + 1 ELSE sh.index[m]]]

\* (mutant) the erased name stays in the index
DropKeepsName(sh, n) ==
  IF ~Indexed(sh, n) THEN sh
  ELSE [sh EXCEPT !.entry[sh.index[n]].state = FALSE]

\* ref_prefix_dicts::undefdir: switch the dictionary off and forget the name.
Drop(sh, n) ==
  IF ~Indexed(sh, n) THEN sh
  ELSE [entry |-> [sh.entry EXCEPT ![sh.index[n]].state = FALSE],
        index |-> [m \in DOMAIN sh.index \ {n} |-> sh.index[m]]]

Active(sh) == {i \in DOMAIN sh.entry : sh.entry[i].state}

\* asist[i]: where an active entry goes; the vector starts as zeros, position 1 here.
Rank(sh, i) == IF i \in Active(sh)
               THEN Cardinality({j \in Active(sh) : j <= i})
               ELSE 1

\* The active entries, packed.
Packed(sh) == [r \in 1..Cardinality(Active(sh)) |->
                 sh.entry[CHOOSE i \in Active(sh) : Rank(sh, i) = r]]

\* (mutant) the map is copied without the remapping
CopyKeepsIndex(sh) == [entry |-> Packed(sh), index |-> sh.index]

Copy(sh) == [entry |-> Packed(sh),
             index |-> [m \in DOMAIN sh.index |-> Rank(sh, sh.index[m])]]

\* The twins in noextend_dicts and ref_noextend_dicts.
PutNoextend(sh, d, n) == Put(sh, d, n)
DropNoextend(sh, n) == Drop(sh, n)
CopyNoextend(sh) == Copy(sh)

\* The positions of the active dictionaries of D: full() and match() of a word are
\* asked with the set of dictionaries that match it.
Hits(sh, D) == {i \in Active(sh) : sh.entry[i].dict \in D}

\* ref_prefix_dicts::full: the last active dictionary that matches gives the prefix.
Full(sh, D, none) ==
  IF Hits(sh, D) = {} THEN none
  ELSE sh.entry[CHOOSE i \in Hits(sh, D) : \A j \in Hits(sh, D) : j <= i].dict

\* ref_noextend_dicts::match: some active dictionary matches.
Match(sh, D) == Hits(sh, D) # {}
----------------------------------------------------------------------------
\* A shelf of dictionaries in D under names in N.
IsShelf(sh, D, N) ==
  /\ sh.entry \in Seq([dict : D, name : N \cup {NoName}, state : BOOLEAN])
  /\ DOMAIN sh.index \subseteq N

\* What the assertions of dicts.cpp need of a shelf: a name leads to a dictionary
\* on the shelf (278, 562), of that name (278, 562), not switched off (296, 580).
IndexSound(sh) ==
  \A n \in DOMAIN sh.index :
    /\ n # NoName
    /\ sh.index[n] \in Active(sh)
    /\ sh.entry[sh.index[n]].name = n
=============================================================================
