----------------------------- MODULE DictScope -----------------------------
(***************************************************************************)
(* What the reference shelves promise the rule language, without vectors,  *)
(* positions or state flags: a scope is the sequence of dictionaries in    *)
(* force and what each name is bound to; a nested scope starts as a copy.  *)
(***************************************************************************)
EXTENDS SequencesExt

CONSTANTS Word, Name, NoName, MaxDicts

NoDict == 0

VARIABLES scopes,  \* the open scopes, innermost last
          holds,   \* holds[d]: the words dictionary d matches
          answer   \* the dictionary the last lookup found, or NoDict

vars == <<scopes, holds, answer>>

Scope == Last(scopes)
Becomes(scope) == scopes' = Append(Front(scopes), scope)

Init == /\ scopes = <<[force |-> <<>>, bound |-> <<>>]>>
        /\ holds = <<>>
        /\ answer = NoDict

\* Dictionary d under the name n comes into force.
With(scope, d, n) ==
  [force |-> Append(scope.force, [dict |-> d, name |-> n]),
   bound |-> [m \in DOMAIN scope.bound \cup ({n} \ {NoName}) |->
                IF m = n THEN d ELSE scope.bound[m]]]

\* The dictionary in force at i and the name n bound to it go.
Without(scope, i, n) ==
  [force |-> RemoveAt(scope.force, i),
   bound |-> [m \in DOMAIN scope.bound \ {n} |-> scope.bound[m]]]

Define(n, ws) ==
  /\ Len(holds) < MaxDicts
  /\ holds' = Append(holds, ws)
  /\ Becomes(With(Scope, Len(holds) + 1, n))
  /\ UNCHANGED answer

Forget(n) ==
  /\ n \in DOMAIN Scope.bound
  /\ \E i \in DOMAIN Scope.force :
       /\ Scope.force[i] = [dict |-> Scope.bound[n], name |-> n]
       /\ Becomes(Without(Scope, i, n))
  /\ UNCHANGED <<holds, answer>>

Open == /\ scopes' = Append(scopes, Scope)
        /\ UNCHANGED <<holds, answer>>

Close == /\ Len(scopes) > 1
         /\ scopes' = Front(scopes)
         /\ UNCHANGED <<holds, answer>>

\* The latest dictionary in force that holds the word.
Look(x) ==
  LET found == {f.dict : f \in {g \in ToSet(Scope.force) : x \in holds[g.dict]}} IN
  /\ answer' = IF found = {} THEN NoDict ELSE Max(found)
  /\ UNCHANGED <<scopes, holds>>

Next == \/ \E n \in Name \cup {NoName}, ws \in SUBSET Word : Define(n, ws)
        \/ \E n \in Name : Forget(n)
        \/ Open \/ Close
        \/ \E x \in Word : Look(x)

Spec == Init /\ [][Next]_vars
=============================================================================
