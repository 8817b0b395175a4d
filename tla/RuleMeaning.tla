---------------------------- MODULE RuleMeaning ----------------------------
(***************************************************************************)
(* What a rule file means, said without contexts, shelves, tasks or        *)
(* threads: the blocks in the order of the file, each word behind the      *)
(* prefix of the latest dictionary in scope that holds it.  home[k] is the *)
(* context directive k stands in; the context opened by directive c is c.  *)
(***************************************************************************)
EXTENDS SequencesExt

CONSTANT NoName

\* The contexts around directive k.
Around(home, k) ==
  LET around[i \in DOMAIN home] == IF i = 0 THEN {} ELSE {home[i]} \cup around[home[i]]
  IN  around[k]

\* What stands before k in k's context or in one around it.
InScope(home, j, k) == j < k /\ home[j] \in Around(home, k)

\* Directive u takes back definition j, the last of its name in u's scope.
TakesBack(script, home, u, j) ==
  /\ <<script[j].op, script[u].op>> \in {<<"defdir", "undefdir">>, <<"noextend", "unnoextend">>}
  /\ script[u].name = script[j].name /\ script[j].name # NoName
  /\ InScope(home, j, u)
  /\ \A i \in j+1..u-1 : ~ /\ InScope(home, i, u)
                           /\ script[i].op = script[j].op
                           /\ script[i].name = script[j].name

\* The definitions of kind op that hold word x at block k.
Holding(script, home, k, op, x) ==
  {j \in 1..k-1 : /\ script[j].op = op
                  /\ x \in script[j].holds
                  /\ InScope(home, j, k)
                  /\ ~\E u \in j+1..k-1 : InScope(home, u, k) /\ TakesBack(script, home, u, j)}

\* The definition whose prefix word x gets in block k, or 0.
Prefix(script, home, k, x) ==
  LET defs == Holding(script, home, k, "defdir", x) IN
  IF Holding(script, home, k, "noextend", x) # {} \/ defs = {} THEN 0 ELSE Max(defs)

\* What block k writes.
Piece(script, home, k) ==
  CASE script[k].op = "raw"  -> <<[in |-> k, word |-> NoName, prefix |-> 0]>>
    [] script[k].op = "make" ->
         [i \in DOMAIN script[k].words |->
            [in |-> k, word |-> script[k].words[i],
             prefix |-> Prefix(script, home, k, script[k].words[i])]]
    [] OTHER -> <<>>

Meaning(script, home) == FlattenSeq([k \in DOMAIN script |-> Piece(script, home, k)])
=============================================================================
