---------------------------- MODULE MCBlockText ----------------------------
(***************************************************************************)
(* Every short text over the characters that steer a task, and longer ones *)
(* over few of them, so that two pairs and full buffers are reached.       *)
(***************************************************************************)
EXTENDS BlockText

CONSTANTS DictShort, DictLong, MakeShort, MakeLong  \* the lengths

DictChars == {"space", "newline", "colon", "backslash", "name", "comment", "quote"}
PairChars == {"newline", "colon", "name"}
MakeChars == {"tab", "space", "newline", "backslash", "name", "mark", "comment", "quote", "other"}
\* A pair whose prefix is an escaped backslash, and another.
TwoPairs == <<"name", "colon", "backslash", "backslash", "newline", "name", "colon", "name">>

LineChars == {"tab", "newline", "name", "other"}

MCText(t) ==
  {x \in IF t \in {"defdir", "noextend"}
         THEN BoundedSeq(DictChars, DictShort) \cup BoundedSeq(PairChars, DictLong) \cup {TwoPairs}
         ELSE BoundedSeq(MakeChars, MakeShort) \cup BoundedSeq(LineChars, MakeLong) : ForBlock(x)}
=============================================================================
