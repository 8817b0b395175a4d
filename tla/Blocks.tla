------------------------------- MODULE Blocks -------------------------------
(***************************************************************************)
(* What Reader::block_handler promises to the tasks about the text of a    *)
(* block, a sequence of character classes.                                 *)
(***************************************************************************)
EXTENDS Naturals, Sequences

\* Which characters of a text a backslash escapes for block_handler.
Escapes(t) ==
  LET escaped[i \in 0..(Len(t) + 1)] ==
        i > 1 /\ t[i - 1] = "backslash" /\ ~escaped[i - 1]
  IN escaped

\* The texts block_handler takes from a block { }, and from the rest of a line.
ForBlock(t) == ~Escapes(t)[Len(t) + 1]
ForLine(t) == /\ ForBlock(t)
              /\ \A i \in DOMAIN t : t[i] \in {"newline", "comment"} => Escapes(t)[i]

\* A character is behind a '#' on its physical line.
Commented(t, i) == \E j \in 1..(i - 1) : /\ t[j] = "comment"
                                         /\ \A k \in j..(i - 1) : t[k] # "newline"
=============================================================================
