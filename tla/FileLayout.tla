----------------------------- MODULE FileLayout -----------------------------
(***************************************************************************)
(* How a rule file is laid out, said of its text alone: the directives, in *)
(* their order, each with the place where it begins and ends and with the  *)
(* call of Context it stands for.  What src/reader.cpp makes of such a     *)
(* text is in ReaderText.                                                  *)
(***************************************************************************)
EXTENDS Integers, Sequences, Blocks

Directive == {"defdir", "noextend", "undefdir", "unnoextend", "context", "raw", "make"}
NameChars == Directive \cup {"name"}   \* is_name_char
Symbol == NameChars \cup {"space", "newline", "comment", "open", "close", "colon",
                          "backslash", "lparen", "rparen", "other"}

Braces(t) ==  \* the depth behind each character, escaped braces not counted
  LET d[i \in 0..Len(t)] ==
        IF i = 0 THEN 0
        ELSE d[i - 1] + (IF Escapes(t)[i] THEN 0 ELSE
                         CASE t[i] = "open" -> 1 [] t[i] = "close" -> -1 [] OTHER -> 0)
  IN d

Balanced(t) == /\ ForBlock(t) /\ Braces(t)[Len(t)] = 0
               /\ \A i \in 1..Len(t) : Braces(t)[i] >= 0

\* A call of Context, and a directive from `at` to `to` that stands for it.
Named == [what : Directive, name : Seq(Symbol), at : Nat, start : Nat, end : Nat]
Calling == [what : {"end"}, at : Nat] \cup Named
Mark == [at : Nat, to : Nat, call : Calling]

-----------------------------------------------------------------------------
(* Parts of a directive, from i on. *)

\* k is behind a '#' that begins at or behind i.
InComment(t, i, k) ==
  \E c \in i..k - 1 : t[c] = "comment" /\ \A l \in c..k - 1 : t[l] # "newline"

\* Nothing but blanks and comments; in a gap the last comment is ended.
Skipped(t, i, j) ==
  \A k \in i..j : t[k] \in {"space", "newline", "comment"} \/ InComment(t, i, k)
Gap(t, i, j) == Skipped(t, i, j) /\ ~InComment(t, i, j + 1)

Spaces(t, i, j) == \A k \in i..j : t[k] = "space"

\* ( name ), with the brackets at l and j and the name from a up to b.
NameAt(t, i, l, a, b, j) ==
  /\ t[l] = "lparen" /\ t[j] = "rparen"
  /\ Spaces(t, i, l - 1) /\ Spaces(t, l + 1, a - 1) /\ Spaces(t, b, j - 1)
  /\ \A k \in a..b - 1 : t[k] \in NameChars
  /\ a = b => a = j

\* { text }, with the text from s up to e.
BlockAt(t, i, s, e) ==
  /\ Gap(t, i, s - 2) /\ t[s - 1] = "open"
  /\ t[e] = "close" /\ Balanced(SubSeq(t, s, e - 1))

\* The rest of a line from s up to e, behind a colon or from the first name on; h is
\* what it is told by.
LineAt(t, i, h, s, e) ==
  /\ Gap(t, i, h - 1)
  /\ (t[h] = "colon" /\ s = h + 1) \/ (t[h] \in NameChars /\ s = h)
  /\ t[e] \in {"newline", "comment"} /\ ForLine(SubSeq(t, s, e - 1))

-----------------------------------------------------------------------------
(* Directives. *)

Says(m, what, name, start, end) ==
  m.call = [what |-> what, name |-> name, at |-> m.at, start |-> start, end |-> end]

EndMark(t, m) == t[m.at] = "close" /\ m.to = m.at /\ m.call = [what |-> "end", at |-> m.at]

ContextMark(t, m) ==
  /\ t[m.at] = "context" /\ Says(m, "context", <<>>, 0, m.to)
  /\ m.at < m.to /\ Gap(t, m.at + 1, m.to - 1) /\ t[m.to] = "open"

\* undefdir and unnoextend need a name.
UndefMark(t, m) ==
  /\ t[m.at] \in {"undefdir", "unnoextend"}
  /\ \E l \in m.at + 1..m.to : \E a \in l + 1..m.to : \E b \in a..m.to :
       /\ NameAt(t, m.at + 1, l, a, b, m.to) /\ a < b
       /\ Says(m, t[m.at], SubSeq(t, a, b - 1), 0, m.to)

DefMark(t, m) ==
  /\ t[m.at] \in {"defdir", "noextend"}
  /\ \E l \in m.at + 1..m.to : \E a \in l + 1..m.to : \E b \in a..m.to : \E j \in b..m.to :
       /\ NameAt(t, m.at + 1, l, a, b, j)
       /\ \E s \in j + 2..m.to :
            BlockAt(t, j + 1, s, m.to) /\ Says(m, t[m.at], SubSeq(t, a, b - 1), s, m.to)

BlockMark(t, m) ==
  /\ t[m.at] \in {"raw", "make"}
  /\ \E s \in m.at + 2..m.to :
       BlockAt(t, m.at + 1, s, m.to) /\ Says(m, t[m.at], <<>>, s, m.to)

\* Raw text needs no word for it.  The '#' that ends a line belongs to what follows.
LineMark(t, m) ==
  /\ t[m.at] \in {"raw", "make"} \cup (NameChars \ Directive)
  /\ LET from == IF t[m.at] \in Directive THEN m.at + 1 ELSE m.at
         what == IF t[m.at] = "make" THEN "make" ELSE "raw"
     IN \E h \in from..Len(t) : \E s \in h..h + 1 : \E e \in s..Len(t) :
          /\ LineAt(t, from, h, s, e) /\ Says(m, what, <<>>, s, e)
          /\ m.to = IF t[e] = "newline" THEN e ELSE e - 1

IsMark(t, m) ==
  /\ m.at \in 1..Len(t) /\ m.to \in m.at..Len(t)
  /\ \/ EndMark(t, m) \/ ContextMark(t, m) \/ UndefMark(t, m) \/ DefMark(t, m)
     \/ BlockMark(t, m) \/ LineMark(t, m)

\* The directive a call is made for, found in the text by what the call says.
MarkOf(t, call) ==
  [at |-> call.at, call |-> call,
   to |-> IF call.what = "end" THEN call.at
          ELSE IF t[call.end] = "comment" THEN call.end - 1 ELSE call.end]
MarksOf(t, cs, n) == [k \in 1..n |-> MarkOf(t, cs[k])]

-----------------------------------------------------------------------------
(* Files. *)

To(f, k) == IF k = 0 THEN 0 ELSE f[k].to

\* Between the directives, and behind the last, there are blanks and comments.
Layout(t, f) ==
  /\ \A k \in 1..Len(f) : /\ IsMark(t, f[k]) /\ To(f, k - 1) < f[k].at
                          /\ Gap(t, To(f, k - 1) + 1, f[k].at - 1)
  /\ Skipped(t, To(f, Len(f)) + 1, Len(t))

\* How many contexts are open behind each directive.
Opens(m) == CASE m.call.what = "context" -> 1 [] m.call.what = "end" -> -1 [] OTHER -> 0
Depth(f) ==
  LET d[i \in 0..Len(f)] == IF i = 0 THEN 0 ELSE d[i - 1] + Opens(f[i])
  IN d

\* Contexts are closed, and only what is open is closed.
Nested(f) == Depth(f)[Len(f)] = 0 /\ \A i \in 0..Len(f) : Depth(f)[i] >= 0
=============================================================================
