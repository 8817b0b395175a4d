---------------------------- MODULE MCReaderText ----------------------------
(***************************************************************************)
(* Two kinds of files: every short text, with longer ones behind the head  *)
(* of a directive, and files written as a sequence of directives.          *)
(***************************************************************************)
EXTENDS ReaderText, FiniteSets

CONSTANTS Short, Long, \* lengths of texts
          Directives   \* number of directives of a file

Heads == {<<"make">>, <<"raw", "colon">>, <<"defdir", "lparen", "name", "rparen">>,
          <<"context", "open">>}
BlockSymbols == {"open", "close", "backslash", "comment", "newline", "name"}

AnyContent == BoundedSeq(Symbol, Short) \cup
              {h \o s : h \in Heads, s \in BoundedSeq(BlockSymbols, Long)}

\* What a programmer writes, each directive on its own: a text, and the marks in it.
Piece(text, marks) == [text |-> text, marks |-> marks]
Reads(what, n, to, s, e) ==
  <<[at |-> 1, to |-> to,
     call |-> [what |-> what, name |-> n, at |-> 1, start |-> s, end |-> e]]>>
Body == <<"name", "open", "backslash", "close", "close", "comment", "newline">>

Pieces == {
  Piece(<<"defdir", "space", "lparen", "name", "space", "rparen", "comment", "open", "newline", "open">>
          \o Body \o <<"close">>, Reads("defdir", <<"name">>, 18, 11, 18)),
  Piece(<<"noextend", "lparen", "rparen", "open", "close">>, Reads("noextend", <<>>, 5, 5, 5)),
  Piece(<<"undefdir", "lparen", "space", "name", "rparen">>, Reads("undefdir", <<"name">>, 5, 0, 5)),
  Piece(<<"unnoextend", "lparen", "name", "rparen">>, Reads("unnoextend", <<"name">>, 4, 0, 4)),
  Piece(<<"make", "newline", "open">> \o Body \o <<"close">>, Reads("make", <<>>, 11, 4, 11)),
  Piece(<<"make", "space", "colon", "other", "backslash", "newline", "open", "newline">>,
        Reads("make", <<>>, 8, 4, 8)),
  Piece(<<"raw", "colon", "space", "close", "comment", "make", "newline">>,
        Reads("raw", <<>>, 4, 3, 5)),
  Piece(<<"name", "colon", "make", "newline">>, Reads("raw", <<>>, 4, 1, 4)),
  Piece(<<"comment", "close", "context", "newline">>, <<>>),
  Piece(<<"context", "comment", "newline", "open">>, Reads("context", <<>>, 4, 0, 4)),
  Piece(<<"close">>, <<[at |-> 1, to |-> 1, call |-> [what |-> "end", at |-> 1]]>>)}

\* A directive behind n other characters.
Behind(m, n) ==
  [at |-> m.at + n, to |-> m.to + n,
   call |-> IF m.call.what = "end" THEN [m.call EXCEPT !.at = @ + n]
            ELSE [m.call EXCEPT !.at = @ + n, !.end = @ + n,
                                !.start = IF @ = 0 THEN 0 ELSE @ + n]]

Joined(f, g) ==
  Piece(f.text \o g.text, f.marks \o [k \in DOMAIN g.marks |-> Behind(g.marks[k], Len(f.text))])

\* Every file of up to so many pieces.
MCWritten == {FoldLeft(Joined, Piece(<<>>, <<>>), s) : s \in BoundedSeq(Pieces, Directives)}
MCContent == AnyContent \cup {f.text : f \in MCWritten}
=============================================================================
