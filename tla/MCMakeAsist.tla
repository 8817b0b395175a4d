----------------------------- MODULE MCMakeAsist -----------------------------
\* MakeAsist for TLC: the directives files are made of, by the question asked.
EXTENDS MakeAsist

Workers == Permutations(Worker)

D(op, name, holds, words, fate) ==
  [op |-> op, name |-> name, holds |-> holds, words |-> words, fate |-> fate]

Def(name, holds)   == D("defdir", name, holds, <<>>, "ok")
NoExt(name, holds) == D("noextend", name, holds, <<>>, "ok")
Undef(name)        == D("undefdir", name, {}, <<>>, "ok")
UnNoExt(name)      == D("unnoextend", name, {}, <<>>, "ok")
MakeOf(words)      == D("make", NoName, {}, words, "ok")
RawBlock           == D("raw", NoName, {}, <<>>, "ok")
Ctx                == D("context", NoName, {}, <<>>, "ok")
Bad(d)             == [d EXCEPT !.fate = "bad"]
Throwing(d)        == [d EXCEPT !.fate = "throw"]

\* dictionaries of one name, the word they hold, and blocks that use it
ScopeDirectives ==
  {Def("n", {"a"}), Undef("n"), NoExt("n", {"a"}), UnNoExt("n"), MakeOf(<<"a">>), Ctx}

\* every kind of block, with and without an error
ErrorDirectives ==
  {Def("n", {"a"}), Bad(Def("n", {"a"})), MakeOf(<<"a", "b">>), Bad(MakeOf(<<"a">>)),
   RawBlock, Bad(RawBlock), Bad(NoExt(NoName, {"a"})), Throwing(Def(NoName, {"b"})), Ctx}
\* contexts, dictionaries and blocks that wait for them, for the liveness runs
ProgressDirectives ==
  {Def("n", {"a"}), Bad(NoExt(NoName, {"b"})), MakeOf(<<"a">>), Ctx}

\* a dictionary with an invalid pattern
ThrowDirectives == {Throwing(Def("n", {"a"})), MakeOf(<<"a">>)}

=============================================================================
