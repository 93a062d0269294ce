------------------------------ MODULE MCShell ------------------------------
(* Instance of QMPShell for TLC. *)
EXTENDS QMPShell

Arg(path, val) == [path |-> path, val |-> val]

\* A dict of one entry.
Entry(key, val) == [p \in {<<>>, <<key>>} |-> IF p = <<>> THEN ADict ELSE val]
DictTexts == [t \in {"{'b': 1}", "{(1, 2): 3}"} |->
                IF t = "{'b': 1}" THEN Entry("b", "1") ELSE Entry("(1, 2)", "3")]
OddKeys == {"(1, 2)", "not UTF-8"}
OddValues == {"[1j]"}

Cpu == Word("cpu")
IndexTexts == [t \in {"1", "7"} |-> IF t = "1" THEN 1 ELSE 7]

CommandLines == {
  <<>>,
  <<Open>>, <<Close>>, <<Close, Word("x")>>, <<Open, Close>>,
  <<Word("add"), Arg(<<"b">>, "2")>>,
  <<Word("add"), Word("x")>>,
  <<Open, Word("del"), Close>>,
  <<Open, Word("del"), Arg(<<"b">>, "2"), Arg(<<"b">>, "3")>>,
  <<Open, Word("add"), Arg(<<"b">>, "2"), Close>>,
  <<Word("set"), Arg(<<"a", "b">>, "1"), Arg(<<"c">>, "2")>>,
  <<Word("set"), Arg(<<"c">>, "1"), Arg(<<"c">>, "2")>>,
  <<Word("set"), Arg(<<"a">>, "{'b': 1}"), Arg(<<"a", "c">>, "2"), Arg(<<"d">>, "3")>>,
  <<Word("set"), Arg(<<"a">>, "{'b': 1}"), Arg(<<"a", "b">>, "2")>>,
  <<Word("set"), Arg(<<"a", "b">>, "1"), Arg(<<"a", "b", "c">>, "2")>>,
  <<Word("set"), Arg(<<"a">>, "1"), Arg(<<"a", "b">>, "2")>>,
  <<Word("set"), Arg(<<"a">>, "{(1, 2): 3}")>>,
  <<Word("add"), Arg(<<"b">>, "[1j]")>>,
  <<Cpu>>, <<Cpu, Word("1")>>, <<Cpu, Word("7")>>, <<Cpu, Word("x")>>,
  <<Cpu, Word("1"), Word("not UTF-8")>>
}

=============================================================================
