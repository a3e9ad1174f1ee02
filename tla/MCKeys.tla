--------------------------------- MODULE MCKeys ---------------------------------
(***************************************************************************)
(* Keys for TLC: every list of up to three keys over two letters, and for  *)
(* each kind of table lists that come to it.                               *)
(***************************************************************************)
EXTENDS KeyMap

a == 97
b == 98
c == 99
Lists(S, n) == {s \in [1..n -> S] : IsInjective(s)}
Short == {<<a>>, <<b>>, <<a, a>>, <<a, b>>, <<b, a>>, <<b, b>>}
\* A key far longer than the others, for the bound of the scan for its quote.
Long(k) == k \o [i \in 1..17 |-> c]
MCKeyLists ==
  {<<>>} \cup UNION {Lists(Short, n) : n \in 1..3}
  \cup {<<<<a, a>>, <<b, a, b>>, <<c, a>>, <<a, b>>, <<b, a, b, c>>>>,
        <<<<a, a>>, <<c, a>>, <<a, b>>, <<b, a, b>>, <<b, a, b, c>>>>,
        <<<<a, a>>, <<a, a, b>>, <<a, a, b, a>>, <<a, b>>, <<b, a>>, <<b, b>>, <<a, a, a>>>>,
        <<<<a, a, b>>, <<a, a>>>>,
        <<<<a, a, b, a>>, <<a>>, Long(<<b>>), Long(<<a, b>>), <<a, b, c>>, <<a, a>>>>,
        <<<<b>>, <<c, a>>, <<a, b, c>>, <<a, b, a>>, Long(<<a, a>>), <<b, a, b, c>>>>,
        <<<<b, a, b, c>>, <<b, a, b>>, <<b, a>>, <<a, a>>, <<c, a>>>>,
        <<Long(<<a, a>>), <<c, a>>, <<a, a>>, <<a, b, c>>, <<b, a, b, c>>, Long(<<b>>)>>,
        <<<<b, a>>, <<b>>, <<a>>, Long(<<b, b>>), <<a, b, a>>, <<b, a, b>>>>,
        <<<<a, b>>, <<a>>, Long(<<b>>), <<c, b>>>>}
MCSpellings == Short \cup {<<a, a, b>>, <<b, a, b>>, <<c, a>>, <<c>>, <<a, a, a>>, <<a, b, a>>,
                           <<a, a, b, a>>, <<b, a, b, c>>, Long(<<a, a>>), Long(<<b>>), Long(<<c>>)}
MCFollowing == {<<>>, <<58>>, <<58, 49, 125>>, <<58, Quote, a, Quote, 125>>}
=================================================================================
