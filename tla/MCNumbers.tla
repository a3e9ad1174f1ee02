-------------------------------- MODULE MCNumbers -------------------------------
(***************************************************************************)
(* Numbers for TLC: integers of ten bits, so that a signed value has three *)
(* digits and an unsigned one four, and texts put together from every part *)
(* of a number at the limits of those, well-formed or not.                 *)
(***************************************************************************)
EXTENDS NumberReaders

MCSigns  == {<<>>, <<"-">>, <<"+">>}
MCWholes == {<<>>, <<"0">>, <<"7">>, <<"0", "1">>, <<"1", "2">>, <<"5", "1">>, <<"1", "0", "2">>,
             <<"5", "1", "1">>, <<"5", "1", "2">>, <<"5", "1", "3">>, <<"9", "9", "9">>,
             <<"1", "0", "2", "3">>, <<"1", "0", "2", "4">>, <<"5", "1", "1", "9">>,
             <<"1", "0", "2", "3", "0">>}
Zeros(n) == [i \in 1..n |-> "0"]
MCFractions == {<<>>, <<".">>, <<".", "5">>, <<".", "1", "9">>, <<".", "0", "0", "4", "2">>,
                <<".", "9", "9", "9", "9">>, <<".", "5", ".">>,
                <<".">> \o Zeros(9) \o <<"1">>, <<".">> \o Zeros(17)}
MCExponents == {<<>>, <<"e">>, <<"e", "1">>, <<"E", "+", "2">>, <<"e", "-", "1">>, <<"e", "-">>,
                <<"e", "0">>, <<"e", "-", "2">>, <<"e", "3">>, <<"e", "4">>, <<"e", "5", "1", "2">>,
                <<"e", "1", "0", "2", "5">>, <<"e", "-", "1", "0", "2", "6">>, <<"e", "1", "e">>}
MCFollowing == {<<>>, <<"}">>}
MCTexts == {s \o w \o f \o e \o z : s \in MCSigns, w \in MCWholes, f \in MCFractions,
                                    e \in MCExponents, z \in MCFollowing}
\* Around every power of ten, and with every digit different.
MCValues == UNION {{10^n - 1, 10^n, 10^n + 1, 3 * (10^n \div 7)} : n \in 0..9}
            \cup {1234567890, 987654321, 90807060, 2000000001}
=================================================================================
