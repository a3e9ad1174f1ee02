------------------------------- MODULE MCJsonText -------------------------------
(***************************************************************************)
(* Texts for TLC: registers of five and three bytes, so that every token   *)
(* lies in a register, across two of them, in the narrower ones and in the *)
(* tail; bytes for validateUtf8 that are the limits of Table 3-7's ranges. *)
(***************************************************************************)
EXTENDS JsonText

MCWidths == <<5, 3>>
U(a, b, c, d) == <<92, 117, a, b, c, d>>
\* a, a raw tab, \n, \x (no escape), \u0041, \u07fF, \u20Ac, two surrogates,
\* two bytes of UTF-8, the start of a character, the end of one, four bytes.
MCTokens == {<<97>>, <<9>>, <<92, 110>>, <<92, 120>>, U(48, 48, 52, 49), U(48, 55, 102, 70),
             U(50, 48, 65, 99), U(68, 56, 51, 68), U(68, 69, 48, 48),
             <<195, 169>>, <<226, 130>>, <<172>>, <<240, 159, 152, 128>>}

\* Characters whose UTF-8 is known.
MCKnown == (1 :> <<1>>) @@ (65 :> <<65>>) @@ (127 :> <<127>>) @@ (128 :> <<194, 128>>)
           @@ (2047 :> <<223, 191>>) @@ (2048 :> <<224, 160, 128>>) @@ (8364 :> <<226, 130, 172>>)
           @@ (65533 :> <<239, 191, 189>>) @@ (65536 :> <<240, 144, 128, 128>>)
           @@ (128512 :> <<240, 159, 152, 128>>) @@ (1114111 :> <<244, 143, 191, 191>>)
ASSUME KnownAssumption == \A cp \in DOMAIN MCKnown : Utf8Of(cp) = MCKnown[cp]

MCFill(n) == [i \in 1..n |-> 98]
\* Escapes with bytes that are no digits: from another table (\u<143>001,
\* \u00<145>1 and, as the second of a pair, \uDE<148>0), from before the tables
\* (\u004<195>, \u00<143><196>, \uDE0<195>), and refused ones.
MCBefore == [b \in 128..255 |-> CASE b = 195 -> 65 [] b = 196 -> 1114111 [] OTHER -> -1]
MCStrays == {U(143, 48, 48, 49), U(48, 48, 145, 49), U(68, 69, 148, 48), U(48, 48, 52, 195),
             U(48, 48, 143, 196), U(68, 69, 48, 195), U(48, 48, 48, 197), U(149, 48, 48, 48)}
MCMiddles == {<<>>} \cup MCTokens \cup {a \o b : a \in MCTokens, b \in MCTokens}
             \cup {a \o b \o c : a \in MCTokens, b \in MCTokens, c \in MCTokens}
             \cup MCStrays \cup {a \o b : a \in MCTokens, b \in MCStrays}
             \cup {a \o b : a \in MCStrays, b \in {<<97>>, <<9>>, <<226, 130>>}}

\* The words of four digits share no bit, so that to or them is to add them.
MCUnits == {<<4096, 4095>>, <<256, 255>>, <<16, 15>>}
ASSUME OrAddsAssumption ==
  \A d \in 1..15, p \in MCUnits : \A r \in {0, p[2] \div 3, p[2]} : Or[d * p[1], r] = d * p[1] + r
MCTexts == {MCFill(n) \o m \o <<34>> \o MCFill(k) : n \in {0, 1, 3}, m \in MCMiddles, k \in {0, 2, 7}}
           \cup {MCFill(n) \o t : n \in 0..4, t \in MCTokens}    \* no closing quote
           \cup {MCFill(n) \o <<92>> : n \in 0..4}

MCEdges == {65, 128, 144, 160, 193, 195, 224, 226, 237, 240, 241, 244, 245}
MCSteps == {<<a, b, c>> : a \in MCEdges, b \in MCEdges, c \in MCEdges}
MCTails == {<<>>} \cup {<<a>> : a \in MCEdges} \cup {<<a, b>> : a \in MCEdges, b \in MCEdges}

MCPieces == {<<98>>, <<0>>, <<1>>, <<7>>, <<9>>, <<30>>, <<34>>, <<92>>, <<128>>, <<226, 130, 172>>}
MCValues == {MCFill(n) \o a \o b \o MCFill(k) : n \in 0..3, a \in MCPieces, b \in MCPieces, k \in {0, 1, 4}}
MCRests  == {<<>>, MCFill(2), MCFill(7)}
=================================================================================
