---------------------------------- MODULE MCCore ----------------------------------
(***************************************************************************)
(* Instances of CoreMeaning for TLC.  To format: every short text, and     *)
(* arrays and objects two deep with whitespace at any one place or none.   *)
(* To validate: well-formed documents of every kind and what one or two    *)
(* edits make of them.                                                     *)
(***************************************************************************)
EXTENDS CoreMeaning

MCKeys == {"a"}

Lexemes_ == {"{", "}", "[", "]", ":", ",", "a", "num", "true", "ws", "junk"}

\* Whitespace and junk are maximal runs, and scalars do not touch.
Readable(x) ==
  \A p \in 1..(Len(x) - 1) :
    ~({x[p], x[p + 1]} \subseteq {"num", "true"}) /\ (x[p] = x[p + 1] => x[p] \notin {"ws", "junk"})

Short == {x \in UNION {[1..n -> Lexemes_] : n \in 0..3} : Readable(x)}

Leaves == {<<"num">>, <<"true">>, <<"a">>, <<"[", "]">>, <<"{", "}">>}
Arrays(vs)  == {<<"[">> \o v \o <<"]">> : v \in vs}
               \cup {<<"[">> \o v \o <<",">> \o w \o <<"]">> : v, w \in vs}
Objects(vs) == {<<"{", "a", ":">> \o v \o <<"}">> : v \in vs}
               \cup {<<"{", "a", ":">> \o v \o <<",", "a", ":">> \o w \o <<"}">> : v, w \in vs}
Inner  == Leaves \cup Arrays({<<"num">>}) \cup Objects({<<"{", "}">>})
Nested == Arrays(Leaves) \cup Objects(Inner) \cup Arrays({<<"[">> \o x \o <<"]">> : x \in Inner})
          \cup Arrays({<<"null">>, <<"{", "a", ":", "{", "}", "}">>})

Padded(x) == {x} \cup {SubSeq(x, 1, n) \o <<"ws">> \o SubSeq(x, n + 1, Len(x)) : n \in 0..Len(x)}

First  == Short \cup {<<"[", "a", ",", "open">>} \cup UNION {Padded(x) : x \in Nested}
Second == {<<>>, <<"]">>}

-------------------------------------------------------------------------------
D == INSTANCE MCDocuments

Seeds ==
  {<<"{", "a", ":", "num", ",", "a", ":", "[", "{", "}", ",", "true", "]", "}">>,
   <<"[", "num", ",", "ws", "[", "]", ",", "null", "]", "ws">>,
   <<"ws", "{", "a", ":", "{", "a", ":", "a", "}", "}">>,
   <<"num">>, <<"ws", "true">>, <<"null", "ws">>, <<"a">>, <<>>}

Twice == UNION {D!Edits(x, D!Lexemes) : x \in D!Edits(<<"[", "num", "]">>, D!Lexemes)}
         \cup UNION {D!Edits(x, D!Lexemes) : x \in D!Edits(<<"{", "a", ":", "true", "}">>, D!Lexemes)}

MCDocs == D!Documents_(Seeds, D!Lexemes) \cup {D!Document(x) : x \in Twice}
===================================================================================
