------------------------------- MODULE MCSerialize ------------------------------
(***************************************************************************)
(* Values for TLC: every kind of type, nested three deep where the table   *)
(* of indents has two levels.                                              *)
(***************************************************************************)
EXTENDS SerializeMeaning

MCKeys == {"a", "b", "c"}
Type(kind) == [kind |-> kind, members |-> <<>>, elem |-> "int", size |-> 0, alts |-> <<>>,
               excluded |-> {}]
M(k, t) == [key |-> k, type |-> t]
MCSchema ==
  [int  |-> Type("num"), flag |-> Type("bool"), text |-> Type("string"), nil |-> Type("null"),
   any  |-> Type("skip"), raw |-> Type("raw"),
   opt  |-> Type("optional"),
   ints |-> Type("vector"),
   rows |-> [Type("vector") EXCEPT !.elem = "mixed"],
   pair |-> [Type("array") EXCEPT !.elem = "opt", !.size = 2],
   tup  |-> [Type("tuple") EXCEPT !.members = <<M("a", "text"), M("a", "ints"), M("a", "opt")>>],
   dict |-> [Type("map") EXCEPT !.elem = "either"],
   empty |-> Type("object"),
   either |-> [Type("variant") EXCEPT !.alts = <<"flag", "ints", "three">>],
   three |-> [Type("object") EXCEPT !.members = <<M("a", "int"), M("b", "nil"), M("c", "empty")>>],
   mixed |-> [Type("object") EXCEPT !.members = <<M("c", "dict"), M("a", "raw"), M("b", "any")>>]]
MCTypes == DOMAIN MCSchema

V == [lex |-> "num", items |-> <<>>, keys |-> <<>>, alt |-> 1, excluded |-> {}, raw |-> <<>>]
Of(items) == [V EXCEPT !.items = items]
Hidden == SUBSET MCKeys

Opts   == {V, Of(<<V>>)}
Intss  == {V, Of(<<V>>), Of(<<V, V, V>>)}
Flag   == [V EXCEPT !.lex = "true"]
Threes == {[Of(<<V, V, V>>) EXCEPT !.excluded = h] : h \in Hidden}
Eithers == {[Of(<<Flag>>) EXCEPT !.alt = 1]} \cup {[Of(<<v>>) EXCEPT !.alt = 2] : v \in Intss}
           \cup {[Of(<<v>>) EXCEPT !.alt = 3] : v \in Threes}
Dicts  == {V} \cup {[Of(<<v>>) EXCEPT !.keys = <<"b">>] : v \in Eithers}
          \cup {[Of(<<v, Of(<<Flag>>), v>>) EXCEPT !.keys = <<"c", "a", "b">>] : v \in Eithers}
Raws   == {[V EXCEPT !.raw = x] : x \in {<<"null">>, <<"{", "a", ":", "ws", "[", "]", "}">>}}
Mixeds == {[Of(<<d, r, V>>) EXCEPT !.excluded = h] : d \in Dicts, r \in Raws, h \in Hidden}
Rows   == {Of(<<m>>) : m \in Mixeds} \cup {Of(<<m, m>>) : m \in {m \in Mixeds : m.excluded = {"a"}}}
Tups   == {Of(<<[V EXCEPT !.lex = "b"], i, o>>) : i \in Intss, o \in Opts}

Args(t, vs) == {[type |-> t, value |-> v] : v \in vs}
MCArguments ==
  Args("int", {V}) \cup Args("flag", {Flag}) \cup Args("text", {[V EXCEPT !.lex = "a"]})
  \cup Args("nil", {V}) \cup Args("any", {V}) \cup Args("empty", {V})
  \cup Args("pair", {Of(<<x, y>>) : x \in Opts, y \in Opts})
  \cup Args("tup", Tups) \cup Args("rows", Rows)
===============================================================================
