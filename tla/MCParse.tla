-------------------------------- MODULE MCParse --------------------------------
(***************************************************************************)
(* Instances of JsonParse for TLC.  The types are small C++ types of the   *)
(* kinds the library supports; the documents are well-formed seeds for     *)
(* them and every text one edit away from a seed, which is where a parser  *)
(* goes wrong.                                                             *)
(***************************************************************************)
EXTENDS ParseMeaning, MCDocuments

MCKeys == {"a", "b", "c", "x"}

Scalar_(kind) == [kind |-> kind, members |-> <<>>, elem |-> "int", size |-> 0,
                  alts |-> <<>>, excluded |-> {}]
Wraps(kind, elem, size) == [Scalar_(kind) EXCEPT !.elem = elem, !.size = size]
Struct(members, excluded) ==
  [Scalar_("object") EXCEPT !.members = members, !.excluded = excluded]
M(key, type) == [key |-> key, type |-> type]

MCSchema ==
  [int    |-> Scalar_("num"),
   flag   |-> Scalar_("bool"),
   text   |-> Scalar_("string"),
   nil    |-> Scalar_("null"),
   any    |-> Scalar_("skip"),
   opt    |-> Wraps("optional", "int", 0),
   flat   |-> Struct(<<M("a", "int"), M("b", "int")>>, {}),
   one    |-> Struct(<<M("a", "flag")>>, {}),
   hidden |-> Struct(<<M("a", "int"), M("b", "text")>>, {"b"}),
   ints   |-> Wraps("vector", "int", 0),
   pair   |-> Wraps("array", "int", 2),
   tup    |-> [Scalar_("tuple") EXCEPT !.members = <<M("a", "int"), M("a", "flag")>>],
   dict   |-> Wraps("map", "opt", 0),
   either |-> [Scalar_("variant") EXCEPT !.alts = <<"int", "one", "ints">>],
   mixed  |-> Struct(<<M("a", "ints"), M("b", "any")>>, {}),
   nest   |-> Wraps("vector", "either", 0),
   three  |-> Struct(<<M("a", "int"), M("b", "int"), M("c", "int")>>, {}),
   node   |-> Struct(<<M("a", "nodes"), M("b", "opt")>>, {}),
   nodes  |-> Wraps("vector", "node", 0)]
Only(types) == [t \in types |-> MCSchema[t]]

MCOpts == [partialRead : BOOLEAN, minified : BOOLEAN, knownOrder : BOOLEAN]
\* Known Order is of no use to one parse of an object, and to none of an array.
ArrayOpts  == {o \in MCOpts : ~o.knownOrder}
ObjectOpts == {o \in MCOpts : /\ o.knownOrder => ~o.partialRead /\ ~o.minified
                              /\ ~(o.partialRead /\ o.minified)}

(***************************************************************************)
(* Objects: members in either order, an unregistered key, a skipped value, *)
(* maps.                                                                   *)
(***************************************************************************)
ObjectSeeds ==
  {<<"{", "b", ":", "num", ",", "x", ":", "[", "num", "]", ",", "a", ":", "num", "}">>,
   <<"{", "a", ":", "[", "num", ",", "num", "]", ",", "b", ":", "{", "x", ":", "null", "}", "}">>,
   <<"{", "b", ":", "a", ",", "a", ":", "num", ",", "x", ":", "true", "}">>,
   <<"{", "x", ":", "null", ",", "ws", "a", ":", "num", "}">>}
ObjectDocs  == Documents_(ObjectSeeds, {"}", "]", ":", ",", "a", "num", "ws"})
ObjectRoots == {"flat", "hidden", "mixed", "dict"}
ObjectTypes_ == ObjectRoots \cup {"int", "flag", "text", "opt", "ints", "any"}

(***************************************************************************)
(* Arrays, tuples, vectors, variants and scalars at the root.              *)
(***************************************************************************)
ArraySeeds ==
  {<<"[", "num", ",", "true", ",", "num", "]">>,
   <<"[", "num", ",", "num", ",", "{", "a", ":", "true", "}", "]">>,
   <<"[", "{", "a", ":", "true", "}", ",", "[", "num", "]", "]">>}
ArrayDocs  == Documents_(ArraySeeds, {"{", "}", "[", "]", ",", "num", "ws", "open"})
ArrayRoots == {"tup", "pair", "ints", "nest"}
ScalarSeeds == {<<"num">>, <<"true">>, <<"null">>, <<"a">>, <<"[", "num", "]">>}
ScalarDocs  == Documents_(ScalarSeeds, Lexemes \ {"b", "x"})
ScalarRoots == {"int", "flag", "text", "opt", "any", "nil"}

(***************************************************************************)
(* A recursive type and documents at and past MaxDepth.                    *)
(***************************************************************************)
Deep(c) == <<"{", "a", ":", "[", "{", "a", ":", "[", c, "]", "}", "]", "}">>
DeepSeeds ==
  {Deep(c) : c \in {"ws", "{", "["}} \cup {Deep("ws") \o <<",", "b", ":", "[", "[", "]", "]">>}
  \cup {<<"{", "a", ":", "[", "{", "}", ",", "ws", "{", "}", "]", "}">>}    \* as deep as may be
DeepRoots == {"node", "nodes"}
DeepDocs  == Documents_(DeepSeeds, {"{", "[", "]", "}", ","})

(***************************************************************************)
(* Known Order: documents of one shape after documents of another.  The    *)
(* type has three members; keys come permuted, are missing or are joined by*)
(* one the type does not register.                                         *)
(***************************************************************************)
Permuted == {<<"a", "b", "c">>, <<"c", "a", "b">>, <<"b", "x", "a", "c">>, <<"c", "b">>,
             <<"x", "b">>, <<"c", "b", "a", "x">>, <<>>}
Object(ks) == <<"{">> \o FlattenSeq([i \in 1..Len(ks) |->
                 (IF i = 1 THEN <<>> ELSE <<",">>) \o <<ks[i], ":", "num">>]) \o <<"}">>
OrderDocs == {Document(Object(ks)) : ks \in Permuted}
OrderRoots == {"three"}
OrderOpts == {o \in MCOpts : o.knownOrder \/ (~o.partialRead /\ ~o.minified)}

(***************************************************************************)
(* The uses of a thread: one call, and three in a row for Known Order.     *)
(***************************************************************************)
Use(documents, options, types, calls) ==
  [documents |-> documents, options |-> options, types |-> types, calls |-> calls]

ArrayTypes  == ArrayRoots \cup ScalarRoots \cup DeepRoots \cup OrderRoots \cup {"either", "one"}
MCTypes  == ObjectTypes_ \cup ArrayTypes
TypesOf  == Only(MCTypes)
MCUses   == {Use(ObjectDocs, ObjectOpts, ObjectRoots, 1), Use(ArrayDocs, ArrayOpts, ArrayRoots, 1),
             Use(ScalarDocs, ArrayOpts, ScalarRoots, 1),
             Use(DeepDocs, ObjectOpts, DeepRoots, 1), Use(OrderDocs, OrderOpts, OrderRoots, 3)}
===============================================================================
