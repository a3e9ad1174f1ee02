------------------------------ MODULE JsonGrammar ------------------------------
(***************************************************************************)
(* What a document means, stated independently of the parser: the JSON     *)
(* grammar over lexemes, whether a well-formed document conforms to a C++  *)
(* type, and which of its values that type stores.                         *)
(***************************************************************************)
EXTENDS Integers, Sequences, FiniteSets

CONSTANTS Keys, Schema

At(x, p) == IF p \in 1..Len(x) THEN x[p] ELSE "end"

\* The first place from p on that is not whitespace, the end among them.
Trim(x, p) ==
  CHOOSE q \in p..(Len(x) + 1) : At(x, q) # "ws" /\ \A k \in p..(q - 1) : At(x, k) = "ws"

Closing(c) == IF c = "{" THEN "}" ELSE "]"

\* Where the value of the item at p is, 0 if there is none: in an object behind
\* a key and a colon.
ItemAt(x, p, close) ==
  LET colon == Trim(x, p + 1)
  IN CASE close = "]"                                                 -> p
       [] close = "}" /\ At(x, p) \in Keys /\ At(x, colon) = ":"      -> Trim(x, colon + 1)
       [] close = "}" /\ ~(At(x, p) \in Keys /\ At(x, colon) = ":") -> 0

\* ends[<<p, "value">>]: one past the value that starts at p, 0 if none does.
\* ends[<<p, close>>]: one past the bracket that closes the items from p on.
FollowEnd(ends, x, e, close) ==
  LET q == Trim(x, e)
  IN CASE At(x, q) = ","                        -> ends[<<Trim(x, q + 1), close>>]
       [] At(x, q) = close                      -> q + 1
       [] At(x, q) # "," /\ At(x, q) # close    -> 0
ContentEnd(ends, x, p) ==
  LET q     == Trim(x, p + 1)
      close == Closing(At(x, p))
  IN IF At(x, q) = close THEN q + 1 ELSE ends[<<q, close>>]
ItemsEnd(ends, x, p, close) ==
  LET v == ItemAt(x, p, close)
      e == IF v = 0 THEN 0 ELSE ends[<<v, "value">>]
  IN IF e = 0 THEN 0 ELSE FollowEnd(ends, x, e, close)
Ends(x) ==
  LET ends[c \in (1..(Len(x) + 1)) \X {"value", "}", "]"}] ==
        CASE c[2] # "value"                                             -> ItemsEnd(ends, x, c[1], c[2])
          [] c[2] = "value" /\ At(x, c[1]) \in {"{", "["}               -> ContentEnd(ends, x, c[1])
          [] c[2] = "value" /\ At(x, c[1]) \in Keys \cup {"num", "true", "null"} -> c[1] + 1
          [] OTHER                                                      -> 0
  IN ends
ValueEnd(x, p) == Ends(x)[<<p, "value">>]

Start(x) == Trim(x, 1)

\* The document is one JSON value, whitespace around it allowed.
WellFormed(x) ==
  LET e == ValueEnd(x, Start(x)) IN e # 0 /\ Trim(x, e) = Len(x) + 1

\* The items of the well-formed object or array that starts at p, each with its
\* key (of an object) and the positions of the key and of the value; from has
\* those from an item on, r is what follows one.
MoreItems(from, x, r) == IF At(x, r) = "," THEN from[Trim(x, r + 1)] ELSE <<>>
ItemsFrom(x, first, close) ==
  LET from[q \in 1..(Len(x) + 1)] ==
        LET v == ItemAt(x, q, close)
        IN <<[key |-> At(x, q), from |-> q, at |-> v]>> \o MoreItems(from, x, Trim(x, ValueEnd(x, v)))
  IN IF At(x, first) = close THEN <<>> ELSE from[first]
Items(x, p) ==
  IF At(x, p) \notin {"{", "["} \/ ValueEnd(x, p) = 0 THEN <<>>
  ELSE ItemsFrom(x, Trim(x, p + 1), Closing(At(x, p)))

\* How deep brackets nest at p, and in the whole of a document.
Nesting(x, p) ==
  Cardinality({q \in 1..p : x[q] \in {"{", "["}}) - Cardinality({q \in 1..p : x[q] \in {"}", "]"}})

Deepest(x, n) == \A p \in 1..Len(x) : Nesting(x, p) <= n

(***************************************************************************)
(* Types.                                                                  *)
(***************************************************************************)
KindAt(x, p) ==
  CASE At(x, p) = "{" -> {"object"}
    [] At(x, p) = "[" -> {"vector", "array"}
    [] At(x, p) \in Keys -> {"string"}
    [] At(x, p) = "num" -> {"num"}
    [] At(x, p) = "true" -> {"bool"}
    [] At(x, p) = "null" -> {"null"}
    [] OTHER -> {}

Chosen(x, p, t) ==
  {i \in 1..Len(Schema[t].alts) :
     /\ Schema[Schema[t].alts[i]].kind \in KindAt(x, p)
     /\ \A j \in 1..(i - 1) : Schema[Schema[t].alts[j]].kind \notin KindAt(x, p)}

\* The items of an object that a member of the type takes.
Taken(items, t) ==
  {im \in (1..Len(items)) \X (1..Len(Schema[t].members)) :
     /\ items[im[1]].key = Schema[t].members[im[2]].key
     /\ items[im[1]].key \notin Schema[t].excluded}

First(items, n) == {i \in 1..Len(items) : i <= n}

\* The well-formed value at p, with these items, has the shape of type t; the keys
\* of an object are distinct.  fits[<<q, u>>] says so of the value at q and type u.
Fits(fits, x, p, t, items) ==
  LET s == Schema[t]
  IN CASE s.kind = "num"    -> At(x, p) = "num"
       [] s.kind = "bool"   -> At(x, p) = "true"
       [] s.kind = "null"   -> At(x, p) = "null"
       [] s.kind = "string" -> At(x, p) \in Keys
       [] s.kind = "skip"   -> TRUE
       [] s.kind = "optional" -> At(x, p) = "null" \/ fits[<<p, s.elem>>]
       [] s.kind = "variant"  -> \E i \in Chosen(x, p, t) : fits[<<p, s.alts[i]>>]
       [] s.kind = "object" ->
            /\ At(x, p) = "{"
            /\ \A i, j \in 1..Len(items) : items[i].key = items[j].key => i = j
            /\ \A im \in Taken(items, t) : fits[<<items[im[1]].at, s.members[im[2]].type>>]
       [] s.kind = "map" ->
            At(x, p) = "{" /\ \A i \in 1..Len(items) : fits[<<items[i].at, s.elem>>]
       [] s.kind = "vector" ->
            At(x, p) = "[" /\ \A i \in 1..Len(items) : fits[<<items[i].at, s.elem>>]
       [] s.kind = "array" ->
            At(x, p) = "[" /\ \A i \in First(items, s.size) : fits[<<items[i].at, s.elem>>]
       [] s.kind = "tuple" ->
            At(x, p) = "[" /\ \A i \in First(items, Len(s.members)) :
                                fits[<<items[i].at, s.members[i].type>>]
Conforms(x, at, type) ==
  LET fits[c \in (1..Len(x)) \X DOMAIN Schema] == Fits(fits, x, c[1], c[2], Items(x, c[1]))
  IN fits[<<at, type>>]

\* What is stored beneath a label.
Below(label, stores) == {<<<<label>> \o e[1], e[2]>> : e \in stores}

\* The scalars a conforming value leaves in an object of type t: each with the
\* path to it and its position in the document.  stores is to Stored as fits to Fits.
Stored(stores, x, p, t, items) ==
  LET s       == Schema[t]
      from(S) == UNION {Below(i, stores[<<items[i].at, s.elem>>]) : i \in S}
  IN CASE s.kind \in {"num", "bool", "null", "string"} -> {<<<<>>, p>>}
       [] s.kind = "skip" -> {}
       [] s.kind = "optional" -> IF At(x, p) = "null" THEN {} ELSE stores[<<p, s.elem>>]
       [] s.kind = "variant"  -> UNION {stores[<<p, s.alts[i]>>] : i \in Chosen(x, p, t)}
       [] s.kind = "object" ->
            UNION {Below(im[2], stores[<<items[im[1]].at, s.members[im[2]].type>>])
                     : im \in Taken(items, t)}
       [] s.kind = "map" ->
            UNION {Below(items[i].from, stores[<<items[i].at, s.elem>>]) : i \in 1..Len(items)}
       [] s.kind = "vector" -> from(1..Len(items))
       [] s.kind = "array"  -> from(First(items, s.size))
       [] s.kind = "tuple" ->
            UNION {Below(i, stores[<<items[i].at, s.members[i].type>>])
                     : i \in First(items, Len(s.members))}
Stores(x, at, type) ==
  LET stores[c \in (1..Len(x)) \X DOMAIN Schema] == Stored(stores, x, c[1], c[2], Items(x, c[1]))
  IN stores[<<at, type>>]
===============================================================================
