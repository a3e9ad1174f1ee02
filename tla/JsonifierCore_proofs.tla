-------------------------- MODULE JsonifierCore_proofs --------------------------
(***************************************************************************)
(* The calls of one jsonifier_core, for any documents in any order of      *)
(* calls.                                                                  *)
(*   CoreInv  what a call answers and the list of errors all share agree,  *)
(*            and the validator's recursion and its depth counters do.     *)
(*   FInv     what a formatter has written is what stands before the entry *)
(*            it is at, so that minifying loses no token and takes back    *)
(*            what prettifying adds.                                       *)
(*   SInv     what the validator has still to read is as the grammar wants *)
(*            it only if the whole document is, and does so if the         *)
(*            document must pass.                                          *)
(***************************************************************************)
EXTENDS CoreMeaning, FiniteSetTheorems, SequenceTheorems, WellFoundedInduction, TLAPS

Brackets == {"{", "["}

\* The parsers in progress of objects, or of arrays.
Opens(st, c) == Cardinality({i \in 1..Len(st) : st[i] = c})

Statuses == V!ParseStatuses

\* What the fields of the iterator may be.
ItOk(s) == s \in [iter : Nat, obj : Nat, arr : Nat, errors : Seq(Statuses)]

\* The counters count the parsers in progress.
Counted(s, st) == s.obj = Opens(st, "{") /\ s.arr = Opens(st, "[")

\* A stack with one more bracket.
IsPushed(new, st, b) == new = Append(st, b) /\ st \in Seq(Brackets) /\ b \in Brackets

-------------------------------------------------------------------------------
\* A count of brackets is a number.
LEMMA OpensNat ==
  ASSUME NEW st \in Seq(Brackets), NEW c PROVE Opens(st, c) \in Nat
<1>1. Len(st) \in Nat  OBVIOUS
<1>2. IsFiniteSet(1..Len(st))  BY <1>1, FS_Interval
<1>3. IsFiniteSet({i \in 1..Len(st) : st[i] = c})  BY <1>2, FS_Subset
<1> QED  BY <1>3, FS_CardinalityType DEF Opens

\* No parser, no bracket.
LEMMA OpensNone == \A c : Opens(<<>>, c) = 0
<1> SUFFICES ASSUME NEW c PROVE Opens(<<>>, c) = 0  OBVIOUS
<1>1. {i \in 1..Len(<<>>) : <<>>[i] = c} = {}  OBVIOUS
<1> QED  BY <1>1, FS_EmptySet DEF Opens

\* A bracket that is pushed counts once.
LEMMA OpensPush ==
  ASSUME NEW new, NEW st, NEW b, NEW c, IsPushed(new, st, b), NEW m \in Nat, m = Opens(st, c)
  PROVE  Opens(new, c) = IF b = c THEN m + 1 ELSE m
<1> USE DEF IsPushed
<1>1. PICK n \in Nat : n = Len(st)  OBVIOUS
<1>2. Len(new) = n + 1 /\ new[n + 1] = b /\ \A i \in 1..n : new[i] = st[i]
  BY <1>1
<1>3. PICK S : S = {i \in 1..n : st[i] = c}  OBVIOUS
<1>4. PICK N : N = {i \in 1..(n + 1) : new[i] = c}  OBVIOUS
<1>5. IsFiniteSet(S) /\ S \subseteq 1..n /\ Cardinality(S) \in Nat
  <2>1. IsFiniteSet(1..n)  BY FS_Interval
  <2>2. S \subseteq 1..n  BY <1>3
  <2> QED  BY <2>1, <2>2, FS_Subset, FS_CardinalityType
<1>6. Opens(new, c) = Cardinality(N) /\ Opens(st, c) = Cardinality(S)
  BY <1>1, <1>2, <1>3, <1>4 DEF Opens
<1>7. CASE b = c
  <2>1. PICK x : x = n + 1  OBVIOUS
  <2>2. x \notin S  BY <1>5, <2>1
  <2>3. N = S \cup {x}  BY <1>2, <1>3, <1>4, <1>7, <2>1
  <2>4. Cardinality(S \cup {x}) = Cardinality(S) + 1  BY <1>5, <2>2, FS_AddElement
  <2> QED  BY <1>6, <1>7, <2>3, <2>4
<1>8. CASE b # c
  <2>1. N = S  BY <1>2, <1>3, <1>4, <1>8
  <2> QED  BY <1>5, <1>6, <1>8, <2>1
<1> QED  BY <1>7, <1>8

\* A stack is what is below its top, and the top.
LEMMA Popped ==
  ASSUME NEW st \in Seq(Brackets), st # <<>>
  PROVE  /\ IsPushed(st, SubSeq(st, 1, Len(st) - 1), st[Len(st)])
         /\ Len(SubSeq(st, 1, Len(st) - 1)) = Len(st) - 1
<1>1. PICK n \in Nat : n = Len(st) /\ n > 0
  <2>1. Len(st) \in Nat /\ Len(st) # 0  OBVIOUS
  <2> QED  BY <2>1
<1>2. PICK rest, b : rest = SubSeq(st, 1, n - 1) /\ b = st[n]  OBVIOUS
<1>3. rest \in Seq(Brackets) /\ Len(rest) = n - 1 /\ b \in Brackets /\ \A i \in 1..(n - 1) : rest[i] = st[i]
  BY <1>1, <1>2
<1>4. st = Append(rest, b)
  <2>1. Append(rest, b) \in Seq(Brackets)  BY <1>3, AppendProperties
  <2>2. PICK a \in Seq(Brackets) : a = Append(rest, b)  BY <2>1
  <2>3. Len(a) = n /\ \A i \in 1..n : a[i] = st[i]  BY <1>1, <1>2, <1>3, <2>2
  <2> QED  BY <1>1, <2>2, <2>3
<1> QED  BY <1>1, <1>2, <1>3, <1>4 DEF IsPushed

\* What is below the top has one bracket less.
LEMMA OpensPop ==
  ASSUME NEW new, NEW st, NEW b, NEW c, IsPushed(new, st, b), NEW m \in Nat, m = Opens(new, c)
  PROVE  Opens(st, c) \in Nat /\ m = IF b = c THEN Opens(st, c) + 1 ELSE Opens(st, c)
<1>1. PICK k \in Nat : k = Opens(st, c)  BY OpensNat DEF IsPushed
<1>2. Opens(new, c) = IF b = c THEN k + 1 ELSE k  BY <1>1, OpensPush
<1> QED  BY <1>1, <1>2

\* All brackets are of objects or of arrays.
LEMMA OpensAll ==
  ASSUME NEW st \in Seq(Brackets)
  PROVE  Opens(st, "{") + Opens(st, "[") = Len(st)
<1>1. PICK n \in Nat : n = Len(st)  OBVIOUS
<1>2. PICK S : S = {i \in 1..n : st[i] = "{"}  OBVIOUS
<1>3. PICK T : T = {i \in 1..n : st[i] = "["}  OBVIOUS
<1>4. IsFiniteSet(1..n) /\ Cardinality(1..n) = n  BY FS_Interval
<1>5. S \subseteq 1..n /\ T \subseteq 1..n  BY <1>2, <1>3
<1>6. S \cup T = 1..n /\ S \cap T = {}
  <2>1. \A i \in 1..n : st[i] \in Brackets  BY <1>1
  <2> QED  BY <1>2, <1>3, <2>1 DEF Brackets
<1>7. IsFiniteSet(S) /\ IsFiniteSet(T)  BY <1>4, <1>5, FS_Subset
<1>8. Cardinality(S \cup T) = Cardinality(S) + Cardinality(T) - Cardinality(S \cap T)
  BY <1>7, FS_Union
<1>9. Cardinality(S) \in Nat /\ Cardinality(T) \in Nat  BY <1>7, FS_CardinalityType
<1>10. Cardinality(S \cap T) = 0  BY <1>6, FS_EmptySet
<1>11. Cardinality(S \cup T) = n  BY <1>4, <1>6
<1>12. n = Cardinality(S) + Cardinality(T)
  <2>1. PICK s \in Nat, t \in Nat : s = Cardinality(S) /\ t = Cardinality(T)  BY <1>9
  <2>2. n = s + t - 0  BY <1>8, <1>10, <1>11, <2>1
  <2> QED  BY <2>1, <2>2
<1> QED  BY <1>1, <1>2, <1>3, <1>12 DEF Opens

-------------------------------------------------------------------------------
Options == [partialRead |-> TRUE, minified |-> FALSE, knownOrder |-> FALSE]

\* The iterator went on one entry, and its counters by so much.
Moved(s, t, o, a) ==
  t = [iter |-> s.iter + 1, obj |-> s.obj + o, arr |-> s.arr + a, errors |-> s.errors]

\* It went nowhere, or recorded an error.
Stayed(s, t) ==
  \E e \in Seq(Statuses) : t = [iter |-> s.iter, obj |-> s.obj, arr |-> s.arr, errors |-> e]

\* An error leaves the rest as it is.
LEMMA StayedOk ==
  ASSUME NEW s, ItOk(s), NEW t, Stayed(s, t)
  PROVE  ItOk(t) /\ t.obj = s.obj /\ t.arr = s.arr
BY DEF ItOk, Stayed

\* An error that is recorded.
LEMMA Rejected ==
  ASSUME NEW s, ItOk(s), NEW e \in Statuses, NEW t, t = V!Reject(s, e)
  PROVE  Stayed(s, t) /\ t.errors # <<>>
<1>1. PICK es \in Seq(Statuses) : es = Append(s.errors, e) /\ es # <<>>
  <2>1. Append(s.errors, e) \in Seq(Statuses) /\ Append(s.errors, e) # <<>>
    BY AppendProperties DEF ItOk
  <2> QED  BY <2>1
<1>2. t = [iter |-> s.iter, obj |-> s.obj, arr |-> s.arr, errors |-> es]
  BY <1>1 DEF V!Reject, ItOk
<1>3. Stayed(s, t)  BY <1>2 DEF Stayed
<1>4. t.errors = es  BY <1>2
<1> QED  BY <1>1, <1>3, <1>4

\* A step of one entry.
LEMMA Advanced ==
  ASSUME NEW s, ItOk(s), NEW t, t = V!Advance(s) PROVE Moved(s, t, 0, 0)
BY DEF V!Advance, ItOk, Moved

\* A bracket of an object that is counted, and then a step.
LEMMA NestedObject ==
  ASSUME NEW s, ItOk(s), NEW o \in Int, NEW n, n = [s EXCEPT !.obj = @ + o], NEW t, t = V!Advance(n)
  PROVE  Moved(s, t, o, 0)
<1>1. t = [n EXCEPT !.iter = @ + 1]  BY DEF V!Advance
<1>2. t = [iter |-> s.iter + 1, obj |-> s.obj + o, arr |-> s.arr, errors |-> s.errors]
  BY <1>1 DEF ItOk
<1>3. s.arr + 0 = s.arr /\ s.arr \in Nat  BY DEF ItOk
<1> QED  BY <1>2, <1>3 DEF Moved

\* And one of an array.
LEMMA NestedArray ==
  ASSUME NEW s, ItOk(s), NEW o \in Int, NEW n, n = [s EXCEPT !.arr = @ + o], NEW t, t = V!Advance(n)
  PROVE  Moved(s, t, 0, o)
<1>1. t = [n EXCEPT !.iter = @ + 1]  BY DEF V!Advance
<1>2. t = [iter |-> s.iter + 1, obj |-> s.obj, arr |-> s.arr + o, errors |-> s.errors]
  BY <1>1 DEF ItOk
<1>3. s.obj + 0 = s.obj /\ s.obj \in Nat  BY DEF ItOk
<1> QED  BY <1>2, <1>3 DEF Moved

\* A level less.
LEMMA MinusOne == \E d \in Int : d = -1
OBVIOUS

\* What incrementIfEquals answers and leaves.
Taken(c, s, r) == r = V!IncrementIfEquals(c, s)

\* The validator reads the tape, which holds no whitespace.
LEMMA NoWhitespace ==
  ASSUME opts = Options, NEW s PROVE V!SkipWhitespace(s) = s
<1>1. V!Structural  BY DEF V!Structural, Options
<1> QED  BY <1>1 DEF V!SkipWhitespace

\* An opening bracket is taken while the depth allows it.
LEMMA Opening ==
  ASSUME opts = Options, NEW s, ItOk(s), NEW c \in Brackets, NEW r, Taken(c, s, r)
  PROVE  \/ r.ok = FALSE /\ Stayed(s, r.s)
         \/ /\ r.ok = TRUE /\ s.obj + s.arr < MaxDepth
            /\ c = "{" => Moved(s, r.s, 1, 0)
            /\ c = "[" => Moved(s, r.s, 0, 1)
<1>1. r = IF c \in {"{", "["} /\ ~V!DepthOk(s) THEN V!Fail(V!Reject(s, "exceeded_max_depth"))
          ELSE IF V!Cur(s) = c THEN V!Pass(V!Advance(V!Nest(s, c))) ELSE V!Fail(s)
  <2>1. PICK w : w = V!SkipWhitespace(s)  OBVIOUS
  <2>2. r = IF c \in {"{", "["} /\ ~V!DepthOk(w) THEN V!Fail(V!Reject(w, "exceeded_max_depth"))
            ELSE IF V!Cur(w) = c THEN V!Pass(V!Advance(V!Nest(w, c))) ELSE V!Fail(w)
    BY <2>1 DEF V!IncrementIfEquals, Taken
  <2>3. w = s  BY <2>1, NoWhitespace
  <2> QED  BY <2>2, <2>3
<1>2. CASE ~V!DepthOk(s)
  <2>1. r = V!Fail(V!Reject(s, "exceeded_max_depth"))
    BY <1>1, <1>2 DEF Brackets
  <2>2. PICK t : t = V!Reject(s, "exceeded_max_depth")  OBVIOUS
  <2>3. r.ok = FALSE /\ r.s = t  BY <2>1, <2>2 DEF V!Fail
  <2>4. Stayed(s, t)
    <3>1. PICK e : e = "exceeded_max_depth"  OBVIOUS
    <3>2. e \in Statuses /\ t = V!Reject(s, e)  BY <2>2, <3>1 DEF Statuses, V!ParseStatuses
    <3> QED  BY <3>2, Rejected
  <2> QED  BY <2>3, <2>4
<1>3. CASE V!DepthOk(s) /\ V!Cur(s) # c
  <2>1. r = V!Fail(s)  BY <1>1, <1>3
  <2>2. r.ok = FALSE /\ r.s = s  BY <2>1 DEF V!Fail
  <2>3. Stayed(s, s)  BY DEF ItOk, Stayed
  <2> QED  BY <2>2, <2>3
<1>4. CASE V!DepthOk(s) /\ V!Cur(s) = c
  <2>1. r = V!Pass(V!Advance(V!Nest(s, c)))  BY <1>1, <1>4
  <2>2. r.ok = TRUE /\ r.s = V!Advance(V!Nest(s, c))  BY <2>1 DEF V!Pass
  <2>3. CASE c = "{"
    <3>1. PICK n, t : n = V!Nest(s, c) /\ t = V!Advance(n) /\ t = r.s  BY <2>2
    <3>2. PICK d \in Int : d = 1  OBVIOUS
    <3>3. n = [s EXCEPT !.obj = @ + d]  BY <2>3, <3>1, <3>2 DEF V!Nest
    <3>4. Moved(s, t, d, 0)  BY <3>1, <3>3, NestedObject
    <3>5. Moved(s, r.s, 1, 0)  BY <3>1, <3>2, <3>4
    <3> QED  BY <1>4, <2>2, <2>3, <3>5 DEF V!DepthOk
  <2>4. CASE c = "["
    <3>1. PICK n, t : n = V!Nest(s, c) /\ t = V!Advance(n) /\ t = r.s  BY <2>2
    <3>2. PICK d \in Int : d = 1  OBVIOUS
    <3>3. n = [s EXCEPT !.arr = @ + d]  BY <2>4, <3>1, <3>2 DEF V!Nest
    <3>4. Moved(s, t, 0, d)  BY <3>1, <3>3, NestedArray
    <3>5. Moved(s, r.s, 0, 1)  BY <3>1, <3>2, <3>4
    <3> QED  BY <1>4, <2>2, <2>4, <3>5 DEF V!DepthOk
  <2> QED  BY <2>3, <2>4 DEF Brackets
<1> QED  BY <1>2, <1>3, <1>4

\* A closing bracket gives a level back; a comma or colon does not.
LEMMA Closing ==
  ASSUME opts = Options, NEW s, ItOk(s), NEW c \in {"}", "]", ",", ":"},
         NEW r, Taken(c, s, r)
  PROVE  \/ r.ok = FALSE /\ r.s = s
         \/ /\ r.ok = TRUE
            /\ c = "}" => Moved(s, r.s, -1, 0)
            /\ c = "]" => Moved(s, r.s, 0, -1)
            /\ c \in {",", ":"} => Moved(s, r.s, 0, 0)
<1>1. r = IF V!Cur(s) = c THEN V!Pass(V!Advance(V!Nest(s, c))) ELSE V!Fail(s)
  <2>1. PICK w : w = V!SkipWhitespace(s)  OBVIOUS
  <2>2. r = IF V!Cur(w) = c THEN V!Pass(V!Advance(V!Nest(w, c))) ELSE V!Fail(w)
    BY <2>1 DEF V!IncrementIfEquals, Taken
  <2>3. w = s  BY <2>1, NoWhitespace
  <2> QED  BY <2>2, <2>3
<1>2. CASE V!Cur(s) # c
  <2>1. r = V!Fail(s)  BY <1>1, <1>2
  <2> QED  BY <2>1 DEF V!Fail
<1>3. CASE V!Cur(s) = c
  <2>1. r = V!Pass(V!Advance(V!Nest(s, c)))  BY <1>1, <1>3
  <2>2. r.ok = TRUE /\ r.s = V!Advance(V!Nest(s, c))  BY <2>1 DEF V!Pass
  <2>3. CASE c = "}"
    <3>1. PICK n, t : n = V!Nest(s, c) /\ t = V!Advance(n) /\ t = r.s  BY <2>2
    <3>2. PICK d \in Int : d = -1  BY MinusOne
    <3>3. n = [s EXCEPT !.obj = @ + d]  BY <2>3, <3>1, <3>2 DEF V!Nest, ItOk
    <3>4. Moved(s, t, d, 0)  BY <3>1, <3>3, NestedObject
    <3>5. Moved(s, r.s, -1, 0)  BY <3>1, <3>2, <3>4
    <3> QED  BY <2>2, <2>3, <3>5
  <2>4. CASE c = "]"
    <3>1. PICK n, t : n = V!Nest(s, c) /\ t = V!Advance(n) /\ t = r.s  BY <2>2
    <3>2. PICK d \in Int : d = -1  BY MinusOne
    <3>3. n = [s EXCEPT !.arr = @ + d]  BY <2>4, <3>1, <3>2 DEF V!Nest, ItOk
    <3>4. Moved(s, t, 0, d)  BY <3>1, <3>3, NestedArray
    <3>5. Moved(s, r.s, 0, -1)  BY <3>1, <3>2, <3>4
    <3> QED  BY <2>2, <2>4, <3>5
  <2>5. CASE c \in {",", ":"}
    <3>1. V!Nest(s, c) = s  BY <2>5 DEF V!Nest
    <3>2. Moved(s, r.s, 0, 0)  BY <2>2, <3>1, Advanced
    <3> QED  BY <2>2, <2>5, <3>2
  <2> QED  BY <2>3, <2>4, <2>5
<1> QED  BY <1>2, <1>3

\* A level more, or one less; the rest is as it was.
Opened(s, t, c) ==
  /\ ItOk(t) /\ t.errors = s.errors
  /\ c = "{" => t.obj = s.obj + 1 /\ t.arr = s.arr
  /\ c = "[" => t.obj = s.obj /\ t.arr = s.arr + 1

Closed(s, t, c) ==
  /\ ItOk(t) /\ t.errors = s.errors
  /\ c = "{" => t.obj + 1 = s.obj /\ t.arr = s.arr
  /\ c = "[" => t.obj = s.obj /\ t.arr + 1 = s.arr

Alike(s, t) == ItOk(t) /\ t.errors = s.errors /\ t.obj = s.obj /\ t.arr = s.arr

\* The bracket that closes what another opens.
Closer(c) == IF c = "{" THEN "}" ELSE "]"

\* Where the counters are after a step.
LEMMA MovedTo ==
  ASSUME NEW s, ItOk(s), NEW o, NEW a, NEW t, Moved(s, t, o, a),
         NEW x \in Nat, x = s.obj + o, NEW y \in Nat, y = s.arr + a
  PROVE  ItOk(t) /\ t.obj = x /\ t.arr = y /\ t.errors = s.errors
<1>1. t = [iter |-> s.iter + 1, obj |-> x, arr |-> y, errors |-> s.errors]  BY DEF Moved
<1>2. s.iter + 1 \in Nat /\ s.errors \in Seq(Statuses)  BY DEF ItOk
<1>3. ItOk(t)  BY <1>1, <1>2 DEF ItOk
<1> QED  BY <1>1, <1>3

\* An opening bracket opens a level.
LEMMA OpeningIs ==
  ASSUME opts = Options, NEW s, ItOk(s), NEW c \in Brackets, NEW r, Taken(c, s, r), NEW t, t = r.s
  PROVE  \/ r.ok = FALSE /\ ItOk(t)
         \/ r.ok = TRUE /\ s.obj + s.arr < MaxDepth /\ Opened(s, t, c)
<1>1. CASE r.ok = FALSE /\ Stayed(s, t)  BY <1>1, StayedOk
<1>2. PICK x \in Nat, y \in Nat : x = s.obj /\ y = s.arr  BY DEF ItOk
<1>3. PICK u \in Int, z \in Int : u = 1 /\ z = 0  OBVIOUS
<1>4. PICK v \in Nat, w \in Nat : v = x + 1 /\ w = y + 1  OBVIOUS
<1>5. v = s.obj + u /\ w = s.arr + u /\ x = s.obj + z /\ y = s.arr + z  BY <1>2, <1>3, <1>4
<1>6. CASE r.ok = TRUE /\ s.obj + s.arr < MaxDepth /\ c = "{" /\ Moved(s, t, 1, 0)
  <2>1. Moved(s, t, u, z)  BY <1>3, <1>6
  <2>2. ItOk(t) /\ t.obj = v /\ t.arr = y /\ t.errors = s.errors  BY <1>5, <2>1, MovedTo
  <2>3. Opened(s, t, c)  BY <1>2, <1>4, <1>6, <2>2 DEF Opened
  <2> QED  BY <1>6, <2>3
<1>7. CASE r.ok = TRUE /\ s.obj + s.arr < MaxDepth /\ c = "[" /\ Moved(s, t, 0, 1)
  <2>1. Moved(s, t, z, u)  BY <1>3, <1>7
  <2>2. ItOk(t) /\ t.obj = x /\ t.arr = w /\ t.errors = s.errors  BY <1>5, <2>1, MovedTo
  <2>3. Opened(s, t, c)  BY <1>2, <1>4, <1>7, <2>2 DEF Opened
  <2> QED  BY <1>7, <2>3
<1>8. \/ r.ok = FALSE /\ Stayed(s, r.s)
      \/ /\ r.ok = TRUE /\ s.obj + s.arr < MaxDepth
         /\ c = "{" => Moved(s, r.s, 1, 0)
         /\ c = "[" => Moved(s, r.s, 0, 1)
  BY Opening
<1> QED  BY <1>1, <1>6, <1>7, <1>8 DEF Brackets

\* A number and the one before it.
LEMMA OneLess ==
  ASSUME NEW x \in Nat, x > 0
  PROVE  \E v \in Nat : \E u : u = -1 /\ v + 1 = x /\ v = x + u
<1>1. x - 1 \in Nat /\ x - 1 + 1 = x /\ x - 1 = x + (-1)  OBVIOUS
<1>2. PICK v \in Nat : v = x - 1  BY <1>1
<1>3. PICK u : u = -1  OBVIOUS
<1>4. v + 1 = x /\ v = x + u  BY <1>1, <1>2, <1>3
<1> QED  BY <1>3, <1>4

\* A level of an object less.
LEMMA LeftObject ==
  ASSUME NEW s, ItOk(s), s.obj > 0, NEW t, Moved(s, t, -1, 0)
  PROVE  ItOk(t) /\ t.obj + 1 = s.obj /\ t.arr = s.arr /\ t.errors = s.errors
<1>1. PICK x \in Nat, y \in Nat : x = s.obj /\ y = s.arr  BY DEF ItOk
<1>2. PICK z : z = 0  OBVIOUS
<1>3. x > 0 /\ y = y + z  BY <1>1, <1>2
<1>4. PICK v \in Nat : \E u : u = -1 /\ v + 1 = x /\ v = x + u  BY <1>3, OneLess
<1>5. PICK u : u = -1 /\ v + 1 = x /\ v = x + u  BY <1>4
<1>6. Moved(s, t, u, z) /\ v = s.obj + u /\ y = s.arr + z  BY <1>1, <1>2, <1>3, <1>5
<1>7. ItOk(t) /\ t.obj = v /\ t.arr = y /\ t.errors = s.errors  BY <1>6, MovedTo
<1> QED  BY <1>1, <1>5, <1>7

\* And one of an array.
LEMMA LeftArray ==
  ASSUME NEW s, ItOk(s), s.arr > 0, NEW t, Moved(s, t, 0, -1)
  PROVE  ItOk(t) /\ t.obj = s.obj /\ t.arr + 1 = s.arr /\ t.errors = s.errors
<1>1. PICK x \in Nat, y \in Nat : x = s.obj /\ y = s.arr  BY DEF ItOk
<1>2. PICK z : z = 0  OBVIOUS
<1>3. y > 0 /\ x = x + z  BY <1>1, <1>2
<1>4. PICK v \in Nat : \E u : u = -1 /\ v + 1 = y /\ v = y + u  BY <1>3, OneLess
<1>5. PICK u : u = -1 /\ v + 1 = y /\ v = y + u  BY <1>4
<1>6. Moved(s, t, z, u) /\ x = s.obj + z /\ v = s.arr + u  BY <1>1, <1>2, <1>3, <1>5
<1>7. ItOk(t) /\ t.obj = x /\ t.arr = v /\ t.errors = s.errors  BY <1>6, MovedTo
<1> QED  BY <1>1, <1>5, <1>7

\* Its closing bracket closes one.
LEMMA ClosingIs ==
  ASSUME opts = Options, NEW s, ItOk(s), NEW c \in Brackets,
         c = "{" => s.obj > 0, c = "[" => s.arr > 0,
         NEW d, d = Closer(c), NEW r, Taken(d, s, r), NEW t, t = r.s
  PROVE  (r.ok = FALSE /\ t = s) \/ (r.ok = TRUE /\ Closed(s, t, c))
<1>1. d \in {"}", "]", ",", ":"}  BY DEF Closer
<1>2. \/ r.ok = FALSE /\ r.s = s
      \/ /\ r.ok = TRUE
         /\ d = "}" => Moved(s, r.s, -1, 0)
         /\ d = "]" => Moved(s, r.s, 0, -1)
  BY <1>1, Closing
<1>3. CASE r.ok = FALSE /\ r.s = s  BY <1>3
<1>4. CASE r.ok = TRUE /\ c = "{"
  <2>1. Moved(s, t, -1, 0)  BY <1>2, <1>4 DEF Closer
  <2>2. Closed(s, t, c)  BY <1>4, <2>1, LeftObject DEF Closed
  <2> QED  BY <1>4, <2>2
<1>5. CASE r.ok = TRUE /\ c = "["
  <2>1. Moved(s, t, 0, -1)  BY <1>2, <1>5 DEF Closer
  <2>2. Closed(s, t, c)  BY <1>5, <2>1, LeftArray DEF Closed
  <2> QED  BY <1>5, <2>2
<1> QED  BY <1>2, <1>3, <1>4, <1>5 DEF Brackets

\* Nothing else that is tried changes the counters.
LEMMA AlikeIs ==
  ASSUME NEW s, ItOk(s), NEW t, Moved(s, t, 0, 0) PROVE Alike(s, t)
<1>1. PICK x \in Nat, y \in Nat : x = s.obj /\ y = s.arr  BY DEF ItOk
<1>2. PICK z : z = 0  OBVIOUS
<1>3. Moved(s, t, z, z) /\ x = s.obj + z /\ y = s.arr + z  BY <1>1, <1>2
<1> QED  BY <1>1, <1>3, MovedTo DEF Alike

\* A comma, or a colon.
LEMMA SeparatorIs ==
  ASSUME opts = Options, NEW s, ItOk(s), NEW c \in {",", ":"}, NEW r, Taken(c, s, r), NEW t, t = r.s
  PROVE  (r.ok = FALSE /\ t = s) \/ (r.ok = TRUE /\ Alike(s, t))
<1>1. c \in {"}", "]", ",", ":"}  OBVIOUS
<1>2. \/ r.ok = FALSE /\ r.s = s
      \/ r.ok = TRUE /\ (c \in {",", ":"} => Moved(s, r.s, 0, 0))
  BY <1>1, Closing
<1> QED  BY <1>2, AlikeIs

\* The counters follow the stack when a bracket comes on top.
LEMMA PushedCounts ==
  ASSUME NEW s, NEW t, NEW st, NEW new, NEW open, Counted(s, st), IsPushed(new, st, open), Opened(s, t, open)
  PROVE  Counted(t, new)
<1>1. PICK x : x = "{"  OBVIOUS
<1>2. PICK y : y = "["  OBVIOUS
<1>3. PICK m \in Nat : m = Opens(st, x)  BY OpensNat DEF IsPushed
<1>4. PICK n \in Nat : n = Opens(st, y)  BY OpensNat DEF IsPushed
<1>5. Opens(new, x) = IF open = x THEN m + 1 ELSE m  BY <1>3, OpensPush
<1>6. Opens(new, y) = IF open = y THEN n + 1 ELSE n  BY <1>4, OpensPush
<1>7. s.obj = m /\ s.arr = n  BY <1>1, <1>2, <1>3, <1>4 DEF Counted
<1>8. CASE open = "{"
  <2>1. t.obj = m + 1 /\ t.arr = n  BY <1>7, <1>8 DEF Opened
  <2>2. Opens(new, x) = m + 1  BY <1>1, <1>5, <1>8
  <2>3. Opens(new, y) = n  BY <1>2, <1>6, <1>8
  <2> QED  BY <1>1, <1>2, <2>1, <2>2, <2>3 DEF Counted
<1>9. CASE open = "["
  <2>1. t.obj = m /\ t.arr = n + 1  BY <1>7, <1>9 DEF Opened
  <2>2. Opens(new, x) = m  BY <1>1, <1>5, <1>9
  <2>3. Opens(new, y) = n + 1  BY <1>2, <1>6, <1>9
  <2> QED  BY <1>1, <1>2, <2>1, <2>2, <2>3 DEF Counted
<1> QED  BY <1>8, <1>9 DEF Brackets, IsPushed

\* And when it goes; while it is there its counter is not zero.
LEMMA PoppedCounts ==
  ASSUME NEW s, NEW st, NEW new, NEW open, ItOk(s), Counted(s, new), IsPushed(new, st, open)
  PROVE  /\ open = "{" => s.obj > 0
         /\ open = "[" => s.arr > 0
         /\ \A t : Closed(s, t, open) => Counted(t, st)
<1>1. PICK x : x = "{"  OBVIOUS
<1>2. PICK y : y = "["  OBVIOUS
<1>3. PICK m \in Nat : m = Opens(st, x)  BY OpensNat DEF IsPushed
<1>4. PICK n \in Nat : n = Opens(st, y)  BY OpensNat DEF IsPushed
<1>5. Opens(new, x) = IF open = x THEN m + 1 ELSE m  BY <1>3, OpensPush
<1>6. Opens(new, y) = IF open = y THEN n + 1 ELSE n  BY <1>4, OpensPush
<1>7. s.obj = Opens(new, x) /\ s.arr = Opens(new, y)  BY <1>1, <1>2 DEF Counted
<1>8. CASE open = "{"
  <2>1. s.obj = m + 1  BY <1>1, <1>5, <1>7, <1>8
  <2>2. s.arr = n  BY <1>2, <1>6, <1>7, <1>8
  <2>3. ASSUME NEW t, Closed(s, t, open) PROVE Counted(t, st)
    <3>1. t.obj + 1 = m + 1 /\ t.arr = n /\ ItOk(t)  BY <1>8, <2>1, <2>2, <2>3 DEF Closed
    <3>2. PICK k \in Nat : k = t.obj  BY <3>1 DEF ItOk
    <3>3. k = m  BY <3>1, <3>2
    <3> QED  BY <1>1, <1>2, <1>3, <1>4, <3>1, <3>2, <3>3 DEF Counted
  <2>4. s.obj > 0  BY <2>1
  <2>5. open # "["  BY <1>8
  <2> QED  BY <2>3, <2>4, <2>5
<1>9. CASE open = "["
  <2>1. s.obj = m  BY <1>1, <1>5, <1>7, <1>9
  <2>2. s.arr = n + 1  BY <1>2, <1>6, <1>7, <1>9
  <2>3. ASSUME NEW t, Closed(s, t, open) PROVE Counted(t, st)
    <3>1. t.obj = m /\ t.arr + 1 = n + 1 /\ ItOk(t)  BY <1>9, <2>1, <2>2, <2>3 DEF Closed
    <3>2. PICK k \in Nat : k = t.arr  BY <3>1 DEF ItOk
    <3>3. k = n  BY <3>1, <3>2
    <3> QED  BY <1>1, <1>2, <1>3, <1>4, <3>1, <3>2, <3>3 DEF Counted
  <2>4. s.arr > 0  BY <2>2
  <2>5. open # "{"  BY <1>9
  <2> QED  BY <2>3, <2>4, <2>5
<1> QED  BY <1>8, <1>9 DEF Brackets, IsPushed

-------------------------------------------------------------------------------
\* The validator's part of the invariant: the parsers in progress are as many as the
\* counters say and no more than the depth allows, and no error is recorded before
\* the call ends.
Quiet(t, st, c, ans) ==
  IF c = "idle" THEN st = <<>> /\ (ans => t.errors = <<>> /\ t.obj = 0 /\ t.arr = 0)
  ELSE t.errors = <<>> /\ Counted(t, st) /\ (c = "after" => st # <<>>)

VInv ==
  /\ opts = Options /\ ItOk(it) /\ validations \in Nat
  /\ stack \in Seq(Brackets) /\ Len(stack) <= MaxDepth
  /\ Quiet(it, stack, ctl, answer)

\* What no step of a walk changes.
Static == opts' = opts /\ validations' = validations

\* FALSE is handed up through all parsers.
LEMMA RefuseOk ==
  ASSUME VInv, Static, NEW s, ItOk(s), V!Refuse(s) PROVE VInv'
<1>1. it' = s /\ ctl' = "idle" /\ stack' = <<>> /\ answer' = FALSE  BY DEF V!Refuse
<1>2. stack' \in Seq(Brackets) /\ Len(stack') = 0  BY <1>1
<1>3. opts' = Options /\ validations' \in Nat  BY DEF VInv, Static
<1>4. Quiet(it', stack', ctl', answer')  BY <1>1 DEF Quiet
<1>5. ItOk(it')  BY <1>1
<1>6. Len(stack') <= MaxDepth  BY <1>2, DepthAssumption
<1> QED  BY <1>2, <1>3, <1>4, <1>5, <1>6 DEF VInv, Quiet, ItOk, Counted, Opens

\* TRUE to the parser below, or to the caller when there is none.
LEMMA AcceptOk ==
  ASSUME VInv, Static, ctl # "idle", NEW s, ItOk(s), s.errors = <<>>,
         NEW rest \in Seq(Brackets), Len(rest) <= MaxDepth, Counted(s, rest),
         ctl \in {"value", "key", "after"}, V!Accept(s, rest)
  PROVE  VInv'
<1>1. opts' = Options /\ validations' \in Nat /\ stack' = rest  BY DEF VInv, Static, V!Accept
<1>2. CASE rest = <<>>
  <2>1. PICK e : e = V!CheckIfDone(s)  OBVIOUS
  <2>2. it' = e /\ ctl' = "idle" /\ answer' = (e.errors = <<>>)  BY <1>2, <2>1 DEF V!Accept
  <2>3. e = IF s.obj = 0 /\ s.arr = 0 /\ ~V!NotAtEndPre(s) THEN s ELSE V!Reject(s, "unfinished_input")
    <3>1. PICK w : w = V!SkipWhitespace(s)  OBVIOUS
    <3>2. w = s  BY <3>1, NoWhitespace DEF VInv
    <3>3. e = IF w.obj = 0 /\ w.arr = 0 /\ ~V!NotAtEndPre(w) THEN w ELSE V!Reject(w, "unfinished_input")
      BY <2>1, <3>1 DEF V!CheckIfDone
    <3> QED  BY <3>2, <3>3
  <2>4. ItOk(e) /\ (e.errors = <<>> => e.obj = 0 /\ e.arr = 0)
    <3>1. CASE e = s /\ s.obj = 0 /\ s.arr = 0  BY <3>1
    <3>2. CASE e = V!Reject(s, "unfinished_input")
      <4>1. PICK u : u = "unfinished_input"  OBVIOUS
      <4>2. u \in Statuses /\ e = V!Reject(s, u)  BY <3>2, <4>1 DEF Statuses, V!ParseStatuses
      <4>3. Stayed(s, e) /\ e.errors # <<>>  BY <4>2, Rejected
      <4> QED  BY <4>3, StayedOk
    <3> QED  BY <2>3, <3>1, <3>2
  <2>5. Quiet(it', stack', ctl', answer')  BY <1>1, <1>2, <2>2, <2>4 DEF Quiet
  <2>6. ItOk(it')  BY <2>2, <2>4
  <2> QED  BY <1>1, <2>5, <2>6 DEF VInv, Quiet, ItOk, Counted, Opens
<1>3. CASE rest # <<>>
  <2>1. it' = s /\ ctl' = "after"  BY <1>3 DEF V!Accept
  <2>2. Quiet(it', stack', ctl', answer')  BY <1>1, <1>3, <2>1 DEF Quiet
  <2>3. ItOk(it')  BY <2>1
  <2> QED  BY <1>1, <2>2, <2>3 DEF VInv, Quiet, ItOk, Counted, Opens
<1> QED  BY <1>2, <1>3

\* A call begins with a fresh iterator.
LEMMA ValidateOk ==
  ASSUME VInv, NEW d, V!ValidateJson(d)
  PROVE  VInv' /\ validations' = validations + 1 /\ ctl = "idle"
<1>1. PICK f : f = V!Fresh  OBVIOUS
<1>2. ItOk(f) /\ f.errors = <<>> /\ f.obj = 0 /\ f.arr = 0  BY <1>1 DEF V!Fresh, ItOk
<1>3. /\ ctl = "idle" /\ opts' = Options /\ stack' = <<>> /\ stack' \in Seq(Brackets)
      /\ validations' = validations + 1 /\ validations' \in Nat
  BY DEF V!ValidateJson, VInv, Quiet
<1>4. CASE d.text = <<>>
  <2>1. PICK e, u : u = "no_input" /\ e = V!Reject(f, u)  OBVIOUS
  <2>2. it' = e /\ answer' = FALSE /\ ctl' = "idle"  BY <1>1, <1>4, <2>1 DEF V!ValidateJson
  <2>3. u \in Statuses  BY <2>1 DEF Statuses, V!ParseStatuses
  <2>4. ItOk(e)
    <3>1. Stayed(f, e)  BY <1>2, <2>1, <2>3, Rejected
    <3> QED  BY <1>2, <3>1, StayedOk
  <2>5. ItOk(it')  BY <2>2, <2>4
  <2>6. Quiet(it', stack', ctl', answer')  BY <1>3, <2>2 DEF Quiet
  <2>7. Len(stack') <= MaxDepth  BY <1>3, DepthAssumption
  <2> QED  BY <1>3, <2>5, <2>6, <2>7 DEF VInv, Quiet, ItOk, Counted, Opens
<1>5. CASE d.text # <<>>
  <2>1. it' = f /\ ctl' = "value"  BY <1>1, <1>5 DEF V!ValidateJson
  <2>2. Counted(it', stack')  BY <1>2, <1>3, <2>1, OpensNone DEF Counted
  <2>3. ItOk(it')  BY <1>2, <2>1
  <2>4. Quiet(it', stack', ctl', answer')  BY <1>2, <2>1, <2>2 DEF Quiet
  <2>5. Len(stack') <= MaxDepth  BY <1>3, DepthAssumption
  <2> QED  BY <1>3, <2>3, <2>4, <2>5 DEF VInv, Quiet, ItOk, Counted, Opens
<1> QED  BY <1>3, <1>4, <1>5

\* An object or array begins: its parser is one more, unless it is empty.
LEMMA ContainerOk ==
  ASSUME VInv, Static, ctl = "value", NEW open \in Brackets, NEW close, close = Closer(open),
         V!Container(open, close)
  PROVE  VInv'
<1>1. /\ opts = Options /\ ItOk(it) /\ it.errors = <<>> /\ Counted(it, stack)
      /\ stack \in Seq(Brackets) /\ Len(stack) <= MaxDepth
  BY DEF VInv, Quiet
<1>2. PICK r : r = V!IncrementIfEquals(open, it)  OBVIOUS
<1>3. PICK t : t = r.s  OBVIOUS
<1>4. \/ r.ok = FALSE /\ ItOk(t)
      \/ r.ok = TRUE /\ it.obj + it.arr < MaxDepth /\ Opened(it, t, open)
  <2>1. Taken(open, it, r)  BY <1>2 DEF Taken
  <2> QED  BY <1>1, <1>3, <2>1, OpeningIs
<1>5. CASE r.ok = FALSE
  <2>1. V!Refuse(t)  BY <1>2, <1>3, <1>5 DEF V!Container
  <2> QED  BY <1>4, <1>5, <2>1, RefuseOk
<1>6. CASE r.ok = TRUE
  <2>1. ItOk(t) /\ t.errors = <<>> /\ Opened(it, t, open)  BY <1>1, <1>4, <1>6 DEF Opened
  <2>2. PICK e : e = V!IncrementIfEquals(close, t)  OBVIOUS
  <2>3. PICK u : u = e.s  OBVIOUS
  <2>4. PICK new : new = Append(stack, open)  OBVIOUS
  <2>5. new \in Seq(Brackets) /\ Len(new) = Len(stack) + 1 /\ new # <<>> /\ IsPushed(new, stack, open)
    <3>1. Append(stack, open) \in Seq(Brackets) /\ Len(Append(stack, open)) = Len(stack) + 1
          /\ Append(stack, open) # <<>>
      BY <1>1, AppendProperties
    <3> QED  BY <1>1, <2>4, <3>1 DEF IsPushed
  <2>6. Counted(t, new)  BY <1>1, <2>1, <2>5, PushedCounts
  <2>7. (e.ok = FALSE /\ u = t) \/ (e.ok = TRUE /\ Closed(t, u, open))
    <3>1. Taken(close, t, e)  BY <2>2 DEF Taken
    <3>2. (open = "{" => t.obj > 0) /\ (open = "[" => t.arr > 0)
      BY <2>1, <2>5, <2>6, PoppedCounts
    <3> QED  BY <1>1, <2>1, <2>3, <3>1, <3>2, ClosingIs
  <2>8. CASE e.ok = TRUE
    <3>1. ItOk(u) /\ u.errors = <<>>  BY <2>1, <2>7, <2>8 DEF Closed
    <3>2. Counted(u, stack)  BY <2>1, <2>5, <2>6, <2>7, <2>8, PoppedCounts
    <3>3. V!Accept(u, stack)  BY <1>2, <1>3, <1>6, <2>2, <2>3, <2>8 DEF V!Container
    <3> QED  BY <1>1, <3>1, <3>2, <3>3, AcceptOk
  <2>9. CASE e.ok = FALSE
    <3>1. it' = t /\ stack' = new /\ ctl' \in {"key", "value"}
      BY <1>2, <1>3, <1>6, <2>2, <2>3, <2>4, <2>7, <2>9 DEF V!Container
    <3>2. Len(new) <= MaxDepth
      <4>1. it.obj + it.arr = Len(stack)  BY <1>1, OpensAll DEF Counted
      <4>2. it.obj + it.arr < MaxDepth  BY <1>4, <1>6
      <4>3. Len(stack) \in Nat  BY <1>1, LenProperties
      <4>4. Len(stack) < MaxDepth  BY <4>1, <4>2
      <4> QED  BY <2>5, <4>3, <4>4, DepthAssumption
    <3>3. Quiet(it', stack', ctl', answer')  BY <2>1, <2>6, <3>1 DEF Quiet
    <3>4. opts' = Options /\ validations' \in Nat  BY DEF VInv, Static
    <3>5. ItOk(it') /\ stack' \in Seq(Brackets) /\ Len(stack') <= MaxDepth
      BY <2>1, <2>5, <3>1, <3>2
    <3> QED  BY <3>3, <3>4, <3>5 DEF VInv, Quiet, ItOk, Counted, Opens
  <2> QED  BY <2>7, <2>8, <2>9
<1> QED  BY <1>4, <1>5, <1>6

\* A value that is no object or array.
LEMMA ScalarOk ==
  ASSUME VInv, Static, ctl = "value",
         \/ V!Accept(V!Advance(it), stack) \/ V!Refuse(V!Advance(it)) \/ V!Refuse(it)
  PROVE  VInv'
<1>1. /\ ItOk(it) /\ it.errors = <<>> /\ Counted(it, stack)
      /\ stack \in Seq(Brackets) /\ Len(stack) <= MaxDepth
  BY DEF VInv, Quiet
<1>2. PICK t : t = V!Advance(it)  OBVIOUS
<1>3. ItOk(t) /\ t.errors = <<>> /\ Counted(t, stack)
  <2>1. Alike(it, t)  BY <1>1, <1>2, Advanced, AlikeIs
  <2> QED  BY <1>1, <2>1 DEF Alike, Counted
<1>4. CASE V!Accept(t, stack)  BY <1>1, <1>3, <1>4, AcceptOk
<1>5. CASE V!Refuse(t)  BY <1>3, <1>5, RefuseOk
<1>6. CASE V!Refuse(it)  BY <1>1, <1>6, RefuseOk
<1> QED  BY <1>2, <1>4, <1>5, <1>6

\* A step that takes no bracket.
LEMMA GoesOnOk ==
  ASSUME VInv, Static, ctl # "idle", NEW u, Alike(it, u),
         it' = u, ctl' \in {"key", "value"}, stack' = stack, answer' = answer
  PROVE  VInv'
<1>1. /\ it.errors = <<>> /\ Counted(it, stack) /\ stack \in Seq(Brackets) /\ Len(stack) <= MaxDepth
  BY DEF VInv, Quiet
<1>2. ItOk(u) /\ u.errors = <<>> /\ Counted(u, stack)  BY <1>1 DEF Alike, Counted
<1>3. Quiet(it', stack', ctl', answer')  BY <1>2 DEF Quiet
<1>4. opts' = Options /\ validations' \in Nat  BY DEF VInv, Static
<1> QED  BY <1>1, <1>2, <1>3, <1>4 DEF VInv, Quiet, ItOk, Counted, Opens

\* A member's key: a string and a colon.
LEMMA KeyOk == ASSUME VInv, V!Key PROVE VInv'
<1>1. Static  BY DEF Static, V!Key, V!static
<1>2. opts = Options /\ ItOk(it) /\ ctl = "key"  BY DEF VInv, V!Key
<1>3. PICK t : t = V!Advance(it)  OBVIOUS
<1>4. Alike(it, t) /\ ItOk(t)  BY <1>2, <1>3, Advanced, AlikeIs DEF Alike
<1>5. PICK c, r : c = ":" /\ r = V!IncrementIfEquals(c, t)  OBVIOUS
<1>6. PICK u : u = r.s  OBVIOUS
<1>7. Alike(it, u)
  <2>1. Taken(c, t, r) /\ c \in {",", ":"}  BY <1>5 DEF Taken
  <2>2. u = t \/ Alike(t, u)  BY <1>2, <1>4, <1>6, <2>1, SeparatorIs
  <2> QED  BY <1>4, <2>2 DEF Alike
<1>8. \/ it' = u /\ ctl' = "value" /\ stack' = stack /\ answer' = answer
      \/ V!Refuse(u)
      \/ V!Refuse(it)
  BY <1>3, <1>5, <1>6 DEF V!Key
<1>9. CASE it' = u /\ ctl' = "value" /\ stack' = stack /\ answer' = answer
  BY <1>1, <1>2, <1>7, <1>9, GoesOnOk
<1>10. CASE V!Refuse(u)
  <2>1. ItOk(u)  BY <1>7 DEF Alike
  <2> QED  BY <1>1, <1>10, <2>1, RefuseOk
<1>11. CASE V!Refuse(it)  BY <1>1, <1>2, <1>11, RefuseOk
<1> QED  BY <1>8, <1>9, <1>10, <1>11

\* A comma, or the bracket that gives a level back.
LEMMA AfterOk == ASSUME VInv, V!After PROVE VInv'
<1>1. Static  BY DEF Static, V!After, V!static
<1>2. /\ opts = Options /\ ItOk(it) /\ it.errors = <<>> /\ Counted(it, stack)
      /\ stack \in Seq(Brackets) /\ Len(stack) <= MaxDepth /\ ctl = "after" /\ stack # <<>>
  BY DEF VInv, Quiet, V!After
<1>3. PICK top, rest : top = stack[Len(stack)] /\ rest = SubSeq(stack, 1, Len(stack) - 1)  OBVIOUS
<1>4. IsPushed(stack, rest, top) /\ Len(rest) = Len(stack) - 1  BY <1>2, <1>3, Popped
<1>5. V!Top = top /\ V!Below = rest  BY <1>3 DEF V!Top, V!Below
<1>6. PICK c, r : c = "," /\ r = V!IncrementIfEquals(c, it)  OBVIOUS
<1>7. PICK d, e : d = Closer(top) /\ e = V!IncrementIfEquals(d, it)  OBVIOUS
<1>8. PICK t : t = r.s  OBVIOUS
<1>9. PICK u : u = e.s  OBVIOUS
<1>10. (r.ok = FALSE /\ t = it) \/ (r.ok = TRUE /\ Alike(it, t))
  <2>1. Taken(c, it, r) /\ c \in {",", ":"}  BY <1>6 DEF Taken
  <2> QED  BY <1>2, <1>8, <2>1, SeparatorIs
<1>11. /\ rest \in Seq(Brackets) /\ top \in Brackets
       /\ (top = "{" => it.obj > 0) /\ (top = "[" => it.arr > 0)
       /\ \A x : Closed(it, x, top) => Counted(x, rest)
  <2>1. rest \in Seq(Brackets) /\ top \in Brackets  BY <1>4 DEF IsPushed
  <2> QED  BY <1>2, <1>4, <2>1, PoppedCounts
<1>12. (e.ok = FALSE /\ u = it) \/ (e.ok = TRUE /\ Closed(it, u, top))
  <2>1. Taken(d, it, e)  BY <1>7 DEF Taken
  <2> QED  BY <1>2, <1>7, <1>9, <1>11, <2>1, ClosingIs
<1>13. \/ /\ r.ok = TRUE /\ it' = t /\ stack' = stack /\ answer' = answer
          /\ ctl' \in {"key", "value"}
       \/ e.ok = TRUE /\ V!Accept(u, rest)
       \/ e.ok = FALSE /\ V!Refuse(u)
  <2>1. d = IF top = "{" THEN "}" ELSE "]"  BY <1>7 DEF Closer
  <2>2. \/ /\ r.ok /\ it' = t /\ stack' = stack /\ answer' = answer
           /\ ctl' = IF top = "{" THEN "key" ELSE "value"
        \/ e.ok /\ V!Accept(u, rest)
        \/ ~e.ok /\ V!Refuse(u)
    BY <1>5, <1>6, <1>7, <1>8, <1>9, <2>1 DEF V!After
  <2> QED  BY <1>10, <1>12, <2>2
<1>14. CASE /\ r.ok = TRUE /\ it' = t /\ stack' = stack /\ answer' = answer
            /\ ctl' \in {"key", "value"}
  BY <1>1, <1>2, <1>10, <1>14, GoesOnOk
<1>15. CASE e.ok = TRUE /\ V!Accept(u, rest)
  <2>1. ItOk(u) /\ u.errors = <<>> /\ Counted(u, rest)  BY <1>2, <1>11, <1>12, <1>15 DEF Closed
  <2>2. Len(rest) <= MaxDepth
    <3>1. Len(stack) \in Nat  BY <1>2, LenProperties
    <3> QED  BY <1>2, <1>4, <3>1, DepthAssumption
  <2> QED  BY <1>1, <1>2, <1>11, <1>15, <2>1, <2>2, AcceptOk
<1>16. CASE e.ok = FALSE /\ V!Refuse(u)
  <2>1. u = it  BY <1>12, <1>16
  <2> QED  BY <1>1, <1>2, <1>16, <2>1, RefuseOk
<1> QED  BY <1>13, <1>14, <1>15, <1>16

\* Every step of the validator.
LEMMA WalkOk == VInv /\ V!Walk => VInv'
<1> SUFFICES ASSUME VInv, V!Walk PROVE VInv'  OBVIOUS
<1>1. CASE V!ValidateContainer
  <2>1. ctl = "value" /\ Static  BY <1>1 DEF V!ValidateContainer, V!static, Static
  <2>2. V!Container("{", "}") \/ V!Container("[", "]")  BY <1>1 DEF V!ValidateContainer
  <2>3. CASE V!Container("{", "}")
    <3>1. PICK open, close : open = "{" /\ close = "}"  OBVIOUS
    <3>2. open \in Brackets /\ close = Closer(open) /\ V!Container(open, close)
      BY <2>3, <3>1 DEF Brackets, Closer
    <3> QED  BY <2>1, <3>2, ContainerOk
  <2>4. CASE V!Container("[", "]")
    <3>1. PICK open, close : open = "[" /\ close = "]"  OBVIOUS
    <3>2. open \in Brackets /\ close = Closer(open) /\ V!Container(open, close)
      BY <2>4, <3>1 DEF Brackets, Closer
    <3> QED  BY <2>1, <3>2, ContainerOk
  <2> QED  BY <2>2, <2>3, <2>4
<1>2. CASE V!ValidateString \/ V!ValidateNumber \/ V!ValidateLiteral \/ V!ValidateNothing
  <2>1. ctl = "value" /\ Static
    BY <1>2 DEF V!ValidateString, V!ValidateNumber, V!ValidateLiteral, V!ValidateNothing, V!static, Static
  <2>2. V!Accept(V!Advance(it), stack) \/ V!Refuse(V!Advance(it)) \/ V!Refuse(it)
    BY <1>2 DEF V!ValidateString, V!ValidateNumber, V!ValidateLiteral, V!ValidateNothing
  <2> QED  BY <2>1, <2>2, ScalarOk
<1>3. CASE V!Key  BY <1>3, KeyOk
<1>4. CASE V!After  BY <1>4, AfterOk
<1> QED  BY <1>1, <1>2, <1>3, <1>4 DEF V!Walk, V!Value

\* The calls' settings, and that one was in progress.
LEMMA WalkStatic == V!Walk => Static /\ ctl # "idle" /\ doc' = doc
BY DEF V!Walk, V!Value, V!ValidateContainer, V!ValidateString, V!ValidateNumber,
       V!ValidateLiteral, V!ValidateNothing, V!Key, V!After, V!static, Static

-------------------------------------------------------------------------------
\* The formatters' part: while a call goes on there is no error, and when it has
\* ended there is one or the answer is TRUE; once something was validated the
\* validator's errors are all there are.
Answers(o, a, es, n) ==
  IF o = "idle" THEN n > 0 => \/ a = TRUE /\ es = <<>>
                              \/ a = FALSE /\ es # <<>> /\ Len(es) = 1
  ELSE es = <<>>

CoreInv ==
  /\ VInv /\ calls \in Nat
  /\ IF validations = 0 THEN ctl = "idle" /\ Answers(op, ok, errors, calls)
     ELSE op = "idle" /\ errors = it.errors

\* The validator waits while a document is formatted.
LEMMA StaysIdle == UNCHANGED checkVars /\ VInv => VInv'
<1> SUFFICES ASSUME UNCHANGED checkVars, VInv PROVE VInv'  OBVIOUS
<1>1. opts' = opts /\ it' = it /\ ctl' = ctl /\ stack' = stack /\ answer' = answer
      /\ validations' = validations
  BY DEF checkVars
<1>2. ItOk(it') /\ Quiet(it', stack', ctl', answer')  BY <1>1 DEF VInv
<1> QED  BY <1>1, <1>2 DEF VInv, Quiet, ItOk, Counted, Opens

\* A document that is taken leaves no errors of the call before.
LEMMA BeginOk ==
  ASSUME NEW which \in {"minify", "prettify"}, calls \in Nat, Begin(which)
  PROVE  calls' \in Nat /\ Answers(op', ok', errors', calls')
<1>1. calls' = calls + 1  BY DEF Begin
<1>2. \/ errors' = <<"no_input">> /\ op' = "idle" /\ ok' = FALSE
      \/ errors' = <<>> /\ op' = which
  BY DEF Begin
<1>3. CASE errors' = <<"no_input">> /\ op' = "idle" /\ ok' = FALSE
  <2>1. errors' # <<>> /\ Len(errors') = 1  BY <1>3
  <2> QED  BY <1>1, <1>3, <2>1 DEF Answers
<1>4. CASE errors' = <<>> /\ op' = which  BY <1>1, <1>4 DEF Answers
<1> QED  BY <1>2, <1>3, <1>4

\* A step of a call: it goes on, it answers TRUE, or it records an error.
LEMMA FormatStep ==
  ASSUME Answers(op, ok, errors, calls), calls \in Nat, Next
  PROVE  calls' \in Nat /\ Answers(op', ok', errors', calls')
<1>1. CASE StartMinify \/ StartPrettify
  <2>1. Begin("minify") \/ Begin("prettify")  BY <1>1 DEF StartMinify, StartPrettify
  <2> QED  BY <2>1, BeginOk
<1>2. CASE MinifyEntry \/ MinifyLast \/ PrettifyValue \/ PrettifyOpen \/ PrettifyEnd
  <2>1. op # "idle" /\ errors' = errors /\ calls' = calls
    BY <1>2 DEF MinifyEntry, MinifyLast, PrettifyValue, PrettifyOpen, PrettifyEnd, Goes
  <2>2. op' = op \/ (op' = "idle" /\ ok' = TRUE)
    BY <1>2 DEF MinifyEntry, MinifyLast, PrettifyValue, PrettifyOpen, PrettifyEnd, Goes, Finish
  <2> QED  BY <2>1, <2>2 DEF Answers
<1>3. CASE PrettifyClose
  <2>1. op # "idle" /\ errors = <<>> /\ calls' = calls  BY <1>3 DEF PrettifyClose, Answers
  <2>2. \/ errors' = Append(errors, "incorrect_structural_index") /\ op' = "idle" /\ ok' = FALSE
        \/ errors' = errors /\ op' = op
    BY <1>3 DEF PrettifyClose, Finish, Goes
  <2>3. Append(<<>>, "incorrect_structural_index") # <<>>
        /\ Len(Append(<<>>, "incorrect_structural_index")) = 1
    OBVIOUS
  <2> QED  BY <2>1, <2>2, <2>3 DEF Answers
<1> QED  BY <1>1, <1>2, <1>3 DEF Next, Minify, Prettify

\* No call was made yet.
LEMMA CoreStart == CoreInit => CoreInv
<1> SUFFICES ASSUME CoreInit PROVE CoreInv  OBVIOUS
<1>1. /\ opts = Options /\ it = V!Fresh /\ ctl = "idle" /\ stack = <<>> /\ answer = FALSE
      /\ validations = 0 /\ op = "idle" /\ calls = 0
  BY DEF CoreInit, V!Init, Init, Options
<1>2. ItOk(it)  BY <1>1 DEF V!Fresh, ItOk
<1>3. Quiet(it, stack, ctl, answer)  BY <1>1 DEF Quiet
<1>4. stack \in Seq(Brackets) /\ Len(stack) = 0 /\ Len(stack) <= MaxDepth  BY <1>1, DepthAssumption
<1>5. Answers(op, ok, errors, calls)  BY <1>1 DEF Answers
<1> QED  BY <1>1, <1>2, <1>3, <1>4, <1>5 DEF CoreInv, VInv

\* A call that begins to validate.
LEMMA BeginsToValidate ==
  ASSUME CoreInv, Idle, NEW d, Validate(d) PROVE CoreInv'
<1>1. VInv' /\ validations' = validations + 1 /\ validations \in Nat
  BY ValidateOk DEF Validate, CoreInv, VInv
<1>2. op' = "idle" /\ errors' = it'.errors /\ calls' = calls  BY DEF Validate, formatVars, Idle
<1>3. validations' # 0  BY <1>1
<1> QED  BY <1>1, <1>2, <1>3 DEF CoreInv

\* Every step of the calls of one core.
LEMMA CoreStep == CoreInv /\ [CoreNext]_coreVars => CoreInv'
<1> SUFFICES ASSUME CoreInv, [CoreNext]_coreVars PROVE CoreInv'  OBVIOUS
<1>1. CASE Format
  <2>1. validations = 0 /\ Next /\ UNCHANGED checkVars  BY <1>1 DEF Format
  <2>2. VInv'  BY <2>1, StaysIdle DEF CoreInv
  <2>3. calls' \in Nat /\ Answers(op', ok', errors', calls')  BY <2>1, FormatStep DEF CoreInv
  <2>4. validations' = 0 /\ ctl' = "idle"  BY <2>1 DEF CoreInv, checkVars
  <2> QED  BY <2>2, <2>3, <2>4 DEF CoreInv, Answers
<1>2. CASE ValidateReceived
  <2>1. PICK d : Idle /\ Validate(d)  BY <1>2 DEF ValidateReceived
  <2> QED  BY <2>1, BeginsToValidate
<1>3. CASE ValidateWritten
  <2>1. PICK d : d = Text(out)  OBVIOUS
  <2>2. Idle /\ Validate(d)  BY <1>3, <2>1 DEF ValidateWritten
  <2> QED  BY <2>2, BeginsToValidate
<1>4. CASE ValidateSource
  <2>1. PICK d : d = Text(text)  OBVIOUS
  <2>2. Idle /\ Validate(d)  BY <1>4, <2>1 DEF ValidateSource
  <2> QED  BY <2>2, BeginsToValidate
<1>5. CASE Check
  <2>1. V!Walk /\ errors' = it'.errors /\ UNCHANGED formatVars  BY <1>5 DEF Check
  <2>2. VInv'  BY <2>1, WalkOk DEF CoreInv
  <2>3. validations' = validations /\ ctl # "idle"  BY <2>1, WalkStatic DEF Static
  <2>4. validations # 0 /\ op = "idle"  BY <2>3 DEF CoreInv
  <2>5. op' = "idle" /\ calls' = calls  BY <2>1, <2>4 DEF formatVars
  <2> QED  BY <2>1, <2>2, <2>3, <2>4, <2>5 DEF CoreInv
<1>6. CASE UNCHANGED coreVars
  <2>1. UNCHANGED checkVars /\ UNCHANGED <<op, ok, errors, calls>>
    BY <1>6 DEF coreVars, vars
  <2>2. VInv'  BY <2>1, StaysIdle DEF CoreInv
  <2>3. validations' = validations /\ ctl' = ctl /\ it' = it  BY <2>1 DEF checkVars
  <2> QED  BY <2>1, <2>2, <2>3 DEF CoreInv, Answers
<1> QED  BY <1>1, <1>2, <1>3, <1>4, <1>5, <1>6 DEF CoreNext

\* The invariant of any calls of one core.
LEMMA CoreInvariant == CoreSpec => []CoreInv
BY CoreStart, CoreStep, PTL DEF CoreSpec

\* What a call answers and the error list that every call of a core shares speak of
\* the same call: minifyJson and prettifyJson answer FALSE exactly when it holds an
\* error, one, and what validateJson says TRUE of leaves none there, for any
\* documents, any nesting and any depth allowed (minifier.hpp:86, prettifier.hpp:50,
\* validator.hpp:72).
THEOREM AnswerMatchesErrorsAlways == CoreSpec => []AnswerMatchesErrors
<1>1. CoreInv => AnswerMatchesErrors
  <2> SUFFICES ASSUME CoreInv PROVE AnswerMatchesErrors  OBVIOUS
  <2>1. ASSUME Idle, calls > 0, validations = 0
        PROVE  (ok <=> errors = <<>>) /\ Len(errors) <= 1
    <3>1. \/ ok = TRUE /\ errors = <<>>
          \/ ok = FALSE /\ errors # <<>> /\ Len(errors) = 1
      BY <2>1 DEF CoreInv, Answers, Idle
    <3> QED  BY <3>1
  <2>2. ASSUME Idle, validations > 0, answer PROVE errors = <<>>
    <3>1. validations # 0  BY <2>2 DEF CoreInv, VInv
    <3> QED  BY <2>2, <3>1 DEF CoreInv, VInv, Quiet, Idle
  <2> QED  BY <2>1, <2>2 DEF AnswerMatchesErrors
<1> QED  BY <1>1, CoreInvariant, PTL

\* The validator's parsers in progress are never more than parse_options::maxDepth,
\* its two depth counters are those of objects and of arrays while a document is
\* walked, and both are zero when it answers TRUE, so that a counter that
\* drifted can refuse no document (json_iterator.hpp:1612, :1635, :1661).
THEOREM ValidatorNests ==
  CoreSpec => [](/\ Len(stack) <= MaxDepth
                 /\ ctl # "idle" => Counted(it, stack)
                 /\ ctl = "idle" /\ answer => it.obj = 0 /\ it.arr = 0)
<1>1. CoreInv => /\ Len(stack) <= MaxDepth
                 /\ ctl # "idle" => Counted(it, stack)
                 /\ ctl = "idle" /\ answer => it.obj = 0 /\ it.arr = 0
  BY DEF CoreInv, VInv, Quiet
<1> QED  BY <1>1, CoreInvariant, PTL

\* A set of natural numbers has a least one.
LEMMA LeastNat == ASSUME NEW T, T \subseteq Nat, T # {} PROVE \E x \in T : \A y \in T : x <= y
<1> DEFINE Under(n) == 0..(n - 1)
           Bs == {Under(n) : n \in T}
<1>1. Bs \subseteq FiniteSubsetsOf(Nat)
  <2>1. SUFFICES ASSUME NEW n \in T PROVE Under(n) \in SUBSET Nat /\ IsFiniteSet(Under(n))
    BY DEF FiniteSubsetsOf
  <2>2. n \in Nat  OBVIOUS
  <2> QED  BY <2>2, FS_Interval
<1>2. PICK b \in Bs : \A c \in Bs : ~ (<<c, b>> \in StrictSubsetOrdering(Nat))
  <2>1. Bs # {}  OBVIOUS
  <2> HIDE DEF Bs
  <2> QED  BY <1>1, <2>1, FS_StrictSubsetOrderingWellFounded, WFMin
<1>3. PICK x \in T : b = Under(x)  OBVIOUS
<1>4. ASSUME NEW y \in T, y < x PROVE FALSE
  <2>1. Under(y) \in Bs  OBVIOUS
  <2>2. x \in Nat /\ y \in Nat /\ y \in Under(x) /\ y \notin Under(y)  BY <1>4
  <2>3. Under(y) \subseteq Under(x) /\ Under(y) # Under(x) /\ Under(x) \subseteq Nat  BY <2>2
  <2>4. <<Under(y), b>> \in StrictSubsetOrdering(Nat)  BY <2>3, <1>3 DEF StrictSubsetOrdering
  <2> QED  BY <2>1, <2>4, <1>2
<1> QED  BY <1>4

\* What holds for a number if it holds for the smaller ones holds for all.
LEMMA Induction ==
  ASSUME NEW T, T \subseteq Nat,
         \A n \in Nat : (\A k \in Nat : k < n => k \in T) => n \in T
  PROVE  T = Nat
<1>1. SUFFICES ASSUME Nat \ T # {} PROVE FALSE  OBVIOUS
<1>2. PICK n \in Nat \ T : \A k \in Nat \ T : n <= k  BY <1>1, LeastNat
<1>3. ASSUME NEW k \in Nat, k < n PROVE k \in T  BY <1>2, <1>3
<1> QED  BY <1>2, <1>3

-------------------------------------------------------------------------------
(* The grammar.                                                            *)

\* The first lexeme that is no whitespace.
LEMMA TrimIs ==
  ASSUME NEW x, NEW n \in Nat, n = Len(x), NEW p \in 1..(n + 1)
  PROVE  LET q == Grammar!Trim(x, p)
         IN /\ q \in p..(n + 1) /\ Grammar!At(x, q) # "ws"
            /\ \A k \in p..(q - 1) : Grammar!At(x, k) = "ws"
<1> DEFINE T == {q \in p..(n + 1) : Grammar!At(x, q) # "ws"}
<1>1. n + 1 \in T
  <2>1. Grammar!At(x, n + 1) = "end"  BY DEF Grammar!At
  <2> QED  BY <2>1
<1>2. PICK q \in T : \A k \in T : q <= k
  <2>1. T \subseteq Nat /\ T # {}  BY <1>1
  <2> HIDE DEF T
  <2> QED  BY <2>1, LeastNat
<1>3. q \in p..(n + 1) /\ Grammar!At(x, q) # "ws" /\ \A k \in p..(q - 1) : Grammar!At(x, k) = "ws"
  <2>1. ASSUME NEW k \in p..(q - 1) PROVE Grammar!At(x, k) = "ws"
    <3>1. k \in p..(n + 1) /\ k < q  OBVIOUS
    <3> QED  BY <1>2, <3>1
  <2> QED  BY <2>1
<1> QED  BY <1>3 DEF Grammar!Trim

\* There is no other.
LEMMA TrimOnly ==
  ASSUME NEW x, NEW n \in Nat, n = Len(x), NEW p \in 1..(n + 1),
         NEW q \in p..(n + 1), Grammar!At(x, q) # "ws", \A k \in p..(q - 1) : Grammar!At(x, k) = "ws"
  PROVE  Grammar!Trim(x, p) = q
<1>1. PICK r : r = Grammar!Trim(x, p)  OBVIOUS
<1>2. /\ r \in p..(n + 1) /\ Grammar!At(x, r) # "ws"
      /\ \A k \in p..(r - 1) : Grammar!At(x, k) = "ws"
  BY <1>1, TrimIs
<1>3. ~(r < q)
  <2>1. r < q => r \in p..(q - 1)  BY <1>2
  <2> QED  BY <1>2, <2>1
<1>4. ~(q < r)
  <2>1. q < r => q \in p..(r - 1)  BY <1>2
  <2> QED  BY <1>2, <2>1
<1> QED  BY <1>1, <1>2, <1>3, <1>4

\* The lexemes by name.
Comma == ","
Colon == ":"
Openers == {"{", "["}
Closers == {"}", "]"}
Scalars == Keys \cup {"num", "true", "null"}

\* None of them is the end, and none another.
LEMMA Marked ==
  /\ Comma # "end" /\ Colon # "end" /\ Comma # Colon /\ Comma \notin Closers
  /\ \A c \in Closers \cup Openers : c # "end" /\ c # "value" /\ c # "ws" /\ c # Comma /\ c # Colon
  /\ \A c \in Closers : c \notin Openers
  /\ \A b : Grammar!Closing(b) \in Closers
BY DEF Comma, Colon, Closers, Openers, Grammar!Closing

\* No scalar is any of them.
LEMMA ScalarsAre ==
  /\ "end" \notin Scalars /\ "ws" \notin Scalars /\ Comma \notin Scalars /\ Colon \notin Scalars
  /\ \A c \in Closers \cup Openers : c \notin Scalars
BY LexemesAssumption DEF Scalars, Comma, Colon, Closers, Openers, V!Marks

\* What is ended: a value, or the items of a container.
Ended == {"value"} \cup Closers
Cells(n) == (1..(n + 1)) \X Ended

\* The body of the recursion.
Body(f, x, c) ==
  CASE c[2] # "value"                                             -> Grammar!ItemsEnd(f, x, c[1], c[2])
    [] c[2] = "value" /\ Grammar!At(x, c[1]) \in Openers       -> Grammar!ContentEnd(f, x, c[1])
    [] c[2] = "value" /\ Grammar!At(x, c[1]) \in Scalars -> c[1] + 1
    [] OTHER                                                      -> 0

\* What it says of items, and of a value.
LEMMA BodyItems ==
  ASSUME NEW f, NEW x, NEW p, NEW close \in Closers
  PROVE  Body(f, x, <<p, close>>) = Grammar!ItemsEnd(f, x, p, close)
<1>1. PICK c : c = <<p, close>>  OBVIOUS
<1>2. c[1] = p /\ c[2] = close  BY <1>1
<1>3. c[2] # "value"  BY <1>2, Marked
<1>4. Body(f, x, c) = Grammar!ItemsEnd(f, x, c[1], c[2])  BY <1>3 DEF Body
<1> QED  BY <1>1, <1>2, <1>4

\* What it says of a value, by the lexeme the value starts with.
LEMMA BodyValue ==
  ASSUME NEW f, NEW x, NEW p
  PROVE  /\ Grammar!At(x, p) \in Openers => Body(f, x, <<p, "value">>) = Grammar!ContentEnd(f, x, p)
         /\ Grammar!At(x, p) \notin Openers /\ Grammar!At(x, p) \in Scalars
              => Body(f, x, <<p, "value">>) = p + 1
         /\ Grammar!At(x, p) \notin Openers /\ Grammar!At(x, p) \notin Scalars
              => Body(f, x, <<p, "value">>) = 0
<1>1. PICK c : c = <<p, "value">>  OBVIOUS
<1>2. c[1] = p /\ c[2] = "value"  BY <1>1
<1>3. ASSUME Grammar!At(x, c[1]) \in Openers PROVE Body(f, x, c) = Grammar!ContentEnd(f, x, c[1])
  <2>1. Grammar!At(x, c[1]) \notin Scalars  BY <1>3, ScalarsAre
  <2> QED  BY <1>2, <1>3, <2>1 DEF Body
<1>4. ASSUME Grammar!At(x, c[1]) \notin Openers, Grammar!At(x, c[1]) \in Scalars PROVE Body(f, x, c) = c[1] + 1
  BY <1>2, <1>4 DEF Body
<1>5. ASSUME Grammar!At(x, c[1]) \notin Openers, Grammar!At(x, c[1]) \notin Scalars PROVE Body(f, x, c) = 0
  BY <1>2, <1>5 DEF Body
<1> QED  BY <1>1, <1>2, <1>3, <1>4, <1>5

\* An end lies behind the beginning.
Sane(e, p, n) == e = 0 \/ e \in (p + 1)..(n + 1)

\* Two functions that say the same of what lies behind p, and nothing impossible.
AlikeFrom(f, g, n, p) == \A d \in Cells(n) : d[1] > p => f[d] = g[d] /\ Sane(f[d], d[1], n)

\* Only the end is no lexeme.
LEMMA AtIn ==
  ASSUME NEW x, NEW n \in Nat, n = Len(x), NEW p \in Int, Grammar!At(x, p) # "end"
  PROVE  p \in 1..n /\ Grammar!At(x, p) = x[p]
BY DEF Grammar!At

\* A place and what ends there make an argument of the recursion.
LEMMA CellIs ==
  ASSUME NEW n \in Nat, NEW p \in 1..(n + 1), NEW w \in Ended
  PROVE  <<p, w>> \in Cells(n) /\ <<p, w>>[1] = p /\ <<p, w>>[2] = w
BY DEF Cells

\* What follows an item ends where the later entries of the recursion say, and behind it.
LEMMA FollowSame ==
  ASSUME NEW x, NEW n \in Nat, n = Len(x), NEW e \in 1..(n + 1), NEW close \in Closers,
         NEW f, NEW g, AlikeFrom(f, g, n, e)
  PROVE  /\ Grammar!FollowEnd(f, x, e, close) = Grammar!FollowEnd(g, x, e, close)
         /\ Sane(Grammar!FollowEnd(f, x, e, close), e, n)
<1>1. PICK q \in e..(n + 1) : q = Grammar!Trim(x, e)  BY TrimIs
<1>2. CASE Grammar!At(x, q) = Comma
  <2>1. q \in 1..n  BY <1>2, AtIn, Marked
  <2>2. PICK r \in (q + 1)..(n + 1) : r = Grammar!Trim(x, q + 1)
    <3>1. q + 1 \in 1..(n + 1)  BY <2>1
    <3> QED  BY <3>1, TrimIs
  <2>3. r \in 1..(n + 1) /\ close \in Ended  BY <2>1 DEF Ended
  <2>4. <<r, close>> \in Cells(n) /\ <<r, close>>[1] = r  BY <2>3, CellIs
  <2>5. f[<<r, close>>] = g[<<r, close>>] /\ Sane(f[<<r, close>>], r, n)  BY <2>4 DEF AlikeFrom
  <2>6. /\ Grammar!FollowEnd(f, x, e, close) = f[<<r, close>>]
        /\ Grammar!FollowEnd(g, x, e, close) = g[<<r, close>>]
    BY <1>1, <1>2, <2>2 DEF Grammar!FollowEnd, Comma, Closers
  <2> QED  BY <2>5, <2>6 DEF Sane
<1>3. CASE Grammar!At(x, q) = close
  <2>1. q \in 1..n  BY <1>3, AtIn, Marked
  <2>2. /\ Grammar!FollowEnd(f, x, e, close) = q + 1
        /\ Grammar!FollowEnd(g, x, e, close) = q + 1
    BY <1>1, <1>3 DEF Grammar!FollowEnd, Comma, Closers
  <2> QED  BY <2>1, <2>2 DEF Sane
<1>4. CASE Grammar!At(x, q) # Comma /\ Grammar!At(x, q) # close
  BY <1>1, <1>4 DEF Grammar!FollowEnd, Sane, Comma, Closers
<1> QED  BY <1>2, <1>3, <1>4

\* The value of an item is not before the item.
LEMMA ItemAtIs ==
  ASSUME NEW x, NEW n \in Nat, n = Len(x), NEW p \in 1..(n + 1), NEW close \in Closers,
         NEW v, v = Grammar!ItemAt(x, p, close)
  PROVE  v = 0 \/ v \in p..(n + 1)
<1>1. CASE close = "]"  BY <1>1 DEF Grammar!ItemAt
<1>2. CASE close = "}"
  <2>1. CASE Grammar!At(x, p) \in Keys /\ Grammar!At(x, Grammar!Trim(x, p + 1)) = Colon
    <3>1. p \in 1..n
      <4>1. Grammar!At(x, p) \in Scalars  BY <2>1 DEF Scalars
      <4> QED  BY <4>1, AtIn, ScalarsAre
    <3>2. PICK q \in (p + 1)..(n + 1) : q = Grammar!Trim(x, p + 1)
      <4>1. p + 1 \in 1..(n + 1)  BY <3>1
      <4> QED  BY <4>1, TrimIs
    <3>3. q \in 1..n  BY <2>1, <3>2, AtIn, Marked
    <3>4. PICK r \in (q + 1)..(n + 1) : r = Grammar!Trim(x, q + 1)
      <4>1. q + 1 \in 1..(n + 1)  BY <3>3
      <4> QED  BY <4>1, TrimIs
    <3>5. v = r  BY <1>2, <2>1, <3>2, <3>4 DEF Grammar!ItemAt, Colon
    <3> QED  BY <3>2, <3>4, <3>5
  <2>2. CASE ~(Grammar!At(x, p) \in Keys /\ Grammar!At(x, Grammar!Trim(x, p + 1)) = Colon)
    BY <1>2, <2>2 DEF Grammar!ItemAt, Colon
  <2> QED  BY <2>1, <2>2
<1> QED  BY <1>1, <1>2 DEF Closers

\* What a value's end is depends on what lies behind its beginning.
LEMMA ValueSame ==
  ASSUME NEW x, NEW n \in Nat, n = Len(x), NEW p \in 1..(n + 1),
         NEW f, NEW g, AlikeFrom(f, g, n, p)
  PROVE  Body(f, x, <<p, "value">>) = Body(g, x, <<p, "value">>) /\ Sane(Body(f, x, <<p, "value">>), p, n)
<1>1. CASE Grammar!At(x, p) \in Openers
  <2>1. p \in 1..n
    <3>1. Grammar!At(x, p) # "end"  BY <1>1, Marked
    <3> QED  BY <3>1, AtIn
  <2>2. PICK q \in (p + 1)..(n + 1) : q = Grammar!Trim(x, p + 1)
    <3>1. p + 1 \in 1..(n + 1)  BY <2>1
    <3> QED  BY <3>1, TrimIs
  <2>3. PICK close \in Closers : close = Grammar!Closing(Grammar!At(x, p))  BY Marked
  <2>4. /\ Body(f, x, <<p, "value">>) = Grammar!ContentEnd(f, x, p)
        /\ Body(g, x, <<p, "value">>) = Grammar!ContentEnd(g, x, p)
    BY <1>1, BodyValue
  <2>5. CASE Grammar!At(x, q) = close
    <3>1. q \in 1..n  BY <2>3, <2>5, AtIn, Marked
    <3>2. Grammar!ContentEnd(f, x, p) = q + 1 /\ Grammar!ContentEnd(g, x, p) = q + 1
      BY <2>2, <2>3, <2>5 DEF Grammar!ContentEnd
    <3> QED  BY <2>4, <3>1, <3>2, <2>2 DEF Sane
  <2>6. CASE Grammar!At(x, q) # close
    <3>1. q \in 1..(n + 1) /\ close \in Ended  BY <2>1 DEF Ended
    <3>2. <<q, close>> \in Cells(n) /\ <<q, close>>[1] = q  BY <3>1, CellIs
    <3>3. f[<<q, close>>] = g[<<q, close>>] /\ Sane(f[<<q, close>>], q, n)  BY <2>2, <3>2 DEF AlikeFrom
    <3>4. /\ Grammar!ContentEnd(f, x, p) = f[<<q, close>>]
          /\ Grammar!ContentEnd(g, x, p) = g[<<q, close>>]
      BY <2>2, <2>3, <2>6 DEF Grammar!ContentEnd
    <3> QED  BY <2>2, <2>4, <3>3, <3>4 DEF Sane
  <2> QED  BY <2>5, <2>6
<1>2. CASE Grammar!At(x, p) \notin Openers /\ Grammar!At(x, p) \in Scalars
  <2>1. p \in 1..n
    <3>1. Grammar!At(x, p) # "end"  BY <1>2, ScalarsAre
    <3> QED  BY <3>1, AtIn
  <2>2. Body(f, x, <<p, "value">>) = p + 1 /\ Body(g, x, <<p, "value">>) = p + 1  BY <1>2, BodyValue
  <2> QED  BY <2>1, <2>2 DEF Sane
<1>3. CASE Grammar!At(x, p) \notin Openers /\ Grammar!At(x, p) \notin Scalars
  <2>1. Body(f, x, <<p, "value">>) = 0 /\ Body(g, x, <<p, "value">>) = 0  BY <1>3, BodyValue
  <2> QED  BY <2>1 DEF Sane
<1> QED  BY <1>1, <1>2, <1>3

\* What the items' end is depends on the value there, too.
LEMMA ItemsSame ==
  ASSUME NEW x, NEW n \in Nat, n = Len(x), NEW p \in 1..(n + 1), NEW close \in Closers,
         NEW f, NEW g, AlikeFrom(f, g, n, p),
         f[<<p, "value">>] = g[<<p, "value">>], Sane(f[<<p, "value">>], p, n)
  PROVE  Body(f, x, <<p, close>>) = Body(g, x, <<p, close>>) /\ Sane(Body(f, x, <<p, close>>), p, n)
<1>1. PICK v : v = Grammar!ItemAt(x, p, close)  OBVIOUS
<1>2. /\ Body(f, x, <<p, close>>) = Grammar!ItemsEnd(f, x, p, close)
      /\ Body(g, x, <<p, close>>) = Grammar!ItemsEnd(g, x, p, close)
  BY BodyItems
<1>3. CASE v = 0
  <2>1. Grammar!ItemsEnd(f, x, p, close) = 0 /\ Grammar!ItemsEnd(g, x, p, close) = 0
    BY <1>1, <1>3 DEF Grammar!ItemsEnd
  <2> QED  BY <1>2, <2>1 DEF Sane
<1>4. CASE v # 0
  <2>1. v \in p..(n + 1)  BY <1>1, <1>4, ItemAtIs
  <2>2. <<v, "value">> \in Cells(n) /\ <<v, "value">>[1] = v
    <3>1. v \in 1..(n + 1) /\ "value" \in Ended  BY <2>1 DEF Ended
    <3> QED  BY <3>1, CellIs
  <2>3. PICK e : e = f[<<v, "value">>]  OBVIOUS
  <2>4. e = g[<<v, "value">>] /\ Sane(e, v, n)
    <3>1. CASE v = p  BY <2>3, <3>1
    <3>2. CASE v > p  BY <2>2, <2>3, <3>2 DEF AlikeFrom
    <3> QED  BY <2>1, <3>1, <3>2
  <2>5. CASE e = 0
    <3>1. Grammar!ItemsEnd(f, x, p, close) = 0 /\ Grammar!ItemsEnd(g, x, p, close) = 0
      BY <1>1, <1>4, <2>3, <2>4, <2>5 DEF Grammar!ItemsEnd
    <3> QED  BY <1>2, <3>1 DEF Sane
  <2>6. CASE e # 0
    <3>1. e \in (v + 1)..(n + 1)  BY <2>4, <2>6 DEF Sane
    <3>2. e \in 1..(n + 1) /\ e > p  BY <2>1, <3>1
    <3>3. AlikeFrom(f, g, n, e)
      <4>1. ASSUME NEW d \in Cells(n), d[1] > e PROVE f[d] = g[d] /\ Sane(f[d], d[1], n)
        <5>1. d[1] \in Int  BY DEF Cells
        <5>2. d[1] > p  BY <3>2, <4>1, <5>1
        <5> QED  BY <5>2 DEF AlikeFrom
      <4> QED  BY <4>1 DEF AlikeFrom
    <3>4. PICK r : r = Grammar!FollowEnd(f, x, e, close)  OBVIOUS
    <3>5. r = Grammar!FollowEnd(g, x, e, close) /\ Sane(r, e, n)  BY <3>2, <3>3, <3>4, FollowSame
    <3>6. Grammar!ItemsEnd(f, x, p, close) = r /\ Grammar!ItemsEnd(g, x, p, close) = r
      BY <1>1, <1>4, <2>3, <2>4, <2>6, <3>4, <3>5 DEF Grammar!ItemsEnd
    <3> QED  BY <1>2, <3>2, <3>5, <3>6 DEF Sane
  <2> QED  BY <2>5, <2>6
<1> QED  BY <1>3, <1>4

\* The equations hold of what lies behind k.
Solves(f, x, n, k) == \A d \in Cells(n) : d[1] > k => f[d] = Body(f, x, d) /\ Sane(f[d], d[1], n)

\* What a cell is.
LEMMA CellOf ==
  ASSUME NEW n \in Nat, NEW d \in Cells(n)
  PROVE  \E q \in 1..(n + 1), w \in Ended : d = <<q, w>> /\ d[1] = q /\ d[2] = w
BY DEF Cells

\* They agree on the value at q.
AlikeAt(f, g, n, q) == f[<<q, "value">>] = g[<<q, "value">>] /\ Sane(f[<<q, "value">>], q, n)

\* Two functions that agree behind where a cell is and, for items, in the value
\* there say the same of it.
LEMMA BodySame ==
  ASSUME NEW x, NEW n \in Nat, n = Len(x), NEW f, NEW g, NEW q \in 1..(n + 1), NEW w \in Ended,
         AlikeFrom(f, g, n, q),
         w = "value" \/ AlikeAt(f, g, n, q)
  PROVE  Body(f, x, <<q, w>>) = Body(g, x, <<q, w>>) /\ Sane(Body(f, x, <<q, w>>), q, n)
<1>1. CASE w = "value"  BY <1>1, ValueSame
<1>2. CASE w \in Closers
  <2>1. w # "value"  BY <1>2, Marked
  <2> QED  BY <1>2, <2>1, ItemsSame DEF AlikeAt
<1> QED  BY <1>1, <1>2 DEF Ended

\* Agreement behind a place is agreement behind a later one.
LEMMA AlikeBehind ==
  ASSUME NEW n \in Nat, NEW f, NEW g, NEW p \in Nat, NEW q \in Nat, p <= q, AlikeFrom(f, g, n, p)
  PROVE  AlikeFrom(f, g, n, q)
<1>1. ASSUME NEW d \in Cells(n), d[1] > q PROVE f[d] = g[d] /\ Sane(f[d], d[1], n)
  <2>1. d[1] \in Int  BY DEF Cells
  <2>2. d[1] > p  BY <1>1, <2>1
  <2> QED  BY <2>2 DEF AlikeFrom
<1> QED  BY <1>1 DEF AlikeFrom

\* A solution behind p is one behind p - 1.
LEMMA SolveOne ==
  ASSUME NEW x, NEW n \in Nat, n = Len(x), NEW p \in 1..(n + 1), NEW f, Solves(f, x, n, p)
  PROVE  \E g : g = [d \in Cells(n) |-> g[d]] /\ Solves(g, x, n, p - 1)
<1>1. PICK v : v = <<p, "value">>  OBVIOUS
<1>2. v \in Cells(n) /\ v[1] = p /\ v[2] = "value"  BY <1>1 DEF Cells, Ended
<1>3. PICK g : g = [d \in Cells(n) |-> IF d = v THEN Body(f, x, d) ELSE f[d]]  OBVIOUS
<1>4. PICK h : h = [d \in Cells(n) |-> IF d[1] = p /\ d # v THEN Body(g, x, d) ELSE g[d]]  OBVIOUS
<1>5. ASSUME NEW d \in Cells(n), d[1] > p PROVE g[d] = f[d] /\ h[d] = f[d] /\ Sane(f[d], d[1], n)
  <2>1. d[1] \in Int /\ p \in Int  BY DEF Cells
  <2>2. d[1] # p  BY <1>5, <2>1
  <2>3. d # v  BY <1>2, <2>2
  <2>4. g[d] = f[d]  BY <1>3, <2>3
  <2>5. h[d] = g[d]  BY <1>4, <2>2
  <2>6. Sane(f[d], d[1], n)  BY <1>5 DEF Solves
  <2> QED  BY <2>4, <2>5, <2>6
<1>6. AlikeFrom(f, h, n, p) /\ AlikeFrom(g, h, n, p)
  <2>1. ASSUME NEW d \in Cells(n), d[1] > p PROVE f[d] = h[d] /\ Sane(f[d], d[1], n)  BY <1>5, <2>1
  <2>2. ASSUME NEW d \in Cells(n), d[1] > p PROVE g[d] = h[d] /\ Sane(g[d], d[1], n)
    <3>1. g[d] = f[d] /\ h[d] = f[d] /\ Sane(f[d], d[1], n)  BY <1>5, <2>2
    <3> QED  BY <3>1
  <2> QED  BY <2>1, <2>2 DEF AlikeFrom
<1>7. h[v] = Body(h, x, v) /\ Sane(h[v], p, n) /\ g[v] = h[v]
  <2>1. h[v] = g[v] /\ g[v] = Body(f, x, v)  BY <1>2, <1>3, <1>4
  <2>2. Body(f, x, v) = Body(h, x, v) /\ Sane(Body(f, x, v), p, n)  BY <1>1, <1>6, ValueSame
  <2> QED  BY <2>1, <2>2
<1>8. ASSUME NEW d \in Cells(n), d[1] > p - 1 PROVE h[d] = Body(h, x, d) /\ Sane(h[d], d[1], n)
  <2>1. PICK q \in 1..(n + 1), w \in Ended : d = <<q, w>> /\ d[1] = q /\ d[2] = w  BY CellOf
  <2>2. q = p \/ q > p  BY <1>8, <2>1
  <2>3. CASE q > p
    <3>1. h[d] = f[d] /\ f[d] = Body(f, x, d)  BY <1>5, <2>1, <2>3 DEF Solves
    <3>2. AlikeFrom(f, h, n, q)  BY <1>6, <2>3, AlikeBehind
    <3>3. PICK u : u = <<q, "value">>  OBVIOUS
    <3>4. u \in Cells(n) /\ u[1] = q  BY <3>3 DEF Cells, Ended
    <3>5. h[u] = f[u] /\ Sane(f[u], q, n)  BY <1>5, <2>3, <3>4
    <3>6. AlikeAt(f, h, n, q)  BY <3>3, <3>5 DEF AlikeAt
    <3>7. Body(f, x, <<q, w>>) = Body(h, x, <<q, w>>) /\ Sane(Body(f, x, <<q, w>>), q, n)
      BY <3>2, <3>6, BodySame
    <3>8. Body(f, x, d) = Body(h, x, d) /\ Sane(Body(f, x, d), q, n)  BY <2>1, <3>7
    <3> QED  BY <2>1, <3>1, <3>8
  <2>4. CASE q = p /\ w = "value"  BY <1>1, <1>7, <2>1, <2>4
  <2>5. CASE q = p /\ w # "value"
    <3>1. d # v  BY <1>2, <2>1, <2>5
    <3>2. h[d] = Body(g, x, d)  BY <1>4, <2>1, <2>5, <3>1
    <3>3. Sane(g[v], p, n)  BY <1>7
    <3>4. AlikeAt(g, h, n, p)  BY <1>1, <1>7, <3>3 DEF AlikeAt
    <3>5. Body(g, x, <<p, w>>) = Body(h, x, <<p, w>>) /\ Sane(Body(g, x, <<p, w>>), p, n)
      BY <1>6, <2>5, <3>4, BodySame
    <3>6. Body(g, x, d) = Body(h, x, d) /\ Sane(Body(g, x, d), q, n)  BY <2>1, <2>5, <3>5
    <3> QED  BY <2>1, <3>2, <3>6
  <2> QED  BY <2>2, <2>3, <2>4, <2>5
<1>9. h = [d \in Cells(n) |-> h[d]]  BY <1>4
<1>10. Solves(h, x, n, p - 1)  BY <1>8 DEF Solves
<1> QED  BY <1>9, <1>10

\* The equations have a solution.
LEMMA Solution ==
  ASSUME NEW x, NEW n \in Nat, n = Len(x)
  PROVE  \E f : f = [d \in Cells(n) |-> f[d]] /\ Solves(f, x, n, 0)
<1> DEFINE S(k) == \E f : f = [d \in Cells(n) |-> f[d]] /\ Solves(f, x, n, k)
           T == {j \in Nat : j <= n + 1 => S(n + 1 - j)}
<1>1. ASSUME NEW j \in Nat, \A i \in Nat : i < j => i \in T PROVE j \in T
  <2>1. CASE j = 0
    <3>1. PICK f : f = [d \in Cells(n) |-> 0]  OBVIOUS
    <3>2. f = [d \in Cells(n) |-> f[d]]  BY <3>1
    <3>3. ASSUME NEW d \in Cells(n) PROVE ~(d[1] > n + 1)  BY DEF Cells
    <3>4. Solves(f, x, n, n + 1)  BY <3>3 DEF Solves
    <3>5. S(n + 1)  BY <3>2, <3>4
    <3>6. n + 1 - j = n + 1  BY <2>1
    <3> QED  BY <3>5, <3>6
  <2>2. CASE j > 0 /\ j <= n + 1
    <3>1. PICK i \in Nat : i + 1 = j  BY <2>2
    <3>2. i < j /\ i <= n + 1  BY <2>2, <3>1
    <3>3. S(n + 1 - i)
      <4>1. i \in T
        <5> HIDE DEF T
        <5> QED  BY <1>1, <3>2
      <4> HIDE DEF S
      <4> QED  BY <3>2, <4>1
    <3>4. PICK p \in 1..(n + 1) : p = n + 1 - i  BY <2>2, <3>1
    <3>5. PICK f : Solves(f, x, n, p)  BY <3>3, <3>4
    <3>6. PICK g : g = [d \in Cells(n) |-> g[d]] /\ Solves(g, x, n, p - 1)  BY <3>5, SolveOne
    <3>7. p - 1 = n + 1 - j  BY <3>1, <3>4
    <3>8. S(n + 1 - j)  BY <3>6, <3>7
    <3> QED  BY <3>8
  <2>3. CASE j > n + 1  BY <2>3
  <2> QED  BY <2>1, <2>2, <2>3
<1>2. T = Nat
  <2>1. T \subseteq Nat /\ \A j \in Nat : (\A i \in Nat : i < j => i \in T) => j \in T  BY <1>1
  <2> HIDE DEF T
  <2> QED  BY <2>1, Induction
<1>3. n + 1 \in T
  <2> HIDE DEF T
  <2> QED  BY <1>2
<1>4. S(n + 1 - (n + 1))
  <2> HIDE DEF S
  <2> QED  BY <1>3
<1>5. n + 1 - (n + 1) = 0  OBVIOUS
<1> QED  BY <1>4, <1>5

\* The ends solve them.
LEMMA EndsAre ==
  ASSUME NEW x, NEW n \in Nat, n = Len(x), NEW f, f = Grammar!Ends(x)
  PROVE  f = [d \in Cells(n) |-> Body(f, x, d)]
<1>1. PICK g : g = [d \in Cells(n) |-> g[d]] /\ Solves(g, x, n, 0)  BY Solution
<1>2. g = [d \in Cells(n) |-> Body(g, x, d)]
  <2>1. ASSUME NEW d \in Cells(n) PROVE g[d] = Body(g, x, d)
    <3>1. d[1] > 0  BY DEF Cells
    <3> QED  BY <1>1, <3>1 DEF Solves
  <2>2. [d \in Cells(n) |-> g[d]] = [d \in Cells(n) |-> Body(g, x, d)]  BY <2>1
  <2> QED  BY <1>1, <2>2
<1>3. f = CHOOSE h : h = [d \in Cells(n) |-> Body(h, x, d)]
  <2>1. Cells(n) = (1..(Len(x) + 1)) \X {"value", "}", "]"}
    BY DEF Cells, Ended, Closers
  <2> QED  BY <2>1 DEF Grammar!Ends, Body, Openers, Scalars
<1> QED  BY <1>2, <1>3

\* Where the value at p ends, and where the items from p on; 0 if they do not.
ValueE(x, p)    == Grammar!ValueEnd(x, p)
ItemsE(x, p, c) == Grammar!Ends(x)[<<p, c>>]

\* Where a container ends whose item ends at e.
FollowE(x, e, c) == Grammar!FollowEnd(Grammar!Ends(x), x, e, c)

\* An end lies behind the beginning.
LEMMA EndsSane ==
  ASSUME NEW x, NEW n \in Nat, n = Len(x), NEW f, f = Grammar!Ends(x)
  PROVE  \A d \in Cells(n) : Sane(f[d], d[1], n)
<1> DEFINE T == {j \in Nat : j <= n + 1 => AlikeFrom(f, f, n, n + 1 - j)}
<1>1. f = [d \in Cells(n) |-> Body(f, x, d)]  BY EndsAre
<1>2. ASSUME NEW p \in 1..(n + 1), AlikeFrom(f, f, n, p) PROVE AlikeFrom(f, f, n, p - 1)
  <2>1. ASSUME NEW d \in Cells(n), d[1] > p - 1 PROVE Sane(f[d], d[1], n)
    <3>1. PICK q \in 1..(n + 1), w \in Ended : d = <<q, w>> /\ d[1] = q /\ d[2] = w  BY CellOf
    <3>2. CASE q > p  BY <1>2, <3>1, <3>2 DEF AlikeFrom
    <3>3. CASE q = p
      <4>1. PICK v : v = <<p, "value">>  OBVIOUS
      <4>2. v \in Cells(n)  BY <4>1 DEF Cells, Ended
      <4>3. Sane(f[v], p, n)
        <5>1. f[v] = Body(f, x, v)  BY <1>1, <4>2
        <5>2. Sane(Body(f, x, v), p, n)  BY <1>2, <4>1, ValueSame
        <5> QED  BY <5>1, <5>2
      <4>4. AlikeAt(f, f, n, p)  BY <4>1, <4>3 DEF AlikeAt
      <4>5. Sane(Body(f, x, <<p, w>>), p, n)  BY <1>2, <4>4, BodySame
      <4>6. f[d] = Body(f, x, d)  BY <1>1
      <4> QED  BY <3>1, <3>3, <4>5, <4>6
    <3>4. q = p \/ q > p  BY <2>1, <3>1
    <3> QED  BY <3>2, <3>3, <3>4
  <2> QED  BY <2>1 DEF AlikeFrom
<1>3. ASSUME NEW j \in Nat, \A i \in Nat : i < j => i \in T PROVE j \in T
  <2>1. CASE j = 0
    <3>1. ASSUME NEW d \in Cells(n) PROVE ~(d[1] > n + 1)  BY DEF Cells
    <3>2. AlikeFrom(f, f, n, n + 1)  BY <3>1 DEF AlikeFrom
    <3>3. n + 1 - j = n + 1  BY <2>1
    <3> QED  BY <3>2, <3>3
  <2>2. CASE j > 0 /\ j <= n + 1
    <3>1. PICK i \in Nat : i + 1 = j  BY <2>2
    <3>2. i < j /\ i <= n + 1  BY <2>2, <3>1
    <3>3. i \in T
      <4> HIDE DEF T
      <4> QED  BY <1>3, <3>2
    <3>4. PICK p \in 1..(n + 1) : p = n + 1 - i /\ p - 1 = n + 1 - j
      <4>1. n + 1 - i \in 1..(n + 1) /\ (n + 1 - i) - 1 = n + 1 - j  BY <2>2, <3>1
      <4> QED  BY <4>1
    <3>5. AlikeFrom(f, f, n, p)  BY <3>2, <3>3, <3>4
    <3>6. AlikeFrom(f, f, n, p - 1)  BY <1>2, <3>5
    <3>7. AlikeFrom(f, f, n, n + 1 - j)  BY <3>4, <3>6
    <3> QED  BY <3>7
  <2>3. CASE j > n + 1  BY <2>3
  <2> QED  BY <2>1, <2>2, <2>3
<1>4. T = Nat
  <2>1. T \subseteq Nat /\ \A j \in Nat : (\A i \in Nat : i < j => i \in T) => j \in T  BY <1>3
  <2> HIDE DEF T
  <2> QED  BY <2>1, Induction
<1>5. n + 1 \in T
  <2> HIDE DEF T
  <2> QED  BY <1>4
<1>6. PICK z : z = n + 1 - (n + 1)  OBVIOUS
<1>7. z = 0 /\ AlikeFrom(f, f, n, z)  BY <1>5, <1>6
<1>8. ASSUME NEW d \in Cells(n) PROVE Sane(f[d], d[1], n)
  <2>1. d[1] > z  BY <1>7 DEF Cells
  <2> QED  BY <1>7, <2>1 DEF AlikeFrom
<1> QED  BY <1>8

\* What the ends are.
LEMMA EndIs ==
  ASSUME NEW x, NEW n \in Nat, n = Len(x), NEW p \in 1..(n + 1), NEW w \in Ended, NEW f, f = Grammar!Ends(x)
  PROVE  f[<<p, w>>] = Body(f, x, <<p, w>>) /\ Sane(f[<<p, w>>], p, n)
<1>1. PICK d : d = <<p, w>>  OBVIOUS
<1>2. d \in Cells(n) /\ d[1] = p  BY <1>1, CellIs
<1>3. f = [c \in Cells(n) |-> Body(f, x, c)]  BY EndsAre
<1>4. f[d] = Body(f, x, d)  BY <1>2, <1>3
<1>5. Sane(f[d], d[1], n)  BY <1>2, EndsSane
<1> QED  BY <1>1, <1>2, <1>4, <1>5

\* A value's end.
LEMMA ValueIs ==
  ASSUME NEW x, NEW n \in Nat, n = Len(x), NEW p \in 1..(n + 1), NEW q, q = Grammar!Trim(x, p + 1),
         NEW a, a = Grammar!At(x, p), NEW c, c = Grammar!Closing(a)
  PROVE  /\ Sane(ValueE(x, p), p, n)
         /\ a \in Openers /\ Grammar!At(x, q) = c => ValueE(x, p) = q + 1
         /\ a \in Openers /\ Grammar!At(x, q) # c => ValueE(x, p) = ItemsE(x, q, c)
         /\ a \in Scalars => ValueE(x, p) = p + 1
         /\ a \notin Openers \cup Scalars => ValueE(x, p) = 0
<1>1. PICK f : f = Grammar!Ends(x)  OBVIOUS
<1>2. PICK e : e = ValueE(x, p)  OBVIOUS
<1>3. "value" \in Ended  BY DEF Ended
<1>4. e = f[<<p, "value">>]  BY <1>1, <1>2 DEF ValueE, Grammar!ValueEnd
<1>5. e = Body(f, x, <<p, "value">>) /\ Sane(e, p, n)  BY <1>1, <1>3, <1>4, EndIs
<1>6. a \in Openers => e = Grammar!ContentEnd(f, x, p)  BY <1>5, BodyValue
<1>7. Grammar!ContentEnd(f, x, p) = IF Grammar!At(x, q) = c THEN q + 1 ELSE f[<<q, c>>]
  BY DEF Grammar!ContentEnd
<1>8. f[<<q, c>>] = ItemsE(x, q, c)  BY <1>1 DEF ItemsE
<1>9. a \in Scalars => e = p + 1
  <2>1. a \in Scalars => a \notin Openers  BY ScalarsAre
  <2> QED  BY <1>5, <2>1, BodyValue
<1>10. a \notin Openers \cup Scalars => e = 0  BY <1>5, BodyValue
<1> QED  BY <1>2, <1>5, <1>6, <1>7, <1>8, <1>9, <1>10

\* What follows an item.
LEMMA FollowIs ==
  ASSUME NEW x, NEW e, NEW c \in Closers, NEW q, q = Grammar!Trim(x, e), NEW a, a = Grammar!At(x, q)
  PROVE  /\ a = Comma => FollowE(x, e, c) = ItemsE(x, Grammar!Trim(x, q + 1), c)
         /\ a = c => FollowE(x, e, c) = q + 1
         /\ a # Comma /\ a # c => FollowE(x, e, c) = 0
<1>1. PICK f : f = Grammar!Ends(x)  OBVIOUS
<1>2. PICK r : r = Grammar!FollowEnd(f, x, e, c)  OBVIOUS
<1>3. FollowE(x, e, c) = r  BY <1>1, <1>2 DEF FollowE
<1>4. ASSUME a = Comma PROVE r = f[<<Grammar!Trim(x, q + 1), c>>]
  <2>1. a # c  BY <1>4, Marked
  <2> QED  BY <1>2, <1>4, <2>1 DEF Grammar!FollowEnd, Comma
<1>5. ASSUME a = c PROVE r = q + 1
  <2>1. a # Comma  BY <1>5, Marked
  <2> QED  BY <1>2, <1>5, <2>1 DEF Grammar!FollowEnd, Comma
<1>6. ASSUME a # Comma, a # c PROVE r = 0
  BY <1>2, <1>6 DEF Grammar!FollowEnd, Comma
<1>7. f[<<Grammar!Trim(x, q + 1), c>>] = ItemsE(x, Grammar!Trim(x, q + 1), c)  BY <1>1 DEF ItemsE
<1> QED  BY <1>3, <1>4, <1>5, <1>6, <1>7

\* The items' end.
LEMMA ItemsIs ==
  ASSUME NEW x, NEW n \in Nat, n = Len(x), NEW p \in 1..(n + 1), NEW c \in Closers,
         NEW v, v = Grammar!ItemAt(x, p, c), NEW e, e = ValueE(x, v)
  PROVE  /\ Sane(ItemsE(x, p, c), p, n)
         /\ v = 0 => ItemsE(x, p, c) = 0
         /\ v # 0 /\ e = 0 => ItemsE(x, p, c) = 0
         /\ v # 0 /\ e # 0 => ItemsE(x, p, c) = FollowE(x, e, c)
<1>1. PICK f : f = Grammar!Ends(x)  OBVIOUS
<1>2. PICK i : i = ItemsE(x, p, c)  OBVIOUS
<1>3. c \in Ended  BY DEF Ended
<1>4. i = f[<<p, c>>]  BY <1>1, <1>2 DEF ItemsE
<1>5. i = Body(f, x, <<p, c>>) /\ Sane(i, p, n)  BY <1>1, <1>3, <1>4, EndIs
<1>6. i = Grammar!ItemsEnd(f, x, p, c)  BY <1>5, BodyItems
<1>7. e = f[<<v, "value">>]  BY <1>1 DEF ValueE, Grammar!ValueEnd
<1>8. FollowE(x, e, c) = Grammar!FollowEnd(f, x, e, c)  BY <1>1 DEF FollowE
<1>9. i = IF (IF v = 0 THEN 0 ELSE f[<<v, "value">>]) = 0 THEN 0
          ELSE Grammar!FollowEnd(f, x, IF v = 0 THEN 0 ELSE f[<<v, "value">>], c)
  BY <1>6 DEF Grammar!ItemsEnd
<1> QED  BY <1>2, <1>5, <1>7, <1>8, <1>9

(* Induction over the grammar: what a set of triples must be closed under to   *)
(* hold all <<p, w, e>> with w, at p, ending at e.                             *)
ScalarIn(x, S) ==
  \A p \in 1..Len(x) : Grammar!At(x, p) \in Scalars => <<p, "value", p + 1>> \in S

EmptyIn(x, S) ==
  \A p \in 1..Len(x), q \in 1..Len(x) :
    /\ Grammar!At(x, p) \in Openers /\ q = Grammar!Trim(x, p + 1)
    /\ Grammar!At(x, q) = Grammar!Closing(Grammar!At(x, p))
    => <<p, "value", q + 1>> \in S

ContainerIn(x, S) ==
  \A p \in 1..Len(x), q \in 1..(Len(x) + 1), e \in 1..(Len(x) + 1) :
    /\ Grammar!At(x, p) \in Openers /\ q = Grammar!Trim(x, p + 1)
    /\ <<q, Grammar!Closing(Grammar!At(x, p)), e>> \in S
    => <<p, "value", e>> \in S

LastIn(x, S) ==
  \A p \in 1..Len(x), c \in Closers, v \in 1..(Len(x) + 1), e \in 1..(Len(x) + 1), q \in 1..Len(x) :
    /\ v = Grammar!ItemAt(x, p, c) /\ <<v, "value", e>> \in S
    /\ q = Grammar!Trim(x, e) /\ Grammar!At(x, q) = c
    => <<p, c, q + 1>> \in S

MoreIn(x, S) ==
  \A p \in 1..Len(x), c \in Closers, v \in 1..(Len(x) + 1), e \in 1..(Len(x) + 1), q \in 1..Len(x),
     r \in 1..(Len(x) + 1), s \in 1..(Len(x) + 1) :
    /\ v = Grammar!ItemAt(x, p, c) /\ <<v, "value", e>> \in S
    /\ q = Grammar!Trim(x, e) /\ Grammar!At(x, q) = Comma /\ r = Grammar!Trim(x, q + 1)
    /\ <<r, c, s>> \in S
    => <<p, c, s>> \in S

ClosedIn(x, S) == ScalarIn(x, S) /\ EmptyIn(x, S) /\ ContainerIn(x, S) /\ LastIn(x, S) /\ MoreIn(x, S)

\* What ends at q is in the set.
InSet(x, S, q, w) == Grammar!Ends(x)[<<q, w>>] = 0 \/ <<q, w, Grammar!Ends(x)[<<q, w>>]>> \in S

Behind(x, n, S, p) == \A q \in 1..(n + 1), w \in Ended : q > p => InSet(x, S, q, w)

\* A value at p is.
LEMMA ValueIn ==
  ASSUME NEW x, NEW n \in Nat, n = Len(x), NEW S, ClosedIn(x, S), NEW p \in 1..(n + 1), Behind(x, n, S, p)
  PROVE  InSet(x, S, p, "value")
<1>1. PICK e : e = ValueE(x, p)  OBVIOUS
<1>2. SUFFICES ASSUME e # 0 PROVE <<p, "value", e>> \in S
  BY <1>1 DEF InSet, ValueE, Grammar!ValueEnd
<1>3. PICK a, c, q : a = Grammar!At(x, p) /\ c = Grammar!Closing(a) /\ q = Grammar!Trim(x, p + 1)  OBVIOUS
<1>4. /\ Sane(e, p, n)
      /\ a \in Openers /\ Grammar!At(x, q) = c => e = q + 1
      /\ a \in Openers /\ Grammar!At(x, q) # c => e = ItemsE(x, q, c)
      /\ a \in Scalars => e = p + 1
      /\ a \notin Openers \cup Scalars => e = 0
  BY <1>1, <1>3, ValueIs
<1>5. a \in Openers \cup Scalars /\ e \in (p + 1)..(n + 1)  BY <1>2, <1>4 DEF Sane
<1>6. p \in 1..n
  <2>1. a # "end"  BY <1>5, Marked, ScalarsAre
  <2> QED  BY <1>3, <2>1, AtIn
<1>7. CASE a \in Scalars
  <2>1. e = p + 1  BY <1>4, <1>7
  <2> QED  BY <1>3, <1>6, <1>7, <2>1 DEF ClosedIn, ScalarIn
<1>8. q \in (p + 1)..(n + 1)
  <2>1. p + 1 \in 1..(n + 1)  BY <1>6
  <2> QED  BY <1>3, <2>1, TrimIs
<1>9. c \in Closers /\ c \in Ended  BY <1>3, Marked DEF Ended
<1>10. CASE a \in Openers /\ Grammar!At(x, q) = c
  <2>1. e = q + 1  BY <1>4, <1>10
  <2>2. q \in 1..n  BY <1>8, <1>9, <1>10, AtIn, Marked
  <2>3. EmptyIn(x, S)  BY DEF ClosedIn
  <2> QED  BY <1>3, <1>6, <1>10, <2>1, <2>2, <2>3 DEF EmptyIn
<1>11. CASE a \in Openers /\ Grammar!At(x, q) # c
  <2>1. e = Grammar!Ends(x)[<<q, c>>]  BY <1>4, <1>11 DEF ItemsE
  <2>2. q \in 1..(n + 1) /\ q > p  BY <1>8
  <2>3. InSet(x, S, q, c)  BY <1>9, <2>2 DEF Behind
  <2>4. <<q, c, e>> \in S  BY <1>2, <2>1, <2>3 DEF InSet
  <2>5. ContainerIn(x, S)  BY DEF ClosedIn
  <2>6. e \in 1..(n + 1)  BY <1>5
  <2> QED  BY <1>3, <1>6, <1>11, <2>2, <2>4, <2>5, <2>6 DEF ContainerIn
<1> QED  BY <1>5, <1>7, <1>10, <1>11

\* And the items from p on.
LEMMA ItemsIn ==
  ASSUME NEW x, NEW n \in Nat, n = Len(x), NEW S, ClosedIn(x, S), NEW p \in 1..(n + 1), Behind(x, n, S, p),
         InSet(x, S, p, "value"), NEW c \in Closers
  PROVE  InSet(x, S, p, c)
<1>1. PICK i : i = ItemsE(x, p, c)  OBVIOUS
<1>2. SUFFICES ASSUME i # 0 PROVE <<p, c, i>> \in S
  BY <1>1 DEF InSet, ItemsE
<1>3. PICK v : v = Grammar!ItemAt(x, p, c)  OBVIOUS
<1>4. PICK e : e = ValueE(x, v)  OBVIOUS
<1>5. /\ Sane(i, p, n)
      /\ v = 0 => i = 0
      /\ v # 0 /\ e = 0 => i = 0
      /\ v # 0 /\ e # 0 => i = FollowE(x, e, c)
  BY <1>1, <1>3, <1>4, ItemsIs
<1>6. i \in (p + 1)..(n + 1) /\ v # 0 /\ e # 0 /\ i = FollowE(x, e, c)  BY <1>2, <1>5 DEF Sane
<1>7. v \in p..(n + 1)  BY <1>3, <1>6, ItemAtIs
<1>8. v \in 1..(n + 1)  BY <1>7
<1>9. Sane(e, v, n)  BY <1>4, <1>8, ValueIs
<1>10. e \in (v + 1)..(n + 1)  BY <1>6, <1>9 DEF Sane
<1>11. <<v, "value", e>> \in S
  <2>1. InSet(x, S, v, "value")
    <3>1. "value" \in Ended  BY DEF Ended
    <3>2. v = p \/ v > p  BY <1>7
    <3> QED  BY <1>8, <3>1, <3>2 DEF Behind
  <2>2. e = Grammar!Ends(x)[<<v, "value">>]  BY <1>4 DEF ValueE, Grammar!ValueEnd
  <2> QED  BY <1>6, <2>1, <2>2 DEF InSet
<1>12. p \in 1..n /\ e \in 1..(n + 1) /\ e > p  BY <1>7, <1>10
<1>13. PICK q \in e..(n + 1) : q = Grammar!Trim(x, e)  BY <1>12, TrimIs
<1>14. /\ Grammar!At(x, q) = Comma => i = ItemsE(x, Grammar!Trim(x, q + 1), c)
       /\ Grammar!At(x, q) = c => i = q + 1
       /\ Grammar!At(x, q) # Comma /\ Grammar!At(x, q) # c => i = 0
  BY <1>6, <1>13, FollowIs
<1>15. Grammar!At(x, q) = Comma \/ Grammar!At(x, q) = c  BY <1>2, <1>14
<1>16. q \in 1..n
  <2>1. Grammar!At(x, q) # "end"  BY <1>15, Marked
  <2>2. q \in Int  OBVIOUS
  <2> QED  BY <2>1, <2>2, AtIn
<1>17. CASE Grammar!At(x, q) = c
  <2>1. i = q + 1  BY <1>14, <1>17
  <2>2. LastIn(x, S)  BY DEF ClosedIn
  <2> QED  BY <1>3, <1>8, <1>11, <1>12, <1>13, <1>16, <1>17, <2>1, <2>2 DEF LastIn
<1>18. CASE Grammar!At(x, q) = Comma
  <2>1. PICK r \in (q + 1)..(n + 1) : r = Grammar!Trim(x, q + 1)
    <3>1. q + 1 \in 1..(n + 1)  BY <1>16
    <3> QED  BY <3>1, TrimIs
  <2>2. i = Grammar!Ends(x)[<<r, c>>]  BY <1>14, <1>18, <2>1 DEF ItemsE
  <2>3. r \in 1..(n + 1) /\ r > p  BY <1>12, <1>13, <1>16, <2>1
  <2>4. c \in Ended  BY DEF Ended
  <2>5. InSet(x, S, r, c)  BY <2>3, <2>4 DEF Behind
  <2>6. <<r, c, i>> \in S  BY <1>2, <2>2, <2>5 DEF InSet
  <2>7. MoreIn(x, S)  BY DEF ClosedIn
  <2>8. i \in 1..(n + 1)  BY <1>6
  <2> QED  BY <1>3, <1>8, <1>11, <1>12, <1>13, <1>16, <1>18, <2>1, <2>3, <2>6, <2>7, <2>8 DEF MoreIn
<1> QED  BY <1>15, <1>17, <1>18

\* Everything that ends is.
LEMMA GrammarInduction ==
  ASSUME NEW x, NEW n \in Nat, n = Len(x), NEW S, ClosedIn(x, S),
         NEW p \in 1..(n + 1), NEW w \in Ended, NEW e, e = Grammar!Ends(x)[<<p, w>>], e # 0
  PROVE  <<p, w, e>> \in S
<1> DEFINE T == {j \in Nat : j <= n + 1 => Behind(x, n, S, n + 1 - j)}
<1>1. ASSUME NEW q \in 1..(n + 1), Behind(x, n, S, q) PROVE Behind(x, n, S, q - 1)
  <2>1. ASSUME NEW r \in 1..(n + 1), NEW u \in Ended, r > q - 1 PROVE InSet(x, S, r, u)
    <3>1. CASE r > q  BY <1>1, <3>1 DEF Behind
    <3>2. CASE r = q
      <4>1. InSet(x, S, q, "value")  BY <1>1, ValueIn
      <4>2. u = "value" \/ u \in Closers  BY DEF Ended
      <4> QED  BY <1>1, <3>2, <4>1, <4>2, ItemsIn
    <3> QED  BY <2>1, <3>1, <3>2
  <2> QED  BY <2>1 DEF Behind
<1>2. ASSUME NEW j \in Nat, \A i \in Nat : i < j => i \in T PROVE j \in T
  <2>1. CASE j = 0
    <3>1. n + 1 - j = n + 1  BY <2>1
    <3>2. Behind(x, n, S, n + 1)  BY DEF Behind
    <3> QED  BY <3>1, <3>2
  <2>2. CASE j > 0 /\ j <= n + 1
    <3>1. PICK i \in Nat : i + 1 = j  BY <2>2
    <3>2. i < j /\ i <= n + 1  BY <2>2, <3>1
    <3>3. i \in T
      <4> HIDE DEF T
      <4> QED  BY <1>2, <3>2
    <3>4. PICK q \in 1..(n + 1) : q = n + 1 - i /\ q - 1 = n + 1 - j
      <4>1. n + 1 - i \in 1..(n + 1) /\ (n + 1 - i) - 1 = n + 1 - j  BY <2>2, <3>1
      <4> QED  BY <4>1
    <3>5. Behind(x, n, S, q)  BY <3>2, <3>3, <3>4
    <3>6. Behind(x, n, S, n + 1 - j)  BY <1>1, <3>4, <3>5
    <3> QED  BY <3>6
  <2>3. CASE j > n + 1  BY <2>3
  <2> QED  BY <2>1, <2>2, <2>3
<1>3. T = Nat
  <2>1. T \subseteq Nat /\ \A j \in Nat : (\A i \in Nat : i < j => i \in T) => j \in T  BY <1>2
  <2> HIDE DEF T
  <2> QED  BY <2>1, Induction
<1>4. n + 1 \in T
  <2> HIDE DEF T
  <2> QED  BY <1>3
<1>5. PICK z : z = n + 1 - (n + 1)  OBVIOUS
<1>6. z = 0 /\ Behind(x, n, S, z)  BY <1>4, <1>5
<1>7. InSet(x, S, p, w)  BY <1>6 DEF Behind
<1> QED  BY <1>7 DEF InSet

(* Brackets that are open.                                                     *)
Openings(x, k) == {q \in 1..k : x[q] \in Openers}
Closings(x, k) == {q \in 1..k : x[q] \in Closers}
Deep(x, k)     == Grammar!Nesting(x, k)

\* The grammar counts as this module does.
LEMMA SameCardinality == \A T : Grammar!Cardinality(T) = Cardinality(T)
<1> SUFFICES ASSUME NEW T PROVE Grammar!Cardinality(T) = Cardinality(T)  OBVIOUS
<1> QED  BY DEF Grammar!Cardinality, Cardinality

\* The nesting is a difference of two counts.
LEMMA DeepIs ==
  ASSUME NEW x, NEW k \in Nat
  PROVE  /\ Deep(x, k) = Cardinality(Openings(x, k)) - Cardinality(Closings(x, k))
         /\ IsFiniteSet(Openings(x, k)) /\ IsFiniteSet(Closings(x, k))
         /\ Cardinality(Openings(x, k)) \in Nat /\ Cardinality(Closings(x, k)) \in Nat
         /\ Deep(x, k) \in Int
<1>1. Deep(x, k) = Cardinality(Openings(x, k)) - Cardinality(Closings(x, k))
  <2>1. Openings(x, k) = {q \in 1..k : x[q] \in {"{", "["}}  BY DEF Openings, Openers
  <2>2. Closings(x, k) = {q \in 1..k : x[q] \in {"}", "]"}}  BY DEF Closings, Closers
  <2>3. Deep(x, k) = Grammar!Cardinality(Openings(x, k)) - Grammar!Cardinality(Closings(x, k))
    BY <2>1, <2>2 DEF Deep, Grammar!Nesting
  <2> QED  BY <2>3, SameCardinality
<1>2. IsFiniteSet(1..k)  BY FS_Interval
<1>3. Openings(x, k) \subseteq 1..k /\ Closings(x, k) \subseteq 1..k  BY DEF Openings, Closings
<1>4. IsFiniteSet(Openings(x, k)) /\ IsFiniteSet(Closings(x, k))  BY <1>2, <1>3, FS_Subset
<1>5. Cardinality(Openings(x, k)) \in Nat /\ Cardinality(Closings(x, k)) \in Nat
  BY <1>4, FS_CardinalityType
<1>6. Deep(x, k) \in Int  BY <1>1, <1>5
<1> QED  BY <1>1, <1>4, <1>5, <1>6

\* Before the first lexeme nothing is open.
LEMMA DeepNone == \A x : Deep(x, 0) = 0
<1> SUFFICES ASSUME NEW x PROVE Deep(x, 0) = 0  OBVIOUS
<1>1. Openings(x, 0) = {} /\ Closings(x, 0) = {}  BY DEF Openings, Closings
<1>2. Cardinality({}) = 0  BY FS_EmptySet
<1>3. Deep(x, 0) = Cardinality(Openings(x, 0)) - Cardinality(Closings(x, 0))  BY DeepIs
<1> QED  BY <1>1, <1>2, <1>3

\* One lexeme more.
LEMMA DeepStep ==
  ASSUME NEW x, NEW k \in Nat, NEW l, l = k + 1
  PROVE  /\ x[l] \in Openers => Deep(x, l) = Deep(x, k) + 1
         /\ x[l] \in Closers => Deep(x, l) = Deep(x, k) - 1
<1>1. PICK O, C : O = Openings(x, k) /\ C = Closings(x, k)  OBVIOUS
<1>2. PICK o \in Nat, c \in Nat : o = Cardinality(O) /\ c = Cardinality(C)  BY <1>1, DeepIs
<1>3. Deep(x, k) = o - c  BY <1>1, <1>2, DeepIs
<1>4. l \in Nat /\ l \notin O /\ l \notin C /\ IsFiniteSet(O) /\ IsFiniteSet(C)
  <2>1. l \notin 1..k /\ l \in Nat  OBVIOUS
  <2>2. l \notin O /\ l \notin C  BY <1>1, <2>1 DEF Openings, Closings
  <2>3. IsFiniteSet(O) /\ IsFiniteSet(C)  BY <1>1, DeepIs
  <2> QED  BY <2>1, <2>2, <2>3
<1>5. Deep(x, l) = Cardinality(Openings(x, l)) - Cardinality(Closings(x, l))  BY <1>4, DeepIs
<1>6. 1..l = (1..k) \cup {l}  OBVIOUS
<1>7. ASSUME x[l] \in Openers PROVE Deep(x, l) = Deep(x, k) + 1
  <2>1. x[l] \notin Closers  BY <1>7, Marked
  <2>2. Openings(x, l) = O \cup {l}  BY <1>1, <1>6, <1>7 DEF Openings
  <2>3. Closings(x, l) = C  BY <1>1, <1>6, <2>1 DEF Closings
  <2>4. Cardinality(O \cup {l}) = Cardinality(O) + 1  BY <1>4, FS_AddElement
  <2>5. Deep(x, l) = (o + 1) - c  BY <1>2, <1>5, <2>2, <2>3, <2>4
  <2> QED  BY <1>3, <2>5
<1>8. ASSUME x[l] \in Closers PROVE Deep(x, l) = Deep(x, k) - 1
  <2>1. x[l] \notin Openers  BY <1>8, Marked
  <2>2. Openings(x, l) = O  BY <1>1, <1>6, <2>1 DEF Openings
  <2>3. Closings(x, l) = C \cup {l}  BY <1>1, <1>6, <1>8 DEF Closings
  <2>4. Cardinality(C \cup {l}) = Cardinality(C) + 1  BY <1>4, FS_AddElement
  <2>5. Deep(x, l) = o - (c + 1)  BY <1>2, <1>5, <2>2, <2>3, <2>4
  <2> QED  BY <1>3, <2>5
<1> QED  BY <1>7, <1>8

\* Lexemes that are no brackets change nothing.
LEMMA DeepFlat ==
  ASSUME NEW x, NEW k \in Nat, NEW l \in Nat, k <= l,
         \A j \in (k + 1)..l : x[j] \notin Openers /\ x[j] \notin Closers
  PROVE  Deep(x, l) = Deep(x, k)
<1>1. ASSUME NEW q \in 1..l, x[q] \in Openers \/ x[q] \in Closers PROVE q \in 1..k
  <2>1. q \notin (k + 1)..l  BY <1>1
  <2> QED  BY <2>1
<1>2. 1..k \subseteq 1..l  OBVIOUS
<1>3. Openings(x, l) = Openings(x, k) /\ Closings(x, l) = Closings(x, k)
  BY <1>1, <1>2 DEF Openings, Closings
<1> QED  BY <1>3, DeepIs

-------------------------------------------------------------------------------
(* Stretches of a document.                                                    *)
Plain == Scalars \cup Openers \cup Closers \cup {"ws", Comma, Colon}
Run(c) == Runs(c, FALSE)

\* Only what JSON knows, no two scalars that touch.
Smooth(x, p, e) ==
  /\ \A k \in p..(e - 1) : x[k] \in Plain
  /\ \A k \in p..(e - 2) : Run(x[k]) => ~Run(x[k + 1])

\* Brackets close b more than they open, and only at the end.
Level(x, p, e, b) ==
  /\ Deep(x, e - 1) = Deep(x, p - 1) - b
  /\ \A k \in p..(e - 1) : Deep(x, k) >= Deep(x, p - 1) - b

\* Two stretches that do not touch there.
LEMMA SmoothGlue ==
  ASSUME NEW x, NEW p \in Nat, NEW e \in Nat, NEW r \in Nat, p <= e, e <= r,
         Smooth(x, p, e), Smooth(x, e, r), e = p \/ e = r \/ ~Run(x[e - 1]) \/ ~Run(x[e])
  PROVE  Smooth(x, p, r)
<1>1. ASSUME NEW k \in p..(r - 1) PROVE x[k] \in Plain
  <2>1. k \in p..(e - 1) \/ k \in e..(r - 1)  OBVIOUS
  <2> QED  BY <2>1 DEF Smooth
<1>2. ASSUME NEW k \in p..(r - 2), Run(x[k]) PROVE ~Run(x[k + 1])
  <2>1. k \in p..(e - 2) \/ k = e - 1 \/ k \in e..(r - 2)  OBVIOUS
  <2>2. CASE k = e - 1
    <3>1. e # p /\ e # r /\ k + 1 = e  BY <2>2
    <3> QED  BY <1>2, <2>2, <3>1
  <2> QED  BY <1>2, <2>1, <2>2 DEF Smooth
<1> QED  BY <1>1, <1>2 DEF Smooth

\* Levels add up.
LEMMA LevelGlue ==
  ASSUME NEW x, NEW p \in Nat, NEW e \in Nat, NEW r \in Nat, 0 < p, p <= e, e <= r, NEW b \in Nat,
         Level(x, p, e, 0), Level(x, e, r, b)
  PROVE  Level(x, p, r, b)
<1>1. PICK i \in Int : i = Deep(x, p - 1)
  <2>1. p - 1 \in Nat  OBVIOUS
  <2> QED  BY <2>1, DeepIs
<1>2. Deep(x, e - 1) = i  BY <1>1 DEF Level
<1>3. Deep(x, r - 1) = i - b  BY <1>2 DEF Level
<1>4. ASSUME NEW k \in p..(r - 1) PROVE Deep(x, k) >= i - b
  <2>1. k \in p..(e - 1) \/ k \in e..(r - 1)  OBVIOUS
  <2>2. CASE k \in p..(e - 1)
    <3>1. Deep(x, k) >= i - 0  BY <1>1, <2>2 DEF Level
    <3>2. k \in Nat  BY <2>2
    <3>3. Deep(x, k) \in Int  BY <3>2, DeepIs
    <3> QED  BY <3>1, <3>3
  <2>3. CASE k \in e..(r - 1)  BY <1>2, <2>3 DEF Level
  <2> QED  BY <2>1, <2>2, <2>3
<1> QED  BY <1>1, <1>3, <1>4 DEF Level

\* A stretch of no brackets is level, and one of whitespace smooth.
LEMMA LevelFlat ==
  ASSUME NEW x, NEW p \in Nat, NEW e \in Nat, 0 < p, p <= e,
         \A k \in p..(e - 1) : x[k] \notin Openers /\ x[k] \notin Closers
  PROVE  Level(x, p, e, 0)
<1>1. ASSUME NEW l \in (p - 1)..(e - 1) PROVE Deep(x, l) = Deep(x, p - 1)
  <2>1. p - 1 \in Nat /\ l \in Nat /\ p - 1 <= l  OBVIOUS
  <2>2. ASSUME NEW j \in ((p - 1) + 1)..l PROVE x[j] \notin Openers /\ x[j] \notin Closers
    <3>1. j \in p..(e - 1)  OBVIOUS
    <3> QED  BY <3>1
  <2> QED  BY <2>1, <2>2, DeepFlat
<1>2. PICK i \in Int : i = Deep(x, p - 1)
  <2>1. p - 1 \in Nat  OBVIOUS
  <2> QED  BY <2>1, DeepIs
<1>3. Deep(x, e - 1) = i - 0  BY <1>1, <1>2
<1>4. ASSUME NEW k \in p..(e - 1) PROVE Deep(x, k) >= i - 0  BY <1>1, <1>2
<1> QED  BY <1>2, <1>3, <1>4 DEF Level

Blank(x, p, e) == \A k \in p..(e - 1) : x[k] = "ws"

\* Whitespace is smooth and changes no level.
LEMMA BlankIs ==
  ASSUME NEW x, NEW p \in Nat, NEW e \in Nat, 0 < p, p <= e, Blank(x, p, e)
  PROVE  Smooth(x, p, e) /\ Level(x, p, e, 0)
<1>1. "ws" \in Plain /\ ~Run("ws") /\ "ws" \notin Openers /\ "ws" \notin Closers
  BY Marked DEF Plain, Run, Runs
<1>2. ASSUME NEW k \in p..(e - 1) PROVE x[k] \in Plain /\ ~Run(x[k]) /\ x[k] \notin Openers /\ x[k] \notin Closers
  BY <1>1 DEF Blank
<1>3. Level(x, p, e, 0)  BY <1>2, LevelFlat
<1>4. ASSUME NEW k \in p..(e - 2) PROVE ~Run(x[k])
  <2>1. k \in p..(e - 1)  OBVIOUS
  <2> QED  BY <1>2, <2>1
<1> QED  BY <1>2, <1>3, <1>4 DEF Smooth

\* A stretch without a scalar that could touch another, and one without brackets.
Still(x, p, e) == \A k \in p..(e - 1) : x[k] \in Plain /\ ~Run(x[k])
Flat(x, p, e)  == \A k \in p..(e - 1) : x[k] \notin Openers /\ x[k] \notin Closers

\* What the marks are.
LEMMA MarksAre ==
  /\ \A c \in Openers \cup Closers \cup Keys \cup {"ws", Comma, Colon} : c \in Plain /\ ~Run(c)
  /\ \A c \in Scalars \cup {"ws", Comma, Colon} : c \in Plain /\ c \notin Openers /\ c \notin Closers
<1>1. ASSUME NEW c \in Keys PROVE ~Run(c)
  BY LexemesAssumption DEF Run, Runs, V!Marks
<1>2. ASSUME NEW c \in Openers \cup Closers \cup {"ws", Comma, Colon} PROVE ~Run(c)
  BY DEF Run, Runs, Openers, Closers, Comma, Colon
<1>3. ASSUME NEW c \in {"ws", Comma, Colon} PROVE c \notin Openers /\ c \notin Closers  BY Marked
<1>4. ASSUME NEW c \in Scalars PROVE c \notin Openers /\ c \notin Closers  BY ScalarsAre
<1>5. Keys \subseteq Scalars  BY DEF Scalars
<1> QED  BY <1>1, <1>2, <1>3, <1>4, <1>5 DEF Plain

\* What has no scalar that could touch another is smooth.
LEMMA StillIs ==
  ASSUME NEW x, NEW p \in Nat, NEW e \in Nat, Still(x, p, e) PROVE Smooth(x, p, e)
<1>1. \A k \in p..(e - 2) : k \in p..(e - 1)  OBVIOUS
<1> QED  BY <1>1 DEF Still, Smooth

\* It may stand before a smooth stretch.
LEMMA StillBefore ==
  ASSUME NEW x, NEW p \in Nat, NEW e \in Nat, NEW r \in Nat, p <= e, e <= r, Still(x, p, e), Smooth(x, e, r)
  PROVE  Smooth(x, p, r)
<1>1. Smooth(x, p, e)  BY StillIs
<1>2. e = p \/ ~Run(x[e - 1])
  <2>1. e # p => e - 1 \in p..(e - 1)  OBVIOUS
  <2> QED  BY <2>1 DEF Still
<1> QED  BY <1>1, <1>2, SmoothGlue

\* And behind one.
LEMMA StillBehind ==
  ASSUME NEW x, NEW p \in Nat, NEW e \in Nat, NEW r \in Nat, p <= e, e <= r, Smooth(x, p, e), Still(x, e, r)
  PROVE  Smooth(x, p, r)
<1>1. Smooth(x, e, r)  BY StillIs
<1>2. e = r \/ ~Run(x[e])
  <2>1. e # r => e \in e..(r - 1)  OBVIOUS
  <2> QED  BY <2>1 DEF Still
<1> QED  BY <1>1, <1>2, SmoothGlue

\* Inside a document.
LEMMA Inside ==
  ASSUME NEW x, NEW n \in Nat, n = Len(x), NEW k \in 1..n PROVE Grammar!At(x, k) = x[k]
BY DEF Grammar!At

\* What is skipped is whitespace.
LEMMA TrimBlank ==
  ASSUME NEW x, NEW n \in Nat, n = Len(x), NEW p \in 1..(n + 1), NEW q, q = Grammar!Trim(x, p)
  PROVE  q \in p..(n + 1) /\ \A k \in p..(q - 1) : x[k] = "ws"
<1>1. q \in p..(n + 1) /\ \A k \in p..(q - 1) : Grammar!At(x, k) = "ws"  BY TrimIs
<1>2. ASSUME NEW k \in p..(q - 1) PROVE x[k] = "ws"
  <2>1. k \in 1..n  BY <1>1
  <2> QED  BY <1>1, <2>1, Inside
<1> QED  BY <1>1, <1>2

\* From a value on to what follows it, and from a mark on.
LEMMA BlankThen ==
  ASSUME NEW x, NEW n \in Nat, n = Len(x), NEW p \in 1..(n + 1), NEW q, q = Grammar!Trim(x, p)
  PROVE  q \in p..(n + 1) /\ Still(x, p, q) /\ Flat(x, p, q)
<1>1. q \in p..(n + 1) /\ \A k \in p..(q - 1) : x[k] = "ws"  BY TrimBlank
<1>2. "ws" \in Plain /\ ~Run("ws") /\ "ws" \notin Openers /\ "ws" \notin Closers  BY MarksAre
<1> QED  BY <1>1, <1>2 DEF Still, Flat

\* Two such stretches in a row are one, with brackets or without.
LEMMA StillOn ==
  ASSUME NEW x, NEW p \in Nat, NEW e \in Nat, NEW r \in Nat, p <= e, e <= r
  PROVE  /\ Still(x, p, e) /\ Still(x, e, r) => Still(x, p, r)
         /\ Flat(x, p, e) /\ Flat(x, e, r) => Flat(x, p, r)
<1>1. \A k \in p..(r - 1) : k \in p..(e - 1) \/ k \in e..(r - 1)  OBVIOUS
<1> QED  BY <1>1 DEF Still, Flat

\* A mark and the whitespace behind it.
LEMMA MarkThen ==
  ASSUME NEW x, NEW n \in Nat, n = Len(x), NEW p \in 1..n, NEW q, q = Grammar!Trim(x, p + 1),
         x[p] \in Plain, ~Run(x[p])
  PROVE  /\ q \in (p + 1)..(n + 1) /\ Still(x, p, q)
         /\ x[p] \notin Openers /\ x[p] \notin Closers => Flat(x, p, q)
<1>1. p + 1 \in 1..(n + 1)  OBVIOUS
<1>2. q \in (p + 1)..(n + 1) /\ \A k \in (p + 1)..(q - 1) : x[k] = "ws"  BY <1>1, TrimBlank
<1>3. \A k \in p..(q - 1) : k = p \/ k \in (p + 1)..(q - 1)  BY <1>2
<1>4. "ws" \in Plain /\ ~Run("ws") /\ "ws" \notin Openers /\ "ws" \notin Closers  BY MarksAre
<1> QED  BY <1>2, <1>3, <1>4 DEF Still, Flat

\* In front of the value of an item there is no more than a key and a colon.
LEMMA ItemHead ==
  ASSUME NEW x, NEW n \in Nat, n = Len(x), NEW p \in 1..n, NEW c \in Closers,
         NEW v \in 1..(n + 1), v = Grammar!ItemAt(x, p, c)
  PROVE  v >= p /\ Still(x, p, v) /\ Flat(x, p, v)
<1>1. CASE v = p  BY <1>1 DEF Still, Flat
<1>2. CASE v # p
  <2>1. c # "]"  BY <1>2 DEF Grammar!ItemAt
  <2>2. c = "}"  BY <2>1 DEF Closers
  <2>3. PICK q : q = Grammar!Trim(x, p + 1)  OBVIOUS
  <2>4. Grammar!At(x, p) \in Keys /\ Grammar!At(x, q) = Colon /\ v = Grammar!Trim(x, q + 1)
    <3>1. v # 0  OBVIOUS
    <3>2. Grammar!At(x, p) \in Keys /\ Grammar!At(x, q) = Colon
      BY <2>2, <2>3, <3>1 DEF Grammar!ItemAt, Colon
    <3> QED  BY <2>2, <2>3, <3>2 DEF Grammar!ItemAt, Colon
  <2>5. x[p] \in Keys  BY <2>4, Inside
  <2>6. x[p] \in Plain /\ ~Run(x[p]) /\ x[p] \notin Openers /\ x[p] \notin Closers
    <3>1. x[p] \in Scalars  BY <2>5 DEF Scalars
    <3> QED  BY <2>5, <3>1, MarksAre
  <2>7. q \in (p + 1)..(n + 1) /\ Still(x, p, q) /\ Flat(x, p, q)  BY <2>3, <2>6, MarkThen
  <2>8. q \in 1..n /\ x[q] = Colon
    <3>1. q \in Int /\ Grammar!At(x, q) # "end"  BY <2>4, <2>7, Marked
    <3> QED  BY <2>4, <3>1, AtIn
  <2>9. v \in (q + 1)..(n + 1) /\ Still(x, q, v) /\ Flat(x, q, v)
    <3>1. x[q] \in Plain /\ ~Run(x[q]) /\ x[q] \notin Openers /\ x[q] \notin Closers  BY <2>8, MarksAre
    <3> QED  BY <2>4, <2>8, <3>1, MarkThen
  <2>10. p <= q /\ q <= v  BY <2>7, <2>9
  <2>11. p \in Nat /\ q \in Nat /\ v \in Nat  BY <2>8
  <2> QED  BY <2>7, <2>9, <2>10, <2>11, StillOn
<1> QED  BY <1>1, <1>2

\* Brackets.
LEMMA LevelClose ==
  ASSUME NEW x, NEW q \in Nat, 0 < q, x[q] \in Closers PROVE Level(x, q, q + 1, 1)
<1>1. PICK k \in Nat : k + 1 = q  OBVIOUS
<1>2. Deep(x, q) = Deep(x, k) - 1  BY <1>1, DeepStep
<1>3. Deep(x, k) \in Int  BY DeepIs
<1>4. (q + 1) - 1 = q /\ q - 1 = k  BY <1>1
<1>5. \A l \in q..((q + 1) - 1) : l = q  OBVIOUS
<1> QED  BY <1>2, <1>3, <1>4, <1>5 DEF Level

\* What closes a bracket more than it opens, behind an opening one, is level.
LEMMA LevelOpen ==
  ASSUME NEW x, NEW p \in Nat, NEW e \in Nat, 0 < p, p + 1 < e, x[p] \in Openers, Level(x, p + 1, e, 1)
  PROVE  Level(x, p, e, 0)
<1>1. PICK k \in Nat : k + 1 = p  OBVIOUS
<1>2. Deep(x, p) = Deep(x, k) + 1  BY <1>1, DeepStep
<1>3. PICK i \in Int : i = Deep(x, k)  BY DeepIs
<1>4. p - 1 = k /\ (p + 1) - 1 = p  BY <1>1
<1>5. Deep(x, e - 1) = (i + 1) - 1 /\ \A l \in (p + 1)..(e - 1) : Deep(x, l) >= (i + 1) - 1
  BY <1>2, <1>3, <1>4 DEF Level
<1>6. ASSUME NEW l \in p..(e - 1) PROVE Deep(x, l) >= i - 0
  <2>1. CASE l = p  BY <1>2, <1>3, <2>1
  <2>2. CASE l \in (p + 1)..(e - 1)
    <3>1. Deep(x, l) >= (i + 1) - 1  BY <1>5, <2>2
    <3>2. (i + 1) - 1 = i - 0  OBVIOUS
    <3> QED  BY <3>1, <3>2
  <2> QED  BY <2>1, <2>2
<1>7. Deep(x, e - 1) = i - 0  BY <1>5
<1> QED  BY <1>3, <1>4, <1>6, <1>7 DEF Level

\* Without brackets the level stays.
LEMMA FlatIs ==
  ASSUME NEW x, NEW p \in Nat, NEW e \in Nat, 0 < p, p <= e, Flat(x, p, e) PROVE Level(x, p, e, 0)
BY LevelFlat DEF Flat

\* What a value or items that end are made of.
Seg(x, p, w, e) ==
  /\ p < e /\ Smooth(x, p, e)
  /\ w = "value" => Level(x, p, e, 0) /\ (x[p] \in Openers => x[e - 1] \in Closers)
  /\ w # "value" => Level(x, p, e, 1) /\ x[e - 1] \in Closers

Segs(x, n) == {t \in (1..(n + 1)) \X Ended \X (1..(n + 1)) : Seg(x, t[1], t[2], t[3])}

\* A triple of places is among the segments if it is one.
LEMMA SegsHave ==
  ASSUME NEW x, NEW n \in Nat, NEW p \in 1..(n + 1), NEW w \in Ended, NEW e \in 1..(n + 1)
  PROVE  <<p, w, e>> \in Segs(x, n) <=> Seg(x, p, w, e)
<1>1. PICK t : t = <<p, w, e>>  OBVIOUS
<1>2. t \in (1..(n + 1)) \X Ended \X (1..(n + 1)) /\ t[1] = p /\ t[2] = w /\ t[3] = e  BY <1>1
<1>3. t \in Segs(x, n) <=> Seg(x, p, w, e)  BY <1>2 DEF Segs
<1> QED  BY <1>1, <1>3

\* A scalar is a segment.
LEMMA SegScalar == ASSUME NEW x, NEW n \in Nat, n = Len(x) PROVE ScalarIn(x, Segs(x, n))
<1>1. ASSUME NEW p \in 1..n, Grammar!At(x, p) \in Scalars PROVE <<p, "value", p + 1>> \in Segs(x, n)
  <2>1. x[p] \in Plain /\ x[p] \notin Openers /\ x[p] \notin Closers
    <3>1. x[p] \in Scalars  BY <1>1, Inside
    <3> QED  BY <3>1, MarksAre
  <2>2. PICK e \in 1..(n + 1) : e = p + 1 /\ p < e  OBVIOUS
  <2>3. \A k \in p..(e - 1) : k = p  BY <2>2
  <2>4. Flat(x, p, e)  BY <2>1, <2>3 DEF Flat
  <2>5. Level(x, p, e, 0)  BY <2>2, <2>4, FlatIs
  <2>6. Smooth(x, p, e)
    <3>1. \A k \in p..(e - 2) : FALSE  BY <2>2
    <3> QED  BY <2>1, <2>3, <3>1 DEF Smooth
  <2>7. Seg(x, p, "value", e)  BY <2>1, <2>2, <2>5, <2>6 DEF Seg
  <2>8. "value" \in Ended  BY DEF Ended
  <2>9. <<p, "value", e>> \in Segs(x, n)  BY <2>7, <2>8, SegsHave
  <2> QED  BY <2>2, <2>9
<1> QED  BY <1>1 DEF ScalarIn

\* An empty container is one.
LEMMA SegEmpty == ASSUME NEW x, NEW n \in Nat, n = Len(x) PROVE EmptyIn(x, Segs(x, n))
<1>1. ASSUME NEW p \in 1..n, NEW q \in 1..n, Grammar!At(x, p) \in Openers, q = Grammar!Trim(x, p + 1),
             Grammar!At(x, q) = Grammar!Closing(Grammar!At(x, p))
      PROVE  <<p, "value", q + 1>> \in Segs(x, n)
  <2>1. x[p] \in Openers /\ x[q] \in Closers  BY <1>1, Inside, Marked
  <2>2. x[p] \in Plain /\ ~Run(x[p]) /\ x[q] \in Plain /\ ~Run(x[q])  BY <2>1, MarksAre
  <2>3. q \in (p + 1)..(n + 1) /\ Still(x, p, q)  BY <1>1, <2>2, MarkThen
  <2>4. PICK e \in 1..(n + 1) : e = q + 1  OBVIOUS
  <2>5. Still(x, q, e)
    <3>1. \A k \in q..(e - 1) : k = q  BY <2>4
    <3> QED  BY <2>2, <3>1 DEF Still
  <2>6. p < e /\ p <= q /\ q <= e  BY <2>3, <2>4
  <2>7. Smooth(x, p, e)
    <3>1. Still(x, p, e)  BY <2>3, <2>5, <2>6, StillOn
    <3> QED  BY <3>1, StillIs
  <2>8. Level(x, q, e, 1)  BY <2>1, <2>4, LevelClose
  <2>9. PICK b \in 1..(n + 1) : b = p + 1  OBVIOUS
  <2>10. Level(x, b, q, 0)
    <3>1. Flat(x, b, q) /\ b <= q  BY <1>1, <2>3, <2>9, BlankThen
    <3> QED  BY <3>1, FlatIs
  <2>11. Level(x, b, e, 1)
    <3>1. b <= q /\ 0 < b  BY <2>3, <2>9
    <3> QED  BY <2>6, <2>8, <2>10, <3>1, LevelGlue
  <2>12. Level(x, p, e, 0)
    <3>1. p + 1 < e  BY <2>3, <2>4
    <3> QED  BY <2>1, <2>9, <2>11, <3>1, LevelOpen
  <2>13. x[e - 1] \in Closers  BY <2>1, <2>4
  <2>14. Seg(x, p, "value", e)  BY <2>6, <2>7, <2>12, <2>13 DEF Seg
  <2>15. "value" \in Ended  BY DEF Ended
  <2>16. <<p, "value", e>> \in Segs(x, n)  BY <2>14, <2>15, SegsHave
  <2> QED  BY <2>4, <2>16
<1> QED  BY <1>1 DEF EmptyIn

\* A container is one if its items are.
LEMMA SegContainer == ASSUME NEW x, NEW n \in Nat, n = Len(x) PROVE ContainerIn(x, Segs(x, n))
<1>1. ASSUME NEW p \in 1..n, NEW q \in 1..(n + 1), NEW e \in 1..(n + 1),
             Grammar!At(x, p) \in Openers, q = Grammar!Trim(x, p + 1),
             <<q, Grammar!Closing(Grammar!At(x, p)), e>> \in Segs(x, n)
      PROVE  <<p, "value", e>> \in Segs(x, n)
  <2>1. x[p] \in Openers  BY <1>1, Inside
  <2>2. x[p] \in Plain /\ ~Run(x[p])  BY <2>1, MarksAre
  <2>3. q \in (p + 1)..(n + 1) /\ Still(x, p, q)  BY <1>1, <2>2, MarkThen
  <2>4. PICK c \in Closers : c = Grammar!Closing(Grammar!At(x, p))  BY Marked
  <2>5. c \in Ended /\ c # "value"  BY Marked DEF Ended
  <2>6. Seg(x, q, c, e)  BY <1>1, <2>4, <2>5, SegsHave
  <2>7. q < e /\ Smooth(x, q, e) /\ Level(x, q, e, 1) /\ x[e - 1] \in Closers  BY <2>5, <2>6 DEF Seg
  <2>8. p <= q /\ q <= e /\ p < e  BY <2>3, <2>7
  <2>9. Smooth(x, p, e)  BY <2>3, <2>7, <2>8, StillBefore
  <2>10. PICK b \in 1..(n + 1) : b = p + 1  OBVIOUS
  <2>11. Level(x, b, q, 0)
    <3>1. Flat(x, b, q) /\ b <= q  BY <1>1, <2>3, <2>10, BlankThen
    <3> QED  BY <3>1, FlatIs
  <2>12. Level(x, b, e, 1)
    <3>1. b <= q /\ 0 < b  BY <2>3, <2>10
    <3> QED  BY <2>7, <2>8, <2>11, <3>1, LevelGlue
  <2>13. Level(x, p, e, 0)
    <3>1. p + 1 < e  BY <2>3, <2>7
    <3> QED  BY <2>1, <2>10, <2>12, <3>1, LevelOpen
  <2>14. Seg(x, p, "value", e)  BY <2>7, <2>8, <2>9, <2>13 DEF Seg
  <2>15. "value" \in Ended  BY DEF Ended
  <2> QED  BY <2>14, <2>15, SegsHave
<1> QED  BY <1>1 DEF ContainerIn

\* An item from its beginning to its end.
LEMMA SegItem ==
  ASSUME NEW x, NEW n \in Nat, n = Len(x), NEW p \in 1..n, NEW c \in Closers,
         NEW v \in 1..(n + 1), NEW e \in 1..(n + 1),
         v = Grammar!ItemAt(x, p, c), <<v, "value", e>> \in Segs(x, n)
  PROVE  p < e /\ Smooth(x, p, e) /\ Level(x, p, e, 0)
<1>1. v >= p /\ Still(x, p, v) /\ Flat(x, p, v)  BY ItemHead
<1>2. "value" \in Ended  BY DEF Ended
<1>3. v < e /\ Smooth(x, v, e) /\ Level(x, v, e, 0)  BY <1>2, SegsHave DEF Seg
<1>4. p <= v /\ v <= e /\ p < e  BY <1>1, <1>3
<1>5. Smooth(x, p, e)  BY <1>1, <1>3, <1>4, StillBefore
<1>6. Level(x, p, v, 0)  BY <1>1, <1>4, FlatIs
<1>7. Level(x, p, e, 0)  BY <1>3, <1>4, <1>6, LevelGlue
<1> QED  BY <1>4, <1>5, <1>7

\* The last item and the closing bracket are one.
LEMMA SegLast == ASSUME NEW x, NEW n \in Nat, n = Len(x) PROVE LastIn(x, Segs(x, n))
<1>1. ASSUME NEW p \in 1..n, NEW c \in Closers, NEW v \in 1..(n + 1), NEW e \in 1..(n + 1), NEW q \in 1..n,
             v = Grammar!ItemAt(x, p, c), <<v, "value", e>> \in Segs(x, n),
             q = Grammar!Trim(x, e), Grammar!At(x, q) = c
      PROVE  <<p, c, q + 1>> \in Segs(x, n)
  <2>1. p < e /\ Smooth(x, p, e) /\ Level(x, p, e, 0)  BY <1>1, SegItem
  <2>2. q \in e..(n + 1) /\ Still(x, e, q) /\ Flat(x, e, q)  BY <1>1, BlankThen
  <2>3. x[q] \in Closers  BY <1>1, Inside
  <2>4. PICK r \in 1..(n + 1) : r = q + 1  OBVIOUS
  <2>5. Still(x, q, r)
    <3>1. \A k \in q..(r - 1) : k = q  BY <2>4
    <3>2. x[q] \in Plain /\ ~Run(x[q])  BY <2>3, MarksAre
    <3> QED  BY <3>1, <3>2 DEF Still
  <2>6. p <= e /\ e <= q /\ q <= r /\ e <= r /\ p < r  BY <2>1, <2>2, <2>4
  <2>7. Still(x, e, r)  BY <2>2, <2>5, <2>6, StillOn
  <2>8. Smooth(x, p, r)  BY <2>1, <2>6, <2>7, StillBehind
  <2>9. Level(x, e, q, 0)  BY <2>2, <2>6, FlatIs
  <2>10. Level(x, q, r, 1)  BY <2>3, <2>4, LevelClose
  <2>11. Level(x, e, r, 1)  BY <2>6, <2>9, <2>10, LevelGlue
  <2>12. Level(x, p, r, 1)  BY <2>1, <2>6, <2>11, LevelGlue
  <2>13. x[r - 1] \in Closers  BY <2>3, <2>4
  <2>14. c \in Ended /\ c # "value"  BY Marked DEF Ended
  <2>15. Seg(x, p, c, r)  BY <2>6, <2>8, <2>12, <2>13, <2>14 DEF Seg
  <2>16. <<p, c, r>> \in Segs(x, n)  BY <2>14, <2>15, SegsHave
  <2> QED  BY <2>4, <2>16
<1> QED  BY <1>1 DEF LastIn

\* An item, a comma and the items behind it are one.
LEMMA SegMore == ASSUME NEW x, NEW n \in Nat, n = Len(x) PROVE MoreIn(x, Segs(x, n))
<1>1. ASSUME NEW p \in 1..n, NEW c \in Closers, NEW v \in 1..(n + 1), NEW e \in 1..(n + 1), NEW q \in 1..n,
             NEW r \in 1..(n + 1), NEW s \in 1..(n + 1),
             v = Grammar!ItemAt(x, p, c), <<v, "value", e>> \in Segs(x, n),
             q = Grammar!Trim(x, e), Grammar!At(x, q) = Comma, r = Grammar!Trim(x, q + 1),
             <<r, c, s>> \in Segs(x, n)
      PROVE  <<p, c, s>> \in Segs(x, n)
  <2>1. p < e /\ Smooth(x, p, e) /\ Level(x, p, e, 0)  BY <1>1, SegItem
  <2>2. q \in e..(n + 1) /\ Still(x, e, q) /\ Flat(x, e, q)  BY <1>1, BlankThen
  <2>3. x[q] = Comma  BY <1>1, Inside
  <2>4. r \in (q + 1)..(n + 1) /\ Still(x, q, r) /\ Flat(x, q, r)
    <3>1. x[q] \in Plain /\ ~Run(x[q]) /\ x[q] \notin Openers /\ x[q] \notin Closers  BY <2>3, MarksAre
    <3> QED  BY <1>1, <3>1, MarkThen
  <2>5. c \in Ended /\ c # "value"  BY Marked DEF Ended
  <2>6. r < s /\ Smooth(x, r, s) /\ Level(x, r, s, 1) /\ x[s - 1] \in Closers
    <3>1. Seg(x, r, c, s)  BY <1>1, <2>5, SegsHave
    <3> QED  BY <2>5, <3>1 DEF Seg
  <2>7. p <= e /\ e <= q /\ q <= r /\ e <= r /\ r <= s /\ p < s /\ p <= r  BY <2>1, <2>2, <2>4, <2>6
  <2>8. Still(x, e, r) /\ Flat(x, e, r)  BY <2>2, <2>4, <2>7, StillOn
  <2>9. Smooth(x, e, s)  BY <2>6, <2>7, <2>8, StillBefore
  <2>10. Smooth(x, p, r)  BY <2>1, <2>7, <2>8, StillBehind
  <2>11. Smooth(x, p, s)
    <3>1. r = p \/ ~Run(x[r - 1])
      <4>1. r - 1 \in e..(r - 1)  BY <2>4, <2>7
      <4> QED  BY <2>8, <4>1 DEF Still
    <3>2. p \in Nat /\ r \in Nat /\ s \in Nat /\ p <= r /\ r <= s  BY <2>7
    <3>3. Smooth(x, r, s)  BY <2>6
    <3> QED  BY <2>10, <3>1, <3>2, <3>3, SmoothGlue
  <2>12. Level(x, e, r, 0)  BY <2>7, <2>8, FlatIs
  <2>13. Level(x, e, s, 1)  BY <2>6, <2>7, <2>12, LevelGlue
  <2>14. Level(x, p, s, 1)
    <3>1. e <= s  BY <2>7
    <3> QED  BY <2>1, <2>7, <2>13, <3>1, LevelGlue
  <2>15. Seg(x, p, c, s)  BY <2>5, <2>6, <2>7, <2>11, <2>14 DEF Seg
  <2> QED  BY <2>5, <2>15, SegsHave
<1> QED  BY <1>1 DEF MoreIn

\* What ends is such a stretch.
LEMMA EndsSeg ==
  ASSUME NEW x, NEW n \in Nat, n = Len(x), NEW p \in 1..(n + 1), NEW e, e = ValueE(x, p), e # 0
  PROVE  e \in (p + 1)..(n + 1) /\ Seg(x, p, "value", e)
<1>1. ClosedIn(x, Segs(x, n))  BY SegScalar, SegEmpty, SegContainer, SegLast, SegMore DEF ClosedIn
<1>2. "value" \in Ended  BY DEF Ended
<1>3. e = Grammar!Ends(x)[<<p, "value">>]  BY DEF ValueE, Grammar!ValueEnd
<1>4. <<p, "value", e>> \in Segs(x, n)  BY <1>1, <1>2, <1>3, GrammarInduction
<1>5. e \in (p + 1)..(n + 1)
  <2>1. Sane(e, p, n)  BY ValueIs
  <2> QED  BY <2>1 DEF Sane
<1>6. e \in 1..(n + 1)  BY <1>5
<1> QED  BY <1>2, <1>4, <1>5, <1>6, SegsHave

\* What is kept of the first k of a sequence.
IsKept(f, x, keep) ==
  /\ f[0] = <<>>
  /\ \A k \in 1..Len(x) : f[k] = IF keep[k] THEN Append(f[k - 1], x[k]) ELSE f[k - 1]

KeptUpTo(x, keep) ==
  CHOOSE f : f = [n \in 0..Len(x) |->
                    IF n = 0 THEN <<>> ELSE IF keep[n] THEN Append(f[n - 1], x[n]) ELSE f[n - 1]]

\* What is kept of a sequence, prefix by prefix.
LEMMA KeptIs ==
  ASSUME NEW x, NEW n \in Nat, n = Len(x), NEW keep, NEW f, f = KeptUpTo(x, keep)
  PROVE  IsKept(f, x, keep) /\ Kept(x, keep) = f[n]
<1> DEFINE Up(g, m) == [k \in 0..m |-> IF k = 0 THEN <<>> ELSE IF keep[k] THEN Append(g[k - 1], x[k]) ELSE g[k - 1]]
           Has(m) == \E g : g = Up(g, m)
           T == {m \in Nat : Has(m)}
<1>1. ASSUME NEW m \in Nat, \A i \in Nat : i < m => i \in T PROVE m \in T
  <2>1. CASE m = 0
    <3>1. PICK g : g = [k \in 0..m |-> <<>>]  OBVIOUS
    <3>2. \A k \in 0..m : k = 0  BY <2>1
    <3>3. g = Up(g, m)  BY <3>1, <3>2
    <3> QED  BY <3>3
  <2>2. CASE m > 0
    <3>1. PICK i \in Nat : i + 1 = m  BY <2>2
    <3>2. i \in T
      <4>1. i < m  BY <3>1
      <4> HIDE DEF T
      <4> QED  BY <1>1, <4>1
    <3>3. PICK g : g = Up(g, i)  BY <3>2
    <3>4. PICK h : h = [k \in 0..m |-> IF k = m THEN IF keep[m] THEN Append(g[i], x[m]) ELSE g[i] ELSE g[k]]
      OBVIOUS
    <3>5. \A k \in 0..i : h[k] = g[k]
      <4>1. \A k \in 0..i : k \in 0..m /\ k # m  BY <3>1
      <4> QED  BY <3>4, <4>1
    <3>6. ASSUME NEW k \in 0..m
          PROVE  h[k] = IF k = 0 THEN <<>> ELSE IF keep[k] THEN Append(h[k - 1], x[k]) ELSE h[k - 1]
      <4>1. CASE k = m
        <5>1. k - 1 = i /\ k # 0 /\ i \in 0..i  BY <3>1, <4>1
        <5>2. h[k - 1] = g[i]  BY <3>5, <5>1
        <5>3. h[k] = IF keep[m] THEN Append(g[i], x[m]) ELSE g[i]  BY <3>4, <4>1
        <5> QED  BY <4>1, <5>1, <5>2, <5>3
      <4>2. CASE k # m /\ k # 0
        <5>1. k \in 0..i /\ k - 1 \in 0..i  BY <3>1, <4>2
        <5>2. h[k] = g[k] /\ h[k - 1] = g[k - 1]  BY <3>5, <5>1
        <5>3. g[k] = IF keep[k] THEN Append(g[k - 1], x[k]) ELSE g[k - 1]  BY <3>3, <4>2, <5>1
        <5> QED  BY <4>2, <5>2, <5>3
      <4>3. CASE k = 0
        <5>1. k \in 0..i  BY <4>3
        <5>2. h[k] = g[k]  BY <3>5, <5>1
        <5>3. g[k] = <<>>  BY <3>3, <4>3, <5>1
        <5> QED  BY <4>3, <5>2, <5>3
      <4> QED  BY <4>1, <4>2, <4>3
    <3>7. h = [k \in 0..m |-> h[k]]  BY <3>4
    <3>8. h = Up(h, m)  BY <3>6, <3>7
    <3> QED  BY <3>8
  <2> QED  BY <2>1, <2>2
<1>2. T = Nat
  <2>1. T \subseteq Nat /\ \A j \in Nat : (\A i \in Nat : i < j => i \in T) => j \in T  BY <1>1
  <2> HIDE DEF T
  <2> QED  BY <2>1, Induction
<1>3. n \in T
  <2> HIDE DEF T
  <2> QED  BY <1>2
<1>4. \E g : g = Up(g, n)  BY <1>3
<1>5. f = Up(f, n)  BY <1>4 DEF KeptUpTo
<1>6. f[0] = <<>>  BY <1>5
<1>7. ASSUME NEW k \in 1..n PROVE f[k] = IF keep[k] THEN Append(f[k - 1], x[k]) ELSE f[k - 1]
  <2>1. k \in 0..n /\ k # 0  OBVIOUS
  <2> QED  BY <1>5, <2>1
<1>8. Kept(x, keep) = f[n]  BY DEF Kept, KeptUpTo
<1> QED  BY <1>6, <1>7, <1>8 DEF IsKept

\* A sequence of the places up to k that are kept, in order.
Lists(t, k, keep) ==
  /\ t \in Seq(1..k)
  /\ \A i \in 1..Len(t) : keep[t[i]] = TRUE
  /\ \A i, j \in 1..Len(t) : i < j => t[i] < t[j]
  /\ \A p \in 1..k : keep[p] = TRUE => \E i \in 1..Len(t) : t[i] = p

\* One place more, if it is kept.
Longer(u, t, l, keep) == (keep[l] = TRUE /\ u = Append(t, l)) \/ (keep[l] = FALSE /\ u = t)

\* A list of the places that are kept grows by the next one.
LEMMA ListsOne ==
  ASSUME NEW k \in Nat, NEW l, l = k + 1, NEW keep, NEW t, Lists(t, k, keep), NEW u, Longer(u, t, l, keep)
  PROVE  Lists(u, l, keep)
<1>1. t \in Seq(1..l) /\ t \in Seq(1..k) /\ l \in 1..l
  <2>1. 1..k \subseteq 1..l /\ l \in 1..l  OBVIOUS
  <2> QED  BY <2>1, SeqMonotonic DEF Lists
<1>2. PICK m \in Nat : m = Len(t)  BY <1>1
<1>3. ASSUME NEW i \in 1..m PROVE t[i] \in 1..k /\ keep[t[i]] = TRUE  BY <1>1, <1>2 DEF Lists
<1>4. CASE keep[l] = TRUE
  <2>1. u = Append(t, l)  BY <1>4 DEF Longer
  <2>2. u \in Seq(1..l) /\ Len(u) = m + 1 /\ u[m + 1] = l /\ \A i \in 1..m : u[i] = t[i]
    <3>1. PICK R : R = 1..l  OBVIOUS
    <3>2. t \in Seq(R) /\ l \in R  BY <1>1, <3>1
    <3>3. u \in Seq(R)  BY <2>1, <3>2
    <3>4. Len(u) = m + 1 /\ u[m + 1] = l /\ \A i \in 1..m : u[i] = t[i]  BY <1>2, <2>1, <3>2
    <3> QED  BY <3>1, <3>3, <3>4
  <2>3. ASSUME NEW i \in 1..(m + 1) PROVE keep[u[i]] = TRUE
    <3>1. i = m + 1 \/ i \in 1..m  OBVIOUS
    <3> QED  BY <1>3, <1>4, <2>2, <3>1
  <2>4. ASSUME NEW i \in 1..(m + 1), NEW j \in 1..(m + 1), i < j PROVE u[i] < u[j]
    <3>1. i \in 1..m /\ (j = m + 1 \/ j \in 1..m)  BY <2>4
    <3>2. u[i] = t[i] /\ t[i] < l
      <4>1. t[i] \in 1..k  BY <1>3, <3>1
      <4> QED  BY <2>2, <3>1, <4>1
    <3>3. j \in 1..m => t[i] < t[j]  BY <1>2, <2>4, <3>1 DEF Lists
    <3> QED  BY <2>2, <3>1, <3>2, <3>3
  <2>5. ASSUME NEW p \in 1..l, keep[p] = TRUE PROVE \E i \in 1..(m + 1) : u[i] = p
    <3>1. CASE p = l  BY <2>2, <3>1
    <3>2. CASE p \in 1..k
      <4>1. PICK i \in 1..m : t[i] = p  BY <1>2, <2>5, <3>2 DEF Lists
      <4>2. i \in 1..(m + 1) /\ u[i] = p  BY <2>2, <4>1
      <4> QED  BY <4>2
    <3>3. p = l \/ p \in 1..k  OBVIOUS
    <3> QED  BY <3>1, <3>2, <3>3
  <2> QED  BY <2>2, <2>3, <2>4, <2>5 DEF Lists
<1>5. CASE keep[l] = FALSE
  <2>1. u = t  BY <1>5 DEF Longer
  <2>2. ASSUME NEW p \in 1..l, keep[p] = TRUE PROVE p \in 1..k  BY <1>5, <2>2
  <2> QED  BY <1>1, <2>1, <2>2 DEF Lists
<1> QED  BY <1>4, <1>5 DEF Longer

\* The tape lists the entries.
LEMMA EntriesAre ==
  ASSUME NEW x, NEW n \in Nat, n = Len(x), NEW minified \in BOOLEAN, NEW keep,
         keep = [p \in 1..n |-> Entry(x, p, minified)]
  PROVE  Lists(Entries(x, minified), n, keep)
<1>1. PICK ps : ps = [p \in 1..n |-> p]  OBVIOUS
<1>2. Len(ps) = n /\ \A p \in 1..n : ps[p] = p  BY <1>1
<1>3. PICK f : f = KeptUpTo(ps, keep)  OBVIOUS
<1>4. IsKept(f, ps, keep) /\ Kept(ps, keep) = f[n]  BY <1>2, <1>3, KeptIs
<1>5. Entries(x, minified) = f[n]  BY <1>1, <1>4 DEF Entries
<1>6. \A p \in 1..n : keep[p] \in BOOLEAN  BY DEF Entry, Runs
<1> DEFINE T == {k \in Nat : k <= n => Lists(f[k], k, keep)}
<1>7. ASSUME NEW k \in Nat, \A i \in Nat : i < k => i \in T PROVE k \in T
  <2>1. CASE k = 0
    <3>1. f[k] = <<>>  BY <1>4, <2>1 DEF IsKept
    <3>2. Lists(<<>>, k, keep)  BY <2>1 DEF Lists
    <3> QED  BY <3>1, <3>2
  <2>2. CASE k > 0 /\ k <= n
    <3>1. PICK i \in Nat : i + 1 = k  BY <2>2
    <3>2. i \in T
      <4>1. i < k  BY <3>1
      <4> HIDE DEF T
      <4> QED  BY <1>7, <4>1
    <3>3. Lists(f[i], i, keep)  BY <2>2, <3>1, <3>2
    <3>4. k \in 1..n /\ k - 1 = i  BY <2>2, <3>1
    <3>5. f[k] = IF keep[k] THEN Append(f[i], k) ELSE f[i]  BY <1>2, <1>4, <3>4 DEF IsKept
    <3>6. keep[k] \in BOOLEAN  BY <1>6, <3>4
    <3>7. PICK t, u : t = f[i] /\ u = f[k]  OBVIOUS
    <3>8. Longer(u, t, k, keep)  BY <3>5, <3>6, <3>7 DEF Longer
    <3>9. Lists(t, i, keep) /\ k = i + 1  BY <3>1, <3>3, <3>7
    <3>10. Lists(u, k, keep)  BY <3>8, <3>9, ListsOne
    <3>11. Lists(f[k], k, keep)  BY <3>7, <3>10
    <3> QED  BY <3>11
  <2>3. CASE k > n  BY <2>3
  <2> QED  BY <2>1, <2>2, <2>3
<1>8. T = Nat
  <2>1. T \subseteq Nat /\ \A j \in Nat : (\A i \in Nat : i < j => i \in T) => j \in T  BY <1>7
  <2> HIDE DEF T
  <2> QED  BY <2>1, Induction
<1>9. n \in T
  <2> HIDE DEF T
  <2> QED  BY <1>8
<1>10. Lists(f[n], n, keep)  BY <1>9
<1> QED  BY <1>5, <1>10

\* Where the entries are.
IsTape(t, x, minified) ==
  /\ t \in Seq(1..Len(x))
  /\ \A i \in 1..Len(t) : Entry(x, t[i], minified)
  /\ \A i, j \in 1..Len(t) : i < j => t[i] < t[j]
  /\ \A p \in 1..Len(x) : Entry(x, p, minified) => \E i \in 1..Len(t) : t[i] = p

\* The tape lists the entries of the text, in order.
LEMMA TapeIs ==
  ASSUME NEW x, NEW n \in Nat, n = Len(x), NEW minified \in BOOLEAN
  PROVE  IsTape(Entries(x, minified), x, minified)
<1>1. PICK keep : keep = [p \in 1..n |-> Entry(x, p, minified)]  OBVIOUS
<1>2. PICK t : t = Entries(x, minified)  OBVIOUS
<1>3. Lists(t, n, keep)  BY <1>1, <1>2, EntriesAre
<1>4. t \in Seq(1..n) /\ \A i \in 1..Len(t) : t[i] \in 1..n  BY <1>3 DEF Lists
<1>5. \A p \in 1..n : keep[p] = TRUE <=> Entry(x, p, minified)  BY <1>1 DEF Entry, Runs
<1>6. ASSUME NEW i \in 1..Len(t) PROVE Entry(x, t[i], minified)  BY <1>3, <1>4, <1>5 DEF Lists
<1>7. ASSUME NEW p \in 1..n, Entry(x, p, minified) PROVE \E i \in 1..Len(t) : t[i] = p
  BY <1>3, <1>5, <1>7 DEF Lists
<1>8. \A i, j \in 1..Len(t) : i < j => t[i] < t[j]  BY <1>3 DEF Lists
<1> QED  BY <1>2, <1>4, <1>6, <1>7, <1>8 DEF IsTape

\* Between two entries there is none, and none before the first or behind the last.
LEMMA Between ==
  ASSUME NEW x, NEW n \in Nat, n = Len(x), NEW minified, NEW t, IsTape(t, x, minified), NEW p \in 1..n,
         NEW i \in 0..Len(t), i > 0 => t[i] < p, i < Len(t) => p < t[i + 1]
  PROVE  ~Entry(x, p, minified)
<1>1. PICK m \in Nat : m = Len(t) /\ \A j \in 1..m : t[j] \in 1..n
  <2>1. t \in Seq(1..n)  BY DEF IsTape
  <2>2. Len(t) \in Nat /\ \A j \in 1..Len(t) : t[j] \in 1..n  BY <2>1
  <2> QED  BY <2>2
<1>2. SUFFICES ASSUME Entry(x, p, minified) PROVE FALSE  OBVIOUS
<1>3. PICK j \in 1..m : t[j] = p  BY <1>1, <1>2 DEF IsTape
<1>4. \A a, b \in 1..m : a < b => t[a] < t[b]  BY <1>1 DEF IsTape
<1>5. CASE j <= i
  <2>1. i \in 1..m /\ i > 0  BY <1>1, <1>5
  <2>2. j = i \/ t[j] < t[i]  BY <1>4, <1>5, <2>1
  <2>3. t[i] \in 1..n  BY <1>1, <2>1
  <2> QED  BY <1>3, <2>1, <2>2, <2>3
<1>6. CASE j > i
  <2>1. i + 1 \in 1..m /\ i < m  BY <1>1, <1>6
  <2>2. j = i + 1 \/ t[i + 1] < t[j]  BY <1>4, <1>6, <2>1
  <2>3. t[i + 1] \in 1..n  BY <1>1, <2>1
  <2> QED  BY <1>1, <1>3, <2>1, <2>2, <2>3
<1> QED  BY <1>1, <1>5, <1>6

(* A document without its whitespace, prefix by prefix.                        *)
IsNoWs(f, x) ==
  /\ f[0] = <<>>
  /\ \A k \in 1..Len(x) : (x[k] = "ws" => f[k] = f[k - 1]) /\ (x[k] # "ws" => f[k] = Append(f[k - 1], x[k]))

\* A document without its whitespace, prefix by prefix, exists.
LEMMA NoWsIs ==
  ASSUME NEW x, NEW n \in Nat, n = Len(x)
  PROVE  \E f : IsNoWs(f, x) /\ NoWs(x) = f[n]
<1>1. PICK keep : keep = [p \in 1..n |-> x[p] # "ws"]  OBVIOUS
<1>2. PICK f : f = KeptUpTo(x, keep)  OBVIOUS
<1>3. IsKept(f, x, keep) /\ Kept(x, keep) = f[n]  BY <1>2, KeptIs
<1>4. NoWs(x) = f[n]  BY <1>1, <1>3 DEF NoWs
<1>5. ASSUME NEW k \in 1..n, x[k] = "ws" PROVE f[k] = f[k - 1]
  <2>1. keep[k] = FALSE  BY <1>1, <1>5
  <2> QED  BY <1>3, <2>1 DEF IsKept
<1>6. ASSUME NEW k \in 1..n, x[k] # "ws" PROVE f[k] = Append(f[k - 1], x[k])
  <2>1. keep[k] = TRUE  BY <1>1, <1>6
  <2> QED  BY <1>3, <2>1 DEF IsKept
<1> QED  BY <1>3, <1>4, <1>5, <1>6 DEF IsNoWs, IsKept

\* Whitespace changes nothing.
LEMMA NoWsBlank ==
  ASSUME NEW x, NEW f, IsNoWs(f, x), NEW n \in Nat, n = Len(x), NEW k \in 0..n, NEW l \in k..n,
         \A j \in (k + 1)..l : x[j] = "ws"
  PROVE  f[l] = f[k]
<1> DEFINE T == {j \in k..l : f[j] # f[k]}
<1>1. SUFFICES ASSUME T # {} PROVE FALSE
  <2>1. l \in k..l  OBVIOUS
  <2> QED  BY <2>1
<1>2. PICK j \in T : \A i \in T : j <= i
  <2>1. T \subseteq Nat  OBVIOUS
  <2> HIDE DEF T
  <2> QED  BY <1>1, <2>1, LeastNat
<1>3. j \in k..l /\ f[j] # f[k] /\ j # k  BY <1>2
<1>4. PICK i \in k..l : i + 1 = j  BY <1>3
<1>5. i \notin T  BY <1>2, <1>4
<1>6. f[i] = f[k]  BY <1>5
<1>7. j \in 1..n /\ x[j] = "ws" /\ j - 1 = i  BY <1>3, <1>4
<1>8. f[j] = f[i]  BY <1>7 DEF IsNoWs
<1> QED  BY <1>3, <1>6, <1>8

\* What is left are the lexemes, and none of them is whitespace.
LEMMA NoWsSeq ==
  ASSUME NEW S, NEW x \in Seq(S), NEW f, IsNoWs(f, x), NEW n \in Nat, n = Len(x)
  PROVE  \A k \in 0..n : f[k] \in Seq(S \ {"ws"})
<1> DEFINE R == S \ {"ws"}
           T == {j \in 0..n : f[j] \notin Seq(R)}
<1>1. SUFFICES ASSUME T # {} PROVE FALSE  OBVIOUS
<1>2. PICK j \in T : \A i \in T : j <= i
  <2>1. T \subseteq Nat  OBVIOUS
  <2> HIDE DEF T
  <2> QED  BY <1>1, <2>1, LeastNat
<1>3. j \in 0..n /\ f[j] \notin Seq(R)  BY <1>2
<1>4. j # 0
  <2>1. f[0] \in Seq(R)  BY DEF IsNoWs
  <2> QED  BY <1>3, <2>1
<1>5. PICK i \in 0..n : i + 1 = j  BY <1>3, <1>4
<1>6. i \notin T  BY <1>2, <1>5
<1>7. f[i] \in Seq(R)  BY <1>6
<1>8. j \in 1..n /\ j - 1 = i  BY <1>3, <1>5
<1>9. x[j] \in S  BY <1>8
<1>10. CASE x[j] = "ws"
  <2>1. f[j] = f[i]  BY <1>8, <1>10 DEF IsNoWs
  <2> QED  BY <1>3, <1>7, <2>1
<1>11. CASE x[j] # "ws"
  <2>1. f[j] = Append(f[i], x[j])  BY <1>8, <1>11 DEF IsNoWs
  <2>2. x[j] \in R  BY <1>9, <1>11
  <2> HIDE DEF R
  <2>3. f[j] \in Seq(R)  BY <1>7, <2>1, <2>2, AppendProperties
  <2> QED  BY <1>3, <2>3
<1> QED  BY <1>10, <1>11

\* There is only one such function.
LEMMA NoWsOnly ==
  ASSUME NEW x, NEW n \in Nat, n = Len(x), NEW f, IsNoWs(f, x), NEW g, IsNoWs(g, x) PROVE f[n] = g[n]
<1> DEFINE T == {k \in 0..n : f[k] # g[k]}
<1>1. SUFFICES ASSUME T # {} PROVE FALSE
  <2>1. n \in 0..n  OBVIOUS
  <2> QED  BY <2>1
<1>2. PICK j \in T : \A i \in T : j <= i
  <2>1. T \subseteq Nat  OBVIOUS
  <2> HIDE DEF T
  <2> QED  BY <1>1, <2>1, LeastNat
<1>3. j \in 0..n /\ f[j] # g[j]  BY <1>2
<1>4. j # 0  BY <1>3 DEF IsNoWs
<1>5. PICK i \in 0..n : i + 1 = j  BY <1>3, <1>4
<1>6. i \notin T  BY <1>2, <1>5
<1>7. f[i] = g[i]  BY <1>6
<1>8. j \in 1..n /\ j - 1 = i  BY <1>3, <1>5
<1>9. CASE x[j] = "ws"
  <2>1. f[j] = f[i] /\ g[j] = g[i]  BY <1>8, <1>9 DEF IsNoWs
  <2> QED  BY <1>3, <1>7, <2>1
<1>10. CASE x[j] # "ws"
  <2>1. f[j] = Append(f[i], x[j]) /\ g[j] = Append(g[i], x[j])  BY <1>8, <1>10 DEF IsNoWs
  <2> QED  BY <1>3, <1>7, <2>1
<1> QED  BY <1>9, <1>10

\* The first of them.
LEMMA NoWsFirst ==
  ASSUME NEW S, NEW x \in Seq(S), NEW n \in Nat, n = Len(x), NEW s \in 1..n, x[s] # "ws",
         \A k \in 1..(s - 1) : x[k] = "ws"
  PROVE  NoWs(x)[1] = x[s]
<1>1. PICK f : IsNoWs(f, x) /\ NoWs(x) = f[n]  BY NoWsIs
<1>2. \A k \in 0..n : f[k] \in Seq(S \ {"ws"})  BY <1>1, NoWsSeq
<1>3. PICK b \in 0..n : b + 1 = s  OBVIOUS
<1>4. f[b] = <<>>
  <2>1. b \in 0..n /\ \A j \in (0 + 1)..b : x[j] = "ws"  BY <1>3
  <2>2. f[b] = f[0]  BY <1>1, <2>1, NoWsBlank
  <2> QED  BY <1>1, <2>2 DEF IsNoWs
<1> DEFINE T == {j \in s..n : ~(Len(f[j]) > 0 /\ f[j][1] = x[s])}
<1>5. SUFFICES ASSUME T # {} PROVE FALSE
  <2>1. n \in s..n  OBVIOUS
  <2> QED  BY <1>1, <2>1
<1>6. PICK j \in T : \A i \in T : j <= i
  <2>1. T \subseteq Nat  OBVIOUS
  <2> HIDE DEF T
  <2> QED  BY <1>5, <2>1, LeastNat
<1>7. j \in s..n /\ ~(Len(f[j]) > 0 /\ f[j][1] = x[s])  BY <1>6
<1>8. j # s
  <2>1. f[s] = Append(f[b], x[s])
    <3>1. s - 1 = b  BY <1>3
    <3> QED  BY <1>1, <3>1 DEF IsNoWs
  <2>2. f[s] = <<x[s]>>  BY <1>4, <2>1
  <2> QED  BY <1>7, <2>2
<1>9. PICK i \in s..n : i + 1 = j
  <2>1. j - 1 \in s..n /\ (j - 1) + 1 = j
    <3>1. j \in s..n  BY <1>7
    <3> QED  BY <1>8, <3>1
  <2> QED  BY <2>1
<1>10. i \notin T  BY <1>6, <1>9
<1>11. Len(f[i]) > 0 /\ f[i][1] = x[s]  BY <1>10
<1>12. j \in 1..n /\ j - 1 = i /\ i \in 0..n  BY <1>7, <1>9
<1>13. PICK g : g = f[i]  OBVIOUS
<1>14. g \in Seq(S \ {"ws"}) /\ Len(g) > 0 /\ g[1] = x[s]  BY <1>2, <1>11, <1>12, <1>13
<1>15. CASE x[j] = "ws"
  <2>1. f[j] = g  BY <1>1, <1>12, <1>13, <1>15 DEF IsNoWs
  <2> QED  BY <1>7, <1>14, <2>1
<1>16. CASE x[j] # "ws"
  <2>1. f[j] = Append(g, x[j])  BY <1>1, <1>12, <1>13, <1>16 DEF IsNoWs
  <2>2. Len(Append(g, x[j])) > 0 /\ Append(g, x[j])[1] = g[1]
    <3>1. Len(g) \in Nat /\ 1 \in 1..Len(g)  BY <1>14
    <3> QED  BY <1>14, <3>1
  <2> QED  BY <1>7, <1>14, <2>1, <2>2
<1> QED  BY <1>15, <1>16

\* A lexeme more.
LEMMA NoWsAppend ==
  ASSUME NEW S, NEW x \in Seq(S), NEW c, NEW y, y = Append(x, c)
  PROVE  /\ c = "ws" => NoWs(y) = NoWs(x)
         /\ c # "ws" => NoWs(y) = Append(NoWs(x), c)
<1>1. PICK n \in Nat, m \in Nat : n = Len(x) /\ m = Len(y) /\ m = n + 1  OBVIOUS
<1>2. y[m] = c /\ \A k \in 1..n : y[k] = x[k]  BY <1>1
<1>3. PICK f : IsNoWs(f, x) /\ NoWs(x) = f[n]  BY <1>1, NoWsIs
<1>4. PICK g : IsNoWs(g, y) /\ NoWs(y) = g[m]  BY <1>1, NoWsIs
<1> DEFINE T == {k \in 0..n : f[k] # g[k]}
<1>5. f[n] = g[n]
  <2>1. SUFFICES ASSUME T # {} PROVE FALSE
    <3>1. n \in 0..n  OBVIOUS
    <3> QED  BY <3>1
  <2>2. PICK j \in T : \A i \in T : j <= i
    <3>1. T \subseteq Nat  OBVIOUS
    <3> HIDE DEF T
    <3> QED  BY <2>1, <3>1, LeastNat
  <2>3. j \in 0..n /\ f[j] # g[j]  BY <2>2
  <2>4. j # 0  BY <1>3, <1>4, <2>3 DEF IsNoWs
  <2>5. PICK i \in 0..n : i + 1 = j  BY <2>3, <2>4
  <2>6. i \notin T  BY <2>2, <2>5
  <2>7. f[i] = g[i]  BY <2>6
  <2>8. j \in 1..n /\ j \in 1..m /\ j - 1 = i  BY <1>1, <2>3, <2>5
  <2>9. x[j] = y[j]  BY <1>2, <2>8
  <2>10. f[j] = g[j]
    <3>1. CASE x[j] = "ws"
      <4>1. f[j] = f[i]  BY <1>1, <1>3, <2>8, <3>1 DEF IsNoWs
      <4>2. g[j] = g[i]  BY <1>1, <1>4, <2>8, <2>9, <3>1 DEF IsNoWs
      <4> QED  BY <2>7, <4>1, <4>2
    <3>2. CASE x[j] # "ws"
      <4>1. f[j] = Append(f[i], x[j])  BY <1>1, <1>3, <2>8, <3>2 DEF IsNoWs
      <4>2. g[j] = Append(g[i], x[j])  BY <1>1, <1>4, <2>8, <2>9, <3>2 DEF IsNoWs
      <4> QED  BY <2>7, <4>1, <4>2
    <3> QED  BY <3>1, <3>2
  <2> QED  BY <2>3, <2>10
<1>6. m \in 1..m /\ m - 1 = n  BY <1>1
<1>7. c = "ws" => g[m] = g[n]  BY <1>1, <1>2, <1>4, <1>6 DEF IsNoWs
<1>8. c # "ws" => g[m] = Append(g[n], c)  BY <1>1, <1>2, <1>4, <1>6 DEF IsNoWs
<1> QED  BY <1>3, <1>4, <1>5, <1>7, <1>8

\* Of nothing, nothing remains.
LEMMA NoWsNone == NoWs(<<>>) = <<>>
<1>1. PICK n \in Nat : n = 0 /\ n = Len(<<>>)  OBVIOUS
<1>2. PICK f : IsNoWs(f, <<>>) /\ NoWs(<<>>) = f[n]  BY <1>1, NoWsIs
<1> QED  BY <1>1, <1>2 DEF IsNoWs

\* What a well-formed document is made of: one value, behind and in front of it
\* whitespace at most.
LEMMA WellFormedIs ==
  ASSUME NEW x, NEW n \in Nat, n = Len(x), Grammar!WellFormed(x)
  PROVE  \E s \in 1..n, e \in 2..(n + 1) :
           /\ s = Grammar!Start(x) /\ s < e /\ e = ValueE(x, s)
           /\ Blank(x, 1, s) /\ Blank(x, e, n + 1)
           /\ x[s] \in Openers \cup Scalars
           /\ x[s] \in Openers => x[e - 1] \in Closers
           /\ Smooth(x, 1, n + 1) /\ Level(x, 1, n + 1, 0)
<1>1. PICK s : s = Grammar!Trim(x, 1)  OBVIOUS
<1>2. s \in 1..(n + 1) /\ Still(x, 1, s) /\ Flat(x, 1, s) /\ Blank(x, 1, s)
  <2>1. 1 \in 1..(n + 1)  OBVIOUS
  <2>2. s \in 1..(n + 1) /\ Still(x, 1, s) /\ Flat(x, 1, s)  BY <1>1, <2>1, BlankThen
  <2>3. \A k \in 1..(s - 1) : x[k] = "ws"  BY <1>1, <2>1, TrimBlank
  <2> QED  BY <2>2, <2>3 DEF Blank
<1>3. PICK e : e = ValueE(x, s)  OBVIOUS
<1>4. e # 0 /\ Grammar!Trim(x, e) = n + 1  BY <1>1, <1>3 DEF Grammar!WellFormed, Grammar!Start, ValueE
<1>5. e \in (s + 1)..(n + 1) /\ Seg(x, s, "value", e)  BY <1>2, <1>3, <1>4, EndsSeg
<1>6. s \in 1..n /\ e \in 1..(n + 1) /\ e \in 2..(n + 1) /\ s < e
  <2>1. s \in 1..(n + 1) /\ e \in (s + 1)..(n + 1)  BY <1>2, <1>5
  <2> QED  BY <2>1
<1>7. PICK q : q = Grammar!Trim(x, e)  OBVIOUS
<1>8. q = n + 1  BY <1>4, <1>7
<1>9. Still(x, e, n + 1) /\ Flat(x, e, n + 1) /\ Blank(x, e, n + 1)
  <2>1. Still(x, e, q) /\ Flat(x, e, q)  BY <1>6, <1>7, BlankThen
  <2>2. \A k \in e..(q - 1) : x[k] = "ws"  BY <1>6, <1>7, TrimBlank
  <2> QED  BY <1>8, <2>1, <2>2 DEF Blank
<1>10. Smooth(x, s, e) /\ Level(x, s, e, 0) /\ (x[s] \in Openers => x[e - 1] \in Closers)
  BY <1>5 DEF Seg
<1>11. Smooth(x, 1, n + 1)
  <2>1. Smooth(x, 1, e)  BY <1>2, <1>6, <1>10, StillBefore
  <2> QED  BY <1>6, <1>9, <2>1, StillBehind
<1>12. Level(x, 1, n + 1, 0)
  <2>1. Level(x, 1, s, 0)  BY <1>2, <1>6, FlatIs
  <2>2. Level(x, e, n + 1, 0)  BY <1>6, <1>9, FlatIs
  <2>3. Level(x, 1, e, 0)  BY <1>6, <1>10, <2>1, LevelGlue
  <2> QED  BY <1>6, <2>2, <2>3, LevelGlue
<1>13. x[s] \in Openers \cup Scalars
  <2>1. PICK a, q2, c : a = Grammar!At(x, s) /\ q2 = Grammar!Trim(x, s + 1) /\ c = Grammar!Closing(a)  OBVIOUS
  <2>2. a \notin Openers \cup Scalars => ValueE(x, s) = 0  BY <1>2, <2>1, ValueIs
  <2>3. a = x[s]  BY <1>6, <2>1, Inside
  <2> QED  BY <1>3, <1>4, <2>2, <2>3
<1> QED  BY <1>1, <1>3, <1>2, <1>6, <1>9, <1>10, <1>11, <1>12, <1>13 DEF Grammar!Start

(* What is written.                                                            *)
Lexeme    == V!Lexemes \cup {"cut"}
Spaced(x) == \A p \in 1..(Len(x) - 1) : x[p] # "ws" \/ x[p + 1] # "ws"
OutOk(x)  == x \in Seq(Lexeme) /\ Spaced(x)

\* A text could have been written.
LEMMA TextIsOut == ASSUME NEW x, IsText(x) PROVE OutOk(x)
<1>1. x \in Seq(V!Lexemes) /\ Spaced(x)  BY DEF IsText, Spaced
<1>2. x \in Seq(Lexeme)
  <2>1. PICK S : S = V!Lexemes  OBVIOUS
  <2>2. PICK T : T = Lexeme  OBVIOUS
  <2>3. S \subseteq T  BY <2>1, <2>2 DEF Lexeme
  <2>4. x \in Seq(T)  BY <1>1, <2>1, <2>3
  <2> QED  BY <2>2, <2>4
<1> QED  BY <1>1, <1>2 DEF OutOk

\* What was written whole is a text.
LEMMA OutIsText == ASSUME NEW x, OutOk(x), "cut" \notin ToSet(x) PROVE IsText(x)
<1>1. PICK S : S = V!Lexemes  OBVIOUS
<1>2. PICK n \in Nat : n = Len(x)  BY DEF OutOk
<1>3. \A i \in 1..n : x[i] \in S
  <2> SUFFICES ASSUME NEW i \in 1..n PROVE x[i] \in S  OBVIOUS
  <2>1. x[i] \in Lexeme  BY <1>2 DEF OutOk
  <2>2. x[i] # "cut"  BY <1>2 DEF ToSet
  <2> QED  BY <1>1, <2>1, <2>2 DEF Lexeme
<1>4. x \in Seq(S)
  <2>1. PICK T : T = Lexeme /\ x \in Seq(T)  BY DEF OutOk
  <2> QED  BY <1>2, <1>3, <2>1
<1> QED  BY <1>1, <1>4 DEF OutOk, IsText, Spaced

\* One behind the other, whitespace not twice.
LEMMA Glued ==
  ASSUME NEW x, OutOk(x), NEW y, OutOk(y), x = <<>> \/ y = <<>> \/ x[Len(x)] # "ws" \/ y[1] # "ws"
  PROVE  OutOk(x \o y)
<1>1. PICK T : T = Lexeme /\ x \in Seq(T) /\ y \in Seq(T)  BY DEF OutOk
<1>2. PICK n \in Nat, m \in Nat : n = Len(x) /\ m = Len(y)  BY <1>1
<1>3. PICK z : z = x \o y  OBVIOUS
<1>4. /\ z \in Seq(T) /\ Len(z) = n + m /\ \A i \in 1..n : z[i] = x[i]
      /\ \A i \in (n + 1)..(n + m) : z[i] = y[i - n]
  BY <1>1, <1>2, <1>3
<1>5. ASSUME NEW p \in 1..(n + m - 1) PROVE z[p] # "ws" \/ z[p + 1] # "ws"
  <2>1. CASE p < n
    <3>1. p \in 1..(n - 1) /\ p \in 1..n /\ p + 1 \in 1..n  BY <2>1
    <3>2. x[p] # "ws" \/ x[p + 1] # "ws"  BY <1>2, <3>1 DEF OutOk, Spaced
    <3> QED  BY <1>4, <3>1, <3>2
  <2>2. CASE p = n
    <3>1. p \in 1..n /\ p + 1 \in (n + 1)..(n + m) /\ n # 0 /\ m # 0  BY <2>2
    <3>2. z[p] = x[n] /\ z[p + 1] = y[1]
      <4>1. z[p] = x[p]  BY <1>4, <3>1
      <4>2. z[p + 1] = y[(p + 1) - n]  BY <1>4, <3>1
      <4>3. (p + 1) - n = 1  BY <2>2
      <4> QED  BY <2>2, <4>1, <4>2, <4>3
    <3>3. x # <<>> /\ y # <<>>  BY <1>2, <3>1
    <3> QED  BY <1>2, <3>2, <3>3
  <2>3. CASE p > n
    <3>1. p \in (n + 1)..(n + m) /\ p + 1 \in (n + 1)..(n + m)  BY <2>3
    <3>2. PICK q \in 1..(m - 1) : q = p - n /\ q + 1 = (p + 1) - n  BY <2>3
    <3>3. y[q] # "ws" \/ y[q + 1] # "ws"  BY <1>2, <3>2 DEF OutOk, Spaced
    <3> QED  BY <1>4, <3>1, <3>2, <3>3
  <2> QED  BY <2>1, <2>2, <2>3
<1> QED  BY <1>1, <1>3, <1>4, <1>5 DEF OutOk, Spaced

\* A part of it.
LEMMA PartOk ==
  ASSUME NEW x, OutOk(x), NEW n \in Nat, n = Len(x), NEW a \in 1..(n + 1), NEW b \in 0..n
  PROVE  OutOk(SubSeq(x, a, b))
<1>1. PICK T : T = Lexeme /\ x \in Seq(T)  BY DEF OutOk
<1>2. PICK z : z = SubSeq(x, a, b)  OBVIOUS
<1>3. z \in Seq(T) /\ Len(z) = IF a <= b THEN b - a + 1 ELSE 0
  BY <1>1, <1>2
<1>4. \A i \in 1..Len(z) : z[i] = x[a + i - 1]  BY <1>1, <1>2, <1>3
<1>5. ASSUME NEW p \in 1..(Len(z) - 1) PROVE z[p] # "ws" \/ z[p + 1] # "ws"
  <2>1. a <= b /\ Len(z) = b - a + 1  BY <1>3, <1>5
  <2>2. PICK q \in 1..(n - 1) : q = a + p - 1 /\ q + 1 = a + (p + 1) - 1  BY <1>5, <2>1
  <2>3. x[q] # "ws" \/ x[q + 1] # "ws"  BY <2>2 DEF OutOk, Spaced
  <2>4. p \in 1..Len(z) /\ p + 1 \in 1..Len(z)  BY <1>5, <2>1
  <2>5. z[p] = x[q] /\ z[p + 1] = x[q + 1]  BY <1>4, <2>2, <2>4
  <2> QED  BY <2>3, <2>5
<1> QED  BY <1>1, <1>2, <1>3, <1>5 DEF OutOk, Spaced

\* What is written is joined to what there is.
LEMMA JoinOk ==
  ASSUME NEW x, OutOk(x), NEW y, OutOk(y) PROVE OutOk(Join(x, y))
<1>1. PICK n \in Nat : n = Len(y)  BY DEF OutOk
<1>2. CASE x # <<>> /\ y # <<>> /\ Last(x) = "ws" /\ Head(y) = "ws"
  <2>1. n # 0 /\ Tail(y) = SubSeq(y, 2, n)  BY <1>1, <1>2 DEF OutOk
  <2>2. 2 \in 1..(n + 1) /\ n \in 0..n  BY <2>1
  <2>3. OutOk(Tail(y))  BY <1>1, <2>1, <2>2, PartOk
  <2>4. Tail(y) = <<>> \/ Tail(y)[1] # "ws"
    <3>1. CASE n = 1
      <4>1. PICK T : T = Lexeme /\ y \in Seq(T)  BY DEF OutOk
      <4>2. SubSeq(y, 2, 1) = <<>>  BY <4>1
      <4> QED  BY <2>1, <3>1, <4>2
    <3>2. CASE n > 1
      <4>1. Tail(y)[1] = y[2] /\ y[1] = "ws"  BY <1>1, <1>2, <3>2 DEF OutOk
      <4>2. 1 \in 1..(n - 1) /\ 1 + 1 = 2  BY <3>2
      <4>3. y[1] # "ws" \/ y[1 + 1] # "ws"  BY <1>1, <4>2 DEF OutOk, Spaced
      <4> QED  BY <4>1, <4>2, <4>3
    <3> QED  BY <2>1, <3>1, <3>2
  <2>5. Join(x, y) = x \o Tail(y)  BY <1>2 DEF Join
  <2> QED  BY <2>3, <2>4, <2>5, Glued
<1>3. CASE ~(x # <<>> /\ y # <<>> /\ Last(x) = "ws" /\ Head(y) = "ws")
  <2>1. Join(x, y) = x \o y  BY <1>3 DEF Join
  <2>2. x = <<>> \/ y = <<>> \/ x[Len(x)] # "ws" \/ y[1] # "ws"
    <3>1. Last(x) = x[Len(x)]  BY DEF Last
    <3>2. y # <<>> => Head(y) = y[1]  BY DEF OutOk
    <3> QED  BY <1>3, <3>1, <3>2
  <2> QED  BY <2>1, <2>2, Glued
<1> QED  BY <1>2, <1>3

\* One lexeme, two, and the whitespace that is there only once.
LEMMA JoinOne ==
  ASSUME NEW x, OutOk(x), NEW c, c # "ws" PROVE Join(x, <<c>>) = Append(x, c)
<1>1. Head(<<c>>) = c  OBVIOUS
<1>2. Join(x, <<c>>) = x \o <<c>>  BY <1>1 DEF Join
<1>3. PICK T : T = Lexeme \cup {c} /\ x \in Seq(T)
  <2>1. PICK S : S = Lexeme /\ x \in Seq(S)  BY DEF OutOk
  <2>2. x \in Seq(S \cup {c})  BY <2>1
  <2> QED  BY <2>1, <2>2
<1>4. x \o <<c>> = Append(x, c)  BY <1>3
<1> QED  BY <1>2, <1>4

\* Two lexemes that are written, the first no whitespace.
LEMMA JoinTwo ==
  ASSUME NEW x, OutOk(x), NEW c, c # "ws", NEW d PROVE Join(x, <<c, d>>) = Append(Append(x, c), d)
<1>1. Head(<<c, d>>) = c  OBVIOUS
<1>2. Join(x, <<c, d>>) = x \o <<c, d>>  BY <1>1 DEF Join
<1>3. PICK T : T = Lexeme \cup {c, d} /\ x \in Seq(T)
  <2>1. PICK S : S = Lexeme /\ x \in Seq(S)  BY DEF OutOk
  <2>2. x \in Seq(S \cup {c, d})  BY <2>1
  <2> QED  BY <2>1, <2>2
<1>4. x \o <<c, d>> = Append(Append(x, c), d)  BY <1>3
<1> QED  BY <1>2, <1>4

\* Whitespace and a lexeme: the whitespace joins what is there already.
LEMMA JoinSpace ==
  ASSUME NEW x, OutOk(x), NEW c
  PROVE  Join(x, <<"ws", c>>) = IF x # <<>> /\ x[Len(x)] = "ws" THEN Append(x, c) ELSE Append(Append(x, "ws"), c)
<1>1. PICK w : w = "ws"  OBVIOUS
<1>2. Head(<<w, c>>) = w /\ Tail(<<w, c>>) = <<c>>  OBVIOUS
<1>3. Join(x, <<w, c>>) = IF x # <<>> /\ x[Len(x)] = w THEN x \o <<c>> ELSE x \o <<w, c>>
  BY <1>1, <1>2 DEF Join, Last
<1>4. PICK T : T = Lexeme \cup {c, w} /\ x \in Seq(T)
  <2>1. PICK S : S = Lexeme /\ x \in Seq(S)  BY DEF OutOk
  <2>2. x \in Seq(S \cup {c, w})  BY <2>1
  <2> QED  BY <2>1, <2>2
<1>5. x \o <<c>> = Append(x, c) /\ x \o <<w, c>> = Append(Append(x, w), c)  BY <1>4
<1> QED  BY <1>1, <1>3, <1>5

(* The minifier.                                                               *)
\* A document that is formatted to its end.
Shape(x) ==
  /\ IsText(x) /\ Smooth(x, 1, Len(x) + 1)
  /\ \E e \in 2..(Len(x) + 1) : x[e - 1] \in Closers /\ Blank(x, e, Len(x) + 1)

\* A well-formed object or array is formatted to its end.
LEMMA ContainerShape == ASSUME NEW x, IsText(x), Container(x) PROVE Shape(x)
<1>1. PICK n \in Nat : n = Len(x)  BY DEF IsText
<1>2. Grammar!WellFormed(x) /\ NoWs(x)[1] \in Openers  BY DEF Container, Openers
<1>3. PICK s \in 1..n, e \in 2..(n + 1) :
        /\ Blank(x, 1, s) /\ Blank(x, e, n + 1)
        /\ x[s] \in Openers \cup Scalars
        /\ x[s] \in Openers => x[e - 1] \in Closers
        /\ Smooth(x, 1, n + 1)
  BY <1>1, <1>2, WellFormedIs
<1>4. \A k \in 1..(s - 1) : x[k] = "ws"  BY <1>3 DEF Blank
<1>5. x[s] # "ws"  BY <1>3, Marked, ScalarsAre
<1>6. PICK S : S = V!Lexemes /\ x \in Seq(S)  BY DEF IsText
<1>7. NoWs(x)[1] = x[s]  BY <1>1, <1>4, <1>5, <1>6, NoWsFirst
<1>8. x[e - 1] \in Closers  BY <1>2, <1>3, <1>7
<1> QED  BY <1>1, <1>3, <1>8 DEF Shape

\* All that is no whitespace is an entry.
LEMMA SmoothEntry ==
  ASSUME NEW x, NEW n \in Nat, n = Len(x), Smooth(x, 1, n + 1), NEW p \in 1..n
  PROVE  Entry(x, p, FALSE) <=> x[p] # "ws"
<1>1. CASE Run(x[p])
  <2>1. x[p] # "ws"  BY <1>1 DEF Run, Runs
  <2>2. p = 1 \/ ~Run(x[p - 1])
    <3>1. CASE p = 1  BY <3>1
    <3>2. CASE p > 1
      <4>1. PICK k \in 1..((n + 1) - 2) : k = p - 1 /\ k + 1 = p  BY <3>2
      <4>2. Run(x[k]) => ~Run(x[k + 1])  BY <4>1 DEF Smooth
      <4> QED  BY <1>1, <4>1, <4>2
    <3> QED  BY <3>1, <3>2
  <2> QED  BY <1>1, <2>1, <2>2 DEF Entry, Run
<1>2. CASE ~Run(x[p])  BY <1>2 DEF Entry, Run
<1> QED  BY <1>1, <1>2

\* The i-th entry and the next one: 0 before the first, and the end behind the last.
This(t, i)    == IF i = 0 THEN 0 ELSE t[i]
Other(t, i, x) == IF i = Len(t) THEN Len(x) + 1 ELSE t[i + 1]

\* Between the one at a and the one at b is whitespace.
Apart(x, a, b) ==
  /\ a \in 0..Len(x) /\ b \in (a + 1)..(Len(x) + 1)
  /\ \A j \in (a + 1)..(b - 1) : x[j] = "ws"

\* Behind an entry there is nothing but whitespace until the next one.
LEMMA TapeBlank ==
  ASSUME NEW x, NEW n \in Nat, n = Len(x), Smooth(x, 1, n + 1), NEW t, IsTape(t, x, FALSE),
         NEW m \in Nat, m = Len(t), NEW i \in 0..m,
         NEW a, a = This(t, i), NEW b, b = Other(t, i, x)
  PROVE  Apart(x, a, b)
<1>1. a = (IF i = 0 THEN 0 ELSE t[i]) /\ b = (IF i = m THEN n + 1 ELSE t[i + 1])  BY DEF This, Other
<1>2. t \in Seq(1..n)  BY DEF IsTape
<1>3. i # 0 => t[i] \in 1..n  BY <1>2
<1>4. i # m => t[i + 1] \in 1..n  BY <1>2
<1>5. a \in 0..n /\ b \in (a + 1)..(n + 1)
  <2>1. i # 0 /\ i # m => t[i] < t[i + 1]
    <3>1. i # 0 /\ i # m => i \in 1..m /\ i + 1 \in 1..m /\ i < i + 1  OBVIOUS
    <3> QED  BY <3>1 DEF IsTape
  <2> QED  BY <1>1, <1>3, <1>4, <2>1
<1>6. ASSUME NEW j \in (a + 1)..(b - 1) PROVE x[j] = "ws"
  <2>1. j \in 1..n  BY <1>5
  <2>2. i > 0 => t[i] < j  BY <1>1, <1>3, <1>5
  <2>3. i < Len(t) => j < t[i + 1]  BY <1>1, <1>4, <1>5
  <2>4. ~Entry(x, j, FALSE)
    <3>1. i \in 0..Len(t)  OBVIOUS
    <3> QED  BY <2>1, <2>2, <2>3, <3>1, Between
  <2> QED  BY <2>1, <2>4, SmoothEntry
<1> QED  BY <1>5, <1>6 DEF Apart

\* What an entry adds.
Adds(x, t, i, f) ==
  /\ i < Len(t) => f[t[i + 1] - 1] = Append(f[t[i] - 1], x[t[i]])
  /\ i = Len(t) => f[Len(x)] = Append(f[t[i] - 1], x[t[i]])
  /\ x[t[i]] # "ws"

\* Each entry adds its lexeme to what remains without whitespace.
LEMMA TapeAdds ==
  ASSUME NEW x, NEW n \in Nat, n = Len(x), Smooth(x, 1, n + 1), NEW t, IsTape(t, x, FALSE),
         NEW m \in Nat, m = Len(t), NEW i \in 1..m, NEW f, IsNoWs(f, x)
  PROVE  Adds(x, t, i, f)
<1>1. PICK a, b : a = t[i] /\ b = (IF i = m THEN n + 1 ELSE t[i + 1])  OBVIOUS
<1>2. a \in 0..n /\ b \in (a + 1)..(n + 1) /\ \A j \in (a + 1)..(b - 1) : x[j] = "ws"
  <2>1. i \in 0..m /\ a = This(t, i) /\ b = Other(t, i, x)  BY <1>1 DEF This, Other
  <2>2. Apart(x, a, b)  BY <2>1, TapeBlank
  <2> QED  BY <2>2 DEF Apart
<1>3. a \in 1..n  BY <1>1 DEF IsTape
<1>4. x[a] # "ws"
  <2>1. Entry(x, a, FALSE)  BY <1>1 DEF IsTape
  <2> QED  BY <1>3, <2>1, SmoothEntry
<1>5. f[a] = Append(f[a - 1], x[a])  BY <1>3, <1>4 DEF IsNoWs
<1>6. PICK l \in a..n : l = b - 1  BY <1>2, <1>3
<1>7. f[l] = f[a]
  <2>1. a \in 0..n /\ \A j \in (a + 1)..l : x[j] = "ws"  BY <1>2, <1>6
  <2> QED  BY <2>1, NoWsBlank
<1>8. i = m => l = n  BY <1>1, <1>6
<1>9. i < m => l = t[i + 1] - 1  BY <1>1, <1>6
<1> QED  BY <1>1, <1>4, <1>5, <1>7, <1>8, <1>9 DEF Adds

\* A sequence of one.
LEMMA Solo == ASSUME NEW S, NEW y \in Seq(S), Len(y) = 1 PROVE y = <<y[1]>>
OBVIOUS

\* The characters of an entry but for the whitespace behind it.
LEMMA StretchIs ==
  ASSUME NEW n \in Nat, n = Len(text), Smooth(text, 1, n + 1), IsText(text),
         IsTape(tape, text, FALSE), NEW m \in Nat, m = Len(tape), NEW i \in 1..(m - 1)
  PROVE  WithoutEndWs(Stretch(i)) = <<text[tape[i]]>>
<1>1. PICK t, x : t = tape /\ x = text  OBVIOUS
<1>2. PICK a, b : a = t[i] /\ b = t[i + 1]  OBVIOUS
<1>3. i \in 0..m /\ i # 0 /\ i # m /\ i \in 1..m  OBVIOUS
<1>4. a \in 0..n /\ b \in (a + 1)..(n + 1) /\ \A j \in (a + 1)..(b - 1) : x[j] = "ws"
  <2>1. a = This(t, i) /\ b = Other(t, i, x)  BY <1>1, <1>2, <1>3 DEF This, Other
  <2>2. Apart(x, a, b)  BY <1>1, <1>3, <2>1, TapeBlank
  <2> QED  BY <1>1, <2>2 DEF Apart
<1>5. a \in 1..n /\ b \in 1..n  BY <1>1, <1>2, <1>3 DEF IsTape
<1>6. x[a] # "ws"
  <2>1. Entry(x, a, FALSE)  BY <1>1, <1>2, <1>3 DEF IsTape
  <2> QED  BY <1>1, <1>5, <2>1, SmoothEntry
<1>7. PICK y : y = SubSeq(x, a, b - 1)  OBVIOUS
<1>8. Stretch(i) = y
  <2>1. i < Len(tape)  OBVIOUS
  <2> QED  BY <1>1, <1>2, <1>7, <2>1 DEF Stretch
<1>9. b = a + 1 \/ b = a + 2
  <2>1. SUFFICES ASSUME b > a + 2 PROVE FALSE  BY <1>4, <1>5
  <2>2. a + 1 \in (a + 1)..(b - 1) /\ (a + 1) + 1 \in (a + 1)..(b - 1) /\ a + 1 \in 1..(n - 1)  BY <1>4, <1>5, <2>1
  <2>3. x[a + 1] # "ws" \/ x[(a + 1) + 1] # "ws"  BY <1>1, <2>2 DEF IsText
  <2> QED  BY <1>4, <2>2, <2>3
<1>10. PICK S : S = V!Lexemes /\ x \in Seq(S)  BY <1>1 DEF IsText
<1>11. CASE b = a + 1
  <2>1. y = <<x[a]>>
    <3>1. b - 1 = a  BY <1>5, <1>11
    <3>2. y = SubSeq(x, a, a)  BY <1>7, <3>1
    <3>3. y \in Seq(S) /\ Len(y) = 1 /\ y[1] = x[a]  BY <1>1, <1>5, <1>10, <3>2
    <3> QED  BY <3>3, Solo
  <2>2. Last(y) # "ws"  BY <1>6, <2>1 DEF Last
  <2> QED  BY <1>1, <1>2, <1>8, <2>1, <2>2 DEF WithoutEndWs
<1>12. CASE b = a + 2
  <2>1. y \in Seq(S) /\ Len(y) = 2 /\ y[1] = x[a] /\ y[2] = x[a + 1]
    <3>1. b - 1 = a + 1 /\ a + 1 \in 1..n  BY <1>5, <1>12
    <3>2. y = SubSeq(x, a, a + 1)  BY <1>7, <3>1
    <3> QED  BY <1>1, <1>5, <1>10, <3>1, <3>2
  <2>2. x[a + 1] = "ws"
    <3>1. a + 1 \in (a + 1)..(b - 1)  BY <1>5, <1>12
    <3> QED  BY <1>4, <3>1
  <2>3. Front(y) = <<y[1]>>
    <3>1. PICK z : z = SubSeq(y, 1, 1)  OBVIOUS
    <3>2. z \in Seq(S) /\ Len(z) = 1 /\ z[1] = y[1]  BY <2>1, <3>1
    <3>3. z = <<z[1]>>  BY <3>2, Solo
    <3>4. Len(y) - 1 = 1  BY <2>1
    <3>5. Front(y) = z  BY <3>1, <3>4 DEF Front
    <3> QED  BY <3>2, <3>3, <3>5
  <2>4. y # <<>> /\ Last(y) = "ws"
    <3>1. Last(y) = y[2]  BY <2>1 DEF Last
    <3>2. y # <<>>
      <4>1. Len(y) = 2 /\ Len(<<>>) = 0  BY <2>1
      <4> QED  BY <4>1
    <3> QED  BY <2>1, <2>2, <3>1, <3>2
  <2> QED  BY <1>1, <1>2, <1>8, <2>1, <2>3, <2>4 DEF WithoutEndWs
<1> QED  BY <1>9, <1>11, <1>12

(* What every call keeps.                                                      *)
Lone == Openers \cup Closers \cup {Colon, Comma, "true", "null"}

\* They are lexemes, as are strings, numbers and whitespace.
LEMMA LoneIs ==
  /\ Lone \cup Strings \cup {"num", "ws", "junk"} \subseteq V!Lexemes
  /\ Lone \cup Strings \cup {"num", "ws", "junk", "cut"} \subseteq Lexeme
<1>1. Lone \cup Strings \cup {"num", "ws", "junk"} \subseteq V!Lexemes
  BY DEF Lone, Openers, Closers, Colon, Comma, Strings, V!Lexemes, V!Marks
<1> QED  BY <1>1 DEF Lexeme

\* No token is whitespace.
LEMMA LoneNoWs == \A c \in Lone \cup Scalars : c # "ws"
<1>1. Colon # "ws" /\ Comma # "ws" /\ "true" # "ws" /\ "null" # "ws"  BY DEF Colon, Comma
<1> QED  BY <1>1, Marked, ScalarsAre DEF Lone

\* Junk is not plain, and neither is the end.
LEMMA NoJunk == "junk" \notin Plain /\ "end" \notin Plain
<1>1. "junk" \notin Keys /\ "end" \notin Keys  BY LexemesAssumption DEF V!Marks
<1>2. "junk" \notin Scalars /\ "end" \notin Scalars  BY <1>1 DEF Scalars
<1> QED  BY <1>2 DEF Plain, Openers, Closers, Comma, Colon

\* No bracket is a scalar.
LEMMA ClosersAre == \A c \in Closers \cup Openers : c \notin Strings \cup {"num", "true", "null", "junk"}
<1>1. \A c \in Closers \cup Openers : c \notin Keys  BY LexemesAssumption DEF V!Marks, Closers, Openers
<1> QED  BY <1>1 DEF Strings, Closers, Openers

\* One lexeme can be written.
LEMMA OneOk == ASSUME NEW c \in Lexeme PROVE OutOk(<<c>>)
<1>1. PICK S : S = Lexeme  OBVIOUS
<1>2. <<c>> \in Seq(S) /\ Len(<<c>>) = 1  BY <1>1
<1> QED  BY <1>1, <1>2 DEF OutOk, Spaced

\* Two can, unless both are whitespace.
LEMMA TwoOk == ASSUME NEW c \in Lexeme, NEW d \in Lexeme, c # "ws" \/ d # "ws" PROVE OutOk(<<c, d>>)
<1>1. PICK S : S = Lexeme  OBVIOUS
<1>2. <<c, d>> \in Seq(S) /\ Len(<<c, d>>) = 2 /\ <<c, d>>[1] = c /\ <<c, d>>[2] = d  BY <1>1
<1>3. PICK y : y = <<c, d>>  OBVIOUS
<1>4. \A p \in 1..(Len(y) - 1) : y[p] # "ws" \/ y[p + 1] # "ws"  BY <1>2, <1>3
<1> QED  BY <1>1, <1>2, <1>3, <1>4 DEF OutOk, Spaced

\* So can none, which is a text too.
LEMMA NoneOk == OutOk(<<>>) /\ IsText(<<>>)
<1>1. PICK S : S = Lexeme  OBVIOUS
<1>2. PICK T : T = V!Lexemes  OBVIOUS
<1>3. <<>> \in Seq(S) /\ <<>> \in Seq(T) /\ Len(<<>>) = 0  OBVIOUS
<1> QED  BY <1>1, <1>2, <1>3 DEF OutOk, Spaced, IsText

\* Without its whitespace at the end a text is one still.
LEMMA WithoutOk == ASSUME NEW x, OutOk(x) PROVE OutOk(WithoutEndWs(x))
<1>1. CASE x # <<>> /\ Last(x) = "ws"
  <2>1. PICK n \in Nat : n = Len(x) /\ n # 0  BY <1>1 DEF OutOk
  <2>2. 1 \in 1..(n + 1) /\ n - 1 \in 0..n  BY <2>1
  <2>3. OutOk(SubSeq(x, 1, n - 1))  BY <2>1, <2>2, PartOk
  <2> QED  BY <1>1, <2>1, <2>3 DEF WithoutEndWs, Front
<1> QED  BY <1>1 DEF WithoutEndWs

\* The tape of the call in progress.
LEMMA TapeOf ==
  ASSUME IsText(text), op \in {"minify", "prettify"}
  PROVE  /\ op = "minify" => IsTape(tape, text, FALSE)
         /\ op = "prettify" => IsTape(tape, text, TRUE)
         /\ tape \in Seq(1..Len(text))
<1>1. PICK n \in Nat : n = Len(text)  BY DEF IsText
<1>2. CASE op = "minify"
  <2>1. tape = Entries(text, FALSE)  BY <1>2 DEF tape
  <2>2. IsTape(tape, text, FALSE)  BY <1>1, <2>1, TapeIs
  <2> QED  BY <1>2, <2>2 DEF IsTape
<1>3. CASE op = "prettify"
  <2>1. tape = Entries(text, TRUE)  BY <1>3 DEF tape
  <2>2. IsTape(tape, text, TRUE)  BY <1>1, <2>1, TapeIs
  <2> QED  BY <1>3, <2>2 DEF IsTape
<1> QED  BY <1>2, <1>3

\* What lies between two entries can be written.
LEMMA StretchOk ==
  ASSUME IsText(text), op \in {"minify", "prettify"}, NEW i \in 1..Len(tape)
  PROVE  OutOk(Stretch(i))
<1>1. PICK n \in Nat : n = Len(text)  BY DEF IsText
<1>2. tape \in Seq(1..n)  BY <1>1, TapeOf
<1>3. PICK t : t = tape  OBVIOUS
<1>9. PICK m \in Nat : m = Len(t)  BY <1>2, <1>3
<1>4. PICK a, b : a = t[i] /\ b = (IF i < m THEN t[i + 1] - 1 ELSE n)  OBVIOUS
<1>5. a \in 1..(n + 1) /\ b \in 0..n
  <2>1. i < m => i + 1 \in 1..m  BY <1>3, <1>9
  <2> QED  BY <1>2, <1>3, <1>4, <1>9, <2>1
<1>6. Stretch(i) = SubSeq(text, a, b)  BY <1>1, <1>3, <1>4, <1>9 DEF Stretch
<1>7. OutOk(text)  BY TextIsOut
<1> QED  BY <1>1, <1>5, <1>6, <1>7, PartOk

\* The operations, lexemes by name.
CallGoesOn == op' = op /\ before' = before /\ iter' = iter + 1
CallEnds(ans) == out' = out /\ Finish(ans)

\* An entry of the minifier: a stretch, a lone lexeme or the end.
LEMMA MinifyEntryIs ==
  ASSUME MinifyEntry, NEW c, c = At(iter - 1)
  PROVE  /\ op = "minify" /\ iter <= Len(tape) /\ text' = text
         /\ \/ c \in Strings \cup {"num"} /\ Write(WithoutEndWs(Stretch(iter - 1))) /\ CallGoesOn
            \/ c \in Lone /\ Write(<<c>>) /\ CallGoesOn
            \/ c = "junk" /\ CallEnds(TRUE)
BY DEF MinifyEntry, Lone, Openers, Closers, Colon, Comma, CallGoesOn, CallEnds

\* Its last entry: the lexeme, or its first character alone.
LEMMA MinifyLastIs ==
  ASSUME MinifyLast
  PROVE  /\ op = "minify" /\ iter > Len(tape) /\ text' = text
         /\ \E c \in Lone \cup {"num", "cut"} :
              /\ \/ c = At(iter - 1)
                 \/ c = "cut" /\ At(iter - 1) \in Strings \cup {"num", "true", "null", "junk"}
              /\ Write(<<c>>) /\ Finish(TRUE)
BY DEF MinifyLast, Lone, Openers, Closers, Colon, Comma

\* A value, a colon or a comma of the prettifier.
LEMMA PrettifyValueIs ==
  ASSUME PrettifyValue, NEW c, c = At(iter)
  PROVE  /\ op = "prettify" /\ iter <= Len(tape) /\ text' = text /\ CallGoesOn /\ indent' = indent
         /\ \/ c \in Strings \cup {"num"} /\ Write(Stretch(iter))
            \/ c \in {"true", "null"} /\ Write(<<c>>)
            \/ c \in {Colon, Comma} /\ Write(<<c, "ws">>)
BY DEF PrettifyValue, Goes, CallGoesOn, Colon, Comma

\* An opening bracket of the prettifier, of an empty container or of another.
LEMMA PrettifyOpenIs ==
  ASSUME PrettifyOpen, NEW c, c = At(iter), NEW d, d = At(iter + 1)
  PROVE  /\ op = "prettify" /\ c \in Openers /\ text' = text /\ op' = op /\ before' = before
         /\ \/ /\ d \in Closers /\ Write(<<c, d>>) /\ iter' = iter + 2
               /\ indent' = indent + IndentSize \/ indent' = indent + 0
            \/ /\ Write(<<c, "ws">>) /\ iter' = iter + 1
               /\ indent' = indent + IndentSize
BY DEF PrettifyOpen, Goes, Openers, Closers

\* A closing bracket, whose indent may not go below zero.
LEMMA PrettifyCloseIs ==
  ASSUME PrettifyClose, NEW c, c = At(iter)
  PROVE  /\ op = "prettify" /\ c \in Closers /\ text' = text /\ indent' = indent - IndentSize
         /\ \/ indent' < 0 /\ CallEnds(FALSE)
            \/ Write(<<"ws", c>>) /\ CallGoesOn
BY DEF PrettifyClose, Goes, CallGoesOn, CallEnds, Closers

\* The end, which whitespace and junk are too.
LEMMA PrettifyEndIs ==
  ASSUME PrettifyEnd
  PROVE  op = "prettify" /\ At(iter) \in {"end", "ws", "junk"} /\ text' = text /\ CallEnds(TRUE)
BY DEF PrettifyEnd, CallEnds

(* The minifier has written what stands before the entry it is behind.         *)
Minified(x, t, i, o) ==
  i \in 2..(Len(t) + 1) /\ \E f : IsNoWs(f, x) /\ o = f[t[i - 1] - 1]

\* Behind the first entry nothing is written.
LEMMA MinifiedStart ==
  ASSUME NEW x, Shape(x), NEW t, IsTape(t, x, FALSE), t # <<>> PROVE Minified(x, t, 2, <<>>)
<1>1. PICK n \in Nat : n = Len(x)  BY DEF Shape, IsText
<1>2. PICK f : IsNoWs(f, x)  BY <1>1, NoWsIs
<1>3. PICK m \in Nat : m = Len(t) /\ m > 0
  <2>1. Len(t) \in Nat /\ Len(t) # 0  BY DEF IsTape
  <2> QED  BY <2>1
<1>4. Smooth(x, 1, n + 1)  BY <1>1 DEF Shape
<1>5. PICK a, b : a = This(t, 0) /\ b = Other(t, 0, x)  OBVIOUS
<1>6. Apart(x, a, b)
  <2>1. 0 \in 0..m  OBVIOUS
  <2> QED  BY <1>1, <1>3, <1>4, <1>5, <2>1, TapeBlank
<1>7. a = 0 /\ b = t[1]  BY <1>3, <1>5 DEF This, Other
<1>8. b \in 1..(n + 1) /\ \A j \in 1..(b - 1) : x[j] = "ws"  BY <1>1, <1>6, <1>7 DEF Apart
<1>9. PICK l \in 0..n : l = b - 1  BY <1>8
<1>10. f[l] = f[0]
  <2>1. 0 \in 0..n /\ \A j \in (0 + 1)..l : x[j] = "ws"  BY <1>8, <1>9
  <2> QED  BY <1>1, <1>2, <2>1, NoWsBlank
<1>11. f[t[2 - 1] - 1] = <<>>  BY <1>2, <1>7, <1>9, <1>10 DEF IsNoWs
<1> QED  BY <1>2, <1>3, <1>11 DEF Minified

\* An entry more.
LEMMA MinifiedStep ==
  ASSUME NEW x, Shape(x), NEW t, IsTape(t, x, FALSE), NEW m \in Nat, m = Len(t), NEW i \in 2..m,
         NEW o, Minified(x, t, i, o)
  PROVE  Minified(x, t, i + 1, Append(o, x[t[i - 1]]))
<1>1. PICK n \in Nat : n = Len(x)  BY DEF Shape, IsText
<1>2. PICK f : IsNoWs(f, x) /\ o = f[t[i - 1] - 1]  BY DEF Minified
<1>3. Smooth(x, 1, n + 1)  BY <1>1 DEF Shape
<1>4. PICK k \in 1..m : k = i - 1 /\ k + 1 = i /\ k < m  OBVIOUS
<1>5. f[t[k + 1] - 1] = Append(f[t[k] - 1], x[t[k]])
  <2>1. Adds(x, t, k, f)  BY <1>1, <1>2, <1>3, <1>4, TapeAdds
  <2> QED  BY <1>4, <2>1 DEF Adds
<1>6. f[t[(i + 1) - 1] - 1] = Append(o, x[t[i - 1]])
  <2>1. (i + 1) - 1 = k + 1  BY <1>4
  <2> QED  BY <1>2, <1>4, <1>5, <2>1
<1>7. i + 1 \in 2..(Len(t) + 1)  OBVIOUS
<1> QED  BY <1>2, <1>6, <1>7 DEF Minified

\* The last one completes the document.
LEMMA MinifiedLast ==
  ASSUME NEW x, Shape(x), NEW t, IsTape(t, x, FALSE), NEW m \in Nat, m = Len(t),
         NEW i, i > m, NEW o, Minified(x, t, i, o)
  PROVE  /\ i - 1 = m /\ m \in 1..Len(t) /\ x[t[m]] \in Closers
         /\ Append(o, x[t[m]]) = NoWs(x)
<1>1. PICK n \in Nat : n = Len(x)  BY DEF Shape, IsText
<1>2. PICK f : IsNoWs(f, x) /\ o = f[t[i - 1] - 1]  BY DEF Minified
<1>3. Smooth(x, 1, n + 1)  BY <1>1 DEF Shape
<1>4. i - 1 = m /\ m \in 1..m /\ m \in 0..m /\ m # 0  BY DEF Minified
<1>5. f[n] = Append(f[t[m] - 1], x[t[m]]) /\ x[t[m]] # "ws"
  <2>1. Adds(x, t, m, f)  BY <1>1, <1>2, <1>3, <1>4, TapeAdds
  <2> QED  BY <1>1, <2>1 DEF Adds
<1>6. f[n] = NoWs(x)
  <2>1. PICK g : IsNoWs(g, x) /\ NoWs(x) = g[n]  BY <1>1, NoWsIs
  <2>2. f[n] = g[n]  BY <1>1, <1>2, <2>1, NoWsOnly
  <2> QED  BY <2>1, <2>2
<1>7. PICK e \in 2..(n + 1) : x[e - 1] \in Closers /\ Blank(x, e, n + 1)  BY <1>1 DEF Shape
<1>8. PICK d \in 1..n : d = e - 1  BY <1>7
<1>9. PICK a : a = t[m]  OBVIOUS
<1>10. a \in 1..n  BY <1>1, <1>4, <1>9 DEF IsTape
<1>11. a <= d
  <2>1. SUFFICES ASSUME a > d PROVE FALSE  BY <1>8, <1>10
  <2>2. a \in e..((n + 1) - 1)  BY <1>8, <1>10, <2>1
  <2>3. x[a] = "ws"  BY <1>7, <2>2 DEF Blank
  <2> QED  BY <1>5, <1>9, <2>3
<1>12. d <= a
  <2>1. PICK b : b = Other(t, m, x)  OBVIOUS
  <2>2. Apart(x, a, b)
    <3>1. a = This(t, m)  BY <1>4, <1>9 DEF This
    <3> QED  BY <1>1, <1>3, <1>4, <2>1, <3>1, TapeBlank
  <2>3. b = n + 1  BY <1>1, <2>1 DEF Other
  <2>4. SUFFICES ASSUME a < d PROVE FALSE  BY <1>8, <1>10
  <2>5. d \in (a + 1)..(b - 1)  BY <1>8, <1>10, <2>3, <2>4
  <2>6. x[d] = "ws"  BY <2>2, <2>5 DEF Apart
  <2> QED  BY <1>7, <1>8, <2>6, Marked
<1>13. a = d  BY <1>8, <1>10, <1>11, <1>12
<1> QED  BY <1>2, <1>4, <1>5, <1>6, <1>7, <1>8, <1>9, <1>13

(* The prettifier.                                                             *)
\* A document without whitespace that it formats to its end.
Tidy(x) ==
  /\ IsText(x) /\ Smooth(x, 1, Len(x) + 1)
  /\ Len(x) > 0 /\ x[Len(x)] \in Closers
  /\ \A k \in 1..Len(x) : x[k] # "ws" /\ Deep(x, k) >= 0

\* A minified object or array is formatted to its end.
LEMMA ContainerTidy == ASSUME NEW x, IsText(x), Container(x), x = NoWs(x) PROVE Tidy(x)
<1>1. PICK n \in Nat : n = Len(x)  BY DEF IsText
<1>2. Grammar!WellFormed(x) /\ NoWs(x)[1] \in Openers  BY DEF Container, Openers
<1>3. PICK s \in 1..n, e \in 2..(n + 1) :
        /\ Blank(x, 1, s) /\ Blank(x, e, n + 1)
        /\ x[s] \in Openers => x[e - 1] \in Closers
        /\ Smooth(x, 1, n + 1) /\ Level(x, 1, n + 1, 0)
  BY <1>1, <1>2, WellFormedIs
<1>4. PICK S : S = V!Lexemes /\ x \in Seq(S)  BY DEF IsText
<1>5. PICK f : IsNoWs(f, x) /\ NoWs(x) = f[n]  BY <1>1, NoWsIs
<1>6. x \in Seq(S \ {"ws"})
  <2>1. n \in 0..n  BY <1>1
  <2>2. f[n] \in Seq(S \ {"ws"})  BY <1>1, <1>4, <1>5, <2>1, NoWsSeq
  <2> QED  BY <1>5, <2>2
<1>7. \A k \in 1..n : x[k] # "ws"  BY <1>1, <1>6
<1>8. s = 1
  <2>1. SUFFICES ASSUME s > 1 PROVE FALSE  BY <1>3
  <2>2. 1 \in 1..(s - 1) /\ 1 \in 1..n  BY <1>3, <2>1
  <2> QED  BY <1>3, <1>7, <2>2 DEF Blank
<1>9. e = n + 1
  <2>1. SUFFICES ASSUME e <= n PROVE FALSE  BY <1>3
  <2>2. e \in e..((n + 1) - 1) /\ e \in 1..n  BY <1>3, <2>1
  <2> QED  BY <1>3, <1>7, <2>2 DEF Blank
<1>10. x[n] \in Closers
  <2>1. x[s] \in Openers  BY <1>2, <1>8
  <2>2. e - 1 = n  BY <1>9
  <2> QED  BY <1>3, <2>1, <2>2
<1>11. \A k \in 1..n : Deep(x, k) >= 0
  <2>1. Deep(x, 0) = 0  BY DeepNone
  <2>2. 1 - 1 = 0 /\ (n + 1) - 1 = n  OBVIOUS
  <2>3. \A k \in 1..n : Deep(x, k) >= Deep(x, 0) - 0  BY <1>3, <2>2 DEF Level
  <2> QED  BY <2>1, <2>3
<1>12. n > 0  BY <1>3
<1> QED  BY <1>1, <1>3, <1>7, <1>10, <1>11, <1>12 DEF Tidy

\* Every lexeme of it is an entry.
LEMMA TidyTape ==
  ASSUME NEW x, Tidy(x), NEW n \in Nat, n = Len(x), NEW t, IsTape(t, x, TRUE)
  PROVE  Len(t) = n /\ \A i \in 1..n : t[i] = i
<1>1. \A p \in 1..n : Entry(x, p, TRUE)
  <2> SUFFICES ASSUME NEW p \in 1..n PROVE Entry(x, p, TRUE)  OBVIOUS
  <2>1. \A k \in 1..n : Runs(x[k], TRUE) <=> Run(x[k])
    <3>1. \A k \in 1..n : x[k] # "ws"  BY DEF Tidy
    <3> QED  BY <3>1 DEF Runs, Run
  <2>2. CASE Run(x[p])
    <3>1. p = 1 \/ ~Runs(x[p - 1], TRUE)
      <4>1. CASE p = 1  BY <4>1
      <4>2. CASE p > 1
        <5>1. PICK k \in 1..((n + 1) - 2) : k = p - 1 /\ k + 1 = p  BY <4>2
        <5>2. Run(x[k]) => ~Run(x[k + 1])  BY <5>1 DEF Smooth, Tidy
        <5>3. k \in 1..n  BY <5>1
        <5> QED  BY <2>1, <2>2, <5>1, <5>2, <5>3
      <4>3. p = 1 \/ p > 1  OBVIOUS
      <4> QED  BY <4>1, <4>2, <4>3, Zenon
    <3> QED  BY <2>1, <2>2, <3>1 DEF Entry
  <2>3. CASE ~Run(x[p])
    <3>1. x[p] # "ws" /\ ~Runs(x[p], TRUE)  BY <2>1, <2>3 DEF Tidy
    <3> QED  BY <3>1 DEF Entry
  <2> QED  BY <2>2, <2>3
<1>2. PICK m \in Nat : m = Len(t)  BY DEF IsTape
<1>3. /\ \A i \in 1..m : t[i] \in 1..n
      /\ \A i, j \in 1..m : i < j => t[i] < t[j]
      /\ \A p \in 1..n : \E i \in 1..m : t[i] = p
  <2>1. \A i \in 1..m : t[i] \in 1..n  BY <1>2 DEF IsTape
  <2>2. \A i, j \in 1..m : i < j => t[i] < t[j]  BY <1>2 DEF IsTape
  <2>3. \A p \in 1..n : \E i \in 1..m : t[i] = p
    <3>1. \A p \in 1..n : Entry(x, p, TRUE) => \E i \in 1..m : t[i] = p  BY <1>2, Zenon DEF IsTape
    <3> QED  BY <1>1, <3>1, Zenon
  <2> QED  BY <2>1, <2>2, <2>3
<1> DEFINE T == {i \in 1..m : t[i] # i}
<1>4. T = {}
  <2>1. SUFFICES ASSUME T # {} PROVE FALSE  OBVIOUS
  <2>2. PICK i \in T : \A k \in T : i <= k
    <3>1. T \subseteq Nat  OBVIOUS
    <3> HIDE DEF T
    <3> QED  BY <2>1, <3>1, LeastNat
  <2>3. i \in 1..m /\ t[i] # i  BY <2>2
  <2>4. \A k \in 1..m : k < i => t[k] = k  BY <2>2, <2>3
  <2>5. t[i] > i
    <3>1. t[i] \in 1..n  BY <1>3, <2>3
    <3>2. CASE i = 1  BY <2>3, <3>1, <3>2
    <3>3. CASE i > 1
      <4>1. PICK k \in 1..m : k = i - 1 /\ k < i  BY <2>3, <3>3
      <4>2. t[k] = k /\ t[k] < t[i]  BY <1>3, <2>3, <2>4, <4>1
      <4> QED  BY <2>3, <3>1, <4>1, <4>2
    <3> QED  BY <2>3, <3>2, <3>3
  <2>6. i \in 1..n  BY <1>3, <2>3, <2>5
  <2>7. PICK j \in 1..m : t[j] = i  BY <1>3, <2>6
  <2>8. CASE j < i  BY <2>4, <2>7, <2>8
  <2>9. CASE j = i  BY <2>3, <2>7, <2>9
  <2>10. CASE i < j
    <3>1. t[i] < t[j]  BY <1>3, <2>3, <2>10
    <3> QED  BY <1>3, <2>3, <2>5, <2>7, <3>1
  <2> QED  BY <2>3, <2>8, <2>9, <2>10
<1>5. \A i \in 1..m : t[i] = i  BY <1>4
<1>6. m <= n
  <2>1. CASE m = 0  BY <2>1
  <2>2. CASE m > 0
    <3>1. m \in 1..m  BY <2>2
    <3> QED  BY <1>3, <1>5, <3>1
  <2> QED  BY <2>1, <2>2
<1>7. n <= m
  <2>1. CASE n = 0  BY <2>1
  <2>2. CASE n > 0
    <3>1. n \in 1..n  BY <2>2
    <3>2. PICK i \in 1..m : t[i] = n  BY <1>3, <3>1
    <3> QED  BY <1>5, <3>2
  <2> QED  BY <2>1, <2>2
<1> QED  BY <1>2, <1>5, <1>6, <1>7

(* The prettifier has written the first k lexemes, and whitespace.             *)
LastIs(o, c) == o # <<>> /\ o[Len(o)] = c

Good(o, x, k) ==
  /\ k \in 0..Len(x) /\ OutOk(o) /\ NoWs(o) = SubSeq(x, 1, k)
  /\ Smooth(o, 1, Len(o) + 1)
  /\ o = <<>> \/ LastIs(o, "ws") \/ (k > 0 /\ LastIs(o, x[k]))

\* Nothing is written of nothing.
LEMMA GoodStart == ASSUME NEW x, IsText(x) PROVE Good(<<>>, x, 0)
<1>1. PICK S : S = V!Lexemes /\ x \in Seq(S)  BY DEF IsText
<1>2. SubSeq(x, 1, 0) = <<>>  BY <1>1
<1>3. Smooth(<<>>, 1, Len(<<>>) + 1)
  <2>1. Len(<<>>) = 0  OBVIOUS
  <2>2. \A k \in 1..0 : FALSE  OBVIOUS
  <2>3. \A k \in 1..((0 + 1) - 1) : FALSE  OBVIOUS
  <2>4. \A k \in 1..((0 + 1) - 2) : FALSE  OBVIOUS
  <2> QED  BY <2>1, <2>3, <2>4 DEF Smooth
<1>4. 0 \in 0..Len(x)  BY <1>1
<1> QED  BY <1>2, <1>3, <1>4, NoneOk, NoWsNone DEF Good

\* A lexeme more, of which nothing touches what it must not.
MayTouch(o, n, c) == o = <<>> \/ ~Run(o[n]) \/ ~Run(c)
IsMore(u, n, c)   == Len(u) = n + 1 /\ u[n + 1] = c /\ Smooth(u, 1, Len(u) + 1)

\* A lexeme that touches nothing it must not keeps what is written smooth.
LEMMA SmoothMore ==
  ASSUME NEW o, OutOk(o), NEW n \in Nat, n = Len(o), Smooth(o, 1, n + 1), NEW c \in Plain,
         MayTouch(o, n, c), NEW u, u = Append(o, c)
  PROVE  IsMore(u, n, c)
<1>1. PICK S : S = Lexeme \cup {c} /\ o \in Seq(S)
  <2>1. PICK T : T = Lexeme /\ o \in Seq(T)  BY DEF OutOk
  <2>2. o \in Seq(T \cup {c})  BY <2>1
  <2> QED  BY <2>1, <2>2
<1>2. Len(u) = n + 1 /\ u[n + 1] = c /\ \A k \in 1..n : u[k] = o[k]  BY <1>1
<1>3. ASSUME NEW k \in 1..(((n + 1) + 1) - 1) PROVE u[k] \in Plain
  <2>1. CASE k <= n
    <3>1. k \in 1..n /\ k \in 1..((n + 1) - 1)  BY <2>1
    <3> QED  BY <1>2, <3>1 DEF Smooth
  <2>2. CASE k = n + 1  BY <1>2, <2>2
  <2> QED  BY <2>1, <2>2
<1>4. ASSUME NEW k \in 1..(((n + 1) + 1) - 2), Run(u[k]) PROVE ~Run(u[k + 1])
  <2>1. CASE k < n
    <3>1. k \in 1..n /\ k + 1 \in 1..n /\ k \in 1..((n + 1) - 2)  BY <2>1
    <3>2. Run(o[k]) => ~Run(o[k + 1])  BY <3>1 DEF Smooth
    <3> QED  BY <1>2, <1>4, <3>1, <3>2
  <2>2. CASE k = n
    <3>1. k \in 1..n /\ n # 0  BY <2>2
    <3>2. u[k] = o[n] /\ u[k + 1] = c /\ o # <<>>  BY <1>2, <2>2, <3>1
    <3> QED  BY <1>4, <3>2 DEF MayTouch
  <2> QED  BY <2>1, <2>2
<1> QED  BY <1>2, <1>3, <1>4 DEF Smooth, IsMore

\* The next lexeme.
LEMMA GoodToken ==
  ASSUME NEW x, Tidy(x), NEW k, NEW o, Good(o, x, k), NEW l, l = k + 1, k < Len(x)
  PROVE  Good(Append(o, x[l]), x, l) /\ LastIs(Append(o, x[l]), x[l])
<1>1. PICK n \in Nat, m \in Nat : n = Len(x) /\ m = Len(o)  BY DEF Good, OutOk, Tidy, IsText
<1>2. k \in 0..n /\ l \in 1..n  BY <1>1 DEF Good
<1>3. PICK S : S = V!Lexemes /\ x \in Seq(S)  BY DEF Tidy, IsText
<1>4. PICK c : c = x[l]  OBVIOUS
<1>5. PICK u : u = Append(o, c)  OBVIOUS
<1>6. c # "ws" /\ c \in Plain /\ c \in S
  <2>1. l \in 1..((n + 1) - 1)  BY <1>2
  <2>2. x[l] \in Plain  BY <1>1, <2>1 DEF Tidy, Smooth
  <2> QED  BY <1>1, <1>2, <1>3, <1>4, <2>2 DEF Tidy
<1>7. c \in Lexeme  BY <1>3, <1>6 DEF Lexeme
<1>8. OutOk(o) /\ OutOk(u)
  <2>1. OutOk(o)  BY DEF Good
  <2>2. OutOk(Join(o, <<c>>))  BY <1>7, <2>1, OneOk, JoinOk
  <2> QED  BY <1>5, <1>6, <2>1, <2>2, JoinOne
<1>9. NoWs(u) = SubSeq(x, 1, l)
  <2>1. PICK T : T = Lexeme /\ o \in Seq(T)  BY <1>8 DEF OutOk
  <2>2. NoWs(u) = Append(NoWs(o), c)  BY <1>5, <1>6, <2>1, NoWsAppend
  <2>3. NoWs(o) = SubSeq(x, 1, k)  BY DEF Good
  <2>4. Append(SubSeq(x, 1, k), x[l]) = SubSeq(x, 1, l)
    <3>1. PICK y, z : y = SubSeq(x, 1, k) /\ z = SubSeq(x, 1, l)  OBVIOUS
    <3>2. y \in Seq(S) /\ Len(y) = k /\ \A i \in 1..k : y[i] = x[i]  BY <1>1, <1>2, <1>3, <3>1
    <3>3. z \in Seq(S) /\ Len(z) = l /\ \A i \in 1..l : z[i] = x[i]  BY <1>1, <1>2, <1>3, <3>1
    <3>4. PICK w : w = Append(y, x[l])  OBVIOUS
    <3>5. w \in Seq(S) /\ Len(w) = l /\ (\A i \in 1..k : w[i] = y[i]) /\ w[l] = x[l]
      BY <1>2, <1>4, <1>6, <3>2, <3>4
    <3>6. \A i \in 1..l : w[i] = z[i]
      <4> SUFFICES ASSUME NEW i \in 1..l PROVE w[i] = z[i]  OBVIOUS
      <4>1. CASE i \in 1..k  BY <3>2, <3>3, <3>5, <4>1
      <4>2. CASE i = l  BY <3>3, <3>5, <4>2
      <4> QED  BY <1>2, <4>1, <4>2
    <3>7. w = z  BY <3>3, <3>5, <3>6
    <3> QED  BY <3>1, <3>4, <3>7
  <2> QED  BY <1>4, <2>2, <2>3, <2>4
<1>10. o = <<>> \/ ~Run(o[m]) \/ ~Run(c)
  <2>1. CASE LastIs(o, "ws")
    <3>1. ~Run("ws")  BY MarksAre
    <3> QED  BY <1>1, <2>1, <3>1 DEF LastIs
  <2>2. CASE k > 0 /\ LastIs(o, x[k])
    <3>1. k \in 1..((n + 1) - 2) /\ k + 1 = l  BY <1>2, <2>2
    <3>2. Run(x[k]) => ~Run(x[l])  BY <1>1, <3>1 DEF Tidy, Smooth
    <3> QED  BY <1>1, <1>4, <2>2, <3>2 DEF LastIs
  <2> QED  BY <2>1, <2>2 DEF Good
<1>11. Smooth(o, 1, m + 1)  BY <1>1 DEF Good
<1>12. Len(u) = m + 1 /\ u[m + 1] = c /\ Smooth(u, 1, Len(u) + 1)
  <2>1. MayTouch(o, m, c)  BY <1>10 DEF MayTouch
  <2>2. IsMore(u, m, c)  BY <1>1, <1>5, <1>6, <1>8, <1>11, <2>1, SmoothMore
  <2> QED  BY <2>2 DEF IsMore
<1>13. LastIs(u, c)
  <2>1. Len(u) # 0  BY <1>12
  <2>2. u # <<>>
    <3>1. Len(<<>>) = 0  OBVIOUS
    <3> QED  BY <2>1, <3>1
  <2> QED  BY <1>12, <2>2 DEF LastIs
<1>14. l \in 0..Len(x) /\ l > 0  BY <1>1, <1>2
<1> QED  BY <1>4, <1>5, <1>8, <1>9, <1>12, <1>13, <1>14 DEF Good

\* Whitespace.
LEMMA GoodSpace ==
  ASSUME NEW x, NEW k, NEW o, Good(o, x, k), ~LastIs(o, "ws")
  PROVE  Good(Append(o, "ws"), x, k) /\ LastIs(Append(o, "ws"), "ws")
<1>1. PICK m \in Nat : m = Len(o)  BY DEF Good, OutOk
<1>2. PICK c, u : c = "ws" /\ u = Append(o, c)  OBVIOUS
<1>3. c \in Plain /\ ~Run(c) /\ c \in Lexeme  BY <1>2, MarksAre, LoneIs DEF Plain
<1>4. OutOk(o) /\ OutOk(u)
  <2>1. OutOk(o)  BY DEF Good
  <2>2. OutOk(<<c>>)  BY <1>3, OneOk
  <2>3. o = <<>> \/ o[Len(o)] # "ws"  BY DEF LastIs
  <2>4. OutOk(o \o <<c>>)  BY <2>1, <2>2, <2>3, Glued
  <2>5. o \o <<c>> = u
    <3>1. PICK T : T = Lexeme /\ o \in Seq(T)  BY <2>1 DEF OutOk
    <3> QED  BY <1>2, <1>3, <3>1
  <2> QED  BY <2>1, <2>4, <2>5
<1>5. NoWs(u) = NoWs(o)
  <2>1. PICK T : T = Lexeme /\ o \in Seq(T)  BY <1>4 DEF OutOk
  <2> QED  BY <1>2, <2>1, NoWsAppend
<1>6. Smooth(o, 1, m + 1)  BY <1>1 DEF Good
<1>7. Len(u) = m + 1 /\ u[m + 1] = c /\ Smooth(u, 1, Len(u) + 1)
  <2>1. MayTouch(o, m, c)  BY <1>3 DEF MayTouch
  <2>2. IsMore(u, m, c)  BY <1>1, <1>2, <1>3, <1>4, <1>6, <2>1, SmoothMore
  <2> QED  BY <2>2 DEF IsMore
<1>8. LastIs(u, c)
  <2>1. Len(u) # 0 /\ Len(<<>>) = 0  BY <1>7
  <2>2. u # <<>>  BY <2>1
  <2> QED  BY <1>7, <2>2 DEF LastIs
<1> QED  BY <1>2, <1>4, <1>5, <1>7, <1>8 DEF Good

\* What stands before entry i is written, a closing bracket without whitespace
\* behind it.
Written(x, i, o) ==
  /\ i \in 1..(Len(x) + 1) /\ Good(o, x, i - 1)
  /\ i > 1 /\ x[i - 1] \in Closers => LastIs(o, x[i - 1])

\* Before the first entry nothing is written.
LEMMA WrittenStart == ASSUME NEW x, IsText(x) PROVE Written(x, 1, <<>>)
<1>1. PICK n \in Nat : n = Len(x)  BY DEF IsText
<1>2. 1 \in 1..(Len(x) + 1) /\ 1 - 1 = 0  BY <1>1
<1>3. Good(<<>>, x, 1 - 1)  BY <1>2, GoodStart
<1> QED  BY <1>2, <1>3 DEF Written

\* A token is.
LEMMA TokenWritten ==
  ASSUME NEW x, Tidy(x), NEW i, i <= Len(x), NEW o, Written(x, i, o)
  PROVE  Written(x, i + 1, Append(o, x[i]))
<1>1. PICK n \in Nat : n = Len(x)  BY DEF Tidy, IsText
<1>2. PICK k \in 0..n : k = i - 1 /\ i = k + 1 /\ k < n  BY <1>1 DEF Written
<1>3. PICK u : u = Append(o, x[i])  OBVIOUS
<1>4. Good(u, x, i) /\ LastIs(u, x[i])
  <2>1. Good(o, x, k)  BY <1>2 DEF Written
  <2> QED  BY <1>1, <1>2, <1>3, <2>1, GoodToken
<1>5. (i + 1) - 1 = i /\ i + 1 \in 1..(Len(x) + 1)  BY <1>1, <1>2
<1> QED  BY <1>3, <1>4, <1>5 DEF Written

\* A token and whitespace are.
LEMMA TokenSpaceWritten ==
  ASSUME NEW x, Tidy(x), NEW i, i <= Len(x), NEW o, Written(x, i, o), x[i] \notin Closers
  PROVE  Written(x, i + 1, Append(Append(o, x[i]), "ws"))
<1>1. PICK n \in Nat : n = Len(x)  BY DEF Tidy, IsText
<1>2. PICK k \in 0..n : k = i - 1 /\ i = k + 1 /\ k < n  BY <1>1 DEF Written
<1>3. PICK u : u = Append(o, x[i])  OBVIOUS
<1>4. Good(u, x, i) /\ LastIs(u, x[i])
  <2>1. Good(o, x, k)  BY <1>2 DEF Written
  <2> QED  BY <1>1, <1>2, <1>3, <2>1, GoodToken
<1>5. i \in 1..n /\ (i + 1) - 1 = i /\ i + 1 \in 1..(Len(x) + 1)  BY <1>1, <1>2
<1>6. ~LastIs(u, "ws")
  <2>1. x[i] # "ws"  BY <1>1, <1>5 DEF Tidy
  <2> QED  BY <1>4, <2>1 DEF LastIs
<1>7. Good(Append(u, "ws"), x, i)  BY <1>4, <1>6, GoodSpace
<1> QED  BY <1>3, <1>5, <1>7 DEF Written

\* Whitespace and a token are.
LEMMA SpaceTokenWritten ==
  ASSUME NEW x, Tidy(x), NEW i, i <= Len(x), NEW o, Written(x, i, o), ~LastIs(o, "ws")
  PROVE  Written(x, i + 1, Append(Append(o, "ws"), x[i]))
<1>1. PICK n \in Nat : n = Len(x)  BY DEF Tidy, IsText
<1>2. PICK k \in 0..n : k = i - 1 /\ i = k + 1 /\ k < n  BY <1>1 DEF Written
<1>3. PICK v : v = Append(o, "ws")  OBVIOUS
<1>4. Good(v, x, k)
  <2>1. Good(o, x, k)  BY <1>2 DEF Written
  <2> QED  BY <1>3, <2>1, GoodSpace
<1>5. PICK u : u = Append(v, x[i])  OBVIOUS
<1>6. Good(u, x, i) /\ LastIs(u, x[i])  BY <1>1, <1>2, <1>4, <1>5, GoodToken
<1>7. (i + 1) - 1 = i /\ i + 1 \in 1..(Len(x) + 1)  BY <1>1, <1>2
<1> QED  BY <1>3, <1>5, <1>6, <1>7 DEF Written

\* The whole of it.
LEMMA WrittenAll ==
  ASSUME NEW x, Tidy(x), NEW o, Written(x, Len(x) + 1, o)
  PROVE  Shape(o) /\ NoWs(o) = x
<1>1. PICK n \in Nat, m \in Nat : n = Len(x) /\ m = Len(o)  BY DEF Tidy, IsText, Written, Good, OutOk
<1>2. (n + 1) - 1 = n /\ n > 0  BY <1>1 DEF Tidy
<1>3. Good(o, x, n)  BY <1>1, <1>2 DEF Written
<1>4. LastIs(o, x[n]) /\ x[n] \in Closers  BY <1>1, <1>2 DEF Written, Tidy
<1>5. PICK S : S = V!Lexemes /\ x \in Seq(S)  BY DEF Tidy, IsText
<1>6. NoWs(o) = x
  <2>1. SubSeq(x, 1, n) = x
    <3>1. PICK z : z = SubSeq(x, 1, n)  OBVIOUS
    <3>2. z \in Seq(S) /\ Len(z) = n /\ \A i \in 1..n : z[i] = x[i]  BY <1>1, <1>5, <3>1
    <3>3. z = x  BY <1>1, <1>5, <3>2
    <3> QED  BY <3>1, <3>3
  <2> QED  BY <1>3, <2>1 DEF Good
<1>7. Smooth(o, 1, m + 1) /\ OutOk(o)  BY <1>1, <1>3 DEF Good
<1>8. IsText(o)
  <2>1. "cut" \notin Plain
    <3>1. "cut" \notin Scalars  BY LexemesAssumption DEF Scalars
    <3>2. "cut" \notin Openers /\ "cut" \notin Closers /\ "cut" # "ws" /\ "cut" # Comma /\ "cut" # Colon
      BY DEF Openers, Closers, Comma, Colon
    <3> QED  BY <3>1, <3>2 DEF Plain
  <2>2. \A i \in 1..m : o[i] \in Plain
    <3>1. \A i \in 1..((m + 1) - 1) : o[i] \in Plain  BY <1>7 DEF Smooth
    <3>2. (m + 1) - 1 = m  OBVIOUS
    <3> QED  BY <3>1, <3>2
  <2>3. "cut" \notin ToSet(o)  BY <1>1, <2>1, <2>2 DEF ToSet
  <2> QED  BY <1>7, <2>3, OutIsText
<1>9. \E e \in 2..(m + 1) : o[e - 1] \in Closers /\ Blank(o, e, m + 1)
  <2>1. m # 0
    <3>1. Len(o) # 0  BY <1>4, <1>7 DEF LastIs, OutOk
    <3> QED  BY <1>1, <3>1
  <2>2. m + 1 \in 2..(m + 1) /\ (m + 1) - 1 = m  BY <2>1
  <2>3. o[m] \in Closers  BY <1>1, <1>4 DEF LastIs
  <2>4. Blank(o, m + 1, m + 1)  BY DEF Blank
  <2> QED  BY <2>2, <2>3, <2>4
<1> QED  BY <1>1, <1>6, <1>7, <1>8, <1>9 DEF Shape

\* The indent is that of as many levels as are open, or more.
Indented(x, i, ind) == \E z \in Nat : ind = IndentSize * z /\ z >= Deep(x, i - 1)

\* A level more is an indent more.
LEMMA TimesMore ==
  ASSUME NEW z \in Nat
  PROVE  IndentSize * (z + 1) = IndentSize * z + IndentSize /\ IndentSize * z \in Nat
BY IndentAssumption

\* At the start there is none.
LEMMA IndentedStart == ASSUME NEW x PROVE Indented(x, 1, 0)
<1>1. PICK z \in Nat : z = 0  OBVIOUS
<1>2. IndentSize * z = 0  BY <1>1, IndentAssumption
<1>3. Deep(x, 0) = 0  BY DeepNone
<1>4. z >= Deep(x, 1 - 1)  BY <1>1, <1>3
<1> QED  BY <1>2, <1>4 DEF Indented

\* What is no bracket keeps it.
LEMMA IndentedFlat ==
  ASSUME NEW x, NEW i \in Nat, i > 0, NEW ind, Indented(x, i, ind), x[i] \notin Openers, x[i] \notin Closers
  PROVE  Indented(x, i + 1, ind)
<1>1. PICK k \in Nat : k = i - 1 /\ i = k + 1 /\ (i + 1) - 1 = i  OBVIOUS
<1>2. Deep(x, i) = Deep(x, k)
  <2>1. \A j \in (k + 1)..i : x[j] \notin Openers /\ x[j] \notin Closers  BY <1>1
  <2> QED  BY <1>1, <2>1, DeepFlat
<1> QED  BY <1>1, <1>2 DEF Indented

\* An opening bracket adds one.
LEMMA IndentedOpen ==
  ASSUME NEW x, NEW i \in Nat, i > 0, NEW ind, Indented(x, i, ind), x[i] \in Openers
  PROVE  Indented(x, i + 1, ind + IndentSize)
<1>1. PICK k \in Nat : k = i - 1 /\ i = k + 1 /\ (i + 1) - 1 = i  OBVIOUS
<1>2. Deep(x, i) = Deep(x, k) + 1  BY <1>1, DeepStep
<1>3. PICK z \in Nat : ind = IndentSize * z /\ z >= Deep(x, k)  BY <1>1 DEF Indented
<1>4. PICK w \in Nat : w = z + 1  OBVIOUS
<1>5. IndentSize * w = ind + IndentSize  BY <1>3, <1>4, TimesMore
<1>6. w >= Deep(x, i)
  <2>1. PICK a \in Int, b \in Int : a = Deep(x, k) /\ b = Deep(x, i)  BY <1>1, DeepIs
  <2> QED  BY <1>2, <1>3, <1>4, <2>1
<1> QED  BY <1>1, <1>5, <1>6 DEF Indented

\* A closing bracket takes one, and there is one to take.
LEMMA IndentedClose ==
  ASSUME NEW x, NEW i \in Nat, i > 0, NEW ind, Indented(x, i, ind), x[i] \in Closers, Deep(x, i) >= 0
  PROVE  Indented(x, i + 1, ind - IndentSize) /\ ind - IndentSize >= 0
<1>1. PICK k \in Nat : k = i - 1 /\ i = k + 1 /\ (i + 1) - 1 = i  OBVIOUS
<1>2. Deep(x, i) = Deep(x, k) - 1  BY <1>1, DeepStep
<1>3. PICK z \in Nat : ind = IndentSize * z /\ z >= Deep(x, k)  BY <1>1 DEF Indented
<1>4. PICK a \in Int, b \in Int : a = Deep(x, k) /\ b = Deep(x, i)  BY <1>1, DeepIs
<1>5. PICK w \in Nat : w + 1 = z /\ w >= b
  <2>1. b = a - 1 /\ b >= 0 /\ z >= a  BY <1>2, <1>3, <1>4
  <2>2. z - 1 \in Nat /\ (z - 1) + 1 = z /\ z - 1 >= b  BY <2>1
  <2> QED  BY <2>2
<1>6. IndentSize * z = IndentSize * w + IndentSize /\ IndentSize * w \in Nat  BY <1>5, TimesMore
<1>7. ind - IndentSize = IndentSize * w
  <2>1. PICK p \in Nat : p = IndentSize * w  BY <1>6
  <2>2. ind = p + IndentSize  BY <1>3, <1>6, <2>1
  <2> QED  BY <2>1, <2>2, IndentAssumption
<1>8. Indented(x, i + 1, ind - IndentSize)  BY <1>1, <1>4, <1>5, <1>7 DEF Indented
<1> QED  BY <1>6, <1>7, <1>8

\* An empty object or array takes its level back or does not.
LEMMA IndentedEmpty ==
  ASSUME NEW x, NEW i \in Nat, i > 0, NEW ind, Indented(x, i, ind), x[i] \in Openers, x[i + 1] \in Closers,
         NEW r, r = ind + IndentSize \/ r = ind + 0
  PROVE  Indented(x, i + 2, r)
<1>1. PICK k \in Nat, l \in Nat : k = i - 1 /\ i = k + 1 /\ l = i + 1 /\ (i + 2) - 1 = l  OBVIOUS
<1>2. Deep(x, i) = Deep(x, k) + 1  BY <1>1, DeepStep
<1>3. Deep(x, l) = Deep(x, i) - 1  BY <1>1, DeepStep
<1>4. PICK a \in Int : a = Deep(x, k)  BY <1>1, DeepIs
<1>5. Deep(x, l) = a  BY <1>2, <1>3, <1>4
<1>6. PICK z \in Nat : ind = IndentSize * z /\ z >= a  BY <1>1, <1>4 DEF Indented
<1>7. PICK w \in Nat : w = z + 1  OBVIOUS
<1>8. IndentSize * w = ind + IndentSize /\ w >= a /\ ind \in Nat  BY <1>6, <1>7, TimesMore
<1>9. ind + 0 = ind  BY <1>8
<1> QED  BY <1>1, <1>5, <1>6, <1>8, <1>9 DEF Indented

(* The calls of the formatters.                                                *)
Progress(o, x, t, i, w, ind) ==
  /\ o = "minify" => i \in 2..(Len(t) + 1) /\ (Shape(x) => Minified(x, t, i, w))
  /\ o = "prettify" => i \in Nat \ {0} /\ (Tidy(x) => Written(x, i, w) /\ Indented(x, i, ind))

\* What a call that has ended has done.
HasDone(h) ==
  /\ IsText(h.text)
  /\ h.op = "minify" /\ Shape(h.text) => h.ok = TRUE /\ h.out = NoWs(h.text)
  /\ h.op = "prettify" /\ Tidy(h.text) => Shape(h.out) /\ NoWs(h.out) = h.text

FInv ==
  /\ op \in {"idle", "minify", "prettify"} /\ IsText(text) /\ OutOk(out)
  /\ Progress(op, text, tape, iter, out, indent)
  /\ HasDone(before[1]) /\ HasDone(before[2])

\* A document that is formatted has an entry.
LEMMA HasEntry ==
  ASSUME NEW x
  PROVE  /\ Shape(x) => Entries(x, FALSE) # <<>>
         /\ Tidy(x) => Entries(x, TRUE) # <<>>
<1>1. ASSUME Shape(x) PROVE Entries(x, FALSE) # <<>>
  <2>1. PICK n \in Nat : n = Len(x)  BY <1>1 DEF Shape, IsText
  <2>2. PICK t : t = Entries(x, FALSE)  OBVIOUS
  <2>3. IsTape(t, x, FALSE)  BY <2>1, <2>2, TapeIs
  <2>4. PICK e \in 2..(n + 1) : x[e - 1] \in Closers  BY <1>1, <2>1 DEF Shape
  <2>5. PICK p \in 1..n : p = e - 1  BY <2>4
  <2>6. x[p] # "ws" /\ Smooth(x, 1, n + 1)  BY <1>1, <2>1, <2>4, <2>5, Marked DEF Shape
  <2>7. Entry(x, p, FALSE)  BY <2>1, <2>6, SmoothEntry
  <2>8. \E i \in 1..Len(t) : t[i] = p  BY <2>1, <2>3, <2>7 DEF IsTape
  <2>9. t # <<>>
    <3>1. Len(<<>>) = 0  OBVIOUS
    <3> QED  BY <2>8, <3>1
  <2> QED  BY <2>2, <2>9
<1>2. ASSUME Tidy(x) PROVE Entries(x, TRUE) # <<>>
  <2>1. PICK n \in Nat : n = Len(x) /\ n > 0  BY <1>2 DEF Tidy, IsText
  <2>2. PICK t : t = Entries(x, TRUE)  OBVIOUS
  <2>3. IsTape(t, x, TRUE)  BY <2>1, <2>2, TapeIs
  <2>4. Len(t) = n  BY <1>2, <2>1, <2>3, TidyTape
  <2>5. t # <<>>
    <3>1. Len(<<>>) = 0  OBVIOUS
    <3> QED  BY <2>1, <2>4, <3>1
  <2> QED  BY <2>2, <2>5
<1> QED  BY <1>1, <1>2

\* The record of a call.
LEMMA FinishIs ==
  ASSUME NEW a, Finish(a)
  PROVE  /\ op' = "idle" /\ before'[2] = before[1]
         /\ before'[1].op = op /\ before'[1].text = text /\ before'[1].out = out' /\ before'[1].ok = a
BY DEF Finish

\* A step that ends a call.
LEMMA FinishOk ==
  ASSUME FInv, NEW a, Finish(a), text' = text, OutOk(out'),
         op = "minify" /\ Shape(text) => a = TRUE /\ out' = NoWs(text),
         op = "prettify" /\ Tidy(text) => Shape(out') /\ NoWs(out') = text
  PROVE  FInv'
<1>1. /\ op' = "idle" /\ before'[2] = before[1]
      /\ before'[1].op = op /\ before'[1].text = text /\ before'[1].out = out' /\ before'[1].ok = a
  BY FinishIs
<1>2. HasDone(before'[1])  BY <1>1 DEF HasDone, FInv
<1>3. HasDone(before'[2])  BY <1>1 DEF FInv
<1>4. IsText(text')  BY DEF FInv
<1>5. Progress(op', text', tape', iter', out', indent')  BY <1>1 DEF Progress
<1> QED  BY <1>1, <1>2, <1>3, <1>4, <1>5 DEF FInv

\* And one with which it goes on.
LEMMA GoesOk ==
  ASSUME FInv, op' = op, before' = before, text' = text, OutOk(out'),
         Progress(op, text, tape, iter', out', indent')
  PROVE  FInv'
<1>1. tape' = tape  BY DEF tape
<1>2. Progress(op', text', tape', iter', out', indent')  BY <1>1
<1> QED  BY <1>2 DEF FInv

\* A call begins.
LEMMA BeginIs ==
  ASSUME FInv, NEW which, Begin(which), NEW m, m = (which = "prettify")
  PROVE  /\ IsText(text') /\ out' = <<>> /\ indent' = 0
         /\ \/ /\ Entries(text', m) = <<>> /\ op' = "idle" /\ before'[2] = before[1]
               /\ before'[1].op = which /\ before'[1].text = text'
            \/ /\ Entries(text', m) # <<>> /\ op' = which /\ before' = before
<1>1. PICK x \in Given \cup (IF ok /\ "cut" \notin ToSet(out) THEN {out} ELSE {}) :
        /\ text' = x
        /\ out' = <<>> /\ indent' = 0
        /\ IF Entries(x, which = "prettify") = <<>>
             THEN /\ op' = "idle"
                  /\ before' = <<[op |-> which, text |-> x, out |-> <<>>, ok |-> FALSE], before[1]>>
             ELSE op' = which /\ before' = before
  BY DEF Begin
<1>2. IsText(x)
  <2>1. CASE x \in Given
    <3>1. Given \subseteq Documents \cup Again  BY DEF Given
    <3> QED  BY <2>1, <3>1, DocumentsAssumption
  <2>2. CASE x = out /\ "cut" \notin ToSet(out)  BY <2>2, OutIsText DEF FInv
  <2> QED  BY <1>1, <2>1, <2>2
<1>3. CASE Entries(x, m) = <<>>
  <2>1. before' = <<[op |-> which, text |-> x, out |-> <<>>, ok |-> FALSE], before[1]>> /\ op' = "idle"
    BY <1>1, <1>3
  <2>2. before'[2] = before[1] /\ before'[1].op = which /\ before'[1].text = x  BY <2>1
  <2> QED  BY <1>1, <1>2, <1>3, <2>1, <2>2
<1>4. CASE Entries(x, m) # <<>>  BY <1>1, <1>2, <1>4
<1> QED  BY <1>3, <1>4

\* A call of the minifier begins.
LEMMA StartMinifyOk == ASSUME FInv, StartMinify PROVE FInv'
<1>1. PICK which, m : which = "minify" /\ m = (which = "prettify")  OBVIOUS
<1>2. Begin(which) /\ iter' = 2 /\ m = FALSE  BY <1>1 DEF StartMinify
<1>3. IsText(text') /\ out' = <<>> /\ OutOk(out')  BY <1>1, <1>2, BeginIs, NoneOk
<1>4. CASE /\ Entries(text', m) = <<>> /\ op' = "idle" /\ before'[2] = before[1]
           /\ before'[1].op = which /\ before'[1].text = text'
  <2>1. ~Shape(text')  BY <1>2, <1>4, HasEntry
  <2>2. HasDone(before'[1])  BY <1>1, <1>3, <1>4, <2>1 DEF HasDone
  <2>3. HasDone(before'[2])  BY <1>4 DEF FInv
  <2>4. Progress(op', text', tape', iter', out', indent')  BY <1>4 DEF Progress
  <2> QED  BY <1>3, <1>4, <2>2, <2>3, <2>4 DEF FInv
<1>5. CASE Entries(text', m) # <<>> /\ op' = which /\ before' = before
  <2>1. PICK x, t : x = text' /\ t = tape'  OBVIOUS
  <2>2. t = Entries(x, FALSE)  BY <1>1, <1>5, <2>1 DEF tape
  <2>3. IsTape(t, x, FALSE) /\ t # <<>>
    <3>1. PICK n \in Nat : n = Len(x)  BY <1>3, <2>1 DEF IsText
    <3>2. IsTape(t, x, FALSE)  BY <2>2, <3>1, TapeIs
    <3> QED  BY <1>2, <1>5, <2>1, <2>2, <3>2
  <2>4. 2 \in 2..(Len(t) + 1)
    <3>1. Len(t) \in Nat /\ Len(t) # 0  BY <2>3 DEF IsTape
    <3> QED  BY <3>1
  <2>5. Shape(x) => Minified(x, t, 2, <<>>)  BY <2>3, MinifiedStart
  <2>6. Progress(op', text', tape', iter', out', indent')
    BY <1>1, <1>2, <1>3, <1>5, <2>1, <2>4, <2>5 DEF Progress
  <2> QED  BY <1>1, <1>3, <1>5, <2>6 DEF FInv
<1> QED  BY <1>1, <1>2, <1>4, <1>5, BeginIs

\* A call of the prettifier begins.
LEMMA StartPrettifyOk == ASSUME FInv, StartPrettify PROVE FInv'
<1>1. PICK which, m : which = "prettify" /\ m = (which = "prettify")  OBVIOUS
<1>2. Begin(which) /\ iter' = 1 /\ m = TRUE  BY <1>1 DEF StartPrettify
<1>3. IsText(text') /\ out' = <<>> /\ indent' = 0 /\ OutOk(out')  BY <1>1, <1>2, BeginIs, NoneOk
<1>4. CASE /\ Entries(text', m) = <<>> /\ op' = "idle" /\ before'[2] = before[1]
           /\ before'[1].op = which /\ before'[1].text = text'
  <2>1. ~Tidy(text')  BY <1>2, <1>4, HasEntry
  <2>2. HasDone(before'[1])  BY <1>1, <1>3, <1>4, <2>1 DEF HasDone
  <2>3. HasDone(before'[2])  BY <1>4 DEF FInv
  <2>4. Progress(op', text', tape', iter', out', indent')  BY <1>4 DEF Progress
  <2> QED  BY <1>3, <1>4, <2>2, <2>3, <2>4 DEF FInv
<1>5. CASE Entries(text', m) # <<>> /\ op' = which /\ before' = before
  <2>1. PICK x, t : x = text' /\ t = tape'  OBVIOUS
  <2>2. Written(x, 1, <<>>)  BY <1>3, <2>1, WrittenStart
  <2>3. Indented(x, 1, 0)  BY IndentedStart
  <2>4. Progress(op', text', tape', iter', out', indent')
    BY <1>1, <1>2, <1>3, <1>5, <2>1, <2>2, <2>3 DEF Progress
  <2> QED  BY <1>1, <1>3, <1>5, <2>4 DEF FInv
<1> QED  BY <1>1, <1>2, <1>4, <1>5, BeginIs

\* The minifier copies an entry.
LEMMA MinifyEntryOk == ASSUME FInv, MinifyEntry PROVE FInv'
<1>1. PICK x, t, c : x = text /\ t = tape /\ c = At(iter - 1)  OBVIOUS
<1>2. op = "minify" /\ iter <= Len(tape) /\ text' = text  BY MinifyEntryIs
<1>3. PICK m \in Nat : m = Len(t)  BY <1>1, <1>2, TapeOf DEF FInv
<1>4. iter \in 2..m /\ iter - 1 \in 1..(m - 1) /\ iter - 1 \in 1..m /\ iter - 1 \in 1..Len(tape)
  <2>1. iter \in 2..(m + 1) /\ iter <= m  BY <1>1, <1>2, <1>3 DEF FInv, Progress
  <2> QED  BY <1>1, <1>3, <2>1
<1>5. c = x[t[iter - 1]]  BY <1>1, <1>4 DEF At
<1>6. IsTape(t, x, FALSE)  BY <1>1, <1>2, TapeOf DEF FInv
<1>7. ASSUME CallGoesOn, OutOk(out'), Shape(x) => out' = Append(out, c) PROVE FInv'
  <2>1. ASSUME Shape(x) PROVE Minified(x, t, iter', out')
    <3>1. Minified(x, t, iter, out)  BY <1>1, <1>2, <2>1 DEF FInv, Progress
    <3>2. Minified(x, t, iter + 1, Append(out, c))  BY <1>3, <1>4, <1>5, <1>6, <2>1, <3>1, MinifiedStep
    <3> QED  BY <1>7, <2>1, <3>2 DEF CallGoesOn
  <2>2. iter' \in 2..(Len(tape) + 1)  BY <1>1, <1>3, <1>4, <1>7 DEF CallGoesOn
  <2>3. Progress(op, text, tape, iter', out', indent')  BY <1>1, <1>2, <2>1, <2>2 DEF Progress
  <2> QED  BY <1>2, <1>7, <2>3, GoesOk DEF CallGoesOn
<1>8. OutOk(out)  BY DEF FInv
<1>9. CASE c \in Strings \cup {"num"} /\ Write(WithoutEndWs(Stretch(iter - 1))) /\ CallGoesOn
  <2>1. PICK y : y = WithoutEndWs(Stretch(iter - 1))  OBVIOUS
  <2>2. out' = Join(out, y)  BY <1>9, <2>1 DEF Write
  <2>3. OutOk(y)
    <3>1. OutOk(Stretch(iter - 1))  BY <1>2, <1>4, StretchOk DEF FInv
    <3> QED  BY <2>1, <3>1, WithoutOk
  <2>4. ASSUME Shape(x) PROVE out' = Append(out, c)
    <3>1. PICK n \in Nat : n = Len(text)  BY DEF FInv, IsText
    <3>2. Smooth(text, 1, n + 1) /\ IsText(text)  BY <1>1, <2>4, <3>1 DEF Shape
    <3>3. PICK i \in 1..(m - 1) : i = iter - 1  BY <1>4
    <3>4. WithoutEndWs(Stretch(i)) = <<text[tape[i]]>>  BY <1>1, <1>3, <1>6, <3>1, <3>2, StretchIs
    <3>5. y = <<c>>  BY <1>1, <1>5, <2>1, <3>3, <3>4
    <3>6. c # "ws"
      <4>1. PICK a : a = t[iter - 1]  OBVIOUS
      <4>2. a \in 1..n  BY <1>1, <1>3, <1>4, <1>6, <3>1, <4>1 DEF IsTape
      <4>3. iter - 1 \in 1..Len(t)  BY <1>3, <1>4
      <4>4. Entry(x, a, FALSE)  BY <1>6, <4>1, <4>3 DEF IsTape
      <4> QED  BY <1>1, <1>5, <3>1, <3>2, <4>1, <4>2, <4>4, SmoothEntry
    <3> QED  BY <1>8, <2>2, <3>5, <3>6, JoinOne
  <2>5. OutOk(out')  BY <1>8, <2>2, <2>3, JoinOk
  <2> QED  BY <1>7, <1>9, <2>4, <2>5
<1>10. CASE c \in Lone /\ Write(<<c>>) /\ CallGoesOn
  <2>1. out' = Join(out, <<c>>) /\ c # "ws" /\ c \in Lexeme  BY <1>10, LoneNoWs, LoneIs DEF Write
  <2>2. out' = Append(out, c)  BY <1>8, <2>1, JoinOne
  <2>3. OutOk(out')  BY <1>8, <2>1, OneOk, JoinOk
  <2> QED  BY <1>7, <1>10, <2>2, <2>3
<1>11. CASE c = "junk" /\ CallEnds(TRUE)
  <2>1. ASSUME Shape(x) PROVE FALSE
    <3>1. PICK n \in Nat : n = Len(x)  BY <2>1 DEF Shape, IsText
    <3>2. t[iter - 1] \in 1..n  BY <1>3, <1>4, <1>6, <3>1 DEF IsTape
    <3>3. t[iter - 1] \in 1..((n + 1) - 1)  BY <3>1, <3>2
    <3>4. c \in Plain  BY <1>5, <2>1, <3>1, <3>3 DEF Shape, Smooth
    <3> QED  BY <1>11, <3>4, NoJunk
  <2>2. out' = out /\ Finish(TRUE)  BY <1>11 DEF CallEnds
  <2> QED  BY <1>1, <1>2, <1>8, <2>1, <2>2, FinishOk
<1> QED  BY <1>1, <1>9, <1>10, <1>11, MinifyEntryIs

\* It copies the last one.
LEMMA MinifyLastOk == ASSUME FInv, MinifyLast PROVE FInv'
<1>1. PICK x, t : x = text /\ t = tape  OBVIOUS
<1>2. op = "minify" /\ iter > Len(tape) /\ text' = text  BY MinifyLastIs
<1>3. PICK c \in Lone \cup {"num", "cut"} :
        /\ \/ c = At(iter - 1)
           \/ c = "cut" /\ At(iter - 1) \in Strings \cup {"num", "true", "null", "junk"}
        /\ Write(<<c>>) /\ Finish(TRUE)
  BY MinifyLastIs
<1>4. out' = Join(out, <<c>>) /\ OutOk(out)  BY <1>3 DEF Write, FInv
<1>5. OutOk(out')
  <2>1. c \in Lexeme  BY <1>3, LoneIs
  <2> QED  BY <1>4, <2>1, OneOk, JoinOk
<1>6. ASSUME Shape(x) PROVE out' = NoWs(x)
  <2>1. PICK m \in Nat : m = Len(t)  BY <1>1, <1>2, TapeOf DEF FInv
  <2>2. IsTape(t, x, FALSE)  BY <1>1, <1>2, TapeOf DEF FInv
  <2>3. Minified(x, t, iter, out)  BY <1>1, <1>2, <1>6 DEF FInv, Progress
  <2>4. /\ iter - 1 = m /\ m \in 1..Len(t) /\ x[t[m]] \in Closers
        /\ Append(out, x[t[m]]) = NoWs(x)
    BY <1>1, <1>2, <1>6, <2>1, <2>2, <2>3, MinifiedLast
  <2>5. At(iter - 1) = x[t[m]]  BY <1>1, <2>4 DEF At
  <2>6. At(iter - 1) \notin Strings \cup {"num", "true", "null", "junk"}  BY <2>4, <2>5, ClosersAre
  <2>7. c = x[t[m]]  BY <1>3, <2>5, <2>6
  <2>8. c # "ws"  BY <2>4, <2>7, Marked
  <2> QED  BY <1>4, <2>4, <2>7, <2>8, JoinOne
<1> QED  BY <1>1, <1>2, <1>3, <1>5, <1>6, FinishOk

\* Where the prettifier is in a document without whitespace.
LEMMA TidyAt ==
  ASSUME FInv, op = "prettify", Tidy(text), NEW n \in Nat, n = Len(text), NEW m, m = Len(tape)
  PROVE  /\ m = n /\ (\A i \in 1..n : At(i) = text[i] /\ Stretch(i) = <<text[i]>>)
         /\ \A i \in Nat : i > n => At(i) = "end"
<1>1. IsTape(tape, text, TRUE)  BY TapeOf DEF FInv
<1>2. m = n /\ \A i \in 1..n : tape[i] = i  BY <1>1, TidyTape
<1>3. ASSUME NEW i \in 1..n PROVE At(i) = text[i]  BY <1>2, <1>3 DEF At
<1>4. PICK S : S = V!Lexemes /\ text \in Seq(S)  BY DEF FInv, IsText
<1>5. ASSUME NEW i \in 1..n PROVE Stretch(i) = <<text[i]>>
  <2>1. PICK y : y = SubSeq(text, i, i)  OBVIOUS
  <2>2. y \in Seq(S) /\ Len(y) = 1 /\ y[1] = text[i]  BY <1>4, <1>5, <2>1
  <2>3. y = <<text[i]>>  BY <2>2, Solo
  <2>4. CASE i < n
    <3>1. i + 1 \in 1..n /\ (i + 1) - 1 = i  BY <1>5, <2>4
    <3>2. i < Len(tape) /\ tape[i] = i /\ tape[i + 1] - 1 = i  BY <1>2, <1>5, <2>4, <3>1
    <3> QED  BY <2>1, <2>3, <3>2 DEF Stretch
  <2>5. CASE i = n
    <3>1. ~(i < Len(tape)) /\ tape[i] = i  BY <1>2, <1>5, <2>5
    <3> QED  BY <2>1, <2>3, <2>5, <3>1 DEF Stretch
  <2> QED  BY <2>4, <2>5
<1>6. ASSUME NEW i \in Nat, i > n PROVE At(i) = "end"
  <2>1. i \notin 1..Len(tape)  BY <1>2, <1>6
  <2> QED  BY <2>1 DEF At
<1> QED  BY <1>2, <1>3, <1>5, <1>6

\* What the lexemes of a document without whitespace are.
LEMMA TidyPlain ==
  ASSUME NEW x, Tidy(x), NEW n \in Nat, n = Len(x), NEW i \in 1..n
  PROVE  x[i] \in Plain /\ x[i] # "ws" /\ x[i] # "junk" /\ x[i] # "end" /\ Deep(x, i) >= 0
<1>1. i \in 1..((n + 1) - 1)  OBVIOUS
<1>2. x[i] \in Plain /\ x[i] # "ws" /\ Deep(x, i) >= 0  BY <1>1 DEF Tidy, Smooth
<1> QED  BY <1>2, NoJunk

\* Between the brackets nothing changes the level.
LEMMA NoBracket == \A c \in Strings \cup {"num", "true", "null", Colon, Comma} : c \notin Openers /\ c \notin Closers
<1>1. Colon \notin Openers \cup Closers /\ Comma \notin Openers \cup Closers  BY DEF Colon, Comma, Openers, Closers
<1>2. "true" \notin Openers \cup Closers /\ "null" \notin Openers \cup Closers  BY DEF Openers, Closers
<1> QED  BY <1>1, <1>2, ClosersAre

\* The prettifier copies a scalar, a colon or a comma.
LEMMA PrettifyValueOk == ASSUME FInv, PrettifyValue PROVE FInv'
<1>1. PICK c : c = At(iter)  OBVIOUS
<1>2. op = "prettify" /\ iter <= Len(tape) /\ text' = text /\ CallGoesOn /\ indent' = indent
  BY PrettifyValueIs
<1>3. \/ c \in Strings \cup {"num"} /\ Write(Stretch(iter))
      \/ c \in {"true", "null"} /\ Write(<<c>>)
      \/ c \in {Colon, Comma} /\ Write(<<c, "ws">>)
  BY <1>1, PrettifyValueIs
<1>4. OutOk(out) /\ iter \in Nat \ {0}  BY <1>2 DEF FInv, Progress
<1>5. PICK m \in Nat : m = Len(tape)  BY <1>2, TapeOf DEF FInv
<1>6. iter \in 1..Len(tape)  BY <1>2, <1>4, <1>5
<1>7. ASSUME OutOk(out'), Tidy(text) => Written(text, iter + 1, out') PROVE FInv'
  <2>1. ASSUME Tidy(text) PROVE Indented(text, iter + 1, indent)
    <3>1. Indented(text, iter, indent)  BY <1>2, <2>1 DEF FInv, Progress
    <3>2. PICK n \in Nat : n = Len(text)  BY <2>1 DEF Tidy, IsText
    <3>3. c = text[iter]  BY <1>1, <1>2, <1>5, <1>6, <2>1, <3>2, TidyAt
    <3>4. c \notin Openers /\ c \notin Closers
      <4>1. c \in Strings \cup {"num", "true", "null", Colon, Comma}  BY <1>3
      <4> QED  BY <4>1, NoBracket
    <3>5. iter \in Nat /\ iter > 0  BY <1>4
    <3> QED  BY <3>1, <3>3, <3>4, <3>5, IndentedFlat
  <2>2. iter + 1 \in Nat \ {0} /\ iter' = iter + 1  BY <1>2, <1>4 DEF CallGoesOn
  <2>3. Progress(op, text, tape, iter', out', indent')  BY <1>2, <1>7, <2>1, <2>2 DEF Progress
  <2> QED  BY <1>2, <1>7, <2>3, GoesOk DEF CallGoesOn
<1>8. ASSUME Tidy(text), NEW n, n = Len(text)
      PROVE  /\ iter <= n /\ c = text[iter] /\ Stretch(iter) = <<c>> /\ c # "ws"
             /\ Written(text, iter, out)
  <2>1. n \in Nat  BY <1>8 DEF Tidy, IsText
  <2>2. m = n /\ \A i \in 1..n : At(i) = text[i] /\ Stretch(i) = <<text[i]>>  BY <1>2, <1>5, <1>8, <2>1, TidyAt
  <2>3. iter \in 1..n  BY <1>5, <1>6, <2>2
  <2>4. c = text[iter] /\ Stretch(iter) = <<c>> /\ c # "ws"  BY <1>1, <1>8, <2>1, <2>2, <2>3, TidyPlain
  <2> QED  BY <1>2, <1>8, <2>1, <2>3, <2>4 DEF FInv, Progress
<1>9. CASE c \in Strings \cup {"num"} /\ Write(Stretch(iter))
  <2>1. out' = Join(out, Stretch(iter))  BY <1>9 DEF Write
  <2>2. OutOk(out')
    <3>1. OutOk(Stretch(iter))  BY <1>2, <1>6, StretchOk DEF FInv
    <3> QED  BY <1>4, <2>1, <3>1, JoinOk
  <2>3. ASSUME Tidy(text) PROVE Written(text, iter + 1, out')
    <3>1. out' = Append(out, text[iter])  BY <1>4, <1>8, <2>1, <2>3, JoinOne
    <3> QED  BY <1>8, <2>3, <3>1, TokenWritten
  <2> QED  BY <1>7, <2>2, <2>3
<1>10. CASE c \in {"true", "null"} /\ Write(<<c>>)
  <2>1. out' = Join(out, <<c>>)  BY <1>10 DEF Write
  <2>2. OutOk(out')
    <3>1. c \in Lexeme  BY <1>10, LoneIs DEF Lone
    <3> QED  BY <1>4, <2>1, <3>1, OneOk, JoinOk
  <2>3. ASSUME Tidy(text) PROVE Written(text, iter + 1, out')
    <3>1. out' = Append(out, text[iter])  BY <1>4, <1>8, <2>1, <2>3, JoinOne
    <3> QED  BY <1>8, <2>3, <3>1, TokenWritten
  <2> QED  BY <1>7, <2>2, <2>3
<1>11. CASE c \in {Colon, Comma} /\ Write(<<c, "ws">>)
  <2>1. out' = Join(out, <<c, "ws">>)  BY <1>11 DEF Write
  <2>2. c \in Lone  BY <1>11 DEF Lone
  <2>3. OutOk(out')
    <3>1. c \in Lexeme /\ "ws" \in Lexeme /\ c # "ws"  BY <2>2, LoneIs, LoneNoWs
    <3>2. OutOk(<<c, "ws">>)  BY <3>1, TwoOk
    <3> QED  BY <1>4, <2>1, <3>2, JoinOk
  <2>4. ASSUME Tidy(text) PROVE Written(text, iter + 1, out')
    <3>3. c = text[iter] /\ c # "ws"  BY <1>8, <2>4
    <3>4. PICK d : d = "ws"  OBVIOUS
    <3>5. Join(out, <<c, d>>) = Append(Append(out, c), d)  BY <1>4, <3>3, JoinTwo
    <3>1. out' = Append(Append(out, text[iter]), "ws")  BY <2>1, <3>3, <3>4, <3>5
    <3>2. text[iter] \notin Closers  BY <1>8, <1>11, <2>4, NoBracket
    <3> QED  BY <1>8, <2>4, <3>1, <3>2, TokenSpaceWritten
  <2> QED  BY <1>7, <2>3, <2>4
<1> QED  BY <1>3, <1>9, <1>10, <1>11

\* It opens a container.
LEMMA PrettifyOpenOk == ASSUME FInv, PrettifyOpen PROVE FInv'
<1>1. PICK c, d, w : c = At(iter) /\ d = At(iter + 1) /\ w = "ws"  OBVIOUS
<1>2. op = "prettify" /\ c \in Openers /\ text' = text /\ op' = op /\ before' = before
  BY <1>1, PrettifyOpenIs
<1>3. \/ /\ d \in Closers /\ Write(<<c, d>>) /\ iter' = iter + 2
         /\ indent' = indent + IndentSize \/ indent' = indent + 0
      \/ /\ Write(<<c, w>>) /\ iter' = iter + 1
         /\ indent' = indent + IndentSize
  BY <1>1, PrettifyOpenIs
<1>4. OutOk(out) /\ iter \in Nat \ {0}  BY <1>2 DEF FInv, Progress
<1>5. c # "ws" /\ c \in Lexeme /\ w \in Lexeme
  <2>1. c \in Lone  BY <1>2 DEF Lone
  <2> QED  BY <1>1, <2>1, LoneIs, LoneNoWs
<1>6. ASSUME Tidy(text), NEW n, n = Len(text)
      PROVE  /\ n \in Nat /\ iter \in 1..n /\ c = text[iter] /\ Written(text, iter, out) /\ Indented(text, iter, indent)
             /\ d \in Closers => iter + 1 \in 1..n /\ d = text[iter + 1]
  <2>1. n \in Nat  BY <1>6 DEF Tidy, IsText
  <2>2. PICK m : m = Len(tape)  OBVIOUS
  <2>3. (\A i \in 1..n : At(i) = text[i]) /\ \A i \in Nat : i > n => At(i) = "end"
    BY <1>2, <1>6, <2>1, <2>2, TidyAt
  <2>4. iter \in 1..n
    <3>1. SUFFICES ASSUME iter > n PROVE FALSE  BY <1>4, <2>1
    <3>2. c = "end"  BY <1>1, <1>4, <2>3, <3>1
    <3> QED  BY <1>2, <3>2, Marked
  <2>5. d \in Closers => iter + 1 \in 1..n
    <3>1. SUFFICES ASSUME d \in Closers, iter + 1 > n PROVE FALSE  BY <1>4, <2>1
    <3>2. d = "end"  BY <1>1, <1>4, <2>3, <3>1
    <3> QED  BY <3>1, <3>2, Marked
  <2>6. Written(text, iter, out) /\ Indented(text, iter, indent)  BY <1>2, <1>6 DEF FInv, Progress
  <2>7. c = text[iter]  BY <1>1, <2>3, <2>4
  <2>8. d \in Closers => d = text[iter + 1]  BY <1>1, <2>3, <2>5
  <2> QED  BY <2>1, <2>4, <2>5, <2>6, <2>7, <2>8
<1>7. CASE /\ d \in Closers /\ Write(<<c, d>>) /\ iter' = iter + 2
           /\ indent' = indent + IndentSize \/ indent' = indent + 0
  <2>1. out' = Join(out, <<c, d>>)  BY <1>7 DEF Write
  <2>2. d \in Lexeme
    <3>1. d \in Lone  BY <1>7 DEF Lone
    <3> QED  BY <3>1, LoneIs
  <2>3. OutOk(out')
    <3>1. OutOk(<<c, d>>)  BY <1>5, <2>2, TwoOk
    <3> QED  BY <1>4, <2>1, <3>1, JoinOk
  <2>4. ASSUME Tidy(text) PROVE Written(text, iter + 2, out') /\ Indented(text, iter + 2, indent')
    <3>1. PICK n : n = Len(text)  OBVIOUS
    <3>2. /\ n \in Nat /\ iter \in 1..n /\ c = text[iter] /\ Written(text, iter, out) /\ Indented(text, iter, indent)
          /\ iter + 1 \in 1..n /\ d = text[iter + 1]
      BY <1>6, <1>7, <2>4, <3>1
    <3>3. PICK u : u = Append(out, c)  OBVIOUS
    <3>4. Written(text, iter + 1, u)  BY <2>4, <3>1, <3>2, <3>3, TokenWritten
    <3>5. PICK j \in 1..n : j = iter + 1 /\ j + 1 = iter + 2  BY <3>2
    <3>6. Written(text, j, u) /\ j <= Len(text) /\ d = text[j]  BY <3>1, <3>2, <3>4, <3>5
    <3>7. Written(text, j + 1, Append(u, d))  BY <2>4, <3>6, TokenWritten
    <3>8. out' = Append(u, d)  BY <1>4, <1>5, <2>1, <3>3, JoinTwo
    <3>9. Indented(text, iter + 2, indent')
      <4>1. iter \in Nat /\ iter > 0  BY <1>4
      <4>2. text[iter] \in Openers /\ text[iter + 1] \in Closers  BY <1>2, <1>7, <3>2
      <4> QED  BY <1>7, <3>2, <4>1, <4>2, IndentedEmpty
    <3> QED  BY <3>5, <3>7, <3>8, <3>9
  <2>5. iter + 2 \in Nat \ {0}  BY <1>4
  <2>6. Progress(op, text, tape, iter', out', indent')  BY <1>2, <1>7, <2>4, <2>5 DEF Progress
  <2> QED  BY <1>2, <2>3, <2>6, GoesOk
<1>8. CASE Write(<<c, w>>) /\ iter' = iter + 1 /\ indent' = indent + IndentSize
  <2>1. out' = Join(out, <<c, w>>)  BY <1>8 DEF Write
  <2>2. OutOk(out')
    <3>1. OutOk(<<c, w>>)  BY <1>5, TwoOk
    <3> QED  BY <1>4, <2>1, <3>1, JoinOk
  <2>3. ASSUME Tidy(text) PROVE Written(text, iter + 1, out') /\ Indented(text, iter + 1, indent')
    <3>1. PICK n : n = Len(text)  OBVIOUS
    <3>2. n \in Nat /\ iter \in 1..n /\ c = text[iter] /\ Written(text, iter, out) /\ Indented(text, iter, indent)
      BY <1>6, <2>3, <3>1
    <3>3. out' = Append(Append(out, c), w)  BY <1>4, <1>5, <2>1, JoinTwo
    <3>4. text[iter] \notin Closers  BY <1>2, <3>2, Marked
    <3>5. Written(text, iter + 1, out')  BY <1>1, <2>3, <3>1, <3>2, <3>3, <3>4, TokenSpaceWritten
    <3>6. Indented(text, iter + 1, indent')
      <4>1. iter \in Nat /\ iter > 0 /\ text[iter] \in Openers  BY <1>2, <1>4, <3>2
      <4> QED  BY <1>8, <3>2, <4>1, IndentedOpen
    <3> QED  BY <3>5, <3>6
  <2>4. iter + 1 \in Nat \ {0}  BY <1>4
  <2>5. Progress(op, text, tape, iter', out', indent')  BY <1>2, <1>8, <2>3, <2>4 DEF Progress
  <2> QED  BY <1>2, <2>2, <2>5, GoesOk
<1> QED  BY <1>3, <1>7, <1>8

\* It closes one.
LEMMA PrettifyCloseOk == ASSUME FInv, PrettifyClose PROVE FInv'
<1>1. PICK c, w : c = At(iter) /\ w = "ws"  OBVIOUS
<1>2. op = "prettify" /\ c \in Closers /\ text' = text /\ indent' = indent - IndentSize
  BY <1>1, PrettifyCloseIs
<1>3. (indent' < 0 /\ CallEnds(FALSE)) \/ (Write(<<w, c>>) /\ CallGoesOn)
  BY <1>1, PrettifyCloseIs
<1>4. OutOk(out) /\ iter \in Nat \ {0}  BY <1>2 DEF FInv, Progress
<1>5. c # "ws" /\ c \in Lexeme /\ w \in Lexeme
  <2>1. c \in Lone  BY <1>2 DEF Lone
  <2> QED  BY <1>1, <2>1, LoneIs, LoneNoWs
<1>6. ASSUME Tidy(text), NEW n, n = Len(text)
      PROVE  /\ n \in Nat /\ iter \in 1..n /\ c = text[iter] /\ Written(text, iter, out)
             /\ Indented(text, iter + 1, indent') /\ indent' >= 0
  <2>1. n \in Nat  BY <1>6 DEF Tidy, IsText
  <2>2. PICK m : m = Len(tape)  OBVIOUS
  <2>3. (\A i \in 1..n : At(i) = text[i]) /\ \A i \in Nat : i > n => At(i) = "end"
    BY <1>2, <1>6, <2>1, <2>2, TidyAt
  <2>4. iter \in 1..n
    <3>1. SUFFICES ASSUME iter > n PROVE FALSE  BY <1>4, <2>1
    <3>2. c = "end"  BY <1>1, <1>4, <2>3, <3>1
    <3> QED  BY <1>2, <3>2, Marked
  <2>5. Written(text, iter, out) /\ Indented(text, iter, indent)  BY <1>2, <1>6 DEF FInv, Progress
  <2>6. c = text[iter]  BY <1>1, <2>3, <2>4
  <2>7. Deep(text, iter) >= 0  BY <1>6, <2>1, <2>4, TidyPlain
  <2>8. Indented(text, iter + 1, indent - IndentSize) /\ indent - IndentSize >= 0
    <3>1. iter \in Nat /\ iter > 0 /\ text[iter] \in Closers  BY <1>2, <1>4, <2>6
    <3> QED  BY <2>5, <2>7, <3>1, IndentedClose
  <2> QED  BY <1>2, <2>1, <2>4, <2>5, <2>6, <2>8
<1>7. CASE indent' < 0 /\ CallEnds(FALSE)
  <2>1. ~Tidy(text)
    <3>1. SUFFICES ASSUME Tidy(text) PROVE FALSE  OBVIOUS
    <3>2. PICK n : n = Len(text)  OBVIOUS
    <3>3. indent' >= 0 /\ Indented(text, iter + 1, indent')  BY <1>6, <3>1, <3>2
    <3>4. indent' \in Nat
      <4>1. PICK z \in Nat : indent' = IndentSize * z  BY <3>3 DEF Indented
      <4> QED  BY <4>1, TimesMore
    <3> QED  BY <1>7, <3>3, <3>4
  <2>2. out' = out /\ Finish(FALSE)  BY <1>7 DEF CallEnds
  <2> QED  BY <1>2, <1>4, <2>1, <2>2, FinishOk
<1>8. CASE Write(<<w, c>>) /\ CallGoesOn
  <2>1. out' = Join(out, <<w, c>>)  BY <1>8 DEF Write
  <2>2. OutOk(out')
    <3>1. OutOk(<<w, c>>)  BY <1>5, TwoOk
    <3> QED  BY <1>4, <2>1, <3>1, JoinOk
  <2>3. ASSUME Tidy(text) PROVE Written(text, iter + 1, out') /\ Indented(text, iter + 1, indent')
    <3>1. PICK n : n = Len(text)  OBVIOUS
    <3>2. /\ n \in Nat /\ iter \in 1..n /\ c = text[iter] /\ Written(text, iter, out)
          /\ Indented(text, iter + 1, indent')
      BY <1>6, <2>3, <3>1
    <3>3. CASE LastIs(out, "ws")
      <4>1. out' = Append(out, c)  BY <1>1, <1>4, <2>1, <3>3, JoinSpace DEF LastIs
      <4> QED  BY <2>3, <3>1, <3>2, <4>1, TokenWritten
    <3>4. CASE ~LastIs(out, "ws")
      <4>1. out' = Append(Append(out, "ws"), c)  BY <1>1, <1>4, <2>1, <3>4, JoinSpace DEF LastIs
      <4> QED  BY <2>3, <3>1, <3>2, <3>4, <4>1, SpaceTokenWritten
    <3> QED  BY <3>3, <3>4
  <2>4. iter + 1 \in Nat \ {0} /\ iter' = iter + 1  BY <1>4, <1>8 DEF CallGoesOn
  <2>5. Progress(op, text, tape, iter', out', indent')  BY <1>2, <2>3, <2>4 DEF Progress
  <2> QED  BY <1>2, <1>8, <2>2, <2>5, GoesOk DEF CallGoesOn
<1> QED  BY <1>3, <1>7, <1>8

\* It ends.
LEMMA PrettifyEndOk == ASSUME FInv, PrettifyEnd PROVE FInv'
<1>1. op = "prettify" /\ At(iter) \in {"end", "ws", "junk"} /\ text' = text /\ out' = out /\ Finish(TRUE)
  BY PrettifyEndIs DEF CallEnds
<1>2. OutOk(out) /\ iter \in Nat \ {0}  BY <1>1 DEF FInv, Progress
<1>3. ASSUME Tidy(text) PROVE Shape(out) /\ NoWs(out) = text
  <2>1. PICK n \in Nat : n = Len(text)  BY <1>3 DEF Tidy, IsText
  <2>2. PICK m : m = Len(tape)  OBVIOUS
  <2>3. \A i \in 1..n : At(i) = text[i]  BY <1>1, <1>3, <2>1, <2>2, TidyAt
  <2>4. Written(text, iter, out)  BY <1>1, <1>3 DEF FInv, Progress
  <2>5. iter \in 1..(n + 1)  BY <2>1, <2>4 DEF Written
  <2>6. iter \notin 1..n
    <3>1. SUFFICES ASSUME iter \in 1..n PROVE FALSE  OBVIOUS
    <3>2. At(iter) = text[iter]  BY <2>3, <3>1
    <3>3. text[iter] # "ws" /\ text[iter] # "junk" /\ text[iter] # "end"  BY <1>3, <2>1, <3>1, TidyPlain
    <3> QED  BY <1>1, <3>2, <3>3
  <2>7. iter = Len(text) + 1  BY <2>1, <2>5, <2>6
  <2> QED  BY <1>3, <2>4, <2>7, WrittenAll
<1> QED  BY <1>1, <1>2, <1>3, FinishOk

\* No call, nothing done.
LEMMA FormatStart == CoreInit => FInv
<1> SUFFICES ASSUME CoreInit PROVE FInv  OBVIOUS
<1>1. op = "idle" /\ text = <<>> /\ out = <<>> /\ before = <<NoCall, NoCall>>  BY DEF CoreInit, Init
<1>2. before[1] = NoCall /\ before[2] = NoCall  BY <1>1
<1>3. HasDone(NoCall)  BY NoneOk DEF HasDone, NoCall
<1> QED  BY <1>1, <1>2, <1>3, NoneOk DEF FInv, Progress

\* Every step of a formatter keeps FInv.
LEMMA FormatOk == ASSUME FInv, Next PROVE FInv'
BY StartMinifyOk, MinifyEntryOk, MinifyLastOk, StartPrettifyOk, PrettifyValueOk, PrettifyOpenOk,
   PrettifyCloseOk, PrettifyEndOk
   DEF Next, Minify, Prettify

\* So does what leaves the formatters alone.
LEMMA FormatStays == ASSUME FInv, UNCHANGED formatVars PROVE FInv'
<1>1. /\ op' = op /\ text' = text /\ iter' = iter /\ out' = out /\ indent' = indent /\ before' = before
  BY DEF formatVars
<1>2. Progress(op, text, tape, iter', out', indent') /\ OutOk(out')  BY <1>1 DEF FInv
<1> QED  BY <1>1, <1>2, GoesOk

\* FInv holds of every core.
LEMMA FormatInvariant == CoreSpec => []FInv
<1>1. FInv /\ [CoreNext]_coreVars => FInv'
  <2> SUFFICES ASSUME FInv, [CoreNext]_coreVars PROVE FInv'  OBVIOUS
  <2>1. CASE Format  BY <2>1, FormatOk DEF Format
  <2>2. CASE ValidateReceived \/ ValidateWritten \/ ValidateSource \/ Check
    <3>1. UNCHANGED formatVars
      BY <2>2 DEF ValidateReceived, ValidateWritten, ValidateSource, Check, Validate
    <3> QED  BY <3>1, FormatStays
  <2>3. CASE UNCHANGED coreVars
    <3>1. UNCHANGED formatVars  BY <2>3 DEF coreVars, vars, formatVars
    <3> QED  BY <3>1, FormatStays
  <2> QED  BY <2>1, <2>2, <2>3 DEF CoreNext
<1> QED  BY <1>1, FormatStart, PTL DEF CoreSpec

\* Minifying takes from a well-formed object or array its whitespace and nothing else,
\* and answers TRUE, for every document, every indent and any calls before
\* (minifier.hpp:132-233).
THEOREM MinifyKeepsTokensAlways == CoreSpec => []MinifyKeepsTokens
<1>1. FInv => MinifyKeepsTokens
  <2> SUFFICES ASSUME FInv, Called(1, "minify"), Container(before[1].text)
               PROVE  before[1].ok /\ before[1].out = NoWs(before[1].text)
    BY DEF MinifyKeepsTokens
  <2>1. HasDone(before[1]) /\ before[1].op = "minify"  BY DEF FInv, Called
  <2>2. Shape(before[1].text)  BY <2>1, ContainerShape DEF HasDone
  <2> QED  BY <2>1, <2>2 DEF HasDone
<1> QED  BY <1>1, FormatInvariant, PTL

\* Minifying what prettifying gave restores the minified object or array it was given,
\* for every document and every indent (documentation/Prettifying.md, Round-Tripping
\* With Minifying).
THEOREM RoundTripAlways == CoreSpec => []RoundTrip
<1>1. FInv => RoundTrip
  <2> SUFFICES ASSUME FInv, Called(1, "minify"), Called(2, "prettify"), Fed,
                      Container(before[2].text), before[2].text = NoWs(before[2].text)
               PROVE  before[1].ok /\ before[1].out = before[2].text
    BY DEF RoundTrip
  <2>1. HasDone(before[1]) /\ before[1].op = "minify" /\ HasDone(before[2]) /\ before[2].op = "prettify"
    BY DEF FInv, Called
  <2>2. Tidy(before[2].text)  BY <2>1, ContainerTidy DEF HasDone
  <2>3. Shape(before[2].out) /\ NoWs(before[2].out) = before[2].text  BY <2>1, <2>2 DEF HasDone
  <2>4. before[1].text = before[2].out  BY DEF Fed
  <2> QED  BY <2>1, <2>3, <2>4 DEF HasDone
<1> QED  BY <1>1, FormatInvariant, PTL

(* The validator.  What it sees of a document is the blurred one.              *)
LEMMA KeyIs == (CHOOSE k \in Keys : TRUE) \in Keys
BY LexemesAssumption

BlurAt(x, y, p) ==
  /\ ~Entry(x, p, FALSE) => y[p] = "ws"
  /\ Entry(x, p, FALSE) /\ x[p] = "junk" => y[p] = "num"
  /\ Entry(x, p, FALSE) /\ x[p] = "open" => y[p] \in Keys
  /\ Entry(x, p, FALSE) /\ x[p] # "junk" /\ x[p] # "open" => y[p] = x[p]

\* The blurred document, lexeme by lexeme.
LEMMA BlurredIs ==
  ASSUME NEW x, IsText(x), NEW n \in Nat, n = Len(x), NEW y, y = Blurred(x)
  PROVE  /\ Len(y) = n /\ y = [p \in 1..n |-> y[p]]
         /\ \A p \in 1..n : BlurAt(x, y, p)
<1> DEFINE r(p) == p \in 1..Len(x) /\ Runs(x[p], FALSE)
           g(p) == CASE r(p) /\ r(p - 1)         -> "ws"
                     [] x[p] = "junk" /\ ~r(p - 1) -> "num"
                     [] x[p] = "open"              -> CHOOSE k \in Keys : TRUE
                     [] OTHER                      -> x[p]
<1>1. y = [p \in 1..n |-> g(p)]  BY DEF Blurred
<1>2. \A p \in 1..n : y[p] = g(p)
  <2> HIDE DEF g
  <2> QED  BY <1>1
<1>3. Len(y) = n /\ y = [p \in 1..n |-> y[p]]
  <2> HIDE DEF g
  <2> QED  BY <1>1
<1>4. ASSUME NEW p \in 1..n
      PROVE  /\ ~Entry(x, p, FALSE) => y[p] = "ws"
             /\ Entry(x, p, FALSE) /\ x[p] = "junk" => y[p] = "num"
             /\ Entry(x, p, FALSE) /\ x[p] = "open" => y[p] \in Keys
             /\ Entry(x, p, FALSE) /\ x[p] # "junk" /\ x[p] # "open" => y[p] = x[p]
  <2>1. p - 1 \in 1..n <=> p # 1  OBVIOUS
  <2>2. r(p) <=> Runs(x[p], FALSE)  OBVIOUS
  <2>3. r(p - 1) <=> p # 1 /\ Runs(x[p - 1], FALSE)  BY <2>1
  <2>4. Entry(x, p, FALSE) <=> IF r(p) THEN ~r(p - 1) ELSE x[p] # "ws"
    BY <2>2, <2>3, Zenon DEF Entry
  <2>5. r(p) <=> x[p] \in {"num", "true", "null", "junk"}  BY <2>2 DEF Runs
  <2>6. y[p] = g(p)  BY <1>2
  <2> HIDE DEF r
  <2>7. CASE r(p) /\ r(p - 1)
    <3>2. x[p] # "open"  BY <2>5, <2>7
    <3>1. g(p) = "ws"  BY <2>7, <3>2, Zenon
    <3> QED  BY <2>4, <2>6, <2>7, <3>1, Zenon
  <2>8. CASE r(p) /\ ~r(p - 1) /\ x[p] = "junk"
    <3>1. g(p) = "num"  BY <2>8, Zenon
    <3>2. x[p] # "open"  BY <2>8
    <3> QED  BY <2>4, <2>6, <2>8, <3>1, <3>2, Zenon
  <2>9. CASE r(p) /\ ~r(p - 1) /\ x[p] # "junk"
    <3>1. x[p] # "open"  BY <2>5, <2>9
    <3>2. g(p) = x[p]  BY <2>9, <3>1, Zenon
    <3> QED  BY <2>4, <2>6, <2>9, <3>1, <3>2, Zenon
  <2>10. CASE ~r(p) /\ x[p] = "open"
    <3>1. x[p] # "junk"  BY <2>10
    <3>2. g(p) = CHOOSE k \in Keys : TRUE  BY <2>10, <3>1, Zenon
    <3>3. y[p] \in Keys  BY <2>6, <3>2, KeyIs, Zenon
    <3>4. x[p] # "ws"  BY <2>10
    <3> QED  BY <2>4, <2>10, <3>1, <3>3, <3>4, Zenon
  <2>11. CASE ~r(p) /\ x[p] # "open"
    <3>1. x[p] # "junk"  BY <2>5, <2>11
    <3>2. g(p) = x[p]  BY <2>11, <3>1, Zenon
    <3> QED  BY <2>4, <2>6, <2>11, <3>1, <3>2, Zenon
  <2> QED  BY <2>7, <2>8, <2>9, <2>10, <2>11, Zenon
<1> QED  BY <1>3, <1>4, Zenon DEF BlurAt

(* The places of the tape are those of the blurred document that are no        *)
(* whitespace.                                                                 *)
Places(t, y, n) ==
  /\ n \in Nat /\ n = Len(y) /\ t \in Seq(1..n)
  /\ \A i, j \in 1..Len(t) : i < j => t[i] < t[j]
  /\ \A i \in 1..Len(t) : y[t[i]] # "ws"
  /\ \A p \in 1..n : y[p] # "ws" => \E i \in 1..Len(t) : t[i] = p

\* The tape of a text are the places of its blurred form.
LEMMA PlacesOf ==
  ASSUME NEW x, IsText(x), NEW n \in Nat, n = Len(x), NEW y, y = Blurred(x), NEW t, t = Entries(x, FALSE)
  PROVE  Places(t, y, n)
<1>1. IsTape(t, x, FALSE)  BY TapeIs
<1>2. Len(y) = n  BY BlurredIs
<1>3. \A p \in 1..n : y[p] # "ws" <=> Entry(x, p, FALSE)
  <2> SUFFICES ASSUME NEW p \in 1..n PROVE y[p] # "ws" <=> Entry(x, p, FALSE)  OBVIOUS
  <2>1. /\ ~Entry(x, p, FALSE) => y[p] = "ws"
        /\ Entry(x, p, FALSE) /\ x[p] = "junk" => y[p] = "num"
        /\ Entry(x, p, FALSE) /\ x[p] = "open" => y[p] \in Keys
        /\ Entry(x, p, FALSE) /\ x[p] # "junk" /\ x[p] # "open" => y[p] = x[p]
    <3>1. BlurAt(x, y, p)  BY BlurredIs
    <3> QED  BY <3>1, Zenon DEF BlurAt
  <2>2. "ws" \notin Keys  BY LexemesAssumption DEF V!Marks
  <2>3. Entry(x, p, FALSE) => x[p] # "ws"
    <3>1. Runs(x[p], FALSE) => x[p] # "ws"  BY DEF Runs
    <3> QED  BY <3>1, Zenon DEF Entry
  <2>4. "num" # "ws"  OBVIOUS
  <2> QED  BY <2>1, <2>2, <2>3, <2>4, Zenon
<1>4. t \in Seq(1..n) /\ \A i, j \in 1..Len(t) : i < j => t[i] < t[j]
  <2>1. t \in Seq(1..n)  BY <1>1 DEF IsTape
  <2>2. \A i, j \in 1..Len(t) : i < j => t[i] < t[j]  BY <1>1 DEF IsTape
  <2> QED  BY <2>1, <2>2
<1>5. \A i \in 1..Len(t) : y[t[i]] # "ws"
  <2> SUFFICES ASSUME NEW i \in 1..Len(t) PROVE y[t[i]] # "ws"  OBVIOUS
  <2>1. PICK a : a = t[i]  OBVIOUS
  <2>2. a \in 1..n
    <3>1. t \in Seq(1..n)  BY <1>4
    <3>2. t[i] \in 1..n  BY <3>1, ElementOfSeq
    <3> QED  BY <2>1, <3>2
  <2>3. Entry(x, a, FALSE)  BY <1>1, <2>1 DEF IsTape
  <2> QED  BY <1>3, <2>1, <2>2, <2>3, Zenon
<1>6. \A p \in 1..n : y[p] # "ws" => \E i \in 1..Len(t) : t[i] = p
  <2> SUFFICES ASSUME NEW p \in 1..n, y[p] # "ws" PROVE \E i \in 1..Len(t) : t[i] = p  OBVIOUS
  <2>1. Entry(x, p, FALSE)  BY <1>3, Zenon
  <2> QED  BY <1>1, <2>1 DEF IsTape
<1> QED  BY <1>2, <1>4, <1>5, <1>6 DEF Places

\* The i-th, the end behind the last.
PosOf(t, i, n) == IF i \in 1..Len(t) THEN t[i] ELSE n + 1

\* The next one is where the whitespace ends.
LEMMA NextPlace ==
  ASSUME NEW t, NEW y, NEW n, Places(t, y, n), NEW i \in 0..Len(t), NEW a, a = This(t, i),
         NEW b, b = PosOf(t, i + 1, n)
  PROVE  a \in 0..n /\ b \in (a + 1)..(n + 1) /\ Grammar!Trim(y, a + 1) = b
<1>1. PICK m \in Nat : m = Len(t)  BY DEF Places
<1>2. n \in Nat /\ n = Len(y) /\ t \in Seq(1..n)  BY DEF Places
<1>3. a \in 0..n /\ (i # 0 => a = t[i]) /\ (i = 0 => a = 0)  BY <1>1, <1>2 DEF This
<1>4. i < m => b = t[i + 1] /\ b \in 1..n
  <2>1. i < m => i + 1 \in 1..m  BY <1>1
  <2> QED  BY <1>1, <1>2, <2>1 DEF PosOf
<1>5. i = m => b = n + 1  BY <1>1 DEF PosOf
<1>6. b \in (a + 1)..(n + 1)
  <2>1. CASE i = m  BY <1>2, <1>3, <1>5, <2>1
  <2>2. CASE i < m /\ i = 0  BY <1>2, <1>3, <1>4, <2>2
  <2>3. CASE i < m /\ i # 0
    <3>1. i \in 1..m /\ i + 1 \in 1..m /\ i < i + 1  BY <1>1, <2>3
    <3>2. t[i] < t[i + 1]  BY <1>1, <3>1 DEF Places
    <3> QED  BY <1>2, <1>3, <1>4, <2>3, <3>2
  <2> QED  BY <1>1, <2>1, <2>2, <2>3
<1>7. \A k \in (a + 1)..(b - 1) : Grammar!At(y, k) = "ws"
  <2> SUFFICES ASSUME NEW k \in (a + 1)..(b - 1) PROVE Grammar!At(y, k) = "ws"  OBVIOUS
  <2>1. k \in 1..n  BY <1>2, <1>3, <1>6
  <2>2. y[k] = "ws"
    <3>1. SUFFICES ASSUME y[k] # "ws" PROVE FALSE  OBVIOUS
    <3>2. PICK j \in 1..m : t[j] = k  BY <1>1, <2>1, <3>1 DEF Places
    <3>3. i # 0 => i < j
      <4>1. SUFFICES ASSUME i # 0, j <= i PROVE FALSE  BY <1>1
      <4>2. i \in 1..m  BY <1>1, <4>1
      <4>3. j < i => t[j] < t[i]  BY <1>1, <4>2 DEF Places
      <4> QED  BY <1>2, <1>3, <2>1, <3>2, <4>1, <4>2, <4>3
    <3>4. i < m /\ i + 1 \in 1..m /\ i + 1 <= j  BY <1>1, <3>3
    <3>5. i + 1 < j => t[i + 1] < t[j]  BY <1>1, <3>4 DEF Places
    <3>6. t[i + 1] = b /\ b \in 1..n  BY <1>4, <3>4
    <3> QED  BY <1>2, <1>3, <2>1, <3>2, <3>4, <3>5, <3>6
  <2> QED  BY <1>2, <2>1, <2>2, Inside
<1>8. Grammar!At(y, b) # "ws"
  <2>1. CASE i = m
    <3>1. b \notin 1..Len(y)  BY <1>2, <1>5, <2>1
    <3> QED  BY <3>1 DEF Grammar!At
  <2>2. CASE i < m
    <3>1. i + 1 \in 1..m  BY <1>1, <2>2
    <3>2. y[b] # "ws"  BY <1>1, <1>4, <2>2, <3>1 DEF Places
    <3> QED  BY <1>2, <1>4, <2>2, <3>2, Inside
  <2> QED  BY <1>1, <2>1, <2>2
<1>9. a + 1 \in 1..(n + 1)  BY <1>2, <1>3, <1>6
<1>10. PICK p : p = a + 1  OBVIOUS
<1>11. Grammar!Trim(y, p) = b  BY <1>2, <1>6, <1>7, <1>8, <1>9, <1>10, TrimOnly
<1> QED  BY <1>3, <1>6, <1>10, <1>11

\* An entry, where it is, and the next one.
LEMMA PlaceIs ==
  ASSUME NEW t, NEW y, NEW n, Places(t, y, n), NEW i \in 1..Len(t), NEW p, p = PosOf(t, i, n)
  PROVE  /\ p \in 1..n /\ p = t[i] /\ Grammar!At(y, p) = y[p] /\ y[p] # "ws"
         /\ Grammar!Trim(y, p) = p /\ Grammar!Trim(y, p + 1) = PosOf(t, i + 1, n)
         /\ PosOf(t, i + 1, n) \in (p + 1)..(n + 1)
<1>1. n \in Nat /\ n = Len(y) /\ t \in Seq(1..n)  BY DEF Places
<1>2. p = t[i] /\ p \in 1..n  BY <1>1 DEF PosOf
<1>3. y[p] # "ws"  BY <1>2 DEF Places
<1>4. Grammar!At(y, p) = y[p]  BY <1>1, <1>2, Inside
<1>5. Grammar!Trim(y, p) = p
  <2>1. p \in 1..(n + 1) /\ p \in p..(n + 1) /\ \A k \in p..(p - 1) : Grammar!At(y, k) = "ws"  BY <1>1, <1>2
  <2> QED  BY <1>1, <1>3, <1>4, <2>1, TrimOnly
<1>6. p = This(t, i)
  <2>1. i # 0  OBVIOUS
  <2> QED  BY <1>2, <2>1 DEF This
<1>7. i \in 0..Len(t)  OBVIOUS
<1>8. Grammar!Trim(y, p + 1) = PosOf(t, i + 1, n) /\ PosOf(t, i + 1, n) \in (p + 1)..(n + 1)  BY <1>6, <1>7, NextPlace
<1> QED  BY <1>2, <1>3, <1>4, <1>5, <1>8

\* The end.
LEMMA PlaceEnd ==
  ASSUME NEW t, NEW y, NEW n, Places(t, y, n)
  PROVE  /\ PosOf(t, Len(t) + 1, n) = n + 1 /\ Grammar!At(y, n + 1) = "end" /\ Grammar!Trim(y, n + 1) = n + 1
         /\ PosOf(t, 1, n) = Grammar!Start(y)
<1>1. n \in Nat /\ n = Len(y) /\ t \in Seq(1..n)  BY DEF Places
<1>2. PosOf(t, Len(t) + 1, n) = n + 1
  <2>1. Len(t) \in Nat  BY <1>1
  <2>2. Len(t) + 1 \notin 1..Len(t)  BY <2>1
  <2> QED  BY <2>2 DEF PosOf
<1>3. Grammar!At(y, n + 1) = "end"
  <2>1. n + 1 \notin 1..Len(y)  BY <1>1
  <2> QED  BY <2>1 DEF Grammar!At
<1>4. Grammar!Trim(y, n + 1) = n + 1
  <2>1. PICK p : p = n + 1  OBVIOUS
  <2>2. p \in 1..(n + 1) /\ p \in p..(n + 1) /\ \A k \in p..(p - 1) : Grammar!At(y, k) = "ws"  BY <1>1, <2>1
  <2>3. Grammar!At(y, p) # "ws"  BY <1>3, <2>1
  <2> QED  BY <1>1, <2>1, <2>2, <2>3, TrimOnly
<1>5. PosOf(t, 1, n) = Grammar!Start(y)
  <2>1. PICK a, b : a = This(t, 0) /\ b = PosOf(t, 0 + 1, n)  OBVIOUS
  <2>2. 0 \in 0..Len(t)  BY <1>1
  <2>3. Grammar!Trim(y, a + 1) = b  BY <2>1, <2>2, NextPlace
  <2>4. a = 0 /\ 0 + 1 = 1  BY <2>1 DEF This
  <2> QED  BY <2>1, <2>3, <2>4 DEF Grammar!Start
<1> QED  BY <1>2, <1>3, <1>4, <1>5

(* What is left of a document: from a value on, from an item on or from what   *)
(* follows an item, with brackets still open.                                  *)
LEMMA SameBrackets == Brackets = Openers /\ \A b : Closer(b) = Grammar!Closing(b)
BY DEF Brackets, Openers, Closer, Grammar!Closing

\* Where each of the containers that are open goes on after its item.
Chain(e, y, q, st, n) ==
  /\ e \in [0..Len(st) -> 1..(n + 1)] /\ e[Len(st)] = q /\ e[0] = n + 1
  /\ \A k \in 1..Len(st) :
       /\ FollowE(y, e[k], Grammar!Closing(st[k])) # 0
       /\ e[k - 1] = Grammar!Trim(y, FollowE(y, e[k], Grammar!Closing(st[k])))

AfterAll(y, q, st, n)    == \E e : Chain(e, y, q, st, n)
ValueAll(y, p, st, n)    == ValueE(y, p) # 0 /\ AfterAll(y, Grammar!Trim(y, ValueE(y, p)), st, n)
ItemsAll(y, p, c, st, n) == ItemsE(y, p, c) # 0 /\ AfterAll(y, Grammar!Trim(y, ItemsE(y, p, c)), st, n)

\* With nothing open, only the end is as it should be.
LEMMA AfterNone ==
  ASSUME NEW y, NEW n \in Nat, NEW q \in 1..(n + 1) PROVE AfterAll(y, q, <<>>, n) <=> q = n + 1
<1>1. PICK st, z : st = <<>> /\ z = 0  OBVIOUS
<1>2. Len(st) = z /\ \A k \in 1..Len(st) : FALSE  BY <1>1
<1>3. ASSUME NEW e, Chain(e, y, q, st, n) PROVE q = n + 1  BY <1>1, <1>2, <1>3 DEF Chain
<1>4. ASSUME q = n + 1 PROVE \E e : Chain(e, y, q, st, n)
  <2>1. PICK e : e = [k \in 0..Len(st) |-> q]  OBVIOUS
  <2>2. e \in [0..Len(st) -> 1..(n + 1)] /\ e[Len(st)] = q /\ e[0] = n + 1  BY <1>1, <1>2, <1>4, <2>1
  <2>3. Chain(e, y, q, st, n)  BY <1>2, <2>2 DEF Chain
  <2> QED  BY <2>3
<1> QED  BY <1>1, <1>3, <1>4 DEF AfterAll

\* What follows an item, case by case.
LEMMA FollowMore ==
  ASSUME NEW y, NEW q, NEW c \in Closers, NEW s, s = Grammar!Trim(y, q), Grammar!At(y, s) = Comma,
         NEW r, r = Grammar!Trim(y, s + 1)
  PROVE  FollowE(y, q, c) = ItemsE(y, r, c)
<1>1. PICK a : a = Grammar!At(y, s)  OBVIOUS
<1>2. a = Comma => FollowE(y, q, c) = ItemsE(y, Grammar!Trim(y, s + 1), c)  BY <1>1, FollowIs
<1> QED  BY <1>1, <1>2

\* An item followed by the closing bracket ends there.
LEMMA FollowLast ==
  ASSUME NEW y, NEW q, NEW c \in Closers, NEW s, s = Grammar!Trim(y, q), Grammar!At(y, s) = c
  PROVE  FollowE(y, q, c) = s + 1
<1>1. PICK a : a = Grammar!At(y, s)  OBVIOUS
<1>2. a = c => FollowE(y, q, c) = s + 1  BY <1>1, FollowIs
<1> QED  BY <1>1, <1>2

\* One followed by neither that nor a comma does not end.
LEMMA FollowNone ==
  ASSUME NEW y, NEW q, NEW c \in Closers, NEW s, s = Grammar!Trim(y, q),
         Grammar!At(y, s) # Comma, Grammar!At(y, s) # c
  PROVE  FollowE(y, q, c) = 0
<1>1. PICK a : a = Grammar!At(y, s)  OBVIOUS
<1>2. a # Comma /\ a # c => FollowE(y, q, c) = 0  BY <1>1, FollowIs
<1> QED  BY <1>1, <1>2

\* The end is 0 or in the document.
LEMMA FollowSane ==
  ASSUME NEW y, NEW n \in Nat, n = Len(y), NEW q \in 1..(n + 1), NEW c \in Closers
  PROVE  FollowE(y, q, c) = 0 \/ FollowE(y, q, c) \in 1..(n + 1)
<1>1. PICK s, a : s = Grammar!Trim(y, q) /\ a = Grammar!At(y, s)  OBVIOUS
<1>2. s \in q..(n + 1)  BY <1>1, TrimIs
<1>3. CASE a = Comma
  <2>1. s \in 1..n
    <3>1. a # "end"  BY <1>3, Marked
    <3>2. s \in Int  BY <1>2
    <3> QED  BY <1>1, <3>1, <3>2, AtIn
  <2>2. PICK r : r = Grammar!Trim(y, s + 1)  OBVIOUS
  <2>3. r \in 1..(n + 1)
    <3>1. s + 1 \in 1..(n + 1)  BY <2>1
    <3>2. r \in (s + 1)..(n + 1)  BY <2>2, <3>1, TrimIs
    <3> QED  BY <3>1, <3>2
  <2>4. FollowE(y, q, c) = ItemsE(y, r, c)  BY <1>1, <1>3, <2>2, FollowMore
  <2>5. Sane(ItemsE(y, r, c), r, n)
    <3>1. PICK v, e : v = Grammar!ItemAt(y, r, c) /\ e = ValueE(y, v)  OBVIOUS
    <3> QED  BY <2>3, <3>1, ItemsIs
  <2> QED  BY <2>3, <2>4, <2>5 DEF Sane
<1>4. CASE a = c
  <2>1. s \in 1..n
    <3>1. a # "end"  BY <1>4, Marked
    <3>2. s \in Int  BY <1>2
    <3> QED  BY <1>1, <3>1, <3>2, AtIn
  <2>2. FollowE(y, q, c) = s + 1  BY <1>1, <1>4, FollowLast
  <2> QED  BY <2>1, <2>2
<1>5. CASE a # Comma /\ a # c  BY <1>1, <1>5, FollowNone
<1> QED  BY <1>3, <1>4, <1>5

\* With one bracket more.
LEMMA AfterMore ==
  ASSUME NEW y, NEW n \in Nat, n = Len(y), NEW q \in 1..(n + 1), NEW new, NEW st, NEW b, IsPushed(new, st, b),
         NEW f, f = FollowE(y, q, Grammar!Closing(b)), NEW r, r = Grammar!Trim(y, f)
  PROVE  AfterAll(y, q, new, n) <=> f # 0 /\ AfterAll(y, r, st, n)
<1>1. st \in Seq(Brackets) /\ b \in Brackets /\ new = Append(st, b)  BY DEF IsPushed
<1>2. PICK m \in Nat : m = Len(st)  BY <1>1
<1>3. Len(new) = m + 1 /\ new[m + 1] = b /\ \A k \in 1..m : new[k] = st[k]  BY <1>1, <1>2
<1>4. PICK c : c = Grammar!Closing(b)  OBVIOUS
<1>5. c \in Closers  BY <1>4, Marked
<1>6. PICK l \in Nat : l = m + 1 /\ l - 1 = m  OBVIOUS
<1>7. ASSUME NEW e, Chain(e, y, q, new, n) PROVE f # 0 /\ AfterAll(y, r, st, n)
  <2>1. e[l] = q /\ new[l] = b /\ l \in 1..Len(new)  BY <1>2, <1>3, <1>6, <1>7 DEF Chain
  <2>2. f # 0 /\ e[m] = r  BY <1>6, <1>7, <2>1 DEF Chain
  <2>3. PICK g : g = [k \in 0..m |-> e[k]]  OBVIOUS
  <2>4. /\ g \in [0..m -> 1..(n + 1)] /\ g[m] = r /\ g[0] = n + 1
    <3>1. e \in [0..l -> 1..(n + 1)] /\ e[0] = n + 1  BY <1>3, <1>6, <1>7 DEF Chain
    <3>2. \A k \in 0..m : k \in 0..l  BY <1>6
    <3>3. \A k \in 0..m : e[k] \in 1..(n + 1)  BY <3>1, <3>2
    <3>4. m \in 0..m /\ 0 \in 0..m  OBVIOUS
    <3> QED  BY <2>2, <2>3, <3>1, <3>3, <3>4
  <2>5. ASSUME NEW k \in 1..m
        PROVE  /\ FollowE(y, g[k], Grammar!Closing(st[k])) # 0
               /\ g[k - 1] = Grammar!Trim(y, FollowE(y, g[k], Grammar!Closing(st[k])))
    <3>1. k \in 1..Len(new) /\ new[k] = st[k]  BY <1>3
    <3>2. k \in 0..m /\ k - 1 \in 0..m  OBVIOUS
    <3>3. g[k] = e[k] /\ g[k - 1] = e[k - 1]  BY <2>3, <3>2
    <3>4. /\ FollowE(y, e[k], Grammar!Closing(new[k])) # 0
          /\ e[k - 1] = Grammar!Trim(y, FollowE(y, e[k], Grammar!Closing(new[k])))
      BY <1>7, <3>1 DEF Chain
    <3> QED  BY <3>1, <3>3, <3>4
  <2>6. Chain(g, y, r, st, n)  BY <1>2, <2>4, <2>5 DEF Chain
  <2> QED  BY <2>2, <2>6 DEF AfterAll
<1>8. ASSUME f # 0, NEW g, Chain(g, y, r, st, n) PROVE \E e : Chain(e, y, q, new, n)
  <2>1. PICK e : e = [k \in 0..l |-> IF k = l THEN q ELSE g[k]]  OBVIOUS
  <2>2. g \in [0..m -> 1..(n + 1)] /\ g[m] = r /\ g[0] = n + 1  BY <1>2, <1>8 DEF Chain
  <2>3. e[l] = q /\ \A k \in 0..m : e[k] = g[k]
    <3>1. \A k \in 0..m : k \in 0..l /\ k # l  BY <1>6
    <3>2. l \in 0..l  OBVIOUS
    <3> QED  BY <2>1, <3>1, <3>2
  <2>4. e \in [0..l -> 1..(n + 1)]
    <3>1. \A k \in 0..l : k = l \/ k \in 0..m  BY <1>6
    <3>2. \A k \in 0..l : e[k] \in 1..(n + 1)  BY <2>2, <2>3, <3>1
    <3> QED  BY <2>1, <3>2
  <2>5. e[0] = n + 1
    <3>1. 0 \in 0..m  OBVIOUS
    <3> QED  BY <2>2, <2>3, <3>1
  <2>6. ASSUME NEW k \in 1..l
        PROVE  /\ FollowE(y, e[k], Grammar!Closing(new[k])) # 0
               /\ e[k - 1] = Grammar!Trim(y, FollowE(y, e[k], Grammar!Closing(new[k])))
    <3>1. CASE k = l
      <4>1. e[k] = q /\ new[k] = b /\ k - 1 = m /\ m \in 0..m  BY <1>3, <1>6, <2>3, <3>1
      <4>2. e[k - 1] = r  BY <2>2, <2>3, <4>1
      <4> QED  BY <1>8, <4>1, <4>2
    <3>2. CASE k # l
      <4>1. k \in 1..m /\ k \in 0..m /\ k - 1 \in 0..m  BY <1>6, <3>2
      <4>2. e[k] = g[k] /\ e[k - 1] = g[k - 1] /\ new[k] = st[k]  BY <1>3, <2>3, <4>1
      <4>3. k \in 1..Len(st)  BY <1>2, <4>1
      <4>4. /\ FollowE(y, g[k], Grammar!Closing(st[k])) # 0
            /\ g[k - 1] = Grammar!Trim(y, FollowE(y, g[k], Grammar!Closing(st[k])))
        BY <1>8, <4>3 DEF Chain
      <4> QED  BY <4>2, <4>4
    <3> QED  BY <3>1, <3>2
  <2>7. Len(new) = l  BY <1>3, <1>6
  <2>8. Chain(e, y, q, new, n)  BY <2>3, <2>4, <2>5, <2>6, <2>7 DEF Chain
  <2> QED  BY <2>8
<1> QED  BY <1>7, <1>8 DEF AfterAll

\* Whitespace is skipped once.
LEMMA TrimTrim ==
  ASSUME NEW y, NEW n \in Nat, n = Len(y), NEW e \in 1..(n + 1), NEW s, s = Grammar!Trim(y, e)
  PROVE  Grammar!Trim(y, s) = s
<1>1. s \in e..(n + 1) /\ Grammar!At(y, s) # "ws"  BY TrimIs
<1>2. s \in 1..(n + 1) /\ s \in s..(n + 1)  BY <1>1
<1>3. \A k \in s..(s - 1) : Grammar!At(y, k) = "ws"  BY <1>2
<1> QED  BY <1>1, <1>2, <1>3, TrimOnly

\* It may be skipped before what follows an item.
LEMMA FollowTrim ==
  ASSUME NEW y, NEW n \in Nat, n = Len(y), NEW e \in 1..(n + 1), NEW s, s = Grammar!Trim(y, e), NEW c \in Closers
  PROVE  FollowE(y, s, c) = FollowE(y, e, c)
<1>1. s = Grammar!Trim(y, s)  BY TrimTrim
<1>2. PICK r : r = Grammar!Trim(y, s + 1)  OBVIOUS
<1>3. CASE Grammar!At(y, s) = Comma
  <2>1. FollowE(y, s, c) = ItemsE(y, r, c)  BY <1>1, <1>2, <1>3, FollowMore
  <2>2. FollowE(y, e, c) = ItemsE(y, r, c)  BY <1>2, <1>3, FollowMore
  <2> QED  BY <2>1, <2>2
<1>4. CASE Grammar!At(y, s) = c
  <2>1. FollowE(y, s, c) = s + 1  BY <1>1, <1>4, FollowLast
  <2>2. FollowE(y, e, c) = s + 1  BY <1>4, FollowLast
  <2> QED  BY <2>1, <2>2
<1>5. CASE Grammar!At(y, s) # Comma /\ Grammar!At(y, s) # c
  <2>1. FollowE(y, s, c) = 0  BY <1>1, <1>5, FollowNone
  <2>2. FollowE(y, e, c) = 0  BY <1>5, FollowNone
  <2> QED  BY <2>1, <2>2
<1> QED  BY <1>3, <1>4, <1>5

\* From an item on, its container among those that are open.
ItemAll(y, p, c, st, n) ==
  Grammar!ItemAt(y, p, c) # 0 /\ ValueAll(y, Grammar!ItemAt(y, p, c), st, n)

\* The same from the container's point of view.
LEMMA ItemsItem ==
  ASSUME NEW y, NEW n \in Nat, n = Len(y), NEW q \in 1..(n + 1), NEW new, NEW st, NEW b, IsPushed(new, st, b),
         NEW c, c = Grammar!Closing(b)
  PROVE  ItemsAll(y, q, c, st, n) <=> ItemAll(y, q, c, new, n)
<1>1. c \in Closers  BY Marked
<1>2. PICK v : v = Grammar!ItemAt(y, q, c)  OBVIOUS
<1>3. PICK e : e = ValueE(y, v)  OBVIOUS
<1>4. v = 0 \/ v \in q..(n + 1)  BY <1>1, <1>2, ItemAtIs
<1>5. v = 0 => ItemsE(y, q, c) = 0  BY <1>1, <1>2, <1>3, ItemsIs
<1>6. v # 0 /\ e = 0 => ItemsE(y, q, c) = 0  BY <1>1, <1>2, <1>3, ItemsIs
<1>7. v # 0 /\ e # 0 => ItemsE(y, q, c) = FollowE(y, e, c)  BY <1>1, <1>2, <1>3, ItemsIs
<1>8. CASE v = 0  BY <1>2, <1>5, <1>8 DEF ItemsAll, ItemAll
<1>9. CASE v # 0 /\ e = 0  BY <1>2, <1>3, <1>6, <1>9 DEF ItemsAll, ItemAll, ValueAll
<1>10. CASE v # 0 /\ e # 0
  <2>1. v \in 1..(n + 1)  BY <1>4, <1>10
  <2>2. Sane(e, v, n)
    <3>1. PICK z, a, d : z = Grammar!Trim(y, v + 1) /\ a = Grammar!At(y, v) /\ d = Grammar!Closing(a)  OBVIOUS
    <3> QED  BY <1>3, <2>1, <3>1, ValueIs
  <2>3. e \in 1..(n + 1)  BY <1>10, <2>1, <2>2 DEF Sane
  <2>4. PICK s : s = Grammar!Trim(y, e)  OBVIOUS
  <2>5. s \in 1..(n + 1)
    <3>1. s \in e..(n + 1)  BY <2>3, <2>4, TrimIs
    <3> QED  BY <2>3, <3>1
  <2>6. PICK f : f = FollowE(y, s, c)  OBVIOUS
  <2>7. ItemsE(y, q, c) = f  BY <1>1, <1>7, <1>10, <2>3, <2>4, <2>6, FollowTrim
  <2>8. PICK r : r = Grammar!Trim(y, f)  OBVIOUS
  <2>9. AfterAll(y, s, new, n) <=> f # 0 /\ AfterAll(y, r, st, n)  BY <2>5, <2>6, <2>8, AfterMore
  <2>10. ItemsAll(y, q, c, st, n) <=> f # 0 /\ AfterAll(y, r, st, n)  BY <2>7, <2>8 DEF ItemsAll
  <2>11. ItemAll(y, q, c, new, n) <=> AfterAll(y, s, new, n)
    BY <1>2, <1>3, <1>10, <2>4 DEF ItemAll, ValueAll
  <2> QED  BY <2>9, <2>10, <2>11
<1> QED  BY <1>8, <1>9, <1>10

-------------------------------------------------------------------------------
\* The whole of a document.
LEMMA AllIs ==
  ASSUME NEW y, NEW n \in Nat, n = Len(y), NEW s, s = Grammar!Start(y), NEW st, st = <<>>
  PROVE  Grammar!WellFormed(y) <=> ValueAll(y, s, st, n)
<1>1. PICK e, l : e = ValueE(y, s) /\ l = n + 1  OBVIOUS
<1>2. Grammar!WellFormed(y) <=> e # 0 /\ Grammar!Trim(y, e) = l
  BY <1>1 DEF Grammar!WellFormed, ValueE
<1>3. CASE e = 0  BY <1>1, <1>2, <1>3 DEF ValueAll
<1>4. CASE e # 0
  <2>1. s \in 1..(n + 1)
    <3>1. PICK o : o = 1  OBVIOUS
    <3>2. o \in 1..(n + 1) /\ s = Grammar!Trim(y, o)  BY <3>1 DEF Grammar!Start
    <3>3. s \in o..(n + 1)  BY <3>2, TrimIs
    <3> QED  BY <3>1, <3>3
  <2>2. Sane(e, s, n)
    <3>1. PICK z, a, d : z = Grammar!Trim(y, s + 1) /\ a = Grammar!At(y, s) /\ d = Grammar!Closing(a)  OBVIOUS
    <3> QED  BY <1>1, <2>1, <3>1, ValueIs
  <2>3. e \in 1..(n + 1)  BY <1>4, <2>1, <2>2 DEF Sane
  <2>4. PICK q : q = Grammar!Trim(y, e)  OBVIOUS
  <2>5. q \in 1..(n + 1)
    <3>1. q \in e..(n + 1)  BY <2>3, <2>4, TrimIs
    <3> QED  BY <2>3, <3>1
  <2>6. AfterAll(y, q, <<>>, n) <=> q = n + 1  BY <2>5, AfterNone
  <2> QED  BY <1>1, <1>2, <1>4, <2>4, <2>6 DEF ValueAll
<1> QED  BY <1>3, <1>4

\* A scalar.
LEMMA ScalarAll ==
  ASSUME NEW y, NEW n \in Nat, n = Len(y), NEW p \in 1..(n + 1), Grammar!At(y, p) \in Scalars,
         NEW r, r = Grammar!Trim(y, p + 1), NEW st
  PROVE  ValueAll(y, p, st, n) <=> AfterAll(y, r, st, n)
<1>1. PICK a, c : a = Grammar!At(y, p) /\ c = Grammar!Closing(a)  OBVIOUS
<1>2. a \in Scalars => ValueE(y, p) = p + 1  BY <1>1, ValueIs
<1>3. ValueE(y, p) = p + 1 /\ p + 1 # 0  BY <1>1, <1>2
<1> QED  BY <1>3 DEF ValueAll

\* Nothing that begins a value.
LEMMA NothingAll ==
  ASSUME NEW y, NEW n \in Nat, n = Len(y), NEW p \in 1..(n + 1), Grammar!At(y, p) \notin Openers \cup Scalars,
         NEW st
  PROVE  ~ValueAll(y, p, st, n)
<1>1. PICK r, a, c : r = Grammar!Trim(y, p + 1) /\ a = Grammar!At(y, p) /\ c = Grammar!Closing(a)  OBVIOUS
<1>2. a \notin Openers \cup Scalars => ValueE(y, p) = 0  BY <1>1, ValueIs
<1> QED  BY <1>1, <1>2 DEF ValueAll

\* A container with nothing in it.
LEMMA EmptyAll ==
  ASSUME NEW y, NEW n \in Nat, n = Len(y), NEW p \in 1..(n + 1), NEW b \in Openers, Grammar!At(y, p) = b,
         NEW q, q = Grammar!Trim(y, p + 1), Grammar!At(y, q) = Grammar!Closing(b),
         NEW r, r = Grammar!Trim(y, q + 1), NEW st
  PROVE  ValueAll(y, p, st, n) <=> AfterAll(y, r, st, n)
<1>1. PICK c : c = Grammar!Closing(b)  OBVIOUS
<1>2. b \in Openers /\ Grammar!At(y, q) = c => ValueE(y, p) = q + 1  BY <1>1, ValueIs
<1>3. ValueE(y, p) = q + 1  BY <1>1, <1>2
<1>4. q \in Nat
  <2>1. p \in 1..n
    <3>1. Grammar!At(y, p) # "end"  BY Marked
    <3>2. p \in Int  OBVIOUS
    <3> QED  BY <3>1, <3>2, AtIn
  <2>2. p + 1 \in 1..(n + 1)  BY <2>1
  <2>3. q \in (p + 1)..(n + 1)  BY <2>2, TrimIs
  <2> QED  BY <2>1, <2>3
<1>5. q + 1 # 0  BY <1>4
<1> QED  BY <1>3, <1>5 DEF ValueAll

\* One with items.
LEMMA OpenAll ==
  ASSUME NEW y, NEW n \in Nat, n = Len(y), NEW p \in 1..(n + 1), NEW b, Grammar!At(y, p) = b,
         NEW q, q = Grammar!Trim(y, p + 1), NEW c, c = Grammar!Closing(b), Grammar!At(y, q) # c,
         NEW new, NEW st, IsPushed(new, st, b)
  PROVE  ValueAll(y, p, st, n) <=> ItemAll(y, q, c, new, n)
<1>1. b \in Openers  BY SameBrackets DEF IsPushed
<1>2. b \in Openers /\ Grammar!At(y, q) # c => ValueE(y, p) = ItemsE(y, q, c)  BY ValueIs
<1>3. ValueE(y, p) = ItemsE(y, q, c)  BY <1>1, <1>2
<1>4. q \in 1..(n + 1)
  <2>1. p \in 1..n
    <3>1. Grammar!At(y, p) # "end"  BY <1>1, Marked
    <3>2. p \in Int  OBVIOUS
    <3> QED  BY <3>1, <3>2, AtIn
  <2>2. p + 1 \in 1..(n + 1)  BY <2>1
  <2>3. q \in (p + 1)..(n + 1)  BY <2>2, TrimIs
  <2> QED  BY <2>1, <2>3
<1>5. ItemsAll(y, q, c, st, n) <=> ItemAll(y, q, c, new, n)  BY <1>4, ItemsItem
<1>6. ValueAll(y, p, st, n) <=> ItemsAll(y, q, c, st, n)  BY <1>3 DEF ValueAll, ItemsAll
<1> QED  BY <1>5, <1>6

\* What follows an item: a comma and another, the end of its container, or nothing
\* that may.
LEMMA CommaAll ==
  ASSUME NEW y, NEW n \in Nat, n = Len(y), NEW p \in 1..(n + 1), Grammar!Trim(y, p) = p,
         Grammar!At(y, p) = Comma, NEW q, q = Grammar!Trim(y, p + 1),
         NEW new, NEW st, NEW b, IsPushed(new, st, b), NEW c, c = Grammar!Closing(b)
  PROVE  AfterAll(y, p, new, n) <=> ItemAll(y, q, c, new, n)
<1>1. c \in Closers  BY Marked
<1>2. PICK f : f = FollowE(y, p, c)  OBVIOUS
<1>3. f = ItemsE(y, q, c)
  <2>1. PICK s : s = Grammar!Trim(y, p)  OBVIOUS
  <2>2. Grammar!At(y, s) = Comma /\ q = Grammar!Trim(y, s + 1)  BY <2>1
  <2> QED  BY <1>1, <1>2, <2>1, <2>2, FollowMore
<1>4. PICK r : r = Grammar!Trim(y, f)  OBVIOUS
<1>5. AfterAll(y, p, new, n) <=> f # 0 /\ AfterAll(y, r, st, n)  BY <1>2, <1>4, AfterMore
<1>6. ItemsAll(y, q, c, st, n) <=> f # 0 /\ AfterAll(y, r, st, n)  BY <1>3, <1>4 DEF ItemsAll
<1>7. q \in 1..(n + 1)
  <2>1. p \in 1..n
    <3>1. Grammar!At(y, p) # "end"  BY Marked
    <3>2. p \in Int  OBVIOUS
    <3> QED  BY <3>1, <3>2, AtIn
  <2>2. p + 1 \in 1..(n + 1)  BY <2>1
  <2>3. q \in (p + 1)..(n + 1)  BY <2>2, TrimIs
  <2> QED  BY <2>1, <2>3
<1>8. ItemsAll(y, q, c, st, n) <=> ItemAll(y, q, c, new, n)  BY <1>7, ItemsItem
<1> QED  BY <1>5, <1>6, <1>8

\* A closing bracket leaves the containers around the one it closes.
LEMMA CloseAll ==
  ASSUME NEW y, NEW n \in Nat, n = Len(y), NEW p \in 1..(n + 1), Grammar!Trim(y, p) = p,
         NEW new, NEW st, NEW b, IsPushed(new, st, b), Grammar!At(y, p) = Grammar!Closing(b),
         NEW r, r = Grammar!Trim(y, p + 1)
  PROVE  AfterAll(y, p, new, n) <=> AfterAll(y, r, st, n)
<1>1. PICK c : c = Grammar!Closing(b)  OBVIOUS
<1>2. c \in Closers  BY <1>1, Marked
<1>3. PICK s : s = Grammar!Trim(y, p)  OBVIOUS
<1>4. Grammar!At(y, s) = c /\ s = p  BY <1>1, <1>3
<1>5. FollowE(y, p, c) = s + 1  BY <1>2, <1>3, <1>4, FollowLast
<1>6. PICK f : f = p + 1  OBVIOUS
<1>7. f = FollowE(y, p, Grammar!Closing(b)) /\ r = Grammar!Trim(y, f)  BY <1>1, <1>4, <1>5, <1>6
<1>8. AfterAll(y, p, new, n) <=> f # 0 /\ AfterAll(y, r, st, n)  BY <1>7, AfterMore
<1>9. f # 0  BY <1>6
<1> QED  BY <1>8, <1>9

\* Another lexeme than it or a comma is not as it should be.
LEMMA OtherAll ==
  ASSUME NEW y, NEW n \in Nat, n = Len(y), NEW p \in 1..(n + 1), Grammar!Trim(y, p) = p,
         NEW new, NEW st, NEW b, IsPushed(new, st, b),
         Grammar!At(y, p) # Grammar!Closing(b), Grammar!At(y, p) # Comma
  PROVE  ~AfterAll(y, p, new, n)
<1>1. PICK c : c = Grammar!Closing(b)  OBVIOUS
<1>2. c \in Closers  BY <1>1, Marked
<1>3. PICK s : s = Grammar!Trim(y, p)  OBVIOUS
<1>4. Grammar!At(y, s) # c /\ Grammar!At(y, s) # Comma  BY <1>1, <1>3
<1>5. FollowE(y, p, c) = 0  BY <1>2, <1>3, <1>4, FollowNone
<1>6. PICK f, r : f = FollowE(y, p, Grammar!Closing(b)) /\ r = Grammar!Trim(y, f)  OBVIOUS
<1>7. AfterAll(y, p, new, n) <=> f # 0 /\ AfterAll(y, r, st, n)  BY <1>6, AfterMore
<1> QED  BY <1>1, <1>5, <1>6, <1>7

(* What the validator reads, and what the grammar does.                        *)
KeyEnd == "}"
Within(b) == IF b = "{" THEN "key" ELSE "value"

\* A document in progress, its blurred form and its tape.
Reading(x, y, t, n) ==
  /\ opts = Options /\ doc.text = x /\ doc.tape = t /\ t = Entries(x, FALSE)
  /\ IsText(x) /\ n \in Nat /\ n = Len(x) /\ y = Blurred(x)

\* The tape of a document in progress lists the places of its blurred form.
LEMMA ReadingPlaces == ASSUME NEW x, NEW y, NEW t, NEW n, Reading(x, y, t, n) PROVE Places(t, y, n)
BY PlacesOf DEF Reading

\* A lexeme, and what it is taken for.
Sees(c, a) ==
  /\ c = "junk" => a = "num"
  /\ c = "open" => a \in Keys
  /\ c # "junk" /\ c # "open" => a = c

Read == Openers \cup Closers \cup Scalars \cup {Comma, Colon, "open", "junk"}

\* Every lexeme but whitespace is one the validator meets.
LEMMA LexemesRead == \A c \in V!Lexemes : c # "ws" => c \in Read
BY DEF V!Lexemes, V!Marks, Read, Openers, Closers, Scalars, Comma, Colon

\* Where the iterator is, and what it sees there.
LEMMA CurIs ==
  ASSUME NEW x, NEW y, NEW t, NEW n, Reading(x, y, t, n), NEW s, NEW i, s.iter = i,
         NEW m, m = Len(t), i \in 1..(m + 1), NEW p, p = PosOf(t, i, n), NEW c, c = V!Cur(s)
  PROVE  /\ V!Pos(s) = p /\ p \in 1..(n + 1)
         /\ i = m + 1 => c = "end" /\ Grammar!At(y, p) = "end" /\ p = n + 1
         /\ i <= m => p \in 1..n /\ c = x[p] /\ c \in Read /\ Sees(c, Grammar!At(y, p))
<1>1. Places(t, y, n)  BY ReadingPlaces
<1>2. n \in Nat /\ t \in Seq(1..n) /\ m \in Nat /\ n = Len(y)  BY <1>1 DEF Places
<1>3. doc.text = x /\ doc.tape = t /\ n = Len(x)  BY DEF Reading
<1>4. V!Structural  BY DEF V!Structural, Options, Reading
<1>5. V!Pos(s) = p
  <2>1. V!Pos(s) = IF i \in 1..Len(t) THEN t[i] ELSE n + 1  BY <1>3, <1>4 DEF V!Pos
  <2> QED  BY <2>1 DEF PosOf
<1>6. c = IF p \in 1..n THEN x[p] ELSE "end"  BY <1>3, <1>5 DEF V!Cur, V!Lex
<1>7. CASE i = m + 1
  <2>1. p = n + 1 /\ Grammar!At(y, n + 1) = "end"  BY <1>1, <1>7, PlaceEnd
  <2>2. p \notin 1..n  BY <1>2, <2>1
  <2>3. ~(i <= m)  BY <1>2, <1>7
  <2>4. p \in 1..(n + 1)  BY <1>2, <2>1
  <2> QED  BY <1>5, <1>6, <2>1, <2>2, <2>3, <2>4
<1>8. CASE i <= m
  <2>1. i \in 1..Len(t)  BY <1>2, <1>8
  <2>2. p \in 1..n /\ p = t[i] /\ Grammar!At(y, p) = y[p] /\ y[p] # "ws"  BY <1>1, <2>1, PlaceIs
  <2>3. c = x[p]  BY <1>6, <2>2
  <2>4. BlurAt(x, y, p)  BY <2>2, BlurredIs DEF Reading
  <2>5. Entry(x, p, FALSE)  BY <2>2, <2>4, Zenon DEF BlurAt
  <2>6. x[p] # "ws"
    <3>1. Runs(x[p], FALSE) => x[p] # "ws"  BY DEF Runs
    <3> QED  BY <2>5, <3>1, Zenon DEF Entry
  <2>7. x[p] \in V!Lexemes
    <3>1. x \in Seq(V!Lexemes)  BY DEF Reading, IsText
    <3>2. PICK L : L = V!Lexemes  OBVIOUS
    <3>3. p \in 1..Len(x)  BY <1>3, <2>2
    <3>4. x[p] \in L  BY <3>1, <3>2, <3>3, ElementOfSeq
    <3> QED  BY <3>2, <3>4
  <2>8. Sees(c, y[p])  BY <2>3, <2>4, <2>5, Zenon DEF BlurAt, Sees
  <2>9. c \in Read  BY <2>3, <2>6, <2>7, LexemesRead
  <2>10. p \in 1..(n + 1) /\ i # m + 1  BY <1>2, <1>8, <2>2
  <2> QED  BY <1>5, <2>2, <2>3, <2>8, <2>9, <2>10
<1>9. i = m + 1 \/ i <= m  BY <1>2
<1> QED  BY <1>7, <1>8, <1>9

\* A mark is seen where it is.
LEMMA SeesMark ==
  ASSUME NEW c, NEW a, Sees(c, a), NEW d \in Openers \cup Closers \cup {Comma, Colon}
  PROVE  c = d <=> a = d
<1>1. d # "junk" /\ d # "open" /\ d # "num" /\ d \notin Keys
  <2>1. \A e \in Openers \cup Closers \cup {Comma, Colon} : e # "junk" /\ e # "open" /\ e # "num"
    BY DEF Openers, Closers, Comma, Colon
  <2>2. d \notin Scalars  BY ScalarsAre
  <2> QED  BY <2>1, <2>2 DEF Scalars
<1> QED  BY <1>1 DEF Sees

\* And a scalar.
LEMMA SeesScalar ==
  ASSUME NEW c \in Read, NEW a, Sees(c, a)
  PROVE  /\ c \in Keys \cup {"open"} <=> a \in Keys
         /\ c \in {"num", "junk"} <=> a = "num"
         /\ c \in Scalars \cup {"open", "junk"} <=> a \in Scalars
<1>1. Keys \cap {"num", "true", "null", "junk", "open"} = {}  BY LexemesAssumption DEF V!Marks
<1> QED  BY <1>1 DEF Sees, Scalars

-------------------------------------------------------------------------------
\* The depth at an entry, and at the next one.
LEMMA DeepNext ==
  ASSUME NEW y, NEW t, NEW n, Places(t, y, n), NEW i \in 1..Len(t), NEW p, p = PosOf(t, i, n),
         NEW r, r = PosOf(t, i + 1, n)
  PROVE  /\ y[p] \in Openers => Deep(y, r - 1) = Deep(y, p - 1) + 1
         /\ y[p] \in Closers => Deep(y, r - 1) = Deep(y, p - 1) - 1
         /\ y[p] \notin Openers /\ y[p] \notin Closers => Deep(y, r - 1) = Deep(y, p - 1)
<1>1. p \in 1..n /\ Grammar!Trim(y, p + 1) = r /\ r \in (p + 1)..(n + 1)  BY PlaceIs
<1>2. n \in Nat /\ n = Len(y)  BY DEF Places
<1>3. \A k \in (p + 1)..(r - 1) : y[k] = "ws"
  <2>1. PICK q : q = p + 1  OBVIOUS
  <2>2. q \in 1..(n + 1) /\ r = Grammar!Trim(y, q)  BY <1>1, <1>2, <2>1
  <2>3. \A k \in q..(r - 1) : y[k] = "ws"  BY <1>2, <2>2, TrimBlank
  <2> QED  BY <2>1, <2>3
<1>4. \A k \in (p + 1)..(r - 1) : y[k] \notin Openers /\ y[k] \notin Closers  BY <1>3, Marked
<1>5. p \in Nat /\ r - 1 \in Nat /\ p <= r - 1  BY <1>1, <1>2
<1>6. Deep(y, r - 1) = Deep(y, p)  BY <1>4, <1>5, DeepFlat
<1>7. PICK k \in Nat : k = p - 1 /\ p = k + 1  BY <1>1
<1>8. y[p] \in Openers => Deep(y, p) = Deep(y, k) + 1  BY <1>7, DeepStep
<1>9. y[p] \in Closers => Deep(y, p) = Deep(y, k) - 1  BY <1>7, DeepStep
<1>10. ASSUME y[p] \notin Openers, y[p] \notin Closers PROVE Deep(y, p) = Deep(y, k)
  <2>1. k <= p /\ p \in Nat /\ \A j \in (k + 1)..p : y[j] \notin Openers /\ y[j] \notin Closers
    BY <1>7, <1>10
  <2> QED  BY <1>7, <2>1, DeepFlat
<1> QED  BY <1>6, <1>7, <1>8, <1>9, <1>10

\* Nothing is open at the first place.
LEMMA DeepFirst ==
  ASSUME NEW y, NEW t, NEW n, Places(t, y, n), NEW r, r = PosOf(t, 1, n) PROVE Deep(y, r - 1) = 0
<1>1. n \in Nat /\ n = Len(y)  BY DEF Places
<1>2. r = Grammar!Start(y)  BY PlaceEnd
<1>3. PICK q : q = 1  OBVIOUS
<1>4. q \in 1..(n + 1) /\ r = Grammar!Trim(y, q)  BY <1>1, <1>2, <1>3 DEF Grammar!Start
<1>5. r \in q..(n + 1) /\ \A k \in q..(r - 1) : y[k] = "ws"  BY <1>1, <1>4, TrimBlank
<1>6. \A k \in q..(r - 1) : y[k] \notin Openers /\ y[k] \notin Closers  BY <1>5, Marked
<1>7. PICK z : z = 0  OBVIOUS
<1>8. z \in Nat /\ r - 1 \in Nat /\ z <= r - 1 /\ z + 1 = q  BY <1>1, <1>3, <1>5, <1>7
<1>9. Deep(y, r - 1) = Deep(y, z)  BY <1>6, <1>8, DeepFlat
<1> QED  BY <1>7, <1>9, DeepNone

(* Steps of the validator.                                                     *)
LEMMA MovedIter == ASSUME NEW s, NEW t, NEW o, NEW a, Moved(s, t, o, a) PROVE t.iter = s.iter + 1
BY DEF Moved

MarksNamed == Closers \cup {Comma, Colon}

\* They are these.
LEMMA MarksNamedAre == MarksNamed = {"}", "]", ",", ":"}
BY Zenon DEF MarksNamed, Closers, Comma, Colon

\* A mark is taken exactly where it stands.
LEMMA TakeMark ==
  ASSUME opts = Options, NEW s, ItOk(s), NEW c \in MarksNamed, NEW r, Taken(c, s, r)
  PROVE  /\ r.ok \in BOOLEAN /\ (r.ok = TRUE <=> V!Cur(s) = c)
         /\ r.ok = TRUE => r.s.iter = s.iter + 1
         /\ r.ok = FALSE => r.s = s
<1>1. c \in {"}", "]", ",", ":"}  BY MarksNamedAre
<1>2. c \notin {"{", "["}  BY Marked, Zenon DEF MarksNamed, Closers, Openers, Comma, Colon
<1>3. r = IF V!Cur(s) = c THEN V!Pass(V!Advance(V!Nest(s, c))) ELSE V!Fail(s)
  <2>1. PICK w : w = V!SkipWhitespace(s)  OBVIOUS
  <2>2. r = IF V!Cur(w) = c THEN V!Pass(V!Advance(V!Nest(w, c))) ELSE V!Fail(w)
    BY <1>2, <2>1, Zenon DEF V!IncrementIfEquals, Taken
  <2>3. w = s  BY <2>1, NoWhitespace
  <2> QED  BY <2>2, <2>3
<1>4. r.ok = TRUE <=> V!Cur(s) = c
  <2>1. CASE V!Cur(s) = c
    <3>1. r.ok = TRUE  BY <1>3, <2>1 DEF V!Pass
    <3> QED  BY <2>1, <3>1
  <2>2. CASE V!Cur(s) # c
    <3>1. r.ok = FALSE  BY <1>3, <2>2 DEF V!Fail
    <3> QED  BY <2>2, <3>1
  <2> QED  BY <2>1, <2>2
<1>5. \/ r.ok = FALSE /\ r.s = s
      \/ /\ r.ok = TRUE
         /\ c = "}" => Moved(s, r.s, -1, 0)
         /\ c = "]" => Moved(s, r.s, 0, -1)
         /\ c \in {",", ":"} => Moved(s, r.s, 0, 0)
  BY <1>1, Closing
<1>6. r.ok = TRUE => \E o, a : Moved(s, r.s, o, a)  BY <1>1, <1>5, Zenon
<1>7. r.ok = TRUE => r.s.iter = s.iter + 1  BY <1>6, MovedIter
<1> QED  BY <1>4, <1>5, <1>7, Zenon

\* So is an opening bracket, within the depth allowed.
LEMMA TakeOpen ==
  ASSUME opts = Options, NEW s, ItOk(s), NEW c \in Brackets, NEW r, Taken(c, s, r)
  PROVE  /\ r.ok \in BOOLEAN /\ (r.ok = TRUE => V!Cur(s) = c)
         /\ V!DepthOk(s) /\ V!Cur(s) = c => r.ok = TRUE
         /\ r.ok = TRUE => r.s.iter = s.iter + 1
<1>1. r = IF c \in {"{", "["} /\ ~V!DepthOk(s) THEN V!Fail(V!Reject(s, "exceeded_max_depth"))
          ELSE IF V!Cur(s) = c THEN V!Pass(V!Advance(V!Nest(s, c))) ELSE V!Fail(s)
  <2>1. PICK w : w = V!SkipWhitespace(s)  OBVIOUS
  <2>2. r = IF c \in {"{", "["} /\ ~V!DepthOk(w) THEN V!Fail(V!Reject(w, "exceeded_max_depth"))
            ELSE IF V!Cur(w) = c THEN V!Pass(V!Advance(V!Nest(w, c))) ELSE V!Fail(w)
    BY <2>1 DEF V!IncrementIfEquals, Taken
  <2>3. w = s  BY <2>1, NoWhitespace
  <2> QED  BY <2>2, <2>3
<1>2. c \in {"{", "["}  BY DEF Brackets
<1>3. ~V!DepthOk(s) => r.ok = FALSE
  <2>1. ~V!DepthOk(s) => r = V!Fail(V!Reject(s, "exceeded_max_depth"))  BY <1>1, <1>2, Zenon
  <2> QED  BY <2>1 DEF V!Fail
<1>4. V!DepthOk(s) /\ V!Cur(s) = c => r.ok = TRUE
  <2>1. V!DepthOk(s) /\ V!Cur(s) = c => r = V!Pass(V!Advance(V!Nest(s, c)))  BY <1>1, Zenon
  <2> QED  BY <2>1 DEF V!Pass
<1>5. V!DepthOk(s) /\ V!Cur(s) # c => r.ok = FALSE
  <2>1. V!DepthOk(s) /\ V!Cur(s) # c => r = V!Fail(s)  BY <1>1, Zenon
  <2> QED  BY <2>1 DEF V!Fail
<1>6. \/ r.ok = FALSE
      \/ /\ r.ok = TRUE
         /\ c = "{" => Moved(s, r.s, 1, 0)
         /\ c = "[" => Moved(s, r.s, 0, 1)
  BY Opening
<1>7. r.ok = TRUE => \E o, a : Moved(s, r.s, o, a)  BY <1>2, <1>6, Zenon
<1>8. r.ok = TRUE => r.s.iter = s.iter + 1  BY <1>7, MovedIter
<1> QED  BY <1>3, <1>4, <1>5, <1>6, <1>8, Zenon

-------------------------------------------------------------------------------
\* What is left to read from p on.
Left(c, y, p, st, n) ==
  IF c = "key" THEN ItemAll(y, p, KeyEnd, st, n)
  ELSE IF c = "value" THEN ValueAll(y, p, st, n)
  ELSE AfterAll(y, p, st, n)

\* What is left is as it should be, or all that was was.
Remains(c, a, y, p, st, n) == IF c = "idle" THEN a = TRUE ELSE Left(c, y, p, st, n)

\* Where a walk is.
Fits(c, s, st, y, t, n) ==
  /\ s.iter \in 1..(Len(t) + 1)
  /\ Len(st) = Deep(y, PosOf(t, s.iter, n) - 1)
  /\ st = <<>> => c = "value" /\ s.iter = 1

\* A document that must pass.
Fair == Grammar!WellFormed(doc.text) /\ Grammar!Deepest(doc.text, MaxDepth) /\ ~RootIsNumber

\* What a step keeps.
Stepped(y, t, n) ==
  /\ ctl' # "idle" => Fits(ctl', it', stack', y, t, n)
  /\ Remains(ctl', answer', y, PosOf(t, it'.iter, n), stack', n)
       => Left(ctl, y, PosOf(t, it.iter, n), stack, n)
  /\ Fair /\ Left(ctl, y, PosOf(t, it.iter, n), stack, n)
       => Remains(ctl', answer', y, PosOf(t, it'.iter, n), stack', n)

\* To refuse is right unless the document must pass.
LEMMA RefuseStep ==
  ASSUME NEW y, NEW t, NEW n, NEW s, V!Refuse(s), Fair => ~Left(ctl, y, PosOf(t, it.iter, n), stack, n)
  PROVE  Stepped(y, t, n)
<1>1. ctl' = "idle" /\ answer' = FALSE  BY DEF V!Refuse
<1>2. ~Remains(ctl', answer', y, PosOf(t, it'.iter, n), stack', n)  BY <1>1 DEF Remains
<1> QED  BY <1>1, <1>2, Zenon DEF Stepped

\* To go on is right when what is left is the same.
LEMMA GoesStep ==
  ASSUME NEW y, NEW t, NEW n, NEW c \in {"key", "value", "after"}, NEW s, NEW st, it' = s, ctl' = c, stack' = st,
         Fits(c, s, st, y, t, n),
         Left(ctl, y, PosOf(t, it.iter, n), stack, n) <=> Left(c, y, PosOf(t, s.iter, n), st, n)
  PROVE  Stepped(y, t, n)
<1>1. c # "idle"  OBVIOUS
<1>2. Remains(ctl', answer', y, PosOf(t, it'.iter, n), stack', n) <=> Left(c, y, PosOf(t, s.iter, n), st, n)
  BY <1>1, Zenon DEF Remains
<1> QED  BY <1>1, <1>2, Zenon DEF Stepped

\* To accept a value is right when what follows it is what is left.
LEMMA AcceptStep ==
  ASSUME NEW x, NEW y, NEW t, NEW n, Reading(x, y, t, n),
         NEW s, ItOk(s), s.errors = <<>>, s.iter \in 1..(Len(t) + 1),
         NEW rest \in Seq(Brackets), Counted(s, rest), Len(rest) = Deep(y, PosOf(t, s.iter, n) - 1),
         V!Accept(s, rest),
         Left(ctl, y, PosOf(t, it.iter, n), stack, n) <=> AfterAll(y, PosOf(t, s.iter, n), rest, n)
  PROVE  Stepped(y, t, n)
<1>1. Places(t, y, n)  BY ReadingPlaces
<1>2. CASE rest = <<>>
  <2>1. PICK e : e = V!CheckIfDone(s)  OBVIOUS
  <2>2. ctl' = "idle" /\ answer' = (e.errors = <<>>)  BY <1>2, <2>1 DEF V!Accept
  <2>3. s.obj = 0 /\ s.arr = 0  BY <1>2, OpensNone DEF Counted
  <2>4. e = IF ~V!NotAtEndPre(s) THEN s ELSE V!Reject(s, "unfinished_input")
    <3>1. PICK w : w = V!SkipWhitespace(s)  OBVIOUS
    <3>2. w = s  BY <3>1, NoWhitespace DEF Reading
    <3>3. e = IF w.obj = 0 /\ w.arr = 0 /\ ~V!NotAtEndPre(w) THEN w ELSE V!Reject(w, "unfinished_input")
      BY <2>1, <3>1 DEF V!CheckIfDone
    <3> QED  BY <2>3, <3>2, <3>3
  <2>5. V!NotAtEndPre(s) => e.errors # <<>>
    <3>1. ASSUME V!NotAtEndPre(s) PROVE e.errors # <<>>
      <4>1. PICK u : u = "unfinished_input"  OBVIOUS
      <4>2. u \in Statuses /\ e = V!Reject(s, u)  BY <2>4, <3>1, <4>1 DEF Statuses, V!ParseStatuses
      <4> QED  BY <4>2, Rejected
    <3> QED  BY <3>1
  <2>6. ~V!NotAtEndPre(s) => e.errors = <<>>  BY <2>4
  <2>7. V!NotAtEndPre(s) <=> s.iter <= Len(t)
    <3>1. V!Structural  BY DEF V!Structural, Options, Reading
    <3> QED  BY <3>1 DEF V!NotAtEndPre, V!Limit, Reading
  <2>8. answer' = TRUE <=> s.iter = Len(t) + 1
    <3>1. Len(t) \in Nat  BY <1>1 DEF Places
    <3>2. s.iter = Len(t) + 1 <=> ~(s.iter <= Len(t))  BY <3>1
    <3> QED  BY <2>2, <2>5, <2>6, <2>7, <3>2, Zenon
  <2>9. AfterAll(y, PosOf(t, s.iter, n), rest, n) <=> s.iter = Len(t) + 1
    <3>1. PICK p : p = PosOf(t, s.iter, n)  OBVIOUS
    <3>2. n \in Nat /\ Len(t) \in Nat  BY <1>1 DEF Places
    <3>3. s.iter = Len(t) + 1 => p = n + 1  BY <1>1, <3>1, PlaceEnd
    <3>4. s.iter # Len(t) + 1 => p \in 1..n
      <4>1. s.iter # Len(t) + 1 => s.iter \in 1..Len(t)  BY <3>2
      <4> QED  BY <1>1, <3>1, <4>1, PlaceIs
    <3>5. p \in 1..(n + 1) /\ (p = n + 1 <=> s.iter = Len(t) + 1)  BY <3>2, <3>3, <3>4
    <3>6. AfterAll(y, p, <<>>, n) <=> p = n + 1  BY <3>2, <3>5, AfterNone
    <3> QED  BY <1>2, <3>1, <3>5, <3>6
  <2>10. Remains(ctl', answer', y, PosOf(t, it'.iter, n), stack', n) <=> answer' = TRUE
    BY <2>2, Zenon DEF Remains
  <2> QED  BY <2>2, <2>8, <2>9, <2>10, Zenon DEF Stepped
<1>3. CASE rest # <<>>
  <2>1. it' = s /\ ctl' = "after" /\ stack' = rest  BY <1>3 DEF V!Accept
  <2>2. PICK c : c = "after"  OBVIOUS
  <2>3. Fits(c, s, rest, y, t, n)  BY <1>3, Zenon DEF Fits
  <2>4. Left(c, y, PosOf(t, s.iter, n), rest, n) <=> AfterAll(y, PosOf(t, s.iter, n), rest, n)
    BY <2>2 DEF Left
  <2>5. c \in {"key", "value", "after"}  BY <2>2
  <2>6. Left(ctl, y, PosOf(t, it.iter, n), stack, n) <=> Left(c, y, PosOf(t, s.iter, n), rest, n)
    BY <2>4, Zenon
  <2>7. it' = s /\ ctl' = c /\ stack' = rest  BY <2>1, <2>2
  <2> QED  BY <2>3, <2>5, <2>6, <2>7, GoesStep
<1> QED  BY <1>2, <1>3

\* JSON is seen as it is.
LEMMA BlurredSame == ASSUME NEW x, IsText(x), Grammar!WellFormed(x) PROVE Blurred(x) = x
<1>1. PICK n \in Nat : n = Len(x)  BY DEF IsText
<1>2. PICK y : y = Blurred(x)  OBVIOUS
<1>3. Smooth(x, 1, n + 1)
  <2>1. PICK s \in 1..n, e \in 2..(n + 1) : Smooth(x, 1, n + 1)  BY <1>1, WellFormedIs
  <2> QED  BY <2>1
<1>4. \A k \in 1..n : x[k] \in Plain
  <2>1. \A k \in 1..((n + 1) - 1) : x[k] \in Plain  BY <1>3, Zenon DEF Smooth
  <2> QED  BY <1>1, <2>1
<1>5. \A k \in 1..(n - 1) : Run(x[k]) => ~Run(x[k + 1])
  <2>1. \A k \in 1..((n + 1) - 2) : Run(x[k]) => ~Run(x[k + 1])  BY <1>3, Zenon DEF Smooth
  <2>2. (n + 1) - 2 = n - 1  BY <1>1
  <2> QED  BY <2>1, <2>2
<1>6. y = [p \in 1..n |-> y[p]] /\ \A p \in 1..n : BlurAt(x, y, p)  BY <1>1, <1>2, BlurredIs
<1>7. ASSUME NEW p \in 1..n PROVE y[p] = x[p]
  <2>1. BlurAt(x, y, p)  BY <1>6
  <2>2. x[p] # "junk" /\ x[p] # "open"
    <3>1. x[p] \in Plain  BY <1>4
    <3>2. "junk" \notin Plain /\ "open" \notin Plain
      BY LexemesAssumption DEF Plain, Scalars, Openers, Closers, Comma, Colon, V!Marks
    <3> QED  BY <3>1, <3>2
  <2>3. ~Entry(x, p, FALSE) => x[p] = "ws"
    <3>1. Run(x[p]) => ~(p # 1 /\ Run(x[p - 1]))
      <4>1. CASE p = 1  BY <4>1
      <4>2. CASE p # 1
        <5>1. p - 1 \in 1..(n - 1) /\ (p - 1) + 1 = p  BY <1>1, <4>2
        <5>2. Run(x[p - 1]) => ~Run(x[p])  BY <1>5, <5>1
        <5> QED  BY <5>2, Zenon
      <4> QED  BY <4>1, <4>2
    <3> QED  BY <3>1, Zenon DEF Entry, Run
  <2> QED  BY <2>1, <2>2, <2>3, Zenon DEF BlurAt
<1>8. x = [p \in 1..n |-> x[p]]
  <2>1. x \in Seq(V!Lexemes)  BY DEF IsText
  <2>2. PICK L : L = V!Lexemes  OBVIOUS
  <2>3. x \in Seq(L)  BY <2>1, <2>2
  <2> QED  BY <1>1, <2>3
<1> QED  BY <1>2, <1>6, <1>7, <1>8

\* A document that must pass is seen as it is.
LEMMA FairIs ==
  ASSUME NEW x, NEW y, NEW t, NEW n, Reading(x, y, t, n), Fair
  PROVE  /\ y = x /\ Grammar!WellFormed(y) /\ Smooth(y, 1, n + 1)
         /\ \A p \in 1..n : Deep(y, p) <= MaxDepth
<1>1. n \in Nat /\ n = Len(x) /\ doc.text = x /\ IsText(x) /\ y = Blurred(x)  BY DEF Reading
<1>2. Grammar!WellFormed(x) /\ Grammar!Deepest(x, MaxDepth)  BY <1>1 DEF Fair
<1>3. Smooth(x, 1, n + 1)
  <2>1. PICK s \in 1..n, e \in 2..(n + 1) : Smooth(x, 1, n + 1)  BY <1>1, <1>2, WellFormedIs
  <2> QED  BY <2>1
<1>4. y = x  BY <1>1, <1>2, BlurredSame
<1>5. \A p \in 1..n : Deep(x, p) <= MaxDepth  BY <1>1, <1>2 DEF Grammar!Deepest, Deep
<1> QED  BY <1>2, <1>3, <1>4, <1>5

-------------------------------------------------------------------------------
\* A walk in progress.
Walking(x, y, t, n, i, m, p) ==
  /\ Reading(x, y, t, n) /\ Places(t, y, n) /\ VInv /\ Fits(ctl, it, stack, y, t, n)
  /\ ctl # "idle" /\ i = it.iter /\ m = Len(t) /\ p = PosOf(t, i, n)

\* What is known of a walk in progress.
LEMMA WalkingIs ==
  ASSUME NEW x, NEW y, NEW t, NEW n, NEW i, NEW m, NEW p, Walking(x, y, t, n, i, m, p)
  PROVE  /\ n \in Nat /\ n = Len(y) /\ n = Len(x) /\ m \in Nat /\ i \in 1..(m + 1) /\ p \in 1..(n + 1)
         /\ opts = Options /\ ItOk(it) /\ it.errors = <<>> /\ Counted(it, stack)
         /\ stack \in Seq(Brackets) /\ Len(stack) = Deep(y, p - 1)
         /\ stack = <<>> => ctl = "value" /\ i = 1
         /\ Grammar!Trim(y, p) = p /\ V!Pos(it) = p
<1>1. /\ Reading(x, y, t, n) /\ Places(t, y, n) /\ VInv /\ Fits(ctl, it, stack, y, t, n)
      /\ ctl # "idle" /\ i = it.iter /\ m = Len(t) /\ p = PosOf(t, i, n)
  BY DEF Walking
<1>2. n \in Nat /\ n = Len(y) /\ m \in Nat /\ n = Len(x)
  <2>1. n = Len(x)  BY <1>1 DEF Reading
  <2>2. n \in Nat /\ n = Len(y) /\ t \in Seq(1..n)  BY <1>1 DEF Places
  <2> QED  BY <1>1, <2>1, <2>2
<1>3. i \in 1..(m + 1) /\ Len(stack) = Deep(y, p - 1) /\ (stack = <<>> => ctl = "value" /\ i = 1)
  BY <1>1 DEF Fits
<1>4. opts = Options /\ ItOk(it) /\ it.errors = <<>> /\ Counted(it, stack) /\ stack \in Seq(Brackets)
  BY <1>1 DEF VInv, Quiet
<1>5. p \in 1..(n + 1) /\ V!Pos(it) = p
  <2>1. PICK c : c = V!Cur(it)  OBVIOUS
  <2> QED  BY <1>1, <1>3, <2>1, CurIs
<1>6. Grammar!Trim(y, p) = p
  <2>1. CASE i = m + 1  BY <1>1, <2>1, PlaceEnd
  <2>2. CASE i # m + 1
    <3>1. i \in 1..Len(t)  BY <1>1, <1>2, <1>3, <2>2
    <3> QED  BY <1>1, <3>1, PlaceIs
  <2> QED  BY <2>1, <2>2
<1> QED  BY <1>2, <1>3, <1>4, <1>5, <1>6

\* A scalar is taken.
LEMMA ScalarStep ==
  ASSUME NEW x, NEW y, NEW t, NEW n, NEW i, NEW m, NEW p, Walking(x, y, t, n, i, m, p),
         ctl = "value", Grammar!At(y, p) \in Scalars, V!Accept(V!Advance(it), stack)
  PROVE  Stepped(y, t, n)
<1>1. /\ Reading(x, y, t, n) /\ Places(t, y, n) /\ i = it.iter /\ m = Len(t) /\ p = PosOf(t, i, n)
  BY DEF Walking
<1>2. /\ n \in Nat /\ n = Len(y) /\ m \in Nat /\ i \in 1..(m + 1) /\ p \in 1..(n + 1)
      /\ opts = Options /\ ItOk(it) /\ it.errors = <<>> /\ Counted(it, stack)
      /\ stack \in Seq(Brackets) /\ Len(stack) = Deep(y, p - 1)
  BY WalkingIs
<1>3. PICK s : s = V!Advance(it)  OBVIOUS
<1>4. Moved(it, s, 0, 0) /\ Alike(it, s)  BY <1>2, <1>3, Advanced, AlikeIs
<1>5. PICK j : j = i + 1  OBVIOUS
<1>6. s.iter = j  BY <1>1, <1>4, <1>5, MovedIter
<1>7. ItOk(s) /\ s.errors = <<>> /\ Counted(s, stack)  BY <1>2, <1>4 DEF Alike, Counted
<1>8. i \in 1..Len(t)
  <2>1. i # m + 1
    <3>1. i = m + 1 => Grammar!At(y, p) = "end"  BY <1>1, PlaceEnd
    <3> QED  BY <3>1, ScalarsAre
  <2> QED  BY <1>1, <1>2, <2>1
<1>9. PICK r : r = PosOf(t, j, n)  OBVIOUS
<1>10. Grammar!Trim(y, p + 1) = r /\ Grammar!At(y, p) = y[p]
  <2>1. r = PosOf(t, i + 1, n)  BY <1>5, <1>9
  <2> QED  BY <1>1, <1>8, <2>1, PlaceIs
<1>11. Deep(y, r - 1) = Deep(y, p - 1)
  <2>1. y[p] \notin Openers /\ y[p] \notin Closers  BY <1>10, ScalarsAre
  <2>2. r = PosOf(t, i + 1, n)  BY <1>5, <1>9
  <2> QED  BY <1>1, <1>8, <2>1, <2>2, DeepNext
<1>12. ValueAll(y, p, stack, n) <=> AfterAll(y, r, stack, n)  BY <1>2, <1>10, ScalarAll
<1>13. Left(ctl, y, p, stack, n) <=> AfterAll(y, r, stack, n)  BY <1>12 DEF Left
<1>14. s.iter \in 1..(Len(t) + 1)  BY <1>1, <1>2, <1>5, <1>6, <1>8
<1>15. Len(stack) = Deep(y, PosOf(t, s.iter, n) - 1)  BY <1>2, <1>6, <1>9, <1>11
<1>16. Left(ctl, y, PosOf(t, it.iter, n), stack, n) <=> AfterAll(y, PosOf(t, s.iter, n), stack, n)
  BY <1>1, <1>6, <1>9, <1>13
<1> QED  BY <1>1, <1>2, <1>3, <1>7, <1>14, <1>15, <1>16, AcceptStep

\* What an entry is seen as.
LEMMA SeenIs ==
  ASSUME NEW x, NEW y, NEW t, NEW n, NEW i, NEW m, NEW p, Walking(x, y, t, n, i, m, p), NEW c, c = V!Cur(it)
  PROVE  /\ c = "end" => i = m + 1 /\ Grammar!At(y, p) = "end" /\ p = n + 1
         /\ c # "end" => i \in 1..m /\ p \in 1..n /\ c = x[p] /\ c \in Read /\ Sees(c, Grammar!At(y, p))
<1>1. Reading(x, y, t, n) /\ i = it.iter /\ m = Len(t) /\ p = PosOf(t, i, n)  BY DEF Walking
<1>2. m \in Nat /\ i \in 1..(m + 1)  BY WalkingIs
<1>3. i = m + 1 => c = "end" /\ Grammar!At(y, p) = "end" /\ p = n + 1
  <2>1. /\ V!Pos(it) = p /\ p \in 1..(n + 1)
        /\ i = m + 1 => c = "end" /\ Grammar!At(y, p) = "end" /\ p = n + 1
    BY <1>1, <1>2, CurIs
  <2> QED  BY <2>1
<1>4. i <= m => p \in 1..n /\ c = x[p] /\ c \in Read /\ Sees(c, Grammar!At(y, p))  BY <1>1, <1>2, CurIs
<1>5. "end" \notin Read
  <2>1. "end" \notin Scalars  BY ScalarsAre
  <2>2. \A d \in Openers \cup Closers : d # "end"  BY Marked
  <2>3. Comma # "end" /\ Colon # "end"  BY Marked
  <2> QED  BY <2>1, <2>2, <2>3 DEF Read
<1>6. CASE i = m + 1  BY <1>3, <1>6
<1>7. CASE i \in 1..m
  <2>1. i <= m  BY <1>2, <1>7
  <2> QED  BY <1>4, <1>5, <1>7, <2>1
<1>8. i = m + 1 \/ i \in 1..m  BY <1>2
<1> QED  BY <1>6, <1>7, <1>8

\* A string.
LEMMA StringStep ==
  ASSUME NEW x, NEW y, NEW t, NEW n, NEW i, NEW m, NEW p, Walking(x, y, t, n, i, m, p), V!ValidateString
  PROVE  Stepped(y, t, n)
<1>1. ctl = "value" /\ V!AtQuote(it) /\ V!Accept(V!Advance(it), stack)  BY DEF V!ValidateString
<1>2. PICK c : c = V!Cur(it)  OBVIOUS
<1>3. c \in Keys \cup {"open"}  BY <1>1, <1>2 DEF V!AtQuote
<1>4. c # "end"  BY <1>3, LexemesAssumption
<1>5. c \in Read /\ Sees(c, Grammar!At(y, p))  BY <1>2, <1>4, SeenIs
<1>6. Grammar!At(y, p) \in Keys  BY <1>3, <1>5, SeesScalar
<1>7. Grammar!At(y, p) \in Scalars  BY <1>6 DEF Scalars
<1> QED  BY <1>1, <1>7, ScalarStep

\* A literal.
LEMMA LiteralStep ==
  ASSUME NEW x, NEW y, NEW t, NEW n, NEW i, NEW m, NEW p, Walking(x, y, t, n, i, m, p), V!ValidateLiteral
  PROVE  Stepped(y, t, n)
<1>1. ctl = "value" /\ V!Cur(it) \in {"true", "null"} /\ V!Accept(V!Advance(it), stack)  BY DEF V!ValidateLiteral
<1>2. PICK c : c = V!Cur(it)  OBVIOUS
<1>3. c # "end" /\ c \in Scalars  BY <1>1, <1>2 DEF Scalars
<1>4. c \in Read /\ Sees(c, Grammar!At(y, p))  BY <1>2, <1>3, SeenIs
<1>5. Grammar!At(y, p) \in Scalars
  <2>1. c \in Scalars \cup {"open", "junk"}  BY <1>3
  <2> QED  BY <1>4, <2>1, SeesScalar
<1> QED  BY <1>1, <1>5, ScalarStep

\* Nothing that begins a value.
LEMMA NothingStep ==
  ASSUME NEW x, NEW y, NEW t, NEW n, NEW i, NEW m, NEW p, Walking(x, y, t, n, i, m, p), V!ValidateNothing
  PROVE  Stepped(y, t, n)
<1>1. ctl = "value" /\ V!Cur(it) \in {"end", "junk"} \cup Closers \cup {Comma, Colon} /\ V!Refuse(it)
  BY Zenon DEF V!ValidateNothing, Closers, Comma, Colon
<1>2. PICK c : c = V!Cur(it)  OBVIOUS
<1>3. n \in Nat /\ n = Len(y) /\ p \in 1..(n + 1) /\ i = it.iter /\ p = PosOf(t, i, n)  BY WalkingIs DEF Walking
<1>4. ASSUME Grammar!At(y, p) \notin Openers \cup Scalars PROVE ~Left(ctl, y, p, stack, n)
  <2>1. ~ValueAll(y, p, stack, n)  BY <1>3, <1>4, NothingAll
  <2> QED  BY <1>1, <2>1 DEF Left
<1>5. CASE c = "end"
  <2>1. Grammar!At(y, p) = "end"  BY <1>2, <1>5, SeenIs
  <2>2. Grammar!At(y, p) \notin Openers \cup Scalars  BY <2>1, ScalarsAre, Marked
  <2>3. ~Left(ctl, y, p, stack, n)  BY <1>4, <2>2
  <2> QED  BY <1>1, <1>3, <2>3, RefuseStep
<1>6. CASE c = "junk"
  <2>1. c # "end"  BY <1>6
  <2>2. p \in 1..n /\ c = x[p] /\ Sees(c, Grammar!At(y, p))  BY <1>2, <2>1, SeenIs
  <2>3. Grammar!At(y, p) = "num"  BY <1>6, <2>2 DEF Sees
  <2>4. Grammar!At(y, p) = y[p]  BY <1>3, <2>2, Inside
  <2>5. ~Fair
    <3>1. Fair => y = x
      <4>1. Reading(x, y, t, n)  BY DEF Walking
      <4> QED  BY <4>1, FairIs
    <3>2. y[p] # x[p]  BY <1>6, <2>2, <2>3, <2>4
    <3> QED  BY <3>1, <3>2
  <2> QED  BY <1>1, <2>5, RefuseStep
<1>7. CASE c \in Closers \cup {Comma, Colon}
  <2>1. c # "end"  BY <1>7, Marked
  <2>2. Sees(c, Grammar!At(y, p))  BY <1>2, <2>1, SeenIs
  <2>3. Grammar!At(y, p) = c  BY <1>7, <2>2, SeesMark
  <2>4. c \notin Openers \cup Scalars  BY <1>7, Marked, ScalarsAre
  <2>5. ~Left(ctl, y, p, stack, n)  BY <1>4, <2>3, <2>4
  <2> QED  BY <1>1, <1>3, <2>5, RefuseStep
<1> QED  BY <1>1, <1>2, <1>5, <1>6, <1>7

\* A number, or what begins like one.
LEMMA NumberStep ==
  ASSUME NEW x, NEW y, NEW t, NEW n, NEW i, NEW m, NEW p, Walking(x, y, t, n, i, m, p), V!ValidateNumber
  PROVE  Stepped(y, t, n)
<1>1. /\ ctl = "value" /\ V!Cur(it) \in {"num", "junk"}
      /\ \/ V!Accept(V!Advance(it), stack)
         \/ /\ ~(V!NotAtEndPre(V!Advance(it)) /\ V!Cur(it) = "num" /\ V!Alone(it))
            /\ V!Refuse(V!Advance(it))
  BY DEF V!ValidateNumber
<1>2. PICK c : c = V!Cur(it)  OBVIOUS
<1>3. c # "end"  BY <1>1, <1>2
<1>4. i \in 1..m /\ p \in 1..n /\ c = x[p] /\ c \in Read /\ Sees(c, Grammar!At(y, p))  BY <1>2, <1>3, SeenIs
<1>5. Grammar!At(y, p) = "num"
  <2>1. c \in {"num", "junk"}  BY <1>1, <1>2
  <2> QED  BY <1>4, <2>1, SeesScalar
<1>6. Grammar!At(y, p) \in Scalars  BY <1>5 DEF Scalars
<1>7. CASE V!Accept(V!Advance(it), stack)  BY <1>1, <1>6, <1>7, ScalarStep
<1>8. CASE /\ ~(V!NotAtEndPre(V!Advance(it)) /\ V!Cur(it) = "num" /\ V!Alone(it))
           /\ V!Refuse(V!Advance(it))
  <2>1. /\ n \in Nat /\ n = Len(y) /\ n = Len(x) /\ m \in Nat /\ i \in 1..(m + 1) /\ p \in 1..(n + 1)
        /\ opts = Options /\ ItOk(it) /\ stack \in Seq(Brackets)
        /\ stack = <<>> => i = 1
        /\ V!Pos(it) = p
    BY WalkingIs
  <2>2. Reading(x, y, t, n) /\ Places(t, y, n) /\ i = it.iter /\ m = Len(t) /\ p = PosOf(t, i, n)
    BY DEF Walking
  <2>3. ASSUME Fair, Left(ctl, y, p, stack, n) PROVE FALSE
    <3>1. y = x /\ Smooth(y, 1, n + 1)  BY <2>2, <2>3, FairIs
    <3>2. Grammar!At(y, p) = y[p]  BY <1>4, <2>1, Inside
    <3>3. V!Cur(it) = "num"  BY <1>2, <1>4, <1>5, <3>1, <3>2
    <3>4. V!Alone(it)
      <4>1. PICK l : l = p + 1  OBVIOUS
      <4>2. V!Lex(l) = IF l \in 1..n THEN x[l] ELSE "end"  BY <2>1, <2>2 DEF V!Lex, Reading
      <4>3. V!Lex(l) \in Keys \cup {"end", "ws"} \cup Openers \cup Closers \cup {Comma, Colon}
        <5>1. CASE l \in 1..n
          <6>1. \A k \in 1..((n + 1) - 2) : Run(y[k]) => ~Run(y[k + 1])  BY <3>1 DEF Smooth
          <6>2. p \in 1..((n + 1) - 2)  BY <1>4, <2>1, <4>1, <5>1
          <6>3. Run(y[p]) => ~Run(y[p + 1])  BY <6>1, <6>2
          <6>4. Run(y[p])  BY <1>5, <3>2 DEF Run, Runs
          <6>5. ~Run(x[l])  BY <3>1, <4>1, <6>3, <6>4
          <6>6. x[l] \in Plain
            <7>1. \A k \in 1..((n + 1) - 1) : y[k] \in Plain  BY <3>1 DEF Smooth
            <7>2. l \in 1..((n + 1) - 1)  BY <2>1, <5>1
            <7> QED  BY <3>1, <7>1, <7>2
          <6>7. x[l] \notin {"num", "true", "null"}  BY <6>5 DEF Run, Runs
          <6> QED  BY <4>2, <5>1, <6>6, <6>7 DEF Plain, Scalars
        <5>2. CASE l \notin 1..n  BY <4>2, <5>2
        <5> QED  BY <5>1, <5>2
      <4>4. V!Lex(V!Pos(it) + 1) = V!Lex(l)  BY <2>1, <4>1
      <4> QED  BY <4>3, <4>4, Zenon DEF V!Alone, Openers, Closers, Comma, Colon
    <3>5. ~V!NotAtEndPre(V!Advance(it))  BY <1>8, <3>3, <3>4
    <3>6. i = m
      <4>1. PICK s : s = V!Advance(it)  OBVIOUS
      <4>2. Moved(it, s, 0, 0)  BY <2>1, <4>1, Advanced
      <4>3. s.iter = i + 1  BY <2>2, <4>2, MovedIter
      <4>4. V!Structural /\ doc.tape = t  BY <2>1, <2>2 DEF V!Structural, Options, Reading
      <4>5. V!NotAtEndPre(s) <=> i + 1 <= m  BY <2>2, <4>3, <4>4 DEF V!NotAtEndPre, V!Limit
      <4> QED  BY <1>4, <2>1, <3>5, <4>1, <4>5
    <3>7. stack # <<>>
      <4>1. SUFFICES ASSUME stack = <<>> PROVE FALSE  OBVIOUS
      <4>2. i = 1  BY <2>1, <4>1
      <4>3. p = PosOf(t, 1, n)  BY <2>2, <4>2
      <4>4. p = Grammar!Start(y)  BY <2>2, <4>3, PlaceEnd
      <4>5. V!Lex(Grammar!Start(doc.text)) = x[p]
        <5>1. Grammar!Start(doc.text) = p  BY <2>2, <3>1, <4>4 DEF Reading
        <5>2. p \in 1..Len(doc.text) /\ doc.text = x  BY <1>4, <2>1, <2>2 DEF Reading
        <5> QED  BY <5>1, <5>2 DEF V!Lex
      <4>6. RootIsNumber  BY <1>2, <1>4, <3>3, <4>5 DEF RootIsNumber
      <4> QED  BY <2>3, <4>6 DEF Fair
    <3>8. PICK top, rest : IsPushed(stack, rest, top)  BY <2>1, <3>7, Popped
    <3>9. PICK r : r = PosOf(t, i + 1, n)  OBVIOUS
    <3>10. r = n + 1 /\ Grammar!At(y, r) = "end" /\ Grammar!Trim(y, r) = r /\ r \in 1..(n + 1)
      <4>1. r = PosOf(t, m + 1, n)  BY <3>6, <3>9
      <4>2. r = n + 1  BY <2>2, <4>1, PlaceEnd
      <4> QED  BY <2>1, <2>2, <4>2, PlaceEnd
    <3>11. Grammar!Trim(y, p + 1) = r
      <4>1. i \in 1..Len(t)  BY <1>4, <2>2
      <4> QED  BY <2>2, <3>9, <4>1, PlaceIs
    <3>12. AfterAll(y, r, stack, n)
      <4>1. ValueAll(y, p, stack, n)  BY <1>1, <2>3 DEF Left
      <4> QED  BY <1>6, <2>1, <3>11, <4>1, ScalarAll
    <3>13. Grammar!At(y, r) # Grammar!Closing(top) /\ Grammar!At(y, r) # Comma
      <4>1. Grammar!Closing(top) \in Closers  BY Marked
      <4> QED  BY <3>10, <4>1, Marked
    <3>14. ~AfterAll(y, r, stack, n)  BY <2>1, <3>8, <3>10, <3>13, OtherAll
    <3> QED  BY <3>12, <3>14
  <2>4. Fair => ~Left(ctl, y, PosOf(t, it.iter, n), stack, n)  BY <2>2, <2>3
  <2> QED  BY <1>8, <2>4, RefuseStep
<1> QED  BY <1>1, <1>7, <1>8

\* How a container's items go on.
LEMMA WithinIs ==
  /\ \A b \in Openers : Within(b) = "key" <=> Grammar!Closing(b) = KeyEnd
  /\ \A b \in Openers : Within(b) = "value" <=> Grammar!Closing(b) # KeyEnd
  /\ \A b : Within(b) \in {"key", "value"}
BY Zenon DEF Within, Openers, Grammar!Closing, KeyEnd

\* An item of an array is its value.
LEMMA ItemPlain == ASSUME NEW y, NEW p, NEW c \in Closers, c # KeyEnd PROVE Grammar!ItemAt(y, p, c) = p
<1>1. c = "]"  BY Zenon DEF Closers, KeyEnd
<1> QED  BY <1>1, Zenon DEF Grammar!ItemAt

\* What is left from an item on, for the validator and for the grammar.
LEMMA ItemLeft ==
  ASSUME NEW y, NEW n \in Nat, n = Len(y), NEW p \in 1..(n + 1), NEW b \in Openers, NEW c, c = Grammar!Closing(b), NEW st
  PROVE  ItemAll(y, p, c, st, n) <=> Left(Within(b), y, p, st, n)
<1>1. c \in Closers  BY Marked
<1>2. CASE c = KeyEnd
  <2>1. Within(b) = "key"  BY <1>2, WithinIs
  <2> QED  BY <1>2, <2>1 DEF Left
<1>3. CASE c # KeyEnd
  <2>1. Within(b) = "value"  BY <1>3, WithinIs
  <2>2. Grammar!ItemAt(y, p, c) = p  BY <1>1, <1>3, ItemPlain
  <2>3. p # 0  OBVIOUS
  <2>4. ItemAll(y, p, c, st, n) <=> ValueAll(y, p, st, n)  BY <2>2, <2>3 DEF ItemAll
  <2> QED  BY <2>1, <2>4 DEF Left
<1> QED  BY <1>2, <1>3

\* A container that begins.
LEMMA ContainerStep ==
  ASSUME NEW x, NEW y, NEW t, NEW n, NEW i, NEW m, NEW p, Walking(x, y, t, n, i, m, p), ctl = "value",
         NEW b \in Openers, V!Cur(it) = b, NEW d, d = Closer(b),
         NEW r, Taken(b, it, r), NEW e, Taken(d, r.s, e),
         \/ r.ok = FALSE /\ V!Refuse(r.s)
         \/ r.ok = TRUE /\ e.ok = TRUE /\ V!Accept(e.s, stack)
         \/ r.ok = TRUE /\ e.ok = FALSE /\ it' = e.s /\ stack' = Append(stack, b) /\ ctl' = Within(b)
  PROVE  Stepped(y, t, n)
<1>1. /\ Reading(x, y, t, n) /\ Places(t, y, n) /\ i = it.iter /\ m = Len(t) /\ p = PosOf(t, i, n)
  BY DEF Walking
<1>2. /\ n \in Nat /\ n = Len(y) /\ m \in Nat /\ i \in 1..(m + 1) /\ p \in 1..(n + 1)
      /\ opts = Options /\ ItOk(it) /\ it.errors = <<>> /\ Counted(it, stack)
      /\ stack \in Seq(Brackets) /\ Len(stack) = Deep(y, p - 1)
  BY WalkingIs
<1>3. i \in 1..m /\ p \in 1..n /\ Grammar!At(y, p) = b /\ y[p] = b
  <2>1. PICK c : c = V!Cur(it)  OBVIOUS
  <2>2. c # "end"  BY <2>1, Marked
  <2>3. i \in 1..m /\ p \in 1..n /\ Sees(c, Grammar!At(y, p))  BY <2>1, <2>2, SeenIs
  <2>4. Grammar!At(y, p) = b  BY <2>1, <2>3, SeesMark
  <2>5. Grammar!At(y, p) = y[p]  BY <1>2, <2>3, Inside
  <2> QED  BY <2>3, <2>4, <2>5
<1>4. b \in Brackets /\ d = Grammar!Closing(b) /\ d \in Closers /\ d \in MarksNamed
  <2>1. d = Grammar!Closing(b) /\ b \in Brackets  BY SameBrackets
  <2>2. d \in Closers  BY <2>1, Marked
  <2> QED  BY <2>1, <2>2 DEF MarksNamed
<1>5. PICK j, q : j = i + 1 /\ q = PosOf(t, j, n)  OBVIOUS
<1>6. j \in 1..(m + 1) /\ Grammar!Trim(y, p + 1) = q /\ q \in 1..(n + 1)
  <2>1. q = PosOf(t, i + 1, n) /\ i \in 1..Len(t)  BY <1>1, <1>3, <1>5
  <2>2. Grammar!Trim(y, p + 1) = q /\ q \in (p + 1)..(n + 1)  BY <1>1, <2>1, PlaceIs
  <2> QED  BY <1>2, <1>3, <1>5, <2>2
<1>7. PICK k \in Nat : k = Len(stack)  BY <1>2, LenProperties
<1>8. Deep(y, q - 1) = k + 1
  <2>1. q = PosOf(t, i + 1, n) /\ i \in 1..Len(t) /\ y[p] \in Openers  BY <1>1, <1>3, <1>5
  <2>2. Deep(y, q - 1) = Deep(y, p - 1) + 1  BY <1>1, <2>1, DeepNext
  <2> QED  BY <1>2, <1>7, <2>2
<1>9. CASE r.ok = FALSE /\ V!Refuse(r.s)
  <2>1. ~V!DepthOk(it)  BY <1>2, <1>4, <1>9, TakeOpen
  <2>2. it.obj + it.arr = k  BY <1>2, <1>7, OpensAll DEF Counted
  <2>3. ~(k < MaxDepth)  BY <2>1, <2>2 DEF V!DepthOk
  <2>4. ASSUME Fair PROVE FALSE
    <3>1. \A l \in 1..n : Deep(y, l) <= MaxDepth  BY <1>1, <2>4, FairIs
    <3>2. Deep(y, p) = k + 1
      <4>1. PICK z \in Nat : z = p - 1 /\ p = z + 1  BY <1>3
      <4>2. y[p] \in Openers => Deep(y, p) = Deep(y, z) + 1  BY <4>1, DeepStep
      <4> QED  BY <1>2, <1>3, <1>7, <4>1, <4>2
    <3>3. k + 1 <= MaxDepth  BY <1>3, <3>1, <3>2
    <3> QED  BY <2>3, <3>3, DepthAssumption
  <2> QED  BY <1>9, <2>4, RefuseStep
<1>10. CASE r.ok = TRUE
  <2>1. PICK s : s = r.s  OBVIOUS
  <2>2. s.iter = j /\ ItOk(s) /\ s.errors = <<>> /\ Opened(it, s, b)
    <3>1. s.iter = j  BY <1>1, <1>2, <1>4, <1>5, <1>10, <2>1, TakeOpen
    <3>2. Opened(it, s, b)  BY <1>2, <1>4, <1>10, <2>1, OpeningIs
    <3> QED  BY <1>2, <3>1, <3>2 DEF Opened
  <2>3. PICK new : new = Append(stack, b)  OBVIOUS
  <2>4. IsPushed(new, stack, b) /\ Len(new) = k + 1 /\ new # <<>>
    <3>1. IsPushed(new, stack, b)  BY <1>2, <1>4, <2>3 DEF IsPushed
    <3>2. Len(new) = Len(stack) + 1 /\ new # <<>>  BY <1>2, <1>4, <2>3, AppendProperties
    <3> QED  BY <1>7, <3>1, <3>2
  <2>5. Counted(s, new)  BY <1>2, <2>2, <2>4, PushedCounts
  <2>6. e.ok \in BOOLEAN /\ (e.ok = TRUE <=> V!Cur(s) = d) /\ (e.ok = TRUE => e.s.iter = s.iter + 1)
        /\ (e.ok = FALSE => e.s = s)
    BY <1>2, <1>4, <2>1, <2>2, TakeMark
  <2>7. V!Cur(s) = d <=> j \in 1..m /\ Grammar!At(y, q) = d
    <3>1. PICK c : c = V!Cur(s)  OBVIOUS
    <3>2. s.iter = j /\ m = Len(t) /\ q = PosOf(t, j, n)  BY <1>1, <1>5, <2>2
    <3>3. j = m + 1 => c = "end"
      <4>1. V!Pos(s) = q /\ (j = m + 1 => c = "end")  BY <1>1, <1>6, <3>1, <3>2, CurIs
      <4> QED  BY <4>1
    <3>4. j <= m => c \in Read /\ Sees(c, Grammar!At(y, q))
      <4>1. j <= m => q \in 1..n /\ c = x[q] /\ c \in Read /\ Sees(c, Grammar!At(y, q))
        BY <1>1, <1>6, <3>1, <3>2, CurIs
      <4> QED  BY <4>1
    <3>5. CASE j = m + 1
      <4>1. c # d /\ j \notin 1..m  BY <1>2, <1>4, <3>3, <3>5, Marked
      <4> QED  BY <3>1, <4>1
    <3>6. CASE j \in 1..m
      <4>1. Sees(c, Grammar!At(y, q))  BY <1>2, <3>4, <3>6
      <4>2. c = d <=> Grammar!At(y, q) = d  BY <1>4, <4>1, SeesMark
      <4> QED  BY <3>1, <3>6, <4>2
    <3>7. j = m + 1 \/ j \in 1..m  BY <1>2, <1>6
    <3> QED  BY <3>5, <3>6, <3>7
  <2>8. CASE e.ok = TRUE /\ V!Accept(e.s, stack)
    <3>1. PICK u, l, w : u = e.s /\ l = j + 1 /\ w = PosOf(t, l, n)  OBVIOUS
    <3>2. u.iter = l /\ j \in 1..m /\ Grammar!At(y, q) = d  BY <2>2, <2>6, <2>7, <2>8, <3>1
    <3>3. Closed(s, u, b)
      <4>1. (b = "{" => s.obj > 0) /\ (b = "[" => s.arr > 0)  BY <2>2, <2>4, <2>5, PoppedCounts
      <4>2. Taken(d, s, e)  BY <2>1
      <4>3. (e.ok = FALSE /\ u = s) \/ (e.ok = TRUE /\ Closed(s, u, b))
        BY <1>2, <1>4, <2>2, <3>1, <4>1, <4>2, ClosingIs
      <4> QED  BY <2>8, <4>3
    <3>4. ItOk(u) /\ u.errors = <<>> /\ Counted(u, stack)
      <4>1. ItOk(u) /\ u.errors = <<>>  BY <2>2, <3>3 DEF Closed
      <4>2. Counted(u, stack)  BY <2>2, <2>4, <2>5, <3>3, PoppedCounts
      <4> QED  BY <4>1, <4>2
    <3>5. j \in 1..Len(t) /\ w = PosOf(t, j + 1, n)  BY <1>1, <3>1, <3>2
    <3>6. Grammar!Trim(y, q + 1) = w /\ Grammar!At(y, q) = y[q]  BY <1>1, <1>5, <3>5, PlaceIs
    <3>7. Deep(y, w - 1) = k
      <4>1. y[q] \in Closers  BY <1>4, <3>2, <3>6
      <4>2. Deep(y, w - 1) = Deep(y, q - 1) - 1  BY <1>1, <1>5, <3>5, <4>1, DeepNext
      <4> QED  BY <1>7, <1>8, <4>2
    <3>8. ValueAll(y, p, stack, n) <=> AfterAll(y, w, stack, n)
      <4>1. Grammar!At(y, q) = Grammar!Closing(b)  BY <1>4, <3>2
      <4> QED  BY <1>2, <1>3, <1>6, <3>6, <4>1, EmptyAll
    <3>9. Left(ctl, y, p, stack, n) <=> AfterAll(y, w, stack, n)  BY <3>8 DEF Left
    <3>10. u.iter \in 1..(Len(t) + 1)  BY <1>1, <1>2, <3>1, <3>2
    <3>11. Len(stack) = Deep(y, PosOf(t, u.iter, n) - 1)  BY <1>7, <3>1, <3>2, <3>7
    <3>12. Left(ctl, y, PosOf(t, it.iter, n), stack, n) <=> AfterAll(y, PosOf(t, u.iter, n), stack, n)
      BY <1>1, <3>1, <3>2, <3>9
    <3>13. V!Accept(u, stack)  BY <2>8, <3>1
    <3> QED  BY <1>1, <1>2, <3>4, <3>10, <3>11, <3>12, <3>13, AcceptStep
  <2>9. CASE e.ok = FALSE /\ it' = e.s /\ stack' = new /\ ctl' = Within(b)
    <3>1. it' = s /\ V!Cur(s) # d  BY <2>6, <2>9
    <3>2. Grammar!At(y, q) # d
      <4>1. SUFFICES ASSUME Grammar!At(y, q) = d PROVE j \in 1..m  BY <2>7, <3>1
      <4>2. j # m + 1
        <5>1. j = m + 1 => q = PosOf(t, Len(t) + 1, n)  BY <1>1, <1>5
        <5>2. j = m + 1 => q = n + 1 /\ Grammar!At(y, n + 1) = "end"  BY <1>1, <5>1, PlaceEnd
        <5>3. d # "end"  BY <1>4, Marked
        <5> QED  BY <4>1, <5>2, <5>3
      <4> QED  BY <1>2, <1>6, <4>2
    <3>3. ValueAll(y, p, stack, n) <=> ItemAll(y, q, d, new, n)  BY <1>2, <1>3, <1>4, <1>6, <2>4, <3>2, OpenAll
    <3>4. ItemAll(y, q, d, new, n) <=> Left(Within(b), y, q, new, n)  BY <1>2, <1>4, <1>6, ItemLeft
    <3>5. PICK c : c = Within(b)  OBVIOUS
    <3>6. c \in {"key", "value"}  BY <3>5, WithinIs
    <3>7. Left(ctl, y, p, stack, n) <=> Left(c, y, q, new, n)
      <4>1. Left(ctl, y, p, stack, n) <=> ValueAll(y, p, stack, n)  BY DEF Left
      <4> QED  BY <3>3, <3>4, <3>5, <4>1
    <3>8. Fits(c, s, new, y, t, n)
      <4>1. s.iter \in 1..(Len(t) + 1) /\ Len(new) = Deep(y, PosOf(t, s.iter, n) - 1)
        BY <1>1, <1>5, <1>6, <1>8, <2>2, <2>4
      <4> QED  BY <2>4, <4>1 DEF Fits
    <3>9. Left(ctl, y, PosOf(t, it.iter, n), stack, n) <=> Left(c, y, PosOf(t, s.iter, n), new, n)
      BY <1>1, <1>5, <2>2, <3>7
    <3>10. c \in {"key", "value", "after"} /\ it' = s /\ ctl' = c /\ stack' = new  BY <2>9, <3>1, <3>5, <3>6
    <3> QED  BY <3>8, <3>9, <3>10, GoesStep
  <2>10. r.ok # FALSE  BY <1>10
  <2> QED  BY <2>3, <2>8, <2>9, <2>10
<1> QED  BY <1>9, <1>10

\* A mark under the iterator.
LEMMA MarkSeen ==
  ASSUME NEW x, NEW y, NEW t, NEW n, Reading(x, y, t, n), NEW s, NEW j, s.iter = j,
         NEW m, m = Len(t), j \in 1..(m + 1), NEW q, q = PosOf(t, j, n),
         NEW d \in Openers \cup Closers \cup {Comma, Colon}
  PROVE  /\ V!Cur(s) = d <=> Grammar!At(y, q) = d
         /\ Grammar!At(y, q) = d => j \in 1..m /\ q \in 1..n
<1>1. PICK c : c = V!Cur(s)  OBVIOUS
<1>2. d # "end"  BY Marked
<1>3. m \in Nat
  <2>1. Places(t, y, n)  BY ReadingPlaces
  <2> QED  BY <2>1 DEF Places
<1>4. CASE j = m + 1
  <2>1. /\ V!Pos(s) = q /\ q \in 1..(n + 1)
        /\ j = m + 1 => c = "end" /\ Grammar!At(y, q) = "end" /\ q = n + 1
    BY <1>1, CurIs
  <2> QED  BY <1>1, <1>2, <1>4, <2>1
<1>5. CASE j \in 1..m
  <2>1. j <= m => q \in 1..n /\ c = x[q] /\ c \in Read /\ Sees(c, Grammar!At(y, q))  BY <1>1, CurIs
  <2>2. q \in 1..n /\ Sees(c, Grammar!At(y, q))  BY <1>3, <1>5, <2>1
  <2>3. c = d <=> Grammar!At(y, q) = d  BY <2>2, SeesMark
  <2> QED  BY <1>1, <1>5, <2>2, <2>3
<1>6. j = m + 1 \/ j \in 1..m  BY <1>3
<1> QED  BY <1>4, <1>5, <1>6

\* The validator sees a mark where the blurred document has one.
LEMMA MarkIs ==
  ASSUME NEW x, NEW y, NEW t, NEW n, Reading(x, y, t, n), NEW s, s.iter \in 1..(Len(t) + 1),
         NEW d \in Openers \cup Closers \cup {Comma, Colon}
  PROVE  V!Cur(s) = d <=> Grammar!At(y, PosOf(t, s.iter, n)) = d
<1>1. PICK j, m, q : j = s.iter /\ m = Len(t) /\ q = PosOf(t, j, n)  OBVIOUS
<1> QED  BY <1>1, MarkSeen

\* A mark has an entry.
LEMMA MarkPlace ==
  ASSUME NEW x, NEW y, NEW t, NEW n, Reading(x, y, t, n), NEW j \in 1..(Len(t) + 1),
         Grammar!At(y, PosOf(t, j, n)) \in Openers \cup Closers \cup {Comma, Colon}
  PROVE  j \in 1..Len(t)
<1>1. Places(t, y, n)  BY ReadingPlaces
<1>2. Grammar!At(y, PosOf(t, j, n)) # "end"  BY Marked
<1>3. j # Len(t) + 1  BY <1>1, <1>2, PlaceEnd
<1>4. Len(t) \in Nat  BY <1>1 DEF Places
<1> QED  BY <1>3, <1>4

\* A member's key, its colon and its value.
LEMMA KeyItem ==
  ASSUME NEW y, NEW p, NEW o, o = Grammar!Trim(y, p + 1), NEW v, v = Grammar!Trim(y, o + 1)
  PROVE  /\ Grammar!At(y, p) \in Keys /\ Grammar!At(y, o) = Colon => Grammar!ItemAt(y, p, KeyEnd) = v
         /\ ~(Grammar!At(y, p) \in Keys /\ Grammar!At(y, o) = Colon) => Grammar!ItemAt(y, p, KeyEnd) = 0
<1>1. KeyEnd = "}" /\ KeyEnd # "]"  BY Zenon DEF KeyEnd
<1>2. ASSUME Grammar!At(y, p) \in Keys, Grammar!At(y, o) = Colon PROVE Grammar!ItemAt(y, p, KeyEnd) = v
  BY <1>1, <1>2 DEF Grammar!ItemAt, Colon
<1>3. ASSUME ~(Grammar!At(y, p) \in Keys /\ Grammar!At(y, o) = Colon) PROVE Grammar!ItemAt(y, p, KeyEnd) = 0
  BY <1>1, <1>3 DEF Grammar!ItemAt, Colon
<1> QED  BY <1>2, <1>3

\* A key and its colon are taken, or the document is refused.
LEMMA KeyDoes ==
  ASSUME V!Key, NEW s, s = V!Advance(it), NEW r, r = V!IncrementIfEquals(Colon, s)
  PROVE  /\ ctl = "key"
         /\ \/ V!AtQuote(it) /\ r.ok /\ it' = r.s /\ ctl' = "value" /\ stack' = stack
            \/ V!AtQuote(it) /\ ~r.ok /\ V!Refuse(r.s)
            \/ ~V!AtQuote(it) /\ V!Refuse(it)
<1>1. r = V!IncrementIfEquals(":", V!Advance(it))  BY Zenon DEF Colon
<1> QED  BY <1>1, Zenon DEF V!Key

\* The steps of the validator keep what is left: a key.
LEMMA KeyStep ==
  ASSUME NEW x, NEW y, NEW t, NEW n, NEW i, NEW m, NEW p, Walking(x, y, t, n, i, m, p), V!Key
  PROVE  Stepped(y, t, n)
<1>1. /\ Reading(x, y, t, n) /\ Places(t, y, n) /\ i = it.iter /\ m = Len(t) /\ p = PosOf(t, i, n)
  BY DEF Walking
<1>2. /\ n \in Nat /\ n = Len(y) /\ m \in Nat /\ i \in 1..(m + 1) /\ p \in 1..(n + 1)
      /\ opts = Options /\ ItOk(it) /\ stack \in Seq(Brackets) /\ Len(stack) = Deep(y, p - 1)
      /\ stack = <<>> => ctl = "value" /\ i = 1
  BY WalkingIs
<1>3. PICK s : s = V!Advance(it)  OBVIOUS
<1>4. PICK r : r = V!IncrementIfEquals(Colon, s)  OBVIOUS
<1>5. /\ ctl = "key"
      /\ \/ V!AtQuote(it) /\ r.ok /\ it' = r.s /\ ctl' = "value" /\ stack' = stack
         \/ V!AtQuote(it) /\ ~r.ok /\ V!Refuse(r.s)
         \/ ~V!AtQuote(it) /\ V!Refuse(it)
  BY <1>3, <1>4, KeyDoes
<1>6. PICK v : v = Grammar!ItemAt(y, p, KeyEnd)  OBVIOUS
<1>7. Left(ctl, y, p, stack, n) <=> v # 0 /\ ValueAll(y, v, stack, n)  BY <1>5, <1>6 DEF Left, ItemAll
<1>8. PICK c : c = V!Cur(it)  OBVIOUS
<1>9. V!AtQuote(it) <=> c \in Keys \cup {"open"}  BY <1>8 DEF V!AtQuote
<1>10. CASE ~V!AtQuote(it)
  <2>1. Grammar!At(y, p) \notin Keys
    <3>1. CASE c = "end"
      <4>1. Grammar!At(y, p) = "end"  BY <1>8, <3>1, SeenIs
      <4> QED  BY <4>1, LexemesAssumption
    <3>2. CASE c # "end"
      <4>1. c \in Read /\ Sees(c, Grammar!At(y, p))  BY <1>8, <3>2, SeenIs
      <4>2. c \in Keys \cup {"open"} <=> Grammar!At(y, p) \in Keys  BY <4>1, SeesScalar
      <4> QED  BY <1>9, <1>10, <4>2
    <3> QED  BY <3>1, <3>2
  <2>2. v = 0
    <3>1. PICK o : o = Grammar!Trim(y, p + 1)  OBVIOUS
    <3>2. PICK w : w = Grammar!Trim(y, o + 1)  OBVIOUS
    <3> QED  BY <1>6, <2>1, <3>1, <3>2, KeyItem
  <2>3. Fair => ~Left(ctl, y, PosOf(t, it.iter, n), stack, n)  BY <1>1, <1>7, <2>2
  <2>4. V!Refuse(it)  BY <1>5, <1>10, Zenon
  <2> QED  BY <2>3, <2>4, RefuseStep
<1>11. CASE V!AtQuote(it)
  <2>1. c \in Keys \cup {"open"}  BY <1>9, <1>11
  <2>2. c # "end"  BY <2>1, LexemesAssumption
  <2>3. i \in 1..m /\ p \in 1..n /\ c \in Read /\ Sees(c, Grammar!At(y, p))  BY <1>8, <2>2, SeenIs
  <2>4. Grammar!At(y, p) \in Keys  BY <2>1, <2>3, SeesScalar
  <2>5. PICK j, q : j = i + 1 /\ q = PosOf(t, j, n)  OBVIOUS
  <2>6. /\ j \in 1..(m + 1) /\ Grammar!Trim(y, p + 1) = q /\ q \in 1..(n + 1) /\ Grammar!At(y, p) = y[p]
        /\ i \in 1..Len(t)
    <3>1. q = PosOf(t, i + 1, n) /\ i \in 1..Len(t)  BY <1>1, <2>3, <2>5
    <3>2. Grammar!Trim(y, p + 1) = q /\ q \in (p + 1)..(n + 1) /\ Grammar!At(y, p) = y[p]  BY <1>1, <3>1, PlaceIs
    <3> QED  BY <1>2, <2>3, <2>5, <3>1, <3>2
  <2>7. s.iter = j /\ ItOk(s)
    <3>1. Moved(it, s, 0, 0)  BY <1>2, <1>3, Advanced
    <3>2. s.iter = j  BY <1>1, <2>5, <3>1, MovedIter
    <3>3. Alike(it, s)  BY <1>2, <3>1, AlikeIs
    <3> QED  BY <3>2, <3>3 DEF Alike
  <2>8. /\ r.ok \in BOOLEAN /\ (r.ok = TRUE <=> V!Cur(s) = Colon)
        /\ r.ok = TRUE => r.s.iter = s.iter + 1
        /\ r.ok = FALSE => r.s = s
    <3>1. Taken(Colon, s, r) /\ Colon \in MarksNamed  BY <1>4 DEF Taken, MarksNamed
    <3> QED  BY <1>2, <2>7, <3>1, TakeMark
  <2>9. /\ V!Cur(s) = Colon <=> Grammar!At(y, q) = Colon
        /\ Grammar!At(y, q) = Colon => j \in 1..m /\ q \in 1..n
    <3>1. Colon \in Openers \cup Closers \cup {Comma, Colon}  OBVIOUS
    <3>2. V!Cur(s) = Colon <=> Grammar!At(y, q) = Colon
      <4>1. s.iter \in 1..(Len(t) + 1) /\ q = PosOf(t, s.iter, n)  BY <1>1, <2>5, <2>6, <2>7
      <4> QED  BY <1>1, <3>1, <4>1, MarkIs
    <3>3. Grammar!At(y, q) = Colon => j \in 1..m
      <4>1. j \in 1..(Len(t) + 1) /\ q = PosOf(t, j, n)  BY <1>1, <2>5, <2>6
      <4> QED  BY <1>1, <3>1, <4>1, MarkPlace
    <3>4. Grammar!At(y, q) = Colon => q \in 1..n
      <4>1. j \in 1..Len(t) /\ q = PosOf(t, j, n) => q \in 1..n  BY <1>1, PlaceIs
      <4> QED  BY <1>1, <2>5, <3>3, <4>1
    <3> QED  BY <3>2, <3>3, <3>4
  <2>10. PICK w : w = Grammar!Trim(y, q + 1)  OBVIOUS
  <2>11. CASE r.ok = FALSE
    <3>1. V!Refuse(r.s)  BY <1>5, <1>11, <2>11, Zenon
    <3>2. Grammar!At(y, q) # Colon  BY <2>8, <2>9, <2>11
    <3>3. v = 0  BY <1>6, <2>6, <2>10, <3>2, KeyItem
    <3>4. Fair => ~Left(ctl, y, PosOf(t, it.iter, n), stack, n)  BY <1>1, <1>7, <3>3
    <3> QED  BY <3>1, <3>4, RefuseStep
  <2>12. CASE r.ok = TRUE
    <3>1. it' = r.s /\ ctl' = "value" /\ stack' = stack  BY <1>5, <1>11, <2>12, Zenon
    <3>2. Grammar!At(y, q) = Colon /\ j \in 1..m /\ q \in 1..n  BY <2>8, <2>9, <2>12
    <3>3. v = w  BY <1>6, <2>4, <2>6, <2>10, <3>2, KeyItem
    <3>4. PICK l, u : l = j + 1 /\ u = r.s  OBVIOUS
    <3>5. u.iter = l  BY <2>7, <2>8, <2>12, <3>4
    <3>6. w = PosOf(t, l, n) /\ w \in (q + 1)..(n + 1) /\ Grammar!At(y, q) = y[q] /\ j \in 1..Len(t)
      <4>1. j \in 1..Len(t) /\ PosOf(t, l, n) = PosOf(t, j + 1, n)  BY <1>1, <3>2, <3>4
      <4>2. Grammar!Trim(y, q + 1) = PosOf(t, j + 1, n) /\ PosOf(t, j + 1, n) \in (q + 1)..(n + 1)
            /\ Grammar!At(y, q) = y[q]
        BY <1>1, <2>5, <4>1, PlaceIs
      <4> QED  BY <2>10, <4>1, <4>2
    <3>7. w # 0  BY <3>2, <3>6
    <3>8. PICK g : g = "value"  OBVIOUS
    <3>9. Left(ctl, y, p, stack, n) <=> Left(g, y, w, stack, n)
      <4>1. Left(g, y, w, stack, n) <=> ValueAll(y, w, stack, n)  BY <3>8 DEF Left
      <4> QED  BY <1>7, <3>3, <3>7, <4>1
    <3>10. Deep(y, w - 1) = Deep(y, p - 1)
      <4>1. Deep(y, q - 1) = Deep(y, p - 1)
        <5>1. y[p] \notin Openers /\ y[p] \notin Closers
          <6>1. y[p] \in Scalars  BY <2>4, <2>6 DEF Scalars
          <6> QED  BY <6>1, ScalarsAre
        <5>2. q = PosOf(t, i + 1, n)  BY <2>5
        <5> QED  BY <1>1, <2>6, <5>1, <5>2, DeepNext
      <4>2. Deep(y, w - 1) = Deep(y, q - 1)
        <5>1. y[q] \notin Openers /\ y[q] \notin Closers  BY <3>2, <3>6, Marked
        <5>2. w = PosOf(t, j + 1, n)  BY <3>4, <3>6
        <5> QED  BY <1>1, <2>5, <3>6, <5>1, <5>2, DeepNext
      <4> QED  BY <4>1, <4>2
    <3>11. Fits(g, u, stack, y, t, n)
      <4>1. stack # <<>>  BY <1>2, <1>5
      <4>2. u.iter \in 1..(Len(t) + 1)  BY <1>1, <1>2, <3>2, <3>4, <3>5
      <4>3. Len(stack) = Deep(y, PosOf(t, u.iter, n) - 1)  BY <1>2, <3>5, <3>6, <3>10
      <4> QED  BY <4>1, <4>2, <4>3 DEF Fits
    <3>12. Left(ctl, y, PosOf(t, it.iter, n), stack, n) <=> Left(g, y, PosOf(t, u.iter, n), stack, n)
      BY <1>1, <3>5, <3>6, <3>9
    <3>13. g \in {"key", "value", "after"} /\ it' = u /\ ctl' = g /\ stack' = stack  BY <3>1, <3>4, <3>8
    <3> QED  BY <3>11, <3>12, <3>13, GoesStep
  <2> QED  BY <2>8, <2>11, <2>12
<1> QED  BY <1>10, <1>11

-------------------------------------------------------------------------------
\* A comma, or the end of a container.
LEMMA AfterDoes ==
  ASSUME V!After, NEW r, r = V!IncrementIfEquals(Comma, it), NEW e, e = V!IncrementIfEquals(Closer(V!Top), it)
  PROVE  /\ ctl = "after"
         /\ \/ r.ok /\ it' = r.s /\ ctl' = Within(V!Top) /\ stack' = stack
            \/ e.ok /\ V!Accept(e.s, V!Below)
            \/ ~r.ok /\ ~e.ok /\ V!Refuse(e.s)
<1>1. r = V!IncrementIfEquals(",", it)  BY Zenon DEF Comma
<1>2. e = V!IncrementIfEquals(IF V!Top = "{" THEN "}" ELSE "]", it)  BY Zenon DEF Closer
<1> QED  BY <1>1, <1>2, Zenon DEF V!After, Within

\* What follows an item.
LEMMA AfterStep ==
  ASSUME NEW x, NEW y, NEW t, NEW n, NEW i, NEW m, NEW p, Walking(x, y, t, n, i, m, p), V!After
  PROVE  Stepped(y, t, n)
<1>1. /\ Reading(x, y, t, n) /\ Places(t, y, n) /\ i = it.iter /\ m = Len(t) /\ p = PosOf(t, i, n)
  BY DEF Walking
<1>2. /\ n \in Nat /\ n = Len(y) /\ m \in Nat /\ i \in 1..(m + 1) /\ p \in 1..(n + 1)
      /\ opts = Options /\ ItOk(it) /\ it.errors = <<>> /\ Counted(it, stack)
      /\ stack \in Seq(Brackets) /\ Len(stack) = Deep(y, p - 1)
      /\ stack = <<>> => ctl = "value" /\ i = 1
      /\ Grammar!Trim(y, p) = p
  BY WalkingIs
<1>3. PICK r : r = V!IncrementIfEquals(Comma, it)  OBVIOUS
<1>4. PICK e : e = V!IncrementIfEquals(Closer(V!Top), it)  OBVIOUS
<1>5. /\ ctl = "after"
      /\ \/ r.ok /\ it' = r.s /\ ctl' = Within(V!Top) /\ stack' = stack
         \/ e.ok /\ V!Accept(e.s, V!Below)
         \/ ~r.ok /\ ~e.ok /\ V!Refuse(e.s)
  BY <1>3, <1>4, AfterDoes
<1>6. stack # <<>>  BY <1>2, <1>5
<1>7. PICK top, rest : top = V!Top /\ rest = V!Below  OBVIOUS
<1>8. IsPushed(stack, rest, top) /\ Len(rest) = Len(stack) - 1
      /\ rest \in Seq(Brackets) /\ top \in Brackets /\ top \in Openers
  <2>1. IsPushed(stack, rest, top) /\ Len(rest) = Len(stack) - 1  BY <1>2, <1>6, <1>7, Popped DEF V!Top, V!Below
  <2> QED  BY <2>1, SameBrackets DEF IsPushed
<1>9. PICK d : d = Closer(top)  OBVIOUS
<1>10. d = Grammar!Closing(top) /\ d \in Closers /\ d \in MarksNamed /\ d # Comma
  <2>1. d = Grammar!Closing(top)  BY <1>9, SameBrackets
  <2>2. d \in Closers  BY <2>1, Marked
  <2> QED  BY <2>1, <2>2, Marked DEF MarksNamed
<1>11. /\ r.ok \in BOOLEAN /\ (r.ok = TRUE <=> V!Cur(it) = Comma)
       /\ r.ok = TRUE => r.s.iter = it.iter + 1
  <2>1. Taken(Comma, it, r) /\ Comma \in MarksNamed  BY <1>3 DEF Taken, MarksNamed
  <2> QED  BY <1>2, <2>1, TakeMark
<1>12. /\ e.ok \in BOOLEAN /\ (e.ok = TRUE <=> V!Cur(it) = d)
       /\ e.ok = TRUE => e.s.iter = it.iter + 1
  <2>1. Taken(d, it, e)  BY <1>4, <1>7, <1>9 DEF Taken
  <2> QED  BY <1>2, <1>10, <2>1, TakeMark
<1>13. /\ V!Cur(it) = Comma <=> Grammar!At(y, p) = Comma
       /\ Grammar!At(y, p) = Comma => i \in 1..m /\ p \in 1..n
  <2>1. Comma \in Openers \cup Closers \cup {Comma, Colon}  OBVIOUS
  <2>2. V!Cur(it) = Comma <=> Grammar!At(y, p) = Comma
    <3>1. it.iter \in 1..(Len(t) + 1) /\ p = PosOf(t, it.iter, n)  BY <1>1, <1>2
    <3> QED  BY <1>1, <2>1, <3>1, MarkIs
  <2>3. Grammar!At(y, p) = Comma => i \in 1..m
    <3>1. i \in 1..(Len(t) + 1)  BY <1>1, <1>2
    <3> QED  BY <1>1, <2>1, <3>1, MarkPlace
  <2>4. Grammar!At(y, p) = Comma => p \in 1..n
    <3>1. i \in 1..Len(t) => p \in 1..n  BY <1>1, PlaceIs
    <3> QED  BY <1>1, <2>3, <3>1
  <2> QED  BY <2>2, <2>3, <2>4
<1>14. /\ V!Cur(it) = d <=> Grammar!At(y, p) = d
       /\ Grammar!At(y, p) = d => i \in 1..m /\ p \in 1..n
  <2>1. d \in Openers \cup Closers \cup {Comma, Colon}  BY <1>10
  <2>2. V!Cur(it) = d <=> Grammar!At(y, p) = d
    <3>1. it.iter \in 1..(Len(t) + 1) /\ p = PosOf(t, it.iter, n)  BY <1>1, <1>2
    <3> QED  BY <1>1, <2>1, <3>1, MarkIs
  <2>3. Grammar!At(y, p) = d => i \in 1..m
    <3>1. i \in 1..(Len(t) + 1)  BY <1>1, <1>2
    <3> QED  BY <1>1, <2>1, <3>1, MarkPlace
  <2>4. Grammar!At(y, p) = d => p \in 1..n
    <3>1. i \in 1..Len(t) => p \in 1..n  BY <1>1, PlaceIs
    <3> QED  BY <1>1, <2>3, <3>1
  <2> QED  BY <2>2, <2>3, <2>4
<1>15. Left(ctl, y, p, stack, n) <=> AfterAll(y, p, stack, n)  BY <1>5 DEF Left
<1>16. PICK j, q : j = i + 1 /\ q = PosOf(t, j, n)  OBVIOUS
<1>17. ASSUME i \in 1..m
       PROVE  /\ i \in 1..Len(t) /\ j \in 1..(m + 1) /\ Grammar!Trim(y, p + 1) = q /\ q \in 1..(n + 1)
              /\ Grammar!At(y, p) = y[p] /\ q = PosOf(t, i + 1, n)
  <2>1. q = PosOf(t, i + 1, n) /\ i \in 1..Len(t)  BY <1>1, <1>16, <1>17
  <2>2. Grammar!Trim(y, p + 1) = q /\ q \in (p + 1)..(n + 1) /\ Grammar!At(y, p) = y[p] /\ p \in 1..n
    BY <1>1, <2>1, PlaceIs
  <2> QED  BY <1>2, <1>16, <1>17, <2>1, <2>2
<1>18. CASE r.ok = TRUE /\ it' = r.s /\ ctl' = Within(top) /\ stack' = stack
  <2>1. Grammar!At(y, p) = Comma /\ i \in 1..m /\ p \in 1..n  BY <1>11, <1>13, <1>18
  <2>2. /\ i \in 1..Len(t) /\ j \in 1..(m + 1) /\ Grammar!Trim(y, p + 1) = q /\ q \in 1..(n + 1)
        /\ Grammar!At(y, p) = y[p] /\ q = PosOf(t, i + 1, n)
    BY <1>17, <2>1
  <2>3. PICK u, g : u = r.s /\ g = Within(top)  OBVIOUS
  <2>4. u.iter = j  BY <1>1, <1>11, <1>16, <1>18, <2>3
  <2>5. AfterAll(y, p, stack, n) <=> ItemAll(y, q, d, stack, n)  BY <1>2, <1>8, <1>10, <2>1, <2>2, CommaAll
  <2>6. ItemAll(y, q, d, stack, n) <=> Left(Within(top), y, q, stack, n)  BY <1>2, <1>8, <1>10, <2>2, ItemLeft
  <2>7. Left(ctl, y, p, stack, n) <=> Left(g, y, q, stack, n)  BY <1>15, <2>3, <2>5, <2>6
  <2>8. Deep(y, q - 1) = Deep(y, p - 1)
    <3>1. y[p] \notin Openers /\ y[p] \notin Closers  BY <2>1, <2>2, Marked
    <3> QED  BY <1>1, <2>2, <3>1, DeepNext
  <2>9. Fits(g, u, stack, y, t, n)
    <3>1. u.iter \in 1..(Len(t) + 1)  BY <1>1, <2>2, <2>4
    <3>2. Len(stack) = Deep(y, PosOf(t, u.iter, n) - 1)  BY <1>2, <1>16, <2>4, <2>8
    <3> QED  BY <1>6, <3>1, <3>2 DEF Fits
  <2>10. Left(ctl, y, PosOf(t, it.iter, n), stack, n) <=> Left(g, y, PosOf(t, u.iter, n), stack, n)
    BY <1>1, <1>16, <2>4, <2>7
  <2>11. g \in {"key", "value", "after"}  BY <2>3, WithinIs
  <2>12. it' = u /\ ctl' = g /\ stack' = stack  BY <1>18, <2>3
  <2> QED  BY <2>9, <2>10, <2>11, <2>12, GoesStep
<1>19. CASE e.ok = TRUE /\ V!Accept(e.s, rest)
  <2>1. Grammar!At(y, p) = d /\ i \in 1..m /\ p \in 1..n  BY <1>12, <1>14, <1>19
  <2>2. /\ i \in 1..Len(t) /\ j \in 1..(m + 1) /\ Grammar!Trim(y, p + 1) = q /\ q \in 1..(n + 1)
        /\ Grammar!At(y, p) = y[p] /\ q = PosOf(t, i + 1, n)
    BY <1>17, <2>1
  <2>3. PICK u : u = e.s  OBVIOUS
  <2>4. u.iter = j  BY <1>1, <1>12, <1>16, <1>19, <2>3
  <2>5. Closed(it, u, top)
    <3>1. (top = "{" => it.obj > 0) /\ (top = "[" => it.arr > 0)  BY <1>2, <1>8, PoppedCounts
    <3>2. Taken(d, it, e)  BY <1>4, <1>7, <1>9 DEF Taken
    <3>3. (e.ok = FALSE /\ u = it) \/ (e.ok = TRUE /\ Closed(it, u, top))
      BY <1>2, <1>8, <1>9, <2>3, <3>1, <3>2, ClosingIs
    <3> QED  BY <1>19, <3>3
  <2>6. ItOk(u) /\ u.errors = <<>> /\ Counted(u, rest)
    <3>1. ItOk(u) /\ u.errors = <<>>  BY <1>2, <2>5 DEF Closed
    <3>2. Counted(u, rest)  BY <1>2, <1>8, <2>5, PoppedCounts
    <3> QED  BY <3>1, <3>2
  <2>7. Len(rest) = Deep(y, q - 1)
    <3>1. y[p] \in Closers  BY <1>10, <2>1, <2>2
    <3>2. Deep(y, q - 1) = Deep(y, p - 1) - 1  BY <1>1, <2>2, <3>1, DeepNext
    <3> QED  BY <1>2, <1>8, <3>2
  <2>8. AfterAll(y, p, stack, n) <=> AfterAll(y, q, rest, n)
    <3>1. Grammar!At(y, p) = Grammar!Closing(top)  BY <1>10, <2>1
    <3> QED  BY <1>2, <1>8, <2>2, <3>1, CloseAll
  <2>9. u.iter \in 1..(Len(t) + 1)  BY <1>1, <2>2, <2>4
  <2>10. Len(rest) = Deep(y, PosOf(t, u.iter, n) - 1)  BY <1>16, <2>4, <2>7
  <2>11. Left(ctl, y, PosOf(t, it.iter, n), stack, n) <=> AfterAll(y, PosOf(t, u.iter, n), rest, n)
    BY <1>1, <1>15, <1>16, <2>4, <2>8
  <2>12. V!Accept(u, rest)  BY <1>19, <2>3
  <2> QED  BY <1>1, <1>8, <2>6, <2>9, <2>10, <2>11, <2>12, AcceptStep
<1>20. CASE r.ok = FALSE /\ e.ok = FALSE /\ V!Refuse(e.s)
  <2>1. Grammar!At(y, p) # Comma /\ Grammar!At(y, p) # d  BY <1>11, <1>12, <1>13, <1>14, <1>20
  <2>2. Grammar!At(y, p) # Grammar!Closing(top)  BY <1>10, <2>1
  <2>3. ~AfterAll(y, p, stack, n)  BY <1>2, <1>8, <2>1, <2>2, OtherAll
  <2>4. Fair => ~Left(ctl, y, PosOf(t, it.iter, n), stack, n)  BY <1>1, <1>15, <2>3
  <2> QED  BY <1>20, <2>4, RefuseStep
<1>21. \/ r.ok = TRUE /\ it' = r.s /\ ctl' = Within(top) /\ stack' = stack
       \/ e.ok = TRUE /\ V!Accept(e.s, rest)
       \/ r.ok = FALSE /\ e.ok = FALSE /\ V!Refuse(e.s)
  BY <1>5, <1>7, <1>11, <1>12, Zenon
<1> QED  BY <1>18, <1>19, <1>20, <1>21

\* The opening bracket of a container.
LEMMA ContainerDoes ==
  ASSUME V!ValidateContainer
  PROVE  \E b \in Openers : V!Cur(it) = b /\ V!Container(b, Closer(b))
<1>1. (V!Cur(it) = "{" /\ V!Container("{", "}")) \/ (V!Cur(it) = "[" /\ V!Container("[", "]"))
  BY Zenon DEF V!ValidateContainer
<1>2. "{" \in Openers /\ "[" \in Openers /\ Closer("{") = "}" /\ Closer("[") = "]"
  BY Zenon DEF Openers, Closer
<1>3. CASE V!Cur(it) = "{" /\ V!Container("{", "}")  BY <1>2, <1>3, Zenon
<1>4. CASE V!Cur(it) = "[" /\ V!Container("[", "]")  BY <1>2, <1>4, Zenon
<1> QED  BY <1>1, <1>3, <1>4, Zenon

\* A container is refused, empty, or entered.
LEMMA ContainerGoes ==
  ASSUME NEW b, NEW d, V!Container(b, d), NEW r, r = V!IncrementIfEquals(b, it),
         NEW e, e = V!IncrementIfEquals(d, r.s)
  PROVE  \/ ~r.ok /\ V!Refuse(r.s)
         \/ r.ok /\ e.ok /\ V!Accept(e.s, stack)
         \/ r.ok /\ ~e.ok /\ it' = e.s /\ stack' = Append(stack, b) /\ ctl' = Within(b)
BY Zenon DEF V!Container, Within

\* An object or an array.
LEMMA ContainerWalks ==
  ASSUME NEW x, NEW y, NEW t, NEW n, NEW i, NEW m, NEW p, Walking(x, y, t, n, i, m, p), V!ValidateContainer
  PROVE  Stepped(y, t, n)
<1>1. PICK b \in Openers : V!Cur(it) = b /\ V!Container(b, Closer(b))  BY ContainerDoes
<1>2. PICK d : d = Closer(b)  OBVIOUS
<1>3. PICK r : r = V!IncrementIfEquals(b, it)  OBVIOUS
<1>4. PICK e : e = V!IncrementIfEquals(d, r.s)  OBVIOUS
<1>5. \/ ~r.ok /\ V!Refuse(r.s)
      \/ r.ok /\ e.ok /\ V!Accept(e.s, stack)
      \/ r.ok /\ ~e.ok /\ it' = e.s /\ stack' = Append(stack, b) /\ ctl' = Within(b)
  BY <1>1, <1>2, <1>3, <1>4, ContainerGoes
<1>6. Taken(b, it, r) /\ Taken(d, r.s, e)  BY <1>3, <1>4 DEF Taken
<1>7. /\ opts = Options /\ ItOk(it)
  BY WalkingIs
<1>8. b \in Brackets  BY SameBrackets
<1>9. r.ok \in BOOLEAN  BY <1>6, <1>7, <1>8, TakeOpen
<1>10. r.ok = TRUE => e.ok \in BOOLEAN
  <2>1. ASSUME r.ok = TRUE PROVE ItOk(r.s)
    <3>1. PICK u : u = r.s  OBVIOUS
    <3>2. Opened(it, u, b)  BY <1>6, <1>7, <1>8, <2>1, <3>1, OpeningIs
    <3>3. ItOk(u)  BY <3>2 DEF Opened
    <3> QED  BY <3>1, <3>3
  <2>2. d \in MarksNamed
    <3>1. d = Grammar!Closing(b)  BY <1>2, SameBrackets
    <3> QED  BY <3>1, Marked DEF MarksNamed
  <2>3. ASSUME r.ok = TRUE PROVE e.ok \in BOOLEAN
    <3>1. PICK u : u = r.s  OBVIOUS
    <3>2. ItOk(u) /\ Taken(d, u, e)  BY <1>6, <2>1, <2>3, <3>1
    <3> QED  BY <1>7, <2>2, <3>2, TakeMark
  <2> QED  BY <2>3
<1>11. \/ r.ok = FALSE /\ V!Refuse(r.s)
       \/ r.ok = TRUE /\ e.ok = TRUE /\ V!Accept(e.s, stack)
       \/ r.ok = TRUE /\ e.ok = FALSE /\ it' = e.s /\ stack' = Append(stack, b) /\ ctl' = Within(b)
  <2>1. (r.ok = TRUE \/ r.ok = FALSE) /\ (r.ok = TRUE => e.ok = TRUE \/ e.ok = FALSE)  BY <1>9, <1>10
  <2> QED  BY <1>5, <2>1, Zenon
<1>12. ctl = "value"  BY DEF V!ValidateContainer
<1> QED  BY <1>1, <1>2, <1>6, <1>11, <1>12, ContainerStep

\* A step of the walk.
LEMMA WalkStep ==
  ASSUME NEW x, NEW y, NEW t, NEW n, NEW i, NEW m, NEW p, Walking(x, y, t, n, i, m, p), V!Walk
  PROVE  Stepped(y, t, n)
<1>1. \/ V!ValidateContainer \/ V!ValidateString \/ V!ValidateNumber \/ V!ValidateLiteral \/ V!ValidateNothing
      \/ V!Key \/ V!After
  BY DEF V!Walk, V!Value
<1>2. CASE V!ValidateContainer  BY <1>2, ContainerWalks
<1>3. CASE V!ValidateString     BY <1>3, StringStep
<1>4. CASE V!ValidateNumber     BY <1>4, NumberStep
<1>5. CASE V!ValidateLiteral    BY <1>5, LiteralStep
<1>6. CASE V!ValidateNothing    BY <1>6, NothingStep
<1>7. CASE V!Key                BY <1>7, KeyStep
<1>8. CASE V!After              BY <1>8, AfterStep
<1> QED  BY <1>1, <1>2, <1>3, <1>4, <1>5, <1>6, <1>7, <1>8

-------------------------------------------------------------------------------
\* What a walk has still to read is as it should be only if the document is, and it is
\* so if the document must pass.
Judged(x, y, t, n) ==
  /\ doc.text = x /\ doc.tape = t /\ t = Entries(x, FALSE)
  /\ IsText(x) /\ n \in Nat /\ n = Len(x) /\ y = Blurred(x)
  /\ ctl # "idle" => Fits(ctl, it, stack, y, t, n)
  /\ Remains(ctl, answer, y, PosOf(t, it.iter, n), stack, n) => Grammar!WellFormed(y)
  /\ Fair => Remains(ctl, answer, y, PosOf(t, it.iter, n), stack, n)

Judges == \E x, y, t, n : Judged(x, y, t, n)

SInv == (doc.text = <<>> => ctl = "idle") /\ (doc.text # <<>> => Judges)

\* A step of a walk keeps the verdict.
LEMMA CheckStep == ASSUME SInv, VInv, V!Walk PROVE SInv'
<1>1. doc' = doc /\ ctl # "idle"  BY WalkStatic
<1>2. doc.text # <<>>  BY <1>1 DEF SInv
<1>3. PICK x, y, t, n : Judged(x, y, t, n)  BY <1>2 DEF SInv, Judges
<1>4. PICK i, m, p : i = it.iter /\ m = Len(t) /\ p = PosOf(t, i, n)  OBVIOUS
<1>5. Reading(x, y, t, n)  BY <1>3 DEF Judged, Reading, VInv
<1>6. Places(t, y, n)  BY <1>5, ReadingPlaces
<1>7. Walking(x, y, t, n, i, m, p)  BY <1>1, <1>3, <1>4, <1>5, <1>6 DEF Walking, Judged
<1>8. Stepped(y, t, n)  BY <1>7, WalkStep
<1>9. Fair' <=> Fair
  <2>1. RootIsNumber' <=> RootIsNumber  BY <1>1 DEF RootIsNumber, V!Lex
  <2> QED  BY <1>1, <2>1, Zenon DEF Fair
<1>10. Remains(ctl, answer, y, PosOf(t, it.iter, n), stack, n) <=> Left(ctl, y, PosOf(t, it.iter, n), stack, n)
  BY <1>1, Zenon DEF Remains
<1>11. Judged(x, y, t, n)'
  <2>1. ctl' # "idle" => Fits(ctl', it', stack', y, t, n)  BY <1>8 DEF Stepped
  <2>2. Remains(ctl', answer', y, PosOf(t, it'.iter, n), stack', n) => Grammar!WellFormed(y)
    BY <1>3, <1>8, <1>10, Zenon DEF Stepped, Judged
  <2>3. Fair' => Remains(ctl', answer', y, PosOf(t, it'.iter, n), stack', n)
    BY <1>3, <1>8, <1>9, <1>10, Zenon DEF Stepped, Judged
  <2>4. /\ doc.text = x /\ doc.tape = t /\ t = Entries(x, FALSE)
        /\ IsText(x) /\ n \in Nat /\ n = Len(x) /\ y = Blurred(x)
    BY <1>3, Zenon DEF Judged
  <2> QED  BY <1>1, <2>1, <2>2, <2>3, <2>4, Zenon DEF Judged
<1>12. Judges'  BY <1>11, Zenon DEF Judges
<1> QED  BY <1>1, <1>2, <1>12 DEF SInv

\* A walk that begins.
LEMMA BeginStep ==
  ASSUME NEW d, V!ValidateJson(d), IsText(d.text), d = Text(d.text), VInv PROVE SInv'
<1>1. doc' = d  BY DEF V!ValidateJson
<1>2. CASE d.text = <<>>
  <2>1. doc'.text = <<>> /\ ctl' = "idle"  BY <1>1, <1>2 DEF V!ValidateJson
  <2> QED  BY <2>1 DEF SInv
<1>3. CASE d.text # <<>>
  <2>1. PICK x, t, y, n : x = d.text /\ t = Entries(x, FALSE) /\ y = Blurred(x) /\ n = Len(x)  OBVIOUS
  <2>2. d.tape = t
    <3>1. Text(x).tape = Entries(x, FALSE)  BY DEF Text
    <3> QED  BY <2>1, <3>1
  <2>3. IsText(x) /\ n \in Nat
    <3>1. IsText(x)  BY <2>1
    <3> QED  BY <2>1, <3>1 DEF IsText
  <2>4. Places(t, y, n)  BY <2>1, <2>3, PlacesOf
  <2>5. it' = V!Fresh /\ ctl' = "value" /\ stack' = <<>>
    BY <1>3 DEF V!ValidateJson, VInv, Quiet
  <2>6. PICK s, st, c : s = V!Fresh /\ st = <<>> /\ c = "value"  OBVIOUS
  <2>7. s.iter = 1  BY <2>6 DEF V!Fresh
  <2>8. PICK p : p = PosOf(t, 1, n)  OBVIOUS
  <2>9. Fits(c, s, st, y, t, n)
    <3>1. Len(t) \in Nat  BY <2>4 DEF Places
    <3>2. s.iter \in 1..(Len(t) + 1)  BY <2>7, <3>1
    <3>3. Deep(y, p - 1) = 0  BY <2>4, <2>8, DeepFirst
    <3>4. Len(st) = 0  BY <2>6
    <3> QED  BY <2>6, <2>7, <2>8, <3>2, <3>3, <3>4 DEF Fits
  <2>10. ValueAll(y, p, st, n) <=> Grammar!WellFormed(y)
    <3>1. p = Grammar!Start(y)  BY <2>4, <2>8, PlaceEnd
    <3>2. n \in Nat /\ n = Len(y)  BY <2>4 DEF Places
    <3> QED  BY <2>6, <3>1, <3>2, AllIs
  <2>11. Remains(c, answer', y, PosOf(t, s.iter, n), st, n) <=> Grammar!WellFormed(y)
    <3>1. c # "idle" /\ c # "key"  BY <2>6
    <3>2. Remains(c, answer', y, p, st, n) <=> ValueAll(y, p, st, n)  BY <2>6, <3>1, Zenon DEF Remains, Left
    <3> QED  BY <2>7, <2>8, <2>10, <3>2
  <2>12. Fair' => Grammar!WellFormed(y)
    <3>1. doc'.text = x  BY <1>1, <2>1
    <3>2. Fair' => Grammar!WellFormed(x)  BY <3>1, Zenon DEF Fair
    <3>3. Grammar!WellFormed(x) => y = x  BY <2>1, <2>3, BlurredSame
    <3> QED  BY <3>2, <3>3
  <2>13. Judged(x, y, t, n)'
    <3>1. doc'.text = x /\ doc'.tape = t  BY <1>1, <2>1, <2>2
    <3>2. it' = s /\ ctl' = c /\ stack' = st  BY <2>5, <2>6
    <3> QED  BY <2>1, <2>3, <2>9, <2>11, <2>12, <3>1, <3>2, Zenon DEF Judged
  <2>14. Judges'  BY <2>13, Zenon DEF Judges
  <2>15. doc'.text # <<>>  BY <1>1, <1>3
  <2> QED  BY <2>14, <2>15 DEF SInv
<1> QED  BY <1>2, <1>3

\* What leaves the validator alone.
LEMMA SeenStays == ASSUME SInv, UNCHANGED checkVars PROVE SInv'
<1>1. doc' = doc /\ it' = it /\ ctl' = ctl /\ stack' = stack /\ answer' = answer  BY DEF checkVars
<1>2. Fair' <=> Fair
  <2>1. RootIsNumber' <=> RootIsNumber  BY <1>1 DEF RootIsNumber, V!Lex
  <2> QED  BY <1>1, <2>1, Zenon DEF Fair
<1>3. ASSUME doc.text # <<>> PROVE Judges'
  <2>1. PICK x, y, t, n : Judged(x, y, t, n)  BY <1>3 DEF SInv, Judges
  <2>2. Judged(x, y, t, n)'  BY <1>1, <1>2, <2>1, Zenon DEF Judged
  <2> QED  BY <2>2, Zenon DEF Judges
<1> QED  BY <1>1, <1>3 DEF SInv

\* Every step of a core does.
LEMMA SeenStep == ASSUME SInv, FInv, CoreInv, [CoreNext]_coreVars PROVE SInv'
<1>1. VInv  BY DEF CoreInv
<1>2. ASSUME NEW d, Validate(d), IsText(d.text), d = Text(d.text) PROVE SInv'
  <2>1. V!ValidateJson(d)  BY <1>2 DEF Validate
  <2> QED  BY <1>1, <1>2, <2>1, BeginStep
<1>3. ASSUME NEW x, IsText(x), Validate(Text(x)) PROVE SInv'
  <2>1. PICK d : d = Text(x)  OBVIOUS
  <2>2. d.text = x  BY <2>1 DEF Text
  <2> QED  BY <1>2, <1>3, <2>1, <2>2
<1>4. CASE Format  BY <1>4, SeenStays DEF Format
<1>5. CASE ValidateReceived
  <2>1. PICK d \in Received : Validate(d)  BY <1>5 DEF ValidateReceived
  <2> QED  BY <1>2, <2>1, DocumentsAssumption
<1>6. CASE ValidateWritten
  <2>1. Whole /\ Validate(Text(out))  BY <1>6 DEF ValidateWritten
  <2>2. "cut" \notin ToSet(out)  BY <2>1 DEF Whole
  <2>3. IsText(out)  BY <2>2, OutIsText DEF FInv
  <2> QED  BY <1>3, <2>1, <2>3
<1>7. CASE ValidateSource  BY <1>3, <1>7 DEF ValidateSource, FInv
<1>8. CASE Check  BY <1>1, <1>8, CheckStep DEF Check
<1>9. CASE UNCHANGED coreVars
  <2>1. UNCHANGED checkVars  BY <1>9 DEF coreVars
  <2> QED  BY <2>1, SeenStays
<1> QED  BY <1>4, <1>5, <1>6, <1>7, <1>8, <1>9 DEF CoreNext

\* SInv holds of every core.
LEMMA SeenInvariant == CoreSpec => []SInv
<1>1. CoreInit => SInv  BY DEF CoreInit, V!Init, SInv
<1>2. SInv /\ FInv /\ CoreInv /\ [CoreNext]_coreVars => SInv'  BY SeenStep
<1> QED  BY <1>1, <1>2, FormatInvariant, CoreInvariant, PTL DEF CoreSpec

\* What an answer says of the document.
LEMMA AnsweredIs ==
  ASSUME SInv, Answered
  PROVE  /\ answer = TRUE => Grammar!WellFormed(Blurred(doc.text))
         /\ Fair => answer = TRUE
<1>1. ctl = "idle" /\ doc.text # <<>>  BY DEF Answered
<1>2. PICK x, y, t, n : Judged(x, y, t, n)  BY <1>1 DEF SInv, Judges
<1>3. Remains(ctl, answer, y, PosOf(t, it.iter, n), stack, n) <=> answer = TRUE  BY <1>1, Zenon DEF Remains
<1> QED  BY <1>2, <1>3, Zenon DEF Judged

\* JSON within the depth limit is valid, unless it is a number and nothing else, for
\* every document and every limit (validate_impl.hpp:36-171).
THEOREM WellFormedPassesAlways == CoreSpec => []WellFormedPasses
<1>1. SInv => WellFormedPasses
  <2> SUFFICES ASSUME SInv, Answered, Fair PROVE answer  BY Zenon DEF WellFormedPasses, Fair
  <2>1. answer = TRUE  BY AnsweredIs
  <2> QED  BY <2>1
<1> QED  BY <1>1, SeenInvariant, PTL

\* What the validator says TRUE of nests, pairs its keys with values and separates its
\* items as JSON does, to the last character, for every document and every limit
\* (validate_impl.hpp:36-106, json_iterator.hpp:1594-1607).
THEOREM AcceptedHasShapeAlways == CoreSpec => []AcceptedHasShape
<1>1. SInv /\ CoreInv => AcceptedHasShape
  <2> SUFFICES ASSUME SInv, CoreInv, Answered, answer PROVE Grammar!WellFormed(Blurred(doc.text))
    BY DEF AcceptedHasShape
  <2>1. answer = TRUE  BY DEF CoreInv, VInv, Quiet, Answered
  <2> QED  BY <2>1, AnsweredIs
<1> QED  BY <1>1, SeenInvariant, CoreInvariant, PTL
=================================================================================
