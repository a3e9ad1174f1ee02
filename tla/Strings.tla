--------------------------------- MODULE Strings ---------------------------------
(***************************************************************************)
(* A string object of either kind and what its users do with it: code that *)
(* assigns, appends, inserts and cuts, the parser that stores a string     *)
(* value, the minifier and the serializer that store their answers.        *)
(***************************************************************************)
EXTENDS StringCells

CONSTANTS
  Texts,          \* the sequences operations are given
  Sizes,          \* the lengths objects are resized to
  Capacities,     \* the capacities users reserve
  NewerSize, MaxSize, InlineSize, BufferSize,
  MaxLength,      \* bound: characters of an object
  Alignment, HugePageThreshold, HugePageSize      \* of the allocator, in cells

Heap   == INSTANCE HeapString
Inline == INSTANCE InlineString

RoundUp(n, multiple) == ((n + multiple - 1) \div multiple) * multiple

ASSUME TextsAssumption ==
  /\ Texts \subseteq Seq(Chars) /\ Sizes \subseteq Nat /\ Capacities \subseteq Nat
  /\ MaxLength \in Nat /\ MaxLength < MaxSize
ASSUME BuffersAssumption ==
  /\ NewerSize \in Nat /\ MaxSize \in Nat \ 0..NewerSize
  /\ BufferSize \in Nat \ {0} /\ InlineSize \in 0..BufferSize
ASSUME AllocatorAssumption ==
  /\ {Alignment, HugePageThreshold, HugePageSize} \subseteq Nat \ {0}
  /\ HugePageThreshold % HugePageSize = 0 /\ HugePageSize % Alignment = 0

VARIABLES
  kind,       \* "heap", or "inline" for a template argument of at most 16
  string      \* the object

vars == <<kind, string>>

Either(heap, inline) == string' = IF kind = "heap" THEN heap ELSE inline

\* Offsets an iterator of the object may have, and texts that keep the bound.
Positions == 0..string.sizeVal
Fitting(n) == n <= MaxLength
Addable == {t \in Texts : Fitting(string.sizeVal + Len(t))}

Init == \/ kind = "heap" /\ string = Heap!New
        \/ kind = "inline" /\ string = Inline!New

\* Copies, pointers and ranges: an object is constructed, then swapped in.
Assigned(t) ==
  Either(Heap!Replaced(string, Heap!construct(t)), Inline!Replaced(string, Inline!construct(t)))

Assign == \E t \in Texts : Fitting(Len(t)) /\ Assigned(t)

\* append and operator+=, with another text or the object itself.
AppendAll ==
  \E t \in Addable \cup {Content(string)} :
    /\ Fitting(string.sizeVal + Len(t))
    /\ Either(Heap!append(string, t), Inline!append(string, t))

\* string = text + string.
Prepend ==
  \E t \in Addable :
    Either(Heap!Replaced(string, Heap!construct(Content(Heap!append(Heap!construct(t), Content(string))))),
           Inline!Replaced(string, Inline!append(Inline!construct(t), Content(string))))

Push == \E c \in Chars : Fitting(string.sizeVal + 1)
  /\ Either(Heap!emplace_back(string, c), Inline!emplace_back(string, c))

Insert == \E t \in Addable, n \in Positions :
  Either(Heap!insert(string, n, t), Inline!insert(string, n, t))

InsertOne == \E c \in Chars, n \in Positions : Fitting(string.sizeVal + 1)
  /\ Either(Heap!insertOne(string, n, c), Inline!insert(string, n, <<c>>))

\* Both overloads; an object without cells is not asked.
Erase == \E n \in 0..(string.sizeVal + 1) :
  string.dataVal # <<>> /\ string' = erase(string, n)

\* The result replaces the object, with all the template made it hold when
\* no character was asked for.
Substr == \E n \in 0..(string.sizeVal - 1), count \in 0..MaxLength :
  Assigned(Content(IF kind = "heap" THEN Heap!substr(string, n, count) ELSE Inline!substr(string, n, count)))

Resize == \E n \in Sizes : Fitting(n) /\ Either(Heap!resize(string, n), Inline!resize(string, n))
Reserve == \E n \in Capacities : Either(Heap!reserve(string, n), string)
Clear == Either(Heap!clear(string), Inline!clear(string))

\* The object is destroyed and another made in its place.
Renew == Either(Heap!Replaced(string, Heap!New), Inline!New)

\* Its content is moved to another object.
MoveOut == Either([Heap!Null EXCEPT !.freed = string.freed], Inline!Replaced(string, Inline!Empty))

\* How iterateString, minifyJson and serializeJson store a text: the length
\* is set, when it differs, and the characters are copied.
Receive ==
  /\ kind = "heap"
  /\ \E t \in Texts :
       LET sized == IF string.sizeVal # Len(t) THEN Heap!resize(string, Len(t)) ELSE string
       IN Fitting(Len(t)) /\ string' = [sized EXCEPT !.dataVal = Written(@, 0, t)]

Next ==
  /\ \/ Assign \/ AppendAll \/ Prepend \/ Push \/ Insert \/ InsertOne \/ Erase \/ Substr
     \/ Resize \/ Reserve \/ Clear \/ Renew \/ MoveOut \/ Receive
  /\ UNCHANGED kind

Spec == Init /\ [][Next]_vars

----------------------------------------------------------------------------
TypeOK ==
  /\ kind \in {"heap", "inline"}
  /\ string.sizeVal \in Nat
  /\ string.dataVal \in Seq(Chars \cup {NUL, Raw})

(***************************************************************************)
(* The content and its terminator lie in the cells the object owns, of     *)
(* which there are one more than its capacity, or none at all: no sequence *)
(* of reserve, resize and the operations that grow the object writes a     *)
(* character where there is no cell (string.hpp 292-469, 808-931).         *)
(***************************************************************************)
Fits ==
  IF kind = "heap"
  THEN \/ string.dataVal = <<>> /\ string.capacityVal = 0 /\ string.sizeVal = 0
       \/ Len(string.dataVal) = string.capacityVal + 1 /\ string.sizeVal <= string.capacityVal
  ELSE Len(string.dataVal) = BufferSize + 1 /\ string.sizeVal < BufferSize

(***************************************************************************)
(* What the allocator does with an allocation of n cells: 0 for malloc and *)
(* the bytes of its pages for mmap.  reserve gives back as many cells as   *)
(* were allocated; resize and reset one cell fewer, which is the same to   *)
(* the allocator unless the capacity is the one just below the threshold   *)
(* or a whole number of huge pages (string.hpp 425, 459, 602).             *)
(***************************************************************************)
Pages(n) ==
  LET bytes == RoundUp(n, Alignment)
  IN IF bytes >= HugePageThreshold THEN RoundUp(bytes, HugePageSize) ELSE 0

AtBoundary(n) ==
  n = HugePageThreshold - Alignment \/ (n >= HugePageThreshold /\ n % HugePageSize = 0)

FreedAsAllocated ==
  kind = "heap" =>
    LET freed == string.freed
    IN \/ Pages(freed.released) = Pages(freed.allocated)
       \/ freed.released = freed.allocated - 1 /\ AtBoundary(freed.released)

(***************************************************************************)
(* Every operation that changes the length leaves a terminator behind the  *)
(* last character, so that data() can be read as a C string, but for       *)
(* insert of one character and resize to 0 of an object on the heap        *)
(* (string.hpp 332-341, 444-448); an inline object is always terminated.   *)
(***************************************************************************)
IsTerminated(s) == s.dataVal[s.sizeVal + 1] = NUL
TerminatorFollows ==
  [][IF kind = "heap"
     THEN string.sizeVal # string'.sizeVal /\ string'.sizeVal > 0 => IsTerminated(string') \/ InsertOne
     ELSE IsTerminated(string')]_vars

(***************************************************************************)
(* An object is to its user the sequence of its characters, and every      *)
(* operation does to that sequence what its name says, whatever was        *)
(* allocated, moved or left behind before (string.hpp 107-469, 630-934).   *)
(***************************************************************************)
Abstract == INSTANCE StringSpec WITH
  value <- Content(string),
  limit <- IF kind = "heap" THEN MaxSize ELSE BufferSize
Implements == Abstract!Spec
==================================================================================
