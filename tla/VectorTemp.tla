------------------------------- MODULE VectorTemp -------------------------------
(***************************************************************************)
(* How an array becomes a std::vector of objects (include/jsonifier-incl/  *)
(* parsing/parse_impl.hpp, parse_impl of vector_t): its elements are       *)
(* parsed into valueTemp, a vector the thread keeps from call to call, and *)
(* moved from there into the caller's once the array has ended.            *)
(*                                                                         *)
(* An element of an array has a value for some of the type's members, an   *)
(* object one for each.  A type whose elements hold vectors of it, so that *)
(* valueTemp is entered again while in use, is left out.                   *)
(***************************************************************************)
EXTENDS Integers, Sequences, TLAPS

CONSTANTS
  Members,       \* of the element type
  Copied,        \* those whose move leaves the source as it was
  Values, Default,
  MaxElements    \* bound: elements of an array

VARIABLES
  array,       \* the elements of the array, up to where it ends or is in error
  ended,       \* the array ends with its bracket
  reading,     \* a call is in progress
  valueTemp, oldSize, newSize,
  value,       \* the caller's vector
  answer,
  held         \* history: what it held before the call

vars == <<array, ended, reading, valueTemp, oldSize, newSize, value, answer, held>>

Elements == UNION {[S -> Values] : S \in SUBSET Members}
Objects  == [Members -> Values \cup {Default}]

TypeOK ==
  /\ array \in Seq(Elements)
  /\ valueTemp \in Seq(Objects) /\ oldSize \in Nat /\ newSize \in Nat
  /\ value \in Seq(Objects) /\ held \in Seq(Objects)

New == [m \in Members |-> Default]
Parsed(object, element) ==
  [m \in Members |-> IF m \in DOMAIN element THEN element[m] ELSE object[m]]
MovedFrom(object) == [m \in Members |-> IF m \in Copied THEN object[m] ELSE Default]

Init ==
  /\ array = <<>> /\ ended = FALSE /\ reading = FALSE
  /\ valueTemp = <<>> /\ oldSize = 0 /\ newSize = 0
  /\ value = <<>> /\ answer = FALSE /\ held = <<>>

\* A vector to fill and an array: the one filled before, or a new one.  An empty
\* array is done at once; one in error has at least the element that is.
Begin ==
  /\ ~reading
  /\ held' \in {value, <<>>} /\ ended' \in BOOLEAN
  /\ \E n \in 0..MaxElements : array' \in [1..n -> Elements] /\ (n = 0 => ended')
  /\ IF array' = <<>>
       THEN value' = <<>> /\ answer' = TRUE /\ UNCHANGED <<reading, oldSize, newSize>>
       ELSE /\ value' = held' /\ reading' = TRUE
            /\ oldSize' = Len(valueTemp) /\ newSize' = 0 /\ UNCHANGED answer
  /\ UNCHANGED valueTemp

\* The next element is parsed over one that is there, or into a new one.
Reuse ==
  /\ reading /\ newSize < Len(array) /\ newSize < oldSize
  /\ valueTemp' = [valueTemp EXCEPT ![newSize + 1] = Parsed(@, array[newSize + 1])]
  /\ newSize' = newSize + 1
  /\ UNCHANGED <<array, ended, reading, oldSize, value, answer, held>>

EmplaceBack ==
  /\ reading /\ newSize < Len(array) /\ newSize >= oldSize
  /\ valueTemp' = Append(valueTemp, Parsed(New, array[newSize + 1]))
  /\ newSize' = newSize + 1
  /\ UNCHANGED <<array, ended, reading, oldSize, value, answer, held>>

\* sep_result::ended
Ended ==
  /\ reading /\ newSize = Len(array) /\ ended
  /\ value' = [i \in 1..newSize |-> valueTemp[i]]
  /\ valueTemp' = [i \in 1..Len(valueTemp) |->
                     IF i <= newSize THEN MovedFrom(valueTemp[i]) ELSE valueTemp[i]]
  /\ reading' = FALSE /\ answer' = TRUE
  /\ UNCHANGED <<array, ended, oldSize, newSize, held>>

\* The last element or what follows it is in error: what was parsed stays.
Failed ==
  /\ reading /\ newSize = Len(array) /\ ~ended
  /\ reading' = FALSE /\ answer' = FALSE
  /\ UNCHANGED <<array, ended, valueTemp, oldSize, newSize, value, held>>

Next == Begin \/ Reuse \/ EmplaceBack \/ Ended \/ Failed
Spec == Init /\ [][Next]_vars

-------------------------------------------------------------------------------
\* Moving all of valueTemp, as is done when elements were added to it, stays
\* within the vector that was given newSize elements (parse_impl.hpp:417-421).
MoveFits == reading /\ newSize > oldSize => Len(valueTemp) = newSize

\* After a call that answers TRUE the vector has the elements of the array, each
\* with every member the array gave, whatever calls before it left in valueTemp
\* (parse_impl.hpp:389-398).
HasTheArray ==
  ~reading /\ answer =>
    /\ Len(value) = Len(array)
    /\ \A i \in 1..Len(array) : \A m \in DOMAIN array[i] : value[i][m] = array[i][m]

\* A member the document has no key for is as it was: "Missing optional fields work
\* fine" (documentation/Known_Order.md:104), and of an excluded one "the
\* corresponding member on your struct is left untouched" (Excluding_Keys.md:59).
MissingIsUntouched ==
  ~reading /\ answer =>
    \A i \in 1..Len(array) : \A m \in Members \ DOMAIN array[i] :
      value[i][m] = Default \/ (i <= Len(held) /\ value[i][m] = held[i][m])

-------------------------------------------------------------------------------
(***************************************************************************)
(* HasTheArray and MoveFits for all members, values and bounds.  While an  *)
(* array is read valueTemp is as long as what was read or as it was, and   *)
(* its first newSize elements have what the array gave.                    *)
(***************************************************************************)
Filled ==
  reading =>
    /\ newSize <= Len(array)
    /\ Len(valueTemp) = IF newSize > oldSize THEN newSize ELSE oldSize
    /\ \A i \in 1..newSize : \A m \in DOMAIN array[i] : valueTemp[i][m] = array[i][m]

IInv == TypeOK /\ Filled /\ HasTheArray

\* The elements of an array are functions on members of the type.
LEMMA ElementMembers ==
  ASSUME NEW a \in Seq(Elements), NEW i \in 1..Len(a)
  PROVE  /\ DOMAIN a[i] \subseteq Members
         /\ \A m \in DOMAIN a[i] : a[i][m] \in Values
  <1>1. a[i] \in Elements
    OBVIOUS
  <1> QED
    BY <1>1 DEF Elements

\* Parsing an element gives an object that has what the element says.
LEMMA ParsedObject ==
  ASSUME NEW o \in Objects, NEW a \in Seq(Elements), NEW i \in 1..Len(a)
  PROVE  /\ Parsed(o, a[i]) \in Objects
         /\ \A m \in DOMAIN a[i] : Parsed(o, a[i])[m] = a[i][m]
  <1>1. \A m \in DOMAIN a[i] : m \in Members /\ a[i][m] \in Values
    BY ElementMembers
  <1> QED
    BY <1>1 DEF Parsed, Objects

\* So are a new object and one moved from.
LEMMA NewAndMoved ==
  /\ New \in Objects
  /\ \A o \in Objects : MovedFrom(o) \in Objects
  BY DEF New, MovedFrom, Objects

\* The invariant holds at first.
LEMMA InitFilled == Init => IInv
  BY DEF Init, IInv, TypeOK, Filled, HasTheArray

\* A call that begins keeps the invariant, with an empty array or with elements.
LEMMA BeginKeeps == IInv /\ Begin => IInv'
  <1> SUFFICES ASSUME IInv, Begin PROVE IInv'
    OBVIOUS
  <1> USE DEF IInv, Begin
  <1>1. PICK n \in 0..MaxElements : array' \in [1..n -> Elements] /\ (n = 0 => ended')
    OBVIOUS
  <1>2. n \in Nat /\ array' \in Seq(Elements) /\ Len(array') = n
    BY <1>1
  <1>h. held' \in Seq(Objects)
    <2>1. <<>> \in Seq(Objects)
      OBVIOUS
    <2> QED
      BY <2>1 DEF TypeOK
  <1>3. CASE array' = <<>>
    <2>1. n = 0 /\ ended' /\ value' = <<>> /\ reading' = reading
      BY <1>1, <1>2, <1>3
    <2>2. TypeOK'
      BY <1>2, <1>h, <1>3, <2>1 DEF TypeOK
    <2>3. Filled'
      BY <1>3, <2>1 DEF Filled
    <2>4. HasTheArray'
      BY <1>2, <2>1 DEF HasTheArray
    <2> QED
      BY <2>2, <2>3, <2>4
  <1>4. CASE array' # <<>>
    <2>1. TypeOK'
      BY <1>2, <1>h, <1>4 DEF TypeOK
    <2>2. newSize' = 0 /\ oldSize' = Len(valueTemp') /\ reading' /\ oldSize' \in Nat
      BY <1>4 DEF TypeOK
    <2>3. Filled'
      BY <1>2, <2>2 DEF Filled
    <2>4. HasTheArray'
      BY <2>2 DEF HasTheArray
    <2> QED
      BY <2>1, <2>3, <2>4
  <1> QED
    BY <1>3, <1>4

\* So does an element parsed over one that is there,
LEMMA ReuseKeeps == IInv /\ Reuse => IInv'
  <1> SUFFICES ASSUME IInv, Reuse PROVE IInv'
    OBVIOUS
  <1> USE DEF IInv, Reuse
  <1> DEFINE k == newSize + 1
             o == Parsed(valueTemp[k], array[k])
  <1>1. k \in 1..Len(array) /\ k \in 1..Len(valueTemp)
    BY DEF TypeOK, Filled
  <1>2. o \in Objects /\ \A m \in DOMAIN array[k] : o[m] = array[k][m]
    <2>1. valueTemp[k] \in Objects /\ array \in Seq(Elements)
      BY <1>1 DEF TypeOK
    <2> QED
      BY <2>1, <1>1, ParsedObject
  <1> HIDE DEF o
  <1>3. valueTemp' = [valueTemp EXCEPT ![k] = o]
    BY DEF o
  <1>4. valueTemp' \in Seq(Objects) /\ Len(valueTemp') = Len(valueTemp)
    BY <1>1, <1>2, <1>3 DEF TypeOK
  <1>5. TypeOK' /\ HasTheArray'
    BY <1>4 DEF TypeOK, HasTheArray
  <1>6. ASSUME NEW i \in 1..newSize', NEW m \in DOMAIN array'[i]
        PROVE  valueTemp'[i][m] = array'[i][m]
    <2>1. CASE i = k
      BY <1>1, <1>2, <1>3, <2>1 DEF TypeOK
    <2>2. CASE i # k
      <3>1. i \in 1..newSize
        BY <2>2 DEF TypeOK
      <3> QED
        BY <1>1, <1>3, <2>2, <3>1 DEF TypeOK, Filled
    <2> QED
      BY <2>1, <2>2
  <1>7. /\ newSize' <= Len(array')
        /\ Len(valueTemp') = IF newSize' > oldSize' THEN newSize' ELSE oldSize'
    <2>1. oldSize <= Len(valueTemp) /\ Len(valueTemp) = oldSize
      BY DEF TypeOK, Filled
    <2> QED
      BY <1>1, <1>4, <2>1 DEF TypeOK
  <1>8. Filled'
    BY <1>6, <1>7 DEF Filled
  <1> QED
    BY <1>5, <1>8

\* one parsed into a new element,
LEMMA EmplaceBackKeeps == IInv /\ EmplaceBack => IInv'
  <1> SUFFICES ASSUME IInv, EmplaceBack PROVE IInv'
    OBVIOUS
  <1> USE DEF IInv, EmplaceBack
  <1> DEFINE k == newSize + 1
             o == Parsed(New, array[k])
  <1>1. k \in 1..Len(array) /\ Len(valueTemp) = newSize
    BY DEF TypeOK, Filled
  <1>2. o \in Objects /\ \A m \in DOMAIN array[k] : o[m] = array[k][m]
    BY <1>1, NewAndMoved, ParsedObject DEF TypeOK
  <1> HIDE DEF o
  <1>3. valueTemp' = Append(valueTemp, o)
    BY DEF o
  <1>4. /\ valueTemp' \in Seq(Objects) /\ Len(valueTemp') = k
        /\ \A i \in 1..newSize : valueTemp'[i] = valueTemp[i]
        /\ valueTemp'[k] = o
    BY <1>1, <1>2, <1>3 DEF TypeOK
  <1>5. TypeOK' /\ HasTheArray'
    BY <1>4 DEF TypeOK, HasTheArray
  <1>6. \A i \in 1..newSize' : \A m \in DOMAIN array'[i] : valueTemp'[i][m] = array'[i][m]
    BY <1>1, <1>2, <1>4 DEF TypeOK, Filled
  <1> QED
    BY <1>1, <1>4, <1>5, <1>6 DEF TypeOK, Filled

\* and the move of all of them to the caller.
LEMMA EndedKeeps == IInv /\ Ended => IInv'
  <1> SUFFICES ASSUME IInv, Ended PROVE IInv'
    OBVIOUS
  <1> USE DEF IInv, Ended
  <1>1. newSize \in Nat /\ newSize <= Len(valueTemp) /\ newSize = Len(array)
    BY DEF TypeOK, Filled
  <1>2. value' \in Seq(Objects) /\ Len(value') = newSize
    BY <1>1 DEF TypeOK
  <1>3. \A i \in 1..Len(valueTemp) : valueTemp[i] \in Objects /\ MovedFrom(valueTemp[i]) \in Objects
    BY NewAndMoved DEF TypeOK
  <1>4. valueTemp' \in Seq(Objects)
    BY <1>3 DEF TypeOK
  <1>5. TypeOK' /\ Filled'
    BY <1>2, <1>4 DEF TypeOK, Filled
  <1>6. HasTheArray'
    BY <1>1, <1>2 DEF TypeOK, Filled, HasTheArray
  <1> QED
    BY <1>5, <1>6

\* Every step keeps it.
LEMMA NextKeeps == IInv /\ [Next]_vars => IInv'
  <1> SUFFICES ASSUME IInv, [Next]_vars PROVE IInv'
    OBVIOUS
  <1>1. CASE Begin
    BY <1>1, BeginKeeps
  <1>2. CASE Reuse
    BY <1>2, ReuseKeeps
  <1>3. CASE EmplaceBack
    BY <1>3, EmplaceBackKeeps
  <1>4. CASE Ended
    BY <1>4, EndedKeeps
  <1>5. CASE Failed
    BY <1>5 DEF Failed, IInv, TypeOK, Filled, HasTheArray
  <1>6. CASE UNCHANGED vars
    BY <1>6 DEF vars, IInv, TypeOK, Filled, HasTheArray
  <1> QED
    BY <1>1, <1>2, <1>3, <1>4, <1>5, <1>6 DEF Next

\* A vector that was parsed has the elements of its array, and no move goes past
\* its end, whatever arrays the thread has parsed before.
THEOREM VectorHasTheArray == Spec => [](HasTheArray /\ MoveFits)
  <1>1. IInv => HasTheArray /\ MoveFits
    BY DEF IInv, TypeOK, Filled, MoveFits
  <1> QED
    BY <1>1, InitFilled, NextKeeps, PTL DEF Spec
=================================================================================
