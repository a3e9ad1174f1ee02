------------------------------- MODULE Serializer -------------------------------
(***************************************************************************)
(* serializeJson (include/jsonifier-incl/serializing/serializer.hpp and    *)
(* serialize_impl.hpp): the recursion of serialize_impl over a value of a  *)
(* registered type.  A frame is an active serialize_impl of a container;   *)
(* the others answer in one step.                                          *)
(*                                                                         *)
(* What is written are the lexemes of JsonGrammar, a line break with the   *)
(* indent written after it.  How a string is escaped and a number printed  *)
(* is in StringSerializer and IntPrinter; the buffer's capacity is left    *)
(* out: a write always has room and what is written survives its growth.   *)
(***************************************************************************)
EXTENDS Integers, Sequences, SequenceTheorems, TLAPS

CONSTANTS
  Types, Schema,   \* the registered types, as in JsonParse
  Keys,            \* the quoted strings there are: keys, strings, characters
  Arguments,       \* [type, value]: what serializeJson is called with
  IndentSize,      \* serialize_options::indentSize
  TableDepth       \* indent_table::maxDepth

(***************************************************************************)
(* A value: the lexeme of a scalar; the items of a container, the one that *)
(* an optional, a pointer or a variant holds; the keys of a map; which     *)
(* alternative a variant holds; jsonifierExcludedKeys of an object; the    *)
(* text of a raw_json_data.                                                *)
(***************************************************************************)
Fields == {"lex", "items", "keys", "alt", "excluded", "raw"}

ASSUME ArgumentsAssumption ==
  /\ Schema \in [Types -> [kind : STRING, members : Seq([key : Keys, type : Types]),
                           elem : Types, size : Nat, alts : Seq(Types), excluded : SUBSET Keys]]
  /\ \A a \in Arguments : a.type \in Types /\ DOMAIN a.value = Fields
ASSUME IndentAssumption == IndentSize \in Nat /\ TableDepth \in Nat

VARIABLES
  given,    \* the argument of serializeJson
  pretty,   \* serialize_options::prettify
  out,      \* the buffer up to context.bufferPtr
  indent,   \* context.indent
  stack,    \* active containers: [type, value, at], at the item in progress
  ctl,      \* "call", "item", "return", "done"
  callee    \* [type, value] that serialize_impl is called for

vars == <<given, pretty, out, indent, stack, ctl, callee>>

Kind(t) == Schema[t].kind
Top     == stack[Len(stack)]
Pop     == stack' = SubSeq(stack, 1, Len(stack) - 1)
Count(f) == Len(f.value.items)

\* The type of item i of a value v of type t.
ItemType(t, v, i) ==
  CASE Kind(t) \in {"object", "tuple"} -> Schema[t].members[i].type
    [] Kind(t) = "variant"             -> Schema[t].alts[v.alt]
    [] OTHER                           -> Schema[t].elem

Token(c) == [lex |-> c, line |-> FALSE, indent |-> 0]
Space    == Token("ws")

\* Bug: no more indent is written than the table has.
IndentedCapped(total) ==
  IF total < TableDepth * IndentSize THEN total ELSE TableDepth * IndentSize

\* blitWithOverflow: what the table has, the rest one by one.
Indented(total) ==
  LET capped == IF total < TableDepth * IndentSize THEN total ELSE TableDepth * IndentSize
  IN capped + (total - capped)

Line(n) == IF pretty THEN <<[lex |-> "ws", line |-> TRUE, indent |-> Indented(n)]>> ELSE <<>>
Colon   == IF pretty THEN <<Token(":"), Space>> ELSE <<Token(":")>>

Write(x)  == out' = out \o x
CallItem(f) ==
  /\ ctl' = "call"
  /\ callee' = [type |-> ItemType(f.type, f.value, f.at), value |-> f.value.items[f.at]]
Return    == ctl' = "return" /\ UNCHANGED callee

Entering(ks) == ctl = "call" /\ Kind(callee.type) \in ks
Running(where, ks) == ctl = where /\ stack # <<>> /\ Kind(Top.type) \in ks
Goto(i) == stack' = [stack EXCEPT ![Len(stack)].at = i]

constant == <<given, pretty>>

-------------------------------------------------------------------------------
(***************************************************************************)
(* What writes in one step, or hands on to what it holds.                  *)
(***************************************************************************)
WriteScalar ==
  /\ Entering({"num", "bool", "string"})
  /\ Write(<<Token(callee.value.lex)>>) /\ Return
  /\ UNCHANGED <<constant, indent, stack>>

WriteNull ==
  /\ \/ Entering({"null", "skip"})
     \/ Entering({"optional"}) /\ callee.value.items = <<>>
  /\ Write(<<Token("null")>>) /\ Return
  /\ UNCHANGED <<constant, indent, stack>>

\* An optional or pointer that holds something, or a variant.
WriteHeld ==
  /\ Entering({"optional", "variant"}) /\ callee.value.items # <<>>
  /\ callee' = [type |-> ItemType(callee.type, callee.value, 1), value |-> callee.value.items[1]]
  /\ UNCHANGED <<constant, out, indent, stack, ctl>>

WriteRaw ==
  /\ Entering({"raw"})
  /\ Write([i \in 1..Len(callee.value.raw) |-> Token(callee.value.raw[i])]) /\ Return
  /\ UNCHANGED <<constant, indent, stack>>

-------------------------------------------------------------------------------
(***************************************************************************)
(* Containers.  An empty one is written at once.                           *)
(***************************************************************************)
Arrays     == {"vector", "array", "tuple"}
Containers == {"object", "map"} \cup Arrays
Opening(t) == IF Kind(t) \in Arrays THEN "[" ELSE "{"
Closing(t) == IF Kind(t) \in Arrays THEN "]" ELSE "}"

WriteEmpty ==
  /\ Entering(Containers) /\ callee.value.items = <<>>
  /\ Write(<<Token(Opening(callee.type)), Token(Closing(callee.type))>>) /\ Return
  /\ UNCHANGED <<constant, indent, stack>>

\* Bug: the indent of an object is that of what holds it.
OpenFlat ==
  /\ Entering(Containers) /\ callee.value.items # <<>>
  /\ stack' = Append(stack, [type |-> callee.type, value |-> callee.value, at |-> 1])
  /\ ctl' = "item"
  /\ indent' = IF pretty /\ Kind(callee.type) # "object" THEN indent + IndentSize ELSE indent
  /\ Write(<<Token(Opening(callee.type))>> \o Line(indent'))
  /\ UNCHANGED <<constant, callee>>

\* A prettified tuple writes its bracket and then open_indent, which has one, too.
Open ==
  /\ Entering(Containers) /\ callee.value.items # <<>>
  /\ stack' = Append(stack, [type |-> callee.type, value |-> callee.value, at |-> 1])
  /\ ctl' = "item"
  /\ indent' = IF pretty THEN indent + IndentSize ELSE indent
  /\ LET b == <<Token(Opening(callee.type))>>
     IN Write((IF pretty /\ Kind(callee.type) = "tuple" THEN b \o b ELSE b) \o Line(indent'))
  /\ UNCHANGED <<constant, callee>>

Close ==
  /\ Running("item", Containers) /\ Top.at > Count(Top)
  /\ indent' = IF pretty THEN indent - IndentSize ELSE indent
  /\ Write(Line(indent') \o <<Token(Closing(Top.type))>>)
  /\ Pop /\ Return
  /\ UNCHANGED constant

Key(t, i) == Schema[t].members[i].key

\* json_entity_serialize::processIndex: an excluded member leaves no trace, not
\* even its separator, which is written after a member that is not the last.
ExcludedMember ==
  /\ Running("item", {"object"}) /\ Top.at <= Count(Top)
  /\ Key(Top.type, Top.at) \in Top.value.excluded
  /\ Goto(Top.at + 1)
  /\ UNCHANGED <<constant, out, indent, ctl, callee>>

Member ==
  /\ Running("item", {"object"}) /\ Top.at <= Count(Top)
  /\ Key(Top.type, Top.at) \notin Top.value.excluded
  /\ Write(<<Token(Key(Top.type, Top.at))>> \o Colon)
  /\ CallItem(Top)
  /\ UNCHANGED <<constant, indent, stack>>

\* Bug: the separator is written after the last member, too.
MemberWrittenAlways ==
  /\ Running("return", {"object"})
  /\ Write(<<Token(",")>> \o Line(indent))
  /\ Goto(Top.at + 1) /\ ctl' = "item"
  /\ UNCHANGED <<constant, indent, callee>>

MemberWritten ==
  /\ Running("return", {"object"})
  /\ Write(IF Top.at < Count(Top) THEN <<Token(",")>> \o Line(indent) ELSE <<>>)
  /\ Goto(Top.at + 1) /\ ctl' = "item"
  /\ UNCHANGED <<constant, indent, callee>>

Separator == IF Top.at > 1 THEN <<Token(",")>> \o Line(indent) ELSE <<>>

Pair ==
  /\ Running("item", {"map"}) /\ Top.at <= Count(Top)
  /\ Write(Separator \o <<Token(Top.value.keys[Top.at])>> \o Colon)
  /\ CallItem(Top)
  /\ UNCHANGED <<constant, indent, stack>>

Element ==
  /\ Running("item", Arrays) /\ Top.at <= Count(Top)
  /\ Write(Separator)
  /\ CallItem(Top)
  /\ UNCHANGED <<constant, indent, stack>>

ItemWritten ==
  /\ Running("return", {"map"} \cup Arrays)
  /\ Goto(Top.at + 1) /\ ctl' = "item"
  /\ UNCHANGED <<constant, out, indent, callee>>

-------------------------------------------------------------------------------
\* serializeJson: from the start of the buffer, whatever it holds.
Init ==
  /\ given \in Arguments /\ pretty \in BOOLEAN /\ callee = given
  /\ out = <<>> /\ indent = 0 /\ stack = <<>> /\ ctl = "call"

Finish ==
  /\ ctl = "return" /\ stack = <<>> /\ ctl' = "done"
  /\ UNCHANGED <<constant, out, indent, stack, callee>>

Simple == WriteScalar \/ WriteNull \/ WriteHeld \/ WriteRaw
Nested == \/ WriteEmpty \/ Open \/ Close
          \/ ExcludedMember \/ Member \/ MemberWritten
          \/ Pair \/ Element \/ ItemWritten

Next == Simple \/ Nested \/ Finish
Spec == Init /\ [][Next]_vars

-------------------------------------------------------------------------------
\* The indent, an unsigned counter, is a level for each container in progress:
\* it is never taken below zero, and every way out of a container takes back
\* what the way in added.
IndentCounts == indent = IF pretty THEN IndentSize * Len(stack) ELSE 0

---------------------------------------------------------------------------------
(***************************************************************************)
(* The indent of the serializer is a level for each container in progress, *)
(* for every type, every value and every indentSize.                       *)
(***************************************************************************)
\* The stack is a sequence of frames of whatever values there are.
StackOk == \E S : stack \in Seq(S)
IInv    == StackOk /\ IndentCounts

\* An item begins, or the next one is turned to: the depth stays.
LEMMA GotoKeeps ==
  ASSUME IInv, stack # <<>>, NEW i, Goto(i), UNCHANGED <<pretty, indent>>
  PROVE  IInv'
<1>1. PICK S : stack \in Seq(S)  BY DEF IInv, StackOk
<1>2. Len(stack) \in 1..Len(stack)  BY <1>1
<1> DEFINE f == [stack[Len(stack)] EXCEPT !.at = i]
<1>3. stack' = [stack EXCEPT ![Len(stack)] = f]  BY DEF Goto
<1>4. stack' \in Seq(S \cup {f}) /\ Len(stack') = Len(stack)
  <2>1. stack \in Seq(S \cup {f})  BY <1>1
  <2> HIDE DEF f
  <2> QED  BY <1>2, <1>3, <2>1
<1>5. StackOk'  BY <1>4 DEF StackOk
<1> QED  BY <1>4, <1>5 DEF IInv, IndentCounts

\* A container's bracket is written: one level more of each.
LEMMA OpenKeeps == ASSUME IInv, Open PROVE IInv'
<1> DEFINE f == [type |-> callee.type, value |-> callee.value, at |-> 1]
<1>1. PICK S : stack \in Seq(S)  BY DEF IInv, StackOk
<1>2. /\ stack' = Append(stack, f) /\ pretty' = pretty
      /\ indent' = IF pretty THEN indent + IndentSize ELSE indent
  BY DEF Open, constant
<1>3. stack' \in Seq(S \cup {f}) /\ Len(stack') = Len(stack) + 1
  <2>1. stack \in Seq(S \cup {f})  BY <1>1
  <2> HIDE DEF f
  <2> QED  BY <1>2, <2>1
<1>4. StackOk'  BY <1>3 DEF StackOk
<1>5. Len(stack) \in Nat  BY <1>1
<1>6. IndentSize * (Len(stack) + 1) = IndentSize * Len(stack) + IndentSize
  BY <1>5, IndentAssumption
<1>7. IndentCounts'  BY <1>2, <1>3, <1>6 DEF IInv, IndentCounts
<1> QED  BY <1>4, <1>7 DEF IInv

\* Its closing bracket is: one level less.
LEMMA CloseKeeps == ASSUME IInv, Close PROVE IInv'
<1>1. PICK S : stack \in Seq(S)  BY DEF IInv, StackOk
<1>2. /\ stack # <<>> /\ stack' = SubSeq(stack, 1, Len(stack) - 1) /\ pretty' = pretty
      /\ indent' = IF pretty THEN indent - IndentSize ELSE indent
  BY DEF Close, constant, Running, Pop
<1>3. Len(stack) \in Nat /\ Len(stack) > 0  BY <1>1, <1>2
<1>4. stack' \in Seq(S) /\ Len(stack') = Len(stack) - 1
  <2> DEFINE n == Len(stack) - 1
  <2>1. n \in Nat /\ \A i \in 1..n : stack[i] \in S  BY <1>1, <1>3
  <2>2. SubSeq(stack, 1, n) \in Seq(S)
    BY <2>1, SubSeqProperties
  <2>3. Len(SubSeq(stack, 1, n)) = IF 1 <= n THEN n - 1 + 1 ELSE 0
    BY <2>1, SubSeqProperties
  <2>4. stack' = SubSeq(stack, 1, n)  BY <1>2
  <2>5. Len(stack) - 1 = n  OBVIOUS
  <2> HIDE DEF n
  <2>6. Len(stack') = n  BY <2>1, <2>3, <2>4
  <2> QED  BY <2>2, <2>4, <2>5, <2>6
<1>5. StackOk'  BY <1>4 DEF StackOk
<1>6. IndentSize * (Len(stack) - 1) = IndentSize * Len(stack) - IndentSize
  BY <1>3, IndentAssumption
<1>7. IndentCounts'  BY <1>2, <1>4, <1>6 DEF IInv, IndentCounts
<1> QED  BY <1>5, <1>7 DEF IInv

\* What touches neither the stack nor the indent.
LEMMA SameKeeps == ASSUME IInv, UNCHANGED <<stack, pretty, indent>> PROVE IInv'
BY DEF IInv, StackOk, IndentCounts

\* Every step keeps both.
LEMMA NextKeeps == ASSUME IInv, [Next]_vars PROVE IInv'
<1>1. CASE Simple
  <2>1. UNCHANGED <<stack, pretty, indent>>
    BY <1>1 DEF Simple, WriteScalar, WriteNull, WriteHeld, WriteRaw, constant
  <2> QED  BY <2>1, SameKeeps
<1>2. CASE WriteEmpty  BY <1>2, SameKeeps DEF WriteEmpty, constant
<1>3. CASE Open  BY <1>3, OpenKeeps
<1>4. CASE Close  BY <1>4, CloseKeeps
<1>5. CASE ExcludedMember  BY <1>5, GotoKeeps DEF ExcludedMember, Running, constant
<1>6. CASE Member  BY <1>6, SameKeeps DEF Member, constant
<1>7. CASE MemberWritten  BY <1>7, GotoKeeps DEF MemberWritten, Running, constant
<1>8. CASE Pair  BY <1>8, SameKeeps DEF Pair, constant
<1>9. CASE Element  BY <1>9, SameKeeps DEF Element, constant
<1>10. CASE ItemWritten  BY <1>10, GotoKeeps DEF ItemWritten, Running, constant
<1>11. CASE Finish  BY <1>11, SameKeeps DEF Finish, constant
<1>12. CASE UNCHANGED vars  BY <1>12, SameKeeps DEF vars
<1> QED
  BY <1>1, <1>2, <1>3, <1>4, <1>5, <1>6, <1>7, <1>8, <1>9, <1>10, <1>11, <1>12
  DEF Next, Nested

\* Whatever the value, indent is indentSize for each container in progress while
\* prettifying and 0 otherwise: context.indent -= indentSize never wraps.
THEOREM IndentCountsAlways == Spec => []IndentCounts
<1>1. Init => IInv
  <2> SUFFICES ASSUME Init PROVE IInv  OBVIOUS
  <2>1. stack = <<>> /\ indent = 0 /\ pretty \in BOOLEAN  BY DEF Init
  <2>2. StackOk
    <3>1. <<>> \in Seq({})  OBVIOUS
    <3> QED  BY <2>1, <3>1 DEF StackOk
  <2>3. Len(stack) = 0 /\ IndentSize * 0 = 0  BY <2>1, IndentAssumption
  <2> QED  BY <2>1, <2>2, <2>3 DEF IInv, IndentCounts
<1>2. IInv /\ [Next]_vars => IInv'  BY NextKeeps
<1>3. IInv => IndentCounts  BY DEF IInv
<1> QED  BY <1>1, <1>2, <1>3, PTL DEF Spec
=================================================================================
