------------------------------- MODULE InlineString -------------------------------
(***************************************************************************)
(* string_base for a template argument of at most 16: BufferSize cells of  *)
(* the object itself and one for the terminator.  Nothing is allocated: an *)
(* operation whose result would not leave a cell free does nothing.        *)
(***************************************************************************)
EXTENDS StringCells

CONSTANTS
  InlineSize,     \* the template argument
  BufferSize      \* 16 / sizeof(value_type), which maxSize() answers

Empty == [dataVal |-> Filled(NUL, BufferSize + 1), sizeVal |-> 0]

HasRoom(s, n) == s.sizeVal + n < BufferSize

resize(s, newSize) ==
  LET built == IF newSize > s.sizeVal
               THEN Written(s.dataVal, s.sizeVal, Filled(NUL, newSize - s.sizeVal)) ELSE s.dataVal
  IN IF newSize < BufferSize THEN Sized([s EXCEPT !.dataVal = built], newSize) ELSE s

construct(t) == IF t # <<>> /\ HasRoom(Empty, Len(t)) THEN Extended(Empty, 0, t) ELSE Empty

\* swap exchanges the cells but the last, which no terminator reaches.
Replaced(s, r) ==
  [r EXCEPT !.dataVal = Written(s.dataVal, 0, SubSeq(r.dataVal, 1, BufferSize))]

append(s, t) == IF t # <<>> /\ HasRoom(s, Len(t)) THEN Extended(s, s.sizeVal, t) ELSE s

insert(s, position, t) ==
  IF t # <<>> /\ HasRoom(s, Len(t)) THEN Terminated(Spread(s, position, t)) ELSE s

emplace_back(s, c) == IF HasRoom(s, 1) THEN Extended(s, s.sizeVal, <<c>>) ELSE s

clear(s) == [s EXCEPT !.dataVal = Written(@, 0, <<NUL>>), !.sizeVal = 0]

New == resize(Empty, InlineSize)

substr(s, position, count) ==
  LET n == Lesser(count, s.sizeVal - position)
  IN IF n = 0 THEN New ELSE Extended(New, 0, Between(s.dataVal, position, position + n))
==================================================================================
