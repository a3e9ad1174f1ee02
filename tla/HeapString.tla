-------------------------------- MODULE HeapString --------------------------------
(***************************************************************************)
(* jsonifier::string: the primary template string_base, whose characters   *)
(* lie in an allocation of capacityVal cells and one for the terminator,   *)
(* or in none.  An operation is a function from the object before it to    *)
(* the one after; freed is what deallocate was last told by it.            *)
(***************************************************************************)
EXTENDS StringCells

CONSTANTS
  NewerSize,      \* the template argument, to which a default object resizes itself
  MaxSize         \* maxSize(), which no text of a run reaches

\* The cells that were allocated and the cells they are given back as.
None == [allocated |-> 0, released |-> 0]
Null == [dataVal |-> <<>>, capacityVal |-> 0, sizeVal |-> 0, freed |-> None]

Released(s, cells) ==
  IF s.capacityVal = 0 THEN s.freed ELSE [allocated |-> s.capacityVal + 1, released |-> cells]

Reallocated(s, capacity, cells) ==
  [s EXCEPT !.dataVal = Written(Filled(Raw, capacity + 1), 0, Content(s)),
            !.capacityVal = capacity, !.freed = Released(s, cells)]

\* Bug: the allocation is given back by its size.
reserveBySize(s, capacityNew) ==
  IF capacityNew > s.capacityVal
  THEN Terminated(Reallocated(s, capacityNew, s.sizeVal + 1)) ELSE s

reserve(s, capacityNew) ==
  IF capacityNew > s.capacityVal
  THEN Terminated(Reallocated(s, capacityNew, s.capacityVal + 1)) ELSE s

\* What append and insert reserve: no cell to spare.
Room(s, n) == IF s.sizeVal + n >= s.capacityVal THEN reserve(s, s.sizeVal + n) ELSE s

\* All cells from the last character to the capacity are constructed.
resize(s, newSize) ==
  LET r == IF newSize > s.capacityVal THEN Reallocated(s, newSize, s.capacityVal) ELSE s
      built == Written(r.dataVal, s.sizeVal, Filled(NUL, r.capacityVal - s.sizeVal))
  IN CASE newSize = 0         -> [s EXCEPT !.sizeVal = 0]
       [] newSize > s.sizeVal -> Sized([r EXCEPT !.dataVal = built], newSize)
       [] newSize < s.sizeVal /\ newSize # 0 -> Sized(s, newSize)
       [] newSize = s.sizeVal /\ newSize # 0 -> s

\* The object a constructor makes of t; of nothing it makes one with no cells.
construct(t) ==
  IF Len(t) > 0 /\ Len(t) < MaxSize THEN Extended(reserve(Null, Len(t)), 0, t) ELSE Null

\* Another object takes its place: swapped with it, or made when it is gone.
Replaced(s, r) == [r EXCEPT !.freed = Released(s, s.capacityVal)]

append(s, t) == IF t = <<>> THEN Room(s, 0) ELSE Extended(Room(s, Len(t)), s.sizeVal, t)

\* Bug: the characters behind the position are written over.
insertOver(s, position, t) ==
  IF t = <<>> THEN s
  ELSE Sized([Room(s, Len(t)) EXCEPT !.dataVal = Written(@, position, t)], s.sizeVal + Len(t))

insert(s, position, t) ==
  IF t = <<>> THEN s ELSE Terminated(Spread(Room(s, Len(t)), position, t))

\* No terminator is written behind the character that moved up.
insertOne(s, position, c) ==
  Spread(IF s.sizeVal + 1 >= s.capacityVal THEN reserve(s, (s.sizeVal + 1) * 2) ELSE s, position, <<c>>)

\* Bug: no room is made while the character itself fits.
emplace_backTight(s, c) ==
  Extended(IF s.sizeVal > s.capacityVal THEN reserve(s, (s.sizeVal + 2) * 4) ELSE s, s.sizeVal, <<c>>)

emplace_back(s, c) ==
  Extended(IF s.sizeVal + 1 >= s.capacityVal THEN reserve(s, (s.sizeVal + 2) * 4) ELSE s, s.sizeVal, <<c>>)

clear(s) == IF s.sizeVal > 0 THEN [s EXCEPT !.dataVal = Written(@, 0, <<NUL>>), !.sizeVal = 0] ELSE s

\* The default object, which is not empty.
New == IF NewerSize > 0 THEN resize(Null, NewerSize) ELSE Null

substr(s, position, count) ==
  LET n == Lesser(count, s.sizeVal - position)
      r == resize(New, n)
  IN IF n = 0 THEN New
     ELSE [r EXCEPT !.dataVal = Written(@, 0, Between(s.dataVal, position, position + n))]
==================================================================================
